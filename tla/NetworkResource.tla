--------------------------- MODULE NetworkResource ---------------------------
(***************************************************************************)
(* The connection registry of src/src/lib.rs: the listener tasks that turn *)
(* datagrams into connections, the receive_packets system that registers   *)
(* connections and reads them, and the three ways a connection ends: a     *)
(* call of disconnect, an idle timeout of heartbeats_and_timeouts, and the *)
(* reuse of its handle.                                                    *)
(*                                                                         *)
(* Listener tasks run on the IO task pool, concurrently with the game loop *)
(* and with each other.  The systems of the game loop take                 *)
(* ResMut<NetworkResource>, so they never overlap.  The two sides share    *)
(* server_channels (an RwLock), pending_connections (a Mutex held for one  *)
(* statement at a time) and the channels themselves.                       *)
(*                                                                         *)
(* A connection object and the channel it reads are one entry of conns,    *)
(* named by its index.  Nothing is removed from conns: a connection is     *)
(* dropped when no Vec, map or local variable owns it any more.            *)
(***************************************************************************)
EXTENDS Integers, Sequences, FiniteSets, Functions

CONSTANTS
  Addr,          \* addresses of remote clients
  Server,        \* what an outgoing connection is connected to
  Listener,      \* the tasks spawned by calls of listen
  HandleMod,     \* number of ConnectionHandle values, 2^32 in the code
  MaxDatagrams,  \* bound: datagrams that arrive from one peer
  MaxConnects,   \* bound: calls of connect
  Bodies         \* bound: what datagrams may hold

ASSUME NetworkAssumption ==
  /\ Server \notin Addr
  /\ HandleMod \in Nat \ {0}
  /\ MaxDatagrams \in Nat
  /\ MaxConnects \in Nat
  /\ Bodies \subseteq {"data", "heartbeat"}

VARIABLES
  \* shared by listener tasks and game loop
  server_channels,      \* the Sender stored for each client address
  writer,               \* who holds the write lock of server_channels
  pending_connections,  \* connections not registered yet
  conns,                \* connection objects, with the channel each reads
  \* listener tasks
  at,                   \* the statement each task is about to execute
  payload,              \* the datagram each task handles
  fresh,                \* the connection each task has pushed, not yet stored
  \* game loop
  connections,          \* the table of registered connections
  connection_sequence,  \* the next handle
  channels_builder,     \* has set_channels_builder been called?
  system,               \* the system that runs
  batch,                \* receive_packets: drained, not registered yet
  visited,              \* receive_packets: handles read until empty
  reading,              \* receive_packets: the handle being read
  silent,               \* heartbeats_and_timeouts: silent_handles to go
  removed,              \* disconnect: the connection it took from the table
  \* observed from outside
  arrived,              \* datagrams that have arrived from each peer
  events                \* what the last step that told something has told

sharedVars   == <<server_channels, writer, pending_connections, conns>>
listenerVars == <<at, payload, fresh>>
tableVars    == <<connections, connection_sequence, channels_builder>>
systemVars   == <<system, batch, visited, reading, silent, removed>>
vars == <<sharedVars, listenerVars, tableVars, systemVars, arrived, events>>

Peer   == Addr \cup {Server}
Handle == 0 .. HandleMod - 1
Conn   == 1 .. Len(conns)
NoConn   == 0
NoHandle == -1

Body   == {"data", "heartbeat", "error"}
Packet == [from : Peer, seq : Nat, body : Body]
NoPacket == [from |-> Server, seq |-> 0, body |-> "heartbeat"]

Connected(h)     == [type |-> "Connected", handle |-> h]
Disconnected(h)  == [type |-> "Disconnected", handle |-> h]
PacketEvent(h,n) == [type |-> "Packet", handle |-> h, seq |-> n]
Passed(h,n)      == [type |-> "Passed", handle |-> h, seq |-> n]
Error(h,e)       == [type |-> "Error", handle |-> h, error |-> e]

-----------------------------------------------------------------------------
(* Ownership *)

Registered(c) == \E h \in Handle : connections[h] = c

\* The application can still get at c, or will be able to.
Live(c) ==
  \/ c \in Range(pending_connections)
  \/ c \in Range(batch)
  \/ Registered(c)

\* c, and with it the Receiver of its channel, has not been dropped.
ReceiverAlive(c) == Live(c) \/ removed = c

\* Some Sender of the channel of c has not been dropped.
SenderAlive(c) ==
  \/ \E a \in Addr : server_channels[a] = c
  \/ \E l \in Listener : fresh[l] = c

FromClient(c) == conns[c].peer # Server

Open == {h \in Handle : connections[h] # NoConn}

-----------------------------------------------------------------------------
(* A listener task *)

\* listen: the new task waits for datagrams.
Listen(l) ==
  /\ system = "idle"
  /\ at[l] = "off"
  /\ at' = [at EXCEPT ![l] = "receive"]
  /\ UNCHANGED <<sharedVars, payload, fresh, tableVars, systemVars, arrived, events>>

\* server_socket.receive() returns a datagram.
ServerReceive(l, a, b) ==
  /\ at[l] = "receive"
  /\ arrived[a] < MaxDatagrams
  /\ arrived' = [arrived EXCEPT ![a] = @ + 1]
  /\ at' = [at EXCEPT ![l] = "lookup"]
  /\ payload' = [payload EXCEPT ![l] =
                   [from |-> a, seq |-> arrived[a] + 1, body |-> b]]
  /\ UNCHANGED <<sharedVars, fresh, tableVars, systemVars, events>>

\* Slip: a channel counts only once receive_packets has registered its reader.
CanForwardToRegistered(l) ==
  LET c == server_channels[payload[l].from]
  IN  c # NoConn /\ Registered(c)

\* Under the read lock: send to the channel of the address, if it has one and
\* its Receiver is alive.
CanForward(l) ==
  LET c == server_channels[payload[l].from]
  IN  c # NoConn /\ ReceiverAlive(c)

Forward(l) ==
  /\ at[l] = "lookup"
  /\ writer = {}
  /\ CanForward(l)
  /\ conns' = [conns EXCEPT ![server_channels[payload[l].from]].rx =
                 Append(@, payload[l])]
  /\ at' = [at EXCEPT ![l] = "receive"]
  /\ payload' = [payload EXCEPT ![l] = NoPacket]
  /\ UNCHANGED <<server_channels, writer, pending_connections, fresh,
                 tableVars, systemVars, arrived, events>>

\* Slip: the read lock is still held where the write lock is asked for.
NeedsNewChannelKeepingLock(l) ==
  /\ at[l] = "lookup"
  /\ writer = {}
  /\ ~ CanForward(l)
  /\ at' = [at EXCEPT ![l] = "write"]
  /\ writer' = {l}
  /\ UNCHANGED <<server_channels, pending_connections, conns, payload, fresh,
                 tableVars, systemVars, arrived, events>>

NeedsNewChannel(l) ==
  /\ at[l] = "lookup"
  /\ writer = {}
  /\ ~ CanForward(l)
  /\ at' = [at EXCEPT ![l] = "write"]
  /\ UNCHANGED <<sharedVars, payload, fresh, tableVars, systemVars, arrived, events>>

\* Slip: the datagram that asked for the channel is not sent to it.
ServerConnectionOnly(p) == [peer |-> p.from, rx |-> <<>>, channels |-> FALSE]

\* A new channel that holds the datagram, and the connection that reads it.
ServerConnection(p) == [peer |-> p.from, rx |-> <<p>>, channels |-> FALSE]

\* Take the write lock, make the channel, and push the connection.
PushConnection(l) ==
  LET c == Len(conns) + 1
  IN  /\ at[l] = "write"
      /\ writer = {}
      /\ writer' = {l}
      /\ conns' = Append(conns, ServerConnection(payload[l]))
      /\ pending_connections' = Append(pending_connections, c)
      /\ fresh' = [fresh EXCEPT ![l] = c]
      /\ at' = [at EXCEPT ![l] = "insert"]
      /\ UNCHANGED <<server_channels, payload, tableVars, systemVars, arrived, events>>

\* Store the Sender, dropping the one stored before, and unlock.
StoreChannel(l) ==
  /\ at[l] = "insert"
  /\ server_channels' = [server_channels EXCEPT ![payload[l].from] = fresh[l]]
  /\ writer' = {}
  /\ fresh' = [fresh EXCEPT ![l] = NoConn]
  /\ at' = [at EXCEPT ![l] = "receive"]
  /\ payload' = [payload EXCEPT ![l] = NoPacket]
  /\ UNCHANGED <<pending_connections, conns, tableVars, systemVars, arrived, events>>

-----------------------------------------------------------------------------
(* Calls the application makes between systems *)

SetChannelsBuilder ==
  /\ system = "idle"
  /\ channels_builder' = TRUE
  /\ UNCHANGED <<sharedVars, listenerVars, connections, connection_sequence,
                 systemVars, arrived, events>>

Connect ==
  /\ system = "idle"
  /\ Cardinality({c \in Conn : ~ FromClient(c)}) < MaxConnects
  /\ conns' = Append(conns, [peer |-> Server, rx |-> <<>>, channels |-> FALSE])
  /\ pending_connections' = Append(pending_connections, Len(conns) + 1)
  /\ UNCHANGED <<server_channels, writer, listenerVars, tableVars, systemVars,
                 arrived, events>>

\* The socket of an outgoing connection has a datagram, or an error, to return.
SocketArrival(c, b) ==
  /\ ~ FromClient(c)
  /\ ReceiverAlive(c)
  /\ arrived[Server] < MaxDatagrams
  /\ arrived' = [arrived EXCEPT ![Server] = @ + 1]
  /\ conns' = [conns EXCEPT ![c].rx =
                 Append(@, [from |-> Server, seq |-> arrived[Server] + 1, body |-> b])]
  /\ UNCHANGED <<server_channels, writer, pending_connections, listenerVars,
                 tableVars, systemVars, events>>

-----------------------------------------------------------------------------
(* The receive_packets system *)

\* Slip: an early return when no connection is pending.
DrainPendingIfAny ==
  /\ system = "idle"
  /\ pending_connections # <<>>
  /\ system' = "receive_packets"
  /\ batch' = pending_connections
  /\ pending_connections' = <<>>
  /\ UNCHANGED <<server_channels, writer, conns, listenerVars, tableVars,
                 visited, reading, silent, removed, arrived, events>>

DrainPending ==
  /\ system = "idle"
  /\ system' = "receive_packets"
  /\ batch' = pending_connections
  /\ pending_connections' = <<>>
  /\ UNCHANGED <<server_channels, writer, conns, listenerVars, tableVars,
                 visited, reading, silent, removed, arrived, events>>

\* Slip: a counter that does not wrap.
NextHandleUnbounded(h) == h + 1

\* fetch_add wraps around.
NextHandle(h) == (h + 1) % HandleMod

\* A connection that has the handle already is dropped, like any value that
\* HashMap::insert replaces.
Register ==
  LET c == Head(batch)
      h == connection_sequence
  IN  /\ system = "receive_packets"
      /\ batch # <<>>
      /\ batch' = Tail(batch)
      /\ connection_sequence' = NextHandle(h)
      /\ conns' = [conns EXCEPT ![c].channels = channels_builder]
      /\ connections' = [connections EXCEPT ![h] = c]
      /\ events' = <<Connected(h)>>
      /\ UNCHANGED <<server_channels, writer, pending_connections, listenerVars,
                     channels_builder, system, visited, reading, silent, removed,
                     arrived>>

\* The loops over net.connections: one connection is read until it has nothing
\* more, then any of those not visited yet.
MayRead(h) ==
  /\ system = "receive_packets"
  /\ batch = <<>>
  /\ h \in Open \ visited
  /\ reading \in {NoHandle, h}

\* Slip: what the message channels refuse is forgotten.
DispatchUntold(h, p, channels) ==
  \/ p.body = "heartbeat" /\ UNCHANGED events
  \/ p.body = "error" /\ events' = <<Error(h, "IoError")>>
  \/ p.body = "data" /\ ~ channels /\ events' = <<PacketEvent(h, p.seq)>>
  \/ p.body = "data" /\ channels /\ (events' = <<Passed(h, p.seq)>> \/ UNCHANGED events)

\* A heartbeat is discarded.  Data is passed to the message channels, which may
\* refuse it, or told the application.
Dispatch(h, p, channels) ==
  \/ p.body = "heartbeat" /\ UNCHANGED events
  \/ p.body = "error" /\ events' = <<Error(h, "IoError")>>
  \/ p.body = "data" /\ ~ channels /\ events' = <<PacketEvent(h, p.seq)>>
  \/ /\ p.body = "data"
     /\ channels
     /\ \/ events' = <<Passed(h, p.seq)>>
        \/ events' = <<Error(h, "TurbulenceChannelError")>>

ReceivePacket(h) ==
  LET c == connections[h]
  IN  /\ MayRead(h)
      /\ conns[c].rx # <<>>
      /\ Dispatch(h, Head(conns[c].rx), conns[c].channels)
      /\ conns' = [conns EXCEPT ![c].rx = Tail(@)]
      /\ reading' = h
      /\ UNCHANGED <<server_channels, writer, pending_connections, listenerVars,
                     tableVars, system, batch, visited, silent, removed, arrived>>

\* The channel is empty and its Sender is gone: receive() reports an error now
\* and every time it is called again, so the loop on h goes on.
ReceiveDisconnected(h) ==
  LET c == connections[h]
  IN  /\ MayRead(h)
      /\ conns[c].rx = <<>>
      /\ FromClient(c) /\ ~ SenderAlive(c)
      /\ events' = <<Error(h, "Disconnected")>>
      /\ reading' = h
      /\ UNCHANGED <<sharedVars, listenerVars, tableVars, system, batch, visited,
                     silent, removed, arrived>>

ReceiveNothing(h) ==
  LET c == connections[h]
  IN  /\ MayRead(h)
      /\ conns[c].rx = <<>>
      /\ FromClient(c) => SenderAlive(c)
      /\ visited' = visited \cup {h}
      /\ reading' = NoHandle
      /\ UNCHANGED <<sharedVars, listenerVars, tableVars, system, batch,
                     silent, removed, arrived, events>>

FinishReceive ==
  /\ system = "receive_packets"
  /\ batch = <<>>
  /\ Open \subseteq visited
  /\ system' = "idle"
  /\ visited' = {}
  /\ UNCHANGED <<sharedVars, listenerVars, tableVars, batch, reading, silent,
                 removed, arrived, events>>

-----------------------------------------------------------------------------
(* disconnect, and the idle timeouts that call it *)

\* The first half of disconnect: take the connection from the table.
TakeFromTable(h) ==
  /\ removed' = connections[h]
  /\ connections' = [connections EXCEPT ![h] = NoConn]

Disconnect(h) ==
  /\ system = "idle"
  /\ h \in Open
  /\ system' = "disconnect"
  /\ TakeFromTable(h)
  /\ UNCHANGED <<sharedVars, listenerVars, connection_sequence, channels_builder,
                 batch, visited, reading, silent, arrived, events>>

\* Any connections may have been silent for too long.
FindSilent(S) ==
  /\ system = "idle"
  /\ S # {}
  /\ system' = "heartbeats_and_timeouts"
  /\ silent' = S
  /\ UNCHANGED <<sharedVars, listenerVars, tableVars, batch, visited, reading,
                 removed, arrived, events>>

IdleDisconnect(h) ==
  /\ system = "heartbeats_and_timeouts"
  /\ removed = NoConn
  /\ h \in silent
  /\ events' = <<Error(h, "MissedHeartbeat"), Disconnected(h)>>
  /\ silent' = silent \ {h}
  /\ TakeFromTable(h)
  /\ UNCHANGED <<sharedVars, listenerVars, connection_sequence, channels_builder,
                 system, batch, visited, reading, arrived>>

\* Slip: the Sender is removed without the write lock.
DropRemovedUnlocked ==
  /\ removed # NoConn
  /\ server_channels' = [a \in Addr |-> IF a = conns[removed].peer
                                       THEN NoConn ELSE server_channels[a]]
  /\ removed' = NoConn
  /\ system' = IF silent = {} THEN "idle" ELSE system
  /\ UNCHANGED <<writer, pending_connections, conns, listenerVars, tableVars,
                 batch, visited, reading, silent, arrived, events>>

\* The second half of disconnect: under the write lock remove the Sender stored
\* for the address, then drop the connection.  An outgoing one has no address.
DropRemoved ==
  LET a == conns[removed].peer
  IN  /\ removed # NoConn
      /\ \/ /\ a \in Addr
            /\ writer = {}
            /\ server_channels' = [server_channels EXCEPT ![a] = NoConn]
         \/ a = Server /\ UNCHANGED server_channels
      /\ removed' = NoConn
      /\ system' = IF silent = {} THEN "idle" ELSE system
      /\ UNCHANGED <<writer, pending_connections, conns, listenerVars, tableVars,
                     batch, visited, reading, silent, arrived, events>>

-----------------------------------------------------------------------------

Init ==
  /\ server_channels = [a \in Addr |-> NoConn]
  /\ writer = {}
  /\ pending_connections = <<>>
  /\ conns = <<>>
  /\ at = [l \in Listener |-> "off"]
  /\ payload = [l \in Listener |-> NoPacket]
  /\ fresh = [l \in Listener |-> NoConn]
  /\ connections = [h \in Handle |-> NoConn]
  /\ connection_sequence = 0
  /\ channels_builder = FALSE
  /\ system = "idle"
  /\ batch = <<>>
  /\ visited = {}
  /\ reading = NoHandle
  /\ silent = {}
  /\ removed = NoConn
  /\ arrived = [p \in Peer |-> 0]
  /\ events = <<>>

ListenerTask(l) ==
  \/ Forward(l) \/ NeedsNewChannel(l) \/ PushConnection(l) \/ StoreChannel(l)

ReceivePackets ==
  \/ Register
  \/ \E h \in Handle : ReceivePacket(h) \/ ReceiveDisconnected(h) \/ ReceiveNothing(h)
  \/ FinishReceive

Environment ==
  \/ \E l \in Listener, a \in Addr, b \in Bodies : ServerReceive(l, a, b)
  \/ \E c \in Conn, b \in Bodies \cup {"error"} : SocketArrival(c, b)

Application ==
  \/ \E l \in Listener : Listen(l)
  \/ SetChannelsBuilder
  \/ Connect
  \/ \E h \in Handle : Disconnect(h)
  \/ \E S \in SUBSET Open : FindSilent(S)

Next ==
  \/ Environment
  \/ \E l \in Listener : ListenerTask(l)
  \/ Application
  \/ DrainPending
  \/ ReceivePackets
  \/ \E h \in Handle : IdleDisconnect(h)
  \/ DropRemoved

Spec == Init /\ [][Next]_vars

(***************************************************************************)
(* Threads and frames go on: a listener task that can take a step takes    *)
(* one, the schedule runs receive_packets again when it is idle, and a     *)
(* system that has started runs to its end.  Nothing is assumed of the     *)
(* network or of the application.                                          *)
(***************************************************************************)
Fairness ==
  /\ \A l \in Listener : WF_vars(ListenerTask(l))
  /\ WF_vars(DrainPending)
  /\ WF_vars(ReceivePackets)
  /\ WF_vars(\E h \in Handle : IdleDisconnect(h))
  /\ WF_vars(DropRemoved)

FairSpec == Spec /\ Fairness

-----------------------------------------------------------------------------
(* Properties *)

ConnObject == [peer : Peer, rx : Seq(Packet), channels : BOOLEAN]

TypeOK ==
  /\ server_channels \in [Addr -> Conn \cup {NoConn}]
  /\ writer \in SUBSET Listener
  /\ pending_connections \in Seq(Conn)
  /\ conns \in Seq(ConnObject)
  /\ at \in [Listener -> {"off", "receive", "lookup", "write", "insert"}]
  /\ payload \in [Listener -> Packet]
  /\ fresh \in [Listener -> Conn \cup {NoConn}]
  /\ connections \in [Handle -> Conn \cup {NoConn}]
  /\ connection_sequence \in Handle
  /\ channels_builder \in BOOLEAN
  /\ system \in {"idle", "receive_packets", "heartbeats_and_timeouts", "disconnect"}
  /\ batch \in Seq(Conn)
  /\ visited \in SUBSET Handle
  /\ reading \in Handle \cup {NoHandle}
  /\ silent \in SUBSET Handle
  /\ removed \in Conn \cup {NoConn}
  /\ arrived \in [Peer -> Nat]

\* No handle has been given out twice.
NoWrap == Len(conns) <= HandleMod

(***************************************************************************)
(* Until the handles wrap around, a stored Sender has a Receiver: however  *)
(* disconnect interleaves with a task that has pushed a connection and not *)
(* yet stored its Sender, no Sender of a dropped connection stays behind.  *)
(* Hence "Server can't send to channel, recreating" is never logged.       *)
(***************************************************************************)
NoStaleSender ==
  NoWrap => \A a \in Addr : server_channels[a] # NoConn =>
                              ReceiverAlive(server_channels[a])

(***************************************************************************)
(* With one listener, a client connection the application can reach still  *)
(* has the Sender of its channel: receive never reports Disconnected, and  *)
(* the client's next datagram goes to that connection and no other.        *)
(***************************************************************************)
NoOrphanedReceiver ==
  \A c \in Conn : Live(c) /\ FromClient(c) =>
    \/ server_channels[conns[c].peer] = c
    \/ \E l \in Listener : fresh[l] = c

(***************************************************************************)
(* The comment of listen says that the write lock is for a channel that    *)
(* does not exist or has to be made again: no connection is made for an    *)
(* address whose stored Sender works.                                      *)
(***************************************************************************)
WriteLockOnlyWhenNeeded ==
  [][\A l \in Listener :
       at[l] = "write" /\ at'[l] = "insert" =>
         LET c == server_channels[payload[l].from]
         IN  c = NoConn \/ ~ ReceiverAlive(c)]_vars

\* receive_packets, which blocks the game loop, comes to an end: no connection
\* keeps it in the while loop.
ReceivePacketsReturns == system = "receive_packets" ~> system = "idle"

\* A listener task that has received a datagram goes back to its socket: it is
\* never stuck at a lock.
DatagramIsHandled ==
  \A l \in Listener : at[l] \in {"lookup", "write", "insert"} ~> at[l] = "receive"

\* What is in the channel of a connection is read, unless the connection is
\* closed first.
BacklogIsRead ==
  \A c \in 1 .. MaxConnects + MaxDatagrams * Cardinality(Addr) :
    (c \in Conn /\ Live(c) /\ conns[c].rx # <<>>)
      ~> (~ Live(c) \/ conns[c].rx = <<>>)

-----------------------------------------------------------------------------
(***************************************************************************)
(* What the registry is to the application: ConnectionService.  A datagram *)
(* belongs to the service once a task has put it in a channel.             *)
(***************************************************************************)
ServiceStatus(c) ==
  CASE c \in Range(pending_connections) \cup Range(batch) -> "waiting"
    [] Registered(c) -> "open"
    [] removed = c -> "closing"
    [] OTHER -> "closed"

ServiceHandle(c) ==
  IF Registered(c) THEN CHOOSE h \in Handle : connections[h] = c ELSE NoHandle

ServiceConns ==
  [c \in Conn |->
    [peer   |-> conns[c].peer,
     status |-> ServiceStatus(c),
     handle |-> ServiceHandle(c),
     inbox  |-> IF ReceiverAlive(c) THEN conns[c].rx ELSE <<>>]]

InHand(p) ==
  Cardinality({l \in Listener : at[l] \in {"lookup", "write"} /\ payload[l].from = p})

Service == INSTANCE ConnectionService WITH
  service <- ServiceConns, last <- [p \in Peer |-> arrived[p] - InHand(p)]

(***************************************************************************)
(* With one listener the registry implements the service: every client has *)
(* one connection at a time, a datagram is delivered once, in order, to    *)
(* the connection it was accepted for, and is lost only when that          *)
(* connection is closed.                                                   *)
(***************************************************************************)
ImplementsService == Service!Spec
=============================================================================
