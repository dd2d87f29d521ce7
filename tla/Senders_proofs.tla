--------------------------- MODULE Senders_proofs ---------------------------
(***************************************************************************)
(* A stored Sender and the Receiver of its channel come and go together:   *)
(* NoStaleSender, for any number of listeners.                             *)
(***************************************************************************)
EXTENDS NetworkResource_proofs

-----------------------------------------------------------------------------
(* The elements of a list of connections *)

LEMMA RangeOfEmpty == Range(<<>>) = {}
  BY DEF Range

LEMMA RangeOfAppend ==
  ASSUME NEW S, NEW s \in Seq(S), NEW x \in S
  PROVE  Range(Append(s, x)) = Range(s) \cup {x}
  <1>1. DOMAIN Append(s, x) = (DOMAIN s) \cup {Len(s) + 1}
    OBVIOUS
  <1>2. \A i \in DOMAIN s : Append(s, x)[i] = s[i]
    OBVIOUS
  <1>3. Append(s, x)[Len(s) + 1] = x
    OBVIOUS
  <1> QED
    BY <1>1, <1>2, <1>3, Zenon DEF Range

LEMMA RangeOfTail ==
  ASSUME NEW S, NEW s \in Seq(S), s # <<>>
  PROVE  Range(s) = Range(Tail(s)) \cup {Head(s)}
  <1>1. \A i \in DOMAIN s : i = 1 \/ (i - 1 \in DOMAIN Tail(s) /\ s[i] = Tail(s)[i - 1])
    OBVIOUS
  <1>2. \A i \in DOMAIN Tail(s) : i + 1 \in DOMAIN s /\ Tail(s)[i] = s[i + 1]
    OBVIOUS
  <1>3. 1 \in DOMAIN s /\ s[1] = Head(s)
    <2>1. Len(s) \in Nat \ {0} /\ DOMAIN s = 1 .. Len(s)
      BY EmptySeq, LenProperties
    <2> QED
      BY <2>1
  <1>4. ASSUME NEW x \in Range(s) PROVE x = Head(s) \/ x \in Range(Tail(s))
    <2>1. PICK i \in DOMAIN s : x = s[i]
      BY <1>4 DEF Range
    <2>2. CASE i = 1
      BY <1>3, <2>1, <2>2
    <2>3. CASE i - 1 \in DOMAIN Tail(s) /\ s[i] = Tail(s)[i - 1]
      BY <2>1, <2>3 DEF Range
    <2> QED
      BY <1>1, <2>2, <2>3
  <1>5. Range(Tail(s)) \subseteq Range(s)
    BY <1>2 DEF Range
  <1>6. Head(s) \in Range(s)
    BY <1>3 DEF Range
  <1> QED
    BY <1>4, <1>5, <1>6

LEMMA RangeTyped ==
  ASSUME NEW S, NEW s \in Seq(S)
  PROVE  Range(s) \subseteq S
  BY DEF Range

-----------------------------------------------------------------------------
(* What a step does to the connections, whatever its action *)

PeersKept ==
  /\ Len(conns') >= Len(conns)
  /\ \A c \in Conn : c \in Conn' /\ conns'[c].peer = conns[c].peer

\* No connection changes its owner.
SameOwners ==
  /\ Len(conns') = Len(conns)
  /\ UNCHANGED <<pending_connections, batch, connections, connection_sequence, removed>>

\* A connection is made for p and waits.
Made(p) ==
  /\ Len(conns') = Len(conns) + 1
  /\ conns'[Len(conns) + 1].peer = p
  /\ pending_connections' = Append(pending_connections, Len(conns) + 1)
  /\ UNCHANGED <<batch, connections, connection_sequence, system, removed>>

\* A connection is taken from the table.
Taken(h) ==
  /\ removed = NoConn
  /\ TakeFromTable(h)
  /\ UNCHANGED <<conns, pending_connections, batch, connection_sequence>>

\* Connections are registered by receive_packets only, and the systems do not
\* overlap with disconnect.
SystemInv ==
  /\ system # "receive_packets" => batch = <<>>
  /\ system \in {"idle", "receive_packets"} => removed = NoConn

LEMMA RxKeepsPeers ==
  ASSUME NEW s \in Seq(ConnObject), NEW c \in 1 .. Len(s), NEW q
  PROVE  LET t == [s EXCEPT ![c].rx = q]
         IN  Len(t) = Len(s) /\ \A d \in 1 .. Len(s) : t[d].peer = s[d].peer
  <1>1. s[c] \in ConnObject
    OBVIOUS
  <1>2. [s[c] EXCEPT !.rx = q].peer = s[c].peer
    BY <1>1 DEF ConnObject
  <1> QED
    BY <1>2

LEMMA ChannelsKeepPeers ==
  ASSUME NEW s \in Seq(ConnObject), NEW c \in 1 .. Len(s), NEW b
  PROVE  LET t == [s EXCEPT ![c].channels = b]
         IN  Len(t) = Len(s) /\ \A d \in 1 .. Len(s) : t[d].peer = s[d].peer
  <1>1. s[c] \in ConnObject
    OBVIOUS
  <1>2. [s[c] EXCEPT !.channels = b].peer = s[c].peer
    BY <1>1 DEF ConnObject
  <1> QED
    BY <1>2

LEMMA AppendKeepsPeers ==
  ASSUME NEW s \in Seq(ConnObject), NEW x
  PROVE  LET t == Append(s, x)
         IN  /\ Len(t) = Len(s) + 1
             /\ t[Len(s) + 1] = x
             /\ \A d \in 1 .. Len(s) : t[d].peer = s[d].peer
  OBVIOUS

Effect ==
  /\ PeersKept
  /\ \/ SameOwners
     \/ \E p \in Peer : Made(p)
     \/ DrainPending
     \/ Register
     \/ \E h \in Handle : Taken(h)
     \/ DropRemoved

LEMMA StepEffects == TypeOK /\ SystemInv /\ [Next]_vars => Effect
<1> SUFFICES ASSUME TypeOK, SystemInv, [Next]_vars PROVE Effect
  OBVIOUS
<1> USE DEF Effect
<1>a. conns \in Seq(ConnObject) /\ Len(conns) \in Nat /\ Conn = 1 .. Len(conns)
  BY DEF TypeOK, Conn
<1>b. ASSUME UNCHANGED conns PROVE PeersKept /\ Len(conns') = Len(conns)
  BY <1>a, <1>b DEF PeersKept, Conn
<1>c. ASSUME NEW c \in Conn, NEW q, conns' = [conns EXCEPT ![c].rx = q]
      PROVE  PeersKept /\ Len(conns') = Len(conns)
  BY <1>a, <1>c, RxKeepsPeers DEF PeersKept, Conn
<1>d. ASSUME NEW x, conns' = Append(conns, x)
      PROVE  PeersKept /\ Len(conns') = Len(conns) + 1 /\ conns'[Len(conns) + 1] = x
  BY <1>a, <1>d, AppendKeepsPeers DEF PeersKept, Conn
<1>1. ASSUME NEW l \in Listener, Listen(l) PROVE Effect
  BY <1>1, <1>b DEF Listen, sharedVars, tableVars, systemVars, SameOwners
<1>2. ASSUME NEW l \in Listener, NEW a \in Addr, NEW b \in Bodies, ServerReceive(l, a, b)
      PROVE Effect
  BY <1>2, <1>b DEF ServerReceive, sharedVars, tableVars, systemVars, SameOwners
<1>3. ASSUME NEW l \in Listener, Forward(l) PROVE Effect
  <2> DEFINE c == server_channels[payload[l].from]
  <2>1. CASE c \in Conn
    BY <1>3, <1>c, <2>1 DEF Forward, tableVars, systemVars, SameOwners
  <2>2. CASE c \notin Conn
    <3>1. conns' = conns
      BY <1>a, <1>3, <2>2 DEF Forward
    <3> QED
      BY <1>3, <1>b, <3>1 DEF Forward, tableVars, systemVars, SameOwners
  <2> QED
    BY <2>1, <2>2
<1>4. ASSUME NEW l \in Listener, NeedsNewChannel(l) PROVE Effect
  BY <1>4, <1>b DEF NeedsNewChannel, sharedVars, tableVars, systemVars, SameOwners
<1>5. ASSUME NEW l \in Listener, PushConnection(l) PROVE Effect
  <2>1. payload[l].from \in Peer
    BY PacketFields DEF TypeOK
  <2> QED
    BY <1>5, <1>d, <2>1 DEF PushConnection, ServerConnection, tableVars, systemVars, Made
<1>6. ASSUME NEW l \in Listener, StoreChannel(l) PROVE Effect
  BY <1>6, <1>b DEF StoreChannel, tableVars, systemVars, SameOwners
<1>7. CASE SetChannelsBuilder
  BY <1>7, <1>b DEF SetChannelsBuilder, sharedVars, systemVars, SameOwners
<1>8. CASE Connect
  BY <1>8, <1>d DEF Connect, tableVars, systemVars, Made, Peer
<1>9. ASSUME NEW c \in Conn, NEW b \in Bodies \cup {"error"}, SocketArrival(c, b)
      PROVE Effect
  BY <1>9, <1>c DEF SocketArrival, tableVars, systemVars, SameOwners
<1>10. CASE DrainPending
  BY <1>10, <1>b DEF DrainPending
<1>11. CASE Register
  <2>1. Head(batch) \in Conn
    BY <1>11 DEF Register, TypeOK
  <2>2. PeersKept
    BY <1>11, <1>a, <2>1, ChannelsKeepPeers DEF Register, PeersKept, Conn
  <2> QED
    BY <1>11, <2>2
<1>12. ASSUME NEW h \in Handle, ReceivePacket(h) PROVE Effect
  <2>1. connections[h] \in Conn
    BY <1>12 DEF ReceivePacket, MayRead, Open, TypeOK
  <2> QED
    BY <1>12, <1>c, <2>1 DEF ReceivePacket, tableVars, SameOwners
<1>13. ASSUME NEW h \in Handle, ReceiveDisconnected(h) PROVE Effect
  BY <1>13, <1>b DEF ReceiveDisconnected, sharedVars, tableVars, SameOwners
<1>14. ASSUME NEW h \in Handle, ReceiveNothing(h) PROVE Effect
  BY <1>14, <1>b DEF ReceiveNothing, sharedVars, tableVars, SameOwners
<1>15. CASE FinishReceive
  BY <1>15, <1>b DEF FinishReceive, sharedVars, tableVars, SameOwners
<1>16. ASSUME NEW h \in Handle, Disconnect(h) PROVE Effect
  <2>1. Taken(h)
    BY <1>16 DEF Disconnect, sharedVars, Taken, SystemInv
  <2> QED
    BY <1>b, <2>1 DEF Taken
<1>17. ASSUME NEW S \in SUBSET Open, FindSilent(S) PROVE Effect
  BY <1>17, <1>b DEF FindSilent, sharedVars, tableVars, SameOwners
<1>18. ASSUME NEW h \in Handle, IdleDisconnect(h) PROVE Effect
  <2>1. Taken(h)
    BY <1>18 DEF IdleDisconnect, sharedVars, Taken
  <2> QED
    BY <1>b, <2>1 DEF Taken
<1>19. CASE DropRemoved
  BY <1>19, <1>b DEF DropRemoved
<1>20. CASE UNCHANGED vars
  BY <1>20, <1>b DEF vars, sharedVars, tableVars, systemVars, SameOwners
<1> QED
  BY <1>1, <1>2, <1>3, <1>4, <1>5, <1>6, <1>7, <1>8, <1>9, <1>10, <1>11, <1>12,
     <1>13, <1>14, <1>15, <1>16, <1>17, <1>18, <1>19, <1>20
     DEF Next, Environment, ListenerTask, Application, ReceivePackets

LEMMA SystemInvHolds == TypeOK /\ SystemInv /\ [Next]_vars => SystemInv'
<1> SUFFICES ASSUME TypeOK, SystemInv, [Next]_vars PROVE SystemInv'
  OBVIOUS
<1> USE DEF SystemInv, NoConn
<1>1. ASSUME NEW l \in Listener, Listen(l) PROVE SystemInv'
  BY <1>1 DEF Listen, systemVars
<1>2. ASSUME NEW l \in Listener, NEW a \in Addr, NEW b \in Bodies, ServerReceive(l, a, b)
      PROVE SystemInv'
  BY <1>2 DEF ServerReceive, systemVars
<1>3. ASSUME NEW l \in Listener, ListenerTask(l) PROVE SystemInv'
  BY <1>3 DEF ListenerTask, Forward, NeedsNewChannel, PushConnection, StoreChannel, systemVars
<1>4. CASE SetChannelsBuilder \/ Connect
  BY <1>4 DEF SetChannelsBuilder, Connect, systemVars
<1>5. ASSUME NEW c \in Conn, NEW b \in Bodies \cup {"error"}, SocketArrival(c, b)
      PROVE SystemInv'
  BY <1>5 DEF SocketArrival, systemVars
<1>6. CASE DrainPending
  BY <1>6 DEF DrainPending
<1>7. CASE Register
  BY <1>7 DEF Register
<1>8. ASSUME NEW h \in Handle, ReceivePacket(h) \/ ReceiveDisconnected(h) \/ ReceiveNothing(h)
      PROVE SystemInv'
  BY <1>8 DEF ReceivePacket, ReceiveDisconnected, ReceiveNothing
<1>9. CASE FinishReceive
  BY <1>9 DEF FinishReceive
<1>10. ASSUME NEW h \in Handle, Disconnect(h) \/ IdleDisconnect(h) PROVE SystemInv'
  BY <1>10 DEF Disconnect, IdleDisconnect
<1>11. ASSUME NEW S \in SUBSET Open, FindSilent(S) PROVE SystemInv'
  BY <1>11 DEF FindSilent
<1>12. CASE DropRemoved
  BY <1>12 DEF DropRemoved
<1>13. CASE UNCHANGED vars
  BY <1>13 DEF vars, systemVars
<1> QED
  BY <1>1, <1>2, <1>3, <1>4, <1>5, <1>6, <1>7, <1>8, <1>9, <1>10, <1>11, <1>12, <1>13
     DEF Next, Environment, Application, ReceivePackets

-----------------------------------------------------------------------------
(* The window between the push of a connection and the store of its Sender *)

\* Who is in it holds the write lock, and has a connection of the address whose
\* datagram it handles.
TaskInv(l) ==
  /\ at[l] \in {"lookup", "write", "insert"} => payload[l].from \in Addr
  /\ at[l] = "insert" =>
       /\ writer = {l}
       /\ fresh[l] \in Conn
       /\ conns[fresh[l]].peer = payload[l].from
  /\ at[l] # "insert" => fresh[l] = NoConn

ListenerInv == \A l \in Listener : TaskInv(l)

\* A Sender is stored under the address of its connection.
AddressInv ==
  \A a \in Addr : server_channels[a] # NoConn => conns[server_channels[a]].peer = a

LEMMA ListenerInvHolds ==
  TypeOK /\ SystemInv /\ ListenerInv /\ [Next]_vars => ListenerInv'
<1> SUFFICES ASSUME TypeOK, SystemInv, ListenerInv, [Next]_vars,
                    NEW k \in Listener
             PROVE  TaskInv(k)'
  BY DEF ListenerInv
<1> USE DEF ListenerInv, TaskInv
<1>a. PeersKept
  BY StepEffects DEF Effect
<1>b. ASSUME UNCHANGED listenerVars, UNCHANGED writer PROVE TaskInv(k)'
  BY <1>a, <1>b DEF PeersKept, listenerVars
<1>1. ASSUME NEW l \in Listener, Listen(l) PROVE TaskInv(k)'
  BY <1>1, <1>a DEF Listen, sharedVars, PeersKept, TypeOK
<1>2. ASSUME NEW l \in Listener, NEW a \in Addr, NEW b \in Bodies, ServerReceive(l, a, b)
      PROVE TaskInv(k)'
  BY <1>2, <1>a DEF ServerReceive, sharedVars, PeersKept, TypeOK
<1>3. ASSUME NEW l \in Listener, Forward(l) PROVE TaskInv(k)'
  BY <1>3, <1>a DEF Forward, PeersKept, TypeOK
<1>4. ASSUME NEW l \in Listener, NeedsNewChannel(l) PROVE TaskInv(k)'
  BY <1>4, <1>a DEF NeedsNewChannel, sharedVars, PeersKept, TypeOK
<1>5. ASSUME NEW l \in Listener, PushConnection(l) PROVE TaskInv(k)'
  <2>1. /\ conns' = Append(conns, ServerConnection(payload[l]))
        /\ fresh' = [fresh EXCEPT ![l] = Len(conns) + 1]
        /\ at' = [at EXCEPT ![l] = "insert"]
        /\ writer = {} /\ writer' = {l} /\ payload' = payload
        /\ at[l] = "write"
    BY <1>5 DEF PushConnection
  <2>2. conns'[Len(conns) + 1].peer = payload[l].from /\ Len(conns) + 1 \in Conn'
    BY <2>1 DEF ServerConnection, TypeOK, Conn
  <2>3. CASE k = l
    BY <2>1, <2>2, <2>3 DEF TypeOK
  <2>4. CASE k # l
    BY <2>1, <2>4 DEF TypeOK
  <2> QED
    BY <2>3, <2>4
<1>6. ASSUME NEW l \in Listener, StoreChannel(l) PROVE TaskInv(k)'
  BY <1>6, <1>a DEF StoreChannel, PeersKept, TypeOK
<1>7. CASE SetChannelsBuilder \/ Connect
  BY <1>7, <1>b DEF SetChannelsBuilder, Connect, sharedVars
<1>8. ASSUME NEW c \in Conn, NEW b \in Bodies \cup {"error"}, SocketArrival(c, b)
      PROVE TaskInv(k)'
  BY <1>8, <1>b DEF SocketArrival
<1>9. CASE DrainPending \/ Register \/ FinishReceive \/ DropRemoved
  BY <1>9, <1>b DEF DrainPending, Register, FinishReceive, DropRemoved, sharedVars
<1>10. ASSUME NEW h \in Handle,
              ReceivePacket(h) \/ ReceiveDisconnected(h) \/ ReceiveNothing(h)
       PROVE TaskInv(k)'
  BY <1>10, <1>b DEF ReceivePacket, ReceiveDisconnected, ReceiveNothing, sharedVars
<1>11. ASSUME NEW h \in Handle, Disconnect(h) \/ IdleDisconnect(h) PROVE TaskInv(k)'
  BY <1>11, <1>b DEF Disconnect, IdleDisconnect, sharedVars
<1>12. ASSUME NEW S \in SUBSET Open, FindSilent(S) PROVE TaskInv(k)'
  BY <1>12, <1>b DEF FindSilent, sharedVars
<1>13. CASE UNCHANGED vars
  BY <1>13, <1>b DEF vars, sharedVars
<1> QED
  BY <1>1, <1>2, <1>3, <1>4, <1>5, <1>6, <1>7, <1>8, <1>9, <1>10, <1>11, <1>12, <1>13
     DEF Next, Environment, ListenerTask, Application, ReceivePackets

LEMMA AddressInvHolds ==
  TypeOK /\ SystemInv /\ ListenerInv /\ AddressInv /\ [Next]_vars => AddressInv'
<1> SUFFICES ASSUME TypeOK, SystemInv, ListenerInv, AddressInv, [Next]_vars
             PROVE  AddressInv'
  OBVIOUS
<1>a. PeersKept
  BY StepEffects DEF Effect
<1>b. ASSUME UNCHANGED server_channels PROVE AddressInv'
  BY <1>a, <1>b DEF AddressInv, PeersKept, TypeOK
<1>1. ASSUME NEW l \in Listener,
             Listen(l) \/ Forward(l) \/ NeedsNewChannel(l) \/ PushConnection(l)
      PROVE AddressInv'
  BY <1>1, <1>b DEF Listen, Forward, NeedsNewChannel, PushConnection, sharedVars
<1>2. ASSUME NEW l \in Listener, NEW a \in Addr, NEW b \in Bodies, ServerReceive(l, a, b)
      PROVE AddressInv'
  BY <1>2, <1>b DEF ServerReceive, sharedVars
<1>3. ASSUME NEW l \in Listener, StoreChannel(l) PROVE AddressInv'
  BY <1>3, <1>a DEF StoreChannel, ListenerInv, TaskInv, AddressInv, PeersKept, TypeOK
<1>4. CASE SetChannelsBuilder \/ Connect
  BY <1>4, <1>b DEF SetChannelsBuilder, Connect, sharedVars
<1>5. ASSUME NEW c \in Conn, NEW b \in Bodies \cup {"error"}, SocketArrival(c, b)
      PROVE AddressInv'
  BY <1>5, <1>b DEF SocketArrival
<1>6. CASE DrainPending \/ Register \/ FinishReceive
  BY <1>6, <1>b DEF DrainPending, Register, FinishReceive, sharedVars
<1>7. CASE DropRemoved
  BY <1>7, <1>a DEF DropRemoved, AddressInv, PeersKept, TypeOK
<1>8. ASSUME NEW h \in Handle,
             \/ ReceivePacket(h) \/ ReceiveDisconnected(h) \/ ReceiveNothing(h)
             \/ Disconnect(h) \/ IdleDisconnect(h)
      PROVE AddressInv'
  BY <1>8, <1>b DEF ReceivePacket, ReceiveDisconnected, ReceiveNothing, Disconnect,
                    IdleDisconnect, sharedVars
<1>9. ASSUME NEW S \in SUBSET Open, FindSilent(S) PROVE AddressInv'
  BY <1>9, <1>b DEF FindSilent, sharedVars
<1>10. CASE UNCHANGED vars
  BY <1>10, <1>b DEF vars, sharedVars
<1> QED
  BY <1>1, <1>2, <1>3, <1>4, <1>5, <1>6, <1>7, <1>8, <1>9, <1>10
     DEF Next, Environment, ListenerTask, Application, ReceivePackets

-----------------------------------------------------------------------------
(* No handle is given out twice before the counter wraps around *)

\* Every connection made either waits or has had a handle; once the last handle
\* is given out nobody waits.
HandleInv ==
  NoWrap =>
    \/ /\ connection_sequence + Len(batch) + Len(pending_connections) = Len(conns)
       /\ \A h \in Handle : h >= connection_sequence => connections[h] = NoConn
    \/ /\ connection_sequence = 0
       /\ batch = <<>> /\ pending_connections = <<>>
       /\ Len(conns) = HandleMod

LEMMA NextHandleIs ==
  ASSUME NEW h \in Handle
  PROVE  NextHandle(h) = IF h + 1 = HandleMod THEN 0 ELSE h + 1
  BY NetworkAssumption DEF NetworkAssumption, NextHandle, Handle

LEMMA HandleIsFree ==
  ASSUME TypeOK, HandleInv, NoWrap, Register
  PROVE  connections[connection_sequence] = NoConn
  <1>1. Len(batch) \in Nat \ {0}
    BY EmptySeq DEF Register, TypeOK
  <1>2. batch # <<>>
    BY DEF Register
  <1> QED
    BY <1>2 DEF HandleInv, TypeOK, Handle

LEMMA HandleInvHolds == TypeOK /\ SystemInv /\ HandleInv /\ [Next]_vars => HandleInv'
<1> SUFFICES ASSUME TypeOK, SystemInv, HandleInv, [Next]_vars, NoWrap' PROVE HandleInv'
  BY DEF HandleInv
<1>a. Effect
  BY StepEffects
<1>b. /\ Len(conns) \in Nat /\ Len(pending_connections) \in Nat /\ Len(batch) \in Nat
      /\ connection_sequence \in Nat /\ HandleMod \in Nat \ {0}
  BY NetworkAssumption DEF TypeOK, Handle, NetworkAssumption
<1>c. NoWrap /\ Len(conns') \in Nat
  BY NextTyped, <1>a, <1>b DEF NoWrap, Effect, PeersKept, TypeOK
<1>1. CASE SameOwners
  BY <1>1, <1>c DEF SameOwners, HandleInv
<1>2. ASSUME NEW p \in Peer, Made(p) PROVE HandleInv'
  <2>1. Len(pending_connections') = Len(pending_connections) + 1
    BY <1>2 DEF Made, TypeOK
  <2> QED
    BY <1>2, <1>b, <1>c, <2>1 DEF Made, HandleInv, NoWrap
<1>3. CASE DrainPending
  <2>1. Len(batch) = 0 /\ Len(pending_connections') = 0
    BY <1>3 DEF DrainPending, SystemInv
  <2> QED
    BY <1>3, <1>b, <1>c, <2>1 DEF DrainPending, SystemInv, HandleInv, tableVars
<1>4. CASE Register
  <2> DEFINE h == connection_sequence
  <2>1. h \in Handle /\ batch # <<>> /\ Len(batch) \in Nat \ {0} /\ Len(batch') = Len(batch) - 1
    BY <1>4, EmptySeq, HeadTailProperties DEF Register, TypeOK
  <2>2. /\ h + Len(batch) + Len(pending_connections) = Len(conns)
        /\ \A k \in Handle : k >= h => connections[k] = NoConn
    BY <1>c, <2>1 DEF HandleInv
  <2>3. /\ connection_sequence' = IF h + 1 = HandleMod THEN 0 ELSE h + 1
        /\ pending_connections' = pending_connections
        /\ connections' = [connections EXCEPT ![h] = Head(batch)]
        /\ Len(conns') = Len(conns)
    <3>1. Len(conns') = Len(conns)
      BY <1>4 DEF Register, TypeOK
    <3> QED
      BY <1>4, <2>1, <3>1, NextHandleIs DEF Register
  <2>4. CASE h + 1 = HandleMod
    <3>1. Len(batch) = 1 /\ Len(pending_connections) = 0 /\ Len(conns) = HandleMod
      BY <1>b, <1>c, <2>1, <2>2, <2>4 DEF NoWrap
    <3>2. batch' = <<>> /\ pending_connections' = <<>>
      BY <2>1, <2>3, <3>1, EmptySeq, NextTyped DEF TypeOK
    <3> QED
      BY <2>3, <2>4, <3>1, <3>2 DEF HandleInv
  <2>5. CASE h + 1 # HandleMod
    <3>1. \A k \in Handle : k >= h + 1 => connections'[k] = NoConn
      BY <2>1, <2>2, <2>3 DEF TypeOK, Handle
    <3>2. connection_sequence' + Len(batch') + Len(pending_connections') = Len(conns')
      BY <1>b, <2>1, <2>2, <2>3, <2>5
    <3> QED
      BY <2>3, <2>5, <3>1, <3>2 DEF HandleInv
  <2> QED
    BY <2>4, <2>5
<1>5. ASSUME NEW h \in Handle, Taken(h) PROVE HandleInv'
  BY <1>5, <1>c DEF Taken, TakeFromTable, HandleInv, TypeOK
<1>6. CASE DropRemoved
  BY <1>6, <1>c DEF DropRemoved, HandleInv, tableVars
<1> QED
  BY <1>a, <1>1, <1>2, <1>3, <1>4, <1>5, <1>6 DEF Effect

-----------------------------------------------------------------------------
(* A stored Sender, and one about to be stored, has its Receiver *)

Alive == {c \in Conn : ReceiverAlive(c)}

AliveInv ==
  NoWrap =>
    /\ \A a \in Addr : server_channels[a] # NoConn => server_channels[a] \in Alive
    /\ \A l \in Listener : at[l] = "insert" => fresh[l] \in Alive

\* A Receiver is dropped by disconnect, or else by the reuse of a handle.
LEMMA AliveStays ==
  ASSUME TypeOK, SystemInv, HandleInv, [Next]_vars, NoWrap,
         NEW c \in Alive, DropRemoved => removed # c
  PROVE  c \in Alive'
<1>a. c # NoConn /\ c \in Conn'
  BY StepEffects DEF Alive, Effect, PeersKept, Conn, NoConn, TypeOK
<1> USE <1>a DEF Alive, ReceiverAlive, Live, Registered
<1>1. CASE SameOwners
  BY <1>1 DEF SameOwners
<1>2. ASSUME NEW p \in Peer, Made(p) PROVE c \in Alive'
  <2>1. Range(pending_connections) \subseteq Range(pending_connections')
    <3>1. pending_connections \in Seq(Nat) /\ Len(conns) + 1 \in Nat
      BY SeqMonotonic DEF TypeOK, Conn
    <3> QED
      BY <1>2, <3>1, RangeOfAppend DEF Made
  <2> QED
    BY <1>2, <2>1 DEF Made
<1>3. CASE DrainPending
  <2>1. batch' = pending_connections /\ Range(batch) = {}
    BY <1>3, RangeOfEmpty DEF DrainPending, SystemInv
  <2> QED
    BY <1>3, <2>1 DEF DrainPending, tableVars
<1>4. CASE Register
  <2>1. Range(batch) = Range(batch') \cup {Head(batch)}
    BY <1>4, RangeOfTail DEF Register, TypeOK
  <2>2. connections[connection_sequence] = NoConn
    BY <1>4, HandleIsFree
  <2>3. connections' = [connections EXCEPT ![connection_sequence] = Head(batch)]
    BY <1>4 DEF Register
  <2>4. connections'[connection_sequence] = Head(batch) /\ connection_sequence \in Handle
    BY <2>3 DEF TypeOK
  <2>5. \A h \in Handle : connections[h] = c => connections'[h] = c
    BY <1>a, <2>2, <2>3 DEF TypeOK
  <2>6. UNCHANGED <<pending_connections, removed>>
    BY <1>4 DEF Register
  <2> QED
    BY <2>1, <2>4, <2>5, <2>6
<1>5. ASSUME NEW h \in Handle, Taken(h) PROVE c \in Alive'
  BY <1>5, <1>a DEF Taken, TakeFromTable, TypeOK
<1>6. CASE DropRemoved
  BY <1>6 DEF DropRemoved, tableVars
<1> QED
  BY <1>1, <1>2, <1>3, <1>4, <1>5, <1>6, StepEffects DEF Effect

StaleInv == TypeOK /\ SystemInv /\ ListenerInv /\ AddressInv /\ HandleInv /\ AliveInv

LEMMA InitStale == Init => StaleInv
<1> SUFFICES ASSUME Init PROVE SystemInv /\ ListenerInv /\ AddressInv /\ HandleInv /\ AliveInv
  BY InitTyped DEF StaleInv
<1>1. SystemInv
  BY DEF Init, SystemInv
<1>2. ListenerInv
  BY DEF Init, ListenerInv, TaskInv
<1>3. AddressInv
  BY DEF Init, AddressInv
<1>4. HandleInv
  BY DEF Init, HandleInv
<1>5. AliveInv
  BY DEF Init, AliveInv
<1> QED
  BY <1>1, <1>2, <1>3, <1>4, <1>5

LEMMA AliveInvHolds == StaleInv /\ [Next]_vars => AliveInv'
<1> SUFFICES ASSUME StaleInv, [Next]_vars, NoWrap' PROVE AliveInv'
  BY DEF AliveInv
<1> USE DEF StaleInv
<1>a. PeersKept /\ NoWrap
  <2>1. Len(conns) \in Nat /\ Len(conns') \in Nat
    BY NextTyped DEF TypeOK
  <2> QED
    BY <2>1, StepEffects, NetworkAssumption DEF Effect, PeersKept, NoWrap, NetworkAssumption
<1>b. \A c \in Alive : (DropRemoved => removed # c) => c \in Alive'
  BY <1>a, AliveStays
<1>c. /\ \A a \in Addr : server_channels[a] # NoConn => server_channels[a] \in Alive
      /\ \A l \in Listener : at[l] = "insert" => fresh[l] \in Alive
  BY <1>a DEF AliveInv
<1>d. ASSUME UNCHANGED <<server_channels, at, fresh>>, ~ DropRemoved PROVE AliveInv'
  BY <1>b, <1>c, <1>d DEF AliveInv
<1>1. ASSUME NEW l \in Listener, Listen(l) \/ NeedsNewChannel(l) PROVE AliveInv'
  <2>1. UNCHANGED <<server_channels, fresh, removed>>
    BY <1>1 DEF Listen, NeedsNewChannel, sharedVars, systemVars
  <2>2. \A k \in Listener : at'[k] = "insert" => at[k] = "insert"
    BY <1>1 DEF Listen, NeedsNewChannel, TypeOK
  <2>3. ~ DropRemoved
    BY <2>1 DEF DropRemoved
  <2> QED
    BY <1>b, <1>c, <2>1, <2>2, <2>3 DEF AliveInv
<1>2. ASSUME NEW l \in Listener, NEW a \in Addr, NEW b \in Bodies, ServerReceive(l, a, b)
      PROVE AliveInv'
  <2>1. UNCHANGED <<server_channels, fresh, removed>>
    BY <1>2 DEF ServerReceive, sharedVars, systemVars
  <2>2. \A k \in Listener : at'[k] = "insert" => at[k] = "insert"
    BY <1>2 DEF ServerReceive, TypeOK
  <2>3. ~ DropRemoved
    BY <2>1 DEF DropRemoved
  <2> QED
    BY <1>b, <1>c, <2>1, <2>2, <2>3 DEF AliveInv
<1>3. ASSUME NEW l \in Listener, Forward(l) PROVE AliveInv'
  <2>1. UNCHANGED <<server_channels, fresh, removed>>
    BY <1>3 DEF Forward, systemVars
  <2>2. \A k \in Listener : at'[k] = "insert" => at[k] = "insert"
    BY <1>3 DEF Forward, TypeOK
  <2>3. ~ DropRemoved
    BY <2>1 DEF DropRemoved
  <2> QED
    BY <1>b, <1>c, <2>1, <2>2, <2>3 DEF AliveInv
<1>4. ASSUME NEW l \in Listener, PushConnection(l) PROVE AliveInv'
  \* The new connection is pending.
  <2>1. UNCHANGED <<server_channels, removed>> /\ writer = {}
    BY <1>4 DEF PushConnection, systemVars
  <2>2. ~ DropRemoved
    BY <2>1 DEF DropRemoved
  <2>3. fresh'[l] \in Alive'
    <3>1. /\ fresh'[l] = Len(conns) + 1
          /\ pending_connections' = Append(pending_connections, Len(conns) + 1)
          /\ Len(conns') = Len(conns) + 1
      BY <1>4 DEF PushConnection, TypeOK
    <3>2. pending_connections \in Seq(Nat) /\ Len(conns) + 1 \in Nat
      BY SeqMonotonic DEF TypeOK, Conn
    <3>3. Len(conns) + 1 \in Range(pending_connections') /\ Len(conns) + 1 \in Conn'
      BY <3>1, <3>2, RangeOfAppend DEF Conn
    <3> QED
      BY <3>1, <3>3 DEF Alive, ReceiverAlive, Live
  <2>4. \A k \in Listener : at'[k] = "insert" => k = l
    BY <1>4, <2>1 DEF PushConnection, ListenerInv, TaskInv, TypeOK
  <2> QED
    BY <1>b, <1>c, <2>1, <2>2, <2>3, <2>4 DEF AliveInv
<1>5. ASSUME NEW l \in Listener, StoreChannel(l) PROVE AliveInv'
  <2>1. ~ DropRemoved /\ at[l] = "insert" /\ fresh[l] \in Alive
    BY <1>5, <1>c DEF StoreChannel, DropRemoved, systemVars
  <2>2. server_channels' = [server_channels EXCEPT ![payload[l].from] = fresh[l]]
    BY <1>5 DEF StoreChannel
  <2>3. \A k \in Listener : at'[k] = "insert" => at[k] = "insert" /\ fresh'[k] = fresh[k]
    BY <1>5 DEF StoreChannel, TypeOK
  <2> QED
    BY <1>b, <1>c, <2>1, <2>2, <2>3 DEF AliveInv, TypeOK
<1>6. CASE DropRemoved
  \* Only the address of the connection can hold its Sender, and the window is
  \* closed while the lock is held here.
  <2> DEFINE a == conns[removed].peer
  <2>1. removed \in Conn /\ removed # NoConn /\ UNCHANGED <<at, fresh>>
    BY <1>6 DEF DropRemoved, TypeOK, listenerVars
  <2>2. \A l \in Listener : at[l] = "insert" => fresh[l] # removed
    BY <1>6, NetworkAssumption DEF DropRemoved, ListenerInv, TaskInv, NetworkAssumption
  <2>3. \A b \in Addr : server_channels'[b] # NoConn =>
                           server_channels'[b] = server_channels[b] /\ server_channels[b] # removed
    BY <1>6, <2>1, NetworkAssumption DEF DropRemoved, AddressInv, TypeOK, NetworkAssumption
  <2> QED
    BY <1>b, <1>c, <2>1, <2>2, <2>3 DEF AliveInv
<1>7. CASE SetChannelsBuilder \/ Connect
  BY <1>7, <1>d DEF SetChannelsBuilder, Connect, DropRemoved, sharedVars, listenerVars, systemVars
<1>8. ASSUME NEW c \in Conn, NEW b \in Bodies \cup {"error"}, SocketArrival(c, b)
      PROVE AliveInv'
  BY <1>8, <1>d DEF SocketArrival, DropRemoved, listenerVars, systemVars
<1>9. CASE DrainPending \/ Register \/ FinishReceive
  BY <1>9, <1>d DEF DrainPending, Register, FinishReceive, DropRemoved, sharedVars, listenerVars
<1>10. ASSUME NEW h \in Handle,
              ReceivePacket(h) \/ ReceiveDisconnected(h) \/ ReceiveNothing(h)
       PROVE AliveInv'
  BY <1>10, <1>d DEF ReceivePacket, ReceiveDisconnected, ReceiveNothing, DropRemoved,
                     sharedVars, listenerVars
<1>11. ASSUME NEW h \in Handle, Disconnect(h) PROVE AliveInv'
  BY <1>11, <1>d DEF Disconnect, DropRemoved, SystemInv, sharedVars, listenerVars
<1>12. ASSUME NEW h \in Handle, IdleDisconnect(h) PROVE AliveInv'
  BY <1>12, <1>d DEF IdleDisconnect, DropRemoved, sharedVars, listenerVars
<1>13. ASSUME NEW S \in SUBSET Open, FindSilent(S) PROVE AliveInv'
  BY <1>13, <1>d DEF FindSilent, DropRemoved, sharedVars, listenerVars
<1>14. CASE UNCHANGED vars
  BY <1>14, <1>d DEF vars, DropRemoved, sharedVars, listenerVars, systemVars
<1> QED
  BY <1>1, <1>2, <1>3, <1>4, <1>5, <1>6, <1>7, <1>8, <1>9, <1>10, <1>11, <1>12, <1>13, <1>14
     DEF Next, Environment, ListenerTask, Application, ReceivePackets

LEMMA StaleInvInductive == Spec => []StaleInv
<1>1. StaleInv /\ [Next]_vars => StaleInv'
  BY NextTyped, SystemInvHolds, ListenerInvHolds, AddressInvHolds, HandleInvHolds, AliveInvHolds
     DEF StaleInv
<1> QED
  BY InitStale, <1>1, PTL DEF Spec

(* Whatever the number of listeners, and however disconnect interleaves with *)
(* them, no Sender of a dropped connection is stored while handles are new.  *)
THEOREM NoSenderIsStale == Spec => []NoStaleSender
<1>1. StaleInv => NoStaleSender
  BY DEF StaleInv, AliveInv, NoStaleSender, Alive
<1> QED
  BY StaleInvInductive, <1>1, PTL
=============================================================================
