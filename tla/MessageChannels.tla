--------------------------- MODULE MessageChannels ---------------------------
(***************************************************************************)
(* Messages between two applications: the message API of src/src/lib.rs    *)
(* and the connections with channels of src/src/transport.rs, used by the  *)
(* client and the server of examples/message_coalescing.rs.                *)
(*                                                                         *)
(* The client sends pings and the server answers each with a pong.  Their  *)
(* systems run in stages, in any order within a stage, and take a step for *)
(* each message or packet; turbulence's tasks and the channel task of the  *)
(* connection run beside them on the IO task pool.  The network loses and  *)
(* reorders packets.                                                       *)
(***************************************************************************)
EXTENDS Integers, Sequences, Functions

CONSTANTS
  NumPings,       \* pings the client sends
  PerTick,        \* pings it sends in one run of send_messages
  MessageBuffer,  \* message_buffer_size of the channel
  PacketBuffer,   \* packet_buffer_size of the channel
  Lossy,          \* may the network lose packets?
  Refusing,       \* peers whose socket may return an error for a packet
  Heartbeating,   \* peers that have set auto_heartbeat_ms
  Disconnecting   \* peers that may disconnect, once each, which is a bound

ASSUME ChannelsAssumption ==
  /\ NumPings \in Nat
  /\ PerTick \in Nat \ {0}
  /\ MessageBuffer \in Nat \ {0}
  /\ PacketBuffer \in Nat \ {0}
  /\ Lossy \in BOOLEAN
  /\ Refusing \cup Heartbeating \cup Disconnecting \subseteq {"client", "server"}

VARIABLES
  manual_flush,  \* MessageFlushingStrategy::Never, and a system that flushes
  sched,         \* where each peer is in its frame
  builder,       \* peers that have called set_channels_builder
  conn,          \* the connection of each peer to the other
  net,           \* packets on the network
  pings_sent, burst,  \* pings the client has sent, and in this run of send_messages
  to_send,       \* the answers that handle_messages of each peer has yet to send
  pongs_seen,    \* pongs that the client has received
  packets_tx,    \* packets that the client's channel task has sent
  gone,          \* messages that are lost
  dropped,       \* peers that have disconnected
  panicked       \* the unwraps that have panicked

vars == <<manual_flush, sched, builder, conn, net, pings_sent, burst, to_send,
          pongs_seen, packets_tx, gone, dropped, panicked>>

setup == <<manual_flush, builder>>
counters == <<pings_sent, burst, to_send, pongs_seen>>
application == <<setup, counters>>
history == <<packets_tx, gone, dropped, panicked>>

Peer == {"client", "server"}
Other(p) == IF p = "client" THEN "server" ELSE "client"

Message == [kind : {"ping", "pong"}, n : 1 .. NumPings]
Ping(n) == [kind |-> "ping", n |-> n]
Pong(n) == [kind |-> "pong", n |-> n]

Contents(packets) == UNION {Range(packet) : packet \in Range(packets)}

-----------------------------------------------------------------------------
(* Connections *)

NewConnection(packets) ==
  [status   |-> "pending",   \* or "none", "listening", "open", "dropping"
   channels |-> FALSE,       \* have build_channels been called?
   outbox   |-> <<>>,        \* messages the channel has accepted
   flush    |-> FALSE,       \* has flush been called since its task looked?
   mux      |-> <<>>,        \* packets for the channel task
   task     |-> FALSE,       \* does the channel task run?
   rx       |-> packets,     \* packets not read yet
   incoming |-> <<>>,        \* packets passed on to the channel
   inbox    |-> <<>>]        \* messages not received yet

NoConnection == [NewConnection(<<>>) EXCEPT !.status = "none"]

Status(p) == conn[p].status

\* What is lost when p drops its connection.
Held(p) ==
  Range(conn[p].outbox) \cup Range(conn[p].inbox)
    \cup Contents(conn[p].rx) \cup Contents(conn[p].incoming)

-----------------------------------------------------------------------------
(* Stages and systems *)

\* Slip: setup_channels is not a startup system.
SystemsWithLateSetup(p, stage) ==
  CASE stage = "startup" -> {"startup"}
    [] stage = "update"  -> {"setup_channels", "receive_packets", "handle_messages"}
                              \cup IF p = "client" THEN {"send_messages"} ELSE {}
    [] stage = "post"    -> {"flush_channels"}

\* The server's send_messages returns at once.
SystemsOf(p, stage) ==
  CASE stage = "startup" -> {"startup", "setup_channels"}
    [] stage = "update"  -> {"receive_packets", "handle_messages"}
                              \cup IF p = "client" THEN {"send_messages"} ELSE {}
    [] stage = "post"    -> {"flush_channels"}

\* A panic in a system ends the application.
Alive(p) == sched[p].stage # "dead"

\* s has not run in this stage, and no other system has the NetworkResource.
May(p, s) == Alive(p) /\ s \in sched[p].todo /\ sched[p].running \in {"none", s}

Goes(p, s) == sched' = [sched EXCEPT ![p].running = s]
Ends(p, s) == sched' = [sched EXCEPT ![p].running = "none", ![p].todo = @ \ {s}]

Panic(p, unwrap) ==
  /\ sched' = [sched EXCEPT ![p].stage = "dead"]
  /\ panicked' = panicked \cup {unwrap}

NextStage(p) ==
  LET next == IF manual_flush /\ sched[p].stage = "update" THEN "post" ELSE "update"
  IN  /\ Alive(p)
      /\ sched[p].todo = {}
      /\ sched[p].running = "none"
      /\ sched' = [sched EXCEPT ![p].stage = next, ![p].todo = SystemsOf(p, next)]
      /\ UNCHANGED <<application, conn, net, history>>

\* connect, or listen
Startup(p) ==
  /\ May(p, "startup")
  /\ Ends(p, "startup")
  /\ conn' = [conn EXCEPT ![p].status = IF p = "client" THEN "pending" ELSE "listening"]
  /\ UNCHANGED <<application, net, history>>

SetupChannels(p) ==
  /\ May(p, "setup_channels")
  /\ Ends(p, "setup_channels")
  /\ builder' = builder \cup {p}
  /\ UNCHANGED <<manual_flush, conn, net, counters, history>>

-----------------------------------------------------------------------------
(* receive_packets *)

BuildChannels(c) == [c EXCEPT !.channels = TRUE, !.task = TRUE]

Register(p) ==
  /\ May(p, "receive_packets")
  /\ Status(p) = "pending"
  /\ Goes(p, "receive_packets")
  /\ LET c == [conn[p] EXCEPT !.status = "open"]
     IN  conn' = [conn EXCEPT ![p] = IF p \in builder THEN BuildChannels(c) ELSE c]
  /\ UNCHANGED <<application, net, history>>

\* A heartbeat is empty.  A packet for which the channel has no room is dropped,
\* and told; without channels the packet itself is told.
ReceivePacket(p) ==
  LET c == conn[p]
      packet == Head(c.rx)
      passed == c.channels /\ packet # <<>>
  IN  /\ May(p, "receive_packets")
      /\ Status(p) = "open"
      /\ c.rx # <<>>
      /\ Goes(p, "receive_packets")
      /\ \/ /\ passed /\ Len(c.incoming) < PacketBuffer
            /\ conn' = [conn EXCEPT ![p].rx = Tail(@), ![p].incoming = Append(@, packet)]
            /\ UNCHANGED gone
         \/ /\ ~ (passed /\ Len(c.incoming) < PacketBuffer)
            /\ conn' = [conn EXCEPT ![p].rx = Tail(@)]
            /\ gone' = gone \cup Range(packet)
      /\ UNCHANGED <<application, net, packets_tx, dropped, panicked>>

ReceiveNothing(p) ==
  /\ May(p, "receive_packets")
  /\ Status(p) # "pending"
  /\ conn[p].rx = <<>>
  /\ Ends(p, "receive_packets")
  /\ UNCHANGED <<application, conn, net, history>>

-----------------------------------------------------------------------------
(* send_message, broadcast_message, and the systems that call them *)

\* Slip: the strategy is the other way round.
AsksToFlushAfterNever == manual_flush

AsksToFlush == ~ manual_flush

\* A message for which the channel has no room is returned, and nobody keeps it.
SendMessage(p, m) ==
  LET accepted == Len(conn[p].outbox) < MessageBuffer
  IN  /\ conn' = [conn EXCEPT ![p].outbox = IF accepted THEN Append(@, m) ELSE @,
                              ![p].flush = @ \/ AsksToFlush]
      /\ gone' = IF accepted THEN gone ELSE gone \cup {m}

\* channels().unwrap() comes first.
Call(p, m, system) ==
  IF conn[p].channels
  THEN SendMessage(p, m) /\ Goes(p, system) /\ UNCHANGED panicked
  ELSE Panic(p, "channels") /\ UNCHANGED <<conn, gone>>

\* Slip: one ping too many.
MoreToSendInclusive == burst < PerTick /\ pings_sent <= NumPings

MoreToSend == burst < PerTick /\ pings_sent < NumPings

\* Slip: the ping is made before it is counted.
NextPingUncounted == Ping(pings_sent)

NextPing == Ping(pings_sent + 1)

\* broadcast_message: before the connection is registered it sends to nobody.
SendPing(p) ==
  /\ May(p, "send_messages")
  /\ MoreToSend
  /\ pings_sent' = pings_sent + 1
  /\ burst' = burst + 1
  /\ IF Status(p) = "open"
     THEN Call(p, NextPing, "send_messages")
     ELSE /\ gone' = gone \cup {NextPing}
          /\ Goes(p, "send_messages")
          /\ UNCHANGED <<conn, panicked>>
  /\ UNCHANGED <<setup, net, to_send, pongs_seen, packets_tx, dropped>>

EndPings(p) ==
  /\ May(p, "send_messages")
  /\ ~ MoreToSend
  /\ Ends(p, "send_messages")
  /\ burst' = 0
  /\ UNCHANGED <<setup, conn, net, pings_sent, to_send, pongs_seen, history>>

\* The first loop of handle_messages.
RecvMessage(p) ==
  LET m == Head(conn[p].inbox)
  IN  /\ May(p, "handle_messages")
      /\ Status(p) = "open"
      /\ conn[p].channels => conn[p].inbox # <<>>
      /\ IF conn[p].channels
         THEN /\ conn' = [conn EXCEPT ![p].inbox = Tail(@)]
              /\ IF m.kind = "ping"
                 THEN /\ to_send' = [to_send EXCEPT ![p] = Append(@, Pong(m.n))]
                      /\ UNCHANGED pongs_seen
                 ELSE pongs_seen' = pongs_seen \cup {m} /\ UNCHANGED to_send
              /\ Goes(p, "handle_messages")
              /\ UNCHANGED panicked
         ELSE Panic(p, "channels") /\ UNCHANGED <<conn, pongs_seen, to_send>>
      /\ UNCHANGED <<setup, net, pings_sent, burst, packets_tx, gone, dropped>>

NoMessage(p) ==
  /\ May(p, "handle_messages")
  /\ Status(p) = "open" => conn[p].channels /\ conn[p].inbox = <<>>
  /\ sched' = [sched EXCEPT ![p].running = "replies", ![p].todo = @ \ {"handle_messages"}]
  /\ UNCHANGED <<application, conn, net, history>>

\* The second loop, which does not look at the connection again.
Reply(p) ==
  /\ Alive(p)
  /\ sched[p].running = "replies"
  /\ to_send[p] # <<>>
  /\ to_send' = [to_send EXCEPT ![p] = Tail(@)]
  /\ Call(p, Head(to_send[p]), "replies")
  /\ UNCHANGED <<setup, net, pings_sent, burst, pongs_seen, packets_tx, dropped>>

EndReplies(p) ==
  /\ Alive(p)
  /\ sched[p].running = "replies"
  /\ to_send[p] = <<>>
  /\ Goes(p, "none")
  /\ UNCHANGED <<application, conn, net, history>>

FlushChannels(p) ==
  /\ May(p, "flush_channels")
  /\ IF Status(p) = "open" /\ ~ conn[p].channels
     THEN Panic(p, "channels") /\ UNCHANGED conn
     ELSE /\ conn' = [conn EXCEPT ![p].flush = conn[p].channels]
          /\ Ends(p, "flush_channels")
          /\ UNCHANGED panicked
  /\ UNCHANGED <<application, net, packets_tx, gone, dropped>>

-----------------------------------------------------------------------------
(* turbulence's tasks, and the channel task *)

\* All that has been accepted goes into one packet when flush has been called.
Pack(p) ==
  /\ Alive(p)
  /\ conn[p].flush
  /\ Len(conn[p].mux) < PacketBuffer
  /\ conn' = [conn EXCEPT ![p].flush = FALSE, ![p].outbox = <<>>,
                ![p].mux = IF conn[p].outbox = <<>> THEN @ ELSE Append(@, conn[p].outbox)]
  /\ UNCHANGED <<application, sched, net, history>>

Unpack(p) ==
  /\ Alive(p)
  /\ conn[p].incoming # <<>>
  /\ Len(conn[p].inbox) < MessageBuffer
  /\ conn' = [conn EXCEPT ![p].incoming = Tail(@), ![p].inbox = @ \o Head(conn[p].incoming)]
  /\ UNCHANGED <<application, sched, net, history>>

\* The task takes the next packet, counts it, and goes on or not.
TakePacket(p, goes_on) ==
  /\ Alive(p)
  /\ conn[p].task
  /\ conn[p].mux # <<>>
  /\ conn' = [conn EXCEPT ![p].mux = Tail(@), ![p].task = goes_on]
  /\ packets_tx' = IF p = "client" THEN packets_tx + 1 ELSE packets_tx

ChannelTask(p) ==
  LET packet == Head(conn[p].mux)
  IN  /\ TakePacket(p, TRUE)
      /\ \/ net' = net \cup {[to |-> Other(p), packet |-> packet]} /\ UNCHANGED gone
         \/ Lossy /\ gone' = gone \cup Range(packet) /\ UNCHANGED net
      /\ UNCHANGED <<application, sched, dropped, panicked>>

\* The socket returns an error, which the task unwraps.  The connection stays
\* open, and what the channel makes of later messages stays in mux.
SendFails(p) ==
  /\ p \in Refusing
  /\ TakePacket(p, FALSE)
  /\ gone' = gone \cup Range(Head(conn[p].mux))
  /\ panicked' = panicked \cup {"socket"}
  /\ UNCHANGED <<application, sched, net, dropped>>

\* The connection is being dropped, and its channels are gone: there is no next
\* packet.  The client's task returns, the server's unwraps.
StreamEnds(p) ==
  /\ conn[p].task
  /\ Status(p) = "dropping"
  /\ conn[p].mux = <<>>
  /\ conn' = [conn EXCEPT ![p].task = FALSE]
  /\ panicked' = IF p = "server" THEN panicked \cup {"stream"} ELSE panicked
  /\ UNCHANGED <<application, sched, net, packets_tx, gone, dropped>>

\* A packet reaches a connection, or makes one at the server, or nobody.
Arrive(d) ==
  LET p == d.to
  IN  /\ Status(p) # "dropping"
      /\ net' = net \ {d}
      /\ \/ /\ Status(p) \in {"pending", "open"}
            /\ conn' = [conn EXCEPT ![p].rx = Append(@, d.packet)]
            /\ UNCHANGED gone
         \/ /\ Status(p) = "listening"
            /\ conn' = [conn EXCEPT ![p] = NewConnection(<<d.packet>>)]
            /\ UNCHANGED gone
         \/ /\ Status(p) = "none"
            /\ gone' = gone \cup Range(d.packet)
            /\ UNCHANGED conn
      /\ UNCHANGED <<application, sched, packets_tx, dropped, panicked>>

-----------------------------------------------------------------------------
(* heartbeats_and_timeouts, and disconnect *)

\* send unwraps the sender, which a connection with channels has given away.
Send(p, packet) ==
  IF conn[p].channels
  THEN Panic(p, "sender") /\ UNCHANGED net
  ELSE net' = net \cup {[to |-> Other(p), packet |-> packet]} /\ UNCHANGED <<sched, panicked>>

\* In the stage after the update's, however long nothing has been sent.
Heartbeat(p) ==
  /\ p \in Heartbeating
  /\ sched[p].stage = "update" /\ sched[p].todo = {} /\ sched[p].running = "none"
  /\ Status(p) = "open"
  /\ Send(p, <<>>)
  /\ UNCHANGED <<application, conn, packets_tx, gone, dropped>>

\* Called by some system.  The fields of the connection are dropped in their
\* order: the channels come before the channel task.
Disconnect(p) ==
  /\ p \in Disconnecting \ dropped
  /\ Alive(p)
  /\ sched[p].running = "none"
  /\ Status(p) = "open"
  /\ Goes(p, "disconnect")
  /\ conn' = [conn EXCEPT ![p] = [NoConnection EXCEPT !.status = "dropping",
                                    !.mux = conn[p].mux, !.task = conn[p].task]]
  /\ gone' = gone \cup Held(p)
  /\ dropped' = dropped \cup {p}
  /\ UNCHANGED <<application, net, packets_tx, panicked>>

DropTask(p) ==
  /\ Status(p) = "dropping"
  /\ Goes(p, "none")
  /\ conn' = [conn EXCEPT ![p] = [NoConnection EXCEPT !.status =
                                    IF p = "client" THEN "none" ELSE "listening"]]
  /\ gone' = gone \cup Contents(conn[p].mux)
  /\ UNCHANGED <<application, net, packets_tx, dropped, panicked>>

-----------------------------------------------------------------------------

Init ==
  /\ manual_flush \in BOOLEAN
  /\ sched = [p \in Peer |-> [stage |-> "startup", todo |-> SystemsOf(p, "startup"),
                              running |-> "none"]]
  /\ builder = {}
  /\ conn = [p \in Peer |-> NoConnection]
  /\ net = {}
  /\ pings_sent = 0
  /\ burst = 0
  /\ to_send = [p \in Peer |-> <<>>]
  /\ pongs_seen = {}
  /\ packets_tx = 0
  /\ gone = {}
  /\ dropped = {}
  /\ panicked = {}

Systems(p) ==
  \/ NextStage(p) \/ Startup(p) \/ SetupChannels(p)
  \/ Register(p) \/ ReceivePacket(p) \/ ReceiveNothing(p)
  \/ SendPing(p) \/ EndPings(p)
  \/ RecvMessage(p) \/ NoMessage(p) \/ Reply(p) \/ EndReplies(p)
  \/ FlushChannels(p)
  \/ DropTask(p)

Next ==
  \/ \E p \in Peer :
       \/ Systems(p)
       \/ Pack(p) \/ Unpack(p) \/ ChannelTask(p) \/ SendFails(p) \/ StreamEnds(p)
       \/ Heartbeat(p) \/ Disconnect(p)
  \/ \E d \in net : Arrive(d)

Spec == Init /\ [][Next]_vars

(***************************************************************************)
(* Frames go on, tasks run, and the network delivers what it has not lost. *)
(***************************************************************************)
Fairness ==
  /\ \A p \in Peer : WF_vars(Systems(p))
  /\ \A p \in Peer : WF_vars(Pack(p)) /\ WF_vars(Unpack(p)) /\ WF_vars(ChannelTask(p))
  /\ WF_vars(\E d \in net : Arrive(d))

FairSpec == Spec /\ Fairness

-----------------------------------------------------------------------------
(* Properties *)

System == {"startup", "setup_channels", "receive_packets", "handle_messages",
           "send_messages", "flush_channels"}

Schedule == [stage : {"startup", "update", "post", "dead"}, todo : SUBSET System,
             running : {"none", "receive_packets", "handle_messages", "replies",
                        "send_messages", "disconnect"}]

Packets == Seq(Seq(Message))

Connection == [status : {"none", "listening", "pending", "open", "dropping"},
               channels : BOOLEAN, outbox : Seq(Message), flush : BOOLEAN,
               mux : Packets, task : BOOLEAN, rx : Packets, incoming : Packets,
               inbox : Seq(Message)]

TypeOK ==
  /\ manual_flush \in BOOLEAN
  /\ sched \in [Peer -> Schedule]
  /\ builder \subseteq Peer
  /\ conn \in [Peer -> Connection]
  /\ net \subseteq [to : Peer, packet : Seq(Message)]
  /\ pings_sent \in 0 .. NumPings
  /\ burst \in 0 .. PerTick
  /\ to_send \in [Peer -> Seq(Message)]
  /\ pongs_seen \subseteq Message
  /\ packets_tx \in Nat
  /\ gone \subseteq Message
  /\ dropped \subseteq Disconnecting
  /\ panicked \subseteq {"channels", "sender", "socket", "stream"}

(***************************************************************************)
(* The builder is set before any connection is registered, so that the     *)
(* calls that unwrap channels() never panic: whichever system runs first,  *)
(* and whether or not packets come while the server still starts.          *)
(***************************************************************************)
MessagesNeverPanic == "channels" \notin panicked

(***************************************************************************)
(* "When manually flushing per tick the client only sends 10 packets - one *)
(* per tick": never more packets than runs of send_messages, however       *)
(* turbulence's task lags behind the calls of flush.                       *)
(***************************************************************************)
OnePacketPerTick ==
  manual_flush => packets_tx * PerTick < pings_sent + PerTick

OnTheWay ==
  UNION {Range(to_send[p]) \cup Held(p) \cup Contents(conn[p].mux) : p \in Peer}
    \cup UNION {Range(d.packet) : d \in net}

StateOf(n) ==
  IF n > pings_sent THEN "unsent"
  ELSE IF Pong(n) \in OnTheWay THEN "answered"
  ELSE IF Ping(n) \in OnTheWay THEN "asked"
  ELSE IF Pong(n) \in pongs_seen THEN "seen"
  ELSE IF {Ping(n), Pong(n)} \cap gone # {} THEN "lost"
  ELSE "vanished"

PingPong == INSTANCE PingPong WITH state <- [n \in 1 .. NumPings |-> StateOf(n)]

(***************************************************************************)
(* Through all the queues and tasks of two connections, disconnects and    *)
(* new connections, no ping is answered twice, none comes back after it    *)
(* was lost, and none vanishes unnoticed.                                  *)
(***************************************************************************)
ImplementsPingPong == PingPong!Spec

\* What waits in open connections whose channel task has panicked.
Stuck ==
  UNION {Range(conn[p].outbox) \cup Contents(conn[p].mux) :
           p \in {q \in Peer : conn[q].channels /\ ~ conn[q].task}}

(***************************************************************************)
(* "Server responds with a PONG for each PING it receives": under either   *)
(* strategy, and across a disconnect and a new connection, each ping comes *)
(* back as a pong, unless one of the two is lost or behind a channel task  *)
(* that has panicked, or a whole application has.                          *)
(***************************************************************************)
EveryPingIsAnswered ==
  \A n \in 1 .. NumPings :
    n <= pings_sent ~> \/ Pong(n) \in pongs_seen
                       \/ {Ping(n), Pong(n)} \cap (gone \cup Stuck) # {}
                       \/ \E p \in Peer : ~ Alive(p)

(***************************************************************************)
(* "These are sent silently", says auto_heartbeat_ms of heartbeats, and    *)
(* heartbeats_and_timeouts unwraps what send returns: sending one never    *)
(* panics.                                                                 *)
(***************************************************************************)
HeartbeatsAreSilent == "sender" \notin panicked

(***************************************************************************)
(* The channel task of a server connection unwraps the next packet: there  *)
(* is one as long as the task runs.                                        *)
(***************************************************************************)
StreamOutlivesTask == "stream" \notin panicked
=============================================================================
