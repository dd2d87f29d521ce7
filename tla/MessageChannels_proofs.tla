----------------------- MODULE MessageChannels_proofs -----------------------
(* Theorems about MessageChannels, for every value of its constants. *)
EXTENDS MessageChannels, TLAPS

-----------------------------------------------------------------------------
(* Type correctness *)

Running == {"none", "receive_packets", "handle_messages", "replies",
            "send_messages", "disconnect"}

LEMMA PeersTyped ==
  TypeOK => \A p \in Peer : conn[p] \in Connection /\ sched[p] \in Schedule
BY DEF TypeOK

\* What each of the operators on the schedule leaves in it.
LEMMA ScheduleTyped ==
  ASSUME TypeOK, NEW p \in Peer
  PROVE  /\ \A s \in Running : Goes(p, s) => sched' \in [Peer -> Schedule]
         /\ \A s \in System : Ends(p, s) => sched' \in [Peer -> Schedule]
         /\ \A u \in {"channels", "sender", "socket", "stream"} : Panic(p, u) =>
              /\ sched' \in [Peer -> Schedule]
              /\ panicked' \subseteq {"channels", "sender", "socket", "stream"}
<1> USE DEF TypeOK, Schedule
<1>1. ASSUME NEW s \in Running, Goes(p, s) PROVE sched' \in [Peer -> Schedule]
  BY <1>1 DEF Goes, Running
<1>2. ASSUME NEW s \in System, Ends(p, s) PROVE sched' \in [Peer -> Schedule]
  BY <1>2 DEF Ends
<1>3. ASSUME NEW u \in {"channels", "sender", "socket", "stream"}, Panic(p, u)
      PROVE  /\ sched' \in [Peer -> Schedule]
             /\ panicked' \subseteq {"channels", "sender", "socket", "stream"}
  BY <1>3 DEF Panic
<1> QED
  BY <1>1, <1>2, <1>3

LEMMA SystemsTyped ==
  ASSUME NEW p \in Peer, NEW s \in {"startup", "update", "post"}
  PROVE  SystemsOf(p, s) \subseteq System
  BY DEF SystemsOf, System

\* A call of send_message or broadcast_message.
LEMMA CallTyped ==
  ASSUME TypeOK, NEW p \in Peer, NEW m \in Message, NEW s \in Running, Call(p, m, s)
  PROVE  /\ sched' \in [Peer -> Schedule]
         /\ conn' \in [Peer -> Connection]
         /\ gone' \subseteq Message
         /\ panicked' \subseteq {"channels", "sender", "socket", "stream"}
<1>1. CASE conn[p].channels
  <2> DEFINE accepted == Len(conn[p].outbox) < MessageBuffer
             outbox == IF accepted THEN Append(conn[p].outbox, m) ELSE conn[p].outbox
             c == [conn[p] EXCEPT !.outbox = outbox, !.flush = conn[p].flush \/ AsksToFlush]
  <2>1. outbox \in Seq(Message) /\ (conn[p].flush \/ AsksToFlush) \in BOOLEAN
    BY DEF TypeOK, Connection, AsksToFlush
  <2>2. c \in Connection
    <3> HIDE DEF outbox
    <3> QED
      BY <2>1, PeersTyped DEF Connection
  <2>3. SendMessage(p, m) /\ Goes(p, s) /\ UNCHANGED panicked
    BY <1>1 DEF Call
  <2>4. conn' = [conn EXCEPT ![p] = c]
    BY <2>3 DEF SendMessage, TypeOK
  <2>5. conn' \in [Peer -> Connection] /\ gone' \subseteq Message
    BY <2>2, <2>3, <2>4 DEF SendMessage, TypeOK
  <2> QED
    BY <2>3, <2>5, ScheduleTyped DEF TypeOK
<1>2. CASE ~ conn[p].channels
  BY <1>2, ScheduleTyped DEF Call, TypeOK
<1> QED
  BY <1>1, <1>2

\* A packet's messages are messages.
LEMMA ContentsTyped ==
  /\ \A ms \in Seq(Message) : Range(ms) \subseteq Message
  /\ \A ps \in Packets : Contents(ps) \subseteq Message
<1>1. ASSUME NEW ms \in Seq(Message) PROVE Range(ms) \subseteq Message
  BY <1>1 DEF Range
<1>2. ASSUME NEW ps \in Packets PROVE Contents(ps) \subseteq Message
  BY <1>1 DEF Contents, Range, Packets
<1> QED
  BY <1>1, <1>2

LEMMA NewConnectionTyped ==
  /\ NoConnection \in Connection
  /\ \A packet \in Seq(Message) : NewConnection(<<packet>>) \in Connection
<1>1. ASSUME NEW packets \in Packets PROVE NewConnection(packets) \in Connection
  <2>1. <<>> \in Packets /\ <<>> \in Seq(Message)
    BY DEF Packets
  <2> QED
    BY <2>1 DEF NewConnection, Connection
<1>2. <<>> \in Packets /\ \A packet \in Seq(Message) : <<packet>> \in Packets
  BY DEF Packets
<1>3. ASSUME NEW c \in Connection PROVE [c EXCEPT !.status = "none"] \in Connection
  BY DEF Connection
<1> QED
  BY <1>1, <1>2, <1>3 DEF NoConnection

LEMMA NextTyped == TypeOK /\ [Next]_vars => TypeOK'
<1> SUFFICES ASSUME TypeOK, [Next]_vars PROVE TypeOK'
  OBVIOUS
<1> USE ChannelsAssumption DEF ChannelsAssumption, setup, counters, application, history
<1>1. ASSUME NEW p \in Peer, NextStage(p) PROVE TypeOK'
  <2> DEFINE next == IF manual_flush /\ sched[p].stage = "update" THEN "post" ELSE "update"
  <2>1. next \in {"startup", "update", "post"} /\ SystemsOf(p, next) \subseteq System
    BY SystemsTyped
  <2>2. sched' = [sched EXCEPT ![p].stage = next, ![p].todo = SystemsOf(p, next)]
    BY <1>1 DEF NextStage
  <2> HIDE DEF next
  <2>c. [sched[p] EXCEPT !.stage = next, !.todo = SystemsOf(p, next)] \in Schedule
    BY <2>1, PeersTyped DEF Schedule
  <2>3. sched' \in [Peer -> Schedule]
    BY <2>2, <2>c DEF TypeOK
  <2> QED
    BY <1>1, <2>3 DEF NextStage, TypeOK
<1>2. ASSUME NEW p \in Peer, Startup(p) PROVE TypeOK'
  <2>1. sched' \in [Peer -> Schedule]
    BY <1>2, ScheduleTyped DEF Startup, System
  <2> DEFINE c == [conn[p] EXCEPT !.status = IF p = "client" THEN "pending" ELSE "listening"]
  <2>2. c \in Connection
    BY PeersTyped DEF Connection
  <2>3. conn' \in [Peer -> Connection]
    BY <1>2, <2>2 DEF Startup, TypeOK
  <2> QED
    BY <1>2, <2>1, <2>3 DEF Startup, TypeOK
<1>3. ASSUME NEW p \in Peer, SetupChannels(p) PROVE TypeOK'
  BY <1>3, ScheduleTyped DEF SetupChannels, TypeOK, System
<1>4. ASSUME NEW p \in Peer, Register(p) PROVE TypeOK'
  <2>1. sched' \in [Peer -> Schedule]
    BY <1>4, ScheduleTyped DEF Register, Running
  <2> DEFINE c == [conn[p] EXCEPT !.status = "open"]
  <2>c. c \in Connection
    BY PeersTyped DEF Connection
  <2>d. BuildChannels(c) \in Connection
    BY <2>c DEF BuildChannels, Connection
  <2>2. conn' \in [Peer -> Connection]
    BY <1>4, <2>c, <2>d DEF Register, TypeOK
  <2> QED
    BY <1>4, <2>1, <2>2 DEF Register, TypeOK
<1>5. ASSUME NEW p \in Peer, ReceivePacket(p) PROVE TypeOK'
  <2>1. sched' \in [Peer -> Schedule]
    BY <1>5, ScheduleTyped DEF ReceivePacket, Running
  <2>2. Head(conn[p].rx) \in Seq(Message) /\ Tail(conn[p].rx) \in Packets
    BY <1>5 DEF ReceivePacket, TypeOK, Connection, Packets
  <2>3. Append(conn[p].incoming, Head(conn[p].rx)) \in Packets
    BY <2>2 DEF TypeOK, Connection, Packets
  <2> DEFINE c == [conn[p] EXCEPT !.rx = Tail(conn[p].rx)]
             d == [conn[p] EXCEPT !.rx = Tail(conn[p].rx),
                                  !.incoming = Append(conn[p].incoming, Head(conn[p].rx))]
  <2>c. c \in Connection /\ d \in Connection
    BY <2>2, <2>3, PeersTyped DEF Connection
  <2>4. conn' \in [Peer -> Connection]
    <3>1. conn' = [conn EXCEPT ![p] = c] \/ conn' = [conn EXCEPT ![p] = d]
      BY <1>5 DEF ReceivePacket, TypeOK
    <3> QED
      BY <2>c, <3>1 DEF TypeOK
  <2>5. gone' \subseteq Message
    BY <1>5, <2>2, ContentsTyped DEF ReceivePacket, TypeOK
  <2> QED
    BY <1>5, <2>1, <2>4, <2>5 DEF ReceivePacket, TypeOK
<1>6. ASSUME NEW p \in Peer, ReceiveNothing(p) PROVE TypeOK'
  BY <1>6, ScheduleTyped DEF ReceiveNothing, TypeOK, System
<1>7. ASSUME NEW p \in Peer, SendPing(p) PROVE TypeOK'
  <2>1. NextPing \in Message
    BY <1>7 DEF SendPing, MoreToSend, NextPing, Ping, Message, TypeOK
  <2>2. /\ sched' \in [Peer -> Schedule]
        /\ conn' \in [Peer -> Connection]
        /\ gone' \subseteq Message
        /\ panicked' \subseteq {"channels", "sender", "socket", "stream"}
    BY <1>7, <2>1, CallTyped, ScheduleTyped DEF SendPing, TypeOK, Running
  <2>3. pings_sent' \in 0 .. NumPings /\ burst' \in 0 .. PerTick
    BY <1>7 DEF SendPing, MoreToSend, TypeOK
  <2> QED
    BY <1>7, <2>2, <2>3 DEF SendPing, TypeOK
<1>8. ASSUME NEW p \in Peer, EndPings(p) PROVE TypeOK'
  BY <1>8, ScheduleTyped DEF EndPings, TypeOK, System
<1>9. ASSUME NEW p \in Peer, RecvMessage(p) PROVE TypeOK'
  <2> DEFINE m == Head(conn[p].inbox)
  <2>1. CASE conn[p].channels
    <3>1. m \in Message /\ Tail(conn[p].inbox) \in Seq(Message)
      BY <1>9, <2>1 DEF RecvMessage, TypeOK, Connection
    <3>2. sched' \in [Peer -> Schedule]
      BY <1>9, <2>1, ScheduleTyped DEF RecvMessage, Running
    <3>c. [conn[p] EXCEPT !.inbox = Tail(conn[p].inbox)] \in Connection
      BY <3>1, PeersTyped DEF Connection
    <3>3. conn' \in [Peer -> Connection]
      BY <1>9, <2>1, <3>c DEF RecvMessage, TypeOK
    <3>4. Pong(m.n) \in Message
      <4>1. \A k \in Message : Pong(k.n) \in Message
        BY DEF Pong, Message
      <4> QED
        BY <3>1, <4>1
    <3>5. to_send' \in [Peer -> Seq(Message)] /\ pongs_seen' \subseteq Message
      <4>1. \/ to_send' = [to_send EXCEPT ![p] = Append(to_send[p], Pong(m.n))]
              /\ UNCHANGED pongs_seen
            \/ pongs_seen' = pongs_seen \cup {m} /\ UNCHANGED to_send
        BY <1>9, <2>1 DEF RecvMessage, TypeOK
      <4>2. m \in Message /\ Pong(m.n) \in Message
        BY <3>1, <3>4
      <4>3. to_send \in [Peer -> Seq(Message)] /\ pongs_seen \subseteq Message
        BY DEF TypeOK
      <4> HIDE DEF m
      <4>4. Append(to_send[p], Pong(m.n)) \in Seq(Message)
        BY <4>2, <4>3
      <4> QED
        BY <4>1, <4>2, <4>3, <4>4
    <3> QED
      BY <1>9, <2>1, <3>2, <3>3, <3>5 DEF RecvMessage, TypeOK
  <2>2. CASE ~ conn[p].channels
    BY <1>9, <2>2, ScheduleTyped DEF RecvMessage, TypeOK
  <2> QED
    BY <2>1, <2>2
<1>10. ASSUME NEW p \in Peer, NoMessage(p) PROVE TypeOK'
  <2> DEFINE c == [sched[p] EXCEPT !.running = "replies",
                                   !.todo = sched[p].todo \ {"handle_messages"}]
  <2>1. sched' = [sched EXCEPT ![p] = c]
    BY <1>10 DEF NoMessage, TypeOK
  <2>2. c \in Schedule
    BY PeersTyped DEF Schedule
  <2> HIDE DEF c
  <2> QED
    BY <1>10, <2>1, <2>2 DEF NoMessage, TypeOK
<1>11. ASSUME NEW p \in Peer, Reply(p) PROVE TypeOK'
  <2>1. Head(to_send[p]) \in Message /\ to_send' \in [Peer -> Seq(Message)]
    BY <1>11 DEF Reply, TypeOK
  <2>2. /\ sched' \in [Peer -> Schedule]
        /\ conn' \in [Peer -> Connection]
        /\ gone' \subseteq Message
        /\ panicked' \subseteq {"channels", "sender", "socket", "stream"}
    BY <1>11, <2>1, CallTyped DEF Reply, Running
  <2> QED
    BY <1>11, <2>1, <2>2 DEF Reply, TypeOK
<1>12. ASSUME NEW p \in Peer, EndReplies(p) PROVE TypeOK'
  BY <1>12, ScheduleTyped DEF EndReplies, TypeOK, Running
<1>13. ASSUME NEW p \in Peer, FlushChannels(p) PROVE TypeOK'
  <2>1. /\ sched' \in [Peer -> Schedule]
        /\ panicked' \subseteq {"channels", "sender", "socket", "stream"}
    BY <1>13, ScheduleTyped DEF FlushChannels, TypeOK, System
  <2>c. [conn[p] EXCEPT !.flush = conn[p].channels] \in Connection
    BY PeersTyped DEF Connection
  <2>2. conn' \in [Peer -> Connection]
    BY <1>13, <2>c DEF FlushChannels, TypeOK
  <2> QED
    BY <1>13, <2>1, <2>2 DEF FlushChannels, TypeOK
<1>14. ASSUME NEW p \in Peer, Pack(p) PROVE TypeOK'
  <2>1. Append(conn[p].mux, conn[p].outbox) \in Packets
    BY DEF TypeOK, Connection, Packets
  <2> DEFINE mux == IF conn[p].outbox = <<>> THEN conn[p].mux
                    ELSE Append(conn[p].mux, conn[p].outbox)
             c == [conn[p] EXCEPT !.flush = FALSE, !.outbox = <<>>, !.mux = mux]
  <2>a. mux \in Packets /\ <<>> \in Seq(Message)
    BY <2>1 DEF TypeOK, Connection
  <2> HIDE DEF mux
  <2>c. c \in Connection
    BY <2>a, PeersTyped DEF Connection
  <2>2. conn' \in [Peer -> Connection]
    BY <1>14, <2>c DEF Pack, TypeOK, mux
  <2> QED
    BY <1>14, <2>2 DEF Pack, TypeOK
<1>15. ASSUME NEW p \in Peer, Unpack(p) PROVE TypeOK'
  <2>1. /\ Tail(conn[p].incoming) \in Packets
        /\ conn[p].inbox \o Head(conn[p].incoming) \in Seq(Message)
    BY <1>15 DEF Unpack, TypeOK, Connection, Packets
  <2>c. [conn[p] EXCEPT !.incoming = Tail(conn[p].incoming),
                        !.inbox = conn[p].inbox \o Head(conn[p].incoming)] \in Connection
    BY <2>1, PeersTyped DEF Connection
  <2>2. conn' \in [Peer -> Connection]
    BY <1>15, <2>c DEF Unpack, TypeOK
  <2> QED
    BY <1>15, <2>2 DEF Unpack, TypeOK
<1>16. ASSUME NEW p \in Peer, ChannelTask(p) \/ SendFails(p) PROVE TypeOK'
  <2>0. PICK t \in BOOLEAN : TakePacket(p, t)
    BY <1>16 DEF ChannelTask, SendFails
  <2>1. Head(conn[p].mux) \in Seq(Message) /\ Tail(conn[p].mux) \in Packets
    BY <2>0 DEF TakePacket, TypeOK, Connection, Packets
  <2>c. [conn[p] EXCEPT !.mux = Tail(conn[p].mux), !.task = t] \in Connection
    BY <2>1, PeersTyped DEF Connection
  <2>2. conn' \in [Peer -> Connection] /\ packets_tx' \in Nat
    BY <2>0, <2>c DEF TakePacket, TypeOK
  <2>3. net' \subseteq [to : Peer, packet : Seq(Message)] /\ gone' \subseteq Message
    <3> DEFINE packet == Head(conn[p].mux)
               d == [to |-> Other(p), packet |-> packet]
    <3>1. net' \subseteq net \cup {d} /\ gone' \subseteq gone \cup Range(packet)
      BY <1>16 DEF ChannelTask, SendFails
    <3>2. Other(p) \in Peer /\ packet \in Seq(Message)
      BY <2>1 DEF Other, Peer
    <3> HIDE DEF packet
    <3>3. d \in [to : Peer, packet : Seq(Message)] /\ Range(packet) \subseteq Message
      BY <3>2, ContentsTyped
    <3> HIDE DEF d
    <3> QED
      BY <3>1, <3>3 DEF TypeOK
  <2>4. panicked' \subseteq panicked \cup {"socket"}
    BY <1>16 DEF ChannelTask, SendFails
  <2>5. UNCHANGED <<application, sched, dropped>>
    BY <1>16 DEF ChannelTask, SendFails
  <2> QED
    BY <2>2, <2>3, <2>4, <2>5 DEF TypeOK
<1>17. ASSUME NEW p \in Peer, StreamEnds(p) PROVE TypeOK'
  <2>1. [conn[p] EXCEPT !.task = FALSE] \in Connection
    BY PeersTyped DEF Connection
  <2> QED
    BY <1>17, <2>1 DEF StreamEnds, TypeOK
<1>18. ASSUME NEW p \in Peer, Heartbeat(p) PROVE TypeOK'
  <2>1. net' \subseteq [to : Peer, packet : Seq(Message)]
    <3>1. <<>> \in Seq(Message) /\ Other(p) \in Peer
      BY DEF Other, Peer
    <3>2. [to |-> Other(p), packet |-> <<>>] \in [to : Peer, packet : Seq(Message)]
      BY <3>1
    <3> QED
      BY <1>18, <3>2 DEF Heartbeat, Send, TypeOK
  <2>2. /\ sched' \in [Peer -> Schedule]
        /\ panicked' \subseteq {"channels", "sender", "socket", "stream"}
    BY <1>18, ScheduleTyped DEF Heartbeat, Send, TypeOK
  <2> QED
    BY <1>18, <2>1, <2>2 DEF Heartbeat, TypeOK
<1>19. ASSUME NEW p \in Peer, Disconnect(p) PROVE TypeOK'
  <2>1. sched' \in [Peer -> Schedule]
    BY <1>19, ScheduleTyped DEF Disconnect, Running
  <2>c. [NoConnection EXCEPT !.status = "dropping", !.mux = conn[p].mux,
                             !.task = conn[p].task] \in Connection
    BY NewConnectionTyped, PeersTyped DEF Connection
  <2>2. conn' \in [Peer -> Connection]
    BY <1>19, <2>c DEF Disconnect, TypeOK
  <2>3. gone' \subseteq Message
    BY <1>19, ContentsTyped DEF Disconnect, Held, TypeOK, Connection
  <2> QED
    BY <1>19, <2>1, <2>2, <2>3 DEF Disconnect, TypeOK
<1>20. ASSUME NEW p \in Peer, DropTask(p) PROVE TypeOK'
  <2>1. sched' \in [Peer -> Schedule]
    BY <1>20, ScheduleTyped DEF DropTask, Running
  <2>c. [NoConnection EXCEPT !.status = IF p = "client" THEN "none" ELSE "listening"]
          \in Connection
    BY NewConnectionTyped DEF Connection
  <2>2. conn' \in [Peer -> Connection]
    BY <1>20, <2>c DEF DropTask, TypeOK
  <2>3. gone' \subseteq Message
    BY <1>20, ContentsTyped DEF DropTask, TypeOK, Connection
  <2> QED
    BY <1>20, <2>1, <2>2, <2>3 DEF DropTask, TypeOK
<1>21. ASSUME NEW d \in net, Arrive(d) PROVE TypeOK'
  <2>1. d.to \in Peer /\ d.packet \in Seq(Message)
    BY DEF TypeOK
  <2>2. Append(conn[d.to].rx, d.packet) \in Packets
    BY <2>1, PeersTyped DEF Connection, Packets
  <2>c. [conn[d.to] EXCEPT !.rx = Append(conn[d.to].rx, d.packet)] \in Connection
    <3> DEFINE rx == Append(conn[d.to].rx, d.packet)
    <3>1. rx \in Packets /\ conn[d.to] \in Connection
      BY <2>1, <2>2, PeersTyped
    <3> HIDE DEF rx
    <3>2. [conn[d.to] EXCEPT !.rx = rx] \in Connection
      BY <3>1 DEF Connection
    <3> QED
      BY <3>2 DEF rx
  <2>3. conn' \in [Peer -> Connection]
    BY <1>21, <2>1, <2>c, NewConnectionTyped DEF Arrive, TypeOK
  <2>4. gone' \subseteq Message
    BY <1>21, <2>1, ContentsTyped DEF Arrive, TypeOK
  <2> QED
    BY <1>21, <2>3, <2>4 DEF Arrive, TypeOK
<1>22. CASE UNCHANGED vars
  BY <1>22 DEF vars, TypeOK
<1> QED
  BY <1>1, <1>2, <1>3, <1>4, <1>5, <1>6, <1>7, <1>8, <1>9, <1>10, <1>11, <1>12, <1>13,
     <1>14, <1>15, <1>16, <1>17, <1>18, <1>19, <1>20, <1>21, <1>22 DEF Next, Systems

(***************************************************************************)
(* The two applications and their connections are type correct, whatever   *)
(* the queues, the number of pings, the faults and the strategy.           *)
(***************************************************************************)
THEOREM TypeCorrect == Spec => []TypeOK
<1>1. Init => TypeOK
  BY ChannelsAssumption, SystemsTyped, NewConnectionTyped
     DEF ChannelsAssumption, Init, TypeOK, Schedule
<1> QED
  BY <1>1, NextTyped, PTL DEF Spec
-----------------------------------------------------------------------------
(* No call unwraps missing channels *)

\* Until p has set its builder it is still in its startup stage, where no packets
\* are received.
BuilderFirst(p) ==
  p \notin builder =>
    /\ "setup_channels" \in sched[p].todo
    /\ sched[p].todo \subseteq {"startup", "setup_channels"}

\* Only handle_messages has answers to send, and the connection is still there when
\* its second loop sends them.
AnswersOwed(p) ==
  to_send[p] # <<>> /\ Alive(p) =>
    sched[p].running \in {"handle_messages", "replies"} /\ Status(p) = "open"

Answerable(p) == Status(p) = "open" => conn[p].channels

NeverPanicInv ==
  /\ "channels" \notin panicked
  /\ \A p \in Peer : BuilderFirst(p) /\ Answerable(p) /\ AnswersOwed(p)

\* No connection is made, dropped or given its channels.
ConnectionsStay ==
  \A q \in Peer : /\ conn'[q].status = conn[q].status
                  /\ conn'[q].channels = conn[q].channels

\* A step on the queues of one connection leaves the connections as they are.
LEMMA QueuesOnly ==
  ASSUME TypeOK, NEW p \in Peer, NEW c, conn' = [conn EXCEPT ![p] = c],
         c.status = conn[p].status, c.channels = conn[p].channels
  PROVE  ConnectionsStay
BY DEF TypeOK, ConnectionsStay

\* What the operators on the schedule do to each peer's.
LEMMA SchedulesSeen ==
  ASSUME TypeOK, NEW p \in Peer
  PROVE  /\ \A s : Goes(p, s) => \A q \in Peer :
              /\ sched'[q].stage = sched[q].stage
              /\ sched'[q].todo = sched[q].todo
              /\ sched'[q].running = IF q = p THEN s ELSE sched[q].running
         /\ \A s : Ends(p, s) => \A q \in Peer :
              /\ sched'[q].stage = sched[q].stage
              /\ sched'[q].todo = IF q = p THEN sched[q].todo \ {s} ELSE sched[q].todo
              /\ sched'[q].running = IF q = p THEN "none" ELSE sched[q].running
         /\ \A u : Panic(p, u) => \A q \in Peer :
              /\ sched'[q].stage = IF q = p THEN "dead" ELSE sched[q].stage
              /\ sched'[q].todo = sched[q].todo
              /\ sched'[q].running = sched[q].running
<1> USE DEF TypeOK, Schedule
<1>1. ASSUME NEW s, Goes(p, s)
      PROVE  \A q \in Peer : /\ sched'[q].stage = sched[q].stage
                             /\ sched'[q].todo = sched[q].todo
                             /\ sched'[q].running = IF q = p THEN s ELSE sched[q].running
  BY <1>1 DEF Goes
<1>2. ASSUME NEW s, Ends(p, s)
      PROVE  \A q \in Peer :
               /\ sched'[q].stage = sched[q].stage
               /\ sched'[q].todo = IF q = p THEN sched[q].todo \ {s} ELSE sched[q].todo
               /\ sched'[q].running = IF q = p THEN "none" ELSE sched[q].running
  BY <1>2 DEF Ends
<1>3. ASSUME NEW u, Panic(p, u)
      PROVE  \A q \in Peer : /\ sched'[q].stage = IF q = p THEN "dead" ELSE sched[q].stage
                             /\ sched'[q].todo = sched[q].todo
                             /\ sched'[q].running = sched[q].running
  BY <1>3 DEF Panic
<1> QED
  BY <1>1, <1>2, <1>3

\* The end of a system: it has no answers left to send, and what the connections
\* are is up to the step.
LEMMA EndsQuietly ==
  ASSUME TypeOK, NeverPanicInv, NEW p \in Peer, NEW s, Ends(p, s), to_send[p] = <<>>,
         builder \subseteq builder', s = "setup_channels" => p \in builder',
         UNCHANGED to_send, \A q \in Peer : q # p => conn'[q] = conn[q]
  PROVE  \A q \in Peer : BuilderFirst(q)' /\ AnswersOwed(q)'
<1>1. \A q \in Peer :
        /\ sched'[q].stage = sched[q].stage
        /\ sched'[q].todo = IF q = p THEN sched[q].todo \ {s} ELSE sched[q].todo
        /\ sched'[q].running = IF q = p THEN "none" ELSE sched[q].running
  BY SchedulesSeen
<1>2. \A q \in Peer : BuilderFirst(q)'
  BY <1>1 DEF NeverPanicInv, BuilderFirst
<1>3. \A q \in Peer : AnswersOwed(q)'
  BY <1>1 DEF NeverPanicInv, AnswersOwed, Status, Alive
<1> QED
  BY <1>2, <1>3

\* A step that leaves the schedules and the connections as they are.
LEMMA Waits ==
  ASSUME NeverPanicInv, ConnectionsStay, UNCHANGED <<sched, to_send, builder>>,
         panicked' \subseteq panicked \cup {"socket", "stream"}
  PROVE  NeverPanicInv'
BY DEF NeverPanicInv, BuilderFirst, Answerable, AnswersOwed, ConnectionsStay, Status, Alive

\* A call of send_message: the connection has its channels.
LEMMA CallSends ==
  ASSUME TypeOK, NEW p \in Peer, NEW m, NEW s, Call(p, m, s), conn[p].channels
  PROVE  ConnectionsStay /\ Goes(p, s) /\ UNCHANGED panicked
<1>1. SendMessage(p, m) /\ Goes(p, s) /\ UNCHANGED panicked
  BY DEF Call
<1>2. ConnectionsStay
  <2> DEFINE o == IF Len(conn[p].outbox) < MessageBuffer
                  THEN Append(conn[p].outbox, m) ELSE conn[p].outbox
             f == conn[p].flush \/ AsksToFlush
             c == [conn[p] EXCEPT !.outbox = o, !.flush = f]
  <2>1. c.status = conn[p].status /\ c.channels = conn[p].channels
    BY PeersTyped DEF Connection
  <2>2. conn' = [conn EXCEPT ![p] = c]
    BY <1>1 DEF SendMessage, TypeOK
  <2> HIDE DEF c
  <2> QED
    BY <2>1, <2>2, QueuesOnly
<1> QED
  BY <1>1, <1>2

LEMMA NextNeverPanics == TypeOK /\ NeverPanicInv /\ [Next]_vars => NeverPanicInv'
<1> SUFFICES ASSUME TypeOK, NeverPanicInv, [Next]_vars PROVE NeverPanicInv'
  OBVIOUS
<1>a. \A p \in Peer : BuilderFirst(p) /\ Answerable(p) /\ AnswersOwed(p)
  BY DEF NeverPanicInv
<1>b. \A p \in Peer : conn[p] \in Connection /\ sched[p] \in Schedule
  BY PeersTyped
<1> USE DEF setup, counters, application, history
<1>1. ASSUME NEW p \in Peer, NextStage(p) PROVE NeverPanicInv'
  <2>1. /\ \A q \in Peer : q # p => sched'[q] = sched[q]
        /\ sched[p].todo = {} /\ sched[p].running = "none" /\ Alive(p)
        /\ UNCHANGED <<conn, builder, to_send, panicked>>
    BY <1>1 DEF NextStage, TypeOK
  <2>2. p \in builder /\ to_send[p] = <<>>
    BY <1>a, <2>1 DEF BuilderFirst, AnswersOwed
  <2> QED
    BY <2>1, <2>2 DEF NeverPanicInv, BuilderFirst, Answerable, AnswersOwed, Status, Alive
<1>2. ASSUME NEW p \in Peer, Startup(p) PROVE NeverPanicInv'
  <2>1. /\ \A q \in Peer : q # p => conn'[q] = conn[q]
        /\ conn'[p].status # "open"
    BY <1>2, <1>b DEF Startup, TypeOK, Connection
  <2>2. Alive(p) /\ to_send[p] = <<>>
    BY <1>2, <1>a DEF Startup, May, AnswersOwed
  <2>3. Ends(p, "startup") /\ UNCHANGED <<builder, to_send, panicked>>
    BY <1>2 DEF Startup
  <2> QED
    BY <2>1, <2>2, <2>3, <1>a, EndsQuietly DEF NeverPanicInv, Answerable, Status
<1>3. ASSUME NEW p \in Peer, SetupChannels(p) PROVE NeverPanicInv'
  <2>1. Alive(p) /\ to_send[p] = <<>>
    BY <1>3, <1>a DEF SetupChannels, May, AnswersOwed
  <2>2. /\ Ends(p, "setup_channels") /\ builder' = builder \cup {p}
        /\ UNCHANGED <<conn, to_send, panicked>>
    BY <1>3 DEF SetupChannels
  <2> QED
    BY <2>1, <2>2, <1>a, EndsQuietly DEF NeverPanicInv, Answerable, Status
<1>4. ASSUME NEW p \in Peer, Register(p) PROVE NeverPanicInv'
  <2>1. Alive(p) /\ p \in builder /\ to_send[p] = <<>>
    BY <1>4, <1>a DEF Register, May, BuilderFirst, AnswersOwed
  <2>2. /\ \A q \in Peer : q # p => conn'[q] = conn[q]
        /\ conn'[p].channels
    BY <1>4, <1>b, <2>1 DEF Register, BuildChannels, TypeOK, Connection
  <2>3. Goes(p, "receive_packets") /\ UNCHANGED <<builder, to_send, panicked>>
    BY <1>4 DEF Register
  <2> QED
    BY <2>1, <2>2, <2>3, SchedulesSeen
       DEF NeverPanicInv, BuilderFirst, Answerable, AnswersOwed, Status, Alive
<1>5. ASSUME NEW p \in Peer, ReceivePacket(p) PROVE NeverPanicInv'
  <2> DEFINE rx == Tail(conn[p].rx)
             c == [conn[p] EXCEPT !.rx = rx]
             d == [conn[p] EXCEPT !.rx = rx,
                                  !.incoming = Append(conn[p].incoming, Head(conn[p].rx))]
  <2>1. conn' = [conn EXCEPT ![p] = c] \/ conn' = [conn EXCEPT ![p] = d]
    BY <1>5 DEF ReceivePacket, TypeOK
  <2>2. ConnectionsStay
    <3>1. /\ c.status = conn[p].status /\ c.channels = conn[p].channels
          /\ d.status = conn[p].status /\ d.channels = conn[p].channels
      BY <1>b DEF Connection
    <3> HIDE DEF c, d
    <3> QED
      BY <2>1, <3>1, QueuesOnly
  <2>3. Alive(p) /\ sched[p].running \in {"none", "receive_packets"}
    BY <1>5 DEF ReceivePacket, May
  <2>4. Goes(p, "receive_packets") /\ UNCHANGED <<builder, to_send, panicked>>
    BY <1>5 DEF ReceivePacket
  <2> QED
    BY <2>2, <2>3, <2>4, SchedulesSeen
       DEF NeverPanicInv, BuilderFirst, Answerable, AnswersOwed, ConnectionsStay, Status, Alive
<1>6. ASSUME NEW p \in Peer, ReceiveNothing(p) PROVE NeverPanicInv'
  <2>1. Alive(p) /\ to_send[p] = <<>> /\ p \in builder
    BY <1>6, <1>a DEF ReceiveNothing, May, AnswersOwed, BuilderFirst
  <2>2. /\ Ends(p, "receive_packets")
        /\ UNCHANGED <<conn, builder, to_send, panicked>>
    BY <1>6 DEF ReceiveNothing
  <2> QED
    BY <2>1, <2>2, <1>a, EndsQuietly DEF NeverPanicInv, Answerable, Status
<1>7. ASSUME NEW p \in Peer, SendPing(p) PROVE NeverPanicInv'
  <2>1. /\ Alive(p) /\ sched[p].running \in {"none", "send_messages"}
        /\ UNCHANGED <<builder, to_send>>
    BY <1>7 DEF SendPing, May
  <2>2. CASE Status(p) = "open"
    <3>1. conn[p].channels /\ Call(p, NextPing, "send_messages")
      BY <1>7, <1>a, <2>2 DEF SendPing, Answerable
    <3>2. ConnectionsStay /\ Goes(p, "send_messages") /\ UNCHANGED panicked
      BY <3>1, CallSends
    <3> QED
      BY <2>1, <3>2, SchedulesSeen
         DEF NeverPanicInv, BuilderFirst, Answerable, AnswersOwed, ConnectionsStay, Status, Alive
  <2>3. CASE Status(p) # "open"
    <3>1. Goes(p, "send_messages") /\ UNCHANGED <<conn, panicked>>
      BY <1>7, <2>3 DEF SendPing
    <3> QED
      BY <2>1, <3>1, SchedulesSeen
         DEF NeverPanicInv, BuilderFirst, Answerable, AnswersOwed, Status, Alive
  <2> QED
    BY <2>2, <2>3
<1>8. ASSUME NEW p \in Peer, EndPings(p) PROVE NeverPanicInv'
  <2>1. Alive(p) /\ to_send[p] = <<>> /\ p \in builder
    BY <1>8, <1>a DEF EndPings, May, AnswersOwed, BuilderFirst
  <2>2. /\ Ends(p, "send_messages")
        /\ UNCHANGED <<conn, builder, to_send, panicked>>
    BY <1>8 DEF EndPings
  <2> QED
    BY <2>1, <2>2, <1>a, EndsQuietly DEF NeverPanicInv, Answerable, Status
<1>9. ASSUME NEW p \in Peer, RecvMessage(p) PROVE NeverPanicInv'
  <2>1. Alive(p) /\ Status(p) = "open" /\ conn[p].channels
    BY <1>9, <1>a DEF RecvMessage, May, Answerable
  <2> DEFINE c == [conn[p] EXCEPT !.inbox = Tail(conn[p].inbox)]
  <2>2. conn' = [conn EXCEPT ![p] = c]
    BY <1>9, <2>1 DEF RecvMessage, TypeOK
  <2>3. ConnectionsStay
    <3>1. c.status = conn[p].status /\ c.channels = conn[p].channels
      BY <1>b DEF Connection
    <3> HIDE DEF c
    <3> QED
      BY <2>2, <3>1, QueuesOnly
  <2>4. /\ Goes(p, "handle_messages") /\ UNCHANGED <<builder, panicked>>
        /\ \A q \in Peer : q # p => to_send'[q] = to_send[q]
    BY <1>9, <2>1 DEF RecvMessage, TypeOK
  <2> QED
    BY <2>1, <2>3, <2>4, SchedulesSeen
       DEF NeverPanicInv, BuilderFirst, Answerable, AnswersOwed, ConnectionsStay, Status, Alive
<1>10. ASSUME NEW p \in Peer, NoMessage(p) PROVE NeverPanicInv'
  <2>1. Alive(p) /\ "handle_messages" \in sched[p].todo /\ p \in builder
    BY <1>10, <1>a DEF NoMessage, May, BuilderFirst
  <2>2. /\ sched' = [sched EXCEPT ![p] = [sched[p] EXCEPT !.running = "replies",
                                             !.todo = sched[p].todo \ {"handle_messages"}]]
        /\ UNCHANGED <<conn, builder, to_send, panicked>>
    BY <1>10 DEF NoMessage, TypeOK
  <2>3. \A q \in Peer : /\ q # p => sched'[q] = sched[q]
                        /\ sched'[p].stage = sched[p].stage
                        /\ sched'[p].running = "replies"
    BY <2>2, <1>b DEF TypeOK, Schedule
  <2> QED
    BY <2>1, <2>2, <2>3 DEF NeverPanicInv, BuilderFirst, Answerable, AnswersOwed, Status, Alive
<1>11. ASSUME NEW p \in Peer, Reply(p) PROVE NeverPanicInv'
  <2>1. /\ Alive(p) /\ sched[p].running = "replies"
        /\ Status(p) = "open" /\ conn[p].channels
    BY <1>11, <1>a DEF Reply, AnswersOwed, Answerable
  <2>2. ConnectionsStay /\ Goes(p, "replies") /\ UNCHANGED panicked
    BY <1>11, <2>1, CallSends DEF Reply
  <2>3. UNCHANGED builder /\ \A q \in Peer : q # p => to_send'[q] = to_send[q]
    BY <1>11 DEF Reply, TypeOK
  <2> QED
    BY <2>1, <2>2, <2>3, SchedulesSeen
       DEF NeverPanicInv, BuilderFirst, Answerable, AnswersOwed, ConnectionsStay, Status, Alive
<1>12. ASSUME NEW p \in Peer, EndReplies(p) PROVE NeverPanicInv'
  <2>1. /\ Goes(p, "none") /\ to_send[p] = <<>>
        /\ UNCHANGED <<conn, builder, to_send, panicked>>
    BY <1>12 DEF EndReplies
  <2> QED
    BY <2>1, SchedulesSeen
       DEF NeverPanicInv, BuilderFirst, Answerable, AnswersOwed, Status, Alive
<1>13. ASSUME NEW p \in Peer, FlushChannels(p) PROVE NeverPanicInv'
  <2>1. Alive(p) /\ to_send[p] = <<>> /\ p \in builder
    BY <1>13, <1>a DEF FlushChannels, May, AnswersOwed, BuilderFirst
  <2>2. ~ (Status(p) = "open" /\ ~ conn[p].channels)
    BY <1>a DEF Answerable
  <2> DEFINE c == [conn[p] EXCEPT !.flush = conn[p].channels]
  <2>3. conn' = [conn EXCEPT ![p] = c] /\ Ends(p, "flush_channels")
        /\ UNCHANGED <<builder, to_send, panicked>>
    BY <1>13, <2>2 DEF FlushChannels, TypeOK
  <2>4. c.status = conn[p].status /\ c.channels = conn[p].channels
    BY <1>b DEF Connection
  <2> HIDE DEF c
  <2>5. ConnectionsStay /\ \A q \in Peer : q # p => conn'[q] = conn[q]
    BY <2>3, <2>4, QueuesOnly DEF TypeOK
  <2> QED
    BY <2>1, <2>3, <2>5, <1>a, EndsQuietly
       DEF NeverPanicInv, Answerable, ConnectionsStay, Status
<1>14. ASSUME NEW p \in Peer, Pack(p) PROVE NeverPanicInv'
  <2> DEFINE mux == IF conn[p].outbox = <<>> THEN conn[p].mux
                    ELSE Append(conn[p].mux, conn[p].outbox)
             c == [conn[p] EXCEPT !.flush = FALSE, !.outbox = <<>>, !.mux = mux]
  <2>1. conn' = [conn EXCEPT ![p] = c]
    BY <1>14 DEF Pack, TypeOK
  <2>2. c.status = conn[p].status /\ c.channels = conn[p].channels
    BY <1>b DEF Connection
  <2> HIDE DEF c
  <2> QED
    BY <1>14, <2>1, <2>2, QueuesOnly, Waits DEF Pack
<1>15. ASSUME NEW p \in Peer, Unpack(p) PROVE NeverPanicInv'
  <2> DEFINE c == [conn[p] EXCEPT !.incoming = Tail(conn[p].incoming),
                                  !.inbox = conn[p].inbox \o Head(conn[p].incoming)]
  <2>1. conn' = [conn EXCEPT ![p] = c]
    BY <1>15 DEF Unpack, TypeOK
  <2>2. c.status = conn[p].status /\ c.channels = conn[p].channels
    BY <1>b DEF Connection
  <2> HIDE DEF c
  <2> QED
    BY <1>15, <2>1, <2>2, QueuesOnly, Waits DEF Unpack
<1>16. ASSUME NEW p \in Peer, ChannelTask(p) \/ SendFails(p) PROVE NeverPanicInv'
  <2>0. PICK t \in BOOLEAN : TakePacket(p, t)
    BY <1>16 DEF ChannelTask, SendFails
  <2> DEFINE c == [conn[p] EXCEPT !.mux = Tail(conn[p].mux), !.task = t]
  <2>1. conn' = [conn EXCEPT ![p] = c]
    BY <2>0 DEF TakePacket, TypeOK
  <2>2. c.status = conn[p].status /\ c.channels = conn[p].channels
    BY <1>b DEF Connection
  <2> HIDE DEF c
  <2>3. panicked' \subseteq panicked \cup {"socket"}
    BY <1>16 DEF ChannelTask, SendFails
  <2> QED
    <3>1. UNCHANGED <<sched, builder, to_send>>
      BY <1>16 DEF ChannelTask, SendFails
    <3> QED
      BY <2>1, <2>2, <2>3, <3>1, QueuesOnly, Waits
<1>17. ASSUME NEW p \in Peer, StreamEnds(p) PROVE NeverPanicInv'
  <2> DEFINE c == [conn[p] EXCEPT !.task = FALSE]
  <2>1. conn' = [conn EXCEPT ![p] = c]
    BY <1>17 DEF StreamEnds, TypeOK
  <2>2. c.status = conn[p].status /\ c.channels = conn[p].channels
    BY <1>b DEF Connection
  <2> HIDE DEF c
  <2>3. panicked' \subseteq panicked \cup {"stream"}
    BY <1>17 DEF StreamEnds
  <2> QED
    BY <1>17, <2>1, <2>2, <2>3, QueuesOnly, Waits DEF StreamEnds
<1>18. ASSUME NEW p \in Peer, Heartbeat(p) PROVE NeverPanicInv'
  <2>1. UNCHANGED <<conn, builder, to_send>>
    BY <1>18 DEF Heartbeat
  <2>2. ConnectionsStay
    BY <2>1 DEF ConnectionsStay
  <2>3. CASE Panic(p, "sender")
    <3>1. "channels" \notin panicked'
      BY <2>3 DEF Panic, NeverPanicInv
    <3> QED
      BY <2>1, <2>3, <3>1, SchedulesSeen
         DEF NeverPanicInv, BuilderFirst, Answerable, AnswersOwed, Status, Alive
  <2>4. CASE UNCHANGED <<sched, panicked>>
    BY <2>1, <2>2, <2>4, Waits
  <2> QED
    BY <1>18, <2>3, <2>4 DEF Heartbeat, Send
<1>19. ASSUME NEW p \in Peer, Disconnect(p) PROVE NeverPanicInv'
  <2>1. Alive(p) /\ to_send[p] = <<>>
    BY <1>19, <1>a DEF Disconnect, AnswersOwed
  <2>2. /\ \A q \in Peer : q # p => conn'[q] = conn[q]
        /\ conn'[p].status = "dropping"
    BY <1>19, <1>b DEF Disconnect, TypeOK, NoConnection, NewConnection
  <2>3. Goes(p, "disconnect") /\ UNCHANGED <<builder, to_send, panicked>>
    BY <1>19 DEF Disconnect
  <2> QED
    BY <2>1, <2>2, <2>3, SchedulesSeen
       DEF NeverPanicInv, BuilderFirst, Answerable, AnswersOwed, Status, Alive
<1>20. ASSUME NEW p \in Peer, DropTask(p) PROVE NeverPanicInv'
  <2>1. Alive(p) => to_send[p] = <<>>
    BY <1>20, <1>a DEF DropTask, AnswersOwed
  <2>2. /\ \A q \in Peer : q # p => conn'[q] = conn[q]
        /\ conn'[p].status # "open"
    BY <1>20, <1>b DEF DropTask, TypeOK, NoConnection, NewConnection
  <2>3. Goes(p, "none") /\ UNCHANGED <<builder, to_send, panicked>>
    BY <1>20 DEF DropTask
  <2> QED
    BY <2>1, <2>2, <2>3, SchedulesSeen
       DEF NeverPanicInv, BuilderFirst, Answerable, AnswersOwed, Status, Alive
<1>21. ASSUME NEW d \in net, Arrive(d) PROVE NeverPanicInv'
  <2>1. d.to \in Peer /\ UNCHANGED <<sched, builder, to_send, panicked>>
    BY <1>21 DEF Arrive, TypeOK
  <2>2. CASE conn' = [conn EXCEPT ![d.to].rx = Append(@, d.packet)]
    <3> DEFINE c == [conn[d.to] EXCEPT !.rx = Append(conn[d.to].rx, d.packet)]
    <3>1. conn' = [conn EXCEPT ![d.to] = c]
      BY <2>1, <2>2 DEF TypeOK
    <3>2. c.status = conn[d.to].status /\ c.channels = conn[d.to].channels
      BY <1>b, <2>1 DEF Connection
    <3> HIDE DEF c
    <3> QED
      BY <2>1, <3>1, <3>2, QueuesOnly, Waits
  <2>3. CASE Status(d.to) = "listening" /\ conn' = [conn EXCEPT ![d.to] = NewConnection(<<d.packet>>)]
    <3>1. /\ \A q \in Peer : q # d.to => conn'[q] = conn[q]
          /\ conn'[d.to].status = "pending"
      BY <2>1, <2>3 DEF TypeOK, NewConnection
    <3>2. Alive(d.to) => to_send[d.to] = <<>>
      BY <1>a, <2>1, <2>3 DEF AnswersOwed
    <3> QED
      BY <2>1, <3>1, <3>2
         DEF NeverPanicInv, BuilderFirst, Answerable, AnswersOwed, Status, Alive
  <2>4. CASE UNCHANGED conn
    BY <2>1, <2>4, Waits DEF ConnectionsStay
  <2> QED
    BY <1>21, <2>2, <2>3, <2>4 DEF Arrive
<1>22. CASE UNCHANGED vars
  BY <1>22, Waits DEF vars, ConnectionsStay
<1> QED
  BY <1>1, <1>2, <1>3, <1>4, <1>5, <1>6, <1>7, <1>8, <1>9, <1>10, <1>11, <1>12, <1>13,
     <1>14, <1>15, <1>16, <1>17, <1>18, <1>19, <1>20, <1>21, <1>22 DEF Next, Systems

(***************************************************************************)
(* No call of the message API unwraps channels that a connection lacks,    *)
(* whatever the order of the systems, the faults of the network and the    *)
(* disconnects of either peer.                                             *)
(***************************************************************************)
THEOREM MessagesNeverPanicAlways == Spec => []MessagesNeverPanic
<1>1. Init => NeverPanicInv
  BY DEF Init, NeverPanicInv, BuilderFirst, Answerable, AnswersOwed, Status, SystemsOf,
         NoConnection, NewConnection
<1>2. NeverPanicInv => MessagesNeverPanic
  BY DEF NeverPanicInv, MessagesNeverPanic
<1> QED
  BY <1>1, <1>2, NextNeverPanics, TypeCorrect, PTL DEF Spec
-----------------------------------------------------------------------------
(* Whose messages are where, and whose turn it is *)

\* What the systems of p send.
Said(p) == {m \in Message : m.kind = IF p = "client" THEN "ping" ELSE "pong"}

Carries(c, p) ==
  /\ c.outbox \in Seq(Said(p)) /\ c.mux \in Seq(Seq(Said(p)))
  /\ c.rx \in Seq(Seq(Said(Other(p)))) /\ c.incoming \in Seq(Seq(Said(Other(p))))
  /\ c.inbox \in Seq(Said(Other(p)))

\* The client has no pings to answer.
KindsInv ==
  /\ to_send["client"] = <<>>
  /\ to_send["server"] \in Seq(Said("server"))
  /\ \A p \in Peer : Carries(conn[p], p)
  /\ \A d \in net : d.packet \in Seq(Said(Other(d.to)))

\* The pings of one tick are sent within one run of send_messages, and
\* flush_channels runs in a stage of its own.
TurnsInv ==
  /\ "send_messages" \notin sched["server"].todo
  /\ burst # 0 => "send_messages" \in sched["client"].todo
  /\ "flush_channels" \in sched["client"].todo =>
       /\ sched["client"].todo = {"flush_channels"}
       /\ sched["client"].stage \in {"post", "dead"}

LEMMA NextTurns == TypeOK /\ TurnsInv /\ [Next]_vars => TurnsInv'
<1> SUFFICES ASSUME TypeOK, TurnsInv, [Next]_vars PROVE TurnsInv'
  OBVIOUS
<1>a. "client" \in Peer /\ "server" \in Peer
  BY DEF Peer
<1> USE DEF setup, counters, application, history
<1>1. ASSUME NEW p \in Peer, NextStage(p) PROVE TurnsInv'
  <2> DEFINE next == IF manual_flush /\ sched[p].stage = "update" THEN "post" ELSE "update"
  <2>1. sched' = [sched EXCEPT ![p] = [sched[p] EXCEPT !.stage = next,
                                                       !.todo = SystemsOf(p, next)]]
    BY <1>1 DEF NextStage, TypeOK
  <2>2. /\ sched'[p].stage = next /\ sched'[p].todo = SystemsOf(p, next)
        /\ \A q \in Peer : q # p => sched'[q] = sched[q]
    BY <2>1, PeersTyped DEF TypeOK, Schedule
  <2>3. sched[p].todo = {} /\ UNCHANGED burst
    BY <1>1 DEF NextStage
  <2>4. next = "post" \/ next = "update"
    OBVIOUS
  <2> HIDE DEF next
  <2>5. SystemsOf(p, "post") = {"flush_channels"}
    BY DEF SystemsOf
  <2>6. SystemsOf("client", "update") = {"receive_packets", "handle_messages", "send_messages"}
    BY DEF SystemsOf
  <2>7. SystemsOf("server", "update") = {"receive_packets", "handle_messages"}
    BY DEF SystemsOf
  <2>8. p = "client" \/ p = "server"
    BY DEF Peer
  <2> QED
    BY <2>2, <2>3, <2>4, <2>5, <2>6, <2>7, <2>8, <1>a DEF TurnsInv
<1>e. ASSUME NEW p \in Peer, NEW s, Ends(p, s),
             burst' = 0 \/ (burst' = burst /\ s # "send_messages")
      PROVE  TurnsInv'
  <2>1. \A q \in Peer :
          /\ sched'[q].stage = sched[q].stage
          /\ sched'[q].todo = IF q = p THEN sched[q].todo \ {s} ELSE sched[q].todo
    BY <1>e, SchedulesSeen
  <2>2. "send_messages" \notin sched'["server"].todo
    BY <1>a, <2>1 DEF TurnsInv
  <2>3. burst' # 0 => "send_messages" \in sched'["client"].todo
    BY <1>a, <1>e, <2>1 DEF TurnsInv
  <2>4. ASSUME "flush_channels" \in sched'["client"].todo
        PROVE  /\ sched'["client"].todo = {"flush_channels"}
               /\ sched'["client"].stage \in {"post", "dead"}
    BY <1>a, <2>1, <2>4 DEF TurnsInv
  <2> QED
    BY <2>2, <2>3, <2>4 DEF TurnsInv
<1>g. ASSUME NEW p \in Peer, NEW s, Goes(p, s), UNCHANGED burst PROVE TurnsInv'
  BY <1>a, <1>g, SchedulesSeen DEF TurnsInv
<1>p. ASSUME NEW p \in Peer, NEW u, Panic(p, u), UNCHANGED burst PROVE TurnsInv'
  BY <1>a, <1>p, SchedulesSeen DEF TurnsInv
<1>u. ASSUME UNCHANGED <<sched, burst>> PROVE TurnsInv'
  BY <1>u DEF TurnsInv
<1>2. ASSUME NEW p \in Peer, Startup(p) PROVE TurnsInv'
  BY <1>2, <1>e DEF Startup
<1>3. ASSUME NEW p \in Peer, SetupChannels(p) PROVE TurnsInv'
  BY <1>3, <1>e DEF SetupChannels
<1>4. ASSUME NEW p \in Peer, Register(p) PROVE TurnsInv'
  BY <1>4, <1>g DEF Register
<1>5. ASSUME NEW p \in Peer, ReceivePacket(p) PROVE TurnsInv'
  BY <1>5, <1>g DEF ReceivePacket
<1>6. ASSUME NEW p \in Peer, ReceiveNothing(p) PROVE TurnsInv'
  BY <1>6, <1>e DEF ReceiveNothing
<1>7. ASSUME NEW p \in Peer, SendPing(p) PROVE TurnsInv'
  <2>1. "send_messages" \in sched[p].todo /\ p = "client"
    BY <1>7 DEF SendPing, May, TurnsInv, Peer
  <2>2. Goes(p, "send_messages") \/ Panic(p, "channels")
    BY <1>7 DEF SendPing, Call
  <2>3. \A q \in Peer : sched'[q].todo = sched[q].todo
    BY <2>2, SchedulesSeen
  <2>4. sched'["client"].stage \in {sched["client"].stage, "dead"}
    BY <2>1, <2>2, <1>a, SchedulesSeen
  <2> QED
    BY <2>1, <2>3, <2>4, <1>a DEF TurnsInv
<1>8. ASSUME NEW p \in Peer, EndPings(p) PROVE TurnsInv'
  BY <1>8, <1>e DEF EndPings
<1>9. ASSUME NEW p \in Peer, RecvMessage(p) PROVE TurnsInv'
  BY <1>9, <1>g, <1>p DEF RecvMessage
<1>10. ASSUME NEW p \in Peer, NoMessage(p) PROVE TurnsInv'
  <2>2. /\ sched' = [sched EXCEPT ![p] = [sched[p] EXCEPT !.running = "replies",
                                             !.todo = sched[p].todo \ {"handle_messages"}]]
        /\ UNCHANGED burst
    BY <1>10 DEF NoMessage, TypeOK
  <2>3. \A q \in Peer : /\ q # p => sched'[q] = sched[q]
                        /\ sched'[p].stage = sched[p].stage
                        /\ sched'[p].todo = sched[p].todo \ {"handle_messages"}
    BY <2>2, PeersTyped DEF TypeOK, Schedule
  <2> QED
    BY <1>a, <2>2, <2>3 DEF TurnsInv
<1>11. ASSUME NEW p \in Peer, Reply(p) PROVE TurnsInv'
  BY <1>11, <1>g, <1>p DEF Reply, Call
<1>12. ASSUME NEW p \in Peer, EndReplies(p) PROVE TurnsInv'
  BY <1>12, <1>g DEF EndReplies
<1>13. ASSUME NEW p \in Peer, FlushChannels(p) PROVE TurnsInv'
  BY <1>13, <1>e, <1>p DEF FlushChannels
<1>14. ASSUME NEW p \in Peer, Pack(p) \/ Unpack(p) \/ ChannelTask(p) \/ SendFails(p)
                               \/ StreamEnds(p)
       PROVE  TurnsInv'
  BY <1>14, <1>u DEF Pack, Unpack, ChannelTask, SendFails, StreamEnds
<1>15. ASSUME NEW p \in Peer, Heartbeat(p) PROVE TurnsInv'
  BY <1>15, <1>p, <1>u DEF Heartbeat, Send
<1>16. ASSUME NEW p \in Peer, Disconnect(p) PROVE TurnsInv'
  BY <1>16, <1>g DEF Disconnect
<1>17. ASSUME NEW p \in Peer, DropTask(p) PROVE TurnsInv'
  BY <1>17, <1>g DEF DropTask
<1>18. ASSUME NEW d \in net, Arrive(d) PROVE TurnsInv'
  BY <1>18, <1>u DEF Arrive
<1>19. CASE UNCHANGED vars
  BY <1>19, <1>u DEF vars
<1> QED
  BY <1>1, <1>2, <1>3, <1>4, <1>5, <1>6, <1>7, <1>8, <1>9, <1>10, <1>11, <1>12, <1>13,
     <1>14, <1>15, <1>16, <1>17, <1>18, <1>19 DEF Next, Systems

LEMMA OthersOther == \A p \in Peer : Other(p) \in Peer /\ Other(Other(p)) = p
BY DEF Other, Peer

\* A step on the connection of p.
LEMMA OneConnection ==
  ASSUME TypeOK, NEW p \in Peer, NEW c, conn' = [conn EXCEPT ![p] = c]
  PROVE  conn'[p] = c /\ \A q \in Peer : q # p => conn'[q] = conn[q]
BY DEF TypeOK

LEMMA CarriesOn ==
  ASSUME TypeOK, KindsInv, NEW p \in Peer, NEW c, conn' = [conn EXCEPT ![p] = c], Carries(c, p)
  PROVE  \A q \in Peer : Carries(conn'[q], q)
BY OneConnection DEF KindsInv

LEMMA CallKinds ==
  ASSUME TypeOK, KindsInv, NEW p \in Peer, NEW m \in Said(p), NEW s, Call(p, m, s)
  PROVE  \A q \in Peer : Carries(conn'[q], q)
<1>1. CASE conn[p].channels
  <2> DEFINE o == IF Len(conn[p].outbox) < MessageBuffer
                  THEN Append(conn[p].outbox, m) ELSE conn[p].outbox
             f == conn[p].flush \/ AsksToFlush
             c == [conn[p] EXCEPT !.outbox = o, !.flush = f]
  <2>1. conn' = [conn EXCEPT ![p] = c]
    BY <1>1 DEF Call, SendMessage, TypeOK
  <2>2. Carries(conn[p], p)
    BY DEF KindsInv
  <2>3. o \in Seq(Said(p))
    BY <2>2 DEF Carries
  <2> HIDE DEF o, f
  <2>4. Carries(c, p)
    BY <2>2, <2>3, PeersTyped DEF Carries, Connection
  <2> HIDE DEF c
  <2> QED
    BY <2>1, <2>4, CarriesOn
<1>2. CASE ~ conn[p].channels
  BY <1>2 DEF Call, KindsInv
<1> QED
  BY <1>1, <1>2

LEMMA NextKinds == TypeOK /\ TurnsInv /\ KindsInv /\ [Next]_vars => KindsInv'
<1> SUFFICES ASSUME TypeOK, TurnsInv, KindsInv, [Next]_vars PROVE KindsInv'
  OBVIOUS
<1>a. \A p \in Peer : conn[p] \in Connection /\ Carries(conn[p], p)
  BY PeersTyped DEF KindsInv
<1>b. "client" \in Peer /\ "server" \in Peer
  BY DEF Peer
<1>c. \A S : <<>> \in Seq(S)
  OBVIOUS
<1>q. ASSUME UNCHANGED <<to_send, net>>, \A q \in Peer : Carries(conn'[q], q) PROVE KindsInv'
  BY <1>q DEF KindsInv
<1>u. ASSUME UNCHANGED <<to_send, net, conn>> PROVE KindsInv'
  BY <1>u DEF KindsInv
<1> USE DEF setup, counters, application, history
<1>1. ASSUME NEW p \in Peer, NextStage(p) \/ SetupChannels(p) \/ ReceiveNothing(p)
                               \/ EndPings(p) \/ NoMessage(p) \/ EndReplies(p)
      PROVE  KindsInv'
  BY <1>1, <1>u DEF NextStage, SetupChannels, ReceiveNothing, EndPings, NoMessage, EndReplies
<1>2. ASSUME NEW p \in Peer, Startup(p) PROVE KindsInv'
  <2> DEFINE c == [conn[p] EXCEPT !.status = IF p = "client" THEN "pending" ELSE "listening"]
  <2>1. conn' = [conn EXCEPT ![p] = c] /\ UNCHANGED <<to_send, net>>
    BY <1>2 DEF Startup, TypeOK
  <2>2. Carries(c, p)
    BY <1>a DEF Carries, Connection
  <2> HIDE DEF c
  <2> QED
    BY <2>1, <2>2, <1>q, CarriesOn
<1>3. ASSUME NEW p \in Peer, Register(p) PROVE KindsInv'
  <2> DEFINE o == [conn[p] EXCEPT !.status = "open"]
             c == IF p \in builder THEN BuildChannels(o) ELSE o
  <2>1. conn' = [conn EXCEPT ![p] = c] /\ UNCHANGED <<to_send, net>>
    BY <1>3 DEF Register, TypeOK
  <2>2. Carries(o, p) /\ o \in Connection
    BY <1>a DEF Carries, Connection
  <2> HIDE DEF o
  <2>3. Carries(c, p)
    BY <2>2 DEF Carries, Connection, BuildChannels
  <2> HIDE DEF c
  <2> QED
    BY <2>1, <2>3, <1>q, CarriesOn
<1>4. ASSUME NEW p \in Peer, ReceivePacket(p) PROVE KindsInv'
  <2> DEFINE S == Said(Other(p))
             rx == Tail(conn[p].rx)
             incoming == Append(conn[p].incoming, Head(conn[p].rx))
             c == [conn[p] EXCEPT !.rx = rx]
             d == [conn[p] EXCEPT !.rx = rx, !.incoming = incoming]
  <2>1. /\ conn' = [conn EXCEPT ![p] = c] \/ conn' = [conn EXCEPT ![p] = d]
        /\ conn[p].rx # <<>> /\ UNCHANGED <<to_send, net>>
    BY <1>4 DEF ReceivePacket, TypeOK
  <2>2. conn[p].rx \in Seq(Seq(S)) /\ conn[p].incoming \in Seq(Seq(S))
    BY <1>a DEF Carries
  <2> HIDE DEF S
  <2>3. rx \in Seq(Seq(S)) /\ incoming \in Seq(Seq(S))
    BY <2>1, <2>2
  <2> HIDE DEF rx, incoming
  <2>4. Carries(c, p) /\ Carries(d, p)
    BY <2>3, <1>a DEF Carries, Connection, S
  <2> HIDE DEF c, d
  <2> QED
    BY <2>1, <2>4, <1>q, CarriesOn
<1>5. ASSUME NEW p \in Peer, SendPing(p) PROVE KindsInv'
  <2>1. p = "client" /\ UNCHANGED <<to_send, net>>
    BY <1>5 DEF SendPing, May, TurnsInv, Peer
  <2>2. NextPing \in Message
    BY <1>5, ChannelsAssumption
       DEF ChannelsAssumption, SendPing, MoreToSend, NextPing, Ping, Message, TypeOK
  <2>3. NextPing \in Said(p)
    BY <2>1, <2>2 DEF Said, NextPing, Ping
  <2>4. Call(p, NextPing, "send_messages") \/ UNCHANGED conn
    BY <1>5 DEF SendPing
  <2> QED
    BY <2>1, <2>3, <2>4, <1>q, <1>u, CallKinds
<1>6. ASSUME NEW p \in Peer, RecvMessage(p) PROVE KindsInv'
  <2>1. CASE conn[p].channels
    <3> DEFINE m == Head(conn[p].inbox)
               inbox == Tail(conn[p].inbox)
               c == [conn[p] EXCEPT !.inbox = inbox]
    <3>1. conn' = [conn EXCEPT ![p] = c] /\ conn[p].inbox # <<>> /\ UNCHANGED net
      BY <1>6, <2>1 DEF RecvMessage, TypeOK
    <3>2. m \in Said(Other(p)) /\ inbox \in Seq(Said(Other(p)))
      BY <3>1, <1>a DEF Carries
    <3>3. \/ /\ m.kind = "ping"
             /\ to_send' = [to_send EXCEPT ![p] = Append(to_send[p], Pong(m.n))]
          \/ UNCHANGED to_send
      BY <1>6, <2>1 DEF RecvMessage, TypeOK
    <3> HIDE DEF m, inbox
    <3>4. Carries(c, p)
      BY <3>2, <1>a DEF Carries, Connection
    <3> HIDE DEF c
    <3>5. \A q \in Peer : Carries(conn'[q], q)
      BY <3>1, <3>4, CarriesOn
    <3>6. CASE /\ m.kind = "ping"
               /\ to_send' = [to_send EXCEPT ![p] = Append(to_send[p], Pong(m.n))]
      <4>1. p = "server"
        BY <3>2, <3>6 DEF Said, Other, Peer
      <4>2. Pong(m.n) \in Said("server")
        BY <3>2 DEF Said, Message, Pong
      <4>3. /\ to_send'["client"] = <<>>
            /\ to_send'["server"] = Append(to_send["server"], Pong(m.n))
        BY <3>6, <4>1, <1>b DEF TypeOK, KindsInv
      <4>4. to_send'["server"] \in Seq(Said("server"))
        BY <4>2, <4>3 DEF KindsInv
      <4> QED
        BY <3>1, <3>5, <4>3, <4>4 DEF KindsInv
    <3> QED
      BY <3>1, <3>3, <3>5, <3>6, <1>q
  <2>2. CASE ~ conn[p].channels
    BY <1>6, <2>2, <1>u DEF RecvMessage
  <2> QED
    BY <2>1, <2>2
<1>7. ASSUME NEW p \in Peer, Reply(p) PROVE KindsInv'
  <2>1. p = "server" /\ UNCHANGED net
    BY <1>7 DEF Reply, KindsInv, Peer
  <2>2. /\ to_send["server"] # <<>>
        /\ to_send' = [to_send EXCEPT !["server"] = Tail(to_send["server"])]
    BY <1>7, <2>1 DEF Reply, TypeOK
  <2>3. /\ Head(to_send["server"]) \in Said("server")
        /\ Tail(to_send["server"]) \in Seq(Said("server"))
    BY <2>2 DEF KindsInv
  <2>4. \A q \in Peer : Carries(conn'[q], q)
    BY <1>7, <2>1, <2>3, CallKinds DEF Reply
  <2>5. to_send'["client"] = <<>> /\ to_send'["server"] = Tail(to_send["server"])
    BY <2>2, <1>b DEF TypeOK, KindsInv
  <2> QED
    BY <2>1, <2>3, <2>4, <2>5 DEF KindsInv
<1>8. ASSUME NEW p \in Peer, FlushChannels(p) PROVE KindsInv'
  <2> DEFINE c == [conn[p] EXCEPT !.flush = conn[p].channels]
  <2>1. conn' = [conn EXCEPT ![p] = c] \/ UNCHANGED conn
    BY <1>8 DEF FlushChannels, TypeOK
  <2>2. Carries(c, p) /\ UNCHANGED <<to_send, net>>
    BY <1>8, <1>a DEF FlushChannels, Carries, Connection
  <2> HIDE DEF c
  <2> QED
    BY <2>1, <2>2, <1>q, <1>u, CarriesOn
<1>9. ASSUME NEW p \in Peer, Pack(p) PROVE KindsInv'
  <2> DEFINE mux == IF conn[p].outbox = <<>> THEN conn[p].mux
                    ELSE Append(conn[p].mux, conn[p].outbox)
             c == [conn[p] EXCEPT !.flush = FALSE, !.outbox = <<>>, !.mux = mux]
  <2>1. conn' = [conn EXCEPT ![p] = c] /\ UNCHANGED <<to_send, net>>
    BY <1>9 DEF Pack, TypeOK
  <2>2. mux \in Seq(Seq(Said(p)))
    BY <1>a DEF Carries
  <2> HIDE DEF mux
  <2>3. Carries(c, p)
    BY <2>2, <1>a DEF Carries, Connection
  <2> HIDE DEF c
  <2> QED
    BY <2>1, <2>3, <1>q, CarriesOn
<1>10. ASSUME NEW p \in Peer, Unpack(p) PROVE KindsInv'
  <2> DEFINE S == Said(Other(p))
             incoming == Tail(conn[p].incoming)
             inbox == conn[p].inbox \o Head(conn[p].incoming)
             c == [conn[p] EXCEPT !.incoming = incoming, !.inbox = inbox]
  <2>1. /\ conn' = [conn EXCEPT ![p] = c]
        /\ conn[p].incoming # <<>> /\ UNCHANGED <<to_send, net>>
    BY <1>10 DEF Unpack, TypeOK
  <2>2. conn[p].inbox \in Seq(S) /\ conn[p].incoming \in Seq(Seq(S))
    BY <1>a DEF Carries
  <2> HIDE DEF S
  <2>3. incoming \in Seq(Seq(S)) /\ inbox \in Seq(S)
    BY <2>1, <2>2
  <2> HIDE DEF incoming, inbox
  <2>4. Carries(c, p)
    BY <2>3, <1>a DEF Carries, Connection, S
  <2> HIDE DEF c
  <2> QED
    BY <2>1, <2>4, <1>q, CarriesOn
<1>11. ASSUME NEW p \in Peer, ChannelTask(p) \/ SendFails(p) PROVE KindsInv'
  <2>0. PICK t \in BOOLEAN : TakePacket(p, t)
    BY <1>11 DEF ChannelTask, SendFails
  <2> DEFINE S == Said(p)
             packet == Head(conn[p].mux)
             mux == Tail(conn[p].mux)
             c == [conn[p] EXCEPT !.mux = mux, !.task = t]
             d == [to |-> Other(p), packet |-> packet]
  <2>1. /\ conn' = [conn EXCEPT ![p] = c]
        /\ conn[p].mux # <<>> /\ UNCHANGED to_send
        /\ net' \subseteq net \cup {d}
    BY <1>11, <2>0 DEF TakePacket, ChannelTask, SendFails, TypeOK
  <2>2. conn[p].mux \in Seq(Seq(S))
    BY <1>a DEF Carries
  <2> HIDE DEF S
  <2>3. packet \in Seq(S) /\ mux \in Seq(Seq(S))
    BY <2>1, <2>2
  <2> HIDE DEF mux, packet
  <2>4. Carries(c, p)
    BY <2>3, <1>a DEF Carries, Connection, S
  <2> HIDE DEF c
  <2>5. \A q \in Peer : Carries(conn'[q], q)
    BY <2>1, <2>4, CarriesOn
  <2>6. d.packet \in Seq(Said(Other(d.to)))
    BY <2>3, OthersOther DEF S
  <2>7. \A e \in net' : e.packet \in Seq(Said(Other(e.to)))
    <3> HIDE DEF d
    <3> QED
      BY <2>1, <2>6 DEF KindsInv
  <2> QED
    BY <2>1, <2>5, <2>7 DEF KindsInv
<1>12. ASSUME NEW p \in Peer, StreamEnds(p) PROVE KindsInv'
  <2> DEFINE c == [conn[p] EXCEPT !.task = FALSE]
  <2>1. conn' = [conn EXCEPT ![p] = c] /\ UNCHANGED <<to_send, net>>
    BY <1>12 DEF StreamEnds, TypeOK
  <2>2. Carries(c, p)
    BY <1>a DEF Carries, Connection
  <2> HIDE DEF c
  <2> QED
    BY <2>1, <2>2, <1>q, CarriesOn
<1>13. ASSUME NEW p \in Peer, Heartbeat(p) PROVE KindsInv'
  <2> DEFINE d == [to |-> Other(p), packet |-> <<>>]
  <2>1. net' \subseteq net \cup {d} /\ UNCHANGED <<to_send, conn>>
    BY <1>13 DEF Heartbeat, Send
  <2>2. d.packet \in Seq(Said(Other(d.to)))
    BY <1>c
  <2>3. \A e \in net' : e.packet \in Seq(Said(Other(e.to)))
    <3> HIDE DEF d
    <3> QED
      BY <2>1, <2>2 DEF KindsInv
  <2> QED
    BY <2>1, <2>3 DEF KindsInv
<1>14. ASSUME NEW p \in Peer, Disconnect(p) PROVE KindsInv'
  <2> DEFINE c == [NoConnection EXCEPT !.status = "dropping", !.mux = conn[p].mux,
                                       !.task = conn[p].task]
  <2>1. conn' = [conn EXCEPT ![p] = c] /\ UNCHANGED <<to_send, net>>
    BY <1>14 DEF Disconnect, TypeOK
  <2>2. Carries(c, p)
    BY <1>a, <1>c DEF Carries, NoConnection, NewConnection
  <2> HIDE DEF c
  <2> QED
    BY <2>1, <2>2, <1>q, CarriesOn
<1>15. ASSUME NEW p \in Peer, DropTask(p) PROVE KindsInv'
  <2> DEFINE c == [NoConnection EXCEPT !.status =
                                    IF p = "client" THEN "none" ELSE "listening"]
  <2>1. conn' = [conn EXCEPT ![p] = c] /\ UNCHANGED <<to_send, net>>
    BY <1>15 DEF DropTask, TypeOK
  <2>2. Carries(c, p)
    BY <1>c DEF Carries, NoConnection, NewConnection
  <2> HIDE DEF c
  <2> QED
    BY <2>1, <2>2, <1>q, CarriesOn
<1>16. ASSUME NEW d \in net, Arrive(d) PROVE KindsInv'
  <2> DEFINE p == d.to
             rx == Append(conn[p].rx, d.packet)
             c == [conn[p] EXCEPT !.rx = rx]
             n == NewConnection(<<d.packet>>)
  <2>1. /\ p \in Peer /\ net' \subseteq net /\ UNCHANGED to_send
        /\ \/ conn' = [conn EXCEPT ![p] = c]
           \/ conn' = [conn EXCEPT ![p] = n]
           \/ UNCHANGED conn
    BY <1>16 DEF Arrive, TypeOK
  <2>2. d.packet \in Seq(Said(Other(p)))
    BY DEF KindsInv
  <2>3. rx \in Seq(Seq(Said(Other(p))))
    BY <1>a, <2>1, <2>2 DEF Carries
  <2>4. Carries(n, p)
    BY <2>2, <1>c DEF Carries, NewConnection
  <2> HIDE DEF rx, n, p
  <2>5. Carries(c, p)
    BY <1>a, <2>1, <2>3 DEF Carries, Connection
  <2> HIDE DEF c
  <2>6. \A q \in Peer : Carries(conn'[q], q)
    BY <1>a, <2>1, <2>4, <2>5, CarriesOn
  <2> QED
    BY <2>1, <2>6 DEF KindsInv
<1>17. CASE UNCHANGED vars
  BY <1>17, <1>u DEF vars
<1> QED
  BY <1>1, <1>2, <1>3, <1>4, <1>5, <1>6, <1>7, <1>8, <1>9, <1>10, <1>11, <1>12, <1>13,
     <1>14, <1>15, <1>16, <1>17 DEF Next, Systems
-----------------------------------------------------------------------------
(* One packet per tick *)

Mine == conn["client"]

\* Packets the client has made, messages that are not in one yet, and whether the
\* channel's task has been asked to make one.
Sent == packets_tx + Len(Mine.mux)
Waiting == IF Mine.outbox = <<>> THEN 0 ELSE 1
Asked == IF Mine.flush THEN 1 ELSE 0

\* send_messages has sent the pings of this tick, and flush_channels is yet to run.
Unflushed ==
  \/ sched["client"].stage = "update" /\ "send_messages" \notin sched["client"].todo
  \/ sched["client"].stage = "post" /\ "flush_channels" \in sched["client"].todo

Owed == IF Unflushed THEN PerTick ELSE burst

\* A packet for each of k ticks, and the pings of the current one; once all pings
\* are sent the last tick may have been a short one.
Fit(sent, waiting, asked, owed, pings) ==
  IF pings < NumPings
  THEN \E k \in Nat : /\ k * PerTick + owed <= pings
                      /\ sent + asked <= k
                      /\ waiting > asked => k * PerTick < pings
  ELSE (sent + waiting) * PerTick < pings + PerTick

PacketsInv == Fit(Sent, Waiting, Asked, Owed, pings_sent)

LEMMA TimesGrows ==
  \A i, j \in Nat : /\ i * PerTick \in Nat /\ (i + 1) * PerTick = i * PerTick + PerTick
                    /\ i <= j => i * PerTick <= j * PerTick
<1> SUFFICES ASSUME NEW i \in Nat, NEW j \in Nat
    PROVE  /\ i * PerTick \in Nat /\ (i + 1) * PerTick = i * PerTick + PerTick
           /\ i <= j => i * PerTick <= j * PerTick
  OBVIOUS
<1>1. PerTick \in Nat
  BY ChannelsAssumption DEF ChannelsAssumption
<1>2. i * PerTick \in Nat /\ (i + 1) * PerTick = i * PerTick + PerTick
  BY <1>1
<1>3. ASSUME i <= j PROVE i * PerTick <= j * PerTick
  <2> DEFINE d == j - i
  <2>1. d \in Nat /\ j = i + d
    BY <1>3
  <2>2. d * PerTick \in Nat
    BY <1>1, <2>1
  <2>3. (i + d) * PerTick = i * PerTick + d * PerTick
    BY <1>1, <2>1
  <2> HIDE DEF d
  <2> QED
    BY <1>2, <2>1, <2>2, <2>3
<1> QED
  BY <1>2, <1>3

CountsOK ==
  /\ Sent \in Nat /\ Waiting \in {0, 1} /\ Asked \in {0, 1} /\ Owed \in Nat
  /\ pings_sent \in Nat /\ burst \in Nat /\ burst <= PerTick /\ pings_sent <= NumPings

LEMMA CountsTyped == TypeOK => CountsOK
<1> SUFFICES ASSUME TypeOK PROVE CountsOK
  OBVIOUS
<1>1. Len(Mine.mux) \in Nat
  BY PeersTyped DEF Mine, Peer, Connection, Packets
<1> QED
  BY <1>1, ChannelsAssumption
     DEF ChannelsAssumption, TypeOK, CountsOK, Sent, Waiting, Asked, Owed

\* A step that sends no pings and asks for no packet.
Fewer(t, v, b, u, s, w, a, o) ==
  /\ s \in Nat /\ w \in {0, 1} /\ a \in {0, 1} /\ o \in Nat
  /\ t \in Nat /\ v \in {0, 1} /\ b \in {0, 1} /\ u \in Nat
  /\ u <= o /\ b <= a /\ (v > b => w > a) /\ t + v <= s + w /\ t + b <= s + a

LEMMA FewerFit ==
  ASSUME NEW s, NEW w, NEW a, NEW o, NEW n \in Nat, NEW t, NEW v, NEW b, NEW u,
         Fit(s, w, a, o, n), Fewer(t, v, b, u, s, w, a, o)
  PROVE  Fit(t, v, b, u, n)
<1> USE DEF Fewer
<1>1. CASE n < NumPings
  <2>1. PICK k \in Nat : /\ k * PerTick + o <= n /\ s + a <= k
                         /\ w > a => k * PerTick < n
    BY <1>1 DEF Fit
  <2>2. k * PerTick \in Nat
    BY TimesGrows
  <2>3. k * PerTick + u <= n
    BY <2>1, <2>2
  <2>4. t + b <= k /\ (v > b => k * PerTick < n)
    BY <2>1
  <2> QED
    BY <1>1, <2>3, <2>4 DEF Fit
<1>2. CASE ~ (n < NumPings)
  <2> DEFINE i == t + v
             j == s + w
  <2>1. j * PerTick < n + PerTick
    BY <1>2 DEF Fit
  <2>2. i \in Nat /\ j \in Nat /\ i <= j /\ PerTick \in Nat
    BY ChannelsAssumption DEF ChannelsAssumption
  <2> HIDE DEF i, j
  <2>3. i * PerTick <= j * PerTick /\ i * PerTick \in Nat /\ j * PerTick \in Nat
    BY <2>2, TimesGrows
  <2>4. i * PerTick < n + PerTick
    BY <2>1, <2>2, <2>3
  <2> QED
    BY <1>2, <2>4 DEF Fit, i
<1> QED
  BY <1>1, <1>2

\* SendPing: the message waits, or there was no room for it.
LEMMA PingFits ==
  ASSUME NEW s \in Nat, NEW w \in {0, 1}, NEW a \in {0, 1}, NEW o \in Nat, NEW n \in Nat,
         NEW v \in {0, 1}, NEW u \in Nat,
         Fit(s, w, a, o, n), n < NumPings, u <= o + 1
  PROVE  Fit(s, v, a, u, n + 1)
<1>1. PICK k \in Nat : /\ k * PerTick + o <= n /\ s + a <= k
                       /\ w > a => k * PerTick < n
  BY DEF Fit
<1>2. k * PerTick \in Nat /\ (k + 1) * PerTick = k * PerTick + PerTick /\ PerTick \in Nat
  BY TimesGrows, ChannelsAssumption DEF ChannelsAssumption
<1>3. k * PerTick + u <= n + 1 /\ k * PerTick < n + 1
  BY <1>1, <1>2
<1>4. CASE n + 1 < NumPings
  BY <1>1, <1>3, <1>4 DEF Fit
<1>5. CASE ~ (n + 1 < NumPings)
  <2> DEFINE i == s + v
             j == k + 1
  <2>1. i \in Nat /\ j \in Nat /\ i <= j
    BY <1>1
  <2>2. j * PerTick < n + 1 + PerTick
    BY <1>2, <1>3
  <2> HIDE DEF i, j
  <2>3. i * PerTick <= j * PerTick /\ i * PerTick \in Nat /\ j * PerTick \in Nat
    BY <2>1, TimesGrows
  <2>4. i * PerTick < n + 1 + PerTick
    BY <1>2, <2>2, <2>3
  <2> QED
    BY <1>5, <2>4 DEF Fit, i
<1> QED
  BY <1>4, <1>5

\* flush_channels, after the pings of a tick.
LEMMA FlushFits ==
  ASSUME NEW s \in Nat, NEW w \in {0, 1}, NEW a \in {0, 1}, NEW n \in Nat, NEW b \in {0, 1},
         Fit(s, w, a, PerTick, n)
  PROVE  Fit(s, w, b, 0, n)
<1>1. CASE n < NumPings
  <2>1. PICK k \in Nat : k * PerTick + PerTick <= n /\ s + a <= k
    BY <1>1 DEF Fit
  <2>2. /\ k * PerTick \in Nat /\ (k + 1) * PerTick = k * PerTick + PerTick
        /\ PerTick \in Nat /\ PerTick > 0
    BY TimesGrows, ChannelsAssumption DEF ChannelsAssumption
  <2>3. CASE b = 0
    <3>1. k * PerTick + 0 <= n /\ s + b <= k /\ k * PerTick < n
      BY <2>1, <2>2, <2>3
    <3> QED
      BY <1>1, <3>1 DEF Fit
  <2>4. CASE b = 1
    <3> DEFINE j == k + 1
    <3>1. j * PerTick + 0 <= n /\ s + b <= j /\ ~ (w > b) /\ j \in Nat
      BY <2>1, <2>2, <2>4
    <3> HIDE DEF j
    <3> QED
      BY <1>1, <3>1 DEF Fit
  <2> QED
    BY <2>3, <2>4
<1>2. CASE ~ (n < NumPings)
  BY <1>2 DEF Fit
<1> QED
  BY <1>1, <1>2

LEMMA FitMeansFew ==
  ASSUME NEW x \in Nat, NEW s \in Nat, NEW w \in {0, 1}, NEW a \in {0, 1}, NEW o \in Nat,
         NEW n \in Nat, Fit(s, w, a, o, n), x <= s
  PROVE  x * PerTick < n + PerTick
<1>1. /\ x * PerTick \in Nat /\ s * PerTick \in Nat /\ x * PerTick <= s * PerTick
      /\ PerTick \in Nat /\ PerTick > 0
  BY TimesGrows, ChannelsAssumption DEF ChannelsAssumption
<1>2. CASE n < NumPings
  <2>1. PICK k \in Nat : k * PerTick + o <= n /\ s + a <= k
    BY <1>2 DEF Fit
  <2>2. s <= k
    BY <2>1
  <2>3. k * PerTick \in Nat /\ s * PerTick <= k * PerTick
    BY <2>2, TimesGrows
  <2> QED
    BY <1>1, <2>1, <2>3
<1>3. CASE ~ (n < NumPings)
  <2> DEFINE j == s + w
  <2>1. j * PerTick < n + PerTick
    BY <1>3 DEF Fit
  <2>2. j \in Nat /\ s <= j
    OBVIOUS
  <2> HIDE DEF j
  <2>3. j * PerTick \in Nat /\ s * PerTick <= j * PerTick
    BY <2>2, TimesGrows
  <2> QED
    BY <1>1, <2>1, <2>3
<1> QED
  BY <1>2, <1>3

\* The queues of the client's channel stay as they are.
QueuesStay ==
  /\ UNCHANGED packets_tx
  /\ conn'["client"].mux = conn["client"].mux
  /\ conn'["client"].outbox = conn["client"].outbox
  /\ conn'["client"].flush = conn["client"].flush

LEMMA OtherQueues ==
  ASSUME TypeOK, NEW p \in Peer, NEW c, conn' = [conn EXCEPT ![p] = c], UNCHANGED packets_tx,
         c.mux = conn[p].mux, c.outbox = conn[p].outbox, c.flush = conn[p].flush
  PROVE  QueuesStay
BY DEF QueuesStay, TypeOK, Peer

LEMMA NextPackets ==
  /\ manual_flush /\ TypeOK /\ TurnsInv /\ KindsInv /\ PacketsInv
  /\ TypeOK' /\ [Next]_vars
  => PacketsInv'
<1> SUFFICES ASSUME manual_flush, TypeOK, TurnsInv, KindsInv, PacketsInv, TypeOK', [Next]_vars
             PROVE  PacketsInv'
  OBVIOUS
<1>a. "client" \in Peer /\ "server" \in Peer /\ \A p \in Peer : p # "client" => p = "server"
  BY DEF Peer
<1>b. PerTick \in Nat /\ PerTick > 0 /\ NumPings \in Nat
  BY ChannelsAssumption DEF ChannelsAssumption
<1>c. CountsOK
  BY CountsTyped
<1>d. CountsOK'
  BY CountsTyped, PTL
<1>k. ASSUME UNCHANGED pings_sent, Owed' <= Owed, Asked' <= Asked,
             Waiting' > Asked' => Waiting > Asked,
             Sent' + Waiting' <= Sent + Waiting, Sent' + Asked' <= Sent + Asked
      PROVE  PacketsInv'
  <2>1. /\ Sent \in Nat /\ Waiting \in {0, 1} /\ Asked \in {0, 1} /\ Owed \in Nat
        /\ pings_sent \in Nat /\ pings_sent' = pings_sent
    BY <1>c, <1>k DEF CountsOK
  <2>2. Sent' \in Nat /\ Waiting' \in {0, 1} /\ Asked' \in {0, 1} /\ Owed' \in Nat
    BY <1>d DEF CountsOK
  <2>3. Fit(Sent, Waiting, Asked, Owed, pings_sent)
    BY DEF PacketsInv
  <2>4. Fit(Sent', Waiting', Asked', Owed', pings_sent)
    <3>1. Fewer(Sent', Waiting', Asked', Owed', Sent, Waiting, Asked, Owed)
      BY <1>k, <2>1, <2>2 DEF Fewer
    <3> QED
      BY <2>1, <2>3, <3>1, FewerFit
  <2> QED
    BY <2>1, <2>4 DEF PacketsInv
<1>o. ASSUME Unflushed' => Unflushed, UNCHANGED burst PROVE Owed' <= Owed
  BY <1>o, <1>b, <1>c DEF Owed, CountsOK
<1>s. ASSUME QueuesStay PROVE Sent' = Sent /\ Waiting' = Waiting /\ Asked' = Asked
  BY <1>s DEF QueuesStay, Sent, Waiting, Asked, Mine
<1>q. ASSUME QueuesStay, UNCHANGED <<pings_sent, burst>>, Unflushed' => Unflushed
      PROVE  PacketsInv'
  BY <1>q, <1>k, <1>o, <1>s, <1>c DEF CountsOK
<1>e. ASSUME NEW p \in Peer, NEW s, Ends(p, s), s # "send_messages"
      PROVE  Unflushed' => Unflushed
  <2>1. /\ sched'["client"].stage = sched["client"].stage
        /\ \/ sched'["client"].todo = sched["client"].todo \ {s}
           \/ sched'["client"].todo = sched["client"].todo
    <3>1. \A q \in Peer :
            /\ sched'[q].stage = sched[q].stage
            /\ sched'[q].todo = IF q = p THEN sched[q].todo \ {s} ELSE sched[q].todo
      BY <1>e, SchedulesSeen
    <3> QED
      BY <1>a, <3>1
  <2> QED
    BY <2>1, <1>e DEF Unflushed
<1>g. ASSUME NEW p \in Peer, NEW s, Goes(p, s) PROVE Unflushed' => Unflushed
  BY <1>a, <1>g, SchedulesSeen DEF Unflushed
<1>p. ASSUME NEW p \in Peer, NEW u, Panic(p, u) PROVE Unflushed' => Unflushed
  <2>1. /\ sched'["client"].stage \in {"dead", sched["client"].stage}
        /\ sched'["client"].todo = sched["client"].todo
    BY <1>a, <1>p, SchedulesSeen
  <2> QED
    BY <2>1 DEF Unflushed
<1>u. ASSUME UNCHANGED conn PROVE UNCHANGED packets_tx => QueuesStay
  BY <1>u DEF QueuesStay
<1>v. ASSUME UNCHANGED sched PROVE Unflushed' => Unflushed
  BY <1>v DEF Unflushed
<1> USE DEF setup, counters, application, history
<1>1. ASSUME NEW p \in Peer, NextStage(p) PROVE PacketsInv'
  <2> DEFINE next == IF sched[p].stage = "update" THEN "post" ELSE "update"
  <2>1. sched' = [sched EXCEPT ![p] = [sched[p] EXCEPT !.stage = next,
                                                       !.todo = SystemsOf(p, next)]]
    BY <1>1 DEF NextStage, TypeOK
  <2>2. /\ sched'[p].stage = next /\ sched'[p].todo = SystemsOf(p, next)
        /\ \A q \in Peer : q # p => sched'[q] = sched[q]
    BY <2>1, PeersTyped DEF TypeOK, Schedule
  <2>3. sched[p].todo = {} /\ UNCHANGED <<conn, packets_tx, pings_sent, burst>>
    BY <1>1 DEF NextStage
  <2>4. Unflushed' => Unflushed
    <3>1. CASE p = "client"
      <4>1. SystemsOf("client", "update") = {"receive_packets", "handle_messages", "send_messages"}
        BY DEF SystemsOf
      <4> QED
        BY <2>2, <2>3, <3>1, <4>1 DEF Unflushed
    <3>2. CASE p # "client"
      BY <1>a, <2>2, <3>2 DEF Unflushed
    <3> QED
      BY <3>1, <3>2
  <2> QED
    BY <2>3, <2>4, <1>q, <1>u
<1>2. ASSUME NEW p \in Peer, SetupChannels(p) \/ ReceiveNothing(p) PROVE PacketsInv'
  BY <1>2, <1>e, <1>q, <1>u DEF SetupChannels, ReceiveNothing
<1>3. ASSUME NEW p \in Peer, EndReplies(p) PROVE PacketsInv'
  BY <1>3, <1>g, <1>q, <1>u DEF EndReplies
<1>4. ASSUME NEW p \in Peer, NoMessage(p) PROVE PacketsInv'
  <2>1. /\ sched' = [sched EXCEPT ![p] = [sched[p] EXCEPT !.running = "replies",
                                             !.todo = sched[p].todo \ {"handle_messages"}]]
        /\ UNCHANGED <<conn, packets_tx, pings_sent, burst>>
    BY <1>4 DEF NoMessage, TypeOK
  <2>2. /\ sched'["client"].stage = sched["client"].stage
        /\ \/ sched'["client"].todo = sched["client"].todo \ {"handle_messages"}
           \/ sched'["client"].todo = sched["client"].todo
    BY <2>1, <1>a, PeersTyped DEF TypeOK, Schedule
  <2>3. Unflushed' => Unflushed
    BY <2>2 DEF Unflushed
  <2> QED
    BY <2>1, <2>3, <1>q, <1>u
<1>5. ASSUME NEW p \in Peer, Startup(p) PROVE PacketsInv'
  <2> DEFINE c == [conn[p] EXCEPT !.status = IF p = "client" THEN "pending" ELSE "listening"]
  <2>1. conn' = [conn EXCEPT ![p] = c] /\ UNCHANGED <<packets_tx, pings_sent, burst>>
    BY <1>5 DEF Startup, TypeOK
  <2>2. c.mux = conn[p].mux /\ c.outbox = conn[p].outbox /\ c.flush = conn[p].flush
    BY PeersTyped DEF Connection
  <2>3. Unflushed' => Unflushed
    BY <1>5, <1>e DEF Startup
  <2> HIDE DEF c
  <2> QED
    BY <2>1, <2>2, <2>3, <1>q, OtherQueues
<1>6. ASSUME NEW p \in Peer, Register(p) PROVE PacketsInv'
  <2> DEFINE o == [conn[p] EXCEPT !.status = "open"]
             c == IF p \in builder THEN BuildChannels(o) ELSE o
  <2>1. conn' = [conn EXCEPT ![p] = c] /\ UNCHANGED <<packets_tx, pings_sent, burst>>
    BY <1>6 DEF Register, TypeOK
  <2>2. /\ o \in Connection
        /\ o.mux = conn[p].mux /\ o.outbox = conn[p].outbox /\ o.flush = conn[p].flush
    BY PeersTyped DEF Connection
  <2> HIDE DEF o
  <2>3. c.mux = conn[p].mux /\ c.outbox = conn[p].outbox /\ c.flush = conn[p].flush
    BY <2>2 DEF Connection, BuildChannels
  <2>4. Unflushed' => Unflushed
    BY <1>6, <1>g DEF Register
  <2> HIDE DEF c
  <2> QED
    BY <2>1, <2>3, <2>4, <1>q, OtherQueues
<1>7. ASSUME NEW p \in Peer, ReceivePacket(p) PROVE PacketsInv'
  <2> DEFINE rx == Tail(conn[p].rx)
             incoming == Append(conn[p].incoming, Head(conn[p].rx))
             c == [conn[p] EXCEPT !.rx = rx]
             d == [conn[p] EXCEPT !.rx = rx, !.incoming = incoming]
  <2>1. /\ conn' = [conn EXCEPT ![p] = c] \/ conn' = [conn EXCEPT ![p] = d]
        /\ UNCHANGED <<packets_tx, pings_sent, burst>>
    BY <1>7 DEF ReceivePacket, TypeOK
  <2>2. /\ c.mux = conn[p].mux /\ c.outbox = conn[p].outbox /\ c.flush = conn[p].flush
        /\ d.mux = conn[p].mux /\ d.outbox = conn[p].outbox /\ d.flush = conn[p].flush
    BY PeersTyped DEF Connection
  <2>3. Unflushed' => Unflushed
    BY <1>7, <1>g DEF ReceivePacket
  <2> HIDE DEF c, d
  <2> QED
    BY <2>1, <2>2, <2>3, <1>q, OtherQueues
<1>8. ASSUME NEW p \in Peer, SendPing(p) PROVE PacketsInv'
  <2>1. /\ p = "client" /\ pings_sent < NumPings
        /\ pings_sent' = pings_sent + 1 /\ burst' = burst + 1 /\ UNCHANGED packets_tx
    BY <1>8, <1>a DEF SendPing, May, TurnsInv, MoreToSend
  <2>2. Sent' = Sent /\ Asked' = Asked
    <3>1. CASE UNCHANGED conn
      BY <2>1, <3>1 DEF Sent, Asked, Mine
    <3>2. CASE SendMessage(p, NextPing)
      <4> DEFINE o == IF Len(conn[p].outbox) < MessageBuffer
                      THEN Append(conn[p].outbox, NextPing) ELSE conn[p].outbox
                 f == conn[p].flush \/ AsksToFlush
                 c == [conn[p] EXCEPT !.outbox = o, !.flush = f]
      <4>1. conn' = [conn EXCEPT ![p] = c]
        BY <3>2 DEF SendMessage, TypeOK
      <4>2. f = conn[p].flush
        BY PeersTyped DEF AsksToFlush, Connection
      <4> HIDE DEF o, f
      <4>3. c.mux = conn[p].mux /\ c.flush = conn[p].flush
        BY <4>2, PeersTyped DEF Connection
      <4> HIDE DEF c
      <4>4. conn'[p] = c
        BY <4>1, OneConnection
      <4> QED
        BY <2>1, <4>3, <4>4 DEF Sent, Asked, Mine
    <3> QED
      BY <1>8, <3>1, <3>2 DEF SendPing, Call
  <2>3. Unflushed' => Unflushed
    BY <1>8, <1>g, <1>p DEF SendPing, Call
  <2>4. Owed' <= Owed + 1
    BY <2>1, <2>3, <1>b, <1>c, <1>d DEF Owed, CountsOK
  <2> QED
    BY <2>1, <2>2, <2>4, <1>c, <1>d, PingFits DEF CountsOK, PacketsInv
<1>9. ASSUME NEW p \in Peer, EndPings(p) PROVE PacketsInv'
  <2>1. /\ UNCHANGED <<conn, packets_tx, pings_sent>> /\ burst' = 0
        /\ burst >= PerTick \/ pings_sent >= NumPings
    BY <1>9, <1>b, <1>c DEF EndPings, MoreToSend, CountsOK
  <2>2. Sent' = Sent /\ Waiting' = Waiting /\ Asked' = Asked
    BY <2>1, <1>s, <1>u
  <2>3. CASE pings_sent >= NumPings
    BY <2>1, <2>2, <2>3, <1>b, <1>c DEF PacketsInv, Fit, CountsOK
  <2>4. CASE burst >= PerTick
    <3>1. Owed' <= Owed
      BY <2>1, <2>4, <1>b, <1>c DEF Owed, CountsOK
    <3> QED
      BY <2>1, <2>2, <3>1, <1>c, <1>k DEF CountsOK
  <2> QED
    BY <2>1, <2>3, <2>4
<1>10. ASSUME NEW p \in Peer, RecvMessage(p) PROVE PacketsInv'
  <2>1. CASE conn[p].channels
    <3> DEFINE inbox == Tail(conn[p].inbox)
               c == [conn[p] EXCEPT !.inbox = inbox]
    <3>1. /\ conn' = [conn EXCEPT ![p] = c] /\ Goes(p, "handle_messages")
          /\ UNCHANGED <<packets_tx, pings_sent, burst>>
      BY <1>10, <2>1 DEF RecvMessage, TypeOK
    <3>2. c.mux = conn[p].mux /\ c.outbox = conn[p].outbox /\ c.flush = conn[p].flush
      BY PeersTyped DEF Connection
    <3> HIDE DEF c
    <3> QED
      BY <3>1, <3>2, <1>g, <1>q, OtherQueues
  <2>2. CASE ~ conn[p].channels
    BY <1>10, <2>2, <1>p, <1>q, <1>u DEF RecvMessage
  <2> QED
    BY <2>1, <2>2
<1>11. ASSUME NEW p \in Peer, Reply(p) PROVE PacketsInv'
  <2>1. p = "server" /\ UNCHANGED <<packets_tx, pings_sent, burst>>
    BY <1>11, <1>a DEF Reply, KindsInv
  <2>2. conn'["client"] = conn["client"]
    BY <1>11, <2>1 DEF Reply, Call, SendMessage, TypeOK, Peer
  <2>3. Unflushed' => Unflushed
    BY <1>11, <1>g, <1>p DEF Reply, Call
  <2> QED
    BY <2>1, <2>2, <2>3, <1>q DEF QueuesStay
<1>12. ASSUME NEW p \in Peer, FlushChannels(p) PROVE PacketsInv'
  <2>1. UNCHANGED <<packets_tx, pings_sent, burst>>
    BY <1>12 DEF FlushChannels
  <2>2. CASE Panic(p, "channels") /\ UNCHANGED conn
    BY <2>1, <2>2, <1>p, <1>q, <1>u
  <2> DEFINE c == [conn[p] EXCEPT !.flush = conn[p].channels]
  <2>3. CASE Ends(p, "flush_channels") /\ conn' = [conn EXCEPT ![p] = c] /\ p = "client"
    <3>1. /\ sched["client"].stage = "post" /\ sched["client"].todo = {"flush_channels"}
          /\ burst = 0
      BY <1>12, <2>3 DEF FlushChannels, May, Alive, TurnsInv
    <3>2. sched'["client"].stage = "post" /\ sched'["client"].todo = {}
      BY <2>3, <3>1, <1>a, SchedulesSeen
    <3>3. Owed = PerTick /\ Owed' = 0
      BY <2>1, <3>1, <3>2 DEF Owed, Unflushed
    <3>4. c.mux = conn[p].mux /\ c.outbox = conn[p].outbox
      BY PeersTyped DEF Connection
    <3>5. conn'[p] = c
      BY <2>3, OneConnection
    <3> HIDE DEF c
    <3>6. Sent' = Sent /\ Waiting' = Waiting
      BY <2>1, <2>3, <3>4, <3>5 DEF Sent, Waiting, Mine
    <3> QED
      BY <2>1, <3>3, <3>6, <1>c, <1>d, FlushFits DEF CountsOK, PacketsInv
  <2>4. CASE Ends(p, "flush_channels") /\ conn' = [conn EXCEPT ![p] = c] /\ p # "client"
    <3>1. conn'["client"] = conn["client"]
      BY <2>4, <1>a DEF TypeOK
    <3> QED
      BY <2>1, <2>4, <3>1, <1>e, <1>q DEF QueuesStay
  <2>5. \/ Panic(p, "channels") /\ UNCHANGED conn
        \/ Ends(p, "flush_channels") /\ conn' = [conn EXCEPT ![p] = c]
    BY <1>12 DEF FlushChannels, TypeOK
  <2> QED
    BY <2>2, <2>3, <2>4, <2>5
<1>13. ASSUME NEW p \in Peer, Pack(p) PROVE PacketsInv'
  <2> DEFINE mux == IF conn[p].outbox = <<>> THEN conn[p].mux
                    ELSE Append(conn[p].mux, conn[p].outbox)
             c == [conn[p] EXCEPT !.flush = FALSE, !.outbox = <<>>, !.mux = mux]
  <2>1. /\ conn' = [conn EXCEPT ![p] = c] /\ conn[p].flush
        /\ UNCHANGED <<sched, packets_tx, pings_sent, burst>>
    BY <1>13 DEF Pack, TypeOK
  <2>2. CASE p = "client"
    <3>0. conn[p].mux \in Seq(Seq(Message)) /\ conn[p].outbox \in Seq(Message)
      BY PeersTyped DEF Connection, Packets
    <3>1. Len(mux) = Len(conn[p].mux) + Waiting
      <4>1. CASE conn[p].outbox = <<>>
        BY <2>2, <3>0, <4>1 DEF Waiting, Mine
      <4>2. CASE conn[p].outbox # <<>>
        BY <2>2, <3>0, <4>2 DEF Waiting, Mine
      <4> QED
        BY <4>1, <4>2
    <3> HIDE DEF mux
    <3>2. c.mux = mux /\ c.outbox = <<>> /\ c.flush = FALSE
      BY PeersTyped DEF Connection
    <3> HIDE DEF c
    <3>3. conn'[p] = c
      BY <2>1, OneConnection
    <3>4. Len(conn[p].mux) \in Nat /\ packets_tx \in Nat /\ Waiting \in {0, 1}
      BY <3>0, <1>c DEF TypeOK, CountsOK
    <3>5. Waiting' = 0 /\ Asked' = 0 /\ Asked = 1
      BY <2>1, <2>2, <3>2, <3>3 DEF Waiting, Asked, Mine
    <3>7. Sent' = Sent + Waiting
      <4>1. /\ Sent' = packets_tx + (Len(conn[p].mux) + Waiting)
            /\ Sent = packets_tx + Len(conn[p].mux)
        BY <2>1, <2>2, <3>1, <3>2, <3>3 DEF Sent, Mine
      <4> QED
        BY <3>4, <4>1
    <3>6. Owed' <= Owed
      BY <2>1, <1>o, <1>v
    <3> QED
      BY <2>1, <3>5, <3>6, <3>7, <1>c, <1>k DEF CountsOK
  <2>3. CASE p # "client"
    <3>1. conn'["client"] = conn["client"]
      BY <2>1, <2>3, <1>a DEF TypeOK
    <3> QED
      BY <2>1, <3>1, <1>q, <1>v DEF QueuesStay
  <2> QED
    BY <2>2, <2>3
<1>14. ASSUME NEW p \in Peer, Unpack(p) PROVE PacketsInv'
  <2> DEFINE incoming == Tail(conn[p].incoming)
             inbox == conn[p].inbox \o Head(conn[p].incoming)
             c == [conn[p] EXCEPT !.incoming = incoming, !.inbox = inbox]
  <2>1. /\ conn' = [conn EXCEPT ![p] = c]
        /\ UNCHANGED <<sched, packets_tx, pings_sent, burst>>
    BY <1>14 DEF Unpack, TypeOK
  <2>2. c.mux = conn[p].mux /\ c.outbox = conn[p].outbox /\ c.flush = conn[p].flush
    BY PeersTyped DEF Connection
  <2> HIDE DEF c
  <2> QED
    BY <2>1, <2>2, <1>q, <1>v, OtherQueues
<1>15. ASSUME NEW p \in Peer, ChannelTask(p) \/ SendFails(p) PROVE PacketsInv'
  <2>0. PICK t \in BOOLEAN : TakePacket(p, t)
    BY <1>15 DEF ChannelTask, SendFails
  <2> DEFINE mux == Tail(conn[p].mux)
             c == [conn[p] EXCEPT !.mux = mux, !.task = t]
  <2>1. /\ conn' = [conn EXCEPT ![p] = c] /\ conn[p].mux # <<>>
        /\ packets_tx' = IF p = "client" THEN packets_tx + 1 ELSE packets_tx
        /\ UNCHANGED <<sched, pings_sent, burst>>
    BY <1>15, <2>0 DEF TakePacket, ChannelTask, SendFails, TypeOK
  <2>2. CASE p = "client"
    <3>0. conn[p].mux \in Seq(Seq(Message)) /\ packets_tx \in Nat
      BY PeersTyped DEF TypeOK, Connection, Packets
    <3>1. Len(mux) = Len(conn[p].mux) - 1 /\ Len(conn[p].mux) \in Nat
      BY <2>1, <3>0
    <3> HIDE DEF mux
    <3>2. c.mux = mux /\ c.outbox = conn[p].outbox /\ c.flush = conn[p].flush
      BY PeersTyped DEF Connection
    <3> HIDE DEF c
    <3>3. conn'[p] = c
      BY <2>1, OneConnection
    <3>4. Sent' = Sent /\ Waiting' = Waiting /\ Asked' = Asked
      <4>1. Waiting' = Waiting /\ Asked' = Asked
        BY <2>2, <3>2, <3>3 DEF Waiting, Asked, Mine
      <4>2. /\ Sent' = (packets_tx + 1) + (Len(conn[p].mux) - 1)
            /\ Sent = packets_tx + Len(conn[p].mux)
        BY <2>1, <2>2, <3>1, <3>2, <3>3 DEF Sent, Mine
      <4>3. Sent' = Sent
        <5> DEFINE n == Len(conn[p].mux)
        <5>1. Sent' = (packets_tx + 1) + (n - 1) /\ Sent = packets_tx + n
          BY <4>2
        <5>2. n \in Nat /\ packets_tx \in Nat
          BY <3>0, <3>1
        <5> HIDE DEF n
        <5> QED
          BY <5>1, <5>2
      <4> QED
        BY <4>1, <4>3
    <3>5. Owed' <= Owed
      BY <2>1, <1>o, <1>v
    <3> QED
      BY <2>1, <3>4, <3>5, <1>c, <1>k DEF CountsOK
  <2>3. CASE p # "client"
    <3>1. conn'["client"] = conn["client"]
      BY <2>1, <2>3, <1>a DEF TypeOK
    <3> QED
      BY <2>1, <2>3, <3>1, <1>q, <1>v DEF QueuesStay
  <2> QED
    BY <2>2, <2>3
<1>16. ASSUME NEW p \in Peer, StreamEnds(p) PROVE PacketsInv'
  <2> DEFINE c == [conn[p] EXCEPT !.task = FALSE]
  <2>1. /\ conn' = [conn EXCEPT ![p] = c]
        /\ UNCHANGED <<sched, packets_tx, pings_sent, burst>>
    BY <1>16 DEF StreamEnds, TypeOK
  <2>2. c.mux = conn[p].mux /\ c.outbox = conn[p].outbox /\ c.flush = conn[p].flush
    BY PeersTyped DEF Connection
  <2> HIDE DEF c
  <2> QED
    BY <2>1, <2>2, <1>q, <1>v, OtherQueues
<1>17. ASSUME NEW p \in Peer, Heartbeat(p) PROVE PacketsInv'
  BY <1>17, <1>p, <1>q, <1>u, <1>v DEF Heartbeat, Send
<1>d0. ASSUME NEW p \in Peer, NEW c \in Connection, conn' = [conn EXCEPT ![p] = c],
              c.mux = conn[p].mux \/ c.mux = <<>>, c.outbox = <<>>, c.flush = FALSE,
              UNCHANGED <<packets_tx, pings_sent, burst>>, Unflushed' => Unflushed
       PROVE  PacketsInv'
  <2>1. CASE p = "client"
    <3>1. conn'[p] = c
      BY <1>d0, OneConnection
    <3>0. conn[p].mux \in Seq(Seq(Message)) /\ packets_tx \in Nat
      BY PeersTyped DEF TypeOK, Connection, Packets
    <3>2. Len(conn[p].mux) \in Nat /\ Len(c.mux) \in Nat /\ Len(c.mux) <= Len(conn[p].mux)
      <4>1. CASE c.mux = conn[p].mux
        BY <3>0, <4>1
      <4>2. CASE c.mux = <<>>
        BY <3>0, <4>2
      <4> QED
        BY <1>d0, <4>1, <4>2
    <3>4. Sent' = packets_tx + Len(c.mux) /\ Sent = packets_tx + Len(conn[p].mux)
      BY <1>d0, <2>1, <3>1 DEF Sent, Mine
    <3>5. Waiting' = 0 /\ Asked' = 0
      BY <1>d0, <2>1, <3>1 DEF Waiting, Asked, Mine
    <3>3. Sent' <= Sent /\ Waiting' = 0 /\ Asked' = 0
      BY <3>0, <3>2, <3>4, <3>5
    <3>6. Owed' <= Owed
      BY <1>d0, <1>o
    <3> QED
      <4>1. /\ Sent \in Nat /\ Waiting \in {0, 1} /\ Asked \in {0, 1}
            /\ Sent' \in Nat
        BY <1>c, <1>d DEF CountsOK
      <4>2. /\ Asked' <= Asked /\ ~ (Waiting' > Asked')
            /\ Sent' + Waiting' <= Sent + Waiting /\ Sent' + Asked' <= Sent + Asked
        <5>1. Asked' <= Asked /\ ~ (Waiting' > Asked')
          BY <3>3, <4>1
        <5>0. \A s, t \in Nat, x \in {0, 1} : t <= s => t + 0 <= s + x
          OBVIOUS
        <5>2. Sent' + 0 <= Sent + Waiting
          BY <3>3, <4>1, <5>0
        <5>3. Sent' + 0 <= Sent + Asked
          BY <3>3, <4>1, <5>0
        <5> QED
          BY <3>3, <5>1, <5>2, <5>3
      <4> QED
        <5>1. UNCHANGED pings_sent /\ (Waiting' > Asked' => Waiting > Asked)
          BY <1>d0, <4>2
        <5> QED
          BY <3>6, <4>2, <5>1, <1>k
  <2>2. CASE p # "client"
    <3>1. conn'["client"] = conn["client"]
      BY <1>d0, <2>2, <1>a DEF TypeOK
    <3> QED
      BY <1>d0, <3>1, <1>q DEF QueuesStay
  <2> QED
    BY <2>1, <2>2
<1>18. ASSUME NEW p \in Peer, Disconnect(p) PROVE PacketsInv'
  <2> DEFINE c == [NoConnection EXCEPT !.status = "dropping", !.mux = conn[p].mux,
                                       !.task = conn[p].task]
  <2>1. conn' = [conn EXCEPT ![p] = c] /\ UNCHANGED <<packets_tx, pings_sent, burst>>
    BY <1>18 DEF Disconnect, TypeOK
  <2>2. c.mux = conn[p].mux /\ c.outbox = <<>> /\ c.flush = FALSE
    BY DEF NoConnection, NewConnection
  <2>3. c \in Connection
    BY NewConnectionTyped, PeersTyped DEF Connection
  <2>4. Unflushed' => Unflushed
    BY <1>18, <1>g DEF Disconnect
  <2> HIDE DEF c
  <2> QED
    BY <2>1, <2>2, <2>3, <2>4, <1>d0
<1>19. ASSUME NEW p \in Peer, DropTask(p) PROVE PacketsInv'
  <2> DEFINE c == [NoConnection EXCEPT !.status =
                                    IF p = "client" THEN "none" ELSE "listening"]
  <2>1. conn' = [conn EXCEPT ![p] = c] /\ UNCHANGED <<packets_tx, pings_sent, burst>>
    BY <1>19 DEF DropTask, TypeOK
  <2>2. c.mux = <<>> /\ c.outbox = <<>> /\ c.flush = FALSE
    BY DEF NoConnection, NewConnection
  <2>3. c \in Connection
    BY NewConnectionTyped DEF Connection
  <2>4. Unflushed' => Unflushed
    BY <1>19, <1>g DEF DropTask
  <2> HIDE DEF c
  <2> QED
    BY <2>1, <2>2, <2>3, <2>4, <1>d0
<1>20. ASSUME NEW d \in net, Arrive(d) PROVE PacketsInv'
  <2> DEFINE p == d.to
             rx == Append(conn[p].rx, d.packet)
             c == [conn[p] EXCEPT !.rx = rx]
             n == NewConnection(<<d.packet>>)
  <2>1. /\ p \in Peer /\ d.packet \in Seq(Message)
        /\ UNCHANGED <<sched, packets_tx, pings_sent, burst>>
        /\ \/ conn' = [conn EXCEPT ![p] = c]
           \/ conn' = [conn EXCEPT ![p] = n]
           \/ UNCHANGED conn
    BY <1>20 DEF Arrive, TypeOK
  <2>2. n.mux = <<>> /\ n.outbox = <<>> /\ n.flush = FALSE
    BY DEF NewConnection
  <2>3. n \in Connection
    BY <2>1, NewConnectionTyped
  <2> HIDE DEF rx, n, p
  <2>4. c.mux = conn[p].mux /\ c.outbox = conn[p].outbox /\ c.flush = conn[p].flush
    BY <2>1, PeersTyped DEF Connection
  <2> HIDE DEF c
  <2>5. Unflushed' => Unflushed
    BY <2>1, <1>v
  <2>6. CASE conn' = [conn EXCEPT ![p] = c]
    BY <2>1, <2>4, <2>5, <2>6, <1>q, OtherQueues
  <2>7. CASE conn' = [conn EXCEPT ![p] = n]
    BY <2>1, <2>2, <2>3, <2>5, <2>7, <1>d0
  <2>8. CASE UNCHANGED conn
    BY <2>1, <2>5, <2>8, <1>q, <1>u
  <2> QED
    BY <2>1, <2>6, <2>7, <2>8
<1>21. CASE UNCHANGED vars
  BY <1>21, <1>q, <1>u, <1>v DEF vars
<1> QED
  BY <1>1, <1>2, <1>3, <1>4, <1>5, <1>6, <1>7, <1>8, <1>9, <1>10, <1>11, <1>12, <1>13,
     <1>14, <1>15, <1>16, <1>17, <1>18, <1>19, <1>20, <1>21 DEF Next, Systems

LEMMA StrategyStays == [Next]_vars => UNCHANGED manual_flush
<1> USE DEF setup, application
<1>1. ASSUME NEW p \in Peer, Systems(p) PROVE UNCHANGED manual_flush
  BY <1>1 DEF Systems, NextStage, Startup, SetupChannels, Register, ReceivePacket,
       ReceiveNothing, SendPing, EndPings, RecvMessage, NoMessage, Reply, EndReplies,
       FlushChannels, DropTask
<1>2. ASSUME NEW p \in Peer, Pack(p) \/ Unpack(p) \/ ChannelTask(p) \/ SendFails(p)
                               \/ StreamEnds(p) \/ Heartbeat(p) \/ Disconnect(p)
      PROVE  UNCHANGED manual_flush
  BY <1>2 DEF Pack, Unpack, ChannelTask, SendFails, StreamEnds, Heartbeat, Disconnect
<1>3. ASSUME NEW d \in net, Arrive(d) PROVE UNCHANGED manual_flush
  BY <1>3 DEF Arrive
<1> QED
  BY <1>1, <1>2, <1>3 DEF Next, vars

(***************************************************************************)
(* With the flushes at the end of each tick, the client's channel task     *)
(* never sends more packets than send_messages has had runs, whatever the  *)
(* lag of the tasks, the room in the queues, the losses and a disconnect.  *)
(***************************************************************************)
THEOREM OnePacketPerTickAlways == Spec => []OnePacketPerTick
<1> DEFINE Packed == manual_flush => PacketsInv
<1>1. Init => TurnsInv /\ KindsInv
  <2> SUFFICES ASSUME Init PROVE TurnsInv /\ KindsInv
    OBVIOUS
  <2>1. TurnsInv
    BY DEF Init, TurnsInv, SystemsOf, Peer
  <2>2. \A S : <<>> \in Seq(S)
    OBVIOUS
  <2>3. \A p \in Peer : Carries(NoConnection, p)
    BY <2>2 DEF Carries, NoConnection, NewConnection
  <2>4. KindsInv
    BY <2>2, <2>3 DEF Init, KindsInv, Peer
  <2> QED
    BY <2>1, <2>4
<1>2. Init => Packed
  <2> SUFFICES ASSUME Init PROVE PacketsInv
    OBVIOUS
  <2>1. Sent = 0 /\ Waiting = 0 /\ Asked = 0 /\ Owed = 0
    BY DEF Init, Sent, Waiting, Asked, Owed, Unflushed, Mine, NoConnection, NewConnection, Peer
  <2>2. /\ 0 * PerTick = 0 /\ 0 \in Nat /\ PerTick > 0 /\ PerTick \in Nat
        /\ NumPings \in Nat
    BY ChannelsAssumption DEF ChannelsAssumption
  <2>3. pings_sent = 0
    BY DEF Init
  <2> QED
    BY <2>1, <2>2, <2>3 DEF PacketsInv, Fit
<1>3. TypeOK /\ TypeOK' /\ TurnsInv /\ KindsInv /\ Packed /\ [Next]_vars => Packed'
  BY NextPackets, StrategyStays
<1>4. TypeOK /\ Packed => OnePacketPerTick
  <2> SUFFICES ASSUME TypeOK, manual_flush, PacketsInv
               PROVE  packets_tx * PerTick < pings_sent + PerTick
    BY DEF OnePacketPerTick
  <2>1. CountsOK
    BY CountsTyped
  <2>2. Len(Mine.mux) \in Nat /\ packets_tx \in Nat
    BY PeersTyped DEF TypeOK, Mine, Peer, Connection, Packets
  <2>3. packets_tx <= Sent
    BY <2>2 DEF Sent
  <2> QED
    BY <2>1, <2>2, <2>3, FitMeansFew DEF CountsOK, PacketsInv
<1> HIDE DEF Packed
<1> QED
  BY <1>1, <1>2, <1>3, <1>4, TypeCorrect, NextTyped, NextTurns, NextKinds, PTL DEF Spec
=============================================================================
