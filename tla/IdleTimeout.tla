----------------------------- MODULE IdleTimeout -----------------------------
(***************************************************************************)
(* Idle timeouts and automatic heartbeats between a client and a server:   *)
(* PacketStats of src/src/transport.rs, the systems receive_packets and    *)
(* heartbeats_and_timeouts of src/src/lib.rs with the times at which the   *)
(* plugin runs them, and a network that loses and delays datagrams.        *)
(*                                                                         *)
(* Each peer is one process with at most one connection to the other.  The *)
(* client has called connect; the server has called listen, and a datagram *)
(* that reaches it when it has no connection to the client makes one.      *)
(* Time is discrete, and rx and tx are the numbers last_packet_timings     *)
(* returns.                                                                *)
(***************************************************************************)
EXTENDS Integers

CONSTANTS
  TimingOut,     \* peers that have set idle_timeout_ms
  Heartbeating,  \* peers that have set auto_heartbeat_ms
  Leaving,       \* peers whose application may call disconnect
  Idle,          \* idle_timeout_ms
  Heartbeat,     \* auto_heartbeat_ms
  MinStep,       \* least time between two runs of heartbeats_and_timeouts
  MaxStep,       \* greatest time between two runs of heartbeats_and_timeouts
  Frame,         \* greatest time between two runs of receive_packets
  Delay,         \* longest time a datagram is on the network
  MaxLost        \* most datagrams in a row that the network loses

Peer == {"client", "server"}
Other(p) == IF p = "client" THEN "server" ELSE "client"

ASSUME TimeoutAssumption ==
  /\ TimingOut \subseteq Peer
  /\ Heartbeating \subseteq Peer
  /\ Leaving \subseteq Peer
  /\ Idle \in Nat
  /\ Heartbeat \in Nat
  /\ MinStep \in Nat \ {0}
  /\ MaxStep \in Nat
  /\ MinStep <= MaxStep
  /\ Frame \in Nat \ {0}
  /\ Delay \in Nat
  /\ MaxLost \in Nat

VARIABLES
  open,    \* peers that have a connection
  rx,      \* time since each peer last received
  tx,      \* time since each peer last sent
  check,   \* time since heartbeats_and_timeouts last ran at each peer
  frame,   \* time since receive_packets last ran at each peer
  net,     \* ages of the datagrams from each peer on the network
  lost,    \* datagrams from each peer lost in a row
  unread,  \* peers whose connection has a datagram it has not read
  heard,   \* peers whose connection has read a datagram
  left     \* peers whose application has called disconnect

vars == <<open, rx, tx, check, frame, net, lost, unread, heard, left>>

\* Bound: times beyond which no action tells two times apart.
RxBound == Idle + MaxStep + 1
TxBound == Heartbeat + MaxStep + 1
Older(n, bound) == IF n < bound THEN n + 1 ELSE n

-----------------------------------------------------------------------------
(* Sending *)

\* add_tx, then the network keeps the datagram or loses it.
Transmit(p) ==
  /\ tx' = [tx EXCEPT ![p] = 0]
  /\ \/ /\ net' = [net EXCEPT ![p] = @ \cup {0}]
        /\ lost' = [lost EXCEPT ![p] = 0]
     \/ /\ lost[p] < MaxLost
        /\ lost' = [lost EXCEPT ![p] = @ + 1]
        /\ UNCHANGED net

\* The application sends something: at most once per unit of time, which bounds
\* the model.
Send(p) ==
  /\ p \in open
  /\ tx[p] > 0
  /\ Transmit(p)
  /\ UNCHANGED <<open, rx, check, frame, unread, heard, left>>

-----------------------------------------------------------------------------
(* Receiving *)

\* A datagram reaches the socket of a connection.
Arrive(p, n) ==
  /\ p \in open
  /\ n \in net[Other(p)]
  /\ net' = [net EXCEPT ![Other(p)] = @ \ {n}]
  /\ unread' = unread \cup {p}
  /\ UNCHANGED <<open, rx, tx, check, frame, lost, heard, left>>

\* It makes a connection at the server, whose PacketStats start now.
Accept(n) ==
  /\ "server" \notin open
  /\ n \in net["client"]
  /\ net' = [net EXCEPT !["client"] = @ \ {n}]
  /\ open' = open \cup {"server"}
  /\ unread' = unread \cup {"server"}
  /\ rx' = [rx EXCEPT !["server"] = 0]
  /\ tx' = [tx EXCEPT !["server"] = 0]
  /\ UNCHANGED <<check, frame, lost, heard, left>>

\* Nobody has the socket of a client that has closed.
Vanish(n) ==
  /\ "client" \notin open
  /\ n \in net["server"]
  /\ net' = [net EXCEPT !["server"] = @ \ {n}]
  /\ UNCHANGED <<open, rx, tx, check, frame, lost, unread, heard, left>>

\* add_rx: any datagram, a heartbeat too, is a sign of life.
ReceivePackets(p) ==
  /\ frame[p] > 0 \/ p \in unread
  /\ frame' = [frame EXCEPT ![p] = 0]
  /\ IF p \in unread
     THEN /\ rx' = [rx EXCEPT ![p] = 0]
          /\ unread' = unread \ {p}
          /\ heard' = heard \cup {p}
     ELSE UNCHANGED <<rx, unread, heard>>
  /\ UNCHANGED <<open, tx, check, net, lost, left>>

-----------------------------------------------------------------------------
(* heartbeats_and_timeouts, and disconnect *)

\* Slip: the idle limit is compared with the time since the last send.
SilentSinceSend(p) == p \in TimingOut /\ tx[p] > Idle

\* Slip: the limit itself is too long already.
SilentAtLimit(p) == p \in TimingOut /\ rx[p] >= Idle

Silent(p) == p \in TimingOut /\ rx[p] > Idle

\* Slip: the heartbeat limit is compared with the time since the last receive.
HeartbeatDueSinceReceive(p) == p \in Heartbeating /\ rx[p] > Heartbeat

HeartbeatDue(p) == p \in Heartbeating /\ tx[p] > Heartbeat

\* Slip: the channel survives its connection.
CloseKeepingChannel(S) ==
  /\ open' = open \ S
  /\ heard' = heard \ S
  /\ UNCHANGED unread

\* A connection goes with what is in its channel.  Nobody tells the other peer.
Close(S) ==
  /\ open' = open \ S
  /\ unread' = unread \ S
  /\ heard' = heard \ S

\* The stage follows the one of receive_packets in its frame.
HeartbeatsAndTimeouts(p) ==
  /\ check[p] >= MinStep
  /\ frame[p] = 0
  /\ check' = [check EXCEPT ![p] = 0]
  /\ IF p \in open /\ HeartbeatDue(p)
     THEN Transmit(p)
     ELSE UNCHANGED <<tx, net, lost>>
  /\ Close({q \in open \cap {p} : Silent(q)})
  /\ UNCHANGED <<rx, frame, left>>

Disconnect(p) ==
  /\ p \in open \cap Leaving
  /\ p \notin left
  /\ Close({p})
  /\ left' = left \cup {p}
  /\ UNCHANGED <<rx, tx, check, frame, net, lost>>

-----------------------------------------------------------------------------

\* Time passes, unless something must happen first.
Tick ==
  /\ \A p \in Peer :
       /\ check[p] < MaxStep
       /\ frame[p] < Frame
       /\ \A n \in net[p] : n < Delay
  /\ rx' = [p \in Peer |-> Older(rx[p], RxBound)]
  /\ tx' = [p \in Peer |-> Older(tx[p], TxBound)]
  /\ check' = [p \in Peer |-> check[p] + 1]
  /\ frame' = [p \in Peer |-> frame[p] + 1]
  /\ net' = [p \in Peer |-> {n + 1 : n \in net[p]}]
  /\ UNCHANGED <<open, lost, unread, heard, left>>

Init ==
  /\ open = {"client"}
  /\ rx = [p \in Peer |-> 0]
  /\ tx = [p \in Peer |-> 0]
  /\ check \in [Peer -> 0 .. MaxStep]
  /\ frame \in [Peer -> 0 .. Frame]
  /\ net = [p \in Peer |-> {}]
  /\ lost = [p \in Peer |-> 0]
  /\ unread = {}
  /\ heard = {}
  /\ left = {}

Network ==
  \/ \E p \in Peer, n \in 0 .. Delay : Arrive(p, n)
  \/ \E n \in 0 .. Delay : Accept(n) \/ Vanish(n)

Systems(p) == ReceivePackets(p) \/ HeartbeatsAndTimeouts(p)

Application == \E p \in Peer : Send(p) \/ Disconnect(p)

Next ==
  \/ Network
  \/ \E p \in Peer : Systems(p)
  \/ Application
  \/ Tick

Spec == Init /\ [][Next]_vars

(***************************************************************************)
(* Time goes on, the network delivers or loses what it has, and the        *)
(* schedule runs its systems.  The application may do nothing.             *)
(***************************************************************************)
Fairness ==
  /\ WF_vars(Tick)
  /\ WF_vars(Network)
  /\ \A p \in Peer : WF_vars(ReceivePackets(p)) /\ WF_vars(HeartbeatsAndTimeouts(p))

FairSpec == Spec /\ Fairness

-----------------------------------------------------------------------------
(* Properties *)

TypeOK ==
  /\ open \subseteq Peer
  /\ rx \in [Peer -> 0 .. RxBound]
  /\ tx \in [Peer -> 0 .. TxBound]
  /\ check \in [Peer -> 0 .. MaxStep]
  /\ frame \in [Peer -> 0 .. Frame]
  /\ net \in [Peer -> SUBSET (0 .. Delay)]
  /\ lost \in [Peer -> 0 .. MaxLost]
  /\ unread \subseteq open
  /\ heard \subseteq open
  /\ left \subseteq Leaving

\* The longest that a heartbeating peer sends nothing, and the longest that the
\* other has no news of it, whatever the network loses and delays.
Gap  == Heartbeat + MaxStep
News == (MaxLost + 1) * Gap + Delay

(***************************************************************************)
(* While no application has called disconnect, heartbeats_and_timeouts     *)
(* closes no connection of the server that the client has too, and none of *)
(* the client that has heard from the server.                              *)
(***************************************************************************)
NoFalseTimeout ==
  [][\A p \in Peer : p \in open /\ p \notin open' /\ left' = {} =>
       \/ Other(p) \notin open
       \/ p = "client" /\ p \notin heard]_vars

(***************************************************************************)
(* A client that calls connect lives through the time in which the server  *)
(* has not heard of it: nothing ends but by a call of disconnect.          *)
(***************************************************************************)
NoTimeoutAtStart ==
  [][left' = {} => open \subseteq open']_vars

(***************************************************************************)
(* disconnect "doesn't signal peer in any way.  Peer will eventually do    *)
(* HeartbeatMissed and clean up", says its comment: in the end the server  *)
(* of a client that has disconnected has no connection for good, and       *)
(* neither peer has one when it is the server that has disconnected.       *)
(***************************************************************************)
ServerCleansUp == "client" \in left ~> []("server" \notin open)
ClientCleansUp == "server" \in left ~> [](open = {})
=============================================================================
