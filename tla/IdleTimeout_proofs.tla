------------------------- MODULE IdleTimeout_proofs -------------------------
(* Theorems about IdleTimeout, for every value of its constants. *)
EXTENDS IdleTimeout, TLAPS

LEMMA ConstantsTyped ==
  /\ RxBound \in Nat /\ TxBound \in Nat /\ Gap \in Nat /\ News \in Nat
  /\ \A p \in Peer : Other(p) \in Peer /\ Other(p) # p /\ Other(Other(p)) = p
<1>1. Gap \in Nat /\ MaxLost + 1 \in Nat
  BY TimeoutAssumption DEF TimeoutAssumption, Gap
<1>2. (MaxLost + 1) * Gap \in Nat
  BY <1>1
<1> QED
  BY <1>1, <1>2, TimeoutAssumption DEF TimeoutAssumption, RxBound, TxBound, News, Peer, Other

-----------------------------------------------------------------------------
(* Type correctness *)

LEMMA TransmitTyped ==
  ASSUME TypeOK, NEW p \in Peer, Transmit(p)
  PROVE  /\ tx' \in [Peer -> 0 .. TxBound]
         /\ net' \in [Peer -> SUBSET (0 .. Delay)]
         /\ lost' \in [Peer -> 0 .. MaxLost]
  BY ConstantsTyped, TimeoutAssumption DEF TimeoutAssumption, TypeOK, Transmit

LEMMA NextTyped == TypeOK /\ [Next]_vars => TypeOK'
<1> SUFFICES ASSUME TypeOK, [Next]_vars PROVE TypeOK'
  OBVIOUS
<1> USE ConstantsTyped, TimeoutAssumption DEF TimeoutAssumption, TypeOK
<1>1. ASSUME NEW p \in Peer, NEW n \in 0 .. Delay, Arrive(p, n) PROVE TypeOK'
  BY <1>1 DEF Arrive
<1>2. ASSUME NEW n \in 0 .. Delay, Accept(n) PROVE TypeOK'
  BY <1>2 DEF Accept, Peer
<1>3. ASSUME NEW n \in 0 .. Delay, Vanish(n) PROVE TypeOK'
  BY <1>3 DEF Vanish, Peer
<1>4. ASSUME NEW p \in Peer, ReceivePackets(p) PROVE TypeOK'
  BY <1>4 DEF ReceivePackets
<1>5. ASSUME NEW p \in Peer, HeartbeatsAndTimeouts(p) PROVE TypeOK'
  <2>1. /\ tx' \in [Peer -> 0 .. TxBound]
        /\ net' \in [Peer -> SUBSET (0 .. Delay)]
        /\ lost' \in [Peer -> 0 .. MaxLost]
    BY <1>5, TransmitTyped DEF HeartbeatsAndTimeouts
  <2>2. open' \subseteq Peer /\ unread' \subseteq open' /\ heard' \subseteq open'
    BY <1>5 DEF HeartbeatsAndTimeouts, Close
  <2>3. check' \in [Peer -> 0 .. MaxStep] /\ UNCHANGED <<rx, frame, left>>
    BY <1>5 DEF HeartbeatsAndTimeouts
  <2> QED
    BY <2>1, <2>2, <2>3
<1>6. ASSUME NEW p \in Peer, Send(p) PROVE TypeOK'
  <2>1. /\ tx' \in [Peer -> 0 .. TxBound]
        /\ net' \in [Peer -> SUBSET (0 .. Delay)]
        /\ lost' \in [Peer -> 0 .. MaxLost]
    BY <1>6, TransmitTyped DEF Send
  <2> QED
    BY <1>6, <2>1 DEF Send
<1>7. ASSUME NEW p \in Peer, Disconnect(p) PROVE TypeOK'
  BY <1>7 DEF Disconnect, Close
<1>8. CASE Tick
  <2>1. /\ rx' \in [Peer -> 0 .. RxBound]
        /\ tx' \in [Peer -> 0 .. TxBound]
    BY <1>8 DEF Tick, Older
  <2>2. /\ check' \in [Peer -> 0 .. MaxStep]
        /\ frame' \in [Peer -> 0 .. Frame]
    BY <1>8 DEF Tick
  <2>3. net' \in [Peer -> SUBSET (0 .. Delay)]
    BY <1>8 DEF Tick
  <2> QED
    BY <1>8, <2>1, <2>2, <2>3 DEF Tick
<1>9. CASE UNCHANGED vars
  BY <1>9 DEF vars
<1> QED
  BY <1>1, <1>2, <1>3, <1>4, <1>5, <1>6, <1>7, <1>8, <1>9
     DEF Next, Network, Systems, Application

(* Times stay within their bounds, and a channel goes with its connection. *)
THEOREM TypeCorrect == Spec => []TypeOK
<1>1. Init => TypeOK
  BY ConstantsTyped, TimeoutAssumption DEF TimeoutAssumption, Init, TypeOK, Peer
<1> QED
  BY <1>1, NextTyped, PTL DEF Spec

-----------------------------------------------------------------------------
(* News of a heartbeating peer *)

EveryoneBeats == Heartbeating = Peer

\* A peer that has a connection sends at least every Gap.
TxInv == \A p \in open : tx[p] <= Heartbeat + check[p]

\* A time t is no longer than what p sends has been on its way: everything since
\* was lost, or a datagram of p is on the network.
Covers(p, t) ==
  /\ net[p] = {} => t <= lost[p] * Gap + tx[p]
  /\ net[p] # {} => \E n \in net[p] : t <= n + MaxLost * Gap + Gap

\* Before the server knows the client, nothing comes from it, and what the client
\* has sent since it began has been lost or is on its way.
StartInv ==
  left = {} /\ "client" \in open /\ "server" \notin open =>
    /\ net["server"] = {}
    /\ unread \cup heard \subseteq {"server"}
    /\ Covers("client", rx["client"])

InTouch == left = {} /\ open = Peer

\* How long the server may have taken to hear of a client that has not heard of it.
Late(q) == IF q = "client" /\ q \notin heard THEN News ELSE 0

\* The time since q last received: a datagram is in the channel, or the time is
\* that of what the other sends.
NewsOf(q) ==
  /\ q \in unread => rx[q] <= Late(q) + MaxLost * Gap + Gap + Delay + frame[q]
  /\ q \notin unread => Covers(Other(q), rx[q] - Late(q))

NewsInv == InTouch => \A q \in Peer : NewsOf(q)

IInv == TypeOK /\ TxInv /\ StartInv /\ NewsInv

LEMMA GapFacts ==
  /\ Gap \in Nat /\ MaxLost * Gap \in Nat
  /\ News = MaxLost * Gap + Gap + Delay
  /\ \A k \in 0 .. MaxLost : k * Gap \in Nat /\ k * Gap <= MaxLost * Gap /\ (k + 1) * Gap = k * Gap + Gap
<1>1. Gap \in Nat /\ MaxLost \in Nat
  BY TimeoutAssumption DEF TimeoutAssumption, Gap
<1>2. \A k, m, g \in Nat : k * g \in Nat /\ (k + 1) * g = k * g + g
  OBVIOUS
<1>3. \A k, m, g \in Nat : k <= m => k * g <= m * g
  <2> SUFFICES ASSUME NEW k \in Nat, NEW m \in Nat, NEW g \in Nat, k <= m
               PROVE  k * g <= m * g
    OBVIOUS
  <2>1. m - k \in Nat /\ (m - k) * g \in Nat
    OBVIOUS
  <2>2. m * g = k * g + (m - k) * g
    OBVIOUS
  <2> QED
    BY <1>2, <2>1, <2>2
<1> QED
  BY <1>1, <1>2, <1>3 DEF News

LEMMA TxInvHolds ==
  ASSUME EveryoneBeats, TypeOK, TxInv, [Next]_vars
  PROVE  TxInv'
<1> USE ConstantsTyped, TimeoutAssumption DEF TimeoutAssumption, TypeOK, TxInv
<1>1. ASSUME NEW p \in Peer, NEW n \in 0 .. Delay, Arrive(p, n) PROVE TxInv'
  BY <1>1 DEF Arrive
<1>2. ASSUME NEW n \in 0 .. Delay, Accept(n) PROVE TxInv'
  BY <1>2 DEF Accept, Peer
<1>3. ASSUME NEW n \in 0 .. Delay, Vanish(n) PROVE TxInv'
  BY <1>3 DEF Vanish
<1>4. ASSUME NEW p \in Peer, ReceivePackets(p) PROVE TxInv'
  BY <1>4 DEF ReceivePackets
<1>5. ASSUME NEW p \in Peer, HeartbeatsAndTimeouts(p) PROVE TxInv'
  <2>1. open' \subseteq open /\ check' = [check EXCEPT ![p] = 0]
    BY <1>5 DEF HeartbeatsAndTimeouts, Close
  <2>2. CASE p \in open /\ HeartbeatDue(p)
    BY <1>5, <2>1, <2>2 DEF HeartbeatsAndTimeouts, Transmit
  <2>3. CASE ~ (p \in open /\ HeartbeatDue(p))
    <3>1. tx' = tx /\ (p \in open => tx[p] <= Heartbeat)
      BY <1>5, <2>3 DEF HeartbeatsAndTimeouts, HeartbeatDue, EveryoneBeats
    <3> QED
      BY <2>1, <3>1
  <2> QED
    BY <2>2, <2>3
<1>6. ASSUME NEW p \in Peer, Send(p) PROVE TxInv'
  BY <1>6 DEF Send, Transmit
<1>7. ASSUME NEW p \in Peer, Disconnect(p) PROVE TxInv'
  BY <1>7 DEF Disconnect, Close
<1>8. CASE Tick
  BY <1>8 DEF Tick, Older
<1>9. CASE UNCHANGED vars
  BY <1>9 DEF vars
<1> QED
  BY <1>1, <1>2, <1>3, <1>4, <1>5, <1>6, <1>7, <1>8, <1>9
     DEF Next, Network, Systems, Application

\* What p sends covers no more than News.
LEMMA CoversBound ==
  ASSUME EveryoneBeats, TypeOK, TxInv, NEW p \in open, NEW t \in Int, Covers(p, t)
  PROVE  t <= News
<1>1. /\ p \in Peer /\ lost[p] \in 0 .. MaxLost /\ tx[p] \in Nat
      /\ net[p] \subseteq 0 .. Delay /\ Delay \in Nat
  BY TimeoutAssumption DEF TypeOK, TimeoutAssumption
<1>2. tx[p] <= Gap
  BY <1>1, TimeoutAssumption DEF TimeoutAssumption, TxInv, TypeOK, Gap
<1>3. CASE net[p] = {}
  <2>1. t <= lost[p] * Gap + tx[p] /\ lost[p] * Gap \in Nat /\ lost[p] * Gap <= MaxLost * Gap
    BY <1>1, <1>3, GapFacts DEF Covers
  <2> QED
    BY <1>1, <1>2, <2>1, GapFacts
<1>4. CASE net[p] # {}
  <2>1. PICK n \in net[p] : t <= n + MaxLost * Gap + Gap
    BY <1>4 DEF Covers
  <2> QED
    BY <1>1, <2>1, GapFacts
<1> QED
  BY <1>3, <1>4

\* It covers as much after one of the peers has sent something.
LEMMA CoversSent ==
  ASSUME EveryoneBeats, TypeOK, TxInv, NEW p \in open, NEW q \in Peer, Transmit(q),
         NEW t \in Int, Covers(p, t)
  PROVE  Covers(p, t)'
<1>1. /\ p \in Peer /\ lost[p] \in 0 .. MaxLost /\ tx[p] \in Nat
      /\ net[p] \subseteq 0 .. Delay /\ tx[p] <= Gap
  BY TimeoutAssumption DEF TimeoutAssumption, TxInv, TypeOK, Gap
<1>2. CASE q # p
  BY <1>1, <1>2 DEF Transmit, Covers, TypeOK
<1>3. CASE q = p /\ net' = [net EXCEPT ![p] = @ \cup {0}]
  <2>1. net'[p] = net[p] \cup {0}
    BY <1>1, <1>3 DEF TypeOK
  <2>2. CASE net[p] = {}
    <3>1. t <= lost[p] * Gap + tx[p] /\ lost[p] * Gap \in Nat /\ lost[p] * Gap <= MaxLost * Gap
      BY <1>1, <2>2, GapFacts DEF Covers
    <3>2. t <= 0 + MaxLost * Gap + Gap
      BY <1>1, <3>1, GapFacts
    <3> QED
      BY <2>1, <3>2 DEF Covers
  <2>3. CASE net[p] # {}
    BY <2>1, <2>3 DEF Covers
  <2> QED
    BY <2>2, <2>3
<1>4. CASE q = p /\ lost' = [lost EXCEPT ![p] = @ + 1] /\ net' = net /\ lost[p] < MaxLost
  <2>1. lost'[p] = lost[p] + 1 /\ tx'[p] = 0
    BY <1>1, <1>4 DEF TypeOK, Transmit
  <2>2. lost'[p] * Gap + tx'[p] = lost[p] * Gap + Gap
    BY <1>1, <2>1, GapFacts
  <2>3. lost[p] * Gap \in Nat
    BY <1>1, GapFacts
  <2> QED
    BY <1>1, <1>4, <2>2, <2>3, GapFacts DEF Covers
<1> QED
  BY <1>2, <1>3, <1>4 DEF Transmit

\* Time goes on for both.
LEMMA CoversTick ==
  ASSUME TypeOK, TxInv, Tick, NEW p \in open, NEW t \in Int, NEW u \in Int, u <= t + 1,
         Covers(p, t)
  PROVE  Covers(p, u)'
<1>1. /\ p \in Peer /\ lost[p] \in 0 .. MaxLost /\ tx[p] \in Nat /\ net[p] \subseteq 0 .. Delay
      /\ Delay \in Nat
  BY TimeoutAssumption DEF TypeOK, TimeoutAssumption
<1>2. tx'[p] = tx[p] + 1
  <2>1. tx[p] <= Heartbeat + check[p] /\ check[p] < MaxStep
    BY <1>1 DEF Tick, TxInv
  <2> QED
    BY <1>1, <2>1, TimeoutAssumption DEF TimeoutAssumption, Tick, Older, TxBound, TypeOK
<1>3. net'[p] = {n + 1 : n \in net[p]} /\ lost' = lost
  BY <1>1 DEF Tick
<1>4. CASE net[p] = {}
  <2>1. t <= lost[p] * Gap + tx[p] /\ lost[p] * Gap \in Nat
    BY <1>1, <1>4, GapFacts DEF Covers
  <2>2. u <= lost'[p] * Gap + tx'[p]
    BY <1>1, <1>2, <1>3, <2>1
  <2> QED
    BY <1>3, <1>4, <2>2 DEF Covers
<1>5. CASE net[p] # {}
  <2>1. PICK n \in net[p] : t <= n + MaxLost * Gap + Gap
    BY <1>5 DEF Covers
  <2>2. n + 1 \in net'[p] /\ u <= (n + 1) + MaxLost * Gap + Gap
    BY <1>1, <1>3, <2>1, GapFacts
  <2> QED
    BY <2>2 DEF Covers
<1> QED
  BY <1>4, <1>5

LEMMA LateTyped == \A q \in Peer : Late(q) \in {0, News} /\ Late(q) \in Nat
  BY ConstantsTyped DEF Late

\* How long it can be since a peer in touch has received, when heartbeats_and_timeouts
\* looks.
LEMMA NewsIsRecent ==
  ASSUME EveryoneBeats, IInv, InTouch, NEW q \in Peer, frame[q] = 0
  PROVE  rx[q] <= Late(q) + News
<1>1. Other(q) \in open /\ rx[q] \in Nat /\ Delay \in Nat
  BY ConstantsTyped, TimeoutAssumption DEF InTouch, IInv, TypeOK, TimeoutAssumption
<1>2. NewsOf(q)
  BY DEF IInv, NewsInv
<1>3. CASE q \in unread
  BY <1>1, <1>2, <1>3, LateTyped, GapFacts DEF NewsOf
<1>4. CASE q \notin unread
  <2>1. rx[q] - Late(q) \in Int /\ Covers(Other(q), rx[q] - Late(q))
    BY <1>1, <1>2, <1>4, LateTyped DEF NewsOf
  <2>2. rx[q] - Late(q) <= News
    BY <1>1, <2>1, CoversBound DEF IInv
  <2> QED
    BY <1>1, <2>2, LateTyped, GapFacts, ConstantsTyped
<1> QED
  BY <1>3, <1>4

LEMMA NotSilent ==
  ASSUME EveryoneBeats, IInv, InTouch, NEW q \in Peer, frame[q] = 0, Late(q) + News <= Idle
  PROVE  ~ Silent(q)
<1>1. rx[q] \in Nat /\ Idle \in Nat
  BY TimeoutAssumption DEF IInv, TypeOK, TimeoutAssumption
<1> QED
  BY <1>1, NewsIsRecent, LateTyped, ConstantsTyped DEF Silent

\* Nobody times out while in touch.
LEMMA NobodyCloses ==
  ASSUME EveryoneBeats, News <= Idle, IInv, NEW p \in Peer, HeartbeatsAndTimeouts(p), left = {}
  PROVE  open' = open \/ Other(p) \notin open \/ (p = "client" /\ p \notin heard)
<1> SUFFICES ASSUME Other(p) \in open, p = "client" => p \in heard, p \in open
             PROVE  open' = open
  BY DEF HeartbeatsAndTimeouts, Close
<1>1. InTouch
  BY DEF InTouch, Peer, Other, IInv, TypeOK
<1>2. Late(p) + News <= Idle
  BY ConstantsTyped DEF Late
<1>3. ~ Silent(p)
  BY <1>1, <1>2, NotSilent DEF HeartbeatsAndTimeouts
<1> QED
  BY <1>3 DEF HeartbeatsAndTimeouts, Close

LEMMA StartInvHolds ==
  ASSUME EveryoneBeats, News <= Idle, IInv, [Next]_vars
  PROVE  StartInv'
<1> SUFFICES ASSUME left' = {}, "client" \in open', "server" \notin open'
             PROVE  /\ net'["server"] = {} /\ unread' \cup heard' \subseteq {"server"}
                    /\ Covers("client", rx["client"])'
  BY DEF StartInv
<1> DEFINE Goal == /\ net'["server"] = {} /\ unread' \cup heard' \subseteq {"server"}
                   /\ Covers("client", rx["client"])'
<1> USE DEF IInv, TypeOK, StartInv, Peer, Other
\* Neither time, nor what the client has sent, nor what it has received changes.
<1>a. ASSUME left = {}, "client" \in open, "server" \notin open,
             UNCHANGED <<rx, tx, net, lost>>, unread' \cup heard' \subseteq {"server"}
      PROVE  Goal
  BY <1>a DEF Covers
<1>b. ASSUME NEW p \in Peer, Transmit(p), UNCHANGED <<open, rx, unread, heard, left>>, p \in open
      PROVE  Goal
  <2>1. rx["client"] \in Int /\ Covers("client", rx["client"])
    BY <1>b
  <2>2. Covers("client", rx["client"])'
    BY <1>b, <2>1, CoversSent DEF Covers
  <2> QED
    BY <1>b, <2>2 DEF Transmit
<1>1. ASSUME NEW p \in Peer, NEW n \in 0 .. Delay, Arrive(p, n) PROVE Goal
  BY <1>1 DEF Arrive
<1>2. ASSUME NEW n \in 0 .. Delay, Accept(n) PROVE Goal
  BY <1>2 DEF Accept
<1>3. ASSUME NEW n \in 0 .. Delay, Vanish(n) PROVE Goal
  BY <1>3 DEF Vanish
<1>4. ASSUME NEW p \in Peer, ReceivePackets(p) PROVE Goal
  BY <1>4, <1>a DEF ReceivePackets
<1>5. ASSUME NEW p \in Peer, HeartbeatsAndTimeouts(p) PROVE Goal
  \* The server has not just closed: either it had no connection before, or the
  \* client had not one either.
  <2>1. left = {} /\ "client" \in open
    BY <1>5 DEF HeartbeatsAndTimeouts, Close
  <2>2. "server" \notin open
    <3>1. CASE p = "server"
      BY <1>5, <2>1, <3>1, NobodyCloses
    <3>2. CASE p = "client"
      BY <1>5, <3>2 DEF HeartbeatsAndTimeouts, Close
    <3> QED
      BY <3>1, <3>2
  <2>3. UNCHANGED <<rx, left>> /\ open' = open /\ unread' = unread /\ heard' = heard
    BY <1>5, <2>1, <2>2 DEF HeartbeatsAndTimeouts, Close
  <2>4. CASE p \in open /\ Transmit(p)
    BY <1>b, <2>3, <2>4
  <2>5. CASE UNCHANGED <<tx, net, lost>>
    BY <1>a, <2>1, <2>2, <2>3, <2>5
  <2> QED
    BY <1>5, <2>4, <2>5 DEF HeartbeatsAndTimeouts
<1>6. ASSUME NEW p \in Peer, Send(p) PROVE Goal
  BY <1>6, <1>b DEF Send
<1>7. ASSUME NEW p \in Peer, Disconnect(p) PROVE Goal
  BY <1>7 DEF Disconnect
<1>8. CASE Tick
  <2>1. /\ left = {} /\ "client" \in open /\ "server" \notin open
        /\ UNCHANGED <<unread, heard>>
    BY <1>8 DEF Tick
  <2>2. net'["server"] = {}
    BY <1>8, <2>1 DEF Tick
  <2>3. rx["client"] \in Int /\ rx'["client"] \in Int /\ rx'["client"] <= rx["client"] + 1
    BY <1>8, ConstantsTyped DEF Tick, Older
  <2>4. Covers("client", rx["client"])'
    BY <1>8, <2>1, <2>3, CoversTick DEF Covers
  <2> QED
    BY <2>1, <2>2, <2>4
<1>9. CASE UNCHANGED vars
  BY <1>9, <1>a DEF vars
<1> QED
  BY <1>1, <1>2, <1>3, <1>4, <1>5, <1>6, <1>7, <1>8, <1>9
     DEF Next, Network, Systems, Application

LEMMA NewsInvHolds ==
  ASSUME EveryoneBeats, News <= Idle, IInv, [Next]_vars
  PROVE  NewsInv'
<1> SUFFICES ASSUME InTouch', NEW q \in Peer PROVE NewsOf(q)'
  BY DEF NewsInv
<1> DEFINE s == Other(q)
           t == rx[q] - Late(q)
<1>a. /\ s \in Peer /\ s # q /\ rx[q] \in Nat /\ frame[q] \in Nat /\ Delay \in Nat
      /\ net[s] \subseteq 0 .. Delay /\ Late(q) \in Nat /\ t \in Int
  BY ConstantsTyped, TimeoutAssumption, LateTyped DEF TimeoutAssumption, IInv, TypeOK
<1>b. InTouch => NewsOf(q) /\ s \in open
  BY <1>a DEF IInv, NewsInv, InTouch
\* A connection that has just received is up to date.
<1>c. ASSUME rx'[q] = 0 PROVE NewsOf(q)'
  <2>1. /\ lost'[s] \in 0 .. MaxLost /\ tx'[s] \in Nat /\ frame'[q] \in Nat
        /\ net'[s] \subseteq 0 .. Delay
    BY <1>a, NextTyped, TimeoutAssumption DEF TimeoutAssumption, IInv, TypeOK
  <2>2. lost'[s] * Gap \in Nat /\ Late(q)' \in Nat
    BY <2>1, GapFacts, ConstantsTyped DEF Late
  <2>3. rx'[q] - Late(q)' <= 0
    BY <1>c, <2>2
  <2>4. Covers(s, rx[q] - Late(q))'
    BY <1>a, <1>c, <2>1, <2>2, <2>3, GapFacts DEF Covers
  <2> QED
    BY <1>a, <1>c, <2>1, <2>2, <2>4, GapFacts DEF NewsOf
\* Nothing that bears on the news of q has changed.
<1>d. ASSUME InTouch, rx'[q] = rx[q], frame'[q] >= frame[q], frame'[q] \in Nat,
             q \in unread' <=> q \in unread, q \in heard' <=> q \in heard,
             net'[s] = net[s], lost'[s] = lost[s], tx'[s] = tx[s]
      PROVE  NewsOf(q)'
  BY <1>a, <1>b, <1>d, GapFacts DEF NewsOf, Covers, Late
<1>e. ASSUME NEW p \in Peer, Transmit(p), InTouch, UNCHANGED <<rx, frame, unread, heard>>
      PROVE  NewsOf(q)'
  <2>1. CASE q \in unread
    BY <1>b, <1>e, <2>1 DEF NewsOf, Late
  <2>2. CASE q \notin unread
    <3>1. Covers(s, t)
      BY <1>b, <1>e, <2>2 DEF NewsOf
    <3>2. Covers(s, rx[q] - Late(q))'
      BY <1>a, <1>b, <1>e, <3>1, CoversSent DEF Covers, IInv, Late
    <3> QED
      BY <1>e, <2>2, <3>2 DEF NewsOf
  <2> QED
    BY <2>1, <2>2
<1>1. ASSUME NEW p \in Peer, NEW n \in 0 .. Delay, Arrive(p, n) PROVE NewsOf(q)'
  <2>1. InTouch /\ NewsOf(q)
    BY <1>1, <1>b DEF Arrive, InTouch
  <2>2. CASE p = q
    <3>1. q \in unread' /\ UNCHANGED <<rx, frame, heard>> /\ net[s] # {}
      BY <1>1, <2>2 DEF Arrive
    <3>2. rx[q] <= Late(q) + MaxLost * Gap + Gap + Delay + frame[q]
      <4>1. CASE q \in unread
        BY <2>1, <4>1 DEF NewsOf
      <4>2. CASE q \notin unread
        <5>1. PICK m \in net[s] : t <= m + MaxLost * Gap + Gap
          BY <2>1, <3>1, <4>2 DEF NewsOf, Covers
        <5> QED
          BY <1>a, <5>1, GapFacts
      <4> QED
        BY <4>1, <4>2
    <3> QED
      BY <3>1, <3>2 DEF NewsOf, Late
  <2>3. CASE p # q
    <3>1. /\ net'[s] = net[s] /\ (q \in unread' <=> q \in unread)
          /\ UNCHANGED <<rx, tx, frame, lost, heard>>
      BY <1>1, <2>3 DEF Arrive, Peer, Other, IInv, TypeOK
    <3> QED
      BY <1>a, <1>d, <2>1, <3>1
  <2> QED
    BY <2>2, <2>3
<1>2. ASSUME NEW n \in 0 .. Delay, Accept(n) PROVE NewsOf(q)'
  <2>1. CASE q = "server"
    BY <1>2, <1>c, <2>1 DEF Accept, IInv, TypeOK
  \* What the client has sent until now covers the time since it began.
  <2>2. CASE q = "client"
    <3>1. /\ left = {} /\ "client" \in open /\ "server" \notin open
          /\ UNCHANGED <<lost, heard>>
          /\ net' = [net EXCEPT !["client"] = @ \ {n}]
          /\ rx' = [rx EXCEPT !["server"] = 0] /\ unread' = unread \cup {"server"}
      BY <1>2 DEF Accept, InTouch, Peer
    <3>2. net["server"] = {} /\ q \notin unread \cup heard /\ Covers("client", rx["client"])
      BY <2>2, <3>1 DEF IInv, StartInv
    <3>3. rx[q] <= News
      BY <1>a, <2>2, <3>1, <3>2, CoversBound DEF IInv
    <3>4. /\ net'["server"] = {} /\ q \notin unread' /\ Late(q)' = News
          /\ rx'["client"] = rx["client"]
      BY <2>2, <3>1, <3>2 DEF Late, IInv, TypeOK, Peer
    <3>5. lost'["server"] * Gap \in Nat /\ tx'["server"] = 0
      BY <1>2, <3>1, GapFacts DEF Accept, IInv, TypeOK, Peer
    <3>6. Covers("server", rx["client"] - Late("client"))'
      BY <1>a, <2>2, <3>3, <3>4, <3>5, ConstantsTyped DEF Covers
    <3> QED
      BY <2>2, <3>4, <3>6 DEF NewsOf, Other
  <2> QED
    BY <2>1, <2>2 DEF Peer
<1>3. ASSUME NEW n \in 0 .. Delay, Vanish(n) PROVE NewsOf(q)'
  BY <1>3 DEF Vanish, InTouch, Peer
<1>4. ASSUME NEW p \in Peer, ReceivePackets(p) PROVE NewsOf(q)'
  <2>1. CASE p = q /\ q \in unread
    BY <1>4, <1>c, <2>1 DEF ReceivePackets, IInv, TypeOK
  <2>2. CASE p = q /\ q \notin unread
    <3>1. InTouch /\ UNCHANGED <<rx, tx, net, lost, unread, heard>>
      BY <1>4, <2>2 DEF ReceivePackets, InTouch
    <3> QED
      BY <1>b, <2>2, <3>1 DEF NewsOf, Covers, Late
  <2>3. CASE p # q
    <3>1. /\ InTouch /\ rx'[q] = rx[q] /\ frame'[q] = frame[q]
          /\ (q \in unread' <=> q \in unread) /\ (q \in heard' <=> q \in heard)
          /\ UNCHANGED <<tx, net, lost>>
      BY <1>4, <2>3 DEF ReceivePackets, InTouch, IInv, TypeOK
    <3> QED
      BY <1>a, <1>d, <3>1
  <2> QED
    BY <2>1, <2>2, <2>3
<1>5. ASSUME NEW p \in Peer, HeartbeatsAndTimeouts(p) PROVE NewsOf(q)'
  <2>1. InTouch /\ UNCHANGED <<rx, frame, unread, heard>>
    BY <1>5 DEF HeartbeatsAndTimeouts, Close, InTouch, IInv, TypeOK
  <2>2. CASE Transmit(p)
    BY <1>e, <2>1, <2>2
  <2>3. CASE UNCHANGED <<tx, net, lost>>
    BY <1>a, <1>d, <2>1, <2>3
  <2> QED
    BY <1>5, <2>2, <2>3 DEF HeartbeatsAndTimeouts
<1>6. ASSUME NEW p \in Peer, Send(p) PROVE NewsOf(q)'
  <2>1. InTouch
    BY <1>6 DEF Send, InTouch
  <2> QED
    BY <1>6, <1>e, <2>1 DEF Send
<1>7. ASSUME NEW p \in Peer, Disconnect(p) PROVE NewsOf(q)'
  BY <1>7 DEF Disconnect, InTouch
<1>8. CASE Tick
  <2>1. InTouch /\ UNCHANGED <<lost, unread, heard>>
    BY <1>8 DEF Tick, InTouch
  <2>2. rx'[q] <= rx[q] + 1 /\ rx'[q] \in Nat /\ frame'[q] = frame[q] + 1
    BY <1>8, <1>a, ConstantsTyped DEF Tick, Older, IInv, TypeOK
  <2>3. Late(q)' = Late(q)
    BY <2>1 DEF Late
  <2>4. CASE q \in unread
    BY <1>a, <1>b, <2>1, <2>2, <2>3, <2>4, GapFacts DEF NewsOf
  <2>5. CASE q \notin unread
    <3>1. Covers(s, t)
      BY <1>b, <2>1, <2>5 DEF NewsOf
    <3>2. rx'[q] - Late(q)' \in Int /\ rx'[q] - Late(q)' <= t + 1
      BY <1>a, <2>2, <2>3
    <3>3. Covers(s, rx[q] - Late(q))'
      BY <1>8, <1>a, <1>b, <2>1, <3>1, <3>2, CoversTick DEF Covers, IInv
    <3> QED
      BY <2>1, <2>5, <3>3 DEF NewsOf
  <2> QED
    BY <2>4, <2>5
<1>9. CASE UNCHANGED vars
  BY <1>9, <1>a, <1>b, <1>d DEF vars, InTouch
<1> QED
  BY <1>1, <1>2, <1>3, <1>4, <1>5, <1>6, <1>7, <1>8, <1>9
     DEF Next, Network, Systems, Application

LEMMA IInvInductive ==
  ASSUME EveryoneBeats, News <= Idle
  PROVE  Spec => []IInv
<1>1. Init => IInv
  <2> SUFFICES ASSUME Init PROVE IInv
    OBVIOUS
  <2>1. TypeOK
    BY ConstantsTyped, TimeoutAssumption DEF TimeoutAssumption, Init, TypeOK, Peer
  <2>2. TxInv
    BY TimeoutAssumption DEF TimeoutAssumption, Init, TxInv, Peer
  <2>3. StartInv
    <3>1. rx["client"] = 0 /\ tx["client"] = 0 /\ lost["client"] = 0 /\ net["client"] = {}
      BY DEF Init, Peer
    <3>2. 0 * Gap \in Nat
      BY GapFacts
    <3> QED
      BY <3>1, <3>2 DEF Init, StartInv, Covers, Peer
  <2>4. NewsInv
    BY DEF Init, NewsInv, InTouch, Peer
  <2> QED
    BY <2>1, <2>2, <2>3, <2>4 DEF IInv
<1>2. IInv /\ [Next]_vars => IInv'
  BY NextTyped, TxInvHolds, StartInvHolds, NewsInvHolds DEF IInv
<1> QED
  BY <1>1, <1>2, PTL DEF Spec

(* If both peers send heartbeats and the idle timeout is at least News, no   *)
(* connection times out while the other peer has its own: MaxLost datagrams  *)
(* in a row may be lost, all may be late, and the systems may run whenever   *)
(* they are due.                                                             *)
THEOREM HeartbeatsKeepConnections ==
  ASSUME EveryoneBeats, News <= Idle
  PROVE  Spec => NoFalseTimeout
<1> DEFINE Step(p) == p \in open /\ p \notin open' /\ left' = {} =>
                        \/ Other(p) \notin open
                        \/ p = "client" /\ p \notin heard
<1>1. IInv /\ [Next]_vars => \A p \in Peer : Step(p)
  <2> SUFFICES ASSUME IInv, [Next]_vars, NEW p \in Peer,
                      p \in open, p \notin open', left' = {}
               PROVE  Other(p) \notin open \/ (p = "client" /\ p \notin heard)
    OBVIOUS
  \* Only heartbeats_and_timeouts closes without a call of disconnect.
  <2>1. ~ UNCHANGED open
    OBVIOUS
  <2>2. PICK q \in Peer : HeartbeatsAndTimeouts(q) \/ Disconnect(q)
    <3>1. ASSUME NEW n \in 0 .. Delay, Accept(n) PROVE FALSE
      BY <3>1 DEF Accept
    <3> QED
      BY <2>1, <3>1 DEF Next, Network, Systems, Application, Arrive, Vanish, ReceivePackets,
                        Send, Tick, vars
  <2>3. ~ Disconnect(q)
    BY DEF Disconnect
  <2>4. HeartbeatsAndTimeouts(q)
    BY <2>2, <2>3
  <2>5. q = p /\ left = {}
    BY <2>4 DEF HeartbeatsAndTimeouts, Close
  <2> QED
    BY <2>1, <2>4, <2>5, NobodyCloses
<1>2. IInv /\ [Next]_vars => [\A p \in Peer : Step(p)]_vars
  BY <1>1
<1>3. Spec => []IInv
  BY IInvInductive
<1> QED
  BY <1>2, <1>3, PTL DEF Spec, NoFalseTimeout

-----------------------------------------------------------------------------
(* The start of a connection *)

\* The client keeps its connection until somebody disconnects.
ClientInv == left = {} => "client" \in open

\* In the time before it has heard of the server, too, the client is not silent.
LEMMA ClientStays ==
  ASSUME EveryoneBeats, News + News <= Idle, IInv, ClientInv, [Next]_vars, left' = {}
  PROVE  open \subseteq open'
<1> USE DEF IInv, TypeOK
<1>a. News \in Nat /\ Idle \in Nat /\ News <= Idle
  BY ConstantsTyped, TimeoutAssumption DEF TimeoutAssumption
<1>1. CASE ~ \E p \in Peer : HeartbeatsAndTimeouts(p)
  BY <1>1 DEF Next, Network, Systems, Application, Arrive, Accept, Vanish, ReceivePackets,
              Send, Disconnect, Tick, vars
<1>2. ASSUME NEW p \in Peer, HeartbeatsAndTimeouts(p) PROVE open \subseteq open'
  <2>1. left = {} /\ "client" \in open /\ frame[p] = 0
    BY <1>2 DEF HeartbeatsAndTimeouts, ClientInv
  <2>2. CASE open = Peer
    <3>1. InTouch /\ Late(p) + News <= Idle
      BY <1>a, <2>1, <2>2 DEF InTouch, Late
    <3> QED
      BY <1>2, <2>1, <3>1, NotSilent DEF HeartbeatsAndTimeouts, Close
  <2>3. CASE open = {"client"}
    <3>1. rx["client"] \in Nat /\ Covers("client", rx["client"])
      BY <2>1, <2>3 DEF StartInv, Peer
    <3>2. rx["client"] <= News
      BY <2>1, <3>1, CoversBound
    <3>3. ~ Silent("client")
      BY <1>a, <3>1, <3>2 DEF Silent
    <3> QED
      BY <1>2, <2>3, <3>3 DEF HeartbeatsAndTimeouts, Close
  <2> QED
    BY <2>1, <2>2, <2>3 DEF Peer
<1> QED
  BY <1>1, <1>2

(* With twice News for the idle timeout nothing ends before somebody calls  *)
(* disconnect: the server takes at most News to hear of the client, and the *)
(* client at most as long again to hear of the server.                      *)
THEOREM ClientsLiveThroughStart ==
  ASSUME EveryoneBeats, News + News <= Idle
  PROVE  Spec => NoTimeoutAtStart
<1>1. News <= Idle
  BY ConstantsTyped, TimeoutAssumption DEF TimeoutAssumption
<1>2. Init => ClientInv
  BY DEF Init, ClientInv
<1>3. IInv /\ ClientInv /\ [Next]_vars => ClientInv'
  <2> SUFFICES ASSUME IInv, ClientInv, [Next]_vars, left' = {} PROVE "client" \in open'
    BY DEF ClientInv
  <2>1. left = {}
    BY DEF Next, Network, Systems, Application, Arrive, Accept, Vanish, ReceivePackets,
           HeartbeatsAndTimeouts, Send, Disconnect, Tick, vars
  <2> QED
    BY <2>1, ClientStays DEF ClientInv
<1>4. IInv /\ ClientInv /\ [Next]_vars => [left' = {} => open \subseteq open']_vars
  BY ClientStays
<1>5. Spec => []IInv
  BY <1>1, IInvInductive
<1> QED
  BY <1>2, <1>3, <1>4, <1>5, PTL DEF Spec, NoTimeoutAtStart
=============================================================================
