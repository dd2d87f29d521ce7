------------------------ MODULE BallsExample_proofs ------------------------
(* Theorems about BallsExample, for every value of its constants. *)
EXTENDS BallsExample, TLAPS

-----------------------------------------------------------------------------
(* Type correctness *)

LEMMA UpdatedTyped ==
  ASSUME NEW e \in Entity, NEW m \in GameStateMessage
  PROVE  /\ Updated(e, m) \in Entity
         /\ Updated(e, m).id = e.id
  BY BallsAssumption DEF Updated, Tells, Entity, GameStateMessage

LEMMA NextTyped == TypeOK /\ [Next]_vars => TypeOK'
<1> SUFFICES ASSUME TypeOK, [Next]_vars PROVE TypeOK'
  OBVIOUS
<1> USE BallsAssumption DEF BallsAssumption, TypeOK, serverVars
<1>1. ASSUME NEW b \in Ball, NEW s \in State, SpawnBall(b, s) \/ MoveBall(b, s) PROVE TypeOK'
  BY <1>1 DEF SpawnBall, MoveBall
<1>2. CASE Broadcast
  <2>1. frame \in 0 .. MaxFrame - 1 /\ frame' \in 0 .. MaxFrame
    BY <1>2 DEF Broadcast
  <2>2. sent' \subseteq GameStateMessage /\ sent \subseteq sent'
    BY <1>2, <2>1 DEF Broadcast, GameStateMessage
  <2>3. queue' \in Seq(sent') /\ received' \subseteq sent'
    BY <1>2, <2>2 DEF Broadcast
  <2> QED
    BY <1>2, <2>1, <2>2, <2>3 DEF Broadcast
<1>3. ASSUME NEW m \in sent, Deliver(m) PROVE TypeOK'
  BY <1>3 DEF Deliver
<1>4. CASE StartHandling
  BY <1>4 DEF StartHandling
<1>5. CASE Receive
  <2> DEFINE m == Head(queue)
  <2>1. m \in sent /\ m \in GameStateMessage /\ queue' \in Seq(sent)
    BY <1>5 DEF Receive
  <2>2. entities' \in Seq(Entity)
    <3>1. entities' = [i \in 1 .. Len(entities) |-> Updated(entities[i], m)]
      BY <1>5 DEF Receive
    <3>2. \A i \in 1 .. Len(entities) : Updated(entities[i], m) \in Entity
      BY <2>1, UpdatedTyped
    <3> QED
      BY <3>1, <3>2
  <2>3. to_spawn' \in [Ball -> Update \cup {NoBall}]
    <3> SUFFICES ASSUME NEW b \in Ball, Left(m, b)
                 PROVE  [frame |-> m.frame, state |-> m.balls[b]] \in Update
      BY <1>5 DEF Receive
    <3> QED
      BY <2>1 DEF Left, Tells, GameStateMessage, Update
  <2>4. received' \subseteq sent' /\ UNCHANGED <<balls, frame, sent, system>>
    BY <1>5, <2>1 DEF Receive
  <2> QED
    BY <2>1, <2>2, <2>3, <2>4
<1>6. CASE QueueIsEmpty
  BY <1>6 DEF QueueIsEmpty
<1>7. CASE FinishHandling
  BY <1>7 DEF FinishHandling
<1>8. ASSUME NEW b \in Ball, Spawn(b) PROVE TypeOK'
  <2>1. to_spawn[b] \in Update
    BY <1>8 DEF Spawn
  <2>2. [id |-> b, frame |-> to_spawn[b].frame, state |-> to_spawn[b].state] \in Entity
    BY <2>1 DEF Update, Entity
  <2> QED
    BY <1>8, <2>2 DEF Spawn
<1>9. CASE UNCHANGED vars
  BY <1>9 DEF vars
<1> QED
  BY <1>1, <1>2, <1>3, <1>4, <1>5, <1>6, <1>7, <1>8, <1>9 DEF Next

(* Everything the client has was broadcast once. *)
THEOREM TypeCorrect == Spec => []TypeOK
<1>1. Init => TypeOK
  BY BallsAssumption DEF BallsAssumption, Init, TypeOK
<1> QED
  BY <1>1, NextTyped, PTL DEF Spec

-----------------------------------------------------------------------------
(* One entity for each ball *)

(* Every step keeps entities and balls to be spawned apart. *)
LEMMA OneEntityKept ==
  ASSUME TypeOK, OneEntityPerBall, [Next]_vars
  PROVE  OneEntityPerBall'
<1>1. CASE UNCHANGED <<entities, to_spawn>>
  BY <1>1 DEF OneEntityPerBall, Has
<1>2. CASE Receive
  <2> DEFINE m == Head(queue)
  <2>1. m \in GameStateMessage
    BY <1>2 DEF Receive, TypeOK
  <2>2. /\ DOMAIN entities' = DOMAIN entities
        /\ \A i \in DOMAIN entities : entities'[i].id = entities[i].id
    BY <1>2, <2>1, UpdatedTyped DEF Receive, TypeOK
  <2>3. \A b \in Ball : Has(b)' <=> Has(b)
    BY <2>2 DEF Has
  <2>4. \A b \in Ball : to_spawn'[b] # NoBall => to_spawn[b] # NoBall \/ ~ Has(b)
    BY <1>2 DEF Receive, Left
  <2> QED
    BY <2>2, <2>3, <2>4 DEF OneEntityPerBall
<1>3. ASSUME NEW b \in Ball, Spawn(b) PROVE OneEntityPerBall'
  <2> DEFINE n == Len(entities) + 1
  <2>1. /\ n \in Nat /\ DOMAIN entities = 1 .. Len(entities) /\ DOMAIN entities' = 1 .. n
        /\ entities'[n].id = b
        /\ \A i \in DOMAIN entities : entities'[i] = entities[i]
    BY <1>3 DEF Spawn, TypeOK
  <2>2. ~ Has(b)
    BY <1>3 DEF Spawn, OneEntityPerBall
  <2>3. \A i, j \in DOMAIN entities' : entities'[i].id = entities'[j].id => i = j
    BY <2>1, <2>2 DEF OneEntityPerBall, Has
  <2>4. \A c \in Ball : to_spawn'[c] # NoBall => c # b /\ to_spawn[c] # NoBall
    BY <1>3 DEF Spawn, TypeOK
  <2>5. \A c \in Ball : c # b /\ ~ Has(c) => ~ Has(c)'
    BY <2>1 DEF Has
  <2> QED
    BY <2>3, <2>4, <2>5 DEF OneEntityPerBall
<1> QED
  BY <1>1, <1>2, <1>3
     DEF Next, vars, serverVars, SpawnBall, MoveBall, Broadcast, Deliver, StartHandling,
         QueueIsEmpty, FinishHandling

(* However state messages arrive, the client never has two entities for one  *)
(* ball of the server.                                                       *)
THEOREM BallsAreSpawnedOnce == Spec => []OneEntityPerBall
<1>1. Init => OneEntityPerBall
  BY DEF Init, OneEntityPerBall, Has
<1>2. TypeOK /\ OneEntityPerBall /\ [Next]_vars => OneEntityPerBall'
  BY OneEntityKept
<1> QED
  BY <1>1, <1>2, TypeCorrect, PTL DEF Spec

-----------------------------------------------------------------------------
(* The newest state *)

LEMMA FramesAreNumbers ==
  /\ \A m \in GameStateMessage : m.frame \in Int
  /\ \A e \in Entity : e.frame \in Int
  /\ \A u \in Update : u.frame \in Int
  BY BallsAssumption DEF BallsAssumption, GameStateMessage, Entity, Update

LEMMA ReceiveShowsNewest ==
  ASSUME TypeOK, OneEntityPerBall, ShowsNewest, Receive
  PROVE  ShowsNewest'
<1> DEFINE m == Head(queue)
           new == received \cup {m}
<1>1. /\ m \in sent /\ m \in GameStateMessage /\ received' = new
      /\ entities' = [i \in DOMAIN entities |-> Updated(entities[i], m)]
      /\ DOMAIN entities' = DOMAIN entities
  BY DEF Receive, TypeOK
<1>2. /\ m.frame \in Int /\ \A n \in received : n.frame \in Int
      /\ \A i \in DOMAIN entities : entities[i] \in Entity /\ entities[i].frame \in Int
      /\ \A b \in Ball : to_spawn[b] # NoBall => to_spawn[b].frame \in Int
  <2>1. m.frame \in Int /\ \A n \in received : n.frame \in Int
    BY <1>1, FramesAreNumbers DEF TypeOK
  <2>2. \A i \in DOMAIN entities : entities[i] \in Entity /\ entities[i].frame \in Int
    BY FramesAreNumbers DEF TypeOK
  <2>3. ASSUME NEW b \in Ball, to_spawn[b] # NoBall PROVE to_spawn[b].frame \in Int
    BY <2>3, FramesAreNumbers DEF TypeOK
  <2> QED
    BY <2>1, <2>2, <2>3
<1>3. \A i \in DOMAIN entities : entities'[i].id = entities[i].id /\ entities[i].id \in Ball
  BY <1>1, <1>2, UpdatedTyped DEF Entity
<1>4. \A b \in Ball : Has(b)' <=> Has(b)
  BY <1>1, <1>3 DEF Has
\* m is the newest word on b, if what was said before is no newer.
<1>5. ASSUME NEW b \in Ball, NEW u, Tells(m, b), u.frame = m.frame, u.state = m.balls[b],
             \A n \in received : Tells(n, b) => n.frame <= m.frame
      PROVE  Newest(new, b, u)
  BY <1>2, <1>5 DEF Newest
\* What the client knew stays the newest, if m is older or has no word on b.
<1>6. ASSUME NEW b \in Ball, NEW u, Newest(received, b, u), Tells(m, b) => m.frame <= u.frame
      PROVE  Newest(new, b, u)
  BY <1>6 DEF Newest
<1>7. ASSUME NEW i \in DOMAIN entities
      PROVE  Newest(new, entities'[i].id, entities'[i])
  <2> DEFINE e == entities[i]
  <2>1. /\ e.id \in Ball /\ e.frame \in Int /\ e \in Entity
        /\ Newest(received, e.id, e) /\ entities'[i] = Updated(e, m)
    BY <1>1, <1>2, <1>3, <1>7 DEF ShowsNewest
  <2> HIDE DEF e, m
  <2>2. CASE Tells(m, e.id) /\ e.frame <= m.frame
    <3>1. /\ entities'[i].id = e.id /\ entities'[i].frame = m.frame
          /\ entities'[i].state = m.balls[e.id]
      BY <2>1, <2>2 DEF Updated, Entity
    <3>2. \A n \in received : Tells(n, e.id) => n.frame <= m.frame
      BY <1>2, <2>1, <2>2 DEF Newest
    <3> QED
      BY <1>5, <2>1, <2>2, <3>1, <3>2
  <2>3. CASE ~ (Tells(m, e.id) /\ e.frame <= m.frame)
    <3>1. entities'[i] = e
      BY <2>1, <2>3 DEF Updated
    <3>2. Tells(m, e.id) => m.frame <= e.frame
      BY <1>2, <2>1, <2>3
    <3> QED
      BY <1>6, <2>1, <3>1, <3>2
  <2> QED
    BY <2>2, <2>3
<1>8. ASSUME NEW b \in Ball, to_spawn'[b] # NoBall
      PROVE  Newest(new, b, to_spawn'[b])
  <2> DEFINE replaces == Left(m, b) /\ (to_spawn[b] # NoBall => to_spawn[b].frame <= m.frame)
  <2>1. /\ replaces => to_spawn'[b] = [frame |-> m.frame, state |-> m.balls[b]]
        /\ ~ replaces => to_spawn'[b] = to_spawn[b]
    BY DEF Receive
  <2>2. CASE replaces
    <3>1. Tells(m, b) /\ ~ Has(b)
      BY <2>2 DEF Left
    <3>2. \A n \in received : Tells(n, b) => n.frame <= m.frame
      <4>1. CASE to_spawn[b] = NoBall
        BY <3>1, <4>1 DEF ShowsNewest
      <4>2. CASE to_spawn[b] # NoBall
        BY <1>2, <2>2, <4>2 DEF ShowsNewest, Newest
      <4> QED
        BY <4>1, <4>2
    <3> QED
      BY <1>5, <2>1, <2>2, <3>1, <3>2
  <2>3. CASE ~ replaces
    <3>1. to_spawn[b] # NoBall /\ Newest(received, b, to_spawn[b]) /\ to_spawn'[b] = to_spawn[b]
      BY <1>8, <2>1, <2>3 DEF ShowsNewest
    <3>2. ~ Has(b)
      BY <3>1 DEF OneEntityPerBall
    <3>3. Tells(m, b) => m.frame <= to_spawn[b].frame
      BY <1>2, <2>3, <3>1, <3>2 DEF Left
    <3> QED
      BY <1>6, <3>1, <3>3
  <2> QED
    BY <2>2, <2>3
<1>9. ASSUME NEW n \in new, NEW b \in Ball, Tells(n, b)
      PROVE  Has(b)' \/ to_spawn'[b] # NoBall
  <2>1. CASE n \in received
    <3>1. Has(b) \/ to_spawn[b] # NoBall
      BY <1>9, <2>1 DEF ShowsNewest
    <3>2. to_spawn[b] # NoBall => to_spawn'[b] # NoBall
      BY <1>1, BallsAssumption DEF BallsAssumption, Receive, Left, Tells, GameStateMessage
    <3> QED
      BY <1>4, <3>1, <3>2
  <2>2. CASE n = m
    <3>1. CASE Has(b)
      BY <1>4, <3>1
    <3>2. CASE ~ Has(b)
      <4>1. Left(m, b)
        BY <1>9, <2>2, <3>2 DEF Left
      <4>2. to_spawn'[b] \in {[frame |-> m.frame, state |-> m.balls[b]], to_spawn[b]}
            /\ (to_spawn[b] = NoBall => to_spawn'[b] # to_spawn[b])
        BY <1>1, <4>1, BallsAssumption DEF BallsAssumption, Receive, Left, Tells, GameStateMessage
      <4> QED
        BY <1>1, <4>1, <4>2, BallsAssumption
           DEF BallsAssumption, Left, Tells, GameStateMessage
    <3> QED
      BY <3>1, <3>2
  <2> QED
    BY <2>1, <2>2
<1> QED
  BY <1>1, <1>7, <1>8, <1>9 DEF ShowsNewest, Tells

LEMMA SpawnShowsNewest ==
  ASSUME TypeOK, ShowsNewest, NEW b \in Ball, Spawn(b)
  PROVE  ShowsNewest'
<1> DEFINE n == Len(entities) + 1
           e == [id |-> b, frame |-> to_spawn[b].frame, state |-> to_spawn[b].state]
<1>1. /\ n \in Nat /\ DOMAIN entities = 1 .. Len(entities) /\ DOMAIN entities' = 1 .. n
      /\ entities'[n] = e
      /\ \A i \in DOMAIN entities : entities'[i] = entities[i]
      /\ received' = received
  BY DEF Spawn, TypeOK
<1>2. \A c \in Ball : to_spawn'[c] = IF c = b THEN NoBall ELSE to_spawn[c]
  BY DEF Spawn, TypeOK
<1>3. Has(b)' /\ \A c \in Ball : Has(c) => Has(c)'
  BY <1>1 DEF Has
<1>4. ASSUME NEW i \in DOMAIN entities' PROVE Newest(received, entities'[i].id, entities'[i])
  <2>1. CASE i = n
    <3>1. Newest(received, b, to_spawn[b])
      BY DEF Spawn, ShowsNewest
    <3>2. Newest(received, b, e)
      BY <3>1 DEF Newest
    <3> QED
      BY <1>1, <2>1, <3>2
  <2>2. CASE i \in DOMAIN entities
    BY <1>1, <2>2 DEF ShowsNewest
  <2> QED
    BY <1>1, <1>4, <2>1, <2>2
<1>5. \A c \in Ball : to_spawn'[c] # NoBall => Newest(received, c, to_spawn'[c])
  BY <1>2 DEF ShowsNewest
<1>6. ASSUME NEW m \in received, NEW c \in Ball, Tells(m, c)
      PROVE  Has(c)' \/ to_spawn'[c] # NoBall
  BY <1>2, <1>3, <1>6 DEF ShowsNewest
<1> QED
  BY <1>1, <1>4, <1>5, <1>6 DEF ShowsNewest, Tells

(* However state messages arrive, late, twice or together, what the client   *)
(* has of a ball is the newest that any of them said.                        *)
THEOREM NewestStateIsShown == Spec => []ShowsNewest
<1>1. Init => ShowsNewest
  BY DEF Init, ShowsNewest
<1>2. TypeOK /\ OneEntityPerBall /\ ShowsNewest /\ [Next]_vars => ShowsNewest'
  <2> SUFFICES ASSUME TypeOK, OneEntityPerBall, ShowsNewest, [Next]_vars
               PROVE  ShowsNewest'
    OBVIOUS
  <2>1. CASE UNCHANGED <<entities, to_spawn, received>>
    BY <2>1 DEF ShowsNewest, Newest, Has, Tells
  <2>2. CASE Receive
    BY <2>2, ReceiveShowsNewest
  <2>3. ASSUME NEW b \in Ball, Spawn(b) PROVE ShowsNewest'
    BY <2>3, SpawnShowsNewest
  <2> QED
    BY <2>1, <2>2, <2>3
       DEF Next, vars, serverVars, SpawnBall, MoveBall, Broadcast, Deliver, StartHandling,
           QueueIsEmpty, FinishHandling
<1> QED
  BY <1>1, <1>2, TypeCorrect, BallsAreSpawnedOnce, PTL DEF Spec
=============================================================================
