---------------------------- MODULE BallsExample ----------------------------
(***************************************************************************)
(* The game state of examples/channels.rs: a server that broadcasts all    *)
(* its balls every frame over an unreliable channel, and a client that     *)
(* keeps one entity for each ball it has heard of.                         *)
(*                                                                         *)
(* The velocity and the position of a ball are one State.  Clients are     *)
(* independent of each other, so there is one; the other players are the   *)
(* balls.  turbulence's tasks fill the client's message queue while        *)
(* handle_messages_client empties it, so the system takes a step for each  *)
(* message it receives.  Its commands are applied before it runs again,    *)
(* and nothing else looks at the entities, so a spawn is one step too.     *)
(***************************************************************************)
EXTENDS Integers, Sequences

CONSTANTS
  Ball,       \* ids of the server's ball entities, one for each client
  State,      \* velocities and positions
  NoBall,     \* what stands for a ball that is not there
  MaxFrame,   \* bound: the last value of the frame counter, 2^32 - 1 in the code
  QueueSize   \* bound: state messages waiting, message_buffer_size in the code

ASSUME BallsAssumption ==
  /\ NoBall \notin State
  /\ NoBall \notin [frame : Nat, state : State]
  /\ MaxFrame \in Nat
  /\ QueueSize \in Nat

VARIABLES
  \* server
  balls,     \* the balls in the game
  frame,     \* NetworkBroadcast.frame
  sent,      \* the GameStateMessages broadcast so far
  \* client
  queue,     \* messages that channels.recv has not returned yet
  entities,  \* what server_ids and the components say of each entity
  to_spawn,  \* balls to spawn when the queue is empty
  system,    \* what handle_messages_client is doing
  \* observed from outside
  received   \* the messages recv has returned

serverVars == <<balls, frame, sent>>
vars == <<serverVars, queue, entities, to_spawn, system, received>>

GameStateMessage == [frame : 0 .. MaxFrame, balls : [Ball -> State \cup {NoBall}]]
Update == [frame : 0 .. MaxFrame, state : State]
Entity == [id : Ball, frame : 0 .. MaxFrame, state : State]

-----------------------------------------------------------------------------
(* Server *)

\* handle_packets: a ball for a new client.
SpawnBall(b, s) ==
  /\ balls[b] = NoBall
  /\ balls' = [balls EXCEPT ![b] = s]
  /\ UNCHANGED <<frame, sent, queue, entities, to_spawn, system, received>>

\* ball_movement_system moves it, handle_messages_server turns it.
MoveBall(b, s) ==
  /\ balls[b] # NoBall
  /\ balls' = [balls EXCEPT ![b] = s]
  /\ UNCHANGED <<frame, sent, queue, entities, to_spawn, system, received>>

\* network_broadcast_system
Broadcast ==
  /\ frame < MaxFrame
  /\ sent' = sent \cup {[frame |-> frame, balls |-> balls]}
  /\ frame' = frame + 1
  /\ UNCHANGED <<balls, queue, entities, to_spawn, system, received>>

-----------------------------------------------------------------------------
(* The network, and turbulence's unreliable channel on it *)

\* A message arrives once, or more often, or never, and in any order.
Deliver(m) ==
  /\ Len(queue) < QueueSize
  /\ queue' = Append(queue, m)
  /\ UNCHANGED <<serverVars, entities, to_spawn, system, received>>

-----------------------------------------------------------------------------
(* Client: handle_messages_client *)

StartHandling ==
  /\ system = "idle"
  /\ system' = "receive"
  /\ UNCHANGED <<serverVars, queue, entities, to_spawn, received>>

Tells(m, b) == m.balls[b] # NoBall

Has(b) == \E i \in DOMAIN entities : entities[i].id = b

\* Slip: every message is newer than what the entity shows.
UpdatedInOrder(e, m) ==
  IF Tells(m, e.id)
  THEN [e EXCEPT !.frame = m.frame, !.state = m.balls[e.id]]
  ELSE e

\* An older message tells nothing new.
Updated(e, m) ==
  IF Tells(m, e.id) /\ e.frame <= m.frame
  THEN [e EXCEPT !.frame = m.frame, !.state = m.balls[e.id]]
  ELSE e

\* Slip: a ball without an entity is spawned, told of or not.
LeftUntold(m, b) == ~ Has(b)

\* Slip: an update that is too old stays in the message.
LeftInOlder(m, b) ==
  Tells(m, b) /\ \A i \in DOMAIN entities : entities[i].id = b => entities[i].frame > m.frame

\* Updates are removed from the message, applied or not.
Left(m, b) == Tells(m, b) /\ ~ Has(b)

Receive ==
  LET m == Head(queue)
  IN  /\ system = "receive"
      /\ queue # <<>>
      /\ queue' = Tail(queue)
      /\ received' = received \cup {m}
      /\ entities' = [i \in DOMAIN entities |-> Updated(entities[i], m)]
      /\ to_spawn' = [b \in Ball |->
           IF Left(m, b) /\ (to_spawn[b] # NoBall => to_spawn[b].frame <= m.frame)
           THEN [frame |-> m.frame, state |-> m.balls[b]]
           ELSE to_spawn[b]]
      /\ UNCHANGED <<serverVars, system>>

QueueIsEmpty ==
  /\ system = "receive"
  /\ queue = <<>>
  /\ system' = "spawn"
  /\ UNCHANGED <<serverVars, queue, entities, to_spawn, received>>

Spawn(b) ==
  /\ system = "spawn"
  /\ to_spawn[b] # NoBall
  /\ entities' = Append(entities,
       [id |-> b, frame |-> to_spawn[b].frame, state |-> to_spawn[b].state])
  /\ to_spawn' = [to_spawn EXCEPT ![b] = NoBall]
  /\ UNCHANGED <<serverVars, queue, system, received>>

FinishHandling ==
  /\ system = "spawn"
  /\ \A b \in Ball : to_spawn[b] = NoBall
  /\ system' = "idle"
  /\ UNCHANGED <<serverVars, queue, entities, to_spawn, received>>

-----------------------------------------------------------------------------

Init ==
  /\ balls = [b \in Ball |-> NoBall]
  /\ frame = 0
  /\ sent = {}
  /\ queue = <<>>
  /\ entities = <<>>
  /\ to_spawn = [b \in Ball |-> NoBall]
  /\ system = "idle"
  /\ received = {}

Next ==
  \/ \E b \in Ball, s \in State : SpawnBall(b, s) \/ MoveBall(b, s)
  \/ Broadcast
  \/ \E m \in sent : Deliver(m)
  \/ StartHandling \/ Receive \/ QueueIsEmpty \/ FinishHandling
  \/ \E b \in Ball : Spawn(b)

Spec == Init /\ [][Next]_vars

-----------------------------------------------------------------------------
(* Properties *)

TypeOK ==
  /\ balls \in [Ball -> State \cup {NoBall}]
  /\ frame \in 0 .. MaxFrame
  /\ sent \subseteq GameStateMessage
  /\ queue \in Seq(sent)
  /\ entities \in Seq(Entity)
  /\ to_spawn \in [Ball -> Update \cup {NoBall}]
  /\ system \in {"idle", "receive", "spawn"}
  /\ received \subseteq sent

(***************************************************************************)
(* "It is possible that many state updates came at the same time - spawn   *)
(* once": two entities are never the same ball, and a ball to be spawned   *)
(* has no entity, whatever messages come late, twice or together.          *)
(***************************************************************************)
OneEntityPerBall ==
  /\ \A i, j \in DOMAIN entities : entities[i].id = entities[j].id => i = j
  /\ \A b \in Ball : to_spawn[b] # NoBall => ~ Has(b)

\* Some of the messages says u of ball b, and none is newer.
Newest(messages, b, u) ==
  /\ \E m \in messages : Tells(m, b) /\ m.frame = u.frame /\ m.balls[b] = u.state
  /\ \A m \in messages : Tells(m, b) => m.frame <= u.frame

(***************************************************************************)
(* The client knows every ball it has been told of, and of each the newest *)
(* state it has been told, in its entity or in to_spawn.                   *)
(***************************************************************************)
ShowsNewest ==
  /\ \A m \in received, b \in Ball : Tells(m, b) => Has(b) \/ to_spawn[b] # NoBall
  /\ \A i \in DOMAIN entities : Newest(received, entities[i].id, entities[i])
  /\ \A b \in Ball : to_spawn[b] # NoBall => Newest(received, b, to_spawn[b])
=============================================================================
