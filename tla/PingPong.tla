------------------------------ MODULE PingPong ------------------------------
(***************************************************************************)
(* What the client of examples/message_coalescing.rs may expect of the     *)
(* messages it sends: each ping is answered at most once and by its own    *)
(* pong, and one that is lost, on its way there or back, stays lost.       *)
(***************************************************************************)
EXTENDS Integers

CONSTANT NumPings

VARIABLE state  \* of each ping

vars == state

Pings == 1 .. NumPings

Becomes(n, s) == state' = [state EXCEPT ![n] = s]

\* In the order of their numbers; to nobody, or for a queue that is full, it is
\* lost at once.
Send(n) ==
  /\ state[n] = "unsent"
  /\ \A k \in 1 .. n - 1 : state[k] # "unsent"
  /\ Becomes(n, "asked") \/ Becomes(n, "lost")

Answer(n) == state[n] = "asked" /\ Becomes(n, "answered")

See(n) == state[n] = "answered" /\ Becomes(n, "seen")

\* What one packet or one connection held is lost together.
Lose ==
  \E S \in SUBSET {n \in Pings : state[n] \in {"asked", "answered"}} :
    state' = [n \in Pings |-> IF n \in S THEN "lost" ELSE state[n]]

Init == state = [n \in Pings |-> "unsent"]

Next ==
  \/ \E n \in Pings : Send(n) \/ Answer(n) \/ See(n)
  \/ Lose

Spec == Init /\ [][Next]_vars
=============================================================================
