---------------------------- MODULE MCIdleTimeout ----------------------------
(* Small instances of IdleTimeout: a unit of time is a timestep of            *)
(* heartbeats_and_timeouts.                                                   *)
EXTENDS IdleTimeout

Both == Peer
Nobody == {}
ClientOnly == {"client"}
ServerOnly == {"server"}
=============================================================================
