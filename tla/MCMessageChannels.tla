-------------------------- MODULE MCMessageChannels --------------------------
(* Small instances of MessageChannels. *)
EXTENDS MessageChannels

Both == Peer
Nobody == {}
ClientOnly == {"client"}
ServerOnly == {"server"}
=============================================================================
