-------------------------- MODULE MCNitworkThreads --------------------------
(* Instance of NitworkThreads for TLC: the bounds are in the configuration. *)
EXTENDS NitworkThreads
=============================================================================
