------------------------------- MODULE MCNats -------------------------------
(* Instances of Nats for TLC.  Three connections: two that were replaced   *)
(* while they were lost, and the one in use.                               *)
EXTENDS Nats
=============================================================================
