------------------------------ MODULE MCPubsub ------------------------------
(* Instances of Pubsub for TLC: both collectors, and a client more than    *)
(* there are faults, so that each connect may be given up but one.         *)
EXTENDS Pubsub
=============================================================================
