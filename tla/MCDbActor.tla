----------------------------- MODULE MCDbActor -----------------------------
(* Instances of DbActor for TLC: two requests, which are told apart, for   *)
(* liveness is checked of them.                                            *)
EXTENDS DbActor
=============================================================================
