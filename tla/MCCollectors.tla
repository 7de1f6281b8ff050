---------------------------- MODULE MCCollectors ----------------------------
(* Instances of Collectors for TLC.  Values are model values, which differ *)
(* from every list of them.                                                *)
EXTENDS Collectors
=============================================================================
