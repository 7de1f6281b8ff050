--------------------------- MODULE MCQueryStream ---------------------------
(* An instance of QueryStream for TLC: three entries, with the prefix of   *)
(* all or of the first only, and one call of svc.Query after another.      *)
EXTENDS QueryStream, TLC

AnyPrefix       == {Keys, {1}}
BothWays        == BOOLEAN
MayStartClosed  == BOOLEAN
=============================================================================
