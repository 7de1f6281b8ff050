----------------------------- MODULE MCRemote -----------------------------
(* Instances of Remote for TLC: RemoteActor only asks for the whole        *)
(* collection forward (remote-actor.go:176).                               *)
EXTENDS Remote, TLC

WholeCollection   == {Keys}
OnlyForward       == {FALSE}
AlreadyServing    == {TRUE}
MayStartClosed    == BOOLEAN

InterchangeableQueries == Permutations(Queries)
=============================================================================
