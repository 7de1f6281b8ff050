------------------------------ MODULE Keycloak ------------------------------
(***************************************************************************)
(* The token actor of internal/keyc and those who ask it: App              *)
(* (internal/app), which hands out its address and forwards to it the group*)
(* id request of StatusActor (internal/state), and the remote actor of     *)
(* internal/remote-natsio, which is in Nats.                               *)
(*                                                                         *)
(* Each of them blocks in its handler on a future: 3 s for StatusActor and *)
(* App, 6 s for the remote, while the token actor may be 30 s in an HTTP   *)
(* call.  A future that expired leaves its request where it is; the answer *)
(* then finds nobody.  The identity server is external: it reads a         *)
(* configuration, logs a device in, refreshes a token and tells the user   *)
(* info, or fails.                                                         *)
(***************************************************************************)
EXTENDS Naturals, Sequences, SequencesExt

CONSTANTS
  Nil,            \* no request, no token, no group
  MaxFaults       \* bound on server failures and on futures that expire too early

VARIABLES
  abox,           \* mailbox of App
  forward,        \* the asker App waits for the token actor on behalf of
  kbox,           \* mailbox of the token actor
  serving,        \* the request it works on
  keyc,           \* its field keyc: the server's configuration was read
  tokenSource,    \* its field tokenSource is not nil
  future,         \* what the future of each caller holds
  groupID,        \* of StatusActor
  faults

keycloakVars == <<abox, forward, kbox, serving, keyc, tokenSource, future, groupID, faults>>

ASSUME MaxFaultsAssumption == MaxFaults \in Nat

Callers == {"StatusActor", "App", "Remote"}
Nobody  == "Nobody"                       \* a future that expired

\* an answer is a pid, the token or the nil token, or a GroupIDResponse
Held == {"none", "waiting", "address", "token", "nilToken", "group"}

Letter(t, c) == [t |-> t, from |-> c]
AppLetters   == [t : {"GroupIDRequest"}, from : {"StatusActor", Nobody}]
                  \cup [t : {"KeycloakAddressRequest"}, from : {"Remote", Nobody}]
KeycLetters  == [t : {"GroupIDRequest"}, from : {"App", Nobody}]
                  \cup [t : {"TokenRequest"}, from : {"Remote", Nobody}]

(* Type invariant (keyc-actor.go:15-23): a token source has a server.      *)
KeycloakTypeOK ==
  /\ abox \in Seq(AppLetters) /\ forward \in {"StatusActor", Nobody, Nil}
  /\ kbox \in Seq(KeycLetters) /\ serving \in KeycLetters \cup {Nil}
  /\ keyc \in BOOLEAN /\ tokenSource \in BOOLEAN /\ (tokenSource => keyc)
  /\ future \in [Callers -> Held]
  /\ groupID \in {"group", Nil}
  /\ faults \in 0 .. MaxFaults

\* new objects, empty mailboxes
KeycloakFresh ==
  /\ abox = <<>> /\ forward = Nil
  /\ kbox = <<>> /\ serving = Nil
  /\ keyc = FALSE /\ tokenSource = FALSE
  /\ future = [c \in Callers |-> "none"]
  /\ groupID = Nil

KeycloakInit == KeycloakFresh /\ faults = 0

-----------------------------------------------------------------------------
(* Futures.                                                                *)

Fault == faults < MaxFaults /\ faults' = faults + 1

\* ctx.Send to the future of c, which may have expired
Answered(c, v) ==
  future' = IF c \in Callers THEN [future EXCEPT ![c] = IF @ = "waiting" THEN v ELSE @] ELSE future

Disown(s, c) == [i \in DOMAIN s |-> IF s[i].from = c THEN [s[i] EXCEPT !.from = Nobody] ELSE s[i]]

\* somebody still has the request of c
Pending(c) ==
  \/ \E l \in ToSet(abox) \cup ToSet(kbox) : l.from = c
  \/ serving # Nil /\ serving.from = c
  \/ forward = c

\* c stops waiting, because nobody will answer or because the answer is late
Expires(c) ==
  /\ future[c] = "waiting"
  /\ IF Pending(c) THEN Fault ELSE UNCHANGED faults
  /\ future' = [future EXCEPT ![c] = "none"]
  /\ abox' = Disown(abox, c)
  /\ kbox' = Disown(kbox, c)
  /\ serving' = IF serving # Nil /\ serving.from = c THEN [serving EXCEPT !.from = Nobody] ELSE serving

-----------------------------------------------------------------------------
(* StatusActor: a status arrives while the group id is not known.          *)

AskGroup ==
  /\ groupID = Nil /\ future["StatusActor"] = "none"
  /\ abox' = Append(abox, Letter("GroupIDRequest", "StatusActor"))
  /\ future' = [future EXCEPT !["StatusActor"] = "waiting"]
  /\ UNCHANGED <<forward, kbox, serving, keyc, tokenSource, groupID, faults>>

GroupAnswered ==
  /\ future["StatusActor"] = "group"
  /\ groupID' = "group"
  /\ future' = [future EXCEPT !["StatusActor"] = "none"]
  /\ UNCHANGED <<abox, forward, kbox, serving, keyc, tokenSource, faults>>

\* mutant: StatusActor waits for as long as App takes
GroupExpiresNever ==
  /\ FALSE
  /\ UNCHANGED <<abox, forward, kbox, serving, keyc, tokenSource, future, groupID, faults>>

\* the status goes on without the group
GroupExpires ==
  /\ Expires("StatusActor")
  /\ forward' = IF forward = "StatusActor" THEN Nobody ELSE forward
  /\ UNCHANGED <<keyc, tokenSource, groupID>>

-----------------------------------------------------------------------------
(* App.                                                                    *)

AppTakes(t) == forward = Nil /\ abox # <<>> /\ Head(abox).t = t

AppAddress ==
  /\ AppTakes("KeycloakAddressRequest")
  /\ Answered(Head(abox).from, "address")
  /\ abox' = Tail(abox)
  /\ UNCHANGED <<forward, kbox, serving, keyc, tokenSource, groupID, faults>>

AppForwards ==
  /\ AppTakes("GroupIDRequest")
  /\ forward' = Head(abox).from
  /\ abox' = Tail(abox)
  /\ kbox' = Append(kbox, Letter("GroupIDRequest", "App"))
  /\ future' = [future EXCEPT !["App"] = "waiting"]
  /\ UNCHANGED <<serving, keyc, tokenSource, groupID, faults>>

AppAnswers ==
  /\ future["App"] = "group"
  /\ future' = [future EXCEPT !["App"] = "none",
                              !["StatusActor"] = IF forward = "StatusActor" /\ @ = "waiting"
                                                 THEN "group" ELSE @]
  /\ forward' = Nil
  /\ UNCHANGED <<abox, kbox, serving, keyc, tokenSource, groupID, faults>>

\* mutant: App waits for as long as the token actor takes
AppGivesUpNever ==
  /\ FALSE
  /\ UNCHANGED <<abox, forward, kbox, serving, keyc, tokenSource, future, groupID, faults>>

\* the asker gets no answer
AppGivesUp ==
  /\ Expires("App")
  /\ forward' = Nil
  /\ UNCHANGED <<keyc, tokenSource, groupID>>

-----------------------------------------------------------------------------
(* The token actor.  The field httpContext is made anew for every request, *)
(* because another one, httContext, is looked at.                          *)

KeycTakes ==
  /\ serving = Nil /\ kbox # <<>>
  /\ serving' = Head(kbox)
  /\ kbox' = Tail(kbox)
  /\ UNCHANGED <<abox, forward, keyc, tokenSource, future, groupID, faults>>

\* the server's configuration is read once, if it can be
KeycServer(ok) == keyc' = (keyc \/ ok)

\* what a login leaves, nil when it failed
TokenSorce(ok) == tokenSource' = ok

Serves(t) == serving # Nil /\ serving.t = t /\ serving' = Nil

\* the source has a token, or refreshes it
TokenFromSource ==
  /\ Serves("TokenRequest")
  /\ tokenSource
  /\ Answered(serving.from, "token")
  /\ UNCHANGED <<abox, forward, kbox, keyc, tokenSource, groupID, faults>>

\* there is no source, or it refuses: a login makes one, and the answer is the
\* token that Token() did not give, which is nil
TokenFromLogin ==
  /\ Serves("TokenRequest")
  /\ IF tokenSource THEN Fault ELSE UNCHANGED faults
  /\ KeycServer(TRUE) /\ TokenSorce(TRUE)
  /\ Answered(serving.from, "nilToken")
  /\ UNCHANGED <<abox, forward, kbox, groupID>>

\* neither configuration nor login: no answer, the source stays
TokenFails ==
  /\ Serves("TokenRequest")
  /\ Fault
  /\ \E ok \in BOOLEAN : KeycServer(ok)
  /\ UNCHANGED <<abox, forward, kbox, tokenSource, future, groupID>>

GroupFromServer ==
  /\ Serves("GroupIDRequest")
  /\ KeycServer(TRUE) /\ TokenSorce(TRUE)
  /\ Answered(serving.from, "group")
  /\ UNCHANGED <<abox, forward, kbox, groupID, faults>>

\* no answer; a login that failed overwrites the source with nil, a user info
\* that failed or has no group leaves the new one
GroupFails ==
  /\ Serves("GroupIDRequest")
  /\ Fault
  /\ \E ok \in BOOLEAN : KeycServer(ok)
  /\ IF keyc' THEN \E ok \in BOOLEAN : TokenSorce(ok) ELSE UNCHANGED tokenSource
  /\ UNCHANGED <<abox, forward, kbox, future, groupID>>

StatusStep == AskGroup \/ GroupAnswered \/ GroupExpires
AppStep    == AppAddress \/ AppForwards \/ AppAnswers \/ AppGivesUp
KeycStep   == KeycTakes \/ TokenFromSource \/ TokenFromLogin \/ TokenFails
                \/ GroupFromServer \/ GroupFails

KeycloakNext == StatusStep \/ AppStep \/ KeycStep
=============================================================================
