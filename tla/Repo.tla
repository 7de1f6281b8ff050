-------------------------------- MODULE Repo --------------------------------
(***************************************************************************)
(* The transactions of internal/database/repo.go on one collection, as     *)
(* functions from its contents to the new contents and the answer the      *)
(* actor sends.  Entries are told apart by their ids only; an id is never  *)
(* empty.                                                                  *)
(***************************************************************************)
CONSTANT Keys       \* ids of entries

\* a collection: whether its bucket exists, and the ids in it
Contents == [bucket : {FALSE}, ids : {{}}] \cup [bucket : {TRUE}, ids : SUBSET Keys]

DataOps == {"MsgInsertData", "MsgUpdateData", "MsgDeleteData", "MsgGetData",
            "MsgSearchCollection"}
Ops     == DataOps \cup {"MsgOpenDB", "MsgCloseDB"}
Calls   == [op : Ops, key : Keys]

\* what a request that is not sent yet asks
NoCall == [op |-> "none", key |-> "none"]

Answers == {"none", "expired", "error", "opened", "ok", "data", "nodata", "listed", "unlisted"}

\* PersistData(id, update): an insert refuses an id that is there
PersistData(c, k, update) ==
  IF ~update /\ k \in c.ids THEN [contents |-> c, answer |-> "error"]
  ELSE [contents |-> [bucket |-> TRUE, ids |-> c.ids \cup {k}], answer |-> "ok"]

\* RemoveData: an error without a bucket, no error without the id
RemoveData(c, k) ==
  IF ~c.bucket THEN [contents |-> c, answer |-> "error"]
  ELSE [contents |-> [c EXCEPT !.ids = @ \ {k}], answer |-> "ok"]

\* GetData: neither a missing bucket nor a missing id is an error
GetData(c, k) ==
  [contents |-> c, answer |-> IF k \in c.ids THEN "data" ELSE "nodata"]

\* SearchCollections: a bucket that was emptied is still listed; a missing
\* database is an empty list.  The prefix is one of the collection's name
SearchCollections(c) ==
  [contents |-> c, answer |-> IF c.bucket THEN "listed" ELSE "unlisted"]

Transaction(c, r) ==
  CASE r.op = "MsgInsertData" -> PersistData(c, r.key, FALSE)
    [] r.op = "MsgUpdateData" -> PersistData(c, r.key, TRUE)
    [] r.op = "MsgDeleteData" -> RemoveData(c, r.key)
    [] r.op = "MsgSearchCollection" -> SearchCollections(c)
    [] OTHER                  -> GetData(c, r.key)
=============================================================================
