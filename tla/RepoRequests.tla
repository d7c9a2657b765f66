---------------------------- MODULE RepoRequests ----------------------------
(***************************************************************************)
(* The write requests a repository of the PDS answers, and what each one   *)
(* does to the records it finds: createRecord, putRecord, deleteRecord,    *)
(* applyWrites and importRepo (packages/pds/src/api/com/atproto/repo) over *)
(* ActorStoreTransactor.repo.formatCommit.                                 *)
(*                                                                         *)
(* A record is its CID.  A batch writes each key once.                     *)
(***************************************************************************)
EXTENDS Integers

CONSTANTS Keys,     \* record paths
          Values,   \* records
          Links,    \* records of which createRecord keeps one (likes, follows)
          Gone,     \* no record
          NotGiven  \* swapRecord or swapCommit is not given

ASSUME RepoRequestsAssumption ==
  /\ Links \subseteq Values
  /\ Gone \notin Values
  /\ NotGiven \notin Values \cup {Gone}
  /\ NotGiven \notin Nat

Records == [Keys -> Values \cup {Gone}]

Write(action, k, v) == [action |-> action, key |-> k, value |-> v]

Creates == {Write("create", k, v) : k \in Keys, v \in Values}
Updates == {Write("update", k, v) : k \in Keys, v \in Values}
Deletes == {Write("delete", k, Gone) : k \in Keys}

AllWrites == [action : {"create", "update", "delete"}, key : Keys, value : Values \cup {Gone}]

Batches == {b \in (SUBSET (Creates \cup Updates \cup Deletes)) \ {{}} :
              \A x, y \in b : x.key = y.key => x = y}

Request(api, writes, swapRecord, swapCommit) ==
  [api |-> api, writes |-> writes, swapRecord |-> swapRecord, swapCommit |-> swapCommit]

Apis == {"createRecord", "putRecord", "deleteRecord", "applyWrites", "importRepo"}

AllRequests == [api : Apis,
                writes : (SUBSET AllWrites) \ {{}},
                swapRecord : Values \cup {Gone, NotGiven},
                swapCommit : Nat \cup {NotGiven}]

(* The requests a client makes that has read commit head with records:     *)
(* what it swaps, if anything, is what it has read.                        *)
Requests(head, records) ==
       {Request("createRecord", {x}, NotGiven, c) : x \in Creates, c \in {NotGiven, head}}
  \cup {Request("putRecord", {x}, NotGiven, c) : x \in Updates, c \in {NotGiven, head}}
  \cup {Request("putRecord", {x}, records[x.key], NotGiven) : x \in Updates}
  \cup {Request("deleteRecord", {x}, NotGiven, c) : x \in Deletes, c \in {NotGiven, head}}
  \cup {Request("deleteRecord", {x}, records[x.key], NotGiven) :
          x \in {y \in Deletes : records[y.key] # Gone}}
  \cup {Request("applyWrites", b, NotGiven, c) : b \in Batches, c \in {NotGiven, head}}

(* importRepo replaces the records: in writes is what it sets them to.     *)
Imports == {Request("importRepo", {x}, NotGiven, NotGiven) : x \in Creates \cup Deletes}

(* The only write of a request for one record.                             *)
The(req) == CHOOSE x \in req.writes : TRUE

----------------------------------------------------------------------------
(* getBacklinkConflicts: the records that link to what the new one does.   *)
Duplicates(x, records) == IF x.value \in Links THEN {k \in Keys : records[k] = x.value} ELSE {}

(* The writes a request amounts to: putRecord is an update if there is a   *)
(* record; createRecord deletes the duplicates first, one that is under    *)
(* the same key with them.                                                 *)
Prepared(req, records) ==
  LET x == The(req) IN
  CASE req.api = "putRecord" ->
         {[x EXCEPT !.action = IF records[x.key] = Gone THEN "create" ELSE "update"]}
    [] req.api = "createRecord" ->
         LET dups == Duplicates(x, records) IN
         {Write("delete", k, Gone) : k \in dups \ {x.key}}
           \cup {[x EXCEPT !.action = IF x.key \in dups THEN "update" ELSE "create"]}
    [] OTHER -> req.writes

(* Answered with success and without a commit, whatever it swaps.          *)
IsNoOp(req, records) ==
  \/ req.api = "putRecord" /\ records[The(req).key] = The(req).value
  \/ req.api = "deleteRecord" /\ records[The(req).key] = Gone

(* formatCommit finds what is to be swapped ...                            *)
SwapsHold(req, head, records) ==
  /\ req.swapCommit \in {NotGiven, head}
  /\ req.swapRecord \in {NotGiven, records[The(req).key]}

(* ... and the tree takes no record twice and loses none it has not.       *)
Possible(writes, records) ==
  \A x \in writes : (x.action = "create") <=> (records[x.key] = Gone)

Fits(req, head, records) ==
  \/ req.api = "importRepo"
  \/ /\ ~IsNoOp(req, records)
     /\ SwapsHold(req, head, records)
     /\ Possible(Prepared(req, records), records)

Applied(req, records) ==
  LET writes == Prepared(req, records) IN
  [k \in Keys |-> IF \E x \in writes : x.key = k
                  THEN (CHOOSE x \in writes : x.key = k).value
                  ELSE records[k]]
=============================================================================
