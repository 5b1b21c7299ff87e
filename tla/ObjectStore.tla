----------------------------- MODULE ObjectStore -----------------------------
(* internal/store: the bbolt metadata database, as far as objects are        *)
(* concerned.  Every operation is one bbolt transaction, hence one atomic    *)
(* action; bbolt serialises writers and survives a crash.  Timestamps, names *)
(* and content types are left out: no decision in the modelled code reads    *)
(* them but the order of an eviction sweep, which ObjectService leaves open. *)
(*                                                                           *)
(* StoreCalls runs the operations under arbitrary callers; Gateway composes  *)
(* them as the worker and the object service call them.                      *)
EXTENDS Objects

VARIABLES
  objects,    \* bucket "objects": the metadata of each root
  shaIndex,   \* bucket "sha256": contents the dedup index knows
  qUpload,    \* bucket "q_upload"
  qFinalize,  \* bucket "q_finalize"
  rearmed     \* history: re-enqueued since they were last marked submitted

storeVars == <<objects, shaIndex, qUpload, qFinalize, rearmed>>

Status == {"pending", "submitted", "onchain", "finalized", "failed"}
FailReason == {"", "retries exhausted", "pruned"}
NoTx == 0   \* the empty transaction hash

(* A root without metadata has the status "absent". *)
ObjectMeta ==
  [status : Status \cup {"absent"}, txHash : Nat, failReason : FailReason,
   retries : Nat, skipTx : BOOLEAN]

Absent ==
  [status |-> "absent", txHash |-> NoTx, failReason |-> "",
   retries |-> 0, skipTx |-> FALSE]

Known(r) == objects[r].status # "absent"

StoreInit ==
  /\ objects = [r \in Roots |-> Absent]
  /\ shaIndex = {}
  /\ qUpload = {}
  /\ qFinalize = {}
  /\ rearmed = {}

(* Mutant: the finalize queue is not cleared. *)
requeueKeepsFinalize(r, status) ==
  /\ qUpload' = IF status \in {"pending", "submitted"}
                THEN qUpload \cup {r} ELSE qUpload \ {r}
  /\ qFinalize' = IF status = "onchain" THEN qFinalize \cup {r} ELSE qFinalize

(* Mutant: a submitted object is not queued, so a crash strands it. *)
requeuePendingOnly(r, status) ==
  /\ qUpload' = IF status = "pending" THEN qUpload \cup {r} ELSE qUpload \ {r}
  /\ qFinalize' = IF status = "onchain"
                  THEN qFinalize \cup {r} ELSE qFinalize \ {r}

(* Clear both queues of the root, then enter the one its status calls for. *)
requeue(r, status) ==
  /\ qUpload' = IF status \in {"pending", "submitted"}
                THEN qUpload \cup {r} ELSE qUpload \ {r}
  /\ qFinalize' = IF status = "onchain"
                  THEN qFinalize \cup {r} ELSE qFinalize \ {r}

(* Mutant: the caller's metadata arrives without a status. *)
CreateObjectNoStatus(r) ==
  /\ ~Known(r)
  /\ objects' = [objects EXCEPT ![r] = [Absent EXCEPT !.status = ""]]
  /\ shaIndex' = shaIndex \cup {r}
  /\ requeue(r, "")
  /\ UNCHANGED rearmed

(* Mutant: the dedup index is not written. *)
CreateObjectNoIndex(r) ==
  /\ ~Known(r)
  /\ objects' = [objects EXCEPT ![r] = [Absent EXCEPT !.status = "pending"]]
  /\ requeue(r, "pending")
  /\ UNCHANGED <<shaIndex, rearmed>>

(* A new object is pending.  For a root already present the transaction is   *)
(* rolled back and the caller gets ErrExists.                                *)
CreateObject(r) ==
  /\ ~Known(r)
  /\ objects' = [objects EXCEPT ![r] = [Absent EXCEPT !.status = "pending"]]
  /\ shaIndex' = shaIndex \cup {r}
  /\ requeue(r, "pending")
  /\ UNCHANGED rearmed

ErrExists(r) == Known(r) /\ UNCHANGED storeVars

(* The read-modify-write transaction behind every other operation: an        *)
(* unknown root is an error, and the queues follow the status.               *)
mutate(r, m) ==
  /\ Known(r)
  /\ objects' = [objects EXCEPT ![r] = m]
  /\ requeue(r, m.status)
  /\ UNCHANGED shaIndex

(* Mutant: the hash is written even when it is empty. *)
SetStatusAnyHash(r, st, tx, reason) ==
  /\ mutate(r, [objects[r] EXCEPT
                  !.status = st,
                  !.txHash = tx,
                  !.failReason = IF reason # "" THEN reason ELSE @])
  /\ rearmed' = IF st = "submitted" THEN rearmed \ {r} ELSE rearmed

(* An empty hash or reason leaves the recorded one alone. *)
SetStatus(r, st, tx, reason) ==
  /\ mutate(r, [objects[r] EXCEPT
                  !.status = st,
                  !.txHash = IF tx # NoTx THEN tx ELSE @,
                  !.failReason = IF reason # "" THEN reason ELSE @])
  /\ rearmed' = IF st = "submitted" THEN rearmed \ {r} ELSE rearmed

(* Mutant: the old failure reason stays. *)
ReenqueueKeepsReason(r) ==
  /\ mutate(r, [objects[r] EXCEPT !.status = "pending", !.retries = 0])
  /\ rearmed' = rearmed \cup {r}

Reenqueue(r) ==
  /\ mutate(r, [objects[r] EXCEPT !.status = "pending", !.retries = 0,
                                  !.failReason = ""])
  /\ rearmed' = rearmed \cup {r}

IncRetries(r) ==
  /\ mutate(r, [objects[r] EXCEPT !.retries = @ + 1])
  /\ UNCHANGED rearmed

SetSkipTx(r, v) ==
  /\ mutate(r, [objects[r] EXCEPT !.skipTx = v])
  /\ UNCHANGED rearmed

(* Mutant: the status filter is missing. *)
AllCacheEntries == {r \in Roots : Known(r)}

FinalizedCacheEntries == {r \in Roots : objects[r].status = "finalized"}

(* The dedup lookup: what the index and the metadata say of a content. *)
BySHA256(r) == IF r \in shaIndex THEN objects[r].status ELSE "absent"
-----------------------------------------------------------------------------
StoreTypeOK ==
  /\ objects \in [Roots -> ObjectMeta]
  /\ shaIndex \subseteq Roots
  /\ qUpload \subseteq Roots
  /\ qFinalize \subseteq Roots
  /\ rearmed \subseteq Roots

(* The two task queues say exactly what the statuses say, after any sequence *)
(* of transactions: no pending or submitted object is out of the upload      *)
(* queue (it would never be uploaded), no finished one is left in a queue    *)
(* (it would be uploaded again), and none is in both.                        *)
QueueSync ==
  /\ qUpload = {r \in Roots : objects[r].status \in {"pending", "submitted"}}
  /\ qFinalize = {r \in Roots : objects[r].status = "onchain"}

(* The dedup index and the metadata agree on which contents are known, so a  *)
(* repeated PUT is recognised exactly when the object exists.                *)
IndexSync == shaIndex = {r \in Roots : Known(r)}

(* A recorded transaction hash is never blanked: it may be replaced by the   *)
(* hash of a later submission, but an object that has one keeps one.         *)
HashKept ==
  [][\A r \in Roots :
       objects[r].txHash # NoTx => objects'[r].txHash # NoTx]_storeVars
=============================================================================
