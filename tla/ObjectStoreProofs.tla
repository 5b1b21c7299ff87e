-------------------------- MODULE ObjectStoreProofs --------------------------
(* What each transaction of the metadata store preserves, one lemma per      *)
(* operation, for the theorems about the modules that call them; and that    *)
(* the store keeps its buckets consistent under any callers.                 *)
EXTENDS StoreCalls, TLAPS

(* A root without an object has no metadata at all. *)
AbsentBlank == \A r \in Roots : Known(r) \/ objects[r] = Absent

(* The facts every transaction keeps: types, the queues in step with the     *)
(* statuses, the dedup index in step with the metadata.                      *)
StoreInv == StoreTypeOK /\ QueueSync /\ IndexSync /\ AbsentBlank

(* An open of an empty database establishes them. *)
LEMMA StoreInitInv == StoreInit => StoreInv
<1> SUFFICES ASSUME StoreInit PROVE StoreInv
  OBVIOUS
<1>1. Absent \in ObjectMeta /\ Absent.status = "absent"
  BY DEF Absent, ObjectMeta, FailReason, NoTx
<1>2. \A r \in Roots : objects[r] = Absent
  BY DEF StoreInit
<1>3. StoreTypeOK
  BY <1>1 DEF StoreInit, StoreTypeOK
<1>4. QueueSync /\ IndexSync /\ AbsentBlank
  BY <1>1, <1>2 DEF StoreInit, QueueSync, IndexSync, AbsentBlank, Known
<1> QED  BY <1>3, <1>4 DEF StoreInv

(* A transaction that touches no bucket keeps them. *)
LEMMA StoreStutterInv ==
  ASSUME StoreInv, UNCHANGED storeVars
  PROVE  StoreInv'
  BY DEF StoreInv, StoreTypeOK, QueueSync, IndexSync, AbsentBlank, Known,
         storeVars

(* CreateObject enters the new root in objects, sha256 and q_upload alike. *)
LEMMA CreateObjectInv ==
  ASSUME StoreInv, NEW r \in Roots, CreateObject(r)
  PROVE  StoreInv'
<1>1. StoreTypeOK'
  BY DEF StoreInv, StoreTypeOK, CreateObject, requeue, Absent, ObjectMeta,
         Status, FailReason, NoTx
<1>2. QueueSync'
  BY DEF StoreInv, StoreTypeOK, QueueSync, CreateObject, requeue, Absent
<1>3. IndexSync' /\ AbsentBlank'
  BY DEF StoreInv, StoreTypeOK, IndexSync, AbsentBlank, Known, CreateObject,
         Absent
<1> QED  BY <1>1, <1>2, <1>3 DEF StoreInv

(* mutate with any well-formed metadata of a present object keeps the queues *)
(* in step with the status it writes.                                        *)
LEMMA MutateInv ==
  ASSUME StoreInv, NEW r \in Roots, NEW m \in ObjectMeta, m.status # "absent",
         mutate(r, m), rearmed' \subseteq Roots
  PROVE  StoreInv'
<1>1. StoreTypeOK'
  BY DEF StoreInv, StoreTypeOK, mutate, requeue
<1>2. QueueSync'
  BY DEF StoreInv, StoreTypeOK, QueueSync, mutate, requeue
<1>3. IndexSync' /\ AbsentBlank'
  BY DEF StoreInv, StoreTypeOK, IndexSync, AbsentBlank, Known, mutate
<1> QED  BY <1>1, <1>2, <1>3 DEF StoreInv

(* SetStatus, whatever status, hash and reason it is given. *)
LEMMA SetStatusInv ==
  ASSUME StoreInv, NEW r \in Roots, NEW st \in Status, NEW tx \in Nat,
         NEW why \in FailReason, SetStatus(r, st, tx, why)
  PROVE  StoreInv'
<1> DEFINE m == [objects[r] EXCEPT
                   !.status = st,
                   !.txHash = IF tx # NoTx THEN tx ELSE @,
                   !.failReason = IF why # "" THEN why ELSE @]
<1>1. m \in ObjectMeta /\ m.status = st
  BY DEF StoreInv, StoreTypeOK, ObjectMeta
<1>2. st # "absent"
  BY DEF Status
<1>3. mutate(r, m) /\ rearmed' \subseteq Roots
  BY DEF SetStatus, StoreInv, StoreTypeOK
<1> QED  BY <1>1, <1>2, <1>3, MutateInv

(* Reenqueue. *)
LEMMA ReenqueueInv ==
  ASSUME StoreInv, NEW r \in Roots, Reenqueue(r)
  PROVE  StoreInv'
<1> DEFINE m == [objects[r] EXCEPT !.status = "pending", !.retries = 0,
                                   !.failReason = ""]
<1>1. m \in ObjectMeta /\ m.status = "pending"
  BY DEF StoreInv, StoreTypeOK, ObjectMeta, Status, FailReason
<1>2. mutate(r, m) /\ rearmed' \subseteq Roots
  BY DEF Reenqueue, StoreInv, StoreTypeOK
<1> QED  BY <1>1, <1>2, MutateInv

(* IncRetries. *)
LEMMA IncRetriesInv ==
  ASSUME StoreInv, NEW r \in Roots, IncRetries(r)
  PROVE  StoreInv'
<1> DEFINE m == [objects[r] EXCEPT !.retries = @ + 1]
<1>1. m \in ObjectMeta /\ m.status = objects[r].status
  BY DEF StoreInv, StoreTypeOK, ObjectMeta
<1>2. mutate(r, m) /\ rearmed' \subseteq Roots /\ objects[r].status # "absent"
  BY DEF IncRetries, StoreInv, StoreTypeOK, mutate, Known
<1> QED  BY <1>1, <1>2, MutateInv

(* SetSkipTx. *)
LEMMA SetSkipTxInv ==
  ASSUME StoreInv, NEW r \in Roots, NEW v \in BOOLEAN, SetSkipTx(r, v)
  PROVE  StoreInv'
<1> DEFINE m == [objects[r] EXCEPT !.skipTx = v]
<1>1. m \in ObjectMeta /\ m.status = objects[r].status
  BY DEF StoreInv, StoreTypeOK, ObjectMeta
<1>2. mutate(r, m) /\ rearmed' \subseteq Roots /\ objects[r].status # "absent"
  BY DEF SetSkipTx, StoreInv, StoreTypeOK, mutate, Known
<1> QED  BY <1>1, <1>2, MutateInv
-----------------------------------------------------------------------------
(* What the transactions write, for the proofs that follow single fields. *)

(* SetStatus writes one record: the status, and the hash when it has one. *)
LEMMA SetStatusEffect ==
  ASSUME StoreTypeOK, NEW r \in Roots, NEW st, NEW tx, NEW why,
         SetStatus(r, st, tx, why)
  PROVE  /\ Known(r)
         /\ objects'[r].status = st
         /\ objects'[r].txHash = IF tx # NoTx THEN tx ELSE objects[r].txHash
         /\ objects'[r].retries = objects[r].retries
         /\ rearmed' = IF st = "submitted" THEN rearmed \ {r} ELSE rearmed
         /\ \A q \in Roots : q # r => objects'[q] = objects[q]
  BY DEF SetStatus, mutate, StoreTypeOK, ObjectMeta

(* SetSkipTx leaves status, hash and retries alone. *)
LEMMA SetSkipTxEffect ==
  ASSUME StoreTypeOK, NEW r \in Roots, NEW v, SetSkipTx(r, v)
  PROVE  /\ objects'[r].status = objects[r].status
         /\ objects'[r].txHash = objects[r].txHash
         /\ objects'[r].retries = objects[r].retries
         /\ rearmed' = rearmed
         /\ \A q \in Roots : q # r => objects'[q] = objects[q]
  BY DEF SetSkipTx, mutate, StoreTypeOK, ObjectMeta

(* IncRetries leaves status and hash alone. *)
LEMMA IncRetriesEffect ==
  ASSUME StoreTypeOK, NEW r \in Roots, IncRetries(r)
  PROVE  /\ objects'[r].status = objects[r].status
         /\ objects'[r].txHash = objects[r].txHash
         /\ objects'[r].retries = objects[r].retries + 1
         /\ rearmed' = rearmed
         /\ \A q \in Roots : q # r => objects'[q] = objects[q]
  BY DEF IncRetries, mutate, StoreTypeOK, ObjectMeta

(* Reenqueue keeps the hash. *)
LEMMA ReenqueueEffect ==
  ASSUME StoreTypeOK, NEW r \in Roots, Reenqueue(r)
  PROVE  /\ Known(r)
         /\ objects'[r].status = "pending"
         /\ objects'[r].txHash = objects[r].txHash
         /\ rearmed' = rearmed \cup {r}
         /\ \A q \in Roots : q # r => objects'[q] = objects[q]
  BY DEF Reenqueue, mutate, StoreTypeOK, ObjectMeta

(* CreateObject writes a pending record without a hash. *)
LEMMA CreateObjectEffect ==
  ASSUME StoreTypeOK, NEW r \in Roots, CreateObject(r)
  PROVE  /\ ~Known(r)
         /\ objects'[r].status = "pending"
         /\ objects'[r].txHash = NoTx
         /\ rearmed' = rearmed
         /\ \A q \in Roots : q # r => objects'[q] = objects[q]
  BY DEF CreateObject, StoreTypeOK, ObjectMeta, Absent
-----------------------------------------------------------------------------
(* The store under callers that do anything *)

(* Every call, whatever its arguments, preserves types, queues and index. *)
LEMMA CallInv ==
  ASSUME StoreInv, NEW r \in Roots, Call(r)
  PROVE  StoreInv'
<1>1. CASE CreateObject(r)
  BY <1>1, CreateObjectInv
<1>2. CASE ErrExists(r)
  BY <1>2, StoreStutterInv DEF ErrExists
<1>3. CASE \E st \in Status, tx \in Nat, why \in FailReason :
             SetStatus(r, st, tx, why)
  <2>1. PICK st \in Status, tx \in Nat, why \in FailReason :
               SetStatus(r, st, tx, why)
    BY <1>3
  <2> QED  BY <2>1, SetStatusInv
<1>4. CASE Reenqueue(r)
  BY <1>4, ReenqueueInv
<1>5. CASE IncRetries(r)
  BY <1>5, IncRetriesInv
<1>6. CASE \E v \in BOOLEAN : SetSkipTx(r, v)
  BY <1>6, SetSkipTxInv
<1> QED  BY <1>1, <1>2, <1>3, <1>4, <1>5, <1>6 DEF Call

(* The buckets stay consistent through every sequence of transactions. *)
LEMMA StoreConsistent == StoreSpec => []StoreInv
<1>1. StoreInit => StoreInv
  BY StoreInitInv
<1>2. StoreInv /\ [StoreNext]_storeVars => StoreInv'
  BY CallInv, StoreStutterInv DEF StoreNext
<1> QED  BY <1>1, <1>2, PTL DEF StoreSpec

(* The store's variables keep their types. *)
THEOREM StoreTypeCorrect == StoreSpec => []StoreTypeOK
<1>1. StoreInv => StoreTypeOK
  BY DEF StoreInv
<1> QED  BY <1>1, StoreConsistent, PTL

(* The upload and finalize queues hold exactly the objects whose status      *)
(* calls for it (requeue in internal/store).                                 *)
THEOREM QueuesFollowStatus == StoreSpec => []QueueSync
<1>1. StoreInv => QueueSync
  BY DEF StoreInv
<1> QED  BY <1>1, StoreConsistent, PTL

(* The dedup index knows a content exactly when its object exists. *)
THEOREM IndexFollowsObjects == StoreSpec => []IndexSync
<1>1. StoreInv => IndexSync
  BY DEF StoreInv
<1> QED  BY <1>1, StoreConsistent, PTL

(* No transaction blanks a recorded hash (SetStatus writes a hash only when  *)
(* it is given one, and nothing else writes it).                             *)
THEOREM HashesKept == StoreSpec => HashKept
<1> DEFINE A == \A r \in Roots :
                  objects[r].txHash # NoTx => objects'[r].txHash # NoTx
<1>1. StoreInv /\ [StoreNext]_storeVars => [A]_storeVars
  <2> SUFFICES ASSUME StoreInv, NEW q \in Roots, Call(q), NEW r \in Roots,
                      objects[r].txHash # NoTx
               PROVE  objects'[r].txHash # NoTx
    BY DEF StoreNext
  <2>1. objects \in [Roots -> ObjectMeta]
    BY DEF StoreInv, StoreTypeOK
  <2>2. CASE q # r
    BY <2>1, <2>2 DEF Call, CreateObject, ErrExists, SetStatus, Reenqueue,
       IncRetries, SetSkipTx, mutate, storeVars
  <2>3. CASE q = r
    <3>1. ~CreateObject(r)
      <4>1. ~Known(r) => objects[r] = Absent
        BY DEF StoreInv, AbsentBlank
      <4>2. Absent.txHash = NoTx
        BY DEF Absent
      <4> QED  BY <4>1, <4>2 DEF CreateObject
    <3>2. CASE ErrExists(r)
      BY <3>2 DEF ErrExists, storeVars
    <3>3. CASE \E st \in Status, tx \in Nat, why \in FailReason :
                 SetStatus(r, st, tx, why)
      BY <2>1, <3>3 DEF SetStatus, mutate, ObjectMeta
    <3>4. CASE Reenqueue(r) \/ IncRetries(r) \/ \E v \in BOOLEAN : SetSkipTx(r, v)
      BY <2>1, <3>4 DEF Reenqueue, IncRetries, SetSkipTx, mutate, ObjectMeta
    <3> QED  BY <2>3, <3>1, <3>2, <3>3, <3>4 DEF Call
  <2> QED  BY <2>2, <2>3
<1> QED  BY <1>1, StoreConsistent, PTL DEF StoreSpec, HashKept
=============================================================================
