--------------------------- MODULE ResubmitProofs ----------------------------
(* A crash or a failed batch never makes the worker announce an object twice *)
(* without asking the nodes: NoBlindResubmit, for every number of objects,   *)
(* nodes, requests, crashes and faults.  The reason a failed object shows is *)
(* that of its present failure: FailReasonCurrent.  And what it failed for,  *)
(* if it is exhausted retries, is so: FailedAfterRetries.                    *)
EXTENDS SoundnessProofs

-----------------------------------------------------------------------------
Batching == {"examine", "query", "apply", "mark", "tx", "segments", "onchain",
             "recon", "reconApply", "count", "requeue", "fail"}

Deciding == {"examine", "query", "apply"}

(* Flush works off its snapshot batch by batch: what is still to come is not *)
(* in the batch under way, and PollFinality begins when nothing is left.     *)
SnapshotSplit ==
  /\ pc \in {"idle", "poll", "pollApply"} => todo = {}
  /\ pc \notin Batching => items = {}
  /\ pc \in Batching => todo \cap (left \cup items) = {}
  /\ pc \in Batching \ (Deciding \cup {"mark"}) => left \subseteq items
  /\ pc \in {"query", "apply", "pollApply"} => cur \in left
  /\ pc \in {"reconApply", "count", "requeue", "fail"} => cur \in left
  /\ pc \in Deciding => left \cap items = {}

(* What Flush has yet to examine is still queued, though handlers work on    *)
(* the same queue, and what it took exists.                                  *)
SnapshotQueued ==
  /\ todo \subseteq qUpload
  /\ pc \in Deciding => left \subseteq qUpload
  /\ \A r \in items : Known(r)

(* What an object looks like that was created and never tried. *)
LooksNew(r) ==
  objects[r].status = "pending" /\ objects[r].retries = 0 /\ r \notin rearmed

(* An announced object exists and does not look new: its status or its       *)
(* retries tell of the attempt, or a PUT has re-armed it.                    *)
AttemptRemembered ==
  \A r \in Roots : txs[r] # {} => Known(r) /\ ~LooksNew(r)

(* By the time of the transaction every item has been marked submitted, or   *)
(* re-armed since.                                                           *)
MarkedFirst ==
  pc \in {"mark", "tx"} =>
    \A r \in items : (pc = "mark" /\ r \in left) \/ ~LooksNew(r)

(* An object goes back to pending with its attempt counted. *)
CountedFirst == pc = "requeue" => objects[cur].retries > 0 \/ cur \in rearmed

(* Until the transaction is sent, an item taken without asking is new. *)
TakenNew ==
  pc \in {"examine", "query", "apply", "mark", "tx"} =>
    \A r \in items : r \in asked \/ r \in excused \/ txs[r] = {}

ResubmitInv ==
  /\ SnapshotSplit /\ SnapshotQueued /\ AttemptRemembered
  /\ MarkedFirst /\ CountedFirst /\ TakenNew
-----------------------------------------------------------------------------
(* What the other actors do to the store, seen by the worker: a handler      *)
(* re-arms or creates one object, the rest change nothing.                   *)
LEMMA HandlerWrites ==
  ASSUME TypeInv, NEW p \in Procs, Begin(p) \/ Handle(p)
  PROVE  /\ UNCHANGED <<chainVars, workerVars>>
         /\ \/ UNCHANGED storeVars
            \/ \E r \in Roots : Reenqueue(r) \/ CreateObject(r)
<1>1. CASE Rearm(p) \/ Create(p)
  BY <1>1 DEF Rearm, Create, ErrExists, TypeInv, HandlerInv, Begin, Handle
<1> QED  BY <1>1
     DEF Begin, BeginPut, BeginOpen, Handle, HandlerStep, noteAdded,
         OverLimit, AcquireEvicting, ListCandidates, Debit, ReleaseEvicting,
         EvictOne, EvictRefused, ShouldRejectWrite, Lookup, Decide, Salvage,
         RenameFresh, OpenCached, Download, Restore, Reopen, ReopenFails,
         RequestFails

(* The network, a fault or a crash writes nothing to the store and sends no  *)
(* transaction; the worker may be told of a store error, or be restarted.    *)
LEMMA EnvironmentWrites ==
  ASSUME Network \/ Fault \/ Crash \/ UNCHANGED vars
  PROVE  /\ UNCHANGED <<storeVars, txs>>
         /\ UNCHANGED workerVars \/ StoreErrorReturns \/ StoreErrorIgnored
                                 \/ WorkerReset
  BY DEF Network, Fault, StoreError, Crash, NodeSync, NodeFinalize, NodePrune,
         vars, chainVars

(* An object is never deleted. *)
LEMMA KnownStable ==
  ASSUME TypeInv, [Next]_vars, StoreInv'
  PROVE  \A r \in Roots : Known(r) => Known(r)'
<1>1. CASE shaIndex \subseteq shaIndex'
  BY <1>1 DEF TypeInv, StoreInv, IndexSync
<1>2. CASE Worker
  BY <1>1, <1>2
     DEF Worker, Flush, NextBatch, ExamineFresh, ExamineRetried, QueryStatus,
         ApplyStatus, NothingToSubmit, BeginSubmit, MarkSubmitted, MarkOnchain,
         OpenFiles, SubmitTx, SubmitRefused, SubmitNothing, UploadSegments,
         UploadFails, BatchDone, ReconcileQuery, PollQuery, ReconcileApply,
         CountRetry, GiveUpOrRetry, BeginPoll, PollApply, PollDone, SetStatus,
         SetSkipTx, IncRetries, mutate, storeVars
<1>3. ASSUME NEW p \in Procs, Begin(p) \/ Handle(p)
      PROVE  shaIndex \subseteq shaIndex'
  BY <1>3, HandlerWrites DEF Reenqueue, CreateObject, mutate, storeVars
<1>4. CASE Network \/ Fault \/ Crash \/ UNCHANGED vars
  BY <1>1, <1>4, EnvironmentWrites DEF storeVars
<1> QED  BY <1>1, <1>2, <1>3, <1>4 DEF Next
-----------------------------------------------------------------------------
(* The worker's own steps, conjunct by conjunct. *)

(* Flush, processBatch and PollFinality keep the snapshot split. *)
LEMMA SplitKept ==
  ASSUME TypeInv, SnapshotSplit, Worker
  PROVE  SnapshotSplit'
<1> USE DEF SnapshotSplit, Batching, Deciding, To, Visited, ForgetQuery, batchVars
<1>1. CASE Flush \/ NextBatch \/ BeginPoll \/ PollDone
  BY <1>1 DEF Flush, NextBatch, BeginPoll, PollDone, TypeInv, WorkerInv, WorkerTypeOK
<1>2. ASSUME NEW r \in Roots, ExamineFresh(r) \/ ExamineRetried(r)
      PROVE  SnapshotSplit'
  BY <1>2 DEF ExamineFresh, ExamineRetried, TakeItem
<1>3. ASSUME NEW up \in SUBSET Nodes, QueryStatus(up) PROVE SnapshotSplit'
  BY <1>3 DEF QueryStatus
<1>4. CASE ApplyStatus
  BY <1>4 DEF ApplyStatus, TakeItem
<1>5. CASE NothingToSubmit \/ BatchDone
  BY <1>5 DEF NothingToSubmit, BatchDone, BatchReturns
<1>6. CASE BeginSubmit
  BY <1>6 DEF BeginSubmit
<1>7. ASSUME NEW r \in Roots, MarkSubmitted(r) \/ MarkOnchain(r) PROVE SnapshotSplit'
  BY <1>7 DEF MarkSubmitted, MarkOnchain
<1>8. CASE OpenFiles \/ SubmitTx \/ SubmitRefused \/ SubmitNothing
  BY <1>8 DEF OpenFiles, SubmitTx, SubmitRefused, SubmitNothing, BatchFails
<1>9. CASE UploadSegments \/ UploadFails
  BY <1>9 DEF UploadSegments, UploadFails, BatchFails
<1>10. ASSUME NEW r \in Roots, NEW up \in SUBSET Nodes,
              ReconcileQuery(r, up) \/ PollQuery(r, up)
       PROVE  SnapshotSplit'
  BY <1>10 DEF ReconcileQuery, PollQuery
<1>11. CASE ReconcileApply \/ CountRetry \/ GiveUpOrRetry
  BY <1>11 DEF ReconcileApply, CountRetry, GiveUpOrRetry
<1>12. CASE PollApply
  BY <1>12 DEF PollApply
<1> QED  BY <1>1, <1>2, <1>3, <1>4, <1>5, <1>6, <1>7, <1>8, <1>9, <1>10, <1>11,
            <1>12 DEF Worker

(* Only the worker takes an object out of the upload queue, and not one its  *)
(* snapshot has still to examine.                                            *)
LEMMA Unqueued ==
  ASSUME TypeInv, SnapshotSplit, [Next]_vars, StoreInv',
         NEW r \in Roots, r \in qUpload, r \notin qUpload'
  PROVE  Worker /\ r \notin todo /\ (pc' \in Deciding => r \notin left')
<1>0. StoreTypeOK /\ StoreTypeOK'
  BY DEF TypeInv, StoreInv
<1>1. objects'[r] # objects[r]
  BY DEF TypeInv, StoreInv, QueueSync
<1>2. objects[r].status \in {"pending", "submitted"} /\ Known(r)
  BY DEF TypeInv, StoreInv, QueueSync, Known
<1>3. ASSUME NEW p \in Procs, Begin(p) \/ Handle(p) PROVE FALSE
  <2>1. ASSUME NEW q \in Roots, Reenqueue(q) PROVE r \in qUpload'
    BY <1>1, <1>0, <2>1, ReenqueueEffect DEF StoreInv, QueueSync
  <2>2. ASSUME NEW q \in Roots, CreateObject(q) PROVE FALSE
    BY <1>1, <1>2, <1>0, <2>2, CreateObjectEffect
  <2> QED  BY <1>1, <1>3, <2>1, <2>2, HandlerWrites DEF storeVars
<1>4. Worker
  BY <1>1, <1>3, EnvironmentWrites DEF Next, storeVars
<1>5. ASSUME NEW q \in Roots, MarkSubmitted(q) PROVE r \in qUpload'
  BY <1>1, <1>0, <1>5, SetStatusEffect DEF MarkSubmitted, StoreInv, QueueSync
<1>6. ASSUME NEW q \in Roots, MarkOnchain(q)
      PROVE  r \notin todo /\ pc' \notin Deciding
  <2>1. r = q
    BY <1>1, <1>0, <1>6 DEF MarkOnchain, SetStatus, mutate, StoreTypeOK
  <2> QED  BY <1>6, <2>1 DEF MarkOnchain, SnapshotSplit, Batching, Deciding
<1>7. CASE ApplyStatus \/ ReconcileApply \/ CountRetry \/ GiveUpOrRetry \/ PollApply
  <2>1. cur \in Roots
    BY <1>7 DEF ApplyStatus, ReconcileApply, CountRetry, GiveUpOrRetry, PollApply,
                TypeInv, WorkerInv
  <2>2. r = cur
    BY <1>1, <1>0, <1>7, <2>1
       DEF ApplyStatus, ReconcileApply, CountRetry, GiveUpOrRetry, PollApply,
           SetStatus, SetSkipTx, IncRetries, mutate, StoreTypeOK
  <2>3. CASE ApplyStatus
    BY <1>4, <2>2, <2>3
       DEF ApplyStatus, SnapshotSplit, Batching, Deciding, To, Visited
  <2>4. CASE ReconcileApply \/ CountRetry \/ GiveUpOrRetry
    <3>1. pc \in {"reconApply", "count", "requeue", "fail"}
      BY <2>4 DEF ReconcileApply, CountRetry, GiveUpOrRetry
    <3>2. pc' \notin Deciding
      BY <2>4 DEF ReconcileApply, CountRetry, GiveUpOrRetry, Deciding, To
    <3> QED  BY <1>4, <2>2, <3>1, <3>2 DEF SnapshotSplit, Batching
  <2>5. CASE PollApply
    BY <1>4, <2>2, <2>5 DEF PollApply, SnapshotSplit, Deciding, To
  <2> QED  BY <1>7, <2>3, <2>4, <2>5
<1>8. \/ UNCHANGED storeVars
      \/ \E q \in Roots : MarkSubmitted(q) \/ MarkOnchain(q)
      \/ ApplyStatus \/ ReconcileApply \/ CountRetry \/ GiveUpOrRetry \/ PollApply
  BY <1>4
  DEF Worker, Flush, NextBatch, ExamineFresh, ExamineRetried, QueryStatus,
      NothingToSubmit, BeginSubmit, OpenFiles, SubmitTx, SubmitRefused,
      SubmitNothing, UploadSegments, UploadFails, BatchDone, ReconcileQuery,
      PollQuery, BeginPoll, PollDone
<1> QED  BY <1>1, <1>4, <1>5, <1>6, <1>7, <1>8 DEF storeVars

(* An object that was tried never looks new again: what the worker writes on *)
(* the way back to pending, and what a PUT writes, tell it from a new one.   *)
LEMMA NeverNewAgain ==
  ASSUME TypeInv, CountedFirst, [Next]_vars, NEW r \in Roots,
         Known(r), ~LooksNew(r)
  PROVE  ~LooksNew(r)'
<1> USE DEF LooksNew
<1>0. StoreTypeOK
  BY DEF TypeInv, StoreInv
<1>1. CASE UNCHANGED storeVars
  BY <1>1 DEF storeVars
<1>2. ASSUME NEW p \in Procs, Begin(p) \/ Handle(p) PROVE ~LooksNew(r)'
  <2>1. ASSUME NEW q \in Roots, Reenqueue(q) PROVE ~LooksNew(r)'
    BY <1>0, <2>1, ReenqueueEffect
  <2>2. ASSUME NEW q \in Roots, CreateObject(q) PROVE ~LooksNew(r)'
    BY <1>0, <2>2, CreateObjectEffect
  <2> QED  BY <1>1, <1>2, <2>1, <2>2, HandlerWrites
<1>3. ASSUME NEW q \in Roots, MarkSubmitted(q) PROVE ~LooksNew(r)'
  BY <1>0, <1>3, SetStatusEffect DEF MarkSubmitted
<1>4. ASSUME NEW q \in Roots, MarkOnchain(q) PROVE ~LooksNew(r)'
  BY <1>0, <1>4 DEF MarkOnchain, SetStatus, mutate, StoreTypeOK, ObjectMeta
<1>5. CASE ApplyStatus \/ ReconcileApply \/ PollApply
  <2>1. cur \in Roots
    BY <1>5 DEF ApplyStatus, ReconcileApply, PollApply, TypeInv, WorkerInv
  <2>2. ASSUME NEW v \in BOOLEAN, SetSkipTx(cur, v) PROVE ~LooksNew(r)'
    BY <1>0, <2>1, <2>2, SetSkipTxEffect
  <2>3. ASSUME NEW why, SetStatus(cur, "failed", NoTx, why) PROVE ~LooksNew(r)'
    BY <1>0, <2>1, <2>3, SetStatusEffect
  <2>4. CASE SetStatus(cur, "finalized", NoTx, "")
    BY <1>0, <2>1, <2>4, SetStatusEffect
  <2> QED  BY <1>5, <2>2, <2>3, <2>4 DEF ApplyStatus, ReconcileApply, PollApply
<1>6. CASE CountRetry
  <2>1. cur \in Roots /\ objects[cur].retries \in Nat
    BY <1>0, <1>6 DEF CountRetry, TypeInv, WorkerInv, StoreTypeOK, ObjectMeta
  <2> QED  BY <1>0, <1>6, <2>1, IncRetriesEffect DEF CountRetry
<1>7. CASE GiveUpOrRetry
  <2>1. cur \in Roots
    BY <1>7 DEF GiveUpOrRetry, TypeInv, WorkerInv
  <2>2. /\ objects'[cur].status = "failed" \/ pc = "requeue"
        /\ objects'[cur].retries = objects[cur].retries /\ rearmed' = rearmed
        /\ \A q \in Roots : q # cur => objects'[q] = objects[q]
    <3>1. CASE SetStatus(cur, "failed", NoTx, "retries exhausted")
      BY <1>0, <2>1, <3>1 DEF SetStatus, mutate, StoreTypeOK, ObjectMeta
    <3>2. CASE pc = "requeue" /\ SetStatus(cur, "pending", NoTx, "")
      BY <1>0, <2>1, <3>2 DEF SetStatus, mutate, StoreTypeOK, ObjectMeta
    <3> QED  BY <1>7, <3>1, <3>2 DEF GiveUpOrRetry
  <2> QED  BY <2>1, <2>2 DEF CountedFirst
<1>8. CASE Worker
  BY <1>1, <1>3, <1>4, <1>5, <1>6, <1>7, <1>8
  DEF Worker, Flush, NextBatch, ExamineFresh, ExamineRetried, QueryStatus,
      NothingToSubmit, BeginSubmit, OpenFiles, SubmitTx, SubmitRefused,
      SubmitNothing, UploadSegments, UploadFails, BatchDone, ReconcileQuery,
      PollQuery, BeginPoll, PollDone
<1>9. CASE Network \/ Fault \/ Crash \/ UNCHANGED vars
  BY <1>1, <1>9, EnvironmentWrites
<1> QED  BY <1>2, <1>8, <1>9 DEF Next
-----------------------------------------------------------------------------
(* The parts of the invariant, for every step. *)

(* The snapshot stays split whatever the other actors do. *)
LEMMA SnapshotSplitKept ==
  ASSUME TypeInv, SnapshotSplit, [Next]_vars
  PROVE  SnapshotSplit'
<1>1. CASE UNCHANGED workerVars
  BY <1>1 DEF SnapshotSplit, Batching, Deciding, workerVars, loopVars, batchVars
<1>2. CASE StoreErrorReturns \/ WorkerReset
  BY <1>2 DEF StoreErrorReturns, BatchReturns, WorkerReset, SnapshotSplit,
              Batching, Deciding, To
<1>3. CASE StoreErrorIgnored
  BY <1>3 DEF StoreErrorIgnored, TakeItem, SnapshotSplit, Batching, Deciding,
              To, Visited, ForgetQuery, batchVars
<1> QED  BY <1>1, <1>2, <1>3, SplitKept, HandlerWrites, EnvironmentWrites DEF Next

(* The batch and the snapshot are made of what was queued. *)
LEMMA ItemsFromQueue ==
  ASSUME TypeInv, SnapshotSplit, SnapshotQueued, [Next]_vars
  PROVE  /\ todo' \subseteq todo \/ Flush
         /\ pc' \in Deciding => left' \subseteq (IF pc = "flush" THEN todo ELSE left)
         /\ pc' \in Deciding /\ pc # "flush" => pc \in Deciding
         /\ \A r \in items' : r \in items \/ (r \in left /\ pc \in Deciding)
<1> USE DEF SnapshotSplit, Deciding, To, Visited, ForgetQuery, batchVars, TakeItem
<1>1. CASE UNCHANGED workerVars
  BY <1>1 DEF workerVars, loopVars
<1>2. CASE StoreErrorReturns \/ WorkerReset
  BY <1>2 DEF StoreErrorReturns, BatchReturns, WorkerReset
<1>3. CASE StoreErrorIgnored
  BY <1>3 DEF StoreErrorIgnored
<1>4. CASE Flush \/ NextBatch \/ ApplyStatus \/ NothingToSubmit \/ BeginSubmit
           \/ BatchDone \/ BeginPoll \/ PollApply \/ PollDone
  BY <1>4 DEF Flush, NextBatch, ApplyStatus, NothingToSubmit, BatchReturns,
              BeginSubmit, BatchDone, BeginPoll, PollApply, PollDone
<1>5. CASE \E r \in Roots : ExamineFresh(r) \/ ExamineRetried(r)
                            \/ MarkSubmitted(r) \/ MarkOnchain(r)
  BY <1>5 DEF ExamineFresh, ExamineRetried, MarkSubmitted, MarkOnchain
<1>6. CASE \E up \in SUBSET Nodes : QueryStatus(up)
  BY <1>6 DEF QueryStatus
<1>7. CASE OpenFiles \/ SubmitTx \/ SubmitRefused \/ SubmitNothing
           \/ UploadSegments \/ UploadFails
  BY <1>7 DEF OpenFiles, SubmitTx, SubmitRefused, SubmitNothing, UploadSegments,
              UploadFails, BatchFails
<1>8. CASE \E r \in Roots, up \in SUBSET Nodes :
             ReconcileQuery(r, up) \/ PollQuery(r, up)
  BY <1>8 DEF ReconcileQuery, PollQuery
<1>9. CASE ReconcileApply \/ CountRetry \/ GiveUpOrRetry
  BY <1>9 DEF ReconcileApply, CountRetry, GiveUpOrRetry
<1>10. CASE Worker
  BY <1>4, <1>5, <1>6, <1>7, <1>8, <1>9, <1>10 DEF Worker
<1> QED  BY <1>1, <1>2, <1>3, <1>10, HandlerWrites, EnvironmentWrites DEF Next

(* What is to be examined stays queued, and what was taken stays known. *)
LEMMA SnapshotQueuedKept ==
  ASSUME TypeInv, SnapshotSplit, SnapshotQueued, [Next]_vars, StoreInv', WorkerInv'
  PROVE  SnapshotQueued'
<1>1. /\ todo \subseteq Roots /\ left \subseteq Roots /\ items \subseteq Roots
      /\ left' \subseteq Roots /\ qUpload \subseteq Roots
  BY DEF TypeInv, WorkerInv, WorkerTypeOK, StoreInv, StoreTypeOK
<1>2. todo' \subseteq qUpload'
  <2>1. CASE Flush
    BY <2>1 DEF Flush, storeVars
  <2>2. CASE todo' \subseteq todo
    BY <1>1, <2>2, Unqueued DEF SnapshotQueued
  <2> QED  BY <2>1, <2>2, ItemsFromQueue
<1>3. ASSUME pc' \in Deciding PROVE left' \subseteq qUpload'
  <2>1. left' \subseteq qUpload
    BY <1>3, ItemsFromQueue DEF SnapshotQueued
  <2> QED  BY <1>1, <1>3, <2>1, Unqueued
<1>4. \A r \in items' : Known(r)'
  <2>1. \A r \in items' : r \in Roots /\ Known(r)
    BY <1>1, ItemsFromQueue DEF SnapshotQueued, TypeInv, StoreInv, QueueSync, Known
  <2> QED  BY <2>1, KnownStable
<1> QED  BY <1>2, <1>3, <1>4 DEF SnapshotQueued

(* A transaction announces items of the batch only. *)
LEMMA Announces ==
  ASSUME TypeInv, [Next]_vars, NEW r \in Roots, txs'[r] # txs[r]
  PROVE  SubmitTx /\ pc = "tx" /\ r \in items /\ pc' \in {"segments", "recon"}
<1>1. CASE Worker
  <2>1. SubmitTx
    BY <1>1
    DEF Worker, Flush, NextBatch, ExamineFresh, ExamineRetried, QueryStatus,
        ApplyStatus, NothingToSubmit, BeginSubmit, MarkSubmitted, MarkOnchain,
        OpenFiles, SubmitRefused, SubmitNothing, UploadSegments, UploadFails,
        TakeSegments, BatchDone, ReconcileQuery, PollQuery, ReconcileApply,
        CountRetry, GiveUpOrRetry, BeginPoll, PollApply, PollDone, chainVars
  <2> QED  BY <2>1 DEF SubmitTx, LandTx, Fresh, BatchFails, To
<1> QED  BY <1>1, HandlerWrites, EnvironmentWrites DEF Next, chainVars

(* The store remembers every attempt. *)
LEMMA AttemptRememberedKept ==
  ASSUME TypeInv, ResubmitInv, [Next]_vars, StoreInv'
  PROVE  AttemptRemembered'
<1> SUFFICES ASSUME NEW r \in Roots, txs'[r] # {} PROVE Known(r)' /\ ~LooksNew(r)'
  BY DEF AttemptRemembered
<1>1. Known(r) /\ ~LooksNew(r)
  BY Announces DEF ResubmitInv, AttemptRemembered, MarkedFirst, SnapshotQueued
<1> QED  BY <1>1, KnownStable, NeverNewAgain DEF ResubmitInv

(* Items are marked submitted before BatchUpload is called, and a PUT that   *)
(* takes the mark back re-arms them.                                         *)
LEMMA MarkedFirstKept ==
  ASSUME TypeInv, ResubmitInv, [Next]_vars
  PROVE  MarkedFirst'
<1> SUFFICES ASSUME pc' \in {"mark", "tx"}, NEW r \in items'
             PROVE  (pc' = "mark" /\ r \in left') \/ ~LooksNew(r)'
  BY DEF MarkedFirst
<1> USE DEF To, Visited, ForgetQuery, batchVars
<1>1. CASE BeginSubmit
  BY <1>1 DEF BeginSubmit
<1>2. ASSUME pc \in {"mark", "tx"}, r \in items, left' = left,
             pc' = pc \/ left = {}
      PROVE  (pc' = "mark" /\ r \in left') \/ ~LooksNew(r)'
  <2>1. r \in Roots /\ Known(r)
    BY <1>2 DEF TypeInv, WorkerInv, WorkerTypeOK, ResubmitInv, SnapshotQueued
  <2> QED  BY <1>2, <2>1, NeverNewAgain DEF ResubmitInv, MarkedFirst
<1>3. CASE UNCHANGED workerVars
  BY <1>2, <1>3 DEF workerVars, loopVars
<1>4. CASE OpenFiles
  BY <1>2, <1>4 DEF OpenFiles, BatchFails
<1>5. ASSUME NEW q \in Roots, MarkSubmitted(q)
      PROVE  (pc' = "mark" /\ r \in left') \/ ~LooksNew(r)'
  <2>1. r \in items /\ r \in Roots /\ Known(r)
    BY <1>5 DEF MarkSubmitted, TypeInv, WorkerInv, WorkerTypeOK, ResubmitInv,
                SnapshotQueued
  <2>2. CASE r = q
    BY <1>5, <2>1, <2>2, SetStatusEffect
       DEF MarkSubmitted, LooksNew, TypeInv, StoreInv
  <2>3. CASE r # q
    BY <1>5, <2>1, <2>3, NeverNewAgain DEF MarkSubmitted, ResubmitInv, MarkedFirst
  <2> QED  BY <2>2, <2>3
<1>6. CASE Worker
  BY <1>1, <1>4, <1>5, <1>6
    DEF Worker, Flush, NextBatch, ExamineFresh, ExamineRetried, QueryStatus,
        ApplyStatus, NothingToSubmit, BatchReturns, MarkOnchain, BatchFails,
        SubmitTx, SubmitRefused, SubmitNothing, UploadSegments, UploadFails,
        BatchDone, ReconcileQuery, PollQuery, ReconcileApply, CountRetry,
        GiveUpOrRetry, BeginPoll, PollApply, PollDone
<1>7. CASE StoreErrorReturns \/ StoreErrorIgnored \/ WorkerReset
  BY <1>7 DEF StoreErrorReturns, StoreErrorIgnored, BatchReturns, WorkerReset
<1> QED  BY <1>3, <1>6, <1>7, HandlerWrites, EnvironmentWrites DEF Next

(* reconcileFailedBatch counts an attempt before it sets pending again. *)
LEMMA CountedFirstKept ==
  ASSUME TypeInv, ResubmitInv, [Next]_vars
  PROVE  CountedFirst'
<1> SUFFICES ASSUME pc' = "requeue"
             PROVE  objects'[cur'].retries > 0 \/ cur' \in rearmed'
  BY DEF CountedFirst
<1>0. StoreTypeOK
  BY DEF TypeInv, StoreInv
<1>1. CASE Worker
  <2>1. CountRetry
    BY <1>1
      DEF Worker, Flush, NextBatch, ExamineFresh, ExamineRetried, QueryStatus,
        ApplyStatus, NothingToSubmit, BatchReturns, BeginSubmit, MarkSubmitted,
        MarkOnchain, OpenFiles, BatchFails, SubmitTx, SubmitRefused,
        SubmitNothing, UploadSegments, UploadFails, BatchDone, ReconcileQuery,
        PollQuery, ReconcileApply, GiveUpOrRetry, BeginPoll, PollApply,
        PollDone, To
  <2>2. cur \in Roots /\ objects[cur].retries \in Nat
    BY <1>0, <2>1 DEF CountRetry, TypeInv, WorkerInv, StoreTypeOK, ObjectMeta
  <2>3. objects'[cur].retries = objects[cur].retries + 1 /\ cur' = cur
    BY <1>0, <2>1, <2>2, IncRetriesEffect DEF CountRetry
  <2> QED  BY <2>2, <2>3
<1>2. ASSUME UNCHANGED workerVars
      PROVE  /\ cur \in Roots /\ Known(cur) /\ cur' = cur
             /\ objects[cur].retries > 0 \/ cur \in rearmed
  BY <1>2 DEF workerVars, loopVars, TypeInv, WorkerInv, ResubmitInv, CountedFirst,
              SnapshotSplit, SnapshotQueued, Batching, Deciding
<1>3. ASSUME NEW p \in Procs, Begin(p) \/ Handle(p)
      PROVE  objects'[cur'].retries > 0 \/ cur' \in rearmed'
  <2>1. ASSUME NEW q \in Roots, Reenqueue(q)
        PROVE  objects'[cur'].retries > 0 \/ cur' \in rearmed'
    BY <1>0, <1>2, <1>3, <2>1, HandlerWrites, ReenqueueEffect
  <2>2. ASSUME NEW q \in Roots, CreateObject(q)
        PROVE  objects'[cur'].retries > 0 \/ cur' \in rearmed'
    BY <1>0, <1>2, <1>3, <2>2, HandlerWrites, CreateObjectEffect
  <2> QED  BY <1>2, <1>3, <2>1, <2>2, HandlerWrites DEF storeVars
<1>4. CASE Network \/ Fault \/ Crash \/ UNCHANGED vars
  <2>1. pc' # "requeue" \/ UNCHANGED workerVars
    BY <1>4, EnvironmentWrites DEF StoreErrorReturns, StoreErrorIgnored,
       BatchReturns, WorkerReset, To
  <2> QED  BY <1>2, <1>4, <2>1, EnvironmentWrites DEF storeVars
<1> QED  BY <1>1, <1>3, <1>4 DEF Next

(* processBatch takes only new or re-armed members without asking. *)
LEMMA TakenNewKept ==
  ASSUME TypeInv, ResubmitInv, [Next]_vars
  PROVE  TakenNew'
<1> DEFINE Asking == {"examine", "query", "apply", "mark", "tx"}
<1> SUFFICES ASSUME pc' \in Asking, NEW r \in items'
             PROVE  r \in asked' \/ r \in excused' \/ txs'[r] = {}
  BY DEF TakenNew
<1> USE DEF To, Visited, ForgetQuery, batchVars, TakeItem
<1>0. r \in Roots => txs'[r] = txs[r]
  BY Announces
<1>1. ASSUME pc \in Asking, UNCHANGED <<items, asked, excused>>
      PROVE  r \in asked' \/ r \in excused' \/ txs'[r] = {}
  BY <1>0, <1>1 DEF ResubmitInv, TakenNew, TypeInv, WorkerInv, WorkerTypeOK
<1>2. CASE items' = {}
  BY <1>2
<1>3. ASSUME NEW q \in Roots, ExamineFresh(q)
      PROVE  r \in asked' \/ r \in excused' \/ txs'[r] = {}
  <2>1. CASE r = q
    <3>1. q \in rearmed \/ LooksNew(q)
      BY <1>3 DEF ExamineFresh, NeedsReconcile, LooksNew, ResubmitInv,
         SnapshotQueued, Deciding, TypeInv, StoreInv, StoreTypeOK, QueueSync,
         ObjectMeta
    <3> QED  BY <1>0, <1>3, <2>1, <3>1
             DEF ExamineFresh, ResubmitInv, AttemptRemembered
  <2>2. CASE r # q
    BY <1>0, <1>3, <2>2 DEF ExamineFresh, ResubmitInv, TakenNew, TypeInv,
       WorkerInv, WorkerTypeOK
  <2> QED  BY <2>1, <2>2
<1>4. CASE ApplyStatus \/ StoreErrorIgnored
  BY <1>0, <1>4 DEF ApplyStatus, StoreErrorIgnored, ResubmitInv, TakenNew, TypeInv,
     WorkerInv, WorkerTypeOK
<1>5. CASE Worker
  BY <1>1, <1>2, <1>3, <1>4, <1>5
    DEF Worker, Flush, NextBatch, ExamineRetried, QueryStatus,
        NothingToSubmit, BatchReturns, BeginSubmit, MarkSubmitted, MarkOnchain,
        OpenFiles, BatchFails, SubmitTx, SubmitRefused, SubmitNothing,
        UploadSegments, UploadFails, BatchDone, ReconcileQuery, PollQuery,
        ReconcileApply, CountRetry, GiveUpOrRetry, BeginPoll, PollApply,
        PollDone, ResubmitInv, SnapshotSplit, Batching
<1>6. CASE UNCHANGED workerVars
  BY <1>1, <1>6 DEF workerVars, loopVars
<1>7. CASE StoreErrorReturns \/ WorkerReset
  BY <1>2, <1>7 DEF StoreErrorReturns, BatchReturns, WorkerReset
<1> QED  BY <1>4, <1>5, <1>6, <1>7, HandlerWrites, EnvironmentWrites DEF Next

(* The invariant holds in every state. *)
LEMMA ResubmitInvariant == Spec => []ResubmitInv
<1>1. Init => ResubmitInv
  BY DEF Init, ChainInit, WorkerInit, ResubmitInv, SnapshotSplit, Batching,
         Deciding, SnapshotQueued, AttemptRemembered, MarkedFirst, CountedFirst,
         TakenNew
<1>2. TypeInv /\ TypeInv' /\ ResubmitInv /\ [Next]_vars => ResubmitInv'
  BY SnapshotSplitKept, SnapshotQueuedKept, AttemptRememberedKept,
     MarkedFirstKept, CountedFirstKept, TakenNewKept DEF ResubmitInv, TypeInv
<1> QED  BY <1>1, <1>2, TypesAndQueues, PTL DEF Spec

(* The worker sends a second transaction for an object only after a status   *)
(* query of this batch was answered for it, or when a PUT re-armed it: after *)
(* a crash the status is submitted, after a failed batch retries > 0, and    *)
(* processBatch asks in both cases.                                          *)
THEOREM NeverBlind == Spec => NoBlindResubmit
<1>1. TypeInv /\ ResubmitInv /\ [Next]_vars =>
        [\A r \in Roots : txs'[r] # txs[r] =>
           txs[r] = {} \/ r \in asked \/ r \in excused]_vars
  BY Announces DEF ResubmitInv, TakenNew
<1> QED  BY <1>1, ResubmitInvariant, TypesAndQueues, PTL DEF Spec, NoBlindResubmit
-----------------------------------------------------------------------------
(* The recorded failure reason is that of the present failure:               *)
(* FailReasonCurrent.  SetStatus keeps an old reason unless it is given a    *)
(* new one, so this rests on the worker never moving an object on from       *)
(* failed: what it holds in hand is not failed until it fails it itself.     *)

Reconciling == {"recon", "reconApply", "count", "requeue", "fail"}

Failed(r) == objects[r].status = "failed"

(* No object in the worker's hands is failed: no item of a batch before the  *)
(* batch fails, and nothing a loop over the batch or over the finalize queue *)
(* has still to visit.                                                       *)
HeldNotFailed ==
  /\ pc \in Batching \ Reconciling => \A r \in items : ~Failed(r)
  /\ pc \in Reconciling \cup {"poll", "pollApply"} => \A r \in left : ~Failed(r)

ReasonInv == HeldNotFailed /\ FailReasonCurrent

(* An object fails only at the hands of the worker, which is then done with  *)
(* it.                                                                       *)
LEMMA FailedByWorker ==
  ASSUME TypeInv, [Next]_vars, NEW r \in Roots, ~Failed(r), Failed(r)'
  PROVE  /\ pc' \in {"recon", "poll"} /\ r \notin left'
<1> USE DEF Failed
<1>0. StoreTypeOK
  BY DEF TypeInv, StoreInv
<1>1. CASE UNCHANGED storeVars
  BY <1>1 DEF storeVars
<1>2. ASSUME NEW p \in Procs, Begin(p) \/ Handle(p) PROVE FALSE
  <2>1. ASSUME NEW q \in Roots, Reenqueue(q) PROVE FALSE
    BY <1>0, <2>1, ReenqueueEffect
  <2>2. ASSUME NEW q \in Roots, CreateObject(q) PROVE FALSE
    BY <1>0, <2>2, CreateObjectEffect
  <2> QED  BY <1>2, <2>1, <2>2, HandlerWrites DEF storeVars
<1>3. ASSUME NEW q \in Roots, NEW st, NEW tx, st # "failed",
             SetStatus(q, st, tx, "")
      PROVE  FALSE
  BY <1>0, <1>3 DEF SetStatus, mutate, StoreTypeOK, ObjectMeta
<1>4. ASSUME NEW q \in Roots, NEW v, SetSkipTx(q, v) PROVE FALSE
  BY <1>0, <1>4, SetSkipTxEffect
<1>5. ASSUME NEW q \in Roots, IncRetries(q) PROVE FALSE
  BY <1>0, <1>5, IncRetriesEffect
<1>6. ASSUME NEW q \in Roots, MarkSubmitted(q) \/ MarkOnchain(q) PROVE FALSE
  BY <1>6, <1>3 DEF MarkSubmitted, MarkOnchain
<1>7. CASE ApplyStatus \/ ReconcileApply \/ CountRetry
  <2>1. cur \in Roots
    BY <1>7 DEF ApplyStatus, ReconcileApply, CountRetry, TypeInv, WorkerInv
  <2> QED  BY <1>7, <1>3, <1>4, <1>5, <2>1
           DEF ApplyStatus, ReconcileApply, CountRetry
<1>8. CASE GiveUpOrRetry \/ PollApply
  <2>1. cur \in Roots
    BY <1>8 DEF GiveUpOrRetry, PollApply, TypeInv, WorkerInv
  <2>2. r = cur
    BY <1>0, <1>8, <2>1 DEF GiveUpOrRetry, PollApply, SetStatus, mutate,
       StoreTypeOK, ObjectMeta
  <2> QED  BY <1>8, <2>2 DEF GiveUpOrRetry, PollApply, To, Visited
<1>9. CASE Worker
  BY <1>1, <1>6, <1>7, <1>8, <1>9
  DEF Worker, Flush, NextBatch, ExamineFresh, ExamineRetried, QueryStatus,
      NothingToSubmit, BeginSubmit, OpenFiles, SubmitTx, SubmitRefused,
      SubmitNothing, UploadSegments, UploadFails, BatchDone, ReconcileQuery,
      PollQuery, BeginPoll, PollDone
<1>10. CASE Network \/ Fault \/ Crash \/ UNCHANGED vars
  BY <1>1, <1>10, EnvironmentWrites
<1> QED  BY <1>2, <1>9, <1>10 DEF Next

(* Where the worker's loops get their members from. *)
LEMMA LeftFrom ==
  ASSUME TypeInv, SnapshotSplit, [Next]_vars
  PROVE  /\ pc' \in Reconciling =>
              \/ pc \in Reconciling /\ left' \subseteq left
              \/ pc \in Batching \ Reconciling /\ left' \subseteq items
         /\ pc' \in {"poll", "pollApply"} =>
              \/ pc \in {"poll", "pollApply"} /\ left' \subseteq left
              \/ left' = qFinalize
         /\ pc' \in Batching \ Reconciling =>
              pc \in Batching \ Reconciling \/ items' = {}
<1> USE DEF SnapshotSplit, Batching, Deciding, Reconciling, To, Visited,
            ForgetQuery, batchVars
<1>1. CASE UNCHANGED workerVars
  BY <1>1 DEF workerVars, loopVars
<1>2. CASE StoreErrorReturns \/ WorkerReset
  BY <1>2 DEF StoreErrorReturns, BatchReturns, WorkerReset
<1>3. CASE StoreErrorIgnored
  BY <1>3 DEF StoreErrorIgnored
<1>4. CASE Flush \/ NextBatch \/ ApplyStatus \/ NothingToSubmit \/ BeginSubmit
           \/ BatchDone \/ BeginPoll \/ PollApply \/ PollDone
  BY <1>4 DEF Flush, NextBatch, ApplyStatus, NothingToSubmit, BatchReturns,
              BeginSubmit, BatchDone, BeginPoll, PollApply, PollDone
<1>5. CASE \E r \in Roots : ExamineFresh(r) \/ ExamineRetried(r)
                            \/ MarkSubmitted(r) \/ MarkOnchain(r)
  BY <1>5 DEF ExamineFresh, ExamineRetried, MarkSubmitted, MarkOnchain
<1>6. CASE \E up \in SUBSET Nodes : QueryStatus(up)
  BY <1>6 DEF QueryStatus
<1>7. CASE OpenFiles \/ SubmitTx \/ SubmitRefused \/ SubmitNothing
           \/ UploadSegments \/ UploadFails
  BY <1>7 DEF OpenFiles, SubmitTx, SubmitRefused, SubmitNothing, UploadSegments,
              UploadFails, BatchFails
<1>8. CASE \E r \in Roots, up \in SUBSET Nodes :
             ReconcileQuery(r, up) \/ PollQuery(r, up)
  BY <1>8 DEF ReconcileQuery, PollQuery
<1>9. CASE ReconcileApply \/ CountRetry \/ GiveUpOrRetry
  BY <1>9 DEF ReconcileApply, CountRetry, GiveUpOrRetry
<1>10. CASE Worker
  BY <1>4, <1>5, <1>6, <1>7, <1>8, <1>9, <1>10 DEF Worker
<1> QED  BY <1>1, <1>2, <1>3, <1>10, HandlerWrites, EnvironmentWrites DEF Next

(* The worker's hands stay free of failed objects. *)
LEMMA HeldNotFailedKept ==
  ASSUME TypeInv, TypeInv', SnapshotSplit, SnapshotQueued, HeldNotFailed,
         [Next]_vars
  PROVE  HeldNotFailed'
<1>1. /\ items \subseteq Roots /\ left \subseteq Roots
      /\ items' \subseteq Roots /\ left' \subseteq Roots
  BY DEF TypeInv, WorkerInv, WorkerTypeOK
<1>2. ASSUME pc' \in Batching \ Reconciling, NEW r \in items' PROVE ~Failed(r)'
  <2>1. ~Failed(r)
    <3>1. pc \in Batching \ Reconciling
      BY <1>2, LeftFrom
    <3>2. r \in items \/ (r \in left /\ pc \in Deciding)
      BY <1>2, ItemsFromQueue
    <3>3. r \in qUpload => ~Failed(r)
      BY DEF Failed, TypeInv, StoreInv, QueueSync
    <3> QED  BY <3>1, <3>2, <3>3 DEF HeldNotFailed, SnapshotQueued
  <2> QED  BY <1>1, <1>2, <2>1, FailedByWorker DEF Batching, Reconciling
<1>3. ASSUME pc' \in Reconciling \cup {"poll", "pollApply"}, NEW r \in left'
      PROVE  ~Failed(r)'
  <2>1. ~Failed(r)
    <3>1. r \in qFinalize => ~Failed(r)
      BY DEF Failed, TypeInv, StoreInv, QueueSync
    <3> QED  BY <1>3, <3>1, LeftFrom DEF HeldNotFailed
  <2> QED  BY <1>1, <1>3, <2>1, FailedByWorker
<1> QED  BY <1>2, <1>3 DEF HeldNotFailed

(* What is written to an object that is not failed, or re-armed. *)
LEMMA ReasonWritten ==
  ASSUME StoreTypeOK, FailReasonCurrent, NEW r \in Roots,
         \A q \in Roots : q # r => objects'[q] = objects[q],
         \/ /\ objects'[r].status = objects[r].status
            /\ objects'[r].failReason = objects[r].failReason
         \/ /\ objects'[r].status # "failed"
            /\ objects'[r].failReason = ""
         \/ /\ objects'[r].status = "failed"
            /\ objects'[r].failReason # ""
  PROVE  FailReasonCurrent'
  BY DEF FailReasonCurrent

(* No step leaves a reason behind or a failure without one. *)
LEMMA ReasonKept ==
  ASSUME TypeInv, SnapshotSplit, SnapshotQueued, ReasonInv, [Next]_vars
  PROVE  FailReasonCurrent'
<1>0. StoreTypeOK /\ FailReasonCurrent /\ HeldNotFailed
  BY DEF TypeInv, StoreInv, ReasonInv
<1>1. CASE UNCHANGED storeVars
  BY <1>0, <1>1 DEF storeVars, FailReasonCurrent
<1>2. ASSUME NEW q \in Roots, Reenqueue(q) PROVE FailReasonCurrent'
  BY <1>0, <1>2, ReasonWritten DEF Reenqueue, mutate, StoreTypeOK, ObjectMeta
<1>3. ASSUME NEW q \in Roots, CreateObject(q) PROVE FailReasonCurrent'
  BY <1>0, <1>3, ReasonWritten DEF CreateObject, StoreTypeOK, ObjectMeta, Absent
<1>4. ASSUME NEW q \in Roots, NEW v, SetSkipTx(q, v) PROVE FailReasonCurrent'
  BY <1>0, <1>4, ReasonWritten DEF SetSkipTx, mutate, StoreTypeOK, ObjectMeta
<1>5. ASSUME NEW q \in Roots, IncRetries(q) PROVE FailReasonCurrent'
  BY <1>0, <1>5, ReasonWritten DEF IncRetries, mutate, StoreTypeOK, ObjectMeta
<1>6. ASSUME NEW q \in Roots, NEW st, NEW tx, ~Failed(q), st # "failed",
             SetStatus(q, st, tx, "")
      PROVE  FailReasonCurrent'
  <2>1. objects[q].failReason = ""
    BY <1>0, <1>6 DEF Failed, FailReasonCurrent
  <2>2. /\ objects'[q].status = st /\ objects'[q].failReason = ""
        /\ \A x \in Roots : x # q => objects'[x] = objects[x]
    BY <1>0, <1>6, <2>1 DEF SetStatus, mutate, StoreTypeOK, ObjectMeta
  <2> QED  BY <1>0, <1>6, <2>2, ReasonWritten
<1>7. ASSUME NEW q \in Roots, NEW tx, NEW why, why # "",
             SetStatus(q, "failed", tx, why)
      PROVE  FailReasonCurrent'
  BY <1>0, <1>7, ReasonWritten DEF SetStatus, mutate, StoreTypeOK, ObjectMeta
<1>8. ASSUME NEW q \in Roots, MarkSubmitted(q) \/ MarkOnchain(q)
      PROVE  FailReasonCurrent'
  <2>1. ~Failed(q)
    BY <1>0, <1>8 DEF MarkSubmitted, MarkOnchain, HeldNotFailed, Batching,
       Reconciling, TypeInv, WorkerInv
  <2> QED  BY <1>6, <1>8, <2>1 DEF MarkSubmitted, MarkOnchain
<1>9. CASE ApplyStatus \/ ReconcileApply \/ GiveUpOrRetry \/ PollApply
  <2>1. cur \in Roots /\ ~Failed(cur)
    BY <1>0, <1>9
       DEF ApplyStatus, ReconcileApply, GiveUpOrRetry, PollApply, HeldNotFailed,
           Batching, Reconciling, Deciding, SnapshotSplit, SnapshotQueued, Failed,
           TypeInv, WorkerInv, StoreInv, QueueSync
  <2> QED  BY <1>4, <1>6, <1>7, <1>9, <2>1
           DEF ApplyStatus, ReconcileApply, GiveUpOrRetry, PollApply
<1>10. CASE Worker
  BY <1>1, <1>5, <1>8, <1>9, <1>10
  DEF Worker, Flush, NextBatch, ExamineFresh, ExamineRetried, QueryStatus,
      NothingToSubmit, BeginSubmit, OpenFiles, SubmitTx, SubmitRefused,
      SubmitNothing, UploadSegments, UploadFails, BatchDone, ReconcileQuery,
      PollQuery, CountRetry, BeginPoll, PollDone, TypeInv, WorkerInv
<1> QED  BY <1>1, <1>2, <1>3, <1>10, HandlerWrites, EnvironmentWrites DEF Next

(* An object shows a failure reason exactly while it is failed: Reenqueue    *)
(* clears the reason, SetStatus never finds one to keep, and both ways to    *)
(* fail give one.                                                            *)
THEOREM ReasonIsCurrent == Spec => []FailReasonCurrent
<1>1. Init => ReasonInv
  <2> SUFFICES ASSUME Init PROVE ReasonInv
    OBVIOUS
  <2>1. \A r \in Roots : objects[r] = Absent
    BY DEF Init, StoreInit
  <2>2. Absent.status = "absent" /\ Absent.failReason = ""
    BY DEF Absent
  <2>3. HeldNotFailed
    BY DEF Init, WorkerInit, HeldNotFailed, Batching, Reconciling
  <2> QED  BY <2>1, <2>2, <2>3 DEF ReasonInv, FailReasonCurrent
<1>2. TypeInv /\ TypeInv' /\ ResubmitInv /\ ReasonInv /\ [Next]_vars => ReasonInv'
  BY HeldNotFailedKept, ReasonKept DEF ReasonInv, ResubmitInv
<1>3. ReasonInv => FailReasonCurrent
  BY DEF ReasonInv
<1> QED  BY <1>1, <1>2, <1>3, TypesAndQueues, ResubmitInvariant, PTL DEF Spec
-----------------------------------------------------------------------------
(* An object failed for exhausted retries has used them, or was re-armed:    *)
(* FailedAfterRetries.                                                       *)

(* The worker decides to give up with the retries used, or a PUT has         *)
(* re-armed the object since.                                                *)
GivesUpLate == pc = "fail" => objects[cur].retries > MaxRetries \/ cur \in rearmed

(* reconcileFailedBatch compares the counter it has just raised, and what a  *)
(* PUT does to it before the status is written is to re-arm the object.      *)
LEMMA GivesUpLateKept ==
  ASSUME TypeInv, ResubmitInv, GivesUpLate, [Next]_vars
  PROVE  GivesUpLate'
<1> DEFINE Used == objects'[cur'].retries > MaxRetries \/ cur' \in rearmed'
<1> SUFFICES ASSUME pc' = "fail" PROVE Used
  BY DEF GivesUpLate
<1>0. StoreTypeOK
  BY DEF TypeInv, StoreInv
<1>1. CASE Worker
  <2>1. CountRetry
    BY <1>1
      DEF Worker, Flush, NextBatch, ExamineFresh, ExamineRetried, QueryStatus,
        ApplyStatus, NothingToSubmit, BatchReturns, BeginSubmit, MarkSubmitted,
        MarkOnchain, OpenFiles, BatchFails, SubmitTx, SubmitRefused,
        SubmitNothing, UploadSegments, UploadFails, BatchDone, ReconcileQuery,
        PollQuery, ReconcileApply, GiveUpOrRetry, BeginPoll, PollApply,
        PollDone, To
  <2> QED  BY <2>1 DEF CountRetry, To
<1>2. ASSUME UNCHANGED workerVars
      PROVE  /\ cur \in Roots /\ Known(cur) /\ cur' = cur
             /\ objects[cur].retries > MaxRetries \/ cur \in rearmed
  BY <1>2 DEF workerVars, loopVars, TypeInv, WorkerInv, ResubmitInv, GivesUpLate,
              SnapshotSplit, SnapshotQueued, Batching, Deciding
<1>3. ASSUME NEW p \in Procs, Begin(p) \/ Handle(p) PROVE Used
  <2>1. ASSUME NEW q \in Roots, Reenqueue(q) PROVE Used
    BY <1>0, <1>2, <1>3, <2>1, HandlerWrites, ReenqueueEffect
  <2>2. ASSUME NEW q \in Roots, CreateObject(q) PROVE Used
    BY <1>0, <1>2, <1>3, <2>2, HandlerWrites, CreateObjectEffect
  <2> QED  BY <1>2, <1>3, <2>1, <2>2, HandlerWrites DEF storeVars
<1>4. CASE Network \/ Fault \/ Crash \/ UNCHANGED vars
  <2>1. pc' # "fail" \/ UNCHANGED workerVars
    BY <1>4, EnvironmentWrites DEF StoreErrorReturns, StoreErrorIgnored,
       BatchReturns, WorkerReset, To
  <2> QED  BY <1>2, <1>4, <2>1, EnvironmentWrites DEF storeVars
<1> QED  BY <1>1, <1>3, <1>4 DEF Next

(* What may be written to one object: another reason or none, the retries    *)
(* used up, or what was there with no fewer retries.                         *)
LEMMA RetriesWritten ==
  ASSUME FailedAfterRetries, NEW r \in Roots,
         \A q \in Roots : q # r => objects'[q] = objects[q],
         rearmed \ {r} \subseteq rearmed',
         \/ objects'[r].failReason # "retries exhausted"
         \/ objects'[r].retries > MaxRetries \/ r \in rearmed'
         \/ /\ objects'[r].failReason = objects[r].failReason
            /\ objects[r].retries > MaxRetries => objects'[r].retries > MaxRetries
            /\ rearmed \subseteq rearmed'
  PROVE  FailedAfterRetries'
  BY DEF FailedAfterRetries

(* No step fails an object early, nor takes back what excuses its failure:   *)
(* only marking it submitted ends a re-arming, and that is no failure.       *)
LEMMA FailedAfterRetriesKept ==
  ASSUME TypeInv, FailReasonCurrent', GivesUpLate, FailedAfterRetries, [Next]_vars
  PROVE  FailedAfterRetries'
<1>0. StoreTypeOK
  BY DEF TypeInv, StoreInv
<1>1. CASE UNCHANGED storeVars
  BY <1>1 DEF storeVars, FailedAfterRetries
<1>2. ASSUME NEW q \in Roots, Reenqueue(q) PROVE FailedAfterRetries'
  BY <1>0, <1>2, ReenqueueEffect, RetriesWritten
<1>3. ASSUME NEW q \in Roots, CreateObject(q) PROVE FailedAfterRetries'
  <2>1. objects'[q].failReason # "retries exhausted"
    BY <1>0, <1>3, CreateObjectEffect DEF FailReasonCurrent
  <2> QED  BY <1>0, <1>3, <2>1, CreateObjectEffect, RetriesWritten
<1>4. ASSUME NEW q \in Roots, NEW v, SetSkipTx(q, v) PROVE FailedAfterRetries'
  <2>1. objects'[q].failReason = objects[q].failReason
    BY <1>0, <1>4 DEF SetSkipTx, mutate, StoreTypeOK, ObjectMeta
  <2> QED  BY <1>0, <1>4, <2>1, SetSkipTxEffect, RetriesWritten
<1>5. ASSUME NEW q \in Roots, IncRetries(q) PROVE FailedAfterRetries'
  <2>1. /\ objects'[q].failReason = objects[q].failReason
        /\ objects[q].retries \in Nat
    BY <1>0, <1>5 DEF IncRetries, mutate, StoreTypeOK, ObjectMeta
  <2>2. objects[q].retries > MaxRetries => objects'[q].retries > MaxRetries
    BY <1>0, <1>5, <2>1, IncRetriesEffect, UploaderAssumption
  <2> QED  BY <1>0, <1>5, <2>1, <2>2, IncRetriesEffect, RetriesWritten
<1>6. ASSUME NEW q \in Roots, NEW st, NEW tx, st # "failed", SetStatus(q, st, tx, "")
      PROVE  FailedAfterRetries'
  <2>1. objects'[q].status = st /\ rearmed \ {q} \subseteq rearmed'
        /\ \A x \in Roots : x # q => objects'[x] = objects[x]
    BY <1>0, <1>6, SetStatusEffect
  <2>2. objects'[q].failReason # "retries exhausted"
    BY <1>6, <2>1 DEF FailReasonCurrent
  <2> QED  BY <2>1, <2>2, RetriesWritten
<1>7. ASSUME NEW q \in Roots, NEW tx, NEW why,
             SetStatus(q, "failed", tx, why), why # "",
             why = "retries exhausted" =>
               objects[q].retries > MaxRetries \/ q \in rearmed
      PROVE  FailedAfterRetries'
  <2>1. objects'[q].failReason = why
    BY <1>0, <1>7 DEF SetStatus, mutate, StoreTypeOK, ObjectMeta
  <2>2. /\ objects'[q].retries = objects[q].retries /\ rearmed' = rearmed
        /\ \A x \in Roots : x # q => objects'[x] = objects[x]
    BY <1>0, <1>7, SetStatusEffect
  <2> QED  BY <1>7, <2>1, <2>2, RetriesWritten
<1>8. ASSUME NEW q \in Roots, MarkSubmitted(q) \/ MarkOnchain(q)
      PROVE  FailedAfterRetries'
  BY <1>6, <1>8 DEF MarkSubmitted, MarkOnchain
<1>9. CASE ApplyStatus \/ ReconcileApply \/ CountRetry \/ GiveUpOrRetry \/ PollApply
  <2>1. cur \in Roots
    BY <1>9 DEF ApplyStatus, ReconcileApply, CountRetry, GiveUpOrRetry, PollApply,
       TypeInv, WorkerInv
  <2>2. CASE GiveUpOrRetry
    BY <1>6, <1>7, <2>1, <2>2 DEF GiveUpOrRetry, GivesUpLate
  <2> QED  BY <1>4, <1>5, <1>6, <1>7, <1>9, <2>1, <2>2
           DEF ApplyStatus, ReconcileApply, CountRetry, PollApply
<1>10. CASE Worker
  BY <1>1, <1>8, <1>9, <1>10
  DEF Worker, Flush, NextBatch, ExamineFresh, ExamineRetried, QueryStatus,
      NothingToSubmit, BeginSubmit, OpenFiles, SubmitTx, SubmitRefused,
      SubmitNothing, UploadSegments, UploadFails, BatchDone, ReconcileQuery,
      PollQuery, BeginPoll, PollDone
<1> QED  BY <1>1, <1>2, <1>3, <1>10, HandlerWrites, EnvironmentWrites DEF Next

(* An object is failed for exhausted retries only after more than MaxRetries *)
(* attempts, except one a PUT re-armed since it was last marked submitted:   *)
(* the worker may then overrule the PUT, and nothing else undercuts the      *)
(* limit, neither a crash nor a failed transaction nor a race.               *)
THEOREM RetriesAreUsed == Spec => []FailedAfterRetries
<1>1. Init => GivesUpLate /\ FailedAfterRetries
  <2> SUFFICES ASSUME Init PROVE GivesUpLate /\ FailedAfterRetries
    OBVIOUS
  <2>1. \A r \in Roots : objects[r] = Absent
    BY DEF Init, StoreInit
  <2>2. Absent.failReason = ""
    BY DEF Absent
  <2> QED  BY <2>1, <2>2 DEF Init, WorkerInit, GivesUpLate, FailedAfterRetries
<1>2. TypeInv /\ ResubmitInv /\ FailReasonCurrent' /\ GivesUpLate
      /\ FailedAfterRetries /\ [Next]_vars => (GivesUpLate /\ FailedAfterRetries)'
  BY GivesUpLateKept, FailedAfterRetriesKept
<1> QED  BY <1>1, <1>2, TypesAndQueues, ResubmitInvariant, ReasonIsCurrent, PTL
         DEF Spec
=============================================================================
