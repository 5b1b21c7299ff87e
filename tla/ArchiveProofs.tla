---------------------------- MODULE ArchiveProofs ----------------------------
(* The gateway implements Archive, for any contents, nodes, clients, batch   *)
(* size and bounds.  What it takes beyond the invariants proved so far is    *)
(* that the worker writes an outcome only to an object that is still under   *)
(* way, although a handler may write to the same record at any time.         *)
EXTENDS ResubmitProofs

(* The worker's hands hold nothing but queued objects, and those it polls    *)
(* for are onchain or were queued again.                                     *)
HeldUnderWay ==
  /\ pc \in Batching \ (Reconciling \cup {"onchain"}) => items \subseteq qUpload
  /\ pc \in Reconciling \cup {"onchain"} => left \subseteq qUpload
  /\ pc \in {"poll", "pollApply"} => left \subseteq qUpload \cup qFinalize
-----------------------------------------------------------------------------
(* The status of one object changes. *)
Writes(r, st) ==
  /\ objects'[r].status = st
  /\ \A q \in Roots : q # r => objects'[q].status = objects[q].status

Finishes(r) == left' = left \ {r} /\ r \in left /\ items' = items

(* What the worker writes, where, and that it is then done with the object. *)
WorkerWrites(r, st) ==
  \/ st = "submitted" /\ pc = "mark" /\ pc' = "mark" /\ Finishes(r)
  \/ st = "onchain" /\ pc = "onchain" /\ pc' = "onchain" /\ Finishes(r)
  \/ st = "finalized" /\ pc = "apply" /\ pc' = "examine" /\ Finishes(r)
  \/ st = "finalized" /\ pc = "reconApply" /\ pc' = "recon" /\ Finishes(r)
  \/ st \in {"finalized", "failed"} /\ pc = "pollApply" /\ pc' = "poll" /\ Finishes(r)
  \/ st = "failed" /\ pc = "fail" /\ pc' = "recon" /\ Finishes(r)
  \/ st = "pending" /\ pc = "requeue" /\ pc' = "recon" /\ Finishes(r)

SameStatuses == \A q \in Roots : objects'[q].status = objects[q].status

(* What SetStatus does to the statuses. *)
LEMMA SetStatusWrites ==
  ASSUME StoreTypeOK, NEW r \in Roots, NEW st, NEW tx, NEW why,
         SetStatus(r, st, tx, why)
  PROVE  Writes(r, st)
  BY DEF SetStatus, mutate, StoreTypeOK, ObjectMeta, Writes

(* Counting a retry or noting SkipTx leaves every status alone. *)
LEMMA CountersKeepStatus ==
  ASSUME StoreTypeOK, NEW r \in Roots, NEW v, IncRetries(r) \/ SetSkipTx(r, v)
  PROVE  SameStatuses
  BY DEF IncRetries, SetSkipTx, mutate, StoreTypeOK, ObjectMeta, SameStatuses

(* A worker step writes one status, in one of the places above, or none. *)
LEMMA WorkerStatuses ==
  ASSUME TypeInv, SnapshotSplit, Worker
  PROVE  \/ SameStatuses
         \/ /\ UNCHANGED chainVars
            /\ \E r \in Roots, st \in Status : Writes(r, st) /\ WorkerWrites(r, st)
<1> USE DEF Status
<1>0. StoreTypeOK
  BY DEF TypeInv, StoreInv
<1>1. CASE UNCHANGED storeVars
  BY <1>1 DEF storeVars, SameStatuses
<1>2. ASSUME NEW r \in Roots, MarkSubmitted(r)
      PROVE  Writes(r, "submitted") /\ WorkerWrites(r, "submitted")
  BY <1>0, <1>2, SetStatusWrites
     DEF MarkSubmitted, WorkerWrites, Visited, Finishes, batchVars
<1>3. ASSUME NEW r \in Roots, MarkOnchain(r)
      PROVE  Writes(r, "onchain") /\ WorkerWrites(r, "onchain")
  BY <1>0, <1>3, SetStatusWrites
     DEF MarkOnchain, WorkerWrites, Visited, Finishes, batchVars
<1>4. CASE ApplyStatus
  <2>1. cur \in Roots /\ cur \in left
    BY <1>4 DEF ApplyStatus, TypeInv, WorkerInv, SnapshotSplit
  <2>2. CASE ans = "finalized"
    <3>1. Writes(cur, "finalized") /\ WorkerWrites(cur, "finalized")
      BY <1>0, <1>4, <2>1, <2>2, SetStatusWrites
         DEF ApplyStatus, WorkerWrites, Visited, To, Finishes, batchVars
    <3> QED  BY <1>4, <2>1, <3>1 DEF ApplyStatus
  <2>3. CASE ans # "finalized"
    BY <1>0, <1>4, <2>1, <2>3, CountersKeepStatus DEF ApplyStatus
  <2> QED  BY <2>2, <2>3
<1>5. CASE ReconcileApply
  <2>1. cur \in Roots /\ cur \in left
    BY <1>5 DEF ReconcileApply, TypeInv, WorkerInv, SnapshotSplit
  <2>2. CASE ans = "finalized"
    <3>1. Writes(cur, "finalized") /\ WorkerWrites(cur, "finalized")
      BY <1>0, <1>5, <2>1, <2>2, SetStatusWrites
         DEF ReconcileApply, WorkerWrites, Visited, To, Finishes, batchVars
    <3> QED  BY <1>5, <2>1, <3>1 DEF ReconcileApply
  <2>3. CASE ans # "finalized"
    BY <1>0, <1>5, <2>1, <2>3, CountersKeepStatus DEF ReconcileApply
  <2> QED  BY <2>2, <2>3
<1>6. CASE CountRetry
  BY <1>0, <1>6, CountersKeepStatus DEF CountRetry, TypeInv, WorkerInv
<1>7. CASE GiveUpOrRetry
  <2>1. cur \in Roots /\ cur \in left
    BY <1>7 DEF GiveUpOrRetry, TypeInv, WorkerInv, SnapshotSplit
  <2>2. \/ Writes(cur, "failed") /\ WorkerWrites(cur, "failed")
        \/ Writes(cur, "pending") /\ WorkerWrites(cur, "pending")
    BY <1>0, <1>7, <2>1, SetStatusWrites
       DEF GiveUpOrRetry, WorkerWrites, Visited, To, Finishes, batchVars
  <2> QED  BY <1>7, <2>1, <2>2 DEF GiveUpOrRetry
<1>8. CASE PollApply
  <2>1. cur \in Roots /\ cur \in left
    BY <1>8 DEF PollApply, TypeInv, WorkerInv, SnapshotSplit
  <2>2. \/ Writes(cur, "failed") /\ WorkerWrites(cur, "failed")
        \/ Writes(cur, "finalized") /\ WorkerWrites(cur, "finalized")
    BY <1>0, <1>8, <2>1, SetStatusWrites
       DEF PollApply, WorkerWrites, Visited, To, Finishes, batchVars
  <2> QED  BY <1>8, <2>1, <2>2 DEF PollApply
<1>9. ASSUME NEW r \in Roots, MarkSubmitted(r) \/ MarkOnchain(r)
      PROVE  UNCHANGED chainVars
  BY <1>9 DEF MarkSubmitted, MarkOnchain
<1> QED  BY <1>1, <1>2, <1>3, <1>4, <1>5, <1>6, <1>7, <1>8, <1>9
  DEF Worker, Flush, NextBatch, ExamineFresh, ExamineRetried, QueryStatus,
      NothingToSubmit, BeginSubmit, OpenFiles, SubmitTx, SubmitRefused,
      SubmitNothing, UploadSegments, UploadFails, BatchDone, ReconcileQuery,
      PollQuery, BeginPoll, PollDone

(* A handler's step writes one status, when its PUT commits, or none. *)
LEMMA HandlerStatuses ==
  ASSUME TypeInv, NEW p \in Procs, Begin(p) \/ Handle(p)
  PROVE  \/ SameStatuses
         \/ /\ cpc[p] \in {"rearm", "create"} /\ croot[p] \in Roots
            /\ Writes(croot[p], "pending")
            /\ cpc' = [cpc EXCEPT ![p] = "idle"]
            /\ croot' = [croot EXCEPT ![p] = NoContent]
<1>0. StoreTypeOK
  BY DEF TypeInv, StoreInv
<1>1. CASE UNCHANGED storeVars
  BY <1>1 DEF storeVars, SameStatuses
<1>2. CASE Rearm(p) \/ Create(p)
  <2>1. croot[p] \in Roots
    BY <1>2 DEF Rearm, Create, TypeInv, HandlerInv
  <2>2. Reenqueue(croot[p]) => Writes(croot[p], "pending")
    BY <1>0, <2>1 DEF Reenqueue, mutate, StoreTypeOK, ObjectMeta, Writes
  <2>3. CreateObject(croot[p]) => Writes(croot[p], "pending")
    BY <1>0, <2>1, CreateObjectEffect DEF Writes
  <2> QED  BY <1>1, <1>2, <2>1, <2>2, <2>3 DEF Rearm, Create, ErrExists, Return, Goto
<1> QED  BY <1>1, <1>2
     DEF Begin, BeginPut, BeginOpen, Handle, HandlerStep, noteAdded,
         OverLimit, AcquireEvicting, ListCandidates, Debit, ReleaseEvicting,
         EvictOne, EvictRefused, ShouldRejectWrite, Lookup, Decide, Salvage,
         RenameFresh, OpenCached, Download, Restore, Reopen, ReopenFails,
         RequestFails

(* The network, faults and crashes write none. *)
LEMMA EnvironmentStatuses ==
  ASSUME Network \/ Fault \/ Crash \/ UNCHANGED vars
  PROVE  SameStatuses
  BY EnvironmentWrites DEF storeVars, SameStatuses

(* Marking onchain follows the upload of the whole batch and ends it. *)
LEMMA OnchainPhase ==
  ASSUME TypeInv, SnapshotSplit, [Next]_vars
  PROVE  /\ pc = "onchain" => pc' \notin Batching \ {"onchain"}
         /\ pc' = "onchain" => \/ pc = "onchain" /\ left' \subseteq left
                               \/ pc = "segments" /\ left' \subseteq items
<1> USE DEF SnapshotSplit, Batching, Deciding, To, Visited, ForgetQuery, batchVars
<1>1. CASE UNCHANGED workerVars
  BY <1>1 DEF workerVars, loopVars
<1>2. CASE StoreErrorReturns \/ StoreErrorIgnored \/ WorkerReset
  BY <1>2 DEF StoreErrorReturns, StoreErrorIgnored, BatchReturns, WorkerReset
<1>3. CASE Flush \/ NextBatch \/ ApplyStatus \/ NothingToSubmit \/ BeginSubmit
           \/ BatchDone \/ BeginPoll \/ PollApply \/ PollDone
  BY <1>3 DEF Flush, NextBatch, ApplyStatus, NothingToSubmit, BatchReturns,
              BeginSubmit, BatchDone, BeginPoll, PollApply, PollDone
<1>4. CASE \E r \in Roots : ExamineFresh(r) \/ ExamineRetried(r)
                            \/ MarkSubmitted(r) \/ MarkOnchain(r)
  BY <1>4 DEF ExamineFresh, ExamineRetried, MarkSubmitted, MarkOnchain
<1>5. CASE \E up \in SUBSET Nodes : QueryStatus(up)
  BY <1>5 DEF QueryStatus
<1>6. CASE OpenFiles \/ SubmitTx \/ SubmitRefused \/ SubmitNothing
           \/ UploadSegments \/ UploadFails
  BY <1>6 DEF OpenFiles, SubmitTx, SubmitRefused, SubmitNothing, UploadSegments,
              UploadFails, BatchFails
<1>7. CASE \E r \in Roots, up \in SUBSET Nodes :
             ReconcileQuery(r, up) \/ PollQuery(r, up)
  BY <1>7 DEF ReconcileQuery, PollQuery
<1>8. CASE ReconcileApply \/ CountRetry \/ GiveUpOrRetry
  BY <1>8 DEF ReconcileApply, CountRetry, GiveUpOrRetry
<1>9. CASE Worker
  BY <1>3, <1>4, <1>5, <1>6, <1>7, <1>8, <1>9 DEF Worker
<1> QED  BY <1>1, <1>2, <1>9, HandlerWrites, EnvironmentWrites DEF Next

(* An object stops being under way only when the worker finishes with it. *)
LEMMA TakenOff ==
  ASSUME TypeInv, TypeInv', SnapshotSplit, [Next]_vars, NEW r \in Roots,
         \/ r \in qUpload /\ r \notin qUpload'
         \/ r \in qUpload \cup qFinalize /\ r \notin (qUpload \cup qFinalize)'
  PROVE  /\ r \notin left'
         /\ \/ pc' \in {"onchain", "recon", "poll"}
            \/ pc' = "examine" /\ r \notin items'
<1>1. ASSUME NEW q \in Roots
      PROVE  /\ q \in qUpload <=> objects[q].status \in {"pending", "submitted"}
             /\ q \in qFinalize <=> objects[q].status = "onchain"
             /\ q \in qUpload' <=> objects'[q].status \in {"pending", "submitted"}
             /\ q \in qFinalize' <=> objects'[q].status = "onchain"
  BY DEF TypeInv, StoreInv, QueueSync
<1>2. objects'[r].status # objects[r].status
      /\ objects'[r].status \notin {"pending", "submitted"}
  BY <1>1
<1>3. ~SameStatuses
  BY <1>2 DEF SameStatuses
<1>4. ASSUME NEW p \in Procs, Begin(p) \/ Handle(p) PROVE FALSE
  BY <1>2, <1>3, <1>4, HandlerStatuses DEF Writes
<1>5. CASE Worker
  <2>1. PICK q \in Roots, st \in Status : Writes(q, st) /\ WorkerWrites(q, st)
    BY <1>3, <1>5, WorkerStatuses
  <2>2. q = r /\ st \notin {"pending", "submitted"}
    BY <1>2, <2>1 DEF Writes
  <2> QED  BY <2>1, <2>2 DEF WorkerWrites, Finishes, SnapshotSplit, Deciding
<1> QED  BY <1>3, <1>4, <1>5, EnvironmentStatuses DEF Next

(* What the worker holds stays under way. *)
LEMMA HeldUnderWayKept ==
  ASSUME TypeInv, TypeInv', SnapshotSplit, SnapshotQueued, HeldUnderWay,
         [Next]_vars
  PROVE  HeldUnderWay'
<1>1. /\ items \subseteq Roots /\ left \subseteq Roots
      /\ items' \subseteq Roots /\ left' \subseteq Roots
  BY DEF TypeInv, WorkerInv, WorkerTypeOK
<1>2. ASSUME pc' \in Batching \ (Reconciling \cup {"onchain"}), NEW r \in items'
      PROVE  r \in qUpload'
  <2>1. pc \in Batching \ (Reconciling \cup {"onchain"})
    BY <1>2, LeftFrom, OnchainPhase
  <2>2. r \in items \/ (r \in left /\ pc \in Deciding)
    BY <1>2, ItemsFromQueue
  <2>3. r \in qUpload
    BY <2>1, <2>2 DEF HeldUnderWay, SnapshotQueued
  <2> QED  BY <1>1, <1>2, <2>3, TakenOff DEF Batching, Reconciling
<1>3. ASSUME pc' \in Reconciling \cup {"onchain"}, NEW r \in left'
      PROVE  r \in qUpload'
  <2>1. r \in qUpload
    BY <1>3, LeftFrom, OnchainPhase DEF HeldUnderWay, Batching, Reconciling
  <2> QED  BY <1>1, <1>3, <2>1, TakenOff
<1>4. ASSUME pc' \in {"poll", "pollApply"}, NEW r \in left'
      PROVE  r \in (qUpload \cup qFinalize)'
  <2>1. r \in qUpload \cup qFinalize
    BY <1>4, LeftFrom DEF HeldUnderWay
  <2> QED  BY <1>1, <1>4, <2>1, TakenOff
<1> QED  BY <1>2, <1>3, <1>4 DEF HeldUnderWay
-----------------------------------------------------------------------------
(* The steps of the archive. *)

(* Statuses that stay give records that stay. *)
LEMMA SameRecord ==
  ASSUME SameStatuses
  PROVE  Record' = Record
  BY DEF SameStatuses, Record

(* The network was given known contents only. *)
LEMMA NetworkTakes ==
  ASSUME TypeInv, TypeInv', [Next]_vars, AttemptRemembered', SameStatuses
  PROVE  \E rs \in SUBSET {r \in Roots : Record[r] # "absent"} :
           Transferred' = Transferred \cup rs
<1>1. Transferred \subseteq Transferred'
  BY ChainGrows DEF Transferred, Taken, TypeInv, ChainTypeOK
<1>2. Transferred' \subseteq {r \in Roots : Record[r] # "absent"}
  <2> SUFFICES ASSUME NEW r \in Transferred' PROVE r \in Roots /\ Record[r] # "absent"
    OBVIOUS
  <2>1. r \in Roots
    BY DEF Transferred, Taken, TypeInv, ChainTypeOK
  <2> QED  BY <2>1 DEF AttemptRemembered, Transferred, Known, SameStatuses, Record, RecordOf
<1> QED  BY <1>1, <1>2

(* A handler's step is a PUT that commits, or clients coming and going. *)
LEMMA HandlerImplements ==
  ASSUME TypeInv, TypeInv', NEW p \in Procs, Begin(p) \/ Handle(p)
  PROVE  Promise!ArchiveNext
<1>1. Transferred' = Transferred
  BY HandlerWrites DEF Transferred, Taken, chainVars
<1>2. CASE SameStatuses
  <2>1. Committing' \subseteq Roots
    BY DEF TypeInv, HandlerInv, Committing
  <2>2. Promise!Request
    BY <1>1, <1>2, <2>1, SameRecord DEF Promise!Request
  <2> QED  BY <2>2 DEF Promise!ArchiveNext
<1>3. CASE ~SameStatuses
  <2>1. /\ cpc[p] \in {"rearm", "create"} /\ croot[p] \in Roots
        /\ Writes(croot[p], "pending")
        /\ cpc' = [cpc EXCEPT ![p] = "idle"]
        /\ croot' = [croot EXCEPT ![p] = NoContent]
    BY <1>3, HandlerStatuses
  <2>2. cpc \in [Procs -> HandlerPC]
    BY DEF TypeInv, HandlerInv, ServiceTypeOK
  <2>3. croot \in [Procs -> Roots \cup {NoContent}]
    BY DEF TypeInv, HandlerInv, ServiceTypeOK
  <2>4. croot[p] \in Committing
    BY <2>1 DEF Committing
  <2>5. Committing' \subseteq Committing
    BY <2>1, <2>2, <2>3 DEF Committing
  <2>6. Record' = [Record EXCEPT ![croot[p]] = "queued"]
    BY <2>1 DEF Record, RecordOf, Writes
  <2>7. Record[croot[p]] \in {"absent", "queued", "onchain", "finalized", "failed"}
    BY <2>1 DEF Record, RecordOf, TypeInv, StoreInv, StoreTypeOK, ObjectMeta, Status
  <2>8. Promise!Accept(croot[p])
    BY <1>1, <2>4, <2>5, <2>6, <2>7 DEF Promise!Accept, Promise!Move
  <2> QED  BY <2>1, <2>8 DEF Promise!ArchiveNext
<1> QED  BY <1>2, <1>3

(* A worker's step moves a record on as it may, hands contents to the        *)
(* network, or cannot be seen.                                               *)
LEMMA WorkerImplements ==
  ASSUME TypeInv, TypeInv', SnapshotSplit, SnapshotQueued, HeldUnderWay, Worker,
         OnchainSound', AttemptRemembered'
  PROVE  Promise!ArchiveNext
<1>1. Committing' = Committing
  BY DEF Worker, Committing, serviceVars, reqVars
<1>2. CASE SameStatuses
  <2>1. Promise!Transfer
    BY <1>1, <1>2, NetworkTakes, SameRecord DEF Promise!Transfer, Next
  <2> QED  BY <2>1 DEF Promise!ArchiveNext
<1>3. CASE ~SameStatuses
  <2>1. PICK r \in Roots, st \in Status : Writes(r, st) /\ WorkerWrites(r, st)
    BY <1>3, WorkerStatuses
  <2>2. Transferred' = Transferred
    BY <1>3, WorkerStatuses DEF Transferred, Taken, chainVars
  <2>3. Record' = [Record EXCEPT ![r] = RecordOf(st)]
    BY <2>1 DEF Record, Writes
  <2>4. st \in {"onchain", "finalized"} => r \in Transferred
    <3>1. st \in {"onchain", "finalized"} => r \in Transferred'
      BY <2>1 DEF OnchainSound, Transferred, Taken, Writes
    <3> QED  BY <2>2, <3>1
  <2>5. \/ Record[r] = "queued"
        \/ st \in {"finalized", "failed"} /\ Record[r] = "onchain"
    <3>1. r \in qUpload => Record[r] = "queued"
      BY DEF Record, RecordOf, TypeInv, StoreInv, QueueSync
    <3>2. r \in qFinalize => Record[r] = "onchain"
      BY DEF Record, RecordOf, TypeInv, StoreInv, QueueSync
    <3>3. r \in qUpload \/ (pc = "pollApply" /\ r \in qFinalize)
      BY <2>1 DEF WorkerWrites, Finishes, HeldUnderWay, SnapshotQueued, Batching,
         Reconciling, Deciding, TypeInv, WorkerInv
    <3> QED  BY <2>1, <3>1, <3>2, <3>3 DEF WorkerWrites
  <2>6. CASE st \in {"pending", "submitted"}
    <3>1. Record' = Record
      BY <2>3, <2>5, <2>6 DEF Record, RecordOf
    <3>2. Transferred' = Transferred \cup {}
      BY <2>2
    <3>3. Promise!Transfer
      BY <1>1, <3>1, <3>2 DEF Promise!Transfer
    <3> QED  BY <3>3 DEF Promise!ArchiveNext
  <2>7. CASE st = "onchain"
    <3>1. Promise!Announce(r)
      BY <1>1, <2>2, <2>3, <2>4, <2>5, <2>7
         DEF Promise!Announce, Promise!Move, RecordOf
    <3> QED  BY <3>1 DEF Promise!ArchiveNext
  <2>8. CASE st = "finalized"
    <3>1. Promise!Finalize(r)
      BY <1>1, <2>2, <2>3, <2>4, <2>5, <2>8
         DEF Promise!Finalize, Promise!Move, RecordOf
    <3> QED  BY <3>1 DEF Promise!ArchiveNext
  <2>9. CASE st = "failed"
    <3>1. Promise!GiveUp(r)
      BY <1>1, <2>2, <2>3, <2>5, <2>9 DEF Promise!GiveUp, Promise!Move, RecordOf
    <3> QED  BY <3>1 DEF Promise!ArchiveNext
  <2> QED  BY <2>1, <2>6, <2>7, <2>8, <2>9 DEF Status
<1> QED  BY <1>2, <1>3

(* The network, faults and crashes at most take clients away. *)
LEMMA EnvironmentImplements ==
  ASSUME TypeInv', Network \/ Fault \/ Crash \/ UNCHANGED vars
  PROVE  Promise!ArchiveNext
<1>1. Taken' = Taken
  <2>1. ASSUME NEW n \in Nodes, NEW r \in Roots, NodePrune(n, r) PROVE Taken' = Taken
    BY <2>1 DEF NodePrune, Taken
  <2>2. CASE UNCHANGED <<stored, pruned>>
    BY <2>2 DEF Taken
  <2> QED  BY <2>1, <2>2 DEF Network, Fault, StoreError, Crash, NodeSync,
                             NodeFinalize, vars, chainVars
<1>2. Transferred' = Transferred
  BY <1>1, EnvironmentWrites DEF Transferred
<1>3. Committing' \subseteq Roots
  BY DEF TypeInv, HandlerInv, Committing
<1>4. Promise!Request
  BY <1>2, <1>3, SameRecord, EnvironmentStatuses DEF Promise!Request
<1> QED  BY <1>4 DEF Promise!ArchiveNext

(* Handlers, worker, network, faults and crashes together implement Archive: *)
(* no content is forgotten, onchain and finalized are said only of what the  *)
(* network was given, and a content leaves finalized or failed only for a    *)
(* PUT of the same bytes.                                                    *)
THEOREM GatewayImplementsArchive == Spec => ImplementsArchive
<1>1. Init => Promise!ArchiveInit
  <2> SUFFICES ASSUME Init PROVE Promise!ArchiveInit
    OBVIOUS
  <2>1. Record = [r \in Roots |-> "absent"]
    BY DEF Init, StoreInit, Absent, Record, RecordOf
  <2>2. Transferred = {} /\ Committing = {}
    BY DEF Init, ChainInit, ServiceInit, Transferred, Taken, Committing
  <2> QED  BY <2>1, <2>2 DEF Promise!ArchiveInit
<1>2. Init => HeldUnderWay
  BY DEF Init, WorkerInit, HeldUnderWay, Batching, Reconciling
<1>3. TypeInv /\ TypeInv' /\ ResubmitInv /\ HeldUnderWay /\ [Next]_vars
        => HeldUnderWay'
  BY HeldUnderWayKept DEF ResubmitInv
<1>4. /\ TypeInv /\ TypeInv' /\ ResubmitInv /\ ResubmitInv' /\ HeldUnderWay
      /\ OnchainSound' /\ [Next]_vars
      => [Promise!ArchiveNext]_(Promise!archiveVars)
  BY HandlerImplements, WorkerImplements, EnvironmentImplements
     DEF ResubmitInv, Next
<1> QED  BY <1>1, <1>2, <1>3, <1>4, TypesAndQueues, ResubmitInvariant,
            OnchainIsSound, PTL
         DEF Spec, ImplementsArchive, Promise!ArchiveSpec
=============================================================================
