---------------------------- MODULE GatewayProofs ----------------------------
(* Safety of the gateway for any contents, nodes, clients and bounds.  The   *)
(* invariant is built in layers, each proved from the ones before it: types  *)
(* and control, then what the worker knows of the network.                   *)
EXTENDS Gateway, ObjectStoreProofs

-----------------------------------------------------------------------------
(* Layer 1: types, and which local variables mean something where.           *)

(* The worker's query is about a content where it acts on the answer, and a  *)
(* loop over the batch visits members of the batch.                          *)
WorkerInv ==
  /\ WorkerTypeOK
  /\ pc \in {"query", "apply", "reconApply", "count", "requeue", "fail",
             "pollApply"} => cur \in Roots
  /\ pc \in {"mark", "onchain"} => left \subseteq items

(* A handler under way has a content; a sweep of the main goroutine has none *)
(* and needs none.                                                           *)
HandlerInv ==
  /\ ServiceTypeOK
  /\ \A p \in Procs :
       \/ cpc[p] \in {"admit", "lookup", "decide", "salvage", "rename", "note",
                      "rearm", "create", "open", "download", "restore", "reopen"}
       \/ cret[p] # "idle"
       => croot[p] \in Roots

TypeInv ==
  StoreInv /\ ChainTypeOK /\ CacheTypeOK /\ WorkerInv /\ HandlerInv

(* A status query answers with one of the five results. *)
LEMMA FileStatusType ==
  ASSUME NEW r, NEW up
  PROVE  FileStatus(r, up) \in FileStatuses
  BY DEF FileStatus, FileStatuses

(* The initial state satisfies layer 1. *)
LEMMA TypeInit == Init => TypeInv
<1> SUFFICES ASSUME Init PROVE TypeInv
  OBVIOUS
<1>1. StoreInv
  BY StoreInitInv DEF Init
<1>2. ChainTypeOK /\ CacheTypeOK
  BY ChainAssumption DEF Init, ChainInit, CacheInit, ChainTypeOK, CacheTypeOK,
     NodeInfo, CacheStates
<1>3. WorkerInv
  BY ChainAssumption DEF Init, WorkerInit, WorkerInv, WorkerTypeOK, WorkerPC,
     FileStatuses, NoTx
<1>4. HandlerInv
  BY DEF Init, ServiceInit, HandlerInv, ServiceTypeOK, HandlerPC, Status
<1> QED  BY <1>1, <1>2, <1>3, <1>4 DEF TypeInv

(* Each step of the worker is one store transaction or none. *)
LEMMA WorkerStore ==
  ASSUME TypeInv, Worker
  PROVE  StoreInv'
<1> USE DEF TypeInv, WorkerInv, WorkerTypeOK
<1>1. CASE UNCHANGED storeVars
  BY <1>1, StoreStutterInv
<1>2. CASE ApplyStatus
  <2>1. cur \in Roots
    BY <1>2 DEF ApplyStatus
  <2> QED  BY <1>2, <2>1, SetStatusInv, SetSkipTxInv
           DEF ApplyStatus, Status, FailReason, NoTx
<1>3. CASE \E r \in Roots : MarkSubmitted(r) \/ MarkOnchain(r)
  <2>1. PICK r \in Roots : MarkSubmitted(r) \/ MarkOnchain(r)
    BY <1>3
  <2>2. wtx \in Nat
    BY ChainAssumption
  <2>3. CASE MarkSubmitted(r)
    BY <2>3, SetStatusInv DEF MarkSubmitted, Status, FailReason, NoTx
  <2>4. CASE MarkOnchain(r)
    BY <2>2, <2>4, SetStatusInv DEF MarkOnchain, Status, FailReason, NoTx
  <2> QED  BY <2>1, <2>3, <2>4
<1>4. CASE ReconcileApply
  <2>1. cur \in Roots
    BY <1>4 DEF ReconcileApply
  <2> QED  BY <1>4, <2>1, SetStatusInv, SetSkipTxInv
           DEF ReconcileApply, Status, FailReason, NoTx
<1>5. CASE CountRetry
  BY <1>5, IncRetriesInv DEF CountRetry
<1>6. CASE GiveUpOrRetry
  <2>1. cur \in Roots
    BY <1>6 DEF GiveUpOrRetry
  <2> QED  BY <1>6, <2>1, SetStatusInv DEF GiveUpOrRetry, Status, FailReason, NoTx
<1>7. CASE PollApply
  <2>1. cur \in Roots
    BY <1>7 DEF PollApply
  <2> QED  BY <1>7, <2>1, SetStatusInv DEF PollApply, Status, FailReason, NoTx
<1> QED  BY <1>1, <1>2, <1>3, <1>4, <1>5, <1>6, <1>7
  DEF Worker, Flush, NextBatch, ExamineFresh, ExamineRetried, QueryStatus,
      NothingToSubmit, BeginSubmit, OpenFiles, SubmitTx, SubmitRefused,
      SubmitNothing, UploadSegments, UploadFails, BatchDone, ReconcileQuery,
      PollQuery, BeginPoll, PollDone

(* The worker's steps keep its own variables in order. *)
LEMMA WorkerKeepsWorker ==
  ASSUME TypeInv, Worker
  PROVE  WorkerInv'
<1> USE DEF TypeInv, WorkerInv, WorkerTypeOK, WorkerPC, FileStatuses,
            batchVars, To, Visited, ForgetQuery
<1>1. CASE Flush
  BY <1>1 DEF Flush, StoreInv, StoreTypeOK
<1>2. CASE NextBatch
  BY <1>2 DEF NextBatch
<1>3. ASSUME NEW r \in Roots, ExamineFresh(r) PROVE WorkerInv'
  BY <1>3 DEF ExamineFresh, TakeItem
<1>4. ASSUME NEW r \in Roots, ExamineRetried(r) PROVE WorkerInv'
  BY <1>4 DEF ExamineRetried
<1>5. ASSUME NEW up \in SUBSET Nodes, QueryStatus(up) PROVE WorkerInv'
  <2>1. FileStatus(cur, up) \in FileStatuses
    BY FileStatusType
  <2> QED  BY <1>5, <2>1 DEF QueryStatus
<1>6. CASE ApplyStatus
  BY <1>6 DEF ApplyStatus, TakeItem
<1>7. CASE NothingToSubmit
  BY <1>7, ChainAssumption DEF NothingToSubmit, BatchReturns, NoTx
<1>8. CASE BeginSubmit
  BY <1>8 DEF BeginSubmit
<1>9. ASSUME NEW r \in Roots, MarkSubmitted(r) PROVE WorkerInv'
  BY <1>9 DEF MarkSubmitted
<1>10. ASSUME NEW r \in Roots, MarkOnchain(r) PROVE WorkerInv'
  BY <1>10 DEF MarkOnchain
<1>11. CASE OpenFiles
  BY <1>11 DEF OpenFiles, BatchFails
<1>12. CASE SubmitTx
  BY <1>12, ChainAssumption DEF SubmitTx, BatchFails, LandTx, ChainTypeOK
<1>13. CASE SubmitRefused
  BY <1>13 DEF SubmitRefused, BatchFails
<1>14. CASE SubmitNothing
  BY <1>14 DEF SubmitNothing
<1>15. CASE UploadSegments
  BY <1>15 DEF UploadSegments
<1>16. CASE UploadFails
  BY <1>16 DEF UploadFails, BatchFails
<1>17. CASE BatchDone
  BY <1>17, ChainAssumption DEF BatchDone, BatchReturns, NoTx
<1>18. ASSUME NEW r \in Roots, NEW up \in SUBSET Nodes, ReconcileQuery(r, up)
       PROVE  WorkerInv'
  <2>1. FileStatus(r, up) \in FileStatuses
    BY FileStatusType
  <2> QED  BY <1>18, <2>1 DEF ReconcileQuery
<1>19. ASSUME NEW r \in Roots, NEW up \in SUBSET Nodes, PollQuery(r, up)
       PROVE  WorkerInv'
  <2>1. FileStatus(r, up) \in FileStatuses
    BY FileStatusType
  <2> QED  BY <1>19, <2>1 DEF PollQuery
<1>20. CASE ReconcileApply
  BY <1>20 DEF ReconcileApply
<1>21. CASE CountRetry
  BY <1>21 DEF CountRetry
<1>22. CASE GiveUpOrRetry
  BY <1>22 DEF GiveUpOrRetry
<1>23. CASE BeginPoll
  BY <1>23 DEF BeginPoll, StoreInv, StoreTypeOK
<1>24. CASE PollApply
  BY <1>24 DEF PollApply
<1>25. CASE PollDone
  BY <1>25 DEF PollDone
<1> QED  BY <1>1, <1>2, <1>3, <1>4, <1>5, <1>6, <1>7, <1>8, <1>9, <1>10,
            <1>11, <1>12, <1>13, <1>14, <1>15, <1>16, <1>17, <1>18, <1>19,
            <1>20, <1>21, <1>22, <1>23, <1>24, <1>25
  DEF Worker

(* The worker's steps keep the network, the cache and the handlers typed. *)
LEMMA WorkerKeepsRest ==
  ASSUME TypeInv, Worker
  PROVE  ChainTypeOK' /\ CacheTypeOK' /\ HandlerInv'
<1>1. HandlerInv'
  BY DEF Worker, TypeInv, HandlerInv, ServiceTypeOK, serviceVars, reqVars, evictVars
<1>2. UNCHANGED cacheVars
  BY DEF Worker, Flush, NextBatch, ExamineFresh, ExamineRetried, QueryStatus,
         ApplyStatus, NothingToSubmit, BeginSubmit, MarkSubmitted, MarkOnchain,
         OpenFiles, SubmitTx, SubmitRefused, SubmitNothing, UploadSegments,
         UploadFails, BatchDone, ReconcileQuery, PollQuery, ReconcileApply,
         CountRetry, GiveUpOrRetry, BeginPoll, PollApply, PollDone
<1>3. ChainTypeOK'
  <2>1. CASE UNCHANGED chainVars
    BY <2>1 DEF TypeInv, ChainTypeOK, chainVars
  <2>2. CASE SubmitTx
    BY <2>2, ChainAssumption DEF SubmitTx, LandTx, TypeInv, ChainTypeOK
  <2>3. CASE UploadSegments \/ UploadFails
    BY <2>3 DEF UploadSegments, UploadFails, TakeSegments, TypeInv, ChainTypeOK,
                WorkerInv, WorkerTypeOK
  <2> QED  BY <2>1, <2>2, <2>3
    DEF Worker, Flush, NextBatch, ExamineFresh, ExamineRetried, QueryStatus,
        ApplyStatus, NothingToSubmit, BeginSubmit, MarkSubmitted, MarkOnchain,
        OpenFiles, SubmitRefused, SubmitNothing, BatchDone, ReconcileQuery,
        PollQuery, ReconcileApply, CountRetry, GiveUpOrRetry, BeginPoll,
        PollApply, PollDone
<1> QED  BY <1>1, <1>2, <1>3 DEF TypeInv, CacheTypeOK, cacheVars

(* A request that begins touches its own variables only. *)
LEMMA BeginKeeps ==
  ASSUME TypeInv, NEW p \in Procs, Begin(p)
  PROVE  TypeInv'
<1>1. StoreInv' /\ UNCHANGED <<chainVars, cacheVars, workerVars>>
  BY StoreStutterInv DEF Begin, BeginPut, BeginOpen, TypeInv
<1>2. HandlerInv'
  BY DEF Begin, BeginPut, BeginOpen, Goto, TypeInv, HandlerInv, ServiceTypeOK,
         HandlerPC, evictVars
<1>3. ChainTypeOK' /\ CacheTypeOK' /\ WorkerInv'
  BY <1>1 DEF TypeInv, ChainTypeOK, CacheTypeOK, WorkerInv, WorkerTypeOK,
              chainVars, cacheVars, workerVars, loopVars, batchVars
<1> QED  BY <1>1, <1>2, <1>3 DEF TypeInv

(* A step of a handler is one store transaction or none. *)
LEMMA HandlerStore ==
  ASSUME TypeInv, NEW p \in Procs, Handle(p)
  PROVE  StoreInv'
<1>1. CASE UNCHANGED storeVars
  BY <1>1, StoreStutterInv DEF TypeInv
<1>2. CASE Rearm(p)
  BY <1>2, ReenqueueInv DEF Rearm, TypeInv, HandlerInv
<1>3. CASE Create(p)
  BY <1>3, CreateObjectInv, StoreStutterInv DEF Create, ErrExists, TypeInv, HandlerInv
<1> QED  BY <1>1, <1>2, <1>3
  DEF Handle, HandlerStep, noteAdded, OverLimit, AcquireEvicting, ListCandidates,
      Debit, ReleaseEvicting, EvictOne, EvictRefused, ShouldRejectWrite, Lookup,
      Decide, Salvage, RenameFresh, OpenCached, Download, Restore, Reopen,
      ReopenFails, RequestFails

(* The handlers' steps keep their own variables in order. *)
LEMMA HandlerKeepsHandler ==
  ASSUME TypeInv, NEW p \in Procs, Handle(p)
  PROVE  HandlerInv'
<1> USE DEF TypeInv, HandlerInv, ServiceTypeOK, HandlerPC, Goto, Return,
            reqVars, evictVars
<1>1. CASE noteAdded(p)
  BY <1>1 DEF noteAdded
<1>2. CASE OverLimit(p)
  BY <1>2 DEF OverLimit, LeaveEvict
<1>3. CASE AcquireEvicting(p)
  BY <1>3 DEF AcquireEvicting, LeaveEvict
<1>4. CASE ListCandidates(p)
  BY <1>4 DEF ListCandidates, FinalizedCacheEntries
<1>5. CASE Debit(p)
  BY <1>5 DEF Debit
<1>6. CASE ReleaseEvicting(p)
  BY <1>6 DEF ReleaseEvicting, LeaveEvict
<1>7. ASSUME NEW r \in Roots, EvictOne(p, r) \/ EvictRefused(p, r) PROVE HandlerInv'
  BY <1>7 DEF EvictOne, EvictRefused
<1>8. CASE ShouldRejectWrite(p)
  BY <1>8 DEF ShouldRejectWrite
<1>9. CASE Lookup(p)
  <2>1. BySHA256(croot[p]) \in Status \cup {"absent"}
    BY <1>9 DEF Lookup, BySHA256, StoreInv, StoreTypeOK, ObjectMeta
  <2> QED  BY <1>9, <2>1 DEF Lookup
<1>10. CASE Decide(p)
  BY <1>10 DEF Decide
<1>11. CASE Salvage(p)
  BY <1>11 DEF Salvage, By
<1>12. CASE Rearm(p)
  BY <1>12 DEF Rearm
<1>13. CASE RenameFresh(p)
  BY <1>13 DEF RenameFresh, By
<1>14. CASE Create(p)
  BY <1>14 DEF Create
<1>15. CASE OpenCached(p)
  BY <1>15 DEF OpenCached
<1>16. CASE Download(p) \/ Restore(p)
  BY <1>16 DEF Download, Restore
<1>17. CASE Reopen(p)
  BY <1>17 DEF Reopen
<1>18. CASE ReopenFails(p)
  BY <1>18 DEF ReopenFails
<1>19. CASE RequestFails(p)
  BY <1>19 DEF RequestFails
<1> QED  BY <1>1, <1>2, <1>3, <1>4, <1>5, <1>6, <1>7, <1>8, <1>9, <1>10,
            <1>11, <1>12, <1>13, <1>14, <1>15, <1>16, <1>17, <1>18, <1>19
  DEF Handle, HandlerStep

(* They change the cache file by file and leave network and worker alone. *)
LEMMA HandlerKeepsRest ==
  ASSUME TypeInv, NEW p \in Procs, Handle(p)
  PROVE  ChainTypeOK' /\ CacheTypeOK' /\ WorkerInv'
<1>1. UNCHANGED <<chainVars, workerVars>>
  BY DEF Handle, HandlerStep, noteAdded, OverLimit, AcquireEvicting,
         ListCandidates, Debit, ReleaseEvicting, EvictOne, EvictRefused,
         ShouldRejectWrite, Lookup, Decide, Salvage, Rearm, RenameFresh, Create,
         OpenCached, Download, Restore, Reopen, ReopenFails, RequestFails
<1>2. \/ UNCHANGED cacheVars
      \/ RenameInto(croot[p])
      \/ \E r \in Roots : Remove(r)
  BY DEF Handle, HandlerStep, noteAdded, OverLimit, AcquireEvicting,
         ListCandidates, Debit, ReleaseEvicting, EvictOne, EvictRefused,
         ShouldRejectWrite, Lookup, Decide, Salvage, Rearm, RenameFresh, Create,
         OpenCached, Download, Restore, Reopen, ReopenFails, RequestFails
<1>3. CacheTypeOK'
  BY <1>2 DEF TypeInv, CacheTypeOK, CacheStates, RenameInto, Remove, cacheVars
<1> QED  BY <1>1, <1>3 DEF TypeInv, ChainTypeOK, WorkerInv, WorkerTypeOK,
                           chainVars, workerVars, loopVars, batchVars

(* The network, the faults and a crash keep layer 1 too. *)
LEMMA EnvironmentKeeps ==
  ASSUME TypeInv, Network \/ Fault \/ Crash
  PROVE  TypeInv'
<1>1. StoreInv'
  BY StoreStutterInv DEF Network, Fault, StoreError, Crash, TypeInv
<1>2. ChainTypeOK'
  <2>1. CASE UNCHANGED chainVars
    BY <2>1 DEF TypeInv, ChainTypeOK, chainVars
  <2>2. ASSUME NEW n \in Nodes, NEW r \in Roots,
               NodeSync(n, r) \/ NodeFinalize(n, r) \/ NodePrune(n, r)
        PROVE  ChainTypeOK'
    <3>1. CASE NodeSync(n, r) \/ NodeFinalize(n, r)
      <4>1. node' \in [Nodes -> [Roots -> NodeInfo]]
        <5>1. PICK i \in NodeInfo : node' = [node EXCEPT ![n][r] = i]
          BY <3>1 DEF NodeInfo, NodeSync, NodeFinalize
        <5> QED  BY <5>1 DEF TypeInv, ChainTypeOK
      <4>2. UNCHANGED <<txs, lastTx, stored, cut, pruned>>
        BY <3>1 DEF NodeSync, NodeFinalize
      <4> QED  BY <4>1, <4>2 DEF TypeInv, ChainTypeOK
    <3>2. CASE NodePrune(n, r)
      <4>1. /\ stored' \subseteq Roots /\ pruned' \subseteq Roots
            /\ UNCHANGED <<txs, lastTx>>
        BY <3>2 DEF TypeInv, ChainTypeOK, NodePrune
      <4>2. /\ node' \in [Nodes -> [Roots -> NodeInfo]]
            /\ cut' \in [Nodes -> [Roots -> 0 .. MaxTx]]
        BY <3>2 DEF TypeInv, ChainTypeOK, NodeInfo, NodePrune
      <4> QED  BY <4>1, <4>2 DEF TypeInv, ChainTypeOK
    <3> QED  BY <2>2, <3>1, <3>2
  <2> QED  BY <2>1, <2>2 DEF Network, Fault, StoreError, Crash
<1>3. CacheTypeOK'
  BY DEF Network, Fault, StoreError, Crash, LoseFile, DamageFile, TypeInv,
         CacheTypeOK, CacheStates, cacheVars
<1>4. WorkerInv'
  <2> USE DEF TypeInv, WorkerInv, WorkerTypeOK, WorkerPC, FileStatuses,
              batchVars, To, Visited, ForgetQuery
  <2>1. CASE UNCHANGED workerVars
    BY <2>1 DEF workerVars, loopVars
  <2>2. CASE StoreErrorReturns
    BY <2>2, ChainAssumption DEF StoreErrorReturns, BatchReturns, NoTx
  <2>3. CASE StoreErrorIgnored
    BY <2>3 DEF StoreErrorIgnored, TakeItem
  <2>4. CASE WorkerReset
    BY <2>4, ChainAssumption DEF WorkerReset, NoTx
  <2> QED  BY <2>1, <2>2, <2>3, <2>4 DEF Network, Fault, StoreError, Crash
<1>5. HandlerInv'
  <2>1. CASE UNCHANGED serviceVars
    BY <2>1 DEF TypeInv, HandlerInv, ServiceTypeOK, serviceVars, reqVars, evictVars
  <2>2. CASE New
    BY <2>2 DEF New, HandlerInv, ServiceTypeOK, HandlerPC, Status
  <2> QED  BY <2>1, <2>2 DEF Network, Fault, Crash
<1> QED  BY <1>1, <1>2, <1>3, <1>4, <1>5 DEF TypeInv

(* Layer 1 holds in every state: the queues follow the statuses, the dedup   *)
(* index follows the metadata and every variable has its type, whatever the  *)
(* handlers and the worker do to the store between them.                     *)
THEOREM TypesAndQueues == Spec => []TypeInv
<1>1. TypeInv /\ [Next]_vars => TypeInv'
  <2> SUFFICES ASSUME TypeInv, [Next]_vars PROVE TypeInv'
    OBVIOUS
  <2>1. CASE Worker
    BY <2>1, WorkerStore, WorkerKeepsWorker, WorkerKeepsRest DEF TypeInv
  <2>2. ASSUME NEW p \in Procs, Begin(p) PROVE TypeInv'
    BY <2>2, BeginKeeps
  <2>3. ASSUME NEW p \in Procs, Handle(p) PROVE TypeInv'
    BY <2>3, HandlerStore, HandlerKeepsHandler, HandlerKeepsRest DEF TypeInv
  <2>4. CASE Network \/ Fault \/ Crash
    BY <2>4, EnvironmentKeeps
  <2>5. CASE UNCHANGED vars
    <3>1. StoreInv'
      BY <2>5, StoreStutterInv DEF vars, TypeInv
    <3> QED  BY <2>5, <3>1 DEF vars, TypeInv, ChainTypeOK, CacheTypeOK, WorkerInv,
               WorkerTypeOK, HandlerInv, ServiceTypeOK, chainVars, cacheVars,
               serviceVars, reqVars, evictVars, workerVars, loopVars, batchVars
  <2> QED  BY <2>1, <2>2, <2>3, <2>4, <2>5 DEF Next
<1> QED  BY TypeInit, <1>1, PTL DEF Spec
-----------------------------------------------------------------------------
(* The eviction flag *)

(* A handler's step hands the flag over as it moves into or out of a sweep. *)
LEMMA HandlerKeepsFlag ==
  ASSUME TypeInv, SingleSweep, NEW p \in Procs, Begin(p) \/ Handle(p)
  PROVE  SingleSweep'
<1> USE DEF SingleSweep, Sweeping
<1>0. /\ cpc \in [Procs -> HandlerPC] /\ evicting \in BOOLEAN
      /\ cret \in [Procs -> {"idle", "admit", "rearm", "create"}]
  BY DEF TypeInv, HandlerInv, ServiceTypeOK
<1>1. ASSUME NEW to, cpc' = [cpc EXCEPT ![p] = to], evicting' = evicting,
             Sweeping(p) <=> to \in {"list", "sweep", "debit"}
      PROVE  SingleSweep'
  BY <1>0, <1>1
<1>2. CASE UNCHANGED <<cpc, evicting>>
  BY <1>2
<1>3. LeaveEvict(p) =>
        \E to \in {"idle", "admit", "rearm", "create"} : cpc' = [cpc EXCEPT ![p] = to]
  BY <1>0 DEF LeaveEvict, Return, Goto
<1>4. CASE AcquireEvicting(p)
  <2>1. CASE evicting
    BY <1>1, <1>3, <1>4, <2>1 DEF AcquireEvicting
  <2>2. CASE ~evicting
    BY <1>0, <1>4, <2>2 DEF AcquireEvicting, Goto
  <2> QED  BY <2>1, <2>2
<1>5. CASE ReleaseEvicting(p)
  <2>1. Sweeping(p) /\ evicting' = FALSE
    BY <1>5 DEF ReleaseEvicting
  <2> QED  BY <1>0, <1>3, <1>5, <2>1 DEF ReleaseEvicting
<1>6. CASE OverLimit(p)
  BY <1>1, <1>3, <1>6 DEF OverLimit, Goto, evictVars
<1>7. ASSUME NEW r \in Roots, EvictOne(p, r) \/ EvictRefused(p, r) PROVE SingleSweep'
  BY <1>1, <1>2, <1>7 DEF EvictOne, EvictRefused, Goto, reqVars
<1>8. CASE noteAdded(p) \/ ListCandidates(p) \/ Debit(p)
  BY <1>1, <1>8 DEF noteAdded, ListCandidates, Debit, Goto
<1>9. CASE ShouldRejectWrite(p) \/ Lookup(p) \/ Decide(p) \/ Rearm(p) \/ Create(p)
  BY <1>1, <1>9 DEF ShouldRejectWrite, Lookup, Decide, Rearm, Create, Return,
     Goto, evictVars
<1>10. CASE Salvage(p) \/ RenameFresh(p)
  BY <1>1, <1>10 DEF Salvage, RenameFresh, By, Goto, evictVars
<1>11. CASE OpenCached(p) \/ Download(p) \/ Restore(p) \/ Reopen(p)
            \/ ReopenFails(p) \/ RequestFails(p)
  BY <1>1, <1>11 DEF OpenCached, Download, Restore, Reopen, ReopenFails,
     RequestFails, Return, Goto, evictVars
<1>12. CASE Begin(p)
  BY <1>1, <1>12 DEF Begin, BeginPut, BeginOpen, Goto, evictVars
<1> QED  BY <1>4, <1>5, <1>6, <1>7, <1>8, <1>9, <1>10, <1>11, <1>12
         DEF Handle, HandlerStep

(* Eviction is single-flight and its flag never stays behind, for any number *)
(* of concurrent requests, whichever way each of them ends.                  *)
THEOREM SweepsOneAtATime == Spec => []SingleSweep
<1>1. Init => SingleSweep
  BY DEF Init, ServiceInit, SingleSweep, Sweeping
<1>2. TypeInv /\ SingleSweep /\ [Next]_vars => SingleSweep'
  <2> SUFFICES ASSUME TypeInv, SingleSweep, [Next]_vars PROVE SingleSweep'
    OBVIOUS
  <2>1. CASE UNCHANGED <<cpc, evicting>>
    BY <2>1 DEF SingleSweep, Sweeping
  <2>2. CASE Crash
    BY <2>2 DEF Crash, New, SingleSweep, Sweeping
  <2> QED  BY <2>1, <2>2, HandlerKeepsFlag
           DEF Next, Worker, Network, Fault, vars, serviceVars, reqVars, evictVars
<1> QED  BY <1>1, <1>2, TypesAndQueues, PTL DEF Spec
=============================================================================
