--------------------------- MODULE SoundnessProofs ---------------------------
(* What the metadata says is so: of the 0G network (OnchainSound,            *)
(* TxHashSound) and of the bytes of an acknowledged object (Durable).  The   *)
(* invariants rest on the types of GatewayProofs and, each, on what the      *)
(* worker or a handler remembers between reading the state and writing it.   *)
EXTENDS GatewayProofs

-----------------------------------------------------------------------------
(* Layer 2: what the worker knows of the network.                            *)

(* A node has heard of announced roots only, and finalizes what the network  *)
(* was given.                                                                *)
NodeSound ==
  \A n \in Nodes, r \in Roots :
    /\ node[n][r] # "none" => txs[r] # {}
    /\ node[n][r] = "finalized" => r \in Taken

(* The answer "finalized" is still true when the worker acts on it. *)
AnswerSound ==
  pc \in {"apply", "reconApply", "pollApply"} /\ ans = "finalized" =>
    txs[cur] # {} /\ cur \in Taken

(* While BatchUpload uploads good files, its hash is that of a transaction   *)
(* that announced every item without SkipTx.                                 *)
SubmitSound ==
  pc = "segments" /\ bad = {} => \A r \in items \ skip : wtx \in txs[r]

(* BatchUpload has returned without an error: every item is announced and    *)
(* uploaded, and the hash is right for those it will be recorded for.        *)
BatchSound ==
  pc = "onchain" => \A r \in items : /\ txs[r] # {} /\ r \in Taken
                                     /\ r \notin skip => wtx \in txs[r]

WorkerSound == NodeSound /\ AnswerSound /\ SubmitSound /\ BatchSound

(* The chain forgets no transaction, and what the network was given is held  *)
(* or was pruned.                                                            *)
LEMMA ChainGrows ==
  ASSUME TypeInv, [Next]_vars
  PROVE  Taken \subseteq Taken' /\ \A r \in Roots : txs[r] \subseteq txs'[r]
<1>1. CASE UNCHANGED <<txs, stored, pruned>>
  BY <1>1 DEF Taken
<1>2. CASE SubmitTx
  BY <1>2 DEF SubmitTx, LandTx, Taken
<1>3. CASE UploadSegments \/ UploadFails
  BY <1>3 DEF UploadSegments, UploadFails, TakeSegments, Taken
<1>4. CASE Worker
  BY <1>1, <1>2, <1>3, <1>4
    DEF Worker, Flush, NextBatch, ExamineFresh, ExamineRetried, QueryStatus,
        ApplyStatus, NothingToSubmit, BeginSubmit, MarkSubmitted, MarkOnchain,
        OpenFiles, SubmitRefused, SubmitNothing, BatchDone, ReconcileQuery,
        PollQuery, ReconcileApply, CountRetry, GiveUpOrRetry, BeginPoll,
        PollApply, PollDone, chainVars
<1>5. ASSUME NEW p \in Procs, Begin(p) \/ Handle(p) PROVE UNCHANGED <<txs, stored, pruned>>
  BY <1>5 DEF Begin, BeginPut, BeginOpen, Handle, HandlerStep, noteAdded,
         OverLimit, AcquireEvicting, ListCandidates, Debit, ReleaseEvicting,
         EvictOne, EvictRefused, ShouldRejectWrite, Lookup, Decide, Salvage,
         Rearm, RenameFresh, Create, OpenCached, Download, Restore, Reopen,
         ReopenFails, RequestFails, chainVars
<1>6. CASE Network \/ Fault \/ Crash
  <2>1. ASSUME NEW n \in Nodes, NEW r \in Roots, NodePrune(n, r)
        PROVE  Taken \subseteq Taken' /\ txs' = txs
    BY <2>1 DEF NodePrune, Taken
  <2> QED  BY <1>1, <1>6, <2>1 DEF Network, Fault, StoreError, Crash, NodeSync,
                                   NodeFinalize, chainVars
<1> QED  BY <1>1, <1>4, <1>5, <1>6 DEF Next, vars, chainVars

(* Only the network's own steps change what a node says. *)
LEMMA NodeChanges ==
  ASSUME TypeInv, [Next]_vars
  PROVE  \/ UNCHANGED node
         \/ \E n \in Nodes, r \in Roots :
              NodeSync(n, r) \/ NodeFinalize(n, r) \/ NodePrune(n, r)
<1>1. CASE Worker
  BY <1>1
    DEF Worker, Flush, NextBatch, ExamineFresh, ExamineRetried, QueryStatus,
        ApplyStatus, NothingToSubmit, BeginSubmit, MarkSubmitted, MarkOnchain,
        OpenFiles, SubmitTx, LandTx, SubmitRefused, SubmitNothing,
        UploadSegments, UploadFails, TakeSegments, BatchDone, ReconcileQuery,
        PollQuery, ReconcileApply, CountRetry, GiveUpOrRetry, BeginPoll,
        PollApply, PollDone, chainVars
<1>2. ASSUME NEW p \in Procs, Begin(p) \/ Handle(p) PROVE UNCHANGED node
  BY <1>2 DEF Begin, BeginPut, BeginOpen, Handle, HandlerStep, noteAdded,
         OverLimit, AcquireEvicting, ListCandidates, Debit, ReleaseEvicting,
         EvictOne, EvictRefused, ShouldRejectWrite, Lookup, Decide, Salvage,
         Rearm, RenameFresh, Create, OpenCached, Download, Restore, Reopen,
         ReopenFails, RequestFails, chainVars
<1>3. CASE Network \/ Fault \/ Crash
  BY <1>3 DEF Network, Fault, StoreError, Crash, chainVars
<1> QED  BY <1>1, <1>2, <1>3 DEF Next, vars, chainVars

(* Nodes stay sound. *)
LEMMA NodeSoundKept ==
  ASSUME TypeInv, NodeSound, [Next]_vars
  PROVE  NodeSound'
<1>1. Taken \subseteq Taken' /\ \A r \in Roots : txs[r] \subseteq txs'[r]
  BY ChainGrows
<1>2. CASE UNCHANGED node
  BY <1>1, <1>2 DEF NodeSound
<1>3. ASSUME NEW n \in Nodes, NEW r \in Roots,
             NodeSync(n, r) \/ NodeFinalize(n, r) \/ NodePrune(n, r)
      PROVE  NodeSound'
  <2>1. CASE NodeSync(n, r)
    BY <1>1, <2>1 DEF NodeSound, NodeSync, TypeInv, ChainTypeOK, NodeInfo
  <2>2. CASE NodeFinalize(n, r)
    BY <1>1, <2>2 DEF NodeSound, NodeFinalize, TypeInv, ChainTypeOK, NodeInfo, Taken
  <2>3. CASE NodePrune(n, r)
    BY <1>1, <2>3 DEF NodeSound, NodePrune, TypeInv, ChainTypeOK, NodeInfo
  <2> QED  BY <1>3, <2>1, <2>2, <2>3
<1> QED  BY <1>2, <1>3, NodeChanges

(* The answer "finalized" comes from a node that holds the data. *)
LEMMA FinalizedAnswer ==
  ASSUME NodeSound, NEW r \in Roots, NEW up \in SUBSET Nodes,
         FileStatus(r, up) = "finalized"
  PROVE  txs[r] # {} /\ r \in Taken
<1>1. "finalized" \in {node[n][r] : n \in up}
  BY DEF FileStatus
<1> QED  BY <1>1 DEF NodeSound

(* The worker's own steps keep what it knows. *)
LEMMA WorkerSoundStep ==
  ASSUME TypeInv, WorkerSound, Worker
  PROVE  (AnswerSound /\ SubmitSound /\ BatchSound)'
<1> DEFINE Goal == (AnswerSound /\ SubmitSound /\ BatchSound)'
<1> USE DEF TypeInv, WorkerSound, AnswerSound, SubmitSound, BatchSound,
            To, Visited, ForgetQuery, batchVars
<1>0. Taken \subseteq Taken' /\ \A r \in Roots : txs[r] \subseteq txs'[r]
  BY ChainGrows DEF Next
<1>1. CASE pc' \notin {"apply", "reconApply", "pollApply", "segments", "onchain"}
  BY <1>1
<1>2. ASSUME NEW up \in SUBSET Nodes, QueryStatus(up) PROVE Goal
  BY <1>0, <1>2, FinalizedAnswer DEF QueryStatus, chainVars, WorkerInv
<1>3. ASSUME NEW r \in Roots, MarkOnchain(r) PROVE Goal
  BY <1>0, <1>3 DEF MarkOnchain, chainVars, WorkerInv, WorkerTypeOK
<1>4. CASE SubmitTx
  BY <1>4 DEF SubmitTx, BatchFails, LandTx, Fresh, WorkerInv, WorkerTypeOK
<1>5. CASE SubmitNothing
  BY <1>5 DEF SubmitNothing, Fresh, chainVars
<1>6. CASE UploadSegments
  <2>1. \A r \in items : txs[r] # {}
    BY <1>6 DEF UploadSegments, HasEntry, NodeSound, WorkerInv, WorkerTypeOK
  <2> QED  BY <1>6, <2>1 DEF UploadSegments, TakeSegments, WorkerInv, WorkerTypeOK, Taken
<1>7. ASSUME NEW r \in Roots, NEW up \in SUBSET Nodes,
             ReconcileQuery(r, up) \/ PollQuery(r, up)
      PROVE  Goal
  BY <1>0, <1>7, FinalizedAnswer DEF ReconcileQuery, PollQuery, chainVars
<1> QED  BY <1>1, <1>2, <1>3, <1>4, <1>5, <1>6, <1>7
  DEF Worker, Flush, NextBatch, ExamineFresh, ExamineRetried, ApplyStatus,
      NothingToSubmit, BatchReturns, BeginSubmit, MarkSubmitted, OpenFiles,
      BatchFails, SubmitRefused, UploadFails, BatchDone, ReconcileApply,
      CountRetry, GiveUpOrRetry, BeginPoll, PollApply, PollDone

(* So does every step. *)
LEMMA WorkerSoundKept ==
  ASSUME TypeInv, WorkerSound, [Next]_vars
  PROVE  WorkerSound'
<1>1. NodeSound'
  BY NodeSoundKept DEF WorkerSound
<1>2. Taken \subseteq Taken' /\ \A r \in Roots : txs[r] \subseteq txs'[r]
  BY ChainGrows
<1>3. (AnswerSound /\ SubmitSound /\ BatchSound)'
  <2>1. CASE Worker
    BY <2>1, WorkerSoundStep
  <2>2. CASE UNCHANGED workerVars
    BY <1>2, <2>2 DEF workerVars, loopVars, batchVars, WorkerSound, AnswerSound,
       SubmitSound, BatchSound, TypeInv, WorkerInv, WorkerTypeOK
  <2>3. CASE StoreError \/ WorkerReset
    BY <2>3 DEF StoreError, StoreErrorReturns, StoreErrorIgnored, BatchReturns,
       WorkerReset, To, AnswerSound, SubmitSound, BatchSound
  <2> QED  BY <2>1, <2>2, <2>3 DEF Next, Begin, Handle, Network, Fault, Crash, vars
<1> QED  BY <1>1, <1>3 DEF WorkerSound
-----------------------------------------------------------------------------
(* Layer 3: what is recorded.                                                *)

RecordSound == OnchainSound /\ TxHashSound

(* The transactions of the worker record what it knows. *)
LEMMA WorkerRecords ==
  ASSUME TypeInv, WorkerSound, RecordSound, Worker
  PROVE  RecordSound'
<1> USE DEF TypeInv, RecordSound, OnchainSound, TxHashSound, Taken
<1>0. Taken \subseteq Taken' /\ \A r \in Roots : txs[r] \subseteq txs'[r]
  BY ChainGrows DEF Next
<1>1. CASE UNCHANGED objects
  BY <1>0, <1>1
<1>2. StoreTypeOK
  BY DEF StoreInv
<1>3. CASE ApplyStatus \/ ReconcileApply \/ PollApply
  <2>1. cur \in Roots
    BY <1>3 DEF ApplyStatus, ReconcileApply, PollApply, WorkerInv
  <2>2. ASSUME NEW v \in BOOLEAN, SetSkipTx(cur, v) PROVE RecordSound'
    BY <1>0, <1>2, <2>1, <2>2, SetSkipTxEffect
  <2>3. CASE PollApply /\ SetStatus(cur, "failed", NoTx, "pruned")
    BY <1>0, <1>2, <2>1, <2>3, SetStatusEffect
  <2>4. CASE ans = "finalized" /\ SetStatus(cur, "finalized", NoTx, "")
    <3>1. txs[cur] # {} /\ cur \in Taken
      BY <1>3, <2>4 DEF WorkerSound, AnswerSound, ApplyStatus, ReconcileApply,
                        PollApply
    <3>2. /\ objects'[cur].txHash = objects[cur].txHash
          /\ \A q \in Roots : q # cur => objects'[q] = objects[q]
      BY <1>2, <2>1, <2>4, SetStatusEffect
    <3> QED  BY <1>0, <2>1, <3>1, <3>2
  <2> QED  BY <1>3, <2>2, <2>3, <2>4 DEF ApplyStatus, ReconcileApply, PollApply
<1>4. ASSUME NEW r \in Roots, MarkSubmitted(r) PROVE RecordSound'
  <2>1. /\ objects'[r].status = "submitted" /\ objects'[r].txHash = objects[r].txHash
        /\ \A q \in Roots : q # r => objects'[q] = objects[q]
    BY <1>2, <1>4, SetStatusEffect DEF MarkSubmitted
  <2> QED  BY <1>0, <2>1
<1>5. ASSUME NEW r \in Roots, MarkOnchain(r) PROVE RecordSound'
  <2>1. r \in items /\ pc = "onchain"
    BY <1>5 DEF MarkOnchain, WorkerInv
  <2>2. /\ objects'[r].txHash = (IF r \in skip \/ wtx = NoTx
                                 THEN objects[r].txHash ELSE wtx)
        /\ \A q \in Roots : q # r => objects'[q] = objects[q]
    BY <1>2, <1>5 DEF MarkOnchain, SetStatus, mutate, StoreTypeOK, ObjectMeta
  <2>3. txs[r] # {} /\ r \in Taken /\ (r \notin skip => wtx \in txs[r])
    BY <2>1 DEF WorkerSound, BatchSound
  <2> QED  BY <1>0, <2>2, <2>3
<1>6. CASE CountRetry
  BY <1>0, <1>2, <1>6, IncRetriesEffect DEF CountRetry, WorkerInv
<1>7. CASE GiveUpOrRetry
  <2>1. cur \in Roots
    BY <1>7 DEF GiveUpOrRetry, WorkerInv
  <2>2. /\ objects'[cur].status \in {"pending", "failed"}
        /\ objects'[cur].txHash = objects[cur].txHash
        /\ \A q \in Roots : q # cur => objects'[q] = objects[q]
    BY <1>2, <1>7, <2>1, SetStatusEffect DEF GiveUpOrRetry
  <2> QED  BY <1>0, <2>1, <2>2
<1> QED  BY <1>1, <1>3, <1>4, <1>5, <1>6, <1>7
  DEF Worker, Flush, NextBatch, ExamineFresh, ExamineRetried, QueryStatus,
      NothingToSubmit, BeginSubmit, OpenFiles, SubmitTx, SubmitRefused,
      SubmitNothing, UploadSegments, UploadFails, BatchDone, ReconcileQuery,
      PollQuery, BeginPoll, PollDone, storeVars

(* No step records what is not so. *)
LEMMA RecordSoundKept ==
  ASSUME TypeInv, WorkerSound, RecordSound, [Next]_vars
  PROVE  RecordSound'
<1> USE DEF RecordSound, OnchainSound, TxHashSound, Taken
<1>0. Taken \subseteq Taken' /\ \A r \in Roots : txs[r] \subseteq txs'[r]
  BY ChainGrows
<1>1. CASE UNCHANGED objects
  BY <1>0, <1>1
<1>2. StoreTypeOK
  BY DEF TypeInv, StoreInv
<1>3. ASSUME NEW p \in Procs, Rearm(p) PROVE RecordSound'
  BY <1>0, <1>2, <1>3, ReenqueueEffect DEF Rearm, TypeInv, HandlerInv
<1>4. ASSUME NEW p \in Procs, Create(p) PROVE RecordSound'
  BY <1>0, <1>1, <1>2, <1>4, CreateObjectEffect
     DEF Create, ErrExists, storeVars, TypeInv, HandlerInv
<1>5. ASSUME NEW p \in Procs, Begin(p) \/ Handle(p) PROVE RecordSound'
  BY <1>1, <1>3, <1>4, <1>5
     DEF Begin, BeginPut, BeginOpen, Handle, HandlerStep, noteAdded,
         OverLimit, AcquireEvicting, ListCandidates, Debit, ReleaseEvicting,
         EvictOne, EvictRefused, ShouldRejectWrite, Lookup, Decide, Salvage,
         RenameFresh, OpenCached, Download, Restore, Reopen, ReopenFails,
         RequestFails, storeVars
<1>6. CASE Network \/ Fault \/ Crash
  BY <1>1, <1>6 DEF Network, Fault, StoreError, Crash, storeVars
<1> QED  BY <1>1, <1>5, <1>6, WorkerRecords DEF Next, vars, storeVars

(* The initial state knows of nothing. *)
LEMMA SoundInit == Init => WorkerSound /\ RecordSound
<1> SUFFICES ASSUME Init PROVE WorkerSound /\ RecordSound
  OBVIOUS
<1>1. WorkerSound
  BY DEF Init, ChainInit, WorkerInit, WorkerSound, NodeSound, AnswerSound,
         SubmitSound, BatchSound
<1>2. \A r \in Roots : objects[r] = Absent
  BY DEF Init, StoreInit
<1>3. Absent.status = "absent" /\ Absent.txHash = NoTx
  BY DEF Absent
<1>4. RecordSound
  BY <1>2, <1>3 DEF RecordSound, OnchainSound, TxHashSound
<1> QED  BY <1>1, <1>4

(* Layers 2 and 3 hold in every state. *)
LEMMA AlwaysSound == Spec => [](WorkerSound /\ RecordSound)
<1>1. TypeInv /\ WorkerSound /\ RecordSound /\ [Next]_vars =>
        (WorkerSound /\ RecordSound)'
  BY WorkerSoundKept, RecordSoundKept
<1> QED  BY SoundInit, TypesAndQueues, <1>1, PTL DEF Spec

(* An object recorded as onchain or finalized is announced on chain and has  *)
(* its segments in the network, unless the nodes pruned them: SetStatus is   *)
(* called with these statuses on what FileStatus or BatchUpload has shown.   *)
THEOREM OnchainIsSound == Spec => []OnchainSound
<1>1. RecordSound => OnchainSound
  BY DEF RecordSound
<1> QED  BY AlwaysSound, <1>1, PTL

(* A recorded transaction hash announces the object it is recorded for:      *)
(* processBatch leaves the hash of a SkipTx member alone.                    *)
THEOREM TxHashIsSound == Spec => []TxHashSound
<1>1. RecordSound => TxHashSound
  BY DEF RecordSound
<1> QED  BY AlwaysSound, <1>1, PTL
-----------------------------------------------------------------------------
(* Layer 4: the bytes of an acknowledged object.                             *)

InHandOrTaken(r) == cache[r] = "intact" \/ r \in Taken \/ r \in lost

(* A sweep works off objects that were finalized when it listed them. *)
CandidatesTaken == cands \subseteq Taken

(* A PUT of new content has put the file in place before it creates the      *)
(* object, and it is still there after noting and evicting.                  *)
RenamedKept ==
  \A p \in Procs : cpc[p] = "create" \/ cret[p] = "create" =>
                     InHandOrTaken(croot[p])

BytesInv == CandidatesTaken /\ RenamedKept /\ Durable

(* The worker removes no file, and creates no object. *)
LEMMA WorkerKeepsBytes ==
  ASSUME TypeInv, BytesInv, Worker
  PROVE  BytesInv'
<1>1. Taken \subseteq Taken'
  BY ChainGrows DEF Next
<1>2. UNCHANGED <<cacheVars, serviceVars>>
  BY DEF Worker, Flush, NextBatch, ExamineFresh, ExamineRetried, QueryStatus,
         ApplyStatus, NothingToSubmit, BeginSubmit, MarkSubmitted, MarkOnchain,
         OpenFiles, SubmitTx, SubmitRefused, SubmitNothing, UploadSegments,
         UploadFails, BatchDone, ReconcileQuery, PollQuery, ReconcileApply,
         CountRetry, GiveUpOrRetry, BeginPoll, PollApply, PollDone
<1>3. shaIndex' = shaIndex
  BY DEF Worker, Flush, NextBatch, ExamineFresh, ExamineRetried, QueryStatus,
         ApplyStatus, NothingToSubmit, BeginSubmit, MarkSubmitted, MarkOnchain,
         OpenFiles, SubmitTx, SubmitRefused, SubmitNothing, UploadSegments,
         UploadFails, BatchDone, ReconcileQuery, PollQuery, ReconcileApply,
         CountRetry, GiveUpOrRetry, BeginPoll, PollApply, PollDone, SetStatus,
         SetSkipTx, IncRetries, mutate, storeVars
<1>4. \A r \in Roots : Known(r)' => Known(r)
  BY <1>3, WorkerStore DEF TypeInv, StoreInv, IndexSync
<1> QED  BY <1>1, <1>2, <1>4 DEF BytesInv, CandidatesTaken, RenamedKept, Durable,
            InHandOrTaken, Taken, cacheVars, serviceVars, reqVars, evictVars

(* A handler's step that writes no object and removes no file. *)
LEMMA HandlerKeepsBytes ==
  ASSUME TypeInv, RecordSound, BytesInv, NEW p \in Procs, Handle(p)
  PROVE  BytesInv'
<1> USE DEF BytesInv, CandidatesTaken, RenamedKept, Durable, InHandOrTaken, Taken,
            TypeInv, HandlerInv, ServiceTypeOK, Goto, Return, reqVars, evictVars,
            cacheVars, storeVars, chainVars, Known
<1>1. CASE noteAdded(p)
  BY <1>1 DEF noteAdded
<1>2. CASE OverLimit(p)
  BY <1>2 DEF OverLimit, LeaveEvict
<1>3. CASE AcquireEvicting(p)
  BY <1>3 DEF AcquireEvicting, LeaveEvict
<1>4. CASE ListCandidates(p)
  BY <1>4 DEF ListCandidates, FinalizedCacheEntries, RecordSound, OnchainSound
<1>5. CASE Debit(p)
  BY <1>5 DEF Debit
<1>6. CASE ReleaseEvicting(p)
  BY <1>6 DEF ReleaseEvicting, LeaveEvict
<1>7. ASSUME NEW r \in Roots, EvictOne(p, r) PROVE BytesInv'
  BY <1>7 DEF EvictOne, Remove, CacheTypeOK
<1>8. ASSUME NEW r \in Roots, EvictRefused(p, r) PROVE BytesInv'
  BY <1>8 DEF EvictRefused
<1>9. CASE ShouldRejectWrite(p) \/ Lookup(p) \/ Decide(p) \/ OpenCached(p)
  BY <1>9 DEF ShouldRejectWrite, Lookup, Decide, OpenCached
<1>10. CASE Salvage(p) \/ RenameFresh(p) \/ Restore(p)
  BY <1>10 DEF Salvage, RenameFresh, Restore, By, RenameInto, CacheTypeOK
<1>11. CASE Rearm(p)
  BY <1>11, ReenqueueEffect DEF Rearm, StoreInv
<1>12. CASE Create(p)
  BY <1>12, CreateObjectEffect DEF Create, ErrExists, StoreInv
<1>13. CASE Download(p) \/ Reopen(p) \/ ReopenFails(p) \/ RequestFails(p)
  BY <1>13 DEF Download, Reopen, ReopenFails, RequestFails
<1> QED  BY <1>1, <1>2, <1>3, <1>4, <1>5, <1>6, <1>7, <1>8, <1>9, <1>10,
            <1>11, <1>12, <1>13 DEF Handle, HandlerStep

(* A known object has intact bytes in the cache or in the network, unless    *)
(* its file was taken from outside or the nodes pruned what they had been    *)
(* given: evictIfNeeded lists finalized objects only, Put creates an object  *)
(* after its file, and no crash, failed batch or concurrent request comes    *)
(* between the two.                                                          *)
THEOREM BytesAreDurable == Spec => []Durable
<1>1. Init => BytesInv
  <2> SUFFICES ASSUME Init PROVE BytesInv
    OBVIOUS
  <2>1. \A r \in Roots : objects[r] = Absent
    BY DEF Init, StoreInit
  <2>2. Absent.status = "absent"
    BY DEF Absent
  <2>3. CandidatesTaken /\ RenamedKept
    BY DEF Init, ServiceInit, CandidatesTaken, RenamedKept
  <2> QED  BY <2>1, <2>2, <2>3 DEF BytesInv, Durable, Known
<1>2. TypeInv /\ RecordSound /\ BytesInv /\ [Next]_vars => BytesInv'
  <2> SUFFICES ASSUME TypeInv, RecordSound, BytesInv, [Next]_vars PROVE BytesInv'
    OBVIOUS
  <2> USE DEF BytesInv, CandidatesTaken, RenamedKept, Durable, InHandOrTaken, Taken,
              Known, serviceVars, reqVars, evictVars, cacheVars, storeVars
  <2>1. ASSUME NEW p \in Procs, Begin(p) PROVE BytesInv'
    BY <2>1 DEF Begin, BeginPut, BeginOpen, Goto, TypeInv, HandlerInv,
                ServiceTypeOK, chainVars
  <2>2. CASE Network
    BY <2>2 DEF Network, NodeSync, NodeFinalize
  <2>3. CASE Fault
    <3>1. UNCHANGED <<objects, serviceVars>> /\ Taken \subseteq Taken'
      BY <2>3, ChainGrows DEF Fault, StoreError, Next
    <3>2. CASE UNCHANGED cacheVars
      BY <3>1, <3>2
    <3>3. ASSUME NEW r \in Roots, LoseFile(r) \/ DamageFile(r) PROVE BytesInv'
      <4>1. CandidatesTaken' /\ Durable'
        BY <3>1, <3>3 DEF LoseFile, DamageFile, TypeInv, CacheTypeOK
      <4>2. RenamedKept'
        BY <3>1, <3>3 DEF LoseFile, DamageFile, TypeInv, CacheTypeOK, HandlerInv
      <4> QED  BY <4>1, <4>2
    <3> QED  BY <2>3, <3>2, <3>3 DEF Fault, StoreError
  <2>4. CASE Crash
    BY <2>4 DEF Crash, New, chainVars
  <2>5. CASE UNCHANGED vars
    BY <2>5 DEF vars, chainVars
  <2> QED  BY <2>1, <2>2, <2>3, <2>4, <2>5, WorkerKeepsBytes, HandlerKeepsBytes
           DEF Next
<1>3. BytesInv => Durable
  BY DEF BytesInv
<1> QED  BY <1>1, <1>2, <1>3, TypesAndQueues, AlwaysSound, PTL DEF Spec
=============================================================================
