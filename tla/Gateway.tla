------------------------------- MODULE Gateway -------------------------------
(* The gateway process: request handlers and the upload worker over one      *)
(* metadata store and one cache directory, the 0G network, and what may go   *)
(* wrong around them: crashes, lost files, failing store transactions and    *)
(* pruned data.                                                              *)
EXTENDS ObjectService, Uploader

CONSTANTS
  MaxCrashes,   \* bound: process crashes
  MaxFaults     \* bound: lost or damaged files, store errors, prunings

ASSUME GatewayAssumption == MaxCrashes \in Nat /\ MaxFaults \in Nat

VARIABLES crashes, faults

envVars == <<crashes, faults>>
vars == <<storeVars, chainVars, cacheVars, serviceVars, workerVars, envVars>>

Init ==
  /\ StoreInit /\ ChainInit /\ CacheInit /\ ServiceInit /\ WorkerInit
  /\ crashes = 0 /\ faults = 0

(* The worker is started once object.New has returned. *)
Worker ==
  /\ Serving
  /\ \/ Flush \/ NextBatch
     \/ \E r \in Roots : ExamineFresh(r) \/ ExamineRetried(r)
     \/ \E up \in SUBSET Nodes : QueryStatus(up)
     \/ ApplyStatus \/ NothingToSubmit \/ BeginSubmit
     \/ \E r \in Roots : MarkSubmitted(r) \/ MarkOnchain(r)
     \/ OpenFiles \/ SubmitTx \/ SubmitRefused \/ SubmitNothing
     \/ UploadSegments \/ UploadFails \/ BatchDone
     \/ \E r \in Roots, up \in SUBSET Nodes :
          ReconcileQuery(r, up) \/ PollQuery(r, up)
     \/ ReconcileApply \/ CountRetry \/ GiveUpOrRetry
     \/ BeginPoll \/ PollApply \/ PollDone
  /\ UNCHANGED <<serviceVars, envVars>>

Begin(p) ==
  /\ \E r \in Roots : BeginPut(p, r) \/ BeginOpen(p, r)
  /\ UNCHANGED <<workerVars, envVars>>

(* A handler under way takes its next step. *)
Handle(p) == HandlerStep(p) /\ UNCHANGED <<workerVars, envVars>>

Network ==
  /\ \E n \in Nodes, r \in Roots : NodeSync(n, r) \/ NodeFinalize(n, r)
  /\ UNCHANGED <<storeVars, cacheVars, serviceVars, workerVars, envVars>>

Fault ==
  /\ faults < MaxFaults
  /\ faults' = faults + 1
  /\ \/ /\ \E r \in Roots : LoseFile(r) \/ DamageFile(r)
        /\ UNCHANGED <<storeVars, chainVars, workerVars>>
     \/ /\ \E n \in Nodes, r \in Roots : NodePrune(n, r)
        /\ UNCHANGED <<storeVars, cacheVars, workerVars>>
     \/ Serving /\ StoreError
  /\ UNCHANGED <<serviceVars, crashes>>

(* The process dies between any two steps and starts again: the database,    *)
(* the cache directory and the network are what is left.                     *)
Crash ==
  /\ crashes < MaxCrashes
  /\ crashes' = crashes + 1
  /\ New
  /\ WorkerReset
  /\ UNCHANGED <<storeVars, chainVars, cacheVars, faults>>

Next == Worker \/ (\E p \in Procs : Begin(p) \/ Handle(p))
               \/ Network \/ Fault \/ Crash

Spec == Init /\ [][Next]_vars

(* The worker's goroutine and the handlers under way keep being scheduled,   *)
(* no call hangs, and the network works on what it was given.  No status     *)
(* query about an object fails, or misses a node, for ever.                  *)
Fairness ==
  /\ WF_vars(Worker)
  /\ WF_vars(Network)
  /\ \A p \in Procs : WF_vars(Handle(p))
  /\ \A r \in Roots :
       /\ SF_vars(cur = r /\ QueryStatus(Nodes) /\ UNCHANGED <<serviceVars, envVars>>)
       /\ SF_vars(PollQuery(r, Nodes) /\ UNCHANGED <<serviceVars, envVars>>)

FairSpec == Spec /\ Fairness
-----------------------------------------------------------------------------
TypeOK ==
  /\ StoreTypeOK /\ ChainTypeOK /\ CacheTypeOK
  /\ ServiceTypeOK /\ AccountTypeOK /\ WorkerTypeOK
  /\ crashes \in 0 .. MaxCrashes /\ faults \in 0 .. MaxFaults

(* What the metadata says of 0G is so: an object recorded as onchain or      *)
(* finalized has a transaction that announces it and has its segments in the *)
(* network, whatever batch, SkipTx decision, failure or crash led there.     *)
(* Only the nodes' pruning undoes it: the status does not follow that.       *)
OnchainSound ==
  \A r \in Roots : objects[r].status \in {"onchain", "finalized"} =>
                     txs[r] # {} /\ (r \in stored \/ r \in pruned)

(* A recorded transaction hash is the hash of a transaction that announces   *)
(* this very object: MarkOnchain never stamps a batch's hash on a member     *)
(* that was not part of the batch's transaction.                             *)
TxHashSound ==
  \A r \in Roots : objects[r].txHash # NoTx => objects[r].txHash \in txs[r]

(* The recorded failure reason is that of the present failure: an object     *)
(* shows a reason exactly while it is failed, through re-arming, retries and *)
(* whatever the worker writes meanwhile.                                     *)
FailReasonCurrent ==
  \A r \in Roots : objects[r].failReason # "" <=> objects[r].status = "failed"

(* MaxRetries is "attempts before an object is marked failed": an object     *)
(* failed for exhausted retries has used them up, or a PUT re-armed it since *)
(* it was last submitted.  The exception is real: a Reenqueue between the    *)
(* worker's IncRetries and its SetStatus is overruled, and the object is     *)
(* failed with no attempt made since.                                        *)
FailedAfterRetries ==
  \A r \in Roots : objects[r].failReason = "retries exhausted" =>
                     objects[r].retries > MaxRetries \/ r \in rearmed

(* An object announced on chain once is announced again only after the nodes *)
(* were asked about it in this batch, or when a PUT re-armed it: a crash or  *)
(* a failed batch alone never makes the worker submit blindly.               *)
NoBlindResubmit ==
  [][\A r \in Roots : txs'[r] # txs[r] =>
       txs[r] = {} \/ r \in asked \/ r \in excused]_vars

(* Every accepted object is settled: it becomes finalized, or failed and so  *)
(* visible to the operator.  Retries, SkipTx rounds, deferred queries, lost  *)
(* files and crashes do not leave it queued for ever.                        *)
Settles ==
  \A r \in Roots : Known(r) ~> objects[r].status \in {"finalized", "failed"}

(* The gateway implements Archive.  A queued record is pending or submitted; *)
(* a PUT commits with Reenqueue or CreateObject.                             *)
RecordOf(status) ==
  IF status \in {"pending", "submitted"} THEN "queued" ELSE status

Record == [r \in Roots |-> RecordOf(objects[r].status)]
Transferred == {r \in Taken : txs[r] # {}}
Committing == {croot[p] : p \in {q \in Procs : cpc[q] \in {"rearm", "create"}}}

Promise == INSTANCE Archive WITH
  record <- Record, transferred <- Transferred, committing <- Committing

(* Every behaviour of handlers, worker, network, faults and crashes is one   *)
(* of the archive: a content is forgotten by no step, is reported onchain or *)
(* finalized only after the network took it, and leaves finalized or failed  *)
(* only for a PUT of the same bytes, never at the hands of the worker.       *)
ImplementsArchive == Promise!ArchiveSpec

(* docs/architecture.md: after a restart the worker reconciles "`submitted`/ *)
(* failed objects [...] before deciding whether to re-upload - it never      *)
(* blindly re-submits".  Without the exception NoBlindResubmit makes.        *)
NeverBlindlyResubmits ==
  [][\A r \in Roots : txs'[r] # txs[r] => txs[r] = {} \/ r \in asked]_vars

(* docs/architecture.md: "If a node is unreachable during reconciliation, it *)
(* skips this round and leaves the item queued": an answer that leads to a   *)
(* fresh transaction is not missing a node that holds the entry.             *)
SkipsWhenNodeUnreachable ==
  [][pc = "query" /\ pc' = "apply" /\ ans' = "unknown" => ~HasEntry(cur)]_vars
=============================================================================
