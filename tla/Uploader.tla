------------------------------ MODULE Uploader -------------------------------
(* internal/uploader: the single background worker.  A tick runs Flush, then *)
(* PollFinality.  The worker shares the metadata store and the cache         *)
(* directory with the request handlers, so every store transaction, every    *)
(* status query and each half of BatchUpload is a step of its own.           *)
(* A `for range` loop works off the set `left`; the order of its members is  *)
(* left open.                                                                *)
EXTENDS ObjectStore, Chain, CacheDir

CONSTANTS
  BatchMax,     \* most files in one transaction
  MaxRetries    \* failed attempts before an object is given up

ASSUME UploaderAssumption == BatchMax \in Nat \ {0} /\ MaxRetries \in Nat \ {0}

VARIABLES
  pc,       \* where the worker is
  todo,     \* Flush: what remains of the queue snapshot
  left,     \* members the current loop has still to visit
  items,    \* members of the batch handed to BatchUpload ...
  skip,     \* ... those with SkipTx set
  cur,      \* the member a query is about
  ans,      \* and the answer to it
  bad,      \* files BatchUpload opened that are not the bytes of their root
  wtx,      \* the hash BatchUpload will return
  asked,    \* history: items whose status the nodes told in this batch
  excused   \* history: items taken without asking that a PUT had re-armed

batchVars == <<items, skip, bad, wtx, asked, excused>>
loopVars == <<pc, todo, left, cur, ans>>
workerVars == <<loopVars, batchVars>>

WorkerPC == {"idle", "flush", "examine", "query", "apply", "mark", "tx",
             "segments", "onchain", "recon", "reconApply", "count",
             "requeue", "fail", "poll", "pollApply"}

NoRoot == "none"

WorkerInit ==
  /\ pc = "idle" /\ todo = {} /\ left = {} /\ cur = NoRoot /\ ans = "error"
  /\ items = {} /\ skip = {} /\ bad = {} /\ wtx = NoTx
  /\ asked = {} /\ excused = {}

(* What a restart leaves of the worker: nothing. *)
WorkerReset ==
  /\ pc' = "idle" /\ todo' = {} /\ left' = {} /\ cur' = NoRoot /\ ans' = "error"
  /\ items' = {} /\ skip' = {} /\ bad' = {} /\ wtx' = NoTx
  /\ asked' = {} /\ excused' = {}

To(p) == pc' = p
Visited(r) == left' = left \ {r}
ForgetQuery == cur' = NoRoot /\ ans' = "error"

(* processBatch returns, with or without an error: Flush goes on with the    *)
(* next batch of its snapshot either way.                                    *)
BatchReturns ==
  /\ To("flush") /\ left' = {} /\ ForgetQuery
  /\ items' = {} /\ skip' = {} /\ bad' = {} /\ wtx' = NoTx
  /\ asked' = {} /\ excused' = {}
  /\ UNCHANGED todo
-----------------------------------------------------------------------------
(* Flush *)

Flush ==
  /\ pc = "idle"
  /\ To("flush")
  /\ todo' = qUpload
  /\ UNCHANGED <<left, cur, ans, batchVars, storeVars, chainVars, cacheVars>>

NextBatch ==
  /\ pc = "flush"
  /\ \E b \in SUBSET todo :
       /\ b # {}
       /\ Cardinality(b) = BatchMax \/ (b = todo /\ Cardinality(b) < BatchMax)
       /\ left' = b
       /\ todo' = todo \ b
  /\ To("examine")
  /\ UNCHANGED <<cur, ans, batchVars, storeVars, chainVars, cacheVars>>
-----------------------------------------------------------------------------
(* processBatch: decide what to submit, submit it, record the outcome *)

(* Mutant: only crash leftovers are reconciled. *)
NeedsReconcileSubmitted(r) == objects[r].status = "submitted"

NeedsReconcile(r) == objects[r].status = "submitted" \/ objects[r].retries > 0

TakeItem(r, skipTx) ==
  /\ items' = items \cup {r}
  /\ skip' = IF skipTx THEN skip \cup {r} ELSE skip
  /\ asked' = IF pc = "apply" THEN asked \cup {r} ELSE asked
  /\ excused' = IF pc # "apply" /\ r \in rearmed THEN excused \cup {r} ELSE excused
  /\ UNCHANGED <<bad, wtx>>

(* The re-read of a member finds it fresh: no status query. *)
ExamineFresh(r) ==
  /\ pc = "examine" /\ r \in left
  /\ ~NeedsReconcile(r)
  /\ TakeItem(r, objects[r].skipTx)
  /\ Visited(r)
  /\ UNCHANGED <<pc, todo, cur, ans, storeVars, chainVars, cacheVars>>

ExamineRetried(r) ==
  /\ pc = "examine" /\ r \in left
  /\ NeedsReconcile(r)
  /\ cur' = r
  /\ To("query")
  /\ UNCHANGED <<todo, left, ans, batchVars, storeVars, chainVars, cacheVars>>

(* The status query before a re-submission.  Without an answer the member is *)
(* left as it is, for a later flush.                                         *)
QueryStatus(up) ==
  /\ pc = "query"
  /\ IF FileStatus(cur, up) = "error"
     THEN Visited(cur) /\ ForgetQuery /\ To("examine")
     ELSE ans' = FileStatus(cur, up) /\ To("apply") /\ UNCHANGED <<left, cur>>
  /\ UNCHANGED <<todo, batchVars, storeVars, chainVars, cacheVars>>

ApplyStatus ==
  /\ pc = "apply"
  /\ \/ /\ ans = "finalized"
        /\ SetStatus(cur, "finalized", NoTx, "")
        /\ UNCHANGED batchVars
     \/ /\ ans = "uploading"
        /\ SetSkipTx(cur, TRUE)
        /\ TakeItem(cur, TRUE)
     \/ /\ ans \in {"unknown", "pruned"}
        /\ SetSkipTx(cur, FALSE)
        /\ TakeItem(cur, FALSE)
  /\ Visited(cur) /\ ForgetQuery /\ To("examine")
  /\ UNCHANGED <<todo, chainVars, cacheVars>>

NothingToSubmit ==
  /\ pc = "examine" /\ left = {} /\ items = {}
  /\ BatchReturns
  /\ UNCHANGED <<storeVars, chainVars, cacheVars>>

BeginSubmit ==
  /\ pc = "examine" /\ left = {} /\ items # {}
  /\ left' = items
  /\ To("mark")
  /\ UNCHANGED <<todo, cur, ans, batchVars, storeVars, chainVars, cacheVars>>

MarkSubmitted(r) ==
  /\ pc = "mark" /\ r \in left
  /\ SetStatus(r, "submitted", NoTx, "")
  /\ Visited(r)
  /\ UNCHANGED <<pc, todo, cur, ans, batchVars, chainVars, cacheVars>>
-----------------------------------------------------------------------------
(* Backend.BatchUpload: open every file, send one transaction for the items  *)
(* without SkipTx, upload the segments of all, compare the roots             *)

BatchFails ==
  /\ To("recon")
  /\ left' = items
  /\ UNCHANGED <<todo, cur, ans, items, skip, asked, excused>>

OpenFiles ==
  /\ pc = "mark" /\ left = {}
  /\ IF \E r \in items : ~fileExists(r)
     THEN BatchFails /\ UNCHANGED bad
     ELSE /\ To("tx")
          /\ bad' = {r \in items : cache[r] = "damaged"}
          /\ UNCHANGED <<todo, left, cur, ans, items, skip, asked, excused>>
  /\ UNCHANGED <<wtx, storeVars, chainVars, cacheVars>>

Fresh == items \ skip

(* The transaction is on chain.  The call may still fail, its receipt lost.  *)
(* A damaged file announces the root of other bytes, not its own.            *)
SubmitTx ==
  /\ pc = "tx" /\ Fresh # {}
  /\ LandTx(Fresh \ bad)
  /\ \/ /\ To("segments")
        /\ wtx' = lastTx + 1
        /\ UNCHANGED <<todo, left, cur, ans, items, skip, asked, excused>>
     \/ BatchFails /\ UNCHANGED wtx
  /\ UNCHANGED <<bad, storeVars, cacheVars>>

SubmitRefused ==
  /\ pc = "tx" /\ Fresh # {}
  /\ BatchFails
  /\ UNCHANGED <<bad, wtx, storeVars, chainVars, cacheVars>>

(* All items carry SkipTx: no transaction, the empty hash. *)
SubmitNothing ==
  /\ pc = "tx" /\ Fresh = {}
  /\ To("segments")
  /\ UNCHANGED <<todo, left, cur, ans, batchVars, storeVars, chainVars, cacheVars>>

UploadSegments ==
  /\ pc = "segments" /\ bad = {}
  /\ \A r \in items : HasEntry(r)
  /\ TakeSegments(items)
  /\ left' = items
  /\ To("onchain")
  /\ UNCHANGED <<todo, cur, ans, batchVars, storeVars, cacheVars>>

(* An RPC error after any part of the segments, or a root that does not      *)
(* match its file.                                                           *)
UploadFails ==
  /\ pc = "segments"
  /\ \E rs \in SUBSET {r \in items \ bad : HasEntry(r)} : TakeSegments(rs)
  /\ BatchFails
  /\ UNCHANGED <<bad, wtx, storeVars, cacheVars>>

(* Mutant: the batch's hash is stamped on every member. *)
MarkOnchainStampsAll(r) ==
  /\ pc = "onchain" /\ r \in left
  /\ SetStatus(r, "onchain", wtx, "")
  /\ Visited(r)
  /\ UNCHANGED <<pc, todo, cur, ans, batchVars, chainVars, cacheVars>>

(* An item with SkipTx keeps the hash recorded for it. *)
MarkOnchain(r) ==
  /\ pc = "onchain" /\ r \in left
  /\ SetStatus(r, "onchain", IF r \in skip THEN NoTx ELSE wtx, "")
  /\ Visited(r)
  /\ UNCHANGED <<pc, todo, cur, ans, batchVars, chainVars, cacheVars>>

BatchDone ==
  /\ pc \in {"onchain", "recon"} /\ left = {}
  /\ BatchReturns
  /\ UNCHANGED <<storeVars, chainVars, cacheVars>>
-----------------------------------------------------------------------------
(* reconcileFailedBatch *)

ReconcileQuery(r, up) ==
  /\ pc = "recon" /\ r \in left
  /\ cur' = r
  /\ IF FileStatus(r, up) \in {"finalized", "uploading"}
     THEN ans' = FileStatus(r, up) /\ To("reconApply")
     ELSE UNCHANGED ans /\ To("count")
  /\ UNCHANGED <<todo, left, batchVars, storeVars, chainVars, cacheVars>>

ReconcileApply ==
  /\ pc = "reconApply"
  /\ \/ /\ ans = "finalized"
        /\ SetStatus(cur, "finalized", NoTx, "")
        /\ Visited(cur) /\ ForgetQuery /\ To("recon")
     \/ /\ ans = "uploading"
        /\ SetSkipTx(cur, TRUE)
        /\ To("count") /\ ans' = "error"
        /\ UNCHANGED <<left, cur>>
  /\ UNCHANGED <<todo, batchVars, chainVars, cacheVars>>

(* Mutant: the last attempt is not made. *)
CountRetryEarly ==
  /\ pc = "count"
  /\ IncRetries(cur)
  /\ To(IF objects'[cur].retries >= MaxRetries THEN "fail" ELSE "requeue")
  /\ UNCHANGED <<todo, left, cur, ans, batchVars, chainVars, cacheVars>>

CountRetry ==
  /\ pc = "count"
  /\ IncRetries(cur)
  /\ To(IF objects'[cur].retries > MaxRetries THEN "fail" ELSE "requeue")
  /\ UNCHANGED <<todo, left, cur, ans, batchVars, chainVars, cacheVars>>

GiveUpOrRetry ==
  /\ \/ pc = "fail" /\ SetStatus(cur, "failed", NoTx, "retries exhausted")
     \/ pc = "requeue" /\ SetStatus(cur, "pending", NoTx, "")
  /\ Visited(cur) /\ ForgetQuery /\ To("recon")
  /\ UNCHANGED <<todo, batchVars, chainVars, cacheVars>>
-----------------------------------------------------------------------------
(* PollFinality *)

BeginPoll ==
  /\ pc = "flush" /\ todo = {}
  /\ To("poll")
  /\ left' = qFinalize
  /\ UNCHANGED <<todo, cur, ans, batchVars, storeVars, chainVars, cacheVars>>

PollQuery(r, up) ==
  /\ pc = "poll" /\ r \in left
  /\ IF FileStatus(r, up) \in {"finalized", "pruned"}
     THEN cur' = r /\ ans' = FileStatus(r, up) /\ To("pollApply")
          /\ UNCHANGED left
     ELSE Visited(r) /\ UNCHANGED <<pc, cur, ans>>
  /\ UNCHANGED <<todo, batchVars, storeVars, chainVars, cacheVars>>

(* Mutant: what the nodes pruned is queued again at once. *)
PollApplyRequeues ==
  /\ pc = "pollApply"
  /\ \/ ans = "finalized" /\ SetStatus(cur, "finalized", NoTx, "")
     \/ ans = "pruned" /\ SetStatus(cur, "pending", NoTx, "")
  /\ Visited(cur) /\ ForgetQuery /\ To("poll")
  /\ UNCHANGED <<todo, batchVars, chainVars, cacheVars>>

PollApply ==
  /\ pc = "pollApply"
  /\ \/ ans = "finalized" /\ SetStatus(cur, "finalized", NoTx, "")
     \/ ans = "pruned" /\ SetStatus(cur, "failed", NoTx, "pruned")
  /\ Visited(cur) /\ ForgetQuery /\ To("poll")
  /\ UNCHANGED <<todo, batchVars, chainVars, cacheVars>>

PollDone ==
  /\ pc = "poll" /\ left = {}
  /\ To("idle")
  /\ UNCHANGED <<todo, left, cur, ans, batchVars, storeVars, chainVars, cacheVars>>
-----------------------------------------------------------------------------
(* A store transaction fails and changes nothing.  Flush returns when it     *)
(* cannot list its queue, processBatch on the errors it checks; the ignored  *)
(* ones only lose their write, and PollFinality returns without its list.    *)

StoreErrorReturns ==
  /\ \/ pc = "idle"
     \/ pc \in {"examine", "mark", "onchain"} /\ left # {}
     \/ pc = "apply" /\ ans = "finalized"
  /\ BatchReturns

StoreErrorIgnored ==
  /\ \/ /\ pc = "apply" /\ ans # "finalized"
        /\ TakeItem(cur, ans = "uploading")
        /\ Visited(cur) /\ ForgetQuery /\ To("examine")
     \/ /\ pc = "reconApply" /\ ans = "uploading"
        /\ To("count") /\ ans' = "error"
        /\ UNCHANGED <<left, cur, batchVars>>
     \/ /\ \/ pc = "reconApply" /\ ans = "finalized"
           \/ pc \in {"count", "fail", "requeue"}
        /\ Visited(cur) /\ ForgetQuery /\ To("recon")
        /\ UNCHANGED batchVars
     \/ /\ pc = "pollApply"
        /\ Visited(cur) /\ ForgetQuery /\ To("poll")
        /\ UNCHANGED batchVars
     \/ /\ pc = "flush" /\ todo = {}
        /\ To("idle")
        /\ UNCHANGED <<left, cur, ans, batchVars>>
  /\ UNCHANGED todo

StoreError ==
  /\ StoreErrorReturns \/ StoreErrorIgnored
  /\ UNCHANGED <<storeVars, chainVars, cacheVars>>
-----------------------------------------------------------------------------
WorkerTypeOK ==
  /\ pc \in WorkerPC
  /\ todo \subseteq Roots
  /\ left \subseteq Roots
  /\ items \subseteq Roots
  /\ skip \subseteq items
  /\ cur \in Roots \cup {NoRoot}
  /\ ans \in FileStatuses
  /\ bad \subseteq items
  /\ wtx \in 0 .. MaxTx
  /\ asked \subseteq items
  /\ excused \subseteq items
=============================================================================
