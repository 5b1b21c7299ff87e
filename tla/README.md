# A verification project for 0g-gateway

0g-gateway is an S3-compatible endpoint in front of the 0G storage network. It
accepts objects, acknowledges them once they are in a local cache and a metadata
database, and uploads them in the background. This directory holds TLA+ models
of the gateway, the TLC configurations that check them, and TLAPS proofs.

## 1. The system

| Part | Source | State | Operations |
|---|---|---|---|
| Metadata store | `internal/store` | bbolt buckets: objects, SHA256 index, upload and finalize queues; S3 buckets and keys | one transaction per operation |
| Object service | `internal/object` | cache directory, `cacheBytes`, `evicting` | `Put`, `Open`, `ShouldRejectWrite`, eviction, `New` |
| Upload worker | `internal/uploader` | the batch in hand (volatile) | `Flush`, `processBatch`, `reconcileFailedBatch`, `PollFinality` |
| Chain backend | `internal/chain` | none of its own; the 0G network behind it | `BatchUpload`, `FileStatus`, `Download` |
| S3 layer | `internal/s3gw` | none of its own; the key index in the store | bucket and object operations, four middlewares |
| Images | `internal/imageproc` | none | resize arithmetic and pixels |
| Process | `cmd/gateway` | configuration | start order, shutdown |

Request handlers (one goroutine each) and the single worker goroutine share the
database and the cache directory and nothing else: no lock spans two database
transactions, or a transaction and a file operation. The worker learns of the
network only through status queries that may fail, lag or disagree, and
`BatchUpload` either succeeds or returns one error for the whole batch. A crash
keeps the database, the cache directory and the network, and loses the rest.

What makes each part correct:

* store: the two queues and the dedup index say what the object records say;
* worker: what it records about 0G is true, a transaction is not sent twice
  without asking, and every object settles;
* object service: an acknowledged object's bytes exist somewhere, eviction
  removes only what the network holds, the cache total does not fall short;
* S3 layer: the key index never names an object or bucket that does not exist,
  and a reply was true at some moment while its request ran;
* middlewares: a copy reads the object the client named, a resized image fits
  what was asked for, an XML reply has the type the strict SDK accepts;
* process: whatever is configured can run, and a shutdown finishes what it began.

The hazards this is about are listed, with their lines, in `PROJECT.json`.

## 2. The modules

| Module | Models | Extends |
|---|---|---|
| `Objects` | contents (a root stands for its bytes) and their sizes | |
| `ObjectStore` | the object transactions of `internal/store` | `Objects` |
| `StoreCalls` | the store under arbitrary callers | `ObjectStore` |
| `Chain` | `FileStatus`, and the chain and nodes as `backend.go` uses them | `Objects` |
| `CacheDir` | the files under `DataDir/objects` | `Objects` |
| `Uploader` | the worker, `BatchUpload` included | `ObjectStore`, `Chain`, `CacheDir` |
| `ObjectService` | `Put`, `Open`, accounting, eviction, backpressure | same |
| `Gateway` | handlers + worker + network + faults + crash | `ObjectService`, `Uploader` |
| `CacheService` | handlers in a bounded cache, the worker reduced to its outcomes | `ObjectService` |
| `Archive` | the abstract specification: what the gateway promises of each content | `Objects` |
| `S3Index` | the bucket and key transactions of `internal/store` | `Objects` |
| `S3Gateway` | the operations of `s3gw/backend.go` as concurrent handlers, and `main`'s shutdown | `S3Index` |
| `CopySource`, `Resize`, `Config` | `normalizeCopySource`, the resize arithmetic, the settings, as operators | |
| `FrontEnd` | process start, and one request through the middlewares of `Wrap` and back | the three above |
| `MC*` | values for constants, symmetry | |
| `ObjectStoreProofs` | lemmas and theorems about the store | `StoreCalls` |
| `GatewayProofs`, `SoundnessProofs`, `ResubmitProofs`, `ArchiveProofs` | theorems about the gateway, each module on top of the one before | `Gateway` |
| `AccountProofs` | sums over finite sets, and the cache's running total | `GatewayProofs` |
| `FrontEndProofs` | theorems about the start and the middlewares | `FrontEnd` |
| `S3Proofs` | theorems about the S3 layer | `S3Gateway` |

How the state and the actions correspond to the code:

* **One step is one visible effect.** A database transaction, a file system
  call, an access to an atomic, a status query and each half of `BatchUpload`
  (the transaction, then the segments) are steps of their own, so another
  goroutine, a fault or a crash may come between any two. `pc` and `cpc` say
  where the worker and each handler are. One place is coarser: `EvictOne` loads
  the total, stats and removes a file at once; sweeps exclude each other, and
  the comment there says why nothing else that comes between shows.
* **`ObjectStore`** keeps the metadata as a total function; `"absent"` stands
  for a root without a record. `rearmed` is a history variable: roots whose
  last `Reenqueue` is later than the last time they were marked submitted.
* **`Uploader`**: a `for range` loop works off the set `left`; its order is left
  open (the code goes by key order). `todo` is what remains of the queue
  snapshot of `Flush`. `QueryStatus`/`ApplyStatus` are the reconciliation before
  a submission, `ReconcileQuery` .. `GiveUpOrRetry` the one after a failed batch
  (`IncRetries` and the `SetStatus` after it are separate steps, as in the
  code). `StoreError` is a failing transaction, or a queue that cannot be
  listed: some errors end the batch, others are ignored, as the code has it. `asked` and `excused` are history
  variables for `NoBlindResubmit`.
* **`Chain`**: a transaction counts from its broadcast; nodes learn of it
  (`NodeSync`), finalize once the segments are in, and may prune. A pruning node
  deletes its chunks and the entry, and only a later transaction announces the
  root to it anew (`cut`). `stored`, what the network holds, shrinks when the
  last node that has the segments prunes; `pruned` is a history variable for
  what was lost this way. `Taken` is the union of the two: what the network was
  given at some time.
  `FileStatus(r, up)` is what the code computes when the nodes in `up` answer,
  and every subset may answer at each query.
* **`ObjectService`**: `cseen` is the status the dedup lookup returned, on which
  `Put` acts later; `cret` is where a handler goes on after `noteAdded` and
  `evictIfNeeded`. The sweep is `OverLimit`, `AcquireEvicting`,
  `ListCandidates`, `EvictOne` and `Debit` repeatedly, `ReleaseEvicting`. The
  candidates come in any order instead of by last access, which is why `Touch`
  is not modelled. `Boot` is the main goroutine, whose `New` sweeps before any
  request is served. `leaked` is a history variable.
* **`CacheDir`**: a damaged file is a truncated one (the code's own integrity
  gate is the size). `lost` remembers files taken by something other than the
  gateway, for `Durable`.
* **`Archive`** knows nothing of queues, caches, batches or transactions: a
  record is absent, queued, onchain, finalized or failed, and moves for one of
  four reasons. `Gateway` implements it under the mapping `Record` (pending and
  submitted are both queued), `Transferred` (announced and taken) and `Committing` (PUTs that have yet to
  commit with `CreateObject` or `Reenqueue`); `S3Gateway` relies on it for the
  object service: content that is known stays known.
* **`S3Gateway`**: `at` is where each handler is; each look at a bucket, look-up
  of a key, ingest and write of a key is a step, and `DeleteMulti` takes one per
  key. Metadata is never deleted, so reading it is not a step of its own. A
  request names the keys it writes, deletes or lists (`to`) and the one it reads
  (`from`); `cond` is the set of contents that `If-Match` or `If-None-Match`
  accepts. A HEAD is a
  GET. `seen` is a history variable: all that the index said of the names of a
  request since it began. `Shutdown` closes the store under the handlers, which
  then can only fail; a crash is a `Restart` without it.
* **`CopySource`**: a header is a sequence of characters, each literal or
  percent-encoded; bucket names have no characters to escape. `Encodings` are
  the spellings of clients. Those that escape for a path may leave a plus sign
  as it is; those that escape for a query (`plus`) write a plus sign for a space.
* **`Resize`**: sizes are exact rationals where the code has `float64`; where
  the exact product is a half, either rounding may happen.
* **`Config`**: one setting of each kind stands for those treated alike.
* **`FrontEnd`**: the middlewares in the order of `Wrap`. The header of a copy
  may be normalised more than once (another gateway in front). On the way back
  gofakes3 may set a type, write the header and write the body in any order.

Definitions commented "Mutant" are deliberate bugs; no specification uses them.
Each shows that some property notices that bug when it takes the place of the
definition after it.

## 3. What the runs check

All passing runs check for deadlock too.

| Run | Instance | Checks |
|---|---|---|
| `gateway_batch` | 2 contents in batches of up to 2, 1 node, 1 client | `TxHashSound`, `QueueSync`, `IndexSync`, `HashKept` |
| `gateway_live` | 1 content, 1 node, 1 client, 1 crash, 1 fault, fair | `TypeOK`, `Durable`, `OnchainSound`, `FailReasonCurrent`, `FailedAfterRetries`, `NoBlindResubmit`, `ImplementsArchive`, `Settles` |
| `cache_live` | 1 content of 6 bytes, limit 10, 2 clients, 1 crash, 1 fault, fair | `NeverUndercounts`, `SingleSweep`, `Durable`, `EvictingReleased` |
| `s3_requests` | 1 bucket, 2 keys, 1 content, 2 clients, shutdown, crash | `NoOrphanKeys`, `KeysResolve`, `ReadsWereTrue`, `WritesTookEffect` |
| `front_end` | keys of up to 2 characters, images of up to 9 by 9, 2 body writes | `BootsRunnable`, `CopyReadsItsSource`, `RendersFit`, `XMLTypeAccepted` |

Seven further runs each check one sentence the repository says of itself, and TLC
finds it violated by what the code does:

| Run | Sentence | What happens |
|---|---|---|
| `blind_resubmit` | architecture.md: the worker "never blindly re-submits" | `Reenqueue` resets the two things that make the worker ask; an object that failed with its transaction on chain is announced again after a repeated PUT |
| `partial_outage` | architecture.md: an unreachable node during reconciliation "skips this round" | `FileStatus` fails only when all nodes do; one lagging node's "unknown" is enough for a fresh transaction |
| `evict_race` | architecture.md: "non-finalized objects are never evicted" | a PUT acting on a stale `failed` puts a finalized object back to pending after the sweep listed it |
| `prune_evict` | service.go: finalized objects "are safe to drop because Open restores them from 0G" | the nodes prune a finalized object, which nothing asks about again, and the sweep removes the last copy |
| `copy_idempotent` | copysource.go: normalising "is idempotent for already-correct requests (e.g. the AWS SDK)" | `PathUnescape` leaves the plus sign that stands for a space, `QueryEscape` encodes it: the copy of "x y" reads "x+y" |
| `xml_errors` | xmlcontenttype.go: "normalizes the Content-Type of gofakes3's XML protocol responses" | `WriteHeader` settles the type with no body in sight; an XML body written after it, as in an error reply, is sniffed as `text/xml` |
| `abrupt_shutdown` | architecture.md: "graceful shutdown" | `Shutdown` makes `ListenAndServe` return at once; `main` does not wait for the drain, closes the store and exits with requests under way |

`NoBlindResubmit` is what does hold in place of the first: re-arming is the only
way to an unasked second transaction. Likewise `Durable` holds in the presence
of `evict_race`: the file removed is one the network has taken. It makes an
exception of what the network took and then pruned, the case of `prune_evict`:
the gateway loses no bytes, but it relies on the network not to either.
`CopyReadsItsSource` and `XMLTypeAccepted` leave out the requests among which
`copy_idempotent` and `xml_errors` find the code wrong: keys with a space, from a
client that escapes for a query or normalised before, and an XML body after a
header without a type. And although the shutdown is not graceful, the S3
properties hold through it: a request cut off is answered with an error or not at
all, and leaves no key without its content.
`ReadsWereTrue` and `WritesTookEffect` are what the handlers keep of atomicity.
The first is linearizability of each read; a write with conditions is less: the
code checks, ingests and writes in three transactions, and only promises (and
keeps) that the condition was met at some moment.

**Bounds.** `MaxTx`, `MaxCrashes`, `MaxFaults` (lost or damaged files, failing
transactions, prunings) and `ByteCap` are named constants. `MaxRetries = 1` gives
both outcomes of the retry cap; two transactions are enough for an object to be
announced twice; one crash at any point and one fault at any point cover each
recovery path once. `gateway_live` has one node, one client and one content,
`gateway_batch` no fault: more of each at once does not fit, and the invariants
of both are proved for all bounds (section 4). What is only checked for one node
is `Settles`, and with two it is false (section 5). When `MaxTx` is used up a
submission is refused, which the code handles as any other error, so the bound
does not block the worker. `ByteCap` only stops further reads from beginning. Two files of 6 bytes,
or one counted twice, do not fit under a limit of 10, so sweeps, rejections and
drift all occur. In `s3_requests` one content is enough because a mapped key and
an absent one differ; two keys give copies and partial deletions. In `front_end`
every pair of adjacent special characters occurs in a key, `MaxResizeDim = 6`
stands for 4096 and `UintMod = 65536` for 2^64; the profiles of `MCFrontEnd`
have settings on both sides of every limit, an interval that overflows included.
Nodes, clients, contents, buckets and keys are interchangeable (symmetry is used
in the safety runs, not in the fair ones).

**Fairness** (`gateway_live`, `cache_live`). Goroutines under way are scheduled
(weak fairness of `Worker` and of each `Handle(p)`): `Run` loops for ever and no
handler waits for another. The network works on what it was given (`Network`).
Status queries about an object do not fail, or miss a node, for ever (strong
fairness of the fully answered query): without it the worker defers for ever, as
the code means it to. That calls return at all is an assumption the code itself
names (comment at `Worker.Run`). Nothing is assumed of clients, of the outcome
of `BatchUpload`, or of faults.

## 4. What is proved

TLAPS checks every proof; nothing is assumed but the named `ASSUME`s on the
constants (sizes are positive, bounds are naturals, `Boot` is not a client,
`NoRoot` and the reply words are not roots; for `AccountProofs` roots and clients
are finite in number; the settings an operator gives are integers, a file's
`expected_replica` is not negative, which does not parse, an environment variable
that is set is not empty, and a list of nodes is shorter than the largest
`uint`). Roots, nodes, clients, buckets, keys, batch size, retry cap, cache limit
and the bounds on transactions, crashes and faults are arbitrary; so are, in the
front end, the settings, the length of a key, the size of an image and of a box,
and the numbers of passes and of writes.

| theorem | states | module |
|---|---|---|
| `StoreTypeCorrect`, `QueuesFollowStatus`, `IndexFollowsObjects`, `HashesKept` | `StoreTypeOK`, `QueueSync`, `IndexSync`, `HashKept` under arbitrary callers | `ObjectStoreProofs` |
| `TypesAndQueues` | `TypeInv`: the same facts and the types inside the whole gateway | `GatewayProofs` |
| `SweepsOneAtATime` | `SingleSweep` | `GatewayProofs` |
| `OnchainIsSound`, `TxHashIsSound`, `BytesAreDurable` | `OnchainSound`, `TxHashSound`, `Durable` | `SoundnessProofs` |
| `NeverBlind`, `ReasonIsCurrent`, `RetriesAreUsed` | `NoBlindResubmit`, `FailReasonCurrent`, `FailedAfterRetries` | `ResubmitProofs` |
| `GatewayImplementsArchive` | `ImplementsArchive`: `Gateway` refines `Archive` | `ArchiveProofs` |
| `NoKeyOutlivesItsBucket`, `EveryKeyResolves`, `ReadsAreTrue`, `WritesAreTrue` | `NoOrphanKeys`, `KeysResolve`, `ReadsWereTrue`, `WritesTookEffect` | `S3Proofs` |
| `GatewayTypeCorrect`, `CacheIsAccounted` | `TypeOK`, `NeverUndercounts` | `AccountProofs` |
| `StartsRunnable`, `CopiesItsSource`, `ResizesFit`, `XMLIsAccepted` | `BootsRunnable`, `CopyReadsItsSource`, `RendersFit`, `XMLTypeAccepted` | `FrontEndProofs` |

`ObjectStoreProofs` holds one lemma per transaction: it preserves `StoreInv`
(types, `QueueSync`, `IndexSync`, and that a root without an object has no
metadata). The invariant of the gateway is built in layers, each proved from
the ones below it, because none of the properties is inductive by itself: each
depends on what a process read earlier and holds in its local variables.

1. `TypeInv` adds to `StoreInv` where local variables mean something: the
   worker's `cur` is a content wherever it writes an answer back, the loops that
   mark members run over members of the batch, and a handler under way has a
   content.
2. `WorkerSound`: nodes only know of announced roots and finalize what the
   network was given (`NodeSound`), an answer "finalized" is of such a root when
   it is applied (`AnswerSound`), and the hash `BatchUpload` will return
   announces every item without SkipTx (`SubmitSound`, `BatchSound`). It is
   stable because the chain never forgets and what the network was given is held
   or was pruned (`ChainGrows`); "is held" alone would not be stable.
3. `RecordSound`, that is `OnchainSound` and `TxHashSound`, follows from 2 write
   by write.
4. `BytesInv`: the network was given a sweep's candidates, by 3 and although the
   list is a snapshot; and a PUT about to create an object still has its bytes.
   `Durable` follows, since no other step removes a file.
5. `ResubmitInv`: the snapshot of `Flush` is split between what is to come and
   the batch under way (`SnapshotSplit`) and stays queued while handlers write
   to the same queue (`SnapshotQueued`); an announced object never `LooksNew`
   (`AttemptRemembered`), since items are marked before the transaction
   (`MarkedFirst`) and an attempt is counted before the status goes back to
   pending (`CountedFirst`); so an item taken without asking is new or re-armed
   (`TakenNew`).
6. `ReasonInv`: no object in the worker's hands is failed (`HeldNotFailed`), so
   `SetStatus` never carries an old reason over to another status. And the worker
   decides to give up with the retries used or the object re-armed meanwhile
   (`GivesUpLate`), which gives `FailedAfterRetries`.
7. `HeldUnderWay`: what the worker is about to write an outcome to is still
   queued, or onchain where it polls, although handlers write to the same
   record. With 2 and 3 every step of `Gateway` is a step of `Archive` or a
   stutter, one lemma per process.

`StoreCalls` is the store under callers that do anything; its theorems need no
knowledge of worker or handlers, and TLC checks the same properties inside the
gateway (`gateway_batch`).

The S3 invariant `S3Inv` has two parts. `IndexInv` is about the index: where a
handler is tells what it was asked for (`Shape`), and a handler about to write a
key has a known root in hand (`WritesKnown`); that the bucket is looked up in
the transaction that writes is what `NoOrphanKeys` rests on. `Evidence(c)` says,
for each place a handler may be, what `seen` already holds in support of the
reply it may still give: after a miss the key was absent or its bucket was, a
root in hand was the content of its source, a condition passed was met. Steps of
other requests only add to `seen`.

The cache's total (`AccountProofs`) is compared with a sum over the files and a
sum over the handlers, so the module begins with sums: `SumFunction` is additive
(`SumAdditive`), and replacing one value changes it by the difference
(`SumExcept`). The induction this takes is not one of the library's theorems: a
smallest set for which the claim failed would have a smaller one, because the
strict subsets of a finite set are well founded (`WFMin`). The invariant
`AccountInv` adds to `NeverUndercounts` that bytes wait to be subtracted only
while a sweep is about to do so (`DebitInHand`); with `SingleSweep` there is one
such sweep, so no second one can overwrite what waits, which is what the
accounting needs the `evicting` flag for.

In `FrontEndProofs` each theorem has an invariant of its own.

* `StartsRunnable`: nothing but `Boot` makes the stage ready; `loadConfig`'s
  settings stay in the range `validate` was written for, whichever of the three
  sources each comes from.
* `XMLIsAccepted`: `ResponseInv` says what the wrapped writer has done so far
  (`Typed`): until it commits the type is the handler's; from then on what was
  sent is right for what the handler had set, unless the header went first
  without a type (`early`).
* `ResizesFit`: `ImageInv` says where an image is from. The rest is arithmetic:
  a number within half of the exact quotient (`Rounded`, for either rounding of
  an exact half) neither leaves a box of whole pixels (`RoundedInside`) nor
  loses one it covered (`RoundedCovers`).
* `CopiesItsSource`: `CopyInv` says that the header is what the client wrote
  until it is normalised and the one normalised form afterwards, for good if the
  key has no space. A spelling without a plus sign for a space (`Legible`) reads
  as its source (`SourceReads`: the version is cut off at the first literal
  question mark, and those of the key are encoded), what reads as a source is normalised to one header
  (`NormalizesTo`), that header reads as the same source (`NormalizedReads`) and
  gofakes3 takes it for that source (`CopiesNamed`).

The layers were checked with TLC before they were proved, as invariants of the
`GatewayBatch`, `GatewayLive`, `CacheLive` and `FrontEnd` instances.

Left to TLC: liveness (`Settles`, `EvictingReleased`), which needs fairness and
`ENABLED`. Every other property of the passing runs is a theorem. The theorems on
the cache are about `Gateway`; in `CacheService`, whose worker is reduced to its
outcomes, TLC checks the same properties with a second client.

## 5. Not modelled, and the plan

* Last-access times and `Touch`: which files a sweep prefers. The sweep here
  takes its candidates in any order, so what is shown holds for that one too.
* Pixels, image formats and the limits on bytes and pixels; ranges, prefixes and
  object metadata of S3; creation times. Pages of a listing are refused by the
  code.
* Construction of the SDK clients (`chain.New`), and the 0G SDK, gofakes3 and
  net/http beyond what the calls here observe.
* `S3Gateway` over the full `Gateway` instead of over its promise: the state
  spaces multiply. `Archive` is the interface between the two: `Gateway`
  implements it, and `S3Gateway` uses of the object service only that known
  content stays known.

Next: the lemmas on handlers in `GatewayProofs` and `AccountProofs` restated over
`ObjectService` alone, so that they give the same theorems for `CacheService`.

Observations without a run:

* A PUT that acts on a stale status turns a finalized object back to pending
  (`service.go:285`, `:293`; `evict_race` shows one consequence).
* `cacheBytes` keeps counting files written twice and orphan files, so writes
  may be refused with nothing left to finalize (`service.go:168`).
* A salvage PUT between the worker's `IncRetries` and its `SetStatus`
  (`worker.go:173`) resets the counter, and the worker then writes failed over
  the re-arm: failed for exhausted retries with none used. `FailedAfterRetries`
  states this as its exception.
* A sweep may remove a restored file between the rename and the open by name
  (`service.go:386`): the read of a healthy object fails, the next one works.
* With two nodes, one that has finalized an onchain object may prune it while the
  other has the entry and no segments. `FileStatus` then says uploading, which
  outweighs pruned (`backend.go:196`), and `PollFinality` asks for ever: the
  object stays onchain, neither finalized nor failed, and is in no queue of
  uploads. TLC finds this when `gateway_live` is given a second node.
* A finalized object that the nodes prune stays finalized, and a PUT of the same
  bytes is a dedup hit whose bytes are thrown away (`service.go:278`, `:298`):
  after `prune_evict` a client cannot bring the content back.
* A size derived from the other (only `w_` or only `h_`) is not capped by
  `maxResizeDim`, although docs/migration-from-obs.md says each is.
* A negative `ZGS_EXPECTED_REPLICA` becomes a huge number of replicas, and
  `validate` does not look at `max_size`, `batch_max` and `max_retries`
  (`uploader.New` mends the last two). A flush interval above 2^63 nanoseconds,
  292 years, overflows in `main` and makes the ticker of `Run` panic;
  `BootsRunnable` says positive below that.
* A LIST whose bucket is deleted after the look at it returns an empty list
  instead of NoSuchBucket.
