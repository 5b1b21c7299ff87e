---------------------------- MODULE ObjectService ----------------------------
(* internal/object: the ingest and read pipeline, run by one handler per     *)
(* client request, and the eviction sweep any of them may end up running.    *)
(* Handlers interleave at every store transaction, file system call and      *)
(* access to the atomics cacheBytes and evicting.  A PUT passes the          *)
(* backpressure middleware of internal/s3gw first.                           *)
EXTENDS Integers, ObjectStore, Chain, CacheDir

CONSTANTS
  Clients,    \* concurrent requests
  Boot,       \* the main goroutine while it runs New
  CacheMax,   \* CacheMaxBytes; 0 means unbounded, no accounting
  ByteCap     \* bound on cacheBytes and leaked

ASSUME ServiceAssumption == CacheMax \in Nat /\ ByteCap \in Nat /\ Boot \notin Clients
ASSUME ClientsAssumption == IsFiniteSet(Clients)

Procs == Clients \cup {Boot}

VARIABLES
  cpc,          \* where each handler is
  croot,        \* the content its request is about
  cseen,        \* status the dedup lookup of a PUT returned
  cret,         \* where it goes on after accounting and eviction
  cacheBytes,   \* running total of the cache directory
  evicting,     \* single-flights the sweep
  cands,        \* what remains of the sweep's candidate list
  debit,        \* bytes removed and not yet subtracted from cacheBytes
  leaked        \* history: bytes restored by reads that failed before noteAdded

reqVars == <<cpc, croot, cseen, cret>>
evictVars == <<cacheBytes, evicting, cands, debit, leaked>>
serviceVars == <<reqVars, evictVars>>

HandlerPC == {"idle", "evict", "cas", "list", "sweep", "debit", "admit",
              "lookup", "decide", "salvage", "rename", "note", "rearm",
              "create", "open", "download", "restore", "reopen"}

NoContent == "none"

ServiceInit ==
  /\ cpc = [p \in Procs |-> "idle"]
  /\ croot = [p \in Procs |-> NoContent]
  /\ cseen = [p \in Procs |-> "absent"]
  /\ cret = [p \in Procs |-> "idle"]
  /\ cacheBytes = 0
  /\ evicting = FALSE
  /\ cands = {}
  /\ debit = 0
  /\ leaked = 0

Bounded == CacheMax > 0

(* Requests are served once New has returned. *)
Serving == cpc[Boot] = "idle"

Goto(p, where) == cpc' = [cpc EXCEPT ![p] = where]

(* The request is over, with or without an error. *)
Return(p) ==
  /\ Goto(p, "idle")
  /\ croot' = [croot EXCEPT ![p] = NoContent]
  /\ cseen' = [cseen EXCEPT ![p] = "absent"]
  /\ cret' = [cret EXCEPT ![p] = "idle"]

(* Go on at `after`, by way of `via` where the cache is accounted for. *)
By(p, via, after) ==
  /\ Goto(p, IF Bounded THEN via ELSE after)
  /\ cret' = [cret EXCEPT ![p] = IF Bounded THEN after ELSE "idle"]
-----------------------------------------------------------------------------
(* noteAdded and evictIfNeeded *)

noteAdded(p) ==
  /\ cpc[p] = "note"
  /\ cacheBytes' = cacheBytes + Size[croot[p]]
  /\ Goto(p, "evict")
  /\ UNCHANGED <<croot, cseen, cret, evicting, cands, debit, leaked,
                 storeVars, chainVars, cacheVars>>

(* evictIfNeeded returns to its caller; a read that restored its file and    *)
(* the main goroutine have nothing left to do.                               *)
LeaveEvict(p) ==
  IF cret[p] = "idle"
  THEN Return(p)
  ELSE /\ Goto(p, cret[p])
       /\ cret' = [cret EXCEPT ![p] = "idle"]
       /\ UNCHANGED <<croot, cseen>>

OverLimit(p) ==
  /\ cpc[p] = "evict"
  /\ IF cacheBytes > CacheMax
     THEN Goto(p, "cas") /\ UNCHANGED <<croot, cseen, cret>>
     ELSE LeaveEvict(p)
  /\ UNCHANGED <<evictVars, storeVars, chainVars, cacheVars>>

(* Mutant: the flag is set without comparing. *)
StoreEvicting(p) ==
  /\ cpc[p] = "cas"
  /\ evicting' = TRUE
  /\ Goto(p, "list")
  /\ UNCHANGED <<croot, cseen, cret, cacheBytes, cands, debit, leaked,
                 storeVars, chainVars, cacheVars>>

AcquireEvicting(p) ==
  /\ cpc[p] = "cas"
  /\ IF evicting
     THEN LeaveEvict(p) /\ UNCHANGED evicting
     ELSE /\ evicting' = TRUE
          /\ Goto(p, "list")
          /\ UNCHANGED <<croot, cseen, cret>>
  /\ UNCHANGED <<cacheBytes, cands, debit, leaked, storeVars, chainVars, cacheVars>>

ListCandidates(p) ==
  /\ cpc[p] = "list"
  /\ cands' = FinalizedCacheEntries
  /\ Goto(p, "sweep")
  /\ UNCHANGED <<croot, cseen, cret, cacheBytes, evicting, debit, leaked,
                 storeVars, chainVars, cacheVars>>

LowWater == CacheMax - (CacheMax \div 10)

(* Check the total, stat and remove one candidate, in one step: sweeps are   *)
(* single-flight, so in between only a rename onto the path or a fault could *)
(* touch the file.  A rename there passes for one before the step; a file    *)
(* lost there is one whose removal is refused; and a size that changed there *)
(* never leaves the total too low, which is what NeverUndercounts is about.  *)
(* The list is ordered by last access; here any order may occur.             *)
EvictOne(p, r) ==
  /\ cpc[p] = "sweep" /\ r \in cands
  /\ cacheBytes > LowWater
  /\ cands' = cands \ {r}
  /\ IF fileExists(r)
     THEN Remove(r) /\ debit' = FileSize(r) /\ Goto(p, "debit")
     ELSE UNCHANGED <<cacheVars, debit, cpc>>
  /\ UNCHANGED <<croot, cseen, cret, cacheBytes, evicting, leaked,
                 storeVars, chainVars>>

(* Remove reports an error: the candidate is passed over. *)
EvictRefused(p, r) ==
  /\ cpc[p] = "sweep" /\ r \in cands
  /\ cacheBytes > LowWater /\ fileExists(r)
  /\ cands' = cands \ {r}
  /\ UNCHANGED <<reqVars, cacheBytes, evicting, debit, leaked,
                 storeVars, chainVars, cacheVars>>

Debit(p) ==
  /\ cpc[p] = "debit"
  /\ cacheBytes' = cacheBytes - debit
  /\ debit' = 0
  /\ Goto(p, "sweep")
  /\ UNCHANGED <<croot, cseen, cret, evicting, cands, leaked,
                 storeVars, chainVars, cacheVars>>

(* Mutant: the flag is released at the end of the loop only. *)
ReleaseAfterLoop(p) ==
  /\ \/ /\ cpc[p] = "sweep" /\ (cands = {} \/ cacheBytes <= LowWater)
        /\ evicting' = FALSE
     \/ cpc[p] = "list" /\ UNCHANGED evicting
  /\ cands' = {}
  /\ LeaveEvict(p)
  /\ UNCHANGED <<cacheBytes, debit, leaked, storeVars, chainVars, cacheVars>>

(* The loop ends, or the candidates could not be listed: the deferred store  *)
(* releases the flag either way.                                             *)
ReleaseEvicting(p) ==
  /\ \/ cpc[p] = "sweep" /\ (cands = {} \/ cacheBytes <= LowWater)
     \/ cpc[p] = "list"
  /\ evicting' = FALSE
  /\ cands' = {}
  /\ LeaveEvict(p)
  /\ UNCHANGED <<cacheBytes, debit, leaked, storeVars, chainVars, cacheVars>>
-----------------------------------------------------------------------------
(* Put *)

BeginPut(p, r) ==
  /\ Serving /\ p \in Clients /\ cpc[p] = "idle"
  /\ croot' = [croot EXCEPT ![p] = r]
  /\ Goto(p, IF Bounded THEN "evict" ELSE "lookup")
  /\ cret' = [cret EXCEPT ![p] = IF Bounded THEN "admit" ELSE "idle"]
  /\ UNCHANGED <<cseen, evictVars, storeVars, chainVars, cacheVars>>

(* ShouldRejectWrite after its attempt to reclaim: 503 SlowDown, or go on. *)
ShouldRejectWrite(p) ==
  /\ cpc[p] = "admit"
  /\ IF cacheBytes > CacheMax
     THEN Return(p)
     ELSE Goto(p, "lookup") /\ UNCHANGED <<croot, cseen, cret>>
  /\ UNCHANGED <<evictVars, storeVars, chainVars, cacheVars>>

(* The bytes are spooled and hashed; look the content up. *)
Lookup(p) ==
  /\ cpc[p] = "lookup"
  /\ cseen' = [cseen EXCEPT ![p] = BySHA256(croot[p])]
  /\ Goto(p, IF BySHA256(croot[p]) = "absent" THEN "rename" ELSE "decide")
  /\ UNCHANGED <<croot, cret, evictVars, storeVars, chainVars, cacheVars>>

needsCache(p) == cseen[p] # "finalized" /\ ~fileExists(croot[p])

(* A dedup hit, decided on the status the lookup saw: salvage the missing    *)
(* file, re-arm a failed object, or drop the spooled bytes.                  *)
Decide(p) ==
  /\ cpc[p] = "decide"
  /\ \/ needsCache(p) /\ Goto(p, "salvage") /\ UNCHANGED <<croot, cseen, cret>>
     \/ /\ ~needsCache(p) /\ cseen[p] = "failed"
        /\ Goto(p, "rearm") /\ UNCHANGED <<croot, cseen, cret>>
     \/ ~needsCache(p) /\ cseen[p] # "failed" /\ Return(p)
  /\ UNCHANGED <<evictVars, storeVars, chainVars, cacheVars>>

(* materialize: the spool moves into the cache, over whatever is there. *)
Salvage(p) ==
  /\ cpc[p] = "salvage"
  /\ RenameInto(croot[p])
  /\ By(p, "note", "rearm")
  /\ UNCHANGED <<croot, cseen, evictVars, storeVars, chainVars>>

Rearm(p) ==
  /\ cpc[p] = "rearm"
  /\ Reenqueue(croot[p])
  /\ Return(p)
  /\ UNCHANGED <<evictVars, chainVars, cacheVars>>

(* Mutant: the metadata is committed before the file is in place. *)
CommitBeforeRename(p) ==
  /\ cpc[p] = "rename"
  /\ CreateObject(croot[p]) \/ ErrExists(croot[p])
  /\ Goto(p, "create")
  /\ UNCHANGED <<croot, cseen, cret, evictVars, chainVars, cacheVars>>

(* New content: the file is in place before the metadata is. *)
RenameFresh(p) ==
  /\ cpc[p] = "rename"
  /\ RenameInto(croot[p])
  /\ By(p, "note", "create")
  /\ UNCHANGED <<croot, cseen, evictVars, storeVars, chainVars>>

(* A concurrent PUT of the same bytes may have created it in the meantime. *)
Create(p) ==
  /\ cpc[p] = "create"
  /\ CreateObject(croot[p]) \/ ErrExists(croot[p])
  /\ Return(p)
  /\ UNCHANGED <<evictVars, chainVars, cacheVars>>
-----------------------------------------------------------------------------
(* Open *)

(* The bound: a read begins only while the requests under way cannot take    *)
(* the counter `total` past ByteCap.  (PUTs need none, admission stops them.)*)
InHand(p) == IF cpc[p] = "idle" THEN 0 ELSE Size[croot[p]]

Room(total, r) ==
  Bounded => total + Size[r] + SumFunction([p \in Clients |-> InHand(p)]) <= ByteCap

BeginOpen(p, r) ==
  /\ Serving /\ p \in Clients /\ cpc[p] = "idle"
  /\ Known(r)
  /\ Room(cacheBytes, r) /\ Room(leaked, r)
  /\ croot' = [croot EXCEPT ![p] = r]
  /\ Goto(p, "open")
  /\ UNCHANGED <<cseen, cret, evictVars, storeVars, chainVars, cacheVars>>

(* A file of the recorded size is served; anything else is restored. *)
OpenCached(p) ==
  /\ cpc[p] = "open"
  /\ IF cache[croot[p]] = "intact"
     THEN Return(p)
     ELSE Goto(p, "download") /\ UNCHANGED <<croot, cseen, cret>>
  /\ UNCHANGED <<evictVars, storeVars, chainVars, cacheVars>>

Download(p) ==
  /\ cpc[p] = "download"
  /\ CanDownload(croot[p])
  /\ Goto(p, "restore")
  /\ UNCHANGED <<croot, cseen, cret, evictVars, storeVars, chainVars, cacheVars>>

Restore(p) ==
  /\ cpc[p] = "restore"
  /\ RenameInto(croot[p])
  /\ Goto(p, "reopen")
  /\ UNCHANGED <<croot, cseen, cret, evictVars, storeVars, chainVars>>

(* The restored file is opened by name. *)
Reopen(p) ==
  /\ cpc[p] = "reopen"
  /\ fileExists(croot[p])
  /\ IF Bounded
     THEN Goto(p, "note") /\ UNCHANGED <<croot, cseen, cret>>
     ELSE Return(p)
  /\ UNCHANGED <<evictVars, storeVars, chainVars, cacheVars>>

(* It is gone again, or cannot be opened: the read fails, and the bytes that *)
(* were renamed into the cache are not accounted for.                        *)
ReopenFails(p) ==
  /\ cpc[p] = "reopen"
  /\ IF Bounded
     THEN leaked' = leaked + Size[croot[p]]
     ELSE UNCHANGED leaked
  /\ Return(p)
  /\ UNCHANGED <<cacheBytes, evicting, cands, debit,
                 storeVars, chainVars, cacheVars>>

(* The request fails on an I/O, store or download error, or its client goes  *)
(* away, before its next effect.                                             *)
RequestFails(p) ==
  /\ cpc[p] \in {"lookup", "salvage", "rename", "rearm", "create",
                 "open", "download", "restore"}
  /\ Return(p)
  /\ UNCHANGED <<evictVars, storeVars, chainVars, cacheVars>>
-----------------------------------------------------------------------------
(* The steps of a request under way, and of New's eviction sweep. *)
HandlerStep(p) ==
  \/ noteAdded(p) \/ OverLimit(p) \/ AcquireEvicting(p)
  \/ ListCandidates(p) \/ Debit(p) \/ ReleaseEvicting(p)
  \/ \E r \in Roots : EvictOne(p, r) \/ EvictRefused(p, r)
  \/ ShouldRejectWrite(p) \/ Lookup(p) \/ Decide(p) \/ Salvage(p)
  \/ Rearm(p) \/ RenameFresh(p) \/ Create(p)
  \/ OpenCached(p) \/ Download(p) \/ Restore(p) \/ Reopen(p)
  \/ ReopenFails(p) \/ RequestFails(p)

(* Mutant: the total starts from zero instead of from a scan. *)
NewUnscanned ==
  /\ cpc' = [p \in Procs |-> IF p = Boot /\ Bounded THEN "evict" ELSE "idle"]
  /\ croot' = [p \in Procs |-> NoContent]
  /\ cseen' = [p \in Procs |-> "absent"]
  /\ cret' = [p \in Procs |-> "idle"]
  /\ cacheBytes' = 0
  /\ evicting' = FALSE
  /\ cands' = {}
  /\ debit' = 0
  /\ leaked' = 0

(* New after a restart: tmp is cleared, the directory is measured, and the   *)
(* main goroutine trims it before any request is served.                     *)
New ==
  /\ cpc' = [p \in Procs |-> IF p = Boot /\ Bounded THEN "evict" ELSE "idle"]
  /\ croot' = [p \in Procs |-> NoContent]
  /\ cseen' = [p \in Procs |-> "absent"]
  /\ cret' = [p \in Procs |-> "idle"]
  /\ cacheBytes' = IF Bounded THEN dirSize ELSE 0
  /\ evicting' = FALSE
  /\ cands' = {}
  /\ debit' = 0
  /\ leaked' = 0

ServiceTypeOK ==
  /\ cpc \in [Procs -> HandlerPC]
  /\ croot \in [Procs -> Roots \cup {NoContent}]
  /\ cseen \in [Procs -> Status \cup {"absent"}]
  /\ cret \in [Procs -> {"idle", "admit", "rearm", "create"}]
  /\ evicting \in BOOLEAN
  /\ cands \subseteq Roots

AccountTypeOK == cacheBytes \in Int /\ debit \in Nat /\ leaked \in Nat

(* No acknowledged content without bytes: a known object has an intact cache *)
(* file or its segments are in the network, unless something outside the     *)
(* gateway took one of them: its file was lost, or the nodes pruned what     *)
(* they had been given.  Eviction, concurrent PUTs, failed batches and       *)
(* crashes alone never lose the bytes.                                       *)
Durable ==
  \A r \in Roots : Known(r) /\ r \notin lost /\ r \notin pruned =>
                     cache[r] = "intact" \/ r \in stored

(* The sweep is single-flight: at most one handler is between taking and     *)
(* releasing the flag, so candidates are not removed and debited twice, and  *)
(* the flag is up only while some handler will take it down.                 *)
Sweeping(p) == cpc[p] \in {"list", "sweep", "debit"}

SingleSweep ==
  /\ \A p, q \in Procs : Sweeping(p) /\ Sweeping(q) => p = q
  /\ evicting <=> \E p \in Procs : Sweeping(p)

(* cacheBytes never falls short of the cache directory by more than what is  *)
(* accounted for elsewhere: files renamed whose handler is about to note     *)
(* them, and restores whose read failed in between.  Overwritten, lost and   *)
(* doubly noted files only push it above.                                    *)
RenamedUnnoted ==
  [p \in Procs |-> IF cpc[p] \in {"note", "reopen"} THEN Size[croot[p]] ELSE 0]

NeverUndercounts ==
  Bounded => dirSize + debit <= cacheBytes + leaked + SumFunction(RenamedUnnoted)
=============================================================================
