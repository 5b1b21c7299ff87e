---------------------------- MODULE CacheService -----------------------------
(* The object service with the upload worker reduced to what it brings       *)
(* about: the network takes an object's bytes, the worker reports an object  *)
(* it took finalized or gives a queued one up.  Gateway has the worker in     *)
(* full; here the room goes to concurrent requests over a bounded cache.     *)
EXTENDS ObjectService

CONSTANTS MaxCrashes, MaxFaults   \* bounds as in Gateway

ASSUME CacheServiceAssumption == MaxCrashes \in Nat /\ MaxFaults \in Nat

VARIABLES crashes, faults

envVars == <<crashes, faults>>
vars == <<storeVars, chainVars, cacheVars, serviceVars, envVars>>

Init ==
  /\ StoreInit /\ ChainInit /\ CacheInit /\ ServiceInit
  /\ crashes = 0 /\ faults = 0

Queued(r) == objects[r].status \in {"pending", "submitted", "onchain"}

(* A batch with the object's intact file goes through. *)
Uploaded(r) ==
  /\ Queued(r) /\ cache[r] = "intact" /\ r \notin stored
  /\ stored' = stored \cup {r}
  /\ pruned' = pruned \ {r}
  /\ node' = [n \in Nodes |-> [node[n] EXCEPT ![r] = "finalized"]]
  /\ UNCHANGED <<txs, lastTx, cut, storeVars, cacheVars>>

(* The answer the worker acts on may be older than a pruning. *)
ReportFinalized(r) ==
  /\ Queued(r) /\ r \in Taken
  /\ SetStatus(r, "finalized", NoTx, "")
  /\ UNCHANGED <<chainVars, cacheVars>>

GiveUp(r) ==
  /\ Queued(r)
  /\ SetStatus(r, "failed", NoTx, "retries exhausted")
  /\ UNCHANGED <<chainVars, cacheVars>>

Worker ==
  /\ Serving
  /\ \E r \in Roots : Uploaded(r) \/ ReportFinalized(r) \/ GiveUp(r)
  /\ UNCHANGED <<serviceVars, envVars>>

Begin(p) ==
  /\ \E r \in Roots : BeginPut(p, r) \/ BeginOpen(p, r)
  /\ UNCHANGED envVars

Handle(p) == HandlerStep(p) /\ UNCHANGED envVars

Fault ==
  /\ faults < MaxFaults
  /\ faults' = faults + 1
  /\ \/ /\ \E r \in Roots : LoseFile(r) \/ DamageFile(r)
        /\ UNCHANGED chainVars
     \/ /\ \E n \in Nodes, r \in Roots : NodePrune(n, r)
        /\ UNCHANGED cacheVars
  /\ UNCHANGED <<storeVars, serviceVars, crashes>>

Crash ==
  /\ crashes < MaxCrashes
  /\ crashes' = crashes + 1
  /\ New
  /\ UNCHANGED <<storeVars, chainVars, cacheVars, faults>>

Next == Worker \/ (\E p \in Procs : Begin(p) \/ Handle(p)) \/ Fault \/ Crash

Spec == Init /\ [][Next]_vars

(* A handler under way is scheduled eventually. *)
FairSpec == Spec /\ \A p \in Procs : WF_vars(Handle(p))
-----------------------------------------------------------------------------
(* The single-flight flag is always given back: whichever way a sweep ends,  *)
(* a failed listing included, eviction does not stay switched off.           *)
EvictingReleased == evicting ~> ~evicting

(* docs/architecture.md: "non-finalized objects are never evicted (their     *)
(* cache file is the only copy)".  A file that disappears other than by a    *)
(* fault belongs to a finalized object.                                      *)
EvictsFinalizedOnly ==
  [][\A r \in Roots :
       cache[r] # "missing" /\ cache'[r] = "missing" /\ lost' = lost
       => objects[r].status = "finalized"]_vars

(* "finalized objects are safe to drop because Open restores them from 0G    *)
(* (proof-verified) on the next read": a file that disappears other than by  *)
(* a fault has its bytes in the network.                                     *)
EvictsRestorable ==
  [][\A r \in Roots :
       cache[r] # "missing" /\ cache'[r] = "missing" /\ lost' = lost
       => r \in stored]_vars
=============================================================================
