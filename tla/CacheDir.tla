------------------------------ MODULE CacheDir -------------------------------
(* The cache directory DataDir/objects, one file per root.  The object       *)
(* service writes and evicts the files, the chain backend reads them when it *)
(* uploads.  Spool and download files under DataDir/tmp have unique names    *)
(* and one owner; they are part of their owner's local state.                *)
EXTENDS Objects, Functions

VARIABLES
  cache,   \* each root's file: missing, intact, or damaged (truncated)
  lost     \* history: files the environment took since they were written

cacheVars == <<cache, lost>>

CacheStates == {"missing", "intact", "damaged"}

CacheInit == cache = [r \in Roots |-> "missing"] /\ lost = {}

fileExists(r) == cache[r] # "missing"

FileSize(r) == CASE cache[r] = "intact"  -> Size[r]
                 [] cache[r] = "damaged" -> Size[r] - 1
                 [] OTHER                -> 0

dirSize == SumFunction([r \in Roots |-> FileSize(r)])

(* os.Rename of a complete, synced file onto the cache path. *)
RenameInto(r) ==
  /\ cache' = [cache EXCEPT ![r] = "intact"]
  /\ lost' = lost \ {r}

Remove(r) ==
  /\ cache' = [cache EXCEPT ![r] = "missing"]
  /\ UNCHANGED lost

(* The disk or an operator loses or truncates a file; the rename of a file   *)
(* is not synced to its directory, so a power failure may undo it too.       *)
LoseFile(r) ==
  /\ fileExists(r)
  /\ cache' = [cache EXCEPT ![r] = "missing"]
  /\ lost' = lost \cup {r}

DamageFile(r) ==
  /\ cache[r] = "intact"
  /\ cache' = [cache EXCEPT ![r] = "damaged"]
  /\ lost' = lost \cup {r}

CacheTypeOK == cache \in [Roots -> CacheStates] /\ lost \subseteq Roots
=============================================================================
