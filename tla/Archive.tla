------------------------------- MODULE Archive -------------------------------
(* What the gateway promises of every content, whatever it does in its       *)
(* cache, its queues and its batches: the record of a content tells where it *)
(* is on its way into 0G, and moves on for no other reason than the ones     *)
(* below.  Gateway implements this specification.                            *)
EXTENDS Objects

VARIABLES
  record,       \* where each content is on its way
  transferred,  \* contents 0G was given: announced, with their segments uploaded
  committing    \* contents of the PUTs about to commit

archiveVars == <<record, transferred, committing>>

ArchiveInit ==
  /\ record = [r \in Roots |-> "absent"]
  /\ transferred = {}
  /\ committing = {}

Move(r, from, to) ==
  /\ record[r] \in from
  /\ record' = [record EXCEPT ![r] = to]

(* Clients come and go. *)
Request ==
  /\ committing' \subseteq Roots
  /\ UNCHANGED <<record, transferred>>

(* A PUT commits: its content is new, or it is sent on its way again.  No    *)
(* content is forgotten, and none leaves "failed" or "finalized" but for a   *)
(* PUT of the same bytes.                                                    *)
Accept(r) ==
  /\ r \in committing
  /\ Move(r, {"absent", "queued", "onchain", "finalized", "failed"}, "queued")
  /\ committing' \subseteq committing
  /\ UNCHANGED transferred

(* 0G takes accepted contents and no others.  It may prune one later: no     *)
(* record changes with that, and one not yet final is given up for it.       *)
Transfer ==
  /\ \E rs \in SUBSET {r \in Roots : record[r] # "absent"} :
       transferred' = transferred \cup rs
  /\ UNCHANGED <<record, committing>>

(* Only what 0G was given is reported as such. *)
Announce(r) ==
  /\ r \in transferred
  /\ Move(r, {"queued"}, "onchain")
  /\ UNCHANGED <<transferred, committing>>

Finalize(r) ==
  /\ r \in transferred
  /\ Move(r, {"queued", "onchain"}, "finalized")
  /\ UNCHANGED <<transferred, committing>>

(* Retries are used up, or the network dropped it before it was final. *)
GiveUp(r) ==
  /\ Move(r, {"queued", "onchain"}, "failed")
  /\ UNCHANGED <<transferred, committing>>

ArchiveNext ==
  \/ Request \/ Transfer
  \/ \E r \in Roots : Accept(r) \/ Announce(r) \/ Finalize(r) \/ GiveUp(r)

ArchiveSpec == ArchiveInit /\ [][ArchiveNext]_archiveVars
=============================================================================
