-------------------------------- MODULE Chain --------------------------------
(* internal/chain and, external to the repository, the 0G network behind it  *)
(* as that code uses it: transactions that announce a root on chain, storage *)
(* nodes that learn of an announced root at their own pace, hold its         *)
(* segments once they are uploaded, finalize it, and may prune it later.     *)
EXTENDS Objects, FiniteSets

CONSTANTS
  Nodes,   \* storage nodes the gateway is configured with
  MaxTx    \* bound: transactions the network accepts

ASSUME ChainAssumption == MaxTx \in Nat

VARIABLES
  txs,      \* transactions on chain that announce each root
  lastTx,   \* hash of the newest transaction
  stored,   \* roots whose segments the network holds
  node,     \* what each node would say of each root
  cut,      \* newest transaction when each node last pruned each root
  pruned    \* history: roots whose segments the network took and dropped

chainVars == <<txs, lastTx, stored, node, cut, pruned>>

NodeInfo == {"none", "uploading", "finalized", "pruned"}
FileStatuses == {"unknown", "uploading", "finalized", "pruned", "error"}

ChainInit ==
  /\ txs = [r \in Roots |-> {}]
  /\ lastTx = 0
  /\ stored = {}
  /\ node = [n \in Nodes |-> [r \in Roots |-> "none"]]
  /\ cut = [n \in Nodes |-> [r \in Roots |-> 0]]
  /\ pruned = {}

(* Mutant: an entry without the pruned flag passes for finalized. *)
FileStatusEager(r, answering) ==
  LET seen == {node[n][r] : n \in answering}
  IN  CASE answering = {}  -> "error"
        [] seen \cap {"finalized", "uploading"} # {} -> "finalized"
        [] "pruned" \in seen -> "pruned"
        [] OTHER            -> "unknown"

(* Backend.FileStatus over the nodes that answer: one finalized node is      *)
(* enough, an entry still uploading outweighs a pruned one, and only when no *)
(* node answers is the result an error.  The code asks the nodes one by one, *)
(* this operator all at once; as every subset of them may answer, each       *)
(* result the code can return is already returned for a single node at the   *)
(* moment that decided it.                                                   *)
FileStatus(r, answering) ==
  LET seen == {node[n][r] : n \in answering}
  IN  CASE answering = {}      -> "error"
        [] "finalized" \in seen -> "finalized"
        [] "uploading" \in seen -> "uploading"
        [] "pruned" \in seen    -> "pruned"
        [] OTHER                -> "unknown"

(* Some node can take segments of the root. *)
HasEntry(r) == \E n \in Nodes : node[n][r] \in {"uploading", "finalized"}

(* One transaction announces all the given roots.  It counts from the moment *)
(* it is broadcast: that a node sees it late is NodeSync's affair.           *)
LandTx(rs) ==
  /\ lastTx < MaxTx
  /\ lastTx' = lastTx + 1
  /\ txs' = [r \in Roots |-> IF r \in rs THEN txs[r] \cup {lastTx + 1}
                                         ELSE txs[r]]
  /\ UNCHANGED <<stored, node, cut, pruned>>

TakeSegments(rs) ==
  /\ stored' = stored \cup rs
  /\ pruned' = pruned \ rs
  /\ UNCHANGED <<txs, lastTx, node, cut>>

(* What the network was given at some time, whether it still has it or not.  *)
Taken == stored \cup pruned

(* A node reads the entry of a root from the chain.  The transactions a      *)
(* pruned root had are behind it: only a later one announces it anew.        *)
NodeSync(n, r) ==
  /\ node[n][r] \in {"none", "pruned"}
  /\ \E t \in txs[r] : t > cut[n][r]
  /\ node' = [node EXCEPT ![n][r] = "uploading"]
  /\ UNCHANGED <<txs, lastTx, stored, cut, pruned>>

NodeFinalize(n, r) ==
  /\ node[n][r] = "uploading"
  /\ r \in stored
  /\ node' = [node EXCEPT ![n][r] = "finalized"]
  /\ UNCHANGED <<txs, lastTx, stored, cut, pruned>>

(* A node deletes its chunks of a root and the root's entry.  The network    *)
(* keeps the segments when another node has finalized the root and loses     *)
(* them when no other node has an entry; a node still uploading may or may   *)
(* not have received them all.                                               *)
NodePrune(n, r) ==
  LET others == {node[m][r] : m \in Nodes \ {n}} IN
  /\ node[n][r] \in {"uploading", "finalized"}
  /\ node' = [node EXCEPT ![n][r] = "pruned"]
  /\ cut' = [cut EXCEPT ![n][r] = lastTx]
  /\ \/ /\ "finalized" \notin others
        /\ stored' = stored \ {r}
        /\ pruned' = pruned \cup ({r} \cap stored)
     \/ /\ others \cap {"uploading", "finalized"} # {}
        /\ UNCHANGED <<stored, pruned>>
  /\ UNCHANGED <<txs, lastTx>>

(* Backend.Download succeeds only with a merkle proof over data some node    *)
(* holds in full.                                                            *)
CanDownload(r) == \E n \in Nodes : node[n][r] = "finalized"

ChainTypeOK ==
  /\ txs \in [Roots -> SUBSET (1 .. MaxTx)]
  /\ lastTx \in 0 .. MaxTx
  /\ stored \subseteq Roots
  /\ node \in [Nodes -> [Roots -> NodeInfo]]
  /\ cut \in [Nodes -> [Roots -> 0 .. MaxTx]]
  /\ pruned \subseteq Roots
=============================================================================
