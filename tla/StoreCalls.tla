----------------------------- MODULE StoreCalls ------------------------------
(* The metadata store on its own, under callers that invoke its operations   *)
(* in any order and with any argument: what holds here holds whatever the    *)
(* worker and the object service do.                                         *)
EXTENDS ObjectStore

Call(r) ==
  \/ CreateObject(r)
  \/ ErrExists(r)
  \/ \E st \in Status, tx \in Nat, why \in FailReason :
       SetStatus(r, st, tx, why)
  \/ Reenqueue(r)
  \/ IncRetries(r)
  \/ \E v \in BOOLEAN : SetSkipTx(r, v)

StoreNext == \E r \in Roots : Call(r)

StoreSpec == StoreInit /\ [][StoreNext]_storeVars
=============================================================================
