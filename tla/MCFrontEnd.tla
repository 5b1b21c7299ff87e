----------------------------- MODULE MCFrontEnd ------------------------------
(* FrontEnd on small numbers: settings below, at and above each limit that   *)
(* validate, main or uploader.New looks at.                                  *)
EXTENDS FrontEnd

MCFileProfiles ==
  {[eth_rpc |-> 1, nodes |-> 1, cache_max_bytes |-> -1, batch_max |-> 7,
    flush_interval_ms |-> 0, expected_replica |-> 2]}

MCEnvProfiles ==
  {[eth_rpc |-> 2, nodes |-> n, cache_max_bytes |-> 5, batch_max |-> -9,
    flush_interval_ms |-> f, expected_replica |-> r] :
     n \in {0, 2}, f \in {9, 4000}, r \in {-1, 0}}

MCAskedDims == {-1, 2, MaxResizeDim + 1}
=============================================================================
