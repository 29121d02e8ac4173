--------------------------- MODULE MCPagingIterator ---------------------------
(***************************************************************************)
(* Instances of PagingIterator: two iterators, of a gRPC and of a REST     *)
(* client, made from the same request message (MCPagingIterator.cfg), and  *)
(* a single one with a longer list for liveness (MCPagingEnds.cfg).        *)
(***************************************************************************)
EXTENDS PagingIterator, TLC

CONSTANTS i1, i2, r1

MCTwoIters == {i1, i2}
MCOneIter == {i2}
MCReqs == {r1}
MCTwoTransports == (i1 :> "grpc") @@ (i2 :> "rest")
MCOneTransport == i2 :> "rest"
===============================================================================
