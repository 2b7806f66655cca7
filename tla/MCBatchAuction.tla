--------------------------- MODULE MCBatchAuction ---------------------------
(***************************************************************************)
(* BatchAuction for TLC.                                                   *)
(***************************************************************************)
EXTENDS BatchAuction, TLC

CONSTANT CloseAt

MCCloseTime == [b \in Batches |-> CloseAt]

\* Every definition treats the solvers alike.
SolverSymmetry == Permutations(Solvers)
=============================================================================
