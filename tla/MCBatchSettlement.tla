------------------------- MODULE MCBatchSettlement -------------------------
(***************************************************************************)
(* BatchSettlement for TLC: one user with two orders for the same asset.   *)
(* Plan full honors both, plan half gives less than the second order's     *)
(* minimum.                                                                *)
(***************************************************************************)
EXTENDS BatchSettlement

CONSTANTS i1, i2, user, asset, full, half, CloseFirst, DeadlineFirst, DeadlineSecond

MCCloseTime == [b \in Batches |-> CloseFirst + b * BatchWindow]
MCUser == [i \in Intents |-> user]
MCNonce == [i \in Intents |-> IF i = i1 THEN 1 ELSE 2]
MCAsset == [i \in Intents |-> asset]
MCDeadline == [i \in Intents |-> IF i = i1 THEN DeadlineFirst ELSE DeadlineSecond]
MCMinOutput == [i \in Intents |-> IF i = i1 THEN 1 ELSE 2]
MCGives == [plan \in Plans |-> [i \in Intents |-> IF plan = full THEN 2 ELSE 1]]
=============================================================================
