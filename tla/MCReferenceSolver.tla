------------------------- MODULE MCReferenceSolver -------------------------
(***************************************************************************)
(* ReferenceSolver for TLC: the first order is filled from the inventory,  *)
(* at a price whose product wraps; the second one needs a quote, of which  *)
(* one is too low for it and one overflows.                                *)
(***************************************************************************)
EXTENDS ReferenceSolver

MCAmount == [i \in Intents |-> 2]

MCMinOutput == [i \in Intents |-> IF i = 1 THEN 5 ELSE 3]

MCInventory == [i \in Intents |-> IF i = 1 THEN 5 ELSE 0]
=============================================================================
