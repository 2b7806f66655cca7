----------------------------- MODULE MCObserver -----------------------------
(***************************************************************************)
(* Observer for TLC: two contracts, the first with two events.             *)
(***************************************************************************)
EXTENDS Observer

MCAddresses == <<"registry", "settlement">>

MCAddressOf == [e \in Events |-> IF e = 3 THEN 2 ELSE 1]
=============================================================================
