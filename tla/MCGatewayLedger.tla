-------------------------- MODULE MCGatewayLedger --------------------------
(***************************************************************************)
(* GatewayLedger for TLC: orders of one user for one asset.                *)
(***************************************************************************)
EXTENDS GatewayLedger, TLC

CONSTANTS i1, i2, user, asset

MCUser == [i \in Intents |-> user]
MCAsset == [i \in Intents |-> asset]
MCNonce == [i \in Intents |-> i]
MCAmount == [i \in Intents |-> IF i = i1 THEN 1 ELSE 2]

\* Every definition treats the handlers alike.
HandlerSymmetry == Permutations(Handlers)
=============================================================================
