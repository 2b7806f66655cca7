-------------------------- MODULE MCIntentRegistry --------------------------
(***************************************************************************)
(* IntentRegistry for TLC: three intents, two of which share a nonce, two  *)
(* batch windows.                                                          *)
(***************************************************************************)
EXTENDS IntentRegistry, TLC

CONSTANTS i1, i2, i3, u1, u2, a1, a2

MCUser == i1 :> u1 @@ i2 :> u1 @@ i3 :> u2
MCNonce == i1 :> 1 @@ i2 :> 1 @@ i3 :> 1
MCAssetIn == i1 :> a1 @@ i2 :> a2 @@ i3 :> a1
MCAssetOut == i1 :> a2 @@ i2 :> a1 @@ i3 :> a1
MCDeadline == i1 :> 8 @@ i2 :> 9 @@ i3 :> 6
=============================================================================
