---------------------------- MODULE MCClientSdk ----------------------------
(***************************************************************************)
(* ClientSdk for TLC.                                                      *)
(***************************************************************************)
EXTENDS ClientSdk
=============================================================================
