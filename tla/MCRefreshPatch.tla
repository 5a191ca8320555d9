---------------------------- MODULE MCRefreshPatch ----------------------------
(* Small instances of RefreshPatch.                                          *)
EXTENDS RefreshPatch, TLC

CONSTANTS v1, v2

SwapValues == Permutations({v1, v2})
=============================================================================
