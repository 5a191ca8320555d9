----------------------------- MODULE MCJsonStore -----------------------------
(* Instances of JsonStore for TLC.                                          *)
EXTENDS JsonStore

CONSTANTS p1, p2, c1, c2, t1, i1, i2
=============================================================================
