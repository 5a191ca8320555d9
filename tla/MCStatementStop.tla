--------------------------- MODULE MCStatementStop ---------------------------
(* Small instances of StatementStop.                                       *)
EXTENDS StatementStop, TLC

ConnSymmetry == Permutations(Conns)
=============================================================================
