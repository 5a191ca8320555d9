---------------------------- MODULE MCQueryStream ----------------------------
(* Small instances of QueryStream.                                         *)
EXTENDS QueryStream
=============================================================================
