--------------------------- MODULE MCScriptRunner ---------------------------
(* Instances of ScriptRunner for TLC. *)
EXTENDS ScriptRunner

MCModes == AllModes

\* Every script of at most two statements, and those of three with a BEGIN.
MCScripts ==
  UNION {[1..n -> Kinds] : n \in 1..2}
    \cup {s \in [1..3 -> Kinds] : s[1] = "begin"}
    \cup {<<"begin", "write", "ddl", "write", "commit">>,
          <<"write", "begin", "write", "rollback", "write">>,
          <<"begin", "write", "rollback", "begin", "commit">>,
          <<"begin", "write", "commit", "begin", "write">>}

FewScripts == {<<"begin", "write", "ddl", "commit">>}
=============================================================================
