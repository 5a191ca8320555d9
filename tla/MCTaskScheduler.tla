-------------------------- MODULE MCTaskScheduler --------------------------
(* The instance that is model-checked: the values are in the cfg files.     *)
EXTENDS TaskScheduler
CONSTANTS t1
=============================================================================
