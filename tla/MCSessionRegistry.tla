-------------------------- MODULE MCSessionRegistry --------------------------
(* Small instances of SessionRegistry.                                     *)
EXTENDS SessionRegistry, TLC

CONSTANTS l1, x1, q1

NoStreams == <<>>
OneStream == l1 :> x1

NoKinds == <<>>
OneResult == q1 :> "result"
=============================================================================
