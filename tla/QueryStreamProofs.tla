-------------------------- MODULE QueryStreamProofs --------------------------
(***************************************************************************)
(* Proofs about QueryStream, for a result of any size.  Every row the      *)
(* driver gave is with the channel, in hand or in the batcher, as long as  *)
(* no send has failed (RowInv); what is counted is what the channel took,  *)
(* and the batch being sent (TallyInv).                                    *)
(***************************************************************************)
EXTENDS QueryStream, TLAPS

\* Where the task has a batch in hand, and where the batcher is empty.
PhaseInv ==
  /\ pc \notin {"count", "send"} => batch = 0
  /\ pc \in {"gate", "settle", "stage", "autocommit", "tx", "commit", "invalidate",
             "report", "persist", "history", "forget", "end"} => pending = 0
  /\ source = "flush" => pending = 0
  /\ pc \in {"gate", "run", "flush"} => source # "flush"
  /\ pc \in {"gate", "run", "stage", "autocommit", "tx"} => result = "none"
  /\ pc \in {"count", "send"} /\ source # "flush" => result = "none"
  /\ pc \in {"stage", "autocommit", "tx", "commit"} => kind = "capture"

RowInv ==
  /\ reached + pending + batch <= read
  /\ result \in {"none", "ok"} => reached + pending + batch = read
  /\ kind = "select" /\ result = "ok" => read = MaxRows

TallyInv == counted = IF pc = "send" THEN reached + batch ELSE reached

\* After the closing message nothing more is sent.
VerdictInv ==
  /\ verdict # "none" => pc \in {"persist", "history", "forget", "end", "dropped"}
                         /\ pending = 0 /\ batch = 0 /\ reported = reached
  /\ verdict = "done" => result = "ok"

ClaimInv ==
  /\ shown <= reached
  /\ stop # "none" => ~attached
  /\ stop = "claimed" => claim >= shown

IInv == TypeOK /\ PhaseInv /\ RowInv /\ TallyInv /\ VerdictInv /\ ClaimInv

LEMMA InitInv == Init => IInv
<1> SUFFICES ASSUME Init PROVE IInv
  OBVIOUS
<1> USE KnownKinds, SomeRows DEF Init
<1>1. TypeOK
  <2>1. /\ sentOnce \in BOOLEAN /\ detached \in BOOLEAN /\ kept \in BOOLEAN
        /\ registered \in BOOLEAN /\ aborted \in BOOLEAN /\ invalidated \in BOOLEAN
        /\ recorded \in BOOLEAN /\ logged \in BOOLEAN /\ attached \in BOOLEAN
    BY Zenon
  <2>2. QED BY <2>1 DEF TypeOK, PCs, Results
<1>2. PhaseInv /\ RowInv /\ TallyInv /\ VerdictInv /\ ClaimInv
  BY DEF PhaseInv, RowInv, TallyInv, VerdictInv, ClaimInv
<1>3. QED BY <1>1, <1>2 DEF IInv

LEMMA RegisterInv == IInv /\ Register => IInv'
<1> SUFFICES ASSUME IInv, Register PROVE IInv'
  OBVIOUS
<1> USE SomeRows, KnownKinds DEF IInv, TypeOK, PCs, Results, Register, config,
  rowVars, doneVars, writeVars, uiVars, entryVars
<1>1. TypeOK'
  OBVIOUS
<1>2. PhaseInv' /\ RowInv' /\ TallyInv' /\ VerdictInv' /\ ClaimInv'
  BY DEF PhaseInv, RowInv, TallyInv, VerdictInv, ClaimInv
<1>3. QED BY <1>1, <1>2

LEMMA StartInv == IInv /\ Start => IInv'
<1> SUFFICES ASSUME IInv, Start PROVE IInv'
  OBVIOUS
<1> USE SomeRows, KnownKinds DEF IInv, TypeOK, PCs, Results, Start, config,
  rowVars, doneVars, writeVars, uiVars, entryVars
<1>1. TypeOK'
  OBVIOUS
<1>2. PhaseInv' /\ RowInv' /\ TallyInv' /\ VerdictInv' /\ ClaimInv'
  BY DEF PhaseInv, RowInv, TallyInv, VerdictInv, ClaimInv
<1>3. QED BY <1>1, <1>2

LEMMA DropInv == IInv /\ Drop => IInv'
<1> SUFFICES ASSUME IInv, Drop PROVE IInv'
  OBVIOUS
<1> USE SomeRows, KnownKinds DEF IInv, TypeOK, PCs, Results, Drop, config,
  rowVars, doneVars, writeVars, uiVars, entryVars
<1> USE DEF Suspended
<1>1. TypeOK'
  OBVIOUS
<1>2. PhaseInv' /\ RowInv' /\ TallyInv' /\ VerdictInv' /\ ClaimInv'
  BY DEF PhaseInv, RowInv, TallyInv, VerdictInv, ClaimInv
<1>3. QED BY <1>1, <1>2

LEMMA PushInv == IInv /\ Push => IInv'
<1> SUFFICES ASSUME IInv, Push PROVE IInv'
  OBVIOUS
<1> USE SomeRows, KnownKinds DEF IInv, TypeOK, PCs, Results, Push, config,
  rowVars, doneVars, writeVars, uiVars, entryVars
<1> USE DEF Hand
<1>1. TypeOK'
  <2>1. sentOnce' \in BOOLEAN
    OBVIOUS
  <2>2. QED BY <2>1 DEF PhaseInv, RowInv, TallyInv
<1>2. RowInv'
  BY DEF PhaseInv, RowInv
<1>3. PhaseInv' /\ TallyInv' /\ VerdictInv' /\ ClaimInv'
  BY DEF PhaseInv, TallyInv, VerdictInv, ClaimInv
<1>4. QED BY <1>1, <1>2, <1>3

LEMMA TickInv == IInv /\ Tick => IInv'
<1> SUFFICES ASSUME IInv, Tick PROVE IInv'
  OBVIOUS
<1> USE SomeRows, KnownKinds DEF IInv, TypeOK, PCs, Results, Tick, config,
  rowVars, doneVars, writeVars, uiVars, entryVars
<1> USE DEF Hand
<1>1. TypeOK'
  OBVIOUS
<1>2. RowInv'
  BY DEF PhaseInv, RowInv
<1>3. PhaseInv' /\ TallyInv' /\ VerdictInv' /\ ClaimInv'
  BY DEF PhaseInv, TallyInv, VerdictInv, ClaimInv
<1>4. QED BY <1>1, <1>2, <1>3

LEMMA CountInv == IInv /\ Count => IInv'
<1> SUFFICES ASSUME IInv, Count PROVE IInv'
  OBVIOUS
<1> USE SomeRows, KnownKinds DEF IInv, TypeOK, PCs, Results, Count, config,
  rowVars, doneVars, writeVars, uiVars, entryVars
<1> USE DEF Added
<1>1. TypeOK'
  BY DEF PhaseInv, RowInv, TallyInv
<1>2. PhaseInv' /\ RowInv' /\ TallyInv' /\ VerdictInv' /\ ClaimInv'
  BY DEF PhaseInv, RowInv, TallyInv, VerdictInv, ClaimInv
<1>3. QED BY <1>1, <1>2

LEMMA SendInv == IInv /\ Send => IInv'
<1> SUFFICES ASSUME IInv, Send PROVE IInv'
  OBVIOUS
<1> USE SomeRows, KnownKinds DEF IInv, TypeOK, PCs, Results, Send, config,
  rowVars, doneVars, writeVars, uiVars, entryVars
<1> USE DEF SendOk, SendFails, Added, TakeBack, Resume
<1>1. TypeOK'
  BY DEF TallyInv
<1>2. PhaseInv' /\ RowInv' /\ TallyInv' /\ VerdictInv' /\ ClaimInv'
  BY DEF PhaseInv, RowInv, TallyInv, VerdictInv, ClaimInv
<1>3. QED BY <1>1, <1>2

LEMMA ExecEndsInv == IInv /\ ExecEnds => IInv'
<1> SUFFICES ASSUME IInv, ExecEnds PROVE IInv'
  OBVIOUS
<1> USE SomeRows, KnownKinds DEF IInv, TypeOK, PCs, Results, ExecEnds, config,
  rowVars, doneVars, writeVars, uiVars, entryVars
<1>1. TypeOK'
  OBVIOUS
<1>2. RowInv'
  BY DEF PhaseInv, RowInv
<1>3. PhaseInv' /\ TallyInv' /\ VerdictInv' /\ ClaimInv'
  BY DEF PhaseInv, TallyInv, VerdictInv, ClaimInv
<1>4. QED BY <1>1, <1>2, <1>3

LEMMA FlushInv == IInv /\ Flush => IInv'
<1> SUFFICES ASSUME IInv, Flush PROVE IInv'
  OBVIOUS
<1> USE SomeRows, KnownKinds DEF IInv, TypeOK, PCs, Results, Flush, config,
  rowVars, doneVars, writeVars, uiVars, entryVars
<1> USE DEF Hand, Rest
<1>1. TypeOK'
  OBVIOUS
<1>2. RowInv'
  BY DEF PhaseInv, RowInv
<1>3. PhaseInv' /\ TallyInv' /\ VerdictInv' /\ ClaimInv'
  BY DEF PhaseInv, TallyInv, VerdictInv, ClaimInv
<1>4. QED BY <1>1, <1>2, <1>3

LEMMA SettleInv == IInv /\ Settle => IInv'
<1> SUFFICES ASSUME IInv, Settle PROVE IInv'
  OBVIOUS
<1> USE SomeRows, KnownKinds DEF IInv, TypeOK, PCs, Results, Settle, config,
  rowVars, doneVars, writeVars, uiVars, entryVars
<1>1. TypeOK'
  <2>1. kept' \in BOOLEAN
    OBVIOUS
  <2>2. QED BY <2>1 DEF PhaseInv, RowInv, TallyInv
<1>2. PhaseInv' /\ RowInv' /\ TallyInv' /\ VerdictInv' /\ ClaimInv'
  BY DEF PhaseInv, RowInv, TallyInv, VerdictInv, ClaimInv
<1>3. QED BY <1>1, <1>2

LEMMA PrepareInv == IInv /\ Prepare => IInv'
<1> SUFFICES ASSUME IInv, Prepare PROVE IInv'
  OBVIOUS
<1> USE SomeRows, KnownKinds DEF IInv, TypeOK, PCs, Results, Prepare, config,
  rowVars, doneVars, writeVars, uiVars, entryVars
<1>1. TypeOK'
  OBVIOUS
<1>2. PhaseInv' /\ RowInv' /\ TallyInv' /\ VerdictInv' /\ ClaimInv'
  BY DEF PhaseInv, RowInv, TallyInv, VerdictInv, ClaimInv
<1>3. QED BY <1>1, <1>2

LEMMA AutocommitInv == IInv /\ Autocommit => IInv'
<1> SUFFICES ASSUME IInv, Autocommit PROVE IInv'
  OBVIOUS
<1> USE SomeRows, KnownKinds DEF IInv, TypeOK, PCs, Results, Autocommit, config,
  rowVars, doneVars, writeVars, uiVars, entryVars
<1>1. TypeOK'
  OBVIOUS
<1>2. PhaseInv' /\ RowInv' /\ TallyInv' /\ VerdictInv' /\ ClaimInv'
  BY DEF PhaseInv, RowInv, TallyInv, VerdictInv, ClaimInv
<1>3. QED BY <1>1, <1>2

LEMMA StagedInv == IInv /\ Staged => IInv'
<1> SUFFICES ASSUME IInv, Staged PROVE IInv'
  OBVIOUS
<1> USE SomeRows, KnownKinds DEF IInv, TypeOK, PCs, Results, Staged, config,
  rowVars, doneVars, writeVars, uiVars, entryVars
<1> USE DEF OnceStaged
<1>1. TypeOK'
  OBVIOUS
<1>2. RowInv'
  BY DEF PhaseInv, RowInv
<1>3. PhaseInv' /\ TallyInv' /\ VerdictInv' /\ ClaimInv'
  BY DEF PhaseInv, TallyInv, VerdictInv, ClaimInv
<1>4. QED BY <1>1, <1>2, <1>3

LEMMA StageFailsInv == IInv /\ StageFails => IInv'
<1> SUFFICES ASSUME IInv, StageFails PROVE IInv'
  OBVIOUS
<1> USE SomeRows, KnownKinds DEF IInv, TypeOK, PCs, Results, StageFails, config,
  rowVars, doneVars, writeVars, uiVars, entryVars
<1>1. TypeOK'
  OBVIOUS
<1>2. PhaseInv' /\ RowInv' /\ TallyInv' /\ VerdictInv' /\ ClaimInv'
  BY DEF PhaseInv, RowInv, TallyInv, VerdictInv, ClaimInv
<1>3. QED BY <1>1, <1>2

LEMMA CommitInv == IInv /\ Commit => IInv'
<1> SUFFICES ASSUME IInv, Commit PROVE IInv'
  OBVIOUS
<1> USE SomeRows, KnownKinds DEF IInv, TypeOK, PCs, Results, Commit, config,
  rowVars, doneVars, writeVars, uiVars, entryVars
<1>1. TypeOK'
  OBVIOUS
<1>2. ClaimInv'
  BY DEF PhaseInv, RowInv, TallyInv, VerdictInv, ClaimInv
<1>3. PhaseInv' /\ RowInv' /\ TallyInv' /\ VerdictInv'
  BY DEF PhaseInv, RowInv, TallyInv, VerdictInv
<1>4. QED BY <1>1, <1>2, <1>3

LEMMA InvalidateInv == IInv /\ Invalidate => IInv'
<1> SUFFICES ASSUME IInv, Invalidate PROVE IInv'
  OBVIOUS
<1> USE SomeRows, KnownKinds DEF IInv, TypeOK, PCs, Results, Invalidate, config,
  rowVars, doneVars, writeVars, uiVars, entryVars
<1>1. TypeOK'
  OBVIOUS
<1>2. PhaseInv' /\ RowInv' /\ TallyInv' /\ VerdictInv' /\ ClaimInv'
  BY DEF PhaseInv, RowInv, TallyInv, VerdictInv, ClaimInv
<1>3. QED BY <1>1, <1>2

LEMMA ReportInv == IInv /\ Report => IInv'
<1> SUFFICES ASSUME IInv, Report PROVE IInv'
  OBVIOUS
<1> USE SomeRows, KnownKinds DEF IInv, TypeOK, PCs, Results, Report, config,
  rowVars, doneVars, writeVars, uiVars, entryVars
<1> USE DEF KeptAfter
<1>1. TypeOK'
  OBVIOUS
<1>2. VerdictInv'
  BY DEF PhaseInv, TallyInv, VerdictInv
<1>3. PhaseInv' /\ RowInv' /\ TallyInv' /\ ClaimInv'
  BY DEF PhaseInv, RowInv, TallyInv, ClaimInv
<1>4. QED BY <1>1, <1>2, <1>3

LEMMA PersistInv == IInv /\ Persist => IInv'
<1> SUFFICES ASSUME IInv, Persist PROVE IInv'
  OBVIOUS
<1> USE SomeRows, KnownKinds DEF IInv, TypeOK, PCs, Results, Persist, config,
  rowVars, doneVars, writeVars, uiVars, entryVars
<1>1. TypeOK'
  OBVIOUS
<1>2. PhaseInv' /\ RowInv' /\ TallyInv' /\ VerdictInv' /\ ClaimInv'
  BY DEF PhaseInv, RowInv, TallyInv, VerdictInv, ClaimInv
<1>3. QED BY <1>1, <1>2

LEMMA RecordHistoryInv == IInv /\ RecordHistory => IInv'
<1> SUFFICES ASSUME IInv, RecordHistory PROVE IInv'
  OBVIOUS
<1> USE SomeRows, KnownKinds DEF IInv, TypeOK, PCs, Results, RecordHistory,
  config, rowVars, doneVars, writeVars, uiVars, entryVars
<1>1. TypeOK'
  OBVIOUS
<1>2. PhaseInv' /\ RowInv' /\ TallyInv' /\ VerdictInv' /\ ClaimInv'
  BY DEF PhaseInv, RowInv, TallyInv, VerdictInv, ClaimInv
<1>3. QED BY <1>1, <1>2

LEMMA ForgetStreamInv == IInv /\ ForgetStream => IInv'
<1> SUFFICES ASSUME IInv, ForgetStream PROVE IInv'
  OBVIOUS
<1> USE SomeRows, KnownKinds DEF IInv, TypeOK, PCs, Results, ForgetStream,
  config, rowVars, doneVars, writeVars, uiVars, entryVars
<1>1. TypeOK'
  <2>1. registered' \in BOOLEAN
    OBVIOUS
  <2>2. QED BY <2>1 DEF PhaseInv, RowInv, TallyInv
<1>2. PhaseInv' /\ RowInv' /\ TallyInv' /\ VerdictInv' /\ ClaimInv'
  BY DEF PhaseInv, RowInv, TallyInv, VerdictInv, ClaimInv
<1>3. QED BY <1>1, <1>2

LEMMA ShowRowsInv == IInv /\ ShowRows => IInv'
<1> SUFFICES ASSUME IInv, ShowRows PROVE IInv'
  OBVIOUS
<1> USE SomeRows, KnownKinds DEF IInv, TypeOK, PCs, Results, ShowRows, config,
  rowVars, doneVars, writeVars, uiVars, entryVars
<1>1. TypeOK'
  OBVIOUS
<1>2. PhaseInv' /\ RowInv' /\ TallyInv' /\ VerdictInv' /\ ClaimInv'
  BY DEF PhaseInv, RowInv, TallyInv, VerdictInv, ClaimInv
<1>3. QED BY <1>1, <1>2

LEMMA ShowVerdictInv == IInv /\ ShowVerdict => IInv'
<1> SUFFICES ASSUME IInv, ShowVerdict PROVE IInv'
  OBVIOUS
<1> USE SomeRows, KnownKinds DEF IInv, TypeOK, PCs, Results, ShowVerdict,
  config, rowVars, doneVars, writeVars, uiVars, entryVars
<1>1. TypeOK'
  OBVIOUS
<1>2. PhaseInv' /\ RowInv' /\ TallyInv' /\ VerdictInv' /\ ClaimInv'
  BY DEF PhaseInv, RowInv, TallyInv, VerdictInv, ClaimInv
<1>3. QED BY <1>1, <1>2

LEMMA UserStopsInv == IInv /\ UserStops => IInv'
<1> SUFFICES ASSUME IInv, UserStops PROVE IInv'
  OBVIOUS
<1> USE SomeRows, KnownKinds DEF IInv, TypeOK, PCs, Results, UserStops, config,
  rowVars, doneVars, writeVars, uiVars, entryVars
<1>1. TypeOK'
  <2>1. attached' \in BOOLEAN
    OBVIOUS
  <2>2. QED BY <2>1 DEF PhaseInv, RowInv, TallyInv
<1>2. PhaseInv' /\ RowInv' /\ TallyInv' /\ VerdictInv' /\ ClaimInv'
  BY DEF PhaseInv, RowInv, TallyInv, VerdictInv, ClaimInv
<1>3. QED BY <1>1, <1>2

LEMMA CancelStreamInv == IInv /\ CancelStream => IInv'
<1> SUFFICES ASSUME IInv, CancelStream PROVE IInv'
  OBVIOUS
<1> USE SomeRows, KnownKinds DEF IInv, TypeOK, PCs, Results, CancelStream,
  config, rowVars, doneVars, writeVars, uiVars, entryVars
<1> USE DEF AbortTask
<1>1. TypeOK'
  <2>1. registered' \in BOOLEAN /\ aborted' \in BOOLEAN
    OBVIOUS
  <2>2. QED BY <2>1 DEF PhaseInv, RowInv, TallyInv
<1>2. PhaseInv' /\ RowInv' /\ TallyInv' /\ VerdictInv' /\ ClaimInv'
  BY DEF PhaseInv, RowInv, TallyInv, VerdictInv, ClaimInv
<1>3. QED BY <1>1, <1>2

LEMMA ReadCountInv == IInv /\ ReadCount => IInv'
<1> SUFFICES ASSUME IInv, ReadCount PROVE IInv'
  OBVIOUS
<1> USE SomeRows, KnownKinds DEF IInv, TypeOK, PCs, Results, ReadCount, config,
  rowVars, doneVars, writeVars, uiVars, entryVars
<1>1. TypeOK'
  OBVIOUS
<1>2. ClaimInv'
  BY DEF TallyInv, ClaimInv
<1>3. PhaseInv' /\ RowInv' /\ TallyInv' /\ VerdictInv'
  BY DEF PhaseInv, RowInv, TallyInv, VerdictInv
<1>4. QED BY <1>1, <1>2, <1>3

LEMMA StutterInv == IInv /\ UNCHANGED vars => IInv'
<1> SUFFICES ASSUME IInv, UNCHANGED vars PROVE IInv'
  OBVIOUS
<1> USE DEF IInv, vars, config, rowVars, doneVars, writeVars, uiVars, entryVars
<1>1. TypeOK'
  BY DEF TypeOK, PCs, Results
<1>2. PhaseInv' /\ RowInv' /\ TallyInv' /\ VerdictInv' /\ ClaimInv'
  BY DEF PhaseInv, RowInv, TallyInv, VerdictInv, ClaimInv
<1>3. QED BY <1>1, <1>2

LEMMA StepInv == IInv /\ [Next]_vars => IInv'
<1> SUFFICES ASSUME IInv, [Next]_vars PROVE IInv'
  OBVIOUS
<1>1. CASE Register \/ Start \/ Drop
  BY <1>1, RegisterInv, StartInv, DropInv
<1>2. CASE RowStep
  BY <1>2, PushInv, TickInv, CountInv, SendInv DEF RowStep
<1>3. CASE EndStep
  BY <1>3, ExecEndsInv, FlushInv, SettleInv DEF EndStep
<1>4. CASE CaptureStep
  BY <1>4, PrepareInv, AutocommitInv, StagedInv, StageFailsInv, CommitInv DEF CaptureStep
<1>5. CASE CloseStep
  BY <1>5, InvalidateInv, ReportInv, PersistInv, RecordHistoryInv, ForgetStreamInv
  DEF CloseStep
<1>6. CASE TabStep
  BY <1>6, ShowRowsInv, ShowVerdictInv, UserStopsInv, CancelStreamInv, ReadCountInv
  DEF TabStep
<1>7. CASE UNCHANGED vars
  BY <1>7, StutterInv
<1>8. QED BY <1>1, <1>2, <1>3, <1>4, <1>5, <1>6, <1>7 DEF Next

-----------------------------------------------------------------------------
(* The inductive invariant holds for a result of any size.                 *)
THEOREM InvHolds == Spec => []IInv
BY InitInv, StepInv, PTL DEF Spec

(* Every variable keeps its type: in particular no counter of rows ever    *)
(* leaves 0 .. MaxRows.                                                    *)
THEOREM TypeCorrect == Spec => []TypeOK
<1>1. IInv => TypeOK
  BY DEF IInv
<1>2. QED BY <1>1, InvHolds, PTL

(* The row count in an error or timeout message is the number of rows the  *)
(* channel took, and a select that is reported as done has sent them all.  *)
THEOREM CountsAlwaysExact == Spec => []CountsExact
<1>1. IInv => CountsExact
  BY SomeRows DEF IInv, TypeOK, RowInv, VerdictInv, CountsExact
<1>2. QED BY <1>1, InvHolds, PTL

(* A stop never claims fewer rows than the tab has shown.                  *)
THEOREM ClaimAlwaysCovers == Spec => []ClaimCovers
<1>1. IInv => ClaimCovers
  BY DEF IInv, ClaimInv, ClaimCovers
<1>2. QED BY <1>1, InvHolds, PTL

-----------------------------------------------------------------------------
(* A result is put into the store only once it is complete, and from the   *)
(* closing message on it is there only if the tab was given the handle.    *)
KeptInv ==
  /\ kept => pc \in {"invalidate", "report", "persist", "history", "forget", "end", "dropped"}
  /\ kept /\ pc \in {"invalidate", "report"} => result = "ok"
  /\ kept /\ pc \in {"persist", "history", "forget", "end"} => verdict = "done"

(* Whoever stops a captured write, what follows its commit is done: past   *)
(* the stage the task is out of reach of an abort, and it takes the steps  *)
(* that follow in their order.                                             *)
CaptureInv ==
  /\ pc \in {"run", "count", "send", "flush", "settle"} => kind = "select"
  /\ detached => kind = "capture" /\ pc # "dropped"
  /\ kind = "capture" /\ result = "ok" => detached
  /\ kind = "capture" /\ result = "ok" =>
       /\ pc \in {"commit", "invalidate", "report", "persist", "history", "forget", "end"}
       /\ pc \in {"report", "persist", "history", "forget", "end"} => invalidated
       /\ pc \in {"history", "forget", "end"} => recorded
       /\ pc \in {"forget", "end"} => logged

\* The part of the state these two speak of, as the row and tab steps find it.
LEMMA AfterFrame ==
  ASSUME TypeOK, KeptInv, CaptureInv, UNCHANGED <<config, detached, kept, writeVars>>,
         verdict' = verdict, pc' = pc, result' = result
  PROVE  KeptInv' /\ CaptureInv'
BY DEF KeptInv, CaptureInv, config, writeVars

LEMMA AfterRows ==
  ASSUME IInv, KeptInv, CaptureInv, RowStep \/ EndStep
  PROVE  KeptInv' /\ CaptureInv'
<1> USE DEF IInv, TypeOK, PhaseInv, KeptInv, CaptureInv, config, doneVars, writeVars
<1>a. pc \in {"run", "count", "send", "flush", "settle"} => ~kept
  OBVIOUS
<1>1. CASE Push
  BY <1>1 DEF Push, Hand
<1>2. CASE Tick
  BY <1>2 DEF Tick, Hand
<1>3. CASE Count
  BY <1>3 DEF Count
<1>4. CASE Send
  BY <1>4 DEF Send, SendOk, SendFails, Resume
<1>5. CASE ExecEnds
  BY <1>5 DEF ExecEnds
<1>6. CASE Flush
  BY <1>6 DEF Flush, Hand
<1>7. CASE Settle
  BY <1>7 DEF Settle
<1>8. QED BY <1>1, <1>2, <1>3, <1>4, <1>5, <1>6, <1>7 DEF RowStep, EndStep

LEMMA AfterWrite ==
  ASSUME IInv, KeptInv, CaptureInv, CaptureStep \/ CloseStep
  PROVE  KeptInv' /\ CaptureInv'
<1> USE DEF IInv, TypeOK, PhaseInv, KeptInv, CaptureInv, config, doneVars, writeVars
<1>1. CASE Prepare
  BY <1>1 DEF Prepare
<1>2. CASE Autocommit
  BY <1>2 DEF Autocommit
<1>3. CASE Staged
  BY <1>3 DEF Staged, OnceStaged
<1>4. CASE StageFails
  BY <1>4 DEF StageFails
<1>5. CASE Commit
  BY <1>5 DEF Commit
<1>6. CASE Invalidate
  BY <1>6 DEF Invalidate
<1>7. CASE Report
  BY <1>7 DEF Report, KeptAfter, VerdictInv
<1>8. CASE Persist
  BY <1>8 DEF Persist
<1>9. CASE RecordHistory
  BY <1>9 DEF RecordHistory
<1>10. CASE ForgetStream
  BY <1>10 DEF ForgetStream
<1>11. QED BY <1>1, <1>2, <1>3, <1>4, <1>5, <1>6, <1>7, <1>8, <1>9, <1>10
  DEF CaptureStep, CloseStep

LEMMA AfterStep == IInv /\ KeptInv /\ CaptureInv /\ [Next]_vars => KeptInv' /\ CaptureInv'
<1> SUFFICES ASSUME IInv, KeptInv, CaptureInv, [Next]_vars
             PROVE  KeptInv' /\ CaptureInv'
  OBVIOUS
<1>a. TypeOK
  BY DEF IInv
<1>1. CASE Register
  BY <1>1, <1>a, AfterFrame DEF Register, doneVars
<1>2. CASE Start
  BY <1>2, <1>a DEF Start, IInv, TypeOK, PhaseInv, KeptInv, CaptureInv, config,
     doneVars, writeVars
<1>3. CASE Drop
  BY <1>3, <1>a DEF Drop, Suspended, IInv, TypeOK, PhaseInv, KeptInv, CaptureInv, config,
     doneVars, writeVars
<1>4. CASE TabStep
  BY <1>4, <1>a, AfterFrame DEF TabStep, ShowRows, ShowVerdict, UserStops, CancelStream,
     ReadCount, doneVars
<1>5. CASE UNCHANGED vars
  BY <1>5, <1>a, AfterFrame DEF vars, doneVars
<1>6. QED BY <1>1, <1>2, <1>3, <1>4, <1>5, AfterRows, AfterWrite DEF Next

LEMMA AfterCorrect == Spec => [](KeptInv /\ CaptureInv)
<1>1. Init => KeptInv /\ CaptureInv
  BY DEF Init, KeptInv, CaptureInv
<1>2. QED BY <1>1, InvHolds, AfterStep, PTL DEF Spec

(* A result handle that is still in the store when its run has ended was   *)
(* given to the tab, however the run was stopped or failed.                *)
THEOREM KeptAlwaysAnnounced == Spec => []KeptIsAnnounced
<1>1. KeptInv => KeptIsAnnounced
  BY DEF KeptInv, KeptIsAnnounced
<1>2. QED BY <1>1, AfterCorrect, PTL

\* The safety half of CommittedIsRecorded.
CommittedNotDropped ==
  kind = "capture" /\ written = "yes" /\ result = "ok" =>
    /\ pc # "dropped"
    /\ pc = "end" => invalidated /\ recorded /\ logged

(* A captured write that committed is never dropped, and has invalidated   *)
(* the cache, been recorded and entered the history by the time its task   *)
(* ends, however it is stopped.                                            *)
THEOREM CommittedNeverDropped == Spec => []CommittedNotDropped
<1>1. CaptureInv => CommittedNotDropped
  BY DEF CaptureInv, CommittedNotDropped
<1>2. QED BY <1>1, AfterCorrect, PTL
=============================================================================
