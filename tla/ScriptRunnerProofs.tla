------------------------- MODULE ScriptRunnerProofs -------------------------
(***************************************************************************)
(* Proofs about ScriptRunner, for any scripts, modes and bounds: that a     *)
(* script and its clean-up never touch the user's transaction (SlotInv),    *)
(* that a resumed run repeats nothing (PlaceInv) and ends where one         *)
(* undisturbed run would have (RefInv, beside the trace of that run), that  *)
(* a run in one transaction is all or nothing (WrapInv), that the count a   *)
(* cancellation reports is covered by what is durable (TallyInv) and that   *)
(* the caches follow what was made durable (CacheInv).                      *)
(***************************************************************************)
EXTENDS ScriptRunner, FiniteSetTheorems, WellFoundedInduction, TLAPS

AtCall == pc \in {"call", "answered"}
Succeeds == pc = "answered" /\ op = "exec" /\ answer = "ok"

\* Who holds the slot, and who is still to free it.
SlotInv ==
  /\ active => slot = "script" /\ pc \in {"next", "call", "answered"}
  /\ slot = "script" =>
       active \/ rollbackTask \/ (pc = "call" /\ op \in CommitOps \cup RollbackOps)
  /\ slot # "script" => inTx = {}
  /\ pc = "call" /\ op \in CommitOps \cup RollbackOps => slot = "script"
  /\ AtCall /\ op # "exec" => ~active
  /\ pc = "answered" /\ op \in {"wrapBegin", "begin"} /\ answer = "ok" =>
       slot = "none"
  /\ rollbackTask => slot = "script" /\ pc = "over" /\ outcome = "cancelled"
  /\ userOp \in {"begin", "begun"} => ~uiTx
  /\ userOp \in {"finish", "finished"} => uiTx
  /\ userOp \in {"begun", "finish"} => slot = "user"
  /\ userOp \in {"begin", "finished"} => slot # "user"
  /\ OwnTransactions

\* Where the statements that are durable or in the transaction lie.
Between(S, a, b) == \A x \in S : a <= x /\ x <= b

PlaceInv ==
  /\ pc = "idle" => seen = 0 /\ kept = {} /\ txBegin = 0 /\ ~skipping
  /\ outcome = "refused" => offer = 0
  /\ Between(kept, startAt, seen) /\ Between(inTx, startAt, seen)
  /\ AtCall /\ op \in {"exec", "begin", "commit", "rollback"} =>
       startAt <= seen /\ (Succeeds \/ seen \notin kept \cup inTx)
  /\ AtCall /\ op = "batchRollback" => skipping
  /\ AtCall /\ op \in {"wrapBegin", "begin"} => txBegin = 0
  /\ AtCall /\ op = "exec" /\ ~active => txBegin = 0
  /\ pc = "next" /\ ~active /\ ~skipping => txBegin = 0
  /\ txBegin # 0 => startAt <= txBegin
  /\ offer # 0 => /\ outcome = "failed" /\ startAt <= offer
                  /\ pc \in {"invalidate", "over"} \/ (AtCall /\ op = "abortRollback")
  /\ ~eager =>
       /\ Between(before, 1, startAt - 1)
       /\ offer # 0 => Between(kept, 1, offer - 1)
       /\ active /\ txState = "ended" =>
            unsafe \/ (Succeeds /\ CommitsImplicitly(seen))
       /\ (/\ txBegin # 0 /\ ~unsafe
           /\ pc \in {"next", "call", "answered"}
           /\ ~(pc = "answered" /\ op \in CommitOps)
           /\ ~(Succeeds /\ CommitsImplicitly(seen)))
            => Between(kept, 1, txBegin - 1)

\* What the caches have not heard of yet.
CacheInv ==
  /\ pc # "over" => (inTx # {} => wrote \/ Succeeds)
  /\ pc # "over" => (stale => wrote \/ Succeeds)
  /\ pc = "idle" \/ (AtCall /\ op = "wrapBegin") => ~stale /\ ~wrote
  /\ cutOff \/ invalTask => pc = "over" /\ outcome = "cancelled"
  /\ CachesFollow

\* A run in one transaction: the statements up to n, of which S are all.
UpTo(S, n) == {i \in S : i <= n}

WrapPlaces ==
  /\ startAt = 1 /\ offer = 0 /\ ~external /\ before = {}
  /\ AtCall => op \notin {"begin", "commit", "rollback", "eofRollback"}
  /\ pc = "idle" \/ (AtCall /\ op = "wrapBegin") =>
       kept = {} /\ inTx = {} /\ seen = 0 /\ ~skipping /\ ~active
  /\ pc = "next" => (active <=> ~skipping)
  /\ AtCall /\ op = "exec" => active /\ ~skipping /\ seen \in Statements
  /\ outcome = "done" => pc \in {"invalidate", "over"}

\* What is durable and what is in the transaction, when all goes well.
WrapWhole ==
  /\ pc = "next" /\ active => kept \cup inTx = UpTo(Statements, seen)
  /\ pc = "call" /\ op = "exec" => kept \cup inTx = UpTo(Statements, seen - 1)
  /\ Succeeds => kept \cup inTx = UpTo(Statements, seen)
  /\ pc = "call" /\ op = "eofCommit" => kept \cup inTx = Statements
  /\ pc = "answered" /\ op = "eofCommit" /\ answer = "ok" => kept = Statements
  /\ outcome = "done" /\ ~skipping => kept = Statements

\* Without implicit commits nothing is durable before the last answer.
WrapNothing ==
  driver # "mysql" =>
    /\ txState # "ended"
    /\ active \/ pc = "call" => kept = {}
    /\ kept \in {{}, Statements}

WrapInv == mode.wrap => WrapPlaces /\ WrapWhole /\ WrapNothing

\* What the shared counter may still be told, while no COMMIT has failed.
TallyFlags ==
  /\ external => ~active /\ (AtCall => op = "exec")
  /\ ~active /\ ~(AtCall /\ op \in CommitOps) /\ pc # "over" => pending = 0

TallyCounts ==
  /\ committed <= Cardinality(kept)
  /\ Succeeds /\ ~active /\ ~external => committed + 1 <= Cardinality(kept)
  /\ active \/ (pc = "call" /\ op \in CommitOps) =>
       committed + pending + (IF Succeeds THEN 1 ELSE 0) <= Cardinality(kept \cup inTx)
  /\ pc = "answered" /\ op \in CommitOps /\ answer = "ok" =>
       committed + pending <= Cardinality(kept)

TallyInv == ~commitErr => TallyFlags /\ TallyCounts

\* What an undisturbed run of the script makes durable, statement by statement.
RefStates == [open : BOOLEAN, undecided : SUBSET Nat, durable : SUBSET Nat]
Nothing == [open |-> FALSE, undecided |-> {}, durable |-> {}]

IsTrace(f, n) ==
  /\ f \in [0..n -> RefStates] /\ f[0] = Nothing
  /\ \A k \in 1..n : f[k] = After(f[k - 1], k)

AtEndOf(f) == IF mode.unclosed = "commit" THEN f[Last].durable \cup f[Last].undecided
                                          ELSE f[Last].durable

\* A run that starts at i finds what an undisturbed one would have there.
Restart(f, i) ==
  /\ i - 1 \in 0..Last /\ ~f[i - 1].open /\ f[i - 1].undecided = {}
  /\ f[i - 1].durable \subseteq kept \cup before

\* The run has done what an undisturbed one has after n statements.
Level(f, n) ==
  /\ f[n].undecided = inTx /\ f[n].durable \subseteq kept \cup before
  /\ kept \subseteq f[n].durable

Sync(f, n) == Level(f, n) /\ (f[n].open <=> active /\ txState = "open")

Own == ~external /\ ~skipping

RefPlaces(f) ==
  /\ Restart(f, startAt) /\ before \subseteq f[Last].durable
  /\ txBegin # 0 => Restart(f, txBegin)
  /\ offer # 0 => Restart(f, offer) /\ kept \subseteq f[Last].durable

RefFlow ==
  /\ mode.batch => offer = 0
  /\ skipping => mode.batch /\ ~active /\ (AtCall => op = "batchRollback")
  /\ external => mode.batch /\ ~active /\ txBegin = 0 /\ (AtCall => op = "exec")
  /\ txState = "ended" => inTx = {}
  /\ Own /\ seen < startAt => kept = {} /\ inTx = {} /\ ~active
  /\ Own /\ (pc = "next" \/ (AtCall /\ op = "exec")) => (active => txBegin # 0)
  /\ Own /\ AtCall =>
       /\ op # "wrapBegin"
       /\ op = "exec" => script[seen] \in {"write", "ddl"}
       /\ op \in {"begin", "commit", "rollback"} => script[seen] = op
       /\ op = "rollback" => txBegin # 0
       /\ op = "eofCommit" => mode.unclosed = "commit" /\ seen = Last
       /\ op = "eofRollback" => mode.unclosed = "rollback" /\ seen = Last
  /\ outcome = "done" => pc \in {"invalidate", "over"}

RefLevel(f) ==
  /\ pc = "next" /\ seen >= startAt => Sync(f, seen)
  /\ AtCall /\ op = "begin" => Sync(f, seen - 1)
  /\ pc = "call" =>
       /\ op = "exec" => Sync(f, seen - 1)
       /\ op \in {"commit", "rollback"} => Level(f, seen - 1)
       /\ op \in {"eofCommit", "eofRollback"} => Level(f, Last)
  /\ pc = "answered" /\ answer = "ok" =>
       /\ op \in {"exec", "commit", "rollback"} => Sync(f, seen)
       /\ op \in {"eofCommit", "eofRollback"} => kept \cup before = AtEndOf(f)
  /\ pc = "answered" =>
       /\ op \in {"exec", "rollback"} => kept \subseteq f[seen].durable
       /\ op = "exec" /\ answer = "err" /\ ~active => Restart(f, seen)
  /\ outcome = "done" => kept \cup before = AtEndOf(f)

RefInv(f) == ~mode.cont /\ ~mode.wrap => RefPlaces(f) /\ RefFlow /\ (Own => RefLevel(f))

-----------------------------------------------------------------------------
LEMMA LastInNat ==
  ASSUME script \in Scripts
  PROVE  Last \in Nat
BY ScriptAssumption DEF Last

LEMMA Bounds == MaxRuns \in Nat /\ MaxBegins \in Nat
BY ScriptAssumption

LEMMA TypeInit == Init => TypeOK
<1> SUFFICES ASSUME Init PROVE TypeOK
  OBVIOUS
<1>1. DataTypes
  <2>1. eager \in BOOLEAN
    BY ScriptAssumption DEF Init
  <2>2. script \in Scripts /\ seen = 0 /\ Last \in Nat
    BY LastInNat DEF Init
  <2>3. QED
    BY <2>1, <2>2 DEF Init, DataTypes
<1>2. FlagTypes
  BY DEF Init, FlagTypes
<1>3. StepTypes
  BY Bounds DEF Init, StepTypes, Ops
<1>4. QED
  BY <1>1, <1>2, <1>3 DEF TypeOK

LEMMA SlotInit == Init => SlotInv
BY DEF Init, SlotInv, OwnTransactions, AtCall

LEMMA PlaceInit == Init => PlaceInv
BY DEF Init, PlaceInv, Between, AtCall

LEMMA CacheInit == Init => CacheInv
BY DEF Init, CacheInv, CachesFollow, AtCall

(* Places and counts keep their types.                                      *)
LEMMA DataStep ==
  ASSUME TypeOK, SlotInv, PlaceInv, [Next]_vars
  PROVE  DataTypes'
<1>0. UNCHANGED jobVars => Last' = Last
  BY DEF jobVars, Last
<1> USE <1>0, LastInNat DEF TypeOK, DataTypes, DataTypes, Ops, CommitOps, RollbackOps,
        jobVars, txVars, factVars, callVars, posVars, guardVars, reportVars,
        taskVars, userVars
<1>1. CASE Start
  BY <1>1 DEF Start, Refused
<1>2. CASE Resume
  BY <1>2 DEF Resume, FreshGuard, SlotInv
<1>3. CASE Exec
  <2>1. seen \in 1..seen
    BY <1>3 DEF Exec, PlaceInv, AtCall, Succeeds
  <2>2. QED
    BY <1>3, <2>1 DEF Exec, Answered, Autocommit, ExecInTx, FailInTx, ImplicitCommit
<1>4. CASE Begin
  BY <1>4 DEF Begin, Answered
<1>5. CASE Finish
  BY <1>5 DEF Finish, Answered, FinishWith, TakeSlot, Durable, Undone, CommitOps, RollbackOps
<1>6. CASE SkipStatement
  BY <1>6 DEF SkipStatement, Reading, Skips
<1>7. CASE TakeStatement
  BY <1>7 DEF TakeStatement, Takes, Reading, Skips, Call
<1>8. CASE TakeControl
  BY <1>8 DEF TakeControl, Takes, NothingToDo, Reading, IsControl, Call, GuardBefore, Disarm, CommitOps, RollbackOps, Skips
<1>9. CASE NestedBegin
  <2> DEFINE o == OfferFor(seen + 1)
  <2>1. o \in 0..(seen + 1)
    BY DEF OfferFor, OfferedBegin
  <2>2. seen < Last /\ seen' = seen + 1
    BY <1>9 DEF NestedBegin, Takes, Reading
  <2>3. OnFailure(o)
    BY <1>9 DEF NestedBegin
  <2> HIDE DEF o
  <2>4. offer' \in 0..(seen + 1) /\ pending' \in Nat
    BY <2>1, <2>3 DEF OnFailure, AbortWith, RollBack, Call, Disarm
  <2>5. QED
    BY <1>9, <2>2, <2>4 DEF NestedBegin
<1>10. CASE ReadError
  BY <1>10 DEF ReadError, AbortWith, RollBack, Call, Disarm, CommitOps, RollbackOps
<1>11. CASE Begun
  BY <1>11 DEF Begun, AnsweredTo, GoOn
<1>12. CASE WrapFails
  BY <1>12 DEF WrapFails, AnsweredTo
<1>13. CASE BeginFails
  BY SMTT(30), <1>13 DEF BeginFails, AnsweredTo, OnFailure, AbortWith, RollBack, Call, Disarm, GoOn, CommitOps, RollbackOps, InTransaction, OfferedBegin, OfferFor
<1>14. CASE Succeeded
  BY <1>14 DEF Succeeded, AnsweredTo, GoOn, RestartUnsafe, CommitsImplicitly
<1>15. CASE StatementFails
  BY SMTT(30), <1>15 DEF StatementFails, AnsweredTo, OnFailure, AbortWith, RollBack, Call, Disarm, GoOn, CommitOps, RollbackOps, InTransaction, OfferedBegin, OfferFor
<1>16. CASE Committed
  BY <1>16 DEF Committed, AnsweredTo, GoOn, CountCommitted, CommitOps
<1>17. CASE CommitFails
  BY SMTT(30), <1>17 DEF CommitFails, AnsweredTo, OnFailure, AbortWith, RollBack, Call, Disarm, GoOn, CommitOps, RollbackOps
<1>18. CASE RolledBack
  BY <1>18 DEF RolledBack, AnsweredTo, GoOn, RollbackOps
<1>19. CASE RollbackFails
  BY SMTT(30), <1>19 DEF RollbackFails, AnsweredTo, OnFailure, AbortWith, RollBack, Call, Disarm, GoOn, CommitOps, RollbackOps, InTransaction, OfferedBegin, OfferFor
<1>20. CASE BatchRolledBack
  BY <1>20 DEF BatchRolledBack, GoOn, RollbackOps
<1>21. CASE CloseAtEnd
  BY <1>21 DEF CloseAtEnd, AtEnd, Call, Disarm, CommitOps, RollbackOps
<1>22. CASE Closed
  BY <1>22 DEF Closed, AnsweredTo, CountCommitted, CommitOps, RollbackOps
<1>23. CASE CloseFails
  BY SMTT(30), <1>23 DEF CloseFails, AnsweredTo, AbortWith, RollBack, Call, Disarm, CommitOps, RollbackOps
<1>24. CASE NothingOpen
  BY <1>24 DEF NothingOpen, AtEnd
<1>25. CASE Aborted
  BY <1>25 DEF Aborted, RollbackOps
<1>26. CASE Invalidate
  BY <1>26 DEF Invalidate
<1>27. CASE Cancel
  BY <1>27 DEF Cancel, LeftToTasks, CommitOps, RollbackOps
<1>28. CASE RollbackTask
  BY <1>28 DEF RollbackTask, TakeSlot
<1>29. CASE InvalTask
  BY <1>29 DEF InvalTask
<1>30. CASE ClickBegin
  BY <1>30 DEF ClickBegin, notUser
<1>31. CASE UserBegin
  BY <1>31 DEF UserBegin, SlotLocked, notUser
<1>32. CASE ClickFinish
  BY <1>32 DEF ClickFinish, notUser
<1>33. CASE UserFinish
  BY <1>33 DEF UserFinish, SlotLocked, TakeSlot, notUser
<1>34. CASE UserAnswer
  BY <1>34 DEF UserAnswer, notUser
<1>35. CASE UNCHANGED vars
  BY <1>35 DEF vars
<1>36. QED
  BY <1>1, <1>2, <1>3, <1>4, <1>5, <1>6, <1>7, <1>8, <1>9, <1>10, <1>11, <1>12, <1>13, <1>14, <1>15, <1>16, <1>17, <1>18, <1>19, <1>20, <1>21, <1>22, <1>23, <1>24, <1>25, <1>26, <1>27, <1>28, <1>29, <1>30, <1>31, <1>32, <1>33, <1>34, <1>35
  DEF Next, Server, Runner

(* Flags stay flags.                                                        *)
LEMMA FlagStep ==
  ASSUME TypeOK, SlotInv, PlaceInv, [Next]_vars
  PROVE  FlagTypes'
<1> USE DEF TypeOK, FlagTypes, Ops, CommitOps, RollbackOps,
        jobVars, txVars, factVars, callVars, posVars, guardVars, reportVars,
        taskVars, userVars
<1>1. CASE Start
  BY <1>1 DEF Start, Refused
<1>2. CASE Resume
  BY <1>2 DEF Resume, FreshGuard, SlotInv
<1>3. CASE Exec
  <2>1. stale' \in BOOLEAN
    <3>1. CASE UNCHANGED factVars
      BY <3>1
    <3>2. CASE UNCHANGED stale
      BY <3>2
    <3>3. CASE stale' = TRUE
      BY <3>3
    <3>4. CASE stale' = (stale \/ inTx # {})
      BY <3>4
    <3>5. QED
      BY <1>3, <3>1, <3>2, <3>3, <3>4
      DEF Exec, Autocommit, ExecInTx, FailInTx, ImplicitCommit
  <2>2. QED
    BY <1>3, <2>1 DEF Exec
<1>4. CASE Begin
  BY <1>4 DEF Begin, Answered
<1>5. CASE Finish
  BY <1>5 DEF Finish, Answered, FinishWith, TakeSlot, Durable, Undone, CommitOps, RollbackOps
<1>6. CASE SkipStatement
  BY <1>6 DEF SkipStatement, Reading, Skips
<1>7. CASE TakeStatement
  BY <1>7 DEF TakeStatement, Takes, Reading, Skips, Call
<1>8. CASE TakeControl
  BY <1>8 DEF TakeControl, Takes, NothingToDo, Reading, IsControl, Call, GuardBefore, Disarm, CommitOps, RollbackOps, Skips
<1>9. CASE NestedBegin
  BY ZenonT(60), <1>9 DEF NestedBegin, Takes, Reading, OnFailure, AbortWith, RollBack, Call, Disarm, GoOn, CommitOps, RollbackOps, IsControl, Skips
<1>10. CASE ReadError
  BY <1>10 DEF ReadError, AbortWith, RollBack, Call, Disarm, CommitOps, RollbackOps
<1>11. CASE Begun
  BY <1>11 DEF Begun, AnsweredTo, GoOn
<1>12. CASE WrapFails
  BY <1>12 DEF WrapFails, AnsweredTo
<1>13. CASE BeginFails
  BY ZenonT(60), <1>13 DEF BeginFails, AnsweredTo, OnFailure, AbortWith, RollBack, Call, Disarm, GoOn, CommitOps, RollbackOps
<1>14. CASE Succeeded
  BY <1>14 DEF Succeeded, AnsweredTo, GoOn, RestartUnsafe, CommitsImplicitly
<1>15. CASE StatementFails
  BY ZenonT(60), <1>15 DEF StatementFails, AnsweredTo, OnFailure, AbortWith, RollBack, Call, Disarm, GoOn, CommitOps, RollbackOps
<1>16. CASE Committed
  BY <1>16 DEF Committed, AnsweredTo, GoOn, CountCommitted, CommitOps
<1>17. CASE CommitFails
  BY ZenonT(60), <1>17 DEF CommitFails, AnsweredTo, OnFailure, AbortWith, RollBack, Call, Disarm, GoOn, CommitOps, RollbackOps
<1>18. CASE RolledBack
  BY <1>18 DEF RolledBack, AnsweredTo, GoOn, RollbackOps
<1>19. CASE RollbackFails
  BY ZenonT(60), <1>19 DEF RollbackFails, AnsweredTo, OnFailure, AbortWith, RollBack, Call, Disarm, GoOn, CommitOps, RollbackOps
<1>20. CASE BatchRolledBack
  BY <1>20 DEF BatchRolledBack, GoOn, RollbackOps
<1>21. CASE CloseAtEnd
  BY <1>21 DEF CloseAtEnd, AtEnd, Call, Disarm, CommitOps, RollbackOps
<1>22. CASE Closed
  BY <1>22 DEF Closed, AnsweredTo, CountCommitted, CommitOps, RollbackOps
<1>23. CASE CloseFails
  BY ZenonT(60), <1>23 DEF CloseFails, AnsweredTo, AbortWith, RollBack, Call, Disarm, CommitOps, RollbackOps
<1>24. CASE NothingOpen
  BY <1>24 DEF NothingOpen, AtEnd
<1>25. CASE Aborted
  BY <1>25 DEF Aborted, RollbackOps
<1>26. CASE Invalidate
  BY <1>26 DEF Invalidate
<1>27. CASE Cancel
  BY <1>27 DEF Cancel, LeftToTasks, CommitOps, RollbackOps
<1>28. CASE RollbackTask
  BY <1>28 DEF RollbackTask, TakeSlot
<1>29. CASE InvalTask
  BY <1>29 DEF InvalTask
<1>30. CASE ClickBegin
  BY <1>30 DEF ClickBegin, notUser
<1>31. CASE UserBegin
  BY <1>31 DEF UserBegin, SlotLocked, notUser
<1>32. CASE ClickFinish
  BY <1>32 DEF ClickFinish, notUser
<1>33. CASE UserFinish
  BY <1>33 DEF UserFinish, SlotLocked, TakeSlot, notUser
<1>34. CASE UserAnswer
  BY <1>34 DEF UserAnswer, notUser
<1>35. CASE UNCHANGED vars
  BY <1>35 DEF vars
<1>36. QED
  BY <1>1, <1>2, <1>3, <1>4, <1>5, <1>6, <1>7, <1>8, <1>9, <1>10, <1>11, <1>12, <1>13, <1>14, <1>15, <1>16, <1>17, <1>18, <1>19, <1>20, <1>21, <1>22, <1>23, <1>24, <1>25, <1>26, <1>27, <1>28, <1>29, <1>30, <1>31, <1>32, <1>33, <1>34, <1>35
  DEF Next, Server, Runner

(* Calls, outcomes and commands keep their types.                           *)
LEMMA StepStep ==
  ASSUME TypeOK, SlotInv, PlaceInv, [Next]_vars
  PROVE  StepTypes'
<1> USE Bounds DEF TypeOK, StepTypes, Ops, CommitOps, RollbackOps,
        jobVars, txVars, factVars, callVars, posVars, guardVars, reportVars,
        taskVars, userVars
<1>1. CASE Start
  BY <1>1 DEF Start, Refused
<1>2. CASE Resume
  BY <1>2 DEF Resume, FreshGuard, SlotInv
<1>3. CASE Exec
  BY <1>3 DEF Exec, Answered, Autocommit, ExecInTx, FailInTx, ImplicitCommit, CommitsImplicitly
<1>4. CASE Begin
  BY <1>4 DEF Begin, Answered
<1>5. CASE Finish
  BY <1>5 DEF Finish, Answered, FinishWith, TakeSlot, Durable, Undone, CommitOps, RollbackOps
<1>6. CASE SkipStatement
  BY <1>6 DEF SkipStatement, Reading, Skips
<1>7. CASE TakeStatement
  BY <1>7 DEF TakeStatement, Takes, Reading, Skips, Call
<1>8. CASE TakeControl
  BY <1>8 DEF TakeControl, Takes, NothingToDo, Reading, IsControl, Call, GuardBefore, Disarm, CommitOps, RollbackOps, Skips
<1>9. CASE NestedBegin
  BY ZenonT(60), <1>9 DEF NestedBegin, Takes, Reading, OnFailure, AbortWith, RollBack, Call, Disarm, GoOn, CommitOps, RollbackOps, IsControl, Skips
<1>10. CASE ReadError
  BY <1>10 DEF ReadError, AbortWith, RollBack, Call, Disarm, CommitOps, RollbackOps
<1>11. CASE Begun
  BY <1>11 DEF Begun, AnsweredTo, GoOn
<1>12. CASE WrapFails
  BY <1>12 DEF WrapFails, AnsweredTo
<1>13. CASE BeginFails
  BY SMTT(30), <1>13 DEF BeginFails, AnsweredTo, OnFailure, AbortWith, RollBack, Call, Disarm, GoOn, CommitOps, RollbackOps
<1>14. CASE Succeeded
  BY <1>14 DEF Succeeded, AnsweredTo, GoOn, RestartUnsafe, CommitsImplicitly
<1>15. CASE StatementFails
  BY SMTT(30), <1>15 DEF StatementFails, AnsweredTo, OnFailure, AbortWith, RollBack, Call, Disarm, GoOn, CommitOps, RollbackOps
<1>16. CASE Committed
  BY <1>16 DEF Committed, AnsweredTo, GoOn, CountCommitted, CommitOps
<1>17. CASE CommitFails
  BY SMTT(30), <1>17 DEF CommitFails, AnsweredTo, OnFailure, AbortWith, RollBack, Call, Disarm, GoOn, CommitOps, RollbackOps
<1>18. CASE RolledBack
  BY <1>18 DEF RolledBack, AnsweredTo, GoOn, RollbackOps
<1>19. CASE RollbackFails
  BY SMTT(30), <1>19 DEF RollbackFails, AnsweredTo, OnFailure, AbortWith, RollBack, Call, Disarm, GoOn, CommitOps, RollbackOps
<1>20. CASE BatchRolledBack
  BY <1>20 DEF BatchRolledBack, GoOn, RollbackOps
<1>21. CASE CloseAtEnd
  BY <1>21 DEF CloseAtEnd, AtEnd, Call, Disarm, CommitOps, RollbackOps
<1>22. CASE Closed
  BY <1>22 DEF Closed, AnsweredTo, CountCommitted, CommitOps, RollbackOps
<1>23. CASE CloseFails
  BY SMTT(30), <1>23 DEF CloseFails, AnsweredTo, AbortWith, RollBack, Call, Disarm, CommitOps, RollbackOps
<1>24. CASE NothingOpen
  BY <1>24 DEF NothingOpen, AtEnd
<1>25. CASE Aborted
  BY <1>25 DEF Aborted, RollbackOps
<1>26. CASE Invalidate
  BY <1>26 DEF Invalidate
<1>27. CASE Cancel
  BY <1>27 DEF Cancel, LeftToTasks, CommitOps, RollbackOps
<1>28. CASE RollbackTask
  BY <1>28 DEF RollbackTask, TakeSlot
<1>29. CASE InvalTask
  BY <1>29 DEF InvalTask
<1>30. CASE ClickBegin
  BY <1>30 DEF ClickBegin, notUser
<1>31. CASE UserBegin
  BY <1>31 DEF UserBegin, SlotLocked, notUser
<1>32. CASE ClickFinish
  BY <1>32 DEF ClickFinish, notUser
<1>33. CASE UserFinish
  BY <1>33 DEF UserFinish, SlotLocked, TakeSlot, notUser
<1>34. CASE UserAnswer
  BY <1>34 DEF UserAnswer, notUser
<1>35. CASE UNCHANGED vars
  BY <1>35 DEF vars
<1>36. QED
  BY <1>1, <1>2, <1>3, <1>4, <1>5, <1>6, <1>7, <1>8, <1>9, <1>10, <1>11, <1>12, <1>13, <1>14, <1>15, <1>16, <1>17, <1>18, <1>19, <1>20, <1>21, <1>22, <1>23, <1>24, <1>25, <1>26, <1>27, <1>28, <1>29, <1>30, <1>31, <1>32, <1>33, <1>34, <1>35
  DEF Next, Server, Runner

LEMMA TypeStep ==
  ASSUME TypeOK, SlotInv, PlaceInv, [Next]_vars
  PROVE  TypeOK'
BY DataStep, FlagStep, StepStep DEF TypeOK

(* The slot, the guard and the interface stay in step.                      *)
LEMMA SlotStep ==
  ASSUME TypeOK, SlotInv, [Next]_vars
  PROVE  SlotInv'
<1> USE DEF SlotInv, OwnTransactions, AtCall, CommitOps, RollbackOps,
        jobVars, txVars, factVars, callVars, posVars, guardVars, reportVars,
        taskVars, userVars
<1>1. CASE Start
  BY <1>1 DEF Start, Refused, TypeOK, DataTypes, FlagTypes, StepTypes
<1>2. CASE Resume
  BY <1>2 DEF Resume, FreshGuard, TypeOK, DataTypes, FlagTypes, StepTypes
<1>3. CASE Exec
  BY <1>3 DEF Exec, Answered, Autocommit, ExecInTx, FailInTx, ImplicitCommit, CommitsImplicitly, TypeOK, DataTypes, FlagTypes, StepTypes
<1>4. CASE Begin
  BY <1>4 DEF Begin, Answered, TypeOK, DataTypes, FlagTypes, StepTypes
<1>5. CASE Finish
  BY <1>5 DEF Finish, Answered, FinishWith, TakeSlot, Durable, Undone, CommitOps, RollbackOps, TypeOK, DataTypes, FlagTypes, StepTypes
<1>6. CASE SkipStatement
  BY <1>6 DEF SkipStatement, Reading, Skips, TypeOK, DataTypes, FlagTypes, StepTypes
<1>7. CASE TakeStatement
  BY <1>7 DEF TakeStatement, Takes, Reading, Skips, Call, TypeOK, DataTypes, FlagTypes, StepTypes
<1>8. CASE TakeControl
  BY <1>8 DEF TakeControl, Takes, NothingToDo, Reading, IsControl, Call, GuardBefore, Disarm, CommitOps, RollbackOps, Skips, TypeOK, DataTypes, FlagTypes, StepTypes
<1>9. CASE NestedBegin
  BY ZenonT(60), <1>9 DEF NestedBegin, Takes, Reading, OnFailure, AbortWith, RollBack, Call, Disarm, GoOn, CommitOps, RollbackOps, IsControl, Skips, TypeOK, DataTypes, FlagTypes, StepTypes
<1>10. CASE ReadError
  BY <1>10 DEF ReadError, AbortWith, RollBack, Call, Disarm, CommitOps, RollbackOps, TypeOK, DataTypes, FlagTypes, StepTypes
<1>11. CASE Begun
  BY <1>11 DEF Begun, AnsweredTo, GoOn, TypeOK, DataTypes, FlagTypes, StepTypes
<1>12. CASE WrapFails
  BY <1>12 DEF WrapFails, AnsweredTo, TypeOK, DataTypes, FlagTypes, StepTypes
<1>13. CASE BeginFails
  BY SMTT(30), <1>13 DEF BeginFails, AnsweredTo, OnFailure, AbortWith, RollBack, Call, Disarm, GoOn, CommitOps, RollbackOps, TypeOK, DataTypes, FlagTypes, StepTypes
<1>14. CASE Succeeded
  BY <1>14 DEF Succeeded, AnsweredTo, GoOn, RestartUnsafe, CommitsImplicitly, TypeOK, DataTypes, FlagTypes, StepTypes
<1>15. CASE StatementFails
  BY SMTT(30), <1>15 DEF StatementFails, AnsweredTo, OnFailure, AbortWith, RollBack, Call, Disarm, GoOn, CommitOps, RollbackOps, TypeOK, DataTypes, FlagTypes, StepTypes
<1>16. CASE Committed
  BY <1>16 DEF Committed, AnsweredTo, GoOn, CountCommitted, CommitOps, TypeOK, DataTypes, FlagTypes, StepTypes
<1>17. CASE CommitFails
  BY SMTT(30), <1>17 DEF CommitFails, AnsweredTo, OnFailure, AbortWith, RollBack, Call, Disarm, GoOn, CommitOps, RollbackOps, TypeOK, DataTypes, FlagTypes, StepTypes
<1>18. CASE RolledBack
  BY <1>18 DEF RolledBack, AnsweredTo, GoOn, RollbackOps, TypeOK, DataTypes, FlagTypes, StepTypes
<1>19. CASE RollbackFails
  BY SMTT(30), <1>19 DEF RollbackFails, AnsweredTo, OnFailure, AbortWith, RollBack, Call, Disarm, GoOn, CommitOps, RollbackOps, TypeOK, DataTypes, FlagTypes, StepTypes
<1>20. CASE BatchRolledBack
  BY <1>20 DEF BatchRolledBack, GoOn, RollbackOps, TypeOK, DataTypes, FlagTypes, StepTypes
<1>21. CASE CloseAtEnd
  BY <1>21 DEF CloseAtEnd, AtEnd, Call, Disarm, CommitOps, RollbackOps, TypeOK, DataTypes, FlagTypes, StepTypes
<1>22. CASE Closed
  BY <1>22 DEF Closed, AnsweredTo, CountCommitted, CommitOps, RollbackOps, TypeOK, DataTypes, FlagTypes, StepTypes
<1>23. CASE CloseFails
  BY SMTT(30), <1>23 DEF CloseFails, AnsweredTo, AbortWith, RollBack, Call, Disarm, CommitOps, RollbackOps, TypeOK, DataTypes, FlagTypes, StepTypes
<1>24. CASE NothingOpen
  BY <1>24 DEF NothingOpen, AtEnd, TypeOK, DataTypes, FlagTypes, StepTypes
<1>25. CASE Aborted
  BY <1>25 DEF Aborted, RollbackOps, TypeOK, DataTypes, FlagTypes, StepTypes
<1>26. CASE Invalidate
  BY <1>26 DEF Invalidate, TypeOK, DataTypes, FlagTypes, StepTypes
<1>27. CASE Cancel
  BY <1>27 DEF Cancel, LeftToTasks, CommitOps, RollbackOps, TypeOK, DataTypes, FlagTypes, StepTypes
<1>28. CASE RollbackTask
  BY <1>28 DEF RollbackTask, TakeSlot, TypeOK, DataTypes, FlagTypes, StepTypes
<1>29. CASE InvalTask
  BY <1>29 DEF InvalTask, TypeOK, DataTypes, FlagTypes, StepTypes
<1>30. CASE ClickBegin
  BY <1>30 DEF ClickBegin, notUser, TypeOK, DataTypes, FlagTypes, StepTypes
<1>31. CASE UserBegin
  BY <1>31 DEF UserBegin, SlotLocked, notUser, TypeOK, DataTypes, FlagTypes, StepTypes
<1>32. CASE ClickFinish
  BY <1>32 DEF ClickFinish, notUser, TypeOK, DataTypes, FlagTypes, StepTypes
<1>33. CASE UserFinish
  BY <1>33 DEF UserFinish, SlotLocked, TakeSlot, notUser, TypeOK, DataTypes, FlagTypes, StepTypes
<1>34. CASE UserAnswer
  BY <1>34 DEF UserAnswer, notUser, TypeOK, DataTypes, FlagTypes, StepTypes
<1>35. CASE UNCHANGED vars
  BY <1>35 DEF vars
<1>36. QED
  BY <1>1, <1>2, <1>3, <1>4, <1>5, <1>6, <1>7, <1>8, <1>9, <1>10, <1>11, <1>12, <1>13, <1>14, <1>15, <1>16, <1>17, <1>18, <1>19, <1>20, <1>21, <1>22, <1>23, <1>24, <1>25, <1>26, <1>27, <1>28, <1>29, <1>30, <1>31, <1>32, <1>33, <1>34, <1>35
  DEF Next, Server, Runner

(* No step puts a durable statement where a resumed run would go again.     *)
LEMMA PlaceStep ==
  ASSUME TypeOK, SlotInv, PlaceInv, [Next]_vars
  PROVE  PlaceInv'
<1> USE LastInNat DEF TypeOK, DataTypes, FlagTypes, StepTypes, PlaceInv, Between, AtCall, Succeeds, CommitsImplicitly,
        CommitOps, RollbackOps, Ops, jobVars, txVars, factVars, callVars, posVars, guardVars, reportVars,
        taskVars, userVars
<1>1. CASE Start
  BY <1>1 DEF Start, Refused, SlotInv
<1>2. CASE Resume
  BY <1>2 DEF Resume, FreshGuard, SlotInv
<1>3. CASE Exec
  <2>1. /\ pc = "call" /\ op = "exec" /\ pc' = "answered" /\ op' = "exec"
        /\ UNCHANGED <<jobVars, posVars, guardVars, reportVars, before>>
        /\ startAt <= seen /\ seen \notin kept \cup inTx /\ offer = 0
        /\ active => slot = "script"
    BY <1>3 DEF Exec, Answered, Autocommit, ExecInTx, FailInTx, ImplicitCommit, SlotInv
  <2>2. CASE UNCHANGED <<kept, inTx>> /\ (txState' = txState \/ txState' = "aborted")
    BY <2>1, <2>2
  <2>3. CASE /\ kept' = kept \cup {seen} /\ UNCHANGED <<inTx, txState>> /\ answer' = "ok"
             /\ active => txState = "ended"
    BY <2>1, <2>3
  <2>4. CASE /\ kept' = kept \cup inTx \cup {seen} /\ inTx' = {} /\ answer' = "ok"
             /\ CommitsImplicitly(seen)
    BY <2>1, <2>4
  <2>5. CASE eager /\ kept' = kept \cup inTx /\ inTx' = {}
    BY <2>1, <2>5
  <2>6. CASE kept' = kept /\ inTx' = inTx \cup {seen} /\ txState' = txState /\ answer' = "ok"
    BY <2>1, <2>6
  <2>7. QED
    BY <1>3, <2>2, <2>3, <2>4, <2>5, <2>6
    DEF Exec, Answered, Autocommit, ExecInTx, FailInTx, ImplicitCommit
<1>4. CASE Begin
  BY <1>4 DEF Begin, Answered, SlotInv
<1>5. CASE Finish
  BY <1>5 DEF Finish, Answered, FinishWith, TakeSlot, Durable, Undone, CommitOps, RollbackOps, SlotInv
<1>6. CASE SkipStatement
  BY <1>6 DEF SkipStatement, Reading, Skips, SlotInv
<1>7. CASE TakeStatement
  BY <1>7 DEF TakeStatement, Takes, Reading, Skips, Call, SlotInv
<1>8. CASE TakeControl
  BY <1>8 DEF TakeControl, Takes, NothingToDo, Reading, IsControl, Call, GuardBefore, Disarm, CommitOps, RollbackOps, Skips, SlotInv
<1>9. CASE NestedBegin
  <2> DEFINE o == OfferFor(seen + 1)
  <2>1. /\ pc = "next" /\ active /\ slot = "script" /\ seen' = seen + 1
        /\ offer = 0 /\ OnFailure(o)
        /\ UNCHANGED <<jobVars, txVars, kept, before, startAt, txBegin, unsafe>>
    BY <1>9 DEF NestedBegin, Takes, Reading, SlotInv
  <2>2. o = 0 \/ (o = txBegin /\ ~unsafe)
    BY <2>1 DEF OfferFor, InTransaction, OfferedBegin
  <2>3. o # 0 => startAt <= o /\ (~eager => Between(kept, 1, o - 1))
    BY <2>1, <2>2
  <2> HIDE DEF o
  <2>4. CASE pc' = "call" /\ op' = "batchRollback" /\ skipping' /\ UNCHANGED offer /\ ~active'
    BY <2>1, <2>4
  <2>5. CASE pc' = "next" /\ UNCHANGED <<skipping, offer, active>>
    BY <2>1, <2>5
  <2>6. CASE /\ pc' = "call" /\ op' = "abortRollback" /\ offer' = o
             /\ outcome' = "failed" /\ UNCHANGED skipping /\ ~active'
    BY <2>1, <2>3, <2>6
  <2>7. QED
    BY <2>1, <2>4, <2>5, <2>6
    DEF OnFailure, AbortWith, RollBack, Call, Disarm, GoOn
<1>10. CASE ReadError
  BY <1>10 DEF ReadError, AbortWith, RollBack, Call, Disarm, CommitOps, RollbackOps, SlotInv
<1>11. CASE Begun
  BY <1>11 DEF Begun, AnsweredTo, GoOn, SlotInv
<1>12. CASE WrapFails
  BY <1>12 DEF WrapFails, AnsweredTo, SlotInv
<1>13. CASE BeginFails
  BY SMTT(30), <1>13 DEF BeginFails, AnsweredTo, OnFailure, AbortWith, RollBack, Call, Disarm, GoOn, CommitOps, RollbackOps, SlotInv, InTransaction, OfferedBegin, OfferFor
<1>14. CASE Succeeded
  BY <1>14 DEF Succeeded, AnsweredTo, GoOn, RestartUnsafe, CommitsImplicitly, SlotInv
<1>15. CASE StatementFails
  BY SMTT(30), <1>15 DEF StatementFails, AnsweredTo, OnFailure, AbortWith, RollBack, Call, Disarm, GoOn, CommitOps, RollbackOps, SlotInv, InTransaction, OfferedBegin, OfferFor
<1>16. CASE Committed
  BY <1>16 DEF Committed, AnsweredTo, GoOn, CountCommitted, CommitOps, SlotInv
<1>17. CASE CommitFails
  BY SMTT(30), <1>17 DEF CommitFails, AnsweredTo, OnFailure, AbortWith, RollBack, Call, Disarm, GoOn, CommitOps, RollbackOps, SlotInv
<1>18. CASE RolledBack
  BY <1>18 DEF RolledBack, AnsweredTo, GoOn, RollbackOps, SlotInv
<1>19. CASE RollbackFails
  BY SMTT(30), <1>19 DEF RollbackFails, AnsweredTo, OnFailure, AbortWith, RollBack, Call, Disarm, GoOn, CommitOps, RollbackOps, SlotInv, InTransaction, OfferedBegin, OfferFor
<1>20. CASE BatchRolledBack
  BY <1>20 DEF BatchRolledBack, GoOn, RollbackOps, SlotInv
<1>21. CASE CloseAtEnd
  BY <1>21 DEF CloseAtEnd, AtEnd, Call, Disarm, CommitOps, RollbackOps, SlotInv
<1>22. CASE Closed
  BY <1>22 DEF Closed, AnsweredTo, CountCommitted, CommitOps, RollbackOps, SlotInv
<1>23. CASE CloseFails
  BY SMTT(30), <1>23 DEF CloseFails, AnsweredTo, AbortWith, RollBack, Call, Disarm, CommitOps, RollbackOps, SlotInv
<1>24. CASE NothingOpen
  BY <1>24 DEF NothingOpen, AtEnd, SlotInv
<1>25. CASE Aborted
  BY <1>25 DEF Aborted, RollbackOps, SlotInv
<1>26. CASE Invalidate
  BY <1>26 DEF Invalidate, SlotInv
<1>27. CASE Cancel
  BY <1>27 DEF Cancel, LeftToTasks, CommitOps, RollbackOps, SlotInv
<1>28. CASE RollbackTask
  BY <1>28 DEF RollbackTask, TakeSlot, SlotInv
<1>29. CASE InvalTask
  BY <1>29 DEF InvalTask, SlotInv
<1>30. CASE ClickBegin
  BY <1>30 DEF ClickBegin, notUser, SlotInv
<1>31. CASE UserBegin
  BY <1>31 DEF UserBegin, SlotLocked, notUser, SlotInv
<1>32. CASE ClickFinish
  BY <1>32 DEF ClickFinish, notUser, SlotInv
<1>33. CASE UserFinish
  BY <1>33 DEF UserFinish, SlotLocked, TakeSlot, notUser, SlotInv
<1>34. CASE UserAnswer
  BY <1>34 DEF UserAnswer, notUser, SlotInv
<1>35. CASE UNCHANGED vars
  BY <1>35 DEF vars
<1>36. QED
  BY <1>1, <1>2, <1>3, <1>4, <1>5, <1>6, <1>7, <1>8, <1>9, <1>10, <1>11, <1>12, <1>13, <1>14, <1>15, <1>16, <1>17, <1>18, <1>19, <1>20, <1>21, <1>22, <1>23, <1>24, <1>25, <1>26, <1>27, <1>28, <1>29, <1>30, <1>31, <1>32, <1>33, <1>34, <1>35
  DEF Next, Server, Runner

(* What becomes durable is followed by an invalidation.                     *)
LEMMA CacheStep ==
  ASSUME TypeOK, SlotInv, CacheInv, [Next]_vars
  PROVE  CacheInv'
<1> USE DEF CacheInv, CachesFollow, AtCall, Succeeds, CommitOps, RollbackOps,
        jobVars, txVars, factVars, callVars, posVars, guardVars, reportVars,
        taskVars, userVars
<1>1. CASE Start
  BY <1>1 DEF Start, Refused, TypeOK, DataTypes, FlagTypes, StepTypes, SlotInv
<1>2. CASE Resume
  BY <1>2 DEF Resume, FreshGuard, TypeOK, DataTypes, FlagTypes, StepTypes, SlotInv
<1>3. CASE Exec
  BY <1>3 DEF Exec, Answered, Autocommit, ExecInTx, FailInTx, ImplicitCommit, CommitsImplicitly, TypeOK, DataTypes, FlagTypes, StepTypes, SlotInv
<1>4. CASE Begin
  BY <1>4 DEF Begin, Answered, TypeOK, DataTypes, FlagTypes, StepTypes, SlotInv
<1>5. CASE Finish
  BY <1>5 DEF Finish, Answered, FinishWith, TakeSlot, Durable, Undone, CommitOps, RollbackOps, TypeOK, DataTypes, FlagTypes, StepTypes, SlotInv
<1>6. CASE SkipStatement
  BY <1>6 DEF SkipStatement, Reading, Skips, TypeOK, DataTypes, FlagTypes, StepTypes, SlotInv
<1>7. CASE TakeStatement
  BY <1>7 DEF TakeStatement, Takes, Reading, Skips, Call, TypeOK, DataTypes, FlagTypes, StepTypes, SlotInv
<1>8. CASE TakeControl
  BY <1>8 DEF TakeControl, Takes, NothingToDo, Reading, IsControl, Call, GuardBefore, Disarm, CommitOps, RollbackOps, Skips, TypeOK, DataTypes, FlagTypes, StepTypes, SlotInv
<1>9. CASE NestedBegin
  BY ZenonT(60), <1>9 DEF NestedBegin, Takes, Reading, OnFailure, AbortWith, RollBack, Call, Disarm, GoOn, CommitOps, RollbackOps, IsControl, Skips, TypeOK, DataTypes, FlagTypes, StepTypes, SlotInv
<1>10. CASE ReadError
  BY <1>10 DEF ReadError, AbortWith, RollBack, Call, Disarm, CommitOps, RollbackOps, TypeOK, DataTypes, FlagTypes, StepTypes, SlotInv
<1>11. CASE Begun
  BY <1>11 DEF Begun, AnsweredTo, GoOn, TypeOK, DataTypes, FlagTypes, StepTypes, SlotInv
<1>12. CASE WrapFails
  BY <1>12 DEF WrapFails, AnsweredTo, TypeOK, DataTypes, FlagTypes, StepTypes, SlotInv
<1>13. CASE BeginFails
  BY SMTT(30), <1>13 DEF BeginFails, AnsweredTo, OnFailure, AbortWith, RollBack, Call, Disarm, GoOn, CommitOps, RollbackOps, TypeOK, DataTypes, FlagTypes, StepTypes, SlotInv
<1>14. CASE Succeeded
  BY <1>14 DEF Succeeded, AnsweredTo, GoOn, RestartUnsafe, CommitsImplicitly, TypeOK, DataTypes, FlagTypes, StepTypes, SlotInv
<1>15. CASE StatementFails
  BY SMTT(30), <1>15 DEF StatementFails, AnsweredTo, OnFailure, AbortWith, RollBack, Call, Disarm, GoOn, CommitOps, RollbackOps, TypeOK, DataTypes, FlagTypes, StepTypes, SlotInv
<1>16. CASE Committed
  BY <1>16 DEF Committed, AnsweredTo, GoOn, CountCommitted, CommitOps, TypeOK, DataTypes, FlagTypes, StepTypes, SlotInv
<1>17. CASE CommitFails
  BY SMTT(30), <1>17 DEF CommitFails, AnsweredTo, OnFailure, AbortWith, RollBack, Call, Disarm, GoOn, CommitOps, RollbackOps, TypeOK, DataTypes, FlagTypes, StepTypes, SlotInv
<1>18. CASE RolledBack
  BY <1>18 DEF RolledBack, AnsweredTo, GoOn, RollbackOps, TypeOK, DataTypes, FlagTypes, StepTypes, SlotInv
<1>19. CASE RollbackFails
  BY SMTT(30), <1>19 DEF RollbackFails, AnsweredTo, OnFailure, AbortWith, RollBack, Call, Disarm, GoOn, CommitOps, RollbackOps, TypeOK, DataTypes, FlagTypes, StepTypes, SlotInv
<1>20. CASE BatchRolledBack
  BY <1>20 DEF BatchRolledBack, GoOn, RollbackOps, TypeOK, DataTypes, FlagTypes, StepTypes, SlotInv
<1>21. CASE CloseAtEnd
  BY <1>21 DEF CloseAtEnd, AtEnd, Call, Disarm, CommitOps, RollbackOps, TypeOK, DataTypes, FlagTypes, StepTypes, SlotInv
<1>22. CASE Closed
  BY <1>22 DEF Closed, AnsweredTo, CountCommitted, CommitOps, RollbackOps, TypeOK, DataTypes, FlagTypes, StepTypes, SlotInv
<1>23. CASE CloseFails
  BY SMTT(30), <1>23 DEF CloseFails, AnsweredTo, AbortWith, RollBack, Call, Disarm, CommitOps, RollbackOps, TypeOK, DataTypes, FlagTypes, StepTypes, SlotInv
<1>24. CASE NothingOpen
  BY <1>24 DEF NothingOpen, AtEnd, TypeOK, DataTypes, FlagTypes, StepTypes, SlotInv
<1>25. CASE Aborted
  BY <1>25 DEF Aborted, RollbackOps, TypeOK, DataTypes, FlagTypes, StepTypes, SlotInv
<1>26. CASE Invalidate
  BY <1>26 DEF Invalidate, TypeOK, DataTypes, FlagTypes, StepTypes, SlotInv
<1>27. CASE Cancel
  BY <1>27 DEF Cancel, LeftToTasks, CommitOps, RollbackOps, TypeOK, DataTypes, FlagTypes, StepTypes, SlotInv
<1>28. CASE RollbackTask
  BY <1>28 DEF RollbackTask, TakeSlot, TypeOK, DataTypes, FlagTypes, StepTypes, SlotInv
<1>29. CASE InvalTask
  BY <1>29 DEF InvalTask, TypeOK, DataTypes, FlagTypes, StepTypes, SlotInv
<1>30. CASE ClickBegin
  BY <1>30 DEF ClickBegin, notUser, TypeOK, DataTypes, FlagTypes, StepTypes, SlotInv
<1>31. CASE UserBegin
  BY <1>31 DEF UserBegin, SlotLocked, notUser, TypeOK, DataTypes, FlagTypes, StepTypes, SlotInv
<1>32. CASE ClickFinish
  BY <1>32 DEF ClickFinish, notUser, TypeOK, DataTypes, FlagTypes, StepTypes, SlotInv
<1>33. CASE UserFinish
  BY <1>33 DEF UserFinish, SlotLocked, TakeSlot, notUser, TypeOK, DataTypes, FlagTypes, StepTypes, SlotInv
<1>34. CASE UserAnswer
  BY <1>34 DEF UserAnswer, notUser, TypeOK, DataTypes, FlagTypes, StepTypes, SlotInv
<1>35. CASE UNCHANGED vars
  BY <1>35 DEF vars
<1>36. QED
  BY <1>1, <1>2, <1>3, <1>4, <1>5, <1>6, <1>7, <1>8, <1>9, <1>10, <1>11, <1>12, <1>13, <1>14, <1>15, <1>16, <1>17, <1>18, <1>19, <1>20, <1>21, <1>22, <1>23, <1>24, <1>25, <1>26, <1>27, <1>28, <1>29, <1>30, <1>31, <1>32, <1>33, <1>34, <1>35
  DEF Next, Server, Runner

-----------------------------------------------------------------------------
(* A run in one transaction.                                                *)
LEMMA KindOf ==
  ASSUME script \in Scripts, NEW i \in 1..Last
  PROVE  script[i] \in Kinds
BY ScriptAssumption DEF Last

LEMMA UpToEnds ==
  ASSUME NEW m \in Nat, NEW S, S \subseteq 1..m
  PROVE  UpTo(S, 0) = {} /\ UpTo(S, m) = S
<1>1. ASSUME NEW i \in UpTo(S, 0)
      PROVE  FALSE
  <2>1. i \in S /\ i <= 0
    BY DEF UpTo
  <2>2. i \in 1..m
    BY <2>1
  <2>3. QED
    BY <2>1, <2>2
<1>2. ASSUME NEW i \in S
      PROVE  i \in UpTo(S, m)
  <2>1. i \in 1..m
    OBVIOUS
  <2>2. QED
    BY <2>1 DEF UpTo
<1>3. UpTo(S, m) \subseteq S
  BY DEF UpTo
<1>4. QED
  BY <1>1, <1>2, <1>3

LEMMA UpToNext ==
  ASSUME NEW m \in Nat, NEW S, S \subseteq 1..m, NEW n \in Nat
  PROVE  UpTo(S, n + 1) = IF n + 1 \in S THEN UpTo(S, n) \cup {n + 1} ELSE UpTo(S, n)
<1>1. ASSUME NEW i \in S
      PROVE  i <= n + 1 <=> i <= n \/ i = n + 1
  <2>1. i \in Nat
    OBVIOUS
  <2>2. QED
    BY <2>1
<1>2. QED
  BY <1>1 DEF UpTo

LEMMA WrapInit == Init => WrapInv
BY DEF Init, WrapInv, WrapPlaces, WrapWhole, WrapNothing, AtCall, Succeeds

\* What is run is chosen once.
LEMMA JobKept ==
  ASSUME [Next]_vars
  PROVE  UNCHANGED jobVars
<1> USE DEF jobVars
<1>1. CASE Start
  BY <1>1 DEF Start, Refused
<1>2. CASE Resume
  BY <1>2 DEF Resume, FreshGuard
<1>3. CASE Exec
  BY <1>3 DEF Exec, Answered, Autocommit, ExecInTx, FailInTx, ImplicitCommit,
     CommitsImplicitly
<1>4. CASE Begin
  BY <1>4 DEF Begin, Answered
<1>5. CASE Finish
  BY <1>5 DEF Finish, Answered, FinishWith, TakeSlot, Durable, Undone, CommitOps,
     RollbackOps
<1>6. CASE SkipStatement
  BY <1>6 DEF SkipStatement, Reading, Skips, NothingToDo, IsControl
<1>7. CASE TakeStatement
  BY <1>7 DEF TakeStatement, Takes, Reading, Skips, IsControl, Call
<1>8. CASE TakeControl
  BY <1>8 DEF TakeControl, Takes, NothingToDo, Reading, IsControl, Call, GuardBefore,
     Disarm, CommitOps, RollbackOps, Skips
<1>9. CASE NestedBegin
  BY SMTT(30), <1>9 DEF NestedBegin, Takes, Reading, OnFailure, AbortWith, RollBack, Call,
     Disarm, GoOn, CommitOps, RollbackOps, IsControl, Skips, InTransaction,
     OfferedBegin, OfferFor
<1>10. CASE ReadError
  BY <1>10 DEF ReadError, AbortWith, RollBack, Call, Disarm, CommitOps, RollbackOps
<1>11. CASE Begun
  BY <1>11 DEF Begun, AnsweredTo, GoOn
<1>12. CASE WrapFails
  BY <1>12 DEF WrapFails, AnsweredTo
<1>13. CASE BeginFails
  BY SMTT(30), <1>13 DEF BeginFails, AnsweredTo, OnFailure, AbortWith, RollBack, Call,
     Disarm, GoOn, CommitOps, RollbackOps, InTransaction, OfferedBegin, OfferFor
<1>14. CASE Succeeded
  BY <1>14 DEF Succeeded, AnsweredTo, GoOn, RestartUnsafe, CommitsImplicitly
<1>15. CASE StatementFails
  BY SMTT(30), <1>15 DEF StatementFails, AnsweredTo, OnFailure, AbortWith, RollBack, Call,
     Disarm, GoOn, CommitOps, RollbackOps, InTransaction, OfferedBegin, OfferFor
<1>16. CASE Committed
  BY <1>16 DEF Committed, AnsweredTo, GoOn, CountCommitted, CommitOps
<1>17. CASE CommitFails
  BY SMTT(30), <1>17 DEF CommitFails, AnsweredTo, OnFailure, AbortWith, RollBack, Call,
     Disarm, GoOn, CommitOps, RollbackOps
<1>18. CASE RolledBack
  BY <1>18 DEF RolledBack, AnsweredTo, GoOn, RollbackOps
<1>19. CASE RollbackFails
  BY SMTT(30), <1>19 DEF RollbackFails, AnsweredTo, OnFailure, AbortWith, RollBack, Call,
     Disarm, GoOn, CommitOps, RollbackOps, InTransaction, OfferedBegin, OfferFor
<1>20. CASE BatchRolledBack
  BY <1>20 DEF BatchRolledBack, GoOn, RollbackOps
<1>21. CASE CloseAtEnd
  BY <1>21 DEF CloseAtEnd, AtEnd, Call, Disarm, CommitOps, RollbackOps
<1>22. CASE Closed
  BY <1>22 DEF Closed, AnsweredTo, CountCommitted, CommitOps, RollbackOps
<1>23. CASE CloseFails
  BY SMTT(30), <1>23 DEF CloseFails, AnsweredTo, AbortWith, RollBack, Call, Disarm,
     CommitOps, RollbackOps
<1>24. CASE NothingOpen
  BY <1>24 DEF NothingOpen, AtEnd
<1>25. CASE Aborted
  BY <1>25 DEF Aborted, RollbackOps
<1>26. CASE Invalidate
  BY <1>26 DEF Invalidate
<1>27. CASE Cancel
  BY <1>27 DEF Cancel, LeftToTasks, CommitOps, RollbackOps
<1>28. CASE RollbackTask
  BY <1>28 DEF RollbackTask, TakeSlot
<1>29. CASE InvalTask
  BY <1>29 DEF InvalTask
<1>30. CASE ClickBegin
  BY <1>30 DEF ClickBegin, notUser
<1>31. CASE UserBegin
  BY <1>31 DEF UserBegin, SlotLocked, notUser
<1>32. CASE ClickFinish
  BY <1>32 DEF ClickFinish, notUser
<1>33. CASE UserFinish
  BY <1>33 DEF UserFinish, SlotLocked, TakeSlot, notUser
<1>34. CASE UserAnswer
  BY <1>34 DEF UserAnswer, notUser
<1>35. CASE UNCHANGED vars
  BY <1>35 DEF vars
<1>36. QED
  BY <1>1, <1>2, <1>3, <1>4, <1>5, <1>6, <1>7, <1>8, <1>9, <1>10, <1>11, <1>12, <1>13,
     <1>14, <1>15, <1>16, <1>17, <1>18, <1>19, <1>20, <1>21, <1>22, <1>23, <1>24, <1>25,
     <1>26, <1>27, <1>28, <1>29, <1>30, <1>31, <1>32, <1>33, <1>34, <1>35
     DEF Next, Server, Runner

\* Where such a run is.
LEMMA WrapPlacesStep ==
  ASSUME TypeOK, SlotInv, PlaceInv, WrapPlaces, mode.wrap, [Next]_vars
  PROVE  WrapPlaces'
<1>0. mode \in AllModes /\ ~mode.cont /\ Last \in Nat
  BY ScriptAssumption, LastInNat DEF TypeOK, DataTypes, AllModes
<1>a. \A i \in 1..Last : script[i] \in Kinds
  BY KindOf DEF TypeOK, DataTypes
<1> USE <1>0, <1>a DEF TypeOK, DataTypes, FlagTypes, StepTypes, SlotInv, PlaceInv,
        WrapPlaces, AtCall, Succeeds, Statements, Last, Kinds, CommitOps, RollbackOps, Ops,
        jobVars, txVars, factVars, callVars, posVars, guardVars, reportVars,
        taskVars, userVars
<1>1. CASE Start
  BY <1>1 DEF Start, Refused
<1>2. CASE Resume
  BY <1>2 DEF Resume, FreshGuard
<1>3. CASE Exec
  BY <1>3 DEF Exec, Answered, Autocommit, ExecInTx, FailInTx, ImplicitCommit,
     CommitsImplicitly
<1>4. CASE Begin
  BY <1>4 DEF Begin, Answered
<1>5. CASE Finish
  BY <1>5 DEF Finish, Answered, FinishWith, TakeSlot, Durable, Undone, CommitOps,
     RollbackOps
<1>6. CASE SkipStatement
  BY <1>6 DEF SkipStatement, Reading, Skips, NothingToDo, IsControl
<1>7. CASE TakeStatement
  BY <1>7 DEF TakeStatement, Takes, Reading, Skips, IsControl, Call
<1>8. CASE TakeControl
  BY <1>8 DEF TakeControl, Takes, NothingToDo, Reading, IsControl, Call, GuardBefore,
     Disarm, CommitOps, RollbackOps, Skips
<1>9. CASE NestedBegin
  BY SMTT(30), <1>9 DEF NestedBegin, Takes, Reading, OnFailure, AbortWith, RollBack, Call,
     Disarm, GoOn, CommitOps, RollbackOps, IsControl, Skips, InTransaction,
     OfferedBegin, OfferFor
<1>10. CASE ReadError
  BY <1>10 DEF ReadError, AbortWith, RollBack, Call, Disarm, CommitOps, RollbackOps
<1>11. CASE Begun
  BY <1>11 DEF Begun, AnsweredTo, GoOn
<1>12. CASE WrapFails
  BY <1>12 DEF WrapFails, AnsweredTo
<1>13. CASE BeginFails
  BY SMTT(30), <1>13 DEF BeginFails, AnsweredTo, OnFailure, AbortWith, RollBack, Call,
     Disarm, GoOn, CommitOps, RollbackOps, InTransaction, OfferedBegin, OfferFor
<1>14. CASE Succeeded
  BY <1>14 DEF Succeeded, AnsweredTo, GoOn, RestartUnsafe, CommitsImplicitly
<1>15. CASE StatementFails
  <2>1. /\ pc = "answered" /\ op = "exec" /\ active /\ startAt = 1 /\ offer = 0
        /\ UNCHANGED <<mode, startAt, external, before, seen, script>>
        /\ OnFailure(0) /\ outcome # "done"
    BY <1>15 DEF StatementFails, AnsweredTo, OfferFor
  <2>2. CASE mode.batch
    BY <2>1, <2>2 DEF OnFailure, RollBack, Call, Disarm
  <2>3. CASE ~mode.batch
    BY <2>1, <2>3 DEF OnFailure, AbortWith, RollBack, Call, Disarm
  <2>4. QED
    BY <2>2, <2>3
<1>16. CASE Committed
  BY <1>16 DEF Committed, AnsweredTo, GoOn, CountCommitted, CommitOps
<1>17. CASE CommitFails
  BY SMTT(30), <1>17 DEF CommitFails, AnsweredTo, OnFailure, AbortWith, RollBack, Call,
     Disarm, GoOn, CommitOps, RollbackOps
<1>18. CASE RolledBack
  BY <1>18 DEF RolledBack, AnsweredTo, GoOn, RollbackOps
<1>19. CASE RollbackFails
  BY SMTT(30), <1>19 DEF RollbackFails, AnsweredTo, OnFailure, AbortWith, RollBack, Call,
     Disarm, GoOn, CommitOps, RollbackOps, InTransaction, OfferedBegin, OfferFor
<1>20. CASE BatchRolledBack
  BY <1>20 DEF BatchRolledBack, GoOn, RollbackOps
<1>21. CASE CloseAtEnd
  BY <1>21 DEF CloseAtEnd, AtEnd, Call, Disarm, CommitOps, RollbackOps
<1>22. CASE Closed
  BY <1>22 DEF Closed, AnsweredTo, CountCommitted, CommitOps, RollbackOps
<1>23. CASE CloseFails
  BY SMTT(30), <1>23 DEF CloseFails, AnsweredTo, AbortWith, RollBack, Call, Disarm,
     CommitOps, RollbackOps
<1>24. CASE NothingOpen
  BY <1>24 DEF NothingOpen, AtEnd
<1>25. CASE Aborted
  BY <1>25 DEF Aborted, RollbackOps
<1>26. CASE Invalidate
  BY <1>26 DEF Invalidate
<1>27. CASE Cancel
  BY <1>27 DEF Cancel, LeftToTasks, CommitOps, RollbackOps
<1>28. CASE RollbackTask
  BY <1>28 DEF RollbackTask, TakeSlot
<1>29. CASE InvalTask
  BY <1>29 DEF InvalTask
<1>30. CASE ClickBegin
  BY <1>30 DEF ClickBegin, notUser
<1>31. CASE UserBegin
  BY <1>31 DEF UserBegin, SlotLocked, notUser
<1>32. CASE ClickFinish
  BY <1>32 DEF ClickFinish, notUser
<1>33. CASE UserFinish
  BY <1>33 DEF UserFinish, SlotLocked, TakeSlot, notUser
<1>34. CASE UserAnswer
  BY <1>34 DEF UserAnswer, notUser
<1>35. CASE UNCHANGED vars
  BY <1>35 DEF vars
<1>36. QED
  BY <1>1, <1>2, <1>3, <1>4, <1>5, <1>6, <1>7, <1>8, <1>9, <1>10, <1>11, <1>12, <1>13,
     <1>14, <1>15, <1>16, <1>17, <1>18, <1>19, <1>20, <1>21, <1>22, <1>23, <1>24, <1>25,
     <1>26, <1>27, <1>28, <1>29, <1>30, <1>31, <1>32, <1>33, <1>34, <1>35
     DEF Next, Server, Runner

\* What of it is durable, or in the transaction.
LEMMA WrapWholeStep ==
  ASSUME TypeOK, SlotInv, PlaceInv, WrapPlaces, WrapWhole, mode.wrap, [Next]_vars
  PROVE  WrapWhole'
<1>0. /\ mode \in AllModes /\ ~mode.cont /\ Last \in Nat
      /\ Statements \subseteq 1..Last /\ seen \in 0..Last
      /\ UNCHANGED jobVars => Last' = Last /\ Statements' = Statements
  BY ScriptAssumption, LastInNat DEF TypeOK, DataTypes, AllModes, Statements, Last, jobVars
<1>a. \A i \in 1..Last : script[i] \in Kinds
  BY KindOf DEF TypeOK, DataTypes
<1>b. /\ UpTo(Statements, 0) = {} /\ UpTo(Statements, Last) = Statements
      /\ \A n \in Nat : UpTo(Statements, n + 1) =
            IF n + 1 \in Statements THEN UpTo(Statements, n) \cup {n + 1}
                                    ELSE UpTo(Statements, n)
  <2>1. ASSUME NEW n \in Nat
        PROVE  UpTo(Statements, n + 1) =
            IF n + 1 \in Statements THEN UpTo(Statements, n) \cup {n + 1}
                                    ELSE UpTo(Statements, n)
    BY <1>0, UpToNext
  <2>2. QED
    BY <1>0, <2>1, UpToEnds
<1>c. \A i \in 1..Last : script[i] \in {"begin", "commit", "rollback"} <=> i \notin Statements
  BY <1>a DEF Statements, Kinds
<1> USE <1>0, <1>b, <1>c DEF TypeOK, DataTypes, FlagTypes, StepTypes, SlotInv, WrapPlaces,
        WrapWhole, AtCall, Succeeds, CommitOps, RollbackOps, Ops,
        jobVars, txVars, factVars, callVars, posVars, guardVars, reportVars,
        taskVars, userVars
<1>1. CASE Start
  BY <1>1 DEF Start, Refused
<1>2. CASE Resume
  BY <1>2 DEF Resume, FreshGuard
<1>3. CASE Exec
  <2>1. /\ pc = "call" /\ op = "exec" /\ pc' = "answered" /\ op' = "exec" /\ active
        /\ UNCHANGED <<mode, script, seen, active, outcome, skipping>> /\ seen \in Statements
        /\ kept \cup inTx = UpTo(Statements, seen - 1) /\ outcome # "done"
    BY <1>3 DEF Exec, Answered
  <2>2. answer' = "ok" => kept' \cup inTx' = kept \cup inTx \cup {seen}
    BY <1>3, <2>1 DEF Exec, Answered, Autocommit, ExecInTx, FailInTx, ImplicitCommit
  <2>3. seen - 1 \in Nat /\ seen = (seen - 1) + 1
    BY <1>0, <2>1
  <2>4. UpTo(Statements, seen) = UpTo(Statements, seen - 1) \cup {seen}
    BY <1>b, <2>1, <2>3
  <2>5. Statements' = Statements /\ Last' = Last
    BY <1>0, <1>3 DEF Exec
  <2>6. QED
    BY <2>1, <2>2, <2>4, <2>5
<1>4. CASE Begin
  BY <1>4 DEF Begin, Answered
<1>5. CASE Finish
  BY <1>5 DEF Finish, Answered, FinishWith, TakeSlot, Durable, Undone, CommitOps,
     RollbackOps
<1>6. CASE SkipStatement
  <2>1. /\ pc = "next" /\ pc' = "next" /\ seen' = seen + 1 /\ seen + 1 \in 1..Last
        /\ UNCHANGED <<mode, script, kept, inTx, active, outcome, skipping>>
        /\ active => IsControl(seen + 1)
    BY <1>6 DEF SkipStatement, Reading, Skips, NothingToDo
  <2>2. active => seen + 1 \notin Statements
    BY <2>1, <1>c DEF IsControl
  <2>3. Statements' = Statements /\ Last' = Last
    BY <1>0, <1>6 DEF SkipStatement
  <2>4. active => UpTo(Statements, seen + 1) = UpTo(Statements, seen)
    <3>1. seen \in Nat
      BY <1>0
    <3>2. QED
      BY <1>0, <2>2, <3>1, UpToNext
  <2>5. QED
    BY <2>1, <2>3, <2>4
<1>7. CASE TakeStatement
  BY <1>7 DEF TakeStatement, Takes, Reading, Skips, IsControl, Call
<1>8. CASE TakeControl
  BY <1>8 DEF TakeControl, Takes, NothingToDo, Reading, IsControl, Call, GuardBefore,
     Disarm, CommitOps, RollbackOps, Skips
<1>9. CASE NestedBegin
  BY SMTT(30), <1>9 DEF NestedBegin, Takes, Reading, OnFailure, AbortWith, RollBack, Call,
     Disarm, GoOn, CommitOps, RollbackOps, IsControl, Skips, InTransaction,
     OfferedBegin, OfferFor
<1>10. CASE ReadError
  BY <1>10 DEF ReadError, AbortWith, RollBack, Call, Disarm, CommitOps, RollbackOps
<1>11. CASE Begun
  BY <1>11 DEF Begun, AnsweredTo, GoOn
<1>12. CASE WrapFails
  BY <1>12 DEF WrapFails, AnsweredTo
<1>13. CASE BeginFails
  BY SMTT(30), <1>13 DEF BeginFails, AnsweredTo, OnFailure, AbortWith, RollBack, Call,
     Disarm, GoOn, CommitOps, RollbackOps, InTransaction, OfferedBegin, OfferFor
<1>14. CASE Succeeded
  BY <1>14 DEF Succeeded, AnsweredTo, GoOn, RestartUnsafe, CommitsImplicitly
<1>15. CASE StatementFails
  <2>1. /\ pc = "answered" /\ op = "exec" /\ answer = "err" /\ active
        /\ UNCHANGED <<kept, inTx, seen>> /\ OnFailure(0) /\ outcome # "done"
    BY <1>15 DEF StatementFails, AnsweredTo, OfferFor
  <2>2. ~active' /\ pc' = "call" /\ op' \in RollbackOps /\ outcome' # "done"
    BY <2>1 DEF OnFailure, AbortWith, RollBack, Call, Disarm
  <2>3. QED
    BY <2>1, <2>2
<1>16. CASE Committed
  BY <1>16 DEF Committed, AnsweredTo, GoOn, CountCommitted, CommitOps
<1>17. CASE CommitFails
  BY SMTT(30), <1>17 DEF CommitFails, AnsweredTo, OnFailure, AbortWith, RollBack, Call,
     Disarm, GoOn, CommitOps, RollbackOps
<1>18. CASE RolledBack
  BY <1>18 DEF RolledBack, AnsweredTo, GoOn, RollbackOps
<1>19. CASE RollbackFails
  BY SMTT(30), <1>19 DEF RollbackFails, AnsweredTo, OnFailure, AbortWith, RollBack, Call,
     Disarm, GoOn, CommitOps, RollbackOps, InTransaction, OfferedBegin, OfferFor
<1>20. CASE BatchRolledBack
  BY <1>20 DEF BatchRolledBack, GoOn, RollbackOps
<1>21. CASE CloseAtEnd
  BY <1>21 DEF CloseAtEnd, AtEnd, Call, Disarm, CommitOps, RollbackOps
<1>22. CASE Closed
  BY <1>22 DEF Closed, AnsweredTo, CountCommitted, CommitOps, RollbackOps
<1>23. CASE CloseFails
  BY SMTT(30), <1>23 DEF CloseFails, AnsweredTo, AbortWith, RollBack, Call, Disarm,
     CommitOps, RollbackOps
<1>24. CASE NothingOpen
  BY <1>24 DEF NothingOpen, AtEnd
<1>25. CASE Aborted
  BY <1>25 DEF Aborted, RollbackOps
<1>26. CASE Invalidate
  BY <1>26 DEF Invalidate
<1>27. CASE Cancel
  BY <1>27 DEF Cancel, LeftToTasks, CommitOps, RollbackOps
<1>28. CASE RollbackTask
  BY <1>28 DEF RollbackTask, TakeSlot
<1>29. CASE InvalTask
  BY <1>29 DEF InvalTask
<1>30. CASE ClickBegin
  BY <1>30 DEF ClickBegin, notUser
<1>31. CASE UserBegin
  BY <1>31 DEF UserBegin, SlotLocked, notUser
<1>32. CASE ClickFinish
  BY <1>32 DEF ClickFinish, notUser
<1>33. CASE UserFinish
  BY <1>33 DEF UserFinish, SlotLocked, TakeSlot, notUser
<1>34. CASE UserAnswer
  BY <1>34 DEF UserAnswer, notUser
<1>35. CASE UNCHANGED vars
  BY <1>35 DEF vars
<1>36. QED
  BY <1>1, <1>2, <1>3, <1>4, <1>5, <1>6, <1>7, <1>8, <1>9, <1>10, <1>11, <1>12, <1>13,
     <1>14, <1>15, <1>16, <1>17, <1>18, <1>19, <1>20, <1>21, <1>22, <1>23, <1>24, <1>25,
     <1>26, <1>27, <1>28, <1>29, <1>30, <1>31, <1>32, <1>33, <1>34, <1>35
     DEF Next, Server, Runner

\* Without implicit commits it is the last answer that makes it durable.
LEMMA WrapNothingStep ==
  ASSUME TypeOK, SlotInv, PlaceInv, WrapPlaces, WrapWhole, WrapWhole', WrapNothing,
         mode.wrap, [Next]_vars
  PROVE  WrapNothing'
<1>0. /\ mode \in AllModes /\ ~mode.cont
      /\ UNCHANGED jobVars => Statements' = Statements
  BY ScriptAssumption DEF TypeOK, DataTypes, AllModes, Statements, Last, jobVars
<1> USE <1>0 DEF SlotInv, WrapPlaces, WrapNothing, AtCall, Succeeds,
        CommitOps, RollbackOps, Ops,
        jobVars, txVars, factVars, callVars, posVars, guardVars, reportVars,
        taskVars, userVars
<1>1. CASE Start
  BY <1>1 DEF Start, Refused
<1>2. CASE Resume
  BY <1>2 DEF Resume, FreshGuard
<1>3. CASE Exec
  BY <1>3 DEF Exec, Answered, Autocommit, ExecInTx, FailInTx, ImplicitCommit,
     CommitsImplicitly
<1>4. CASE Begin
  BY <1>4 DEF Begin, Answered
<1>5. CASE Finish
  <2>1. CASE op = "eofCommit"
    <3>1. kept = {} \/ driver = "mysql"
      BY <1>5, <2>1 DEF Finish
    <3>2. kept' = kept \/ kept' = kept \cup inTx
      BY <1>5, <2>1 DEF Finish, FinishWith, Durable, Undone
    <3>3. kept \cup inTx = Statements
      BY <1>5, <2>1 DEF Finish, WrapWhole
    <3>4. /\ pc' = "answered" /\ txState' = "open" /\ UNCHANGED <<jobVars, active>>
          /\ ~active
      BY <1>5, <2>1 DEF Finish, FinishWith, TakeSlot, Answered
    <3>5. QED
      BY <3>1, <3>2, <3>3, <3>4
  <2>2. CASE op # "eofCommit"
    BY <1>5, <2>2 DEF Finish, Answered, FinishWith, TakeSlot, Undone
  <2>3. QED
    BY <2>1, <2>2
<1>6. CASE SkipStatement
  BY <1>6 DEF SkipStatement, Reading, Skips, NothingToDo, IsControl
<1>7. CASE TakeStatement
  BY <1>7 DEF TakeStatement, Takes, Reading, Skips, IsControl, Call
<1>8. CASE TakeControl
  BY <1>8 DEF TakeControl, Takes, NothingToDo, Reading, IsControl, Call, GuardBefore,
     Disarm, CommitOps, RollbackOps, Skips
<1>9. CASE NestedBegin
  BY SMTT(30), <1>9 DEF NestedBegin, Takes, Reading, OnFailure, AbortWith, RollBack, Call,
     Disarm, GoOn, CommitOps, RollbackOps, IsControl, Skips, InTransaction,
     OfferedBegin, OfferFor
<1>10. CASE ReadError
  BY <1>10 DEF ReadError, AbortWith, RollBack, Call, Disarm, CommitOps, RollbackOps
<1>11. CASE Begun
  BY <1>11 DEF Begun, AnsweredTo, GoOn
<1>12. CASE WrapFails
  BY <1>12 DEF WrapFails, AnsweredTo
<1>13. CASE BeginFails
  BY SMTT(30), <1>13 DEF BeginFails, AnsweredTo, OnFailure, AbortWith, RollBack, Call,
     Disarm, GoOn, CommitOps, RollbackOps, InTransaction, OfferedBegin, OfferFor
<1>14. CASE Succeeded
  BY <1>14 DEF Succeeded, AnsweredTo, GoOn, RestartUnsafe, CommitsImplicitly
<1>15. CASE StatementFails
  BY SMTT(30), <1>15 DEF StatementFails, AnsweredTo, OnFailure, AbortWith, RollBack, Call,
     Disarm, GoOn, CommitOps, RollbackOps, InTransaction, OfferedBegin, OfferFor
<1>16. CASE Committed
  BY <1>16 DEF Committed, AnsweredTo, GoOn, CountCommitted, CommitOps
<1>17. CASE CommitFails
  BY SMTT(30), <1>17 DEF CommitFails, AnsweredTo, OnFailure, AbortWith, RollBack, Call,
     Disarm, GoOn, CommitOps, RollbackOps
<1>18. CASE RolledBack
  BY <1>18 DEF RolledBack, AnsweredTo, GoOn, RollbackOps
<1>19. CASE RollbackFails
  BY SMTT(30), <1>19 DEF RollbackFails, AnsweredTo, OnFailure, AbortWith, RollBack, Call,
     Disarm, GoOn, CommitOps, RollbackOps, InTransaction, OfferedBegin, OfferFor
<1>20. CASE BatchRolledBack
  BY <1>20 DEF BatchRolledBack, GoOn, RollbackOps
<1>21. CASE CloseAtEnd
  BY <1>21 DEF CloseAtEnd, AtEnd, Call, Disarm, CommitOps, RollbackOps
<1>22. CASE Closed
  BY <1>22 DEF Closed, AnsweredTo, CountCommitted, CommitOps, RollbackOps
<1>23. CASE CloseFails
  BY SMTT(30), <1>23 DEF CloseFails, AnsweredTo, AbortWith, RollBack, Call, Disarm,
     CommitOps, RollbackOps
<1>24. CASE NothingOpen
  BY <1>24 DEF NothingOpen, AtEnd
<1>25. CASE Aborted
  BY <1>25 DEF Aborted, RollbackOps
<1>26. CASE Invalidate
  BY <1>26 DEF Invalidate
<1>27. CASE Cancel
  BY <1>27 DEF Cancel, LeftToTasks, CommitOps, RollbackOps
<1>28. CASE RollbackTask
  BY <1>28 DEF RollbackTask, TakeSlot
<1>29. CASE InvalTask
  BY <1>29 DEF InvalTask
<1>30. CASE ClickBegin
  BY <1>30 DEF ClickBegin, notUser
<1>31. CASE UserBegin
  BY <1>31 DEF UserBegin, SlotLocked, notUser
<1>32. CASE ClickFinish
  BY <1>32 DEF ClickFinish, notUser
<1>33. CASE UserFinish
  BY <1>33 DEF UserFinish, SlotLocked, TakeSlot, notUser
<1>34. CASE UserAnswer
  BY <1>34 DEF UserAnswer, notUser
<1>35. CASE UNCHANGED vars
  BY <1>35 DEF vars
<1>36. QED
  BY <1>1, <1>2, <1>3, <1>4, <1>5, <1>6, <1>7, <1>8, <1>9, <1>10, <1>11, <1>12, <1>13,
     <1>14, <1>15, <1>16, <1>17, <1>18, <1>19, <1>20, <1>21, <1>22, <1>23, <1>24, <1>25,
     <1>26, <1>27, <1>28, <1>29, <1>30, <1>31, <1>32, <1>33, <1>34, <1>35
     DEF Next, Server, Runner

LEMMA WrapStep ==
  ASSUME TypeOK, SlotInv, PlaceInv, WrapInv, [Next]_vars
  PROVE  WrapInv'
<1>1. mode' = mode
  BY JobKept DEF jobVars
<1>2. QED
  BY <1>1, WrapPlacesStep, WrapWholeStep, WrapNothingStep DEF WrapInv

-----------------------------------------------------------------------------
(* The count of committed statements.                                       *)
LEMMA TallyInit == Init => TallyInv
<1>1. Cardinality({}) = 0
  BY FS_EmptySet
<1>2. QED
  BY <1>1 DEF Init, TallyInv, TallyFlags, TallyCounts, AtCall, Succeeds

LEMMA TallyFlagsStep ==
  ASSUME TypeOK, SlotInv, ~commitErr => TallyFlags, [Next]_vars, ~commitErr'
  PROVE  TallyFlags'
<1> USE DEF TypeOK, DataTypes, FlagTypes, StepTypes, SlotInv, TallyFlags, AtCall,
        CommitOps, RollbackOps, Ops,
        jobVars, txVars, factVars, callVars, posVars, guardVars, reportVars,
        taskVars, userVars
<1>1. CASE Start
  BY <1>1 DEF Start, Refused
<1>2. CASE Resume
  BY <1>2 DEF Resume, FreshGuard
<1>3. CASE Exec
  BY <1>3 DEF Exec, Answered, Autocommit, ExecInTx, FailInTx, ImplicitCommit,
     CommitsImplicitly
<1>4. CASE Begin
  BY <1>4 DEF Begin, Answered
<1>5. CASE Finish
  BY <1>5 DEF Finish, Answered, FinishWith, TakeSlot, Durable, Undone, CommitOps,
     RollbackOps
<1>6. CASE SkipStatement
  BY <1>6 DEF SkipStatement, Reading, Skips, NothingToDo, IsControl
<1>7. CASE TakeStatement
  BY <1>7 DEF TakeStatement, Takes, Reading, Skips, IsControl, Call
<1>8. CASE TakeControl
  BY <1>8 DEF TakeControl, Takes, NothingToDo, Reading, IsControl, Call, GuardBefore,
     Disarm, CommitOps, RollbackOps, Skips
<1>9. CASE NestedBegin
  <2>1. /\ pc = "next" /\ active /\ OnFailure(OfferFor(seen + 1))
        /\ UNCHANGED <<external, committed, commitErr, kept, inTx>>
    BY <1>9 DEF NestedBegin, Takes, Reading
  <2>2. CASE pc' = "call" /\ op' \in RollbackOps /\ ~active' /\ pending' = 0
    BY <2>1, <2>2
  <2>3. CASE pc' = "next" /\ UNCHANGED <<active, pending>>
    BY <2>1, <2>3
  <2>4. QED
    BY <2>1, <2>2, <2>3 DEF OnFailure, AbortWith, RollBack, Call, Disarm, GoOn
<1>10. CASE ReadError
  BY <1>10 DEF ReadError, AbortWith, RollBack, Call, Disarm, CommitOps, RollbackOps
<1>11. CASE Begun
  BY <1>11 DEF Begun, AnsweredTo, GoOn
<1>12. CASE WrapFails
  BY <1>12 DEF WrapFails, AnsweredTo
<1>13. CASE BeginFails
  BY SMTT(30), <1>13 DEF BeginFails, AnsweredTo, OnFailure, AbortWith, RollBack, Call,
     Disarm, GoOn, CommitOps, RollbackOps, InTransaction, OfferedBegin, OfferFor
<1>14. CASE Succeeded
  BY <1>14 DEF Succeeded, AnsweredTo, GoOn, RestartUnsafe, CommitsImplicitly
<1>15. CASE StatementFails
  BY SMTT(30), <1>15 DEF StatementFails, AnsweredTo, OnFailure, AbortWith, RollBack, Call,
     Disarm, GoOn, CommitOps, RollbackOps, InTransaction, OfferedBegin, OfferFor
<1>16. CASE Committed
  BY <1>16 DEF Committed, AnsweredTo, GoOn, CountCommitted, CommitOps
<1>17. CASE CommitFails
  BY SMTT(30), <1>17 DEF CommitFails, AnsweredTo, OnFailure, AbortWith, RollBack, Call,
     Disarm, GoOn, CommitOps, RollbackOps
<1>18. CASE RolledBack
  BY <1>18 DEF RolledBack, AnsweredTo, GoOn, RollbackOps
<1>19. CASE RollbackFails
  BY SMTT(30), <1>19 DEF RollbackFails, AnsweredTo, OnFailure, AbortWith, RollBack, Call,
     Disarm, GoOn, CommitOps, RollbackOps, InTransaction, OfferedBegin, OfferFor
<1>20. CASE BatchRolledBack
  BY <1>20 DEF BatchRolledBack, GoOn, RollbackOps
<1>21. CASE CloseAtEnd
  BY <1>21 DEF CloseAtEnd, AtEnd, Call, Disarm, CommitOps, RollbackOps
<1>22. CASE Closed
  BY <1>22 DEF Closed, AnsweredTo, CountCommitted, CommitOps, RollbackOps
<1>23. CASE CloseFails
  <2>1. /\ pc = "answered" /\ op = "eofRollback" /\ ~commitErr /\ AbortWith(0)
        /\ UNCHANGED external
    BY <1>23 DEF CloseFails, AnsweredTo
  <2>2. ~active /\ pending = 0 /\ ~external
    BY <2>1
  <2>3. pc' = "invalidate" /\ UNCHANGED <<pending, active>>
    BY <2>1, <2>2 DEF AbortWith, RollBack
  <2>4. QED
    BY <2>1, <2>2, <2>3
<1>24. CASE NothingOpen
  BY <1>24 DEF NothingOpen, AtEnd
<1>25. CASE Aborted
  BY <1>25 DEF Aborted, RollbackOps
<1>26. CASE Invalidate
  BY <1>26 DEF Invalidate
<1>27. CASE Cancel
  BY <1>27 DEF Cancel, LeftToTasks, CommitOps, RollbackOps
<1>28. CASE RollbackTask
  BY <1>28 DEF RollbackTask, TakeSlot
<1>29. CASE InvalTask
  BY <1>29 DEF InvalTask
<1>30. CASE ClickBegin
  BY <1>30 DEF ClickBegin, notUser
<1>31. CASE UserBegin
  BY <1>31 DEF UserBegin, SlotLocked, notUser
<1>32. CASE ClickFinish
  BY <1>32 DEF ClickFinish, notUser
<1>33. CASE UserFinish
  BY <1>33 DEF UserFinish, SlotLocked, TakeSlot, notUser
<1>34. CASE UserAnswer
  BY <1>34 DEF UserAnswer, notUser
<1>35. CASE UNCHANGED vars
  BY <1>35 DEF vars
<1>36. QED
  BY <1>1, <1>2, <1>3, <1>4, <1>5, <1>6, <1>7, <1>8, <1>9, <1>10, <1>11, <1>12, <1>13,
     <1>14, <1>15, <1>16, <1>17, <1>18, <1>19, <1>20, <1>21, <1>22, <1>23, <1>24, <1>25,
     <1>26, <1>27, <1>28, <1>29, <1>30, <1>31, <1>32, <1>33, <1>34, <1>35
     DEF Next, Server, Runner

\* A set of statements counts to a number, and one more to the next.
LEMMA CountStatements ==
  ASSUME NEW m \in Nat, NEW S, S \subseteq 1..m
  PROVE  /\ Cardinality(S) \in Nat
         /\ \A x : x \notin S => Cardinality(S \cup {x}) = Cardinality(S) + 1
<1>1. IsFiniteSet(1..m)
  BY FS_Interval
<1>2. IsFiniteSet(S)
  BY <1>1, FS_Subset
<1>3. QED
  BY <1>2, FS_CardinalityType, FS_AddElement

LEMMA CountMore ==
  ASSUME NEW m \in Nat, NEW S, NEW T, S \subseteq T, T \subseteq 1..m
  PROVE  Cardinality(S) <= Cardinality(T)
<1>1. IsFiniteSet(1..m)
  BY FS_Interval
<1>2. IsFiniteSet(T)
  BY <1>1, FS_Subset
<1>3. QED
  BY <1>2, FS_Subset

LEMMA TallyCountsStep ==
  ASSUME TypeOK, SlotInv, PlaceInv, ~commitErr => TallyFlags /\ TallyCounts,
         [Next]_vars, ~commitErr'
  PROVE  TallyCounts'
<1>0. /\ seen \in Nat /\ Last \in Nat
      /\ kept \subseteq 1..seen /\ inTx \subseteq 1..seen /\ kept \cup inTx \subseteq 1..seen
  BY LastInNat DEF TypeOK, DataTypes
<1>a. /\ Cardinality({}) = 0 /\ Cardinality(kept) \in Nat
      /\ Cardinality(kept \cup inTx) \in Nat
      /\ Cardinality(kept) <= Cardinality(kept \cup inTx)
  BY <1>0, CountStatements, CountMore, FS_EmptySet
<1> USE <1>0, <1>a DEF TypeOK, DataTypes, FlagTypes, StepTypes, SlotInv, TallyFlags,
        TallyCounts, AtCall, Succeeds, CommitOps, RollbackOps, Ops,
        jobVars, txVars, factVars, callVars, posVars, guardVars, reportVars,
        taskVars, userVars
<1>1. CASE Start
  BY <1>1 DEF Start, Refused
<1>2. CASE Resume
  BY <1>2 DEF Resume, FreshGuard
<1>3. CASE Exec
  <2>1. /\ pc = "call" /\ op = "exec" /\ pc' = "answered" /\ op' = "exec"
        /\ UNCHANGED <<active, external, committed, pending, seen, commitErr>>
        /\ ~commitErr /\ seen \notin kept \cup inTx
    BY <1>3 DEF Exec, Answered, PlaceInv
  <2>2. /\ Cardinality(kept \cup {seen}) = Cardinality(kept) + 1
        /\ Cardinality(kept \cup inTx \cup {seen}) = Cardinality(kept \cup inTx) + 1
    BY <1>0, <2>1, CountStatements
  <2>3. CASE UNCHANGED <<kept, inTx>> /\ answer' = "err"
    BY <2>1, <2>3
  <2>4. CASE external /\ UNCHANGED <<kept, inTx>>
    BY <2>1, <2>4
  <2>5. CASE kept' = kept \cup {seen} /\ inTx' = inTx
    <3>1. /\ kept' \cup inTx' = kept \cup inTx \cup {seen}
          /\ Cardinality(kept') = Cardinality(kept) + 1
      BY <2>2, <2>5
    <3>2. Cardinality(kept' \cup inTx') = Cardinality(kept \cup inTx) + 1
      BY <2>2, <3>1
    <3>3. CASE active
      BY <2>1, <3>1, <3>2, <3>3
    <3>4. CASE ~active
      BY <2>1, <3>1, <3>4
    <3>5. QED
      BY <3>3, <3>4
  <2>6. CASE kept' = kept \cup inTx \cup {seen} /\ inTx' = {} /\ active
    <3>1. kept' \cup inTx' = kept \cup inTx \cup {seen}
      BY <2>6
    <3>2. QED
      BY <2>1, <2>2, <2>6, <3>1
  <2>7. CASE kept' = kept /\ inTx' = inTx \cup {seen} /\ active
    <3>1. kept' \cup inTx' = kept \cup inTx \cup {seen}
      BY <2>7
    <3>2. QED
      BY <2>1, <2>2, <2>7, <3>1
  <2>8. CASE kept' = kept \cup inTx /\ inTx' = {} /\ active /\ answer' = "err"
    <3>1. kept' \cup inTx' = kept \cup inTx
      BY <2>8
    <3>2. QED
      BY <2>1, <2>8, <3>1
  <2>9. QED
    BY <1>3, <2>3, <2>4, <2>5, <2>6, <2>7, <2>8
    DEF Exec, Answered, Autocommit, ExecInTx, FailInTx, ImplicitCommit
<1>4. CASE Begin
  BY <1>4 DEF Begin, Answered
<1>5. CASE Finish
  <2>1. /\ pc = "call" /\ pc' = "answered" /\ op' = op /\ ~active /\ inTx' = {}
        /\ UNCHANGED <<active, external, committed, pending, seen, commitErr>>
        /\ ~commitErr /\ op \in CommitOps \cup RollbackOps
    BY <1>5 DEF Finish, Answered, FinishWith, TakeSlot
  <2>2. CASE op \in CommitOps /\ kept' = kept \cup inTx
    BY <2>1, <2>2
  <2>3. CASE kept' = kept /\ (op \in RollbackOps \/ answer' = "err")
    BY <2>1, <2>3
  <2>4. QED
    BY <1>5, <2>1, <2>2, <2>3 DEF Finish, Answered, FinishWith, Durable, Undone
<1>6. CASE SkipStatement
  BY <1>6 DEF SkipStatement, Reading, Skips, NothingToDo, IsControl
<1>7. CASE TakeStatement
  BY <1>7 DEF TakeStatement, Takes, Reading, Skips, IsControl, Call
<1>8. CASE TakeControl
  BY <1>8 DEF TakeControl, Takes, NothingToDo, Reading, IsControl, Call, GuardBefore,
     Disarm, CommitOps, RollbackOps, Skips
<1>9. CASE NestedBegin
  <2>1. /\ pc = "next" /\ active /\ OnFailure(OfferFor(seen + 1))
        /\ UNCHANGED <<external, committed, commitErr, kept, inTx>>
    BY <1>9 DEF NestedBegin, Takes, Reading
  <2>2. CASE pc' = "call" /\ op' \in RollbackOps /\ ~active' /\ pending' = 0
    BY <2>1, <2>2
  <2>3. CASE pc' = "next" /\ UNCHANGED <<active, pending>>
    BY <2>1, <2>3
  <2>4. QED
    BY <2>1, <2>2, <2>3 DEF OnFailure, AbortWith, RollBack, Call, Disarm, GoOn
<1>10. CASE ReadError
  BY <1>10 DEF ReadError, AbortWith, RollBack, Call, Disarm, CommitOps, RollbackOps
<1>11. CASE Begun
  BY <1>11 DEF Begun, AnsweredTo, GoOn
<1>12. CASE WrapFails
  BY <1>12 DEF WrapFails, AnsweredTo
<1>13. CASE BeginFails
  BY SMTT(30), <1>13 DEF BeginFails, AnsweredTo, OnFailure, AbortWith, RollBack, Call,
     Disarm, GoOn, CommitOps, RollbackOps, InTransaction, OfferedBegin, OfferFor
<1>14. CASE Succeeded
  BY <1>14 DEF Succeeded, AnsweredTo, GoOn, RestartUnsafe, CommitsImplicitly
<1>15. CASE StatementFails
  BY SMTT(30), <1>15 DEF StatementFails, AnsweredTo, OnFailure, AbortWith, RollBack, Call,
     Disarm, GoOn, CommitOps, RollbackOps, InTransaction, OfferedBegin, OfferFor
<1>16. CASE Committed
  BY <1>16 DEF Committed, AnsweredTo, GoOn, CountCommitted, CommitOps
<1>17. CASE CommitFails
  BY SMTT(30), <1>17 DEF CommitFails, AnsweredTo, OnFailure, AbortWith, RollBack, Call,
     Disarm, GoOn, CommitOps, RollbackOps
<1>18. CASE RolledBack
  BY <1>18 DEF RolledBack, AnsweredTo, GoOn, RollbackOps
<1>19. CASE RollbackFails
  BY SMTT(30), <1>19 DEF RollbackFails, AnsweredTo, OnFailure, AbortWith, RollBack, Call,
     Disarm, GoOn, CommitOps, RollbackOps, InTransaction, OfferedBegin, OfferFor
<1>20. CASE BatchRolledBack
  BY <1>20 DEF BatchRolledBack, GoOn, RollbackOps
<1>21. CASE CloseAtEnd
  BY <1>21 DEF CloseAtEnd, AtEnd, Call, Disarm, CommitOps, RollbackOps
<1>22. CASE Closed
  BY <1>22 DEF Closed, AnsweredTo, CountCommitted, CommitOps, RollbackOps
<1>23. CASE CloseFails
  BY SMTT(30), <1>23 DEF CloseFails, AnsweredTo, AbortWith, RollBack, Call, Disarm,
     CommitOps, RollbackOps
<1>24. CASE NothingOpen
  BY <1>24 DEF NothingOpen, AtEnd
<1>25. CASE Aborted
  BY <1>25 DEF Aborted, RollbackOps
<1>26. CASE Invalidate
  BY <1>26 DEF Invalidate
<1>27. CASE Cancel
  BY <1>27 DEF Cancel, LeftToTasks, CommitOps, RollbackOps
<1>28. CASE RollbackTask
  BY <1>28 DEF RollbackTask, TakeSlot
<1>29. CASE InvalTask
  BY <1>29 DEF InvalTask
<1>30. CASE ClickBegin
  BY <1>30 DEF ClickBegin, notUser
<1>31. CASE UserBegin
  BY <1>31 DEF UserBegin, SlotLocked, notUser
<1>32. CASE ClickFinish
  BY <1>32 DEF ClickFinish, notUser
<1>33. CASE UserFinish
  BY <1>33 DEF UserFinish, SlotLocked, TakeSlot, notUser
<1>34. CASE UserAnswer
  BY <1>34 DEF UserAnswer, notUser
<1>35. CASE UNCHANGED vars
  BY <1>35 DEF vars
<1>36. QED
  BY <1>1, <1>2, <1>3, <1>4, <1>5, <1>6, <1>7, <1>8, <1>9, <1>10, <1>11, <1>12, <1>13,
     <1>14, <1>15, <1>16, <1>17, <1>18, <1>19, <1>20, <1>21, <1>22, <1>23, <1>24, <1>25,
     <1>26, <1>27, <1>28, <1>29, <1>30, <1>31, <1>32, <1>33, <1>34, <1>35
     DEF Next, Server, Runner

LEMMA TallyStep ==
  ASSUME TypeOK, SlotInv, PlaceInv, TallyInv, [Next]_vars
  PROVE  TallyInv'
BY TallyFlagsStep, TallyCountsStep DEF TallyInv

-----------------------------------------------------------------------------
(* The undisturbed run, statement by statement.                             *)
LEMMA AfterBegin ==
  ASSUME NEW s \in RefStates, NEW i, script[i] = "begin"
  PROVE  /\ After(s, i) \in RefStates /\ After(s, i).open
         /\ After(s, i).undecided = s.undecided /\ After(s, i).durable = s.durable
BY DEF After, RefStates

LEMMA AfterCommit ==
  ASSUME NEW s \in RefStates, NEW i, script[i] = "commit"
  PROVE  /\ After(s, i) \in RefStates /\ ~After(s, i).open /\ After(s, i).undecided = {}
         /\ After(s, i).durable = s.durable \cup s.undecided
BY DEF After, RefStates

LEMMA AfterRollback ==
  ASSUME NEW s \in RefStates, NEW i, script[i] = "rollback"
  PROVE  /\ After(s, i) \in RefStates /\ ~After(s, i).open /\ After(s, i).undecided = {}
         /\ After(s, i).durable = s.durable
BY DEF After, RefStates

LEMMA AfterInside ==
  ASSUME NEW s \in RefStates, NEW i \in Nat, script[i] \notin {"begin", "commit", "rollback"},
         s.open, ~CommitsImplicitly(i)
  PROVE  /\ After(s, i) \in RefStates /\ After(s, i).open
         /\ After(s, i).undecided = s.undecided \cup {i}
         /\ After(s, i).durable = s.durable
BY DEF After, RefStates

LEMMA AfterOutside ==
  ASSUME NEW s \in RefStates, NEW i \in Nat, script[i] \notin {"begin", "commit", "rollback"},
         ~s.open \/ CommitsImplicitly(i)
  PROVE  /\ After(s, i) \in RefStates /\ ~After(s, i).open /\ After(s, i).undecided = {}
         /\ After(s, i).durable = s.durable \cup s.undecided \cup {i}
BY DEF After, RefStates

LEMMA AfterAny ==
  ASSUME NEW s \in RefStates, NEW i \in Nat
  PROVE  After(s, i) \in RefStates /\ s.durable \subseteq After(s, i).durable
BY AfterBegin, AfterCommit, AfterRollback, AfterInside, AfterOutside

\* The numbers are well-ordered: induction without an operator as parameter.
Before == {p \in Nat \X Nat : p[1] < p[2]}

LEMMA BeforeWellFounded == IsWellFoundedOn(Before, Nat)
BY NatLessThanWellFounded DEF OpToRel, Before

LEMMA Induct ==
  ASSUME NEW S, 0 \in S, \A n \in Nat : n \in S => n + 1 \in S
  PROVE  Nat \subseteq S
<1> DEFINE R == Nat \ S
<1> SUFFICES ASSUME R # {}
             PROVE  FALSE
  OBVIOUS
<1>1. PICK x \in R : \A y \in R : <<y, x>> \notin Before
  BY BeforeWellFounded, WFMin
<1>2. x \in Nat /\ x # 0
  OBVIOUS
<1>3. x - 1 \in Nat /\ <<x - 1, x>> \in Nat \X Nat /\ <<x - 1, x>>[1] < <<x - 1, x>>[2]
  BY <1>2
<1>4. x - 1 \in S
  BY <1>1, <1>3 DEF Before
<1>5. x \in S
  BY <1>2, <1>3, <1>4
<1>6. QED
  BY <1>5

\* There is a trace, there is no other, and what is durable stays so.
LEMMA TraceExists ==
  ASSUME script \in Scripts
  PROVE  \E f : IsTrace(f, Last)
<1>0. Last \in Nat
  BY LastInNat
<1> DEFINE Has(n) == \E f : IsTrace(f, n)
           S == {n \in Nat : Has(n)}
<1>1. Has(0)
  <2> DEFINE f == [k \in 0..0 |-> Nothing]
  <2>1. f \in [0..0 -> RefStates] /\ f[0] = Nothing
    BY DEF Nothing, RefStates
  <2>2. IsTrace(f, 0)
    BY <2>1 DEF IsTrace
  <2>3. QED
    BY <2>2
<1>2. ASSUME NEW n \in Nat, Has(n)
      PROVE  Has(n + 1)
  <2>1. PICK f : IsTrace(f, n)
    BY <1>2
  <2> DEFINE next == After(f[n], n + 1)
             g == [k \in 0..(n + 1) |-> IF k \in 0..n THEN f[k] ELSE next]
  <2>2. f[n] \in RefStates
    BY <2>1 DEF IsTrace
  <2>3. next \in RefStates
    BY <2>2, AfterAny
  <2>4. g \in [0..(n + 1) -> RefStates]
    <3> HIDE DEF next
    <3>1. ASSUME NEW k \in 0..(n + 1)
          PROVE  g[k] \in RefStates
      BY <2>1, <2>3 DEF IsTrace
    <3>2. QED
      BY <3>1
  <2>5. \A k \in 0..n : g[k] = f[k]
    OBVIOUS
  <2>6. g[n + 1] = next
    OBVIOUS
  <2> HIDE DEF g
  <2>7. g[0] = Nothing
    BY <2>1, <2>5 DEF IsTrace
  <2>8. ASSUME NEW k \in 1..(n + 1)
        PROVE  g[k] = After(g[k - 1], k)
    <3>1. CASE k = n + 1
      <4>1. k - 1 = n /\ g[n] = f[n]
        BY <2>5, <3>1
      <4>2. QED
        BY <2>6, <3>1, <4>1
    <3>2. CASE k # n + 1
      <4>1. k \in 1..n /\ k \in 0..n /\ k - 1 \in 0..n
        BY <3>2
      <4>2. g[k] = f[k] /\ g[k - 1] = f[k - 1]
        BY <2>5, <4>1
      <4>3. f[k] = After(f[k - 1], k)
        BY <2>1, <4>1 DEF IsTrace
      <4>4. QED
        BY <4>2, <4>3
    <3>3. QED
      BY <3>1, <3>2
  <2>9. IsTrace(g, n + 1)
    BY <2>4, <2>7, <2>8 DEF IsTrace
  <2>10. QED
    BY <2>9
<1> HIDE DEF Has
<1>3. 0 \in S /\ \A n \in Nat : n \in S => n + 1 \in S
  BY <1>1, <1>2
<1> HIDE DEF S
<1>4. Nat \subseteq S
  BY <1>3, Induct
<1>5. Last \in S
  BY <1>0, <1>4
<1>6. QED
  BY <1>5 DEF S, Has

LEMMA TraceUnique ==
  ASSUME script \in Scripts, NEW f, IsTrace(f, Last), NEW g,
         g = [n \in 0..Last |-> IF n = 0 THEN Nothing ELSE After(g[n - 1], n)]
  PROVE  g[Last] = f[Last]
<1>0. Last \in Nat
  BY LastInNat
<1> DEFINE S == {n \in Nat : n <= Last => g[n] = f[n]}
<1>1. 0 \in S
  <2>1. 0 \in 0..Last
    BY <1>0
  <2>2. g[0] = Nothing
    BY <2>1
  <2>3. QED
    BY <2>2 DEF IsTrace
<1>2. ASSUME NEW n \in Nat, n \in S
      PROVE  n + 1 \in S
  <2> SUFFICES ASSUME n + 1 <= Last
               PROVE  g[n + 1] = f[n + 1]
    OBVIOUS
  <2>1. /\ n + 1 \in 1..Last /\ n + 1 \in 0..Last /\ n + 1 # 0 /\ (n + 1) - 1 = n
        /\ n <= Last
    BY <1>0
  <2>2. g[n] = f[n]
    BY <1>2, <2>1
  <2>3. f[n + 1] = After(f[n], n + 1)
    BY <2>1 DEF IsTrace
  <2>4. g[n + 1] = After(g[n], n + 1)
    BY <2>1
  <2>5. QED
    BY <2>2, <2>3, <2>4
<1> HIDE DEF S
<1>3. Nat \subseteq S
  BY <1>1, <1>2, Induct
<1>4. Last \in S
  BY <1>0, <1>3
<1>5. QED
  BY <1>0, <1>4 DEF S

LEMMA TraceGrows ==
  ASSUME script \in Scripts, NEW f, IsTrace(f, Last), NEW k \in 0..Last
  PROVE  f[k].durable \subseteq f[Last].durable
<1>0. Last \in Nat
  BY LastInNat
<1> DEFINE S == {n \in Nat : k + n <= Last => f[k].durable \subseteq f[k + n].durable}
<1>1. 0 \in S
  BY <1>0
<1>2. ASSUME NEW n \in Nat, n \in S
      PROVE  n + 1 \in S
  <2> SUFFICES ASSUME k + (n + 1) <= Last
               PROVE  f[k].durable \subseteq f[k + (n + 1)].durable
    OBVIOUS
  <2> DEFINE m == k + n
  <2>1. /\ m \in Nat /\ m <= Last /\ m \in 0..Last /\ m + 1 \in 1..Last /\ (m + 1) - 1 = m
        /\ k + (n + 1) = m + 1
    BY <1>0
  <2>2. f[k].durable \subseteq f[m].durable
    BY <1>2, <2>1
  <2> HIDE DEF m
  <2>3. f[m] \in RefStates /\ f[m + 1] = After(f[m], m + 1)
    BY <2>1 DEF IsTrace
  <2>4. f[m].durable \subseteq f[m + 1].durable
    BY <2>1, <2>3, AfterAny
  <2>5. QED
    BY <2>1, <2>2, <2>4
<1> HIDE DEF S
<1>3. Nat \subseteq S
  BY <1>1, <1>2, Induct
<1>4. Last - k \in Nat /\ k + (Last - k) = Last
  BY <1>0
<1>5. Last - k \in S
  BY <1>3, <1>4
<1>6. QED
  BY <1>0, <1>4, <1>5 DEF S

\* The reference is where the trace ends.
LEMMA ReferenceIsTrace ==
  ASSUME script \in Scripts, NEW f, IsTrace(f, Last), ~mode.wrap
  PROVE  Reference = AtEndOf(f)
<1> DEFINE g == CHOOSE g : g = [n \in 0..Last |->
                  IF n = 0 THEN Nothing ELSE After(g[n - 1], n)]
<1>1. f = [n \in 0..Last |-> IF n = 0 THEN Nothing ELSE After(f[n - 1], n)]
  <2>1. Last \in Nat
    BY LastInNat
  <2>2. \A n \in 0..Last : f[n] = IF n = 0 THEN Nothing ELSE After(f[n - 1], n)
    BY <2>1 DEF IsTrace
  <2>3. f = [n \in 0..Last |-> f[n]]
    BY DEF IsTrace
  <2>4. QED
    BY <2>2, <2>3
<1>2. g = [n \in 0..Last |-> IF n = 0 THEN Nothing ELSE After(g[n - 1], n)]
  BY <1>1
<1>3. Reference = IF mode.unclosed = "commit" THEN g[Last].durable \cup g[Last].undecided
                                              ELSE g[Last].durable
  BY DEF Reference, Nothing
<1> HIDE DEF g
<1>4. g[Last] = f[Last]
  BY <1>2, TraceUnique
<1>5. QED
  BY <1>3, <1>4 DEF AtEndOf

-----------------------------------------------------------------------------
(* A resumed script beside the undisturbed one.                             *)
LEMMA RefInit ==
  ASSUME Init, NEW f, IsTrace(f, Last)
  PROVE  RefInv(f)
<1>1. script \in Scripts
  BY DEF Init
<1>2. Last \in Nat
  BY <1>1, LastInNat
<1>3. f[0] = Nothing
  BY DEF IsTrace
<1>4. Restart(f, 1)
  BY <1>2, <1>3 DEF Restart, Nothing
<1>5. RefPlaces(f)
  BY <1>4 DEF Init, RefPlaces
<1>6. RefFlow
  BY DEF Init, RefFlow, AtCall
<1>7. RefLevel(f)
  BY DEF Init, RefLevel, AtCall
<1>8. QED
  BY <1>5, <1>6, <1>7 DEF RefInv

\* Where such a run is.
LEMMA RefFlowStep ==
  ASSUME TypeOK, SlotInv, PlaceInv, RefFlow, ~mode.cont, ~mode.wrap, [Next]_vars
  PROVE  RefFlow'
<1>0. /\ mode \in AllModes /\ Last \in Nat
      /\ UNCHANGED jobVars => Last' = Last
  BY ScriptAssumption, LastInNat DEF TypeOK, DataTypes, jobVars, Last
<1>a. \A i \in 1..Last : script[i] \in Kinds
  BY KindOf DEF TypeOK, DataTypes
<1>b. mode.unclosed \in {"rollback", "commit"} /\ mode.batch \in BOOLEAN
  BY <1>0 DEF AllModes
<1> USE <1>0, <1>a, <1>b DEF TypeOK, DataTypes, FlagTypes, StepTypes, SlotInv, PlaceInv,
        RefFlow, Own, AtCall, Succeeds, Between, Kinds, CommitOps, RollbackOps, Ops,
        jobVars, txVars, factVars, callVars, posVars, guardVars, reportVars,
        taskVars, userVars
<1>1. CASE Start
  BY <1>1 DEF Start, Refused
<1>2. CASE Resume
  BY <1>2 DEF Resume, FreshGuard
<1>3. CASE Exec
  <2>1. /\ pc = "call" /\ op = "exec" /\ pc' = "answered" /\ op' = "exec"
        /\ UNCHANGED <<jobVars, posVars, guardVars, reportVars>> /\ startAt <= seen
    BY <1>3 DEF Exec, Answered
  <2>2. txState' = "ended" => inTx' = {}
    <3>1. CASE UNCHANGED <<txState, inTx>>
      BY <3>1
    <3>2. CASE inTx' = {}
      BY <3>2
    <3>3. CASE txState' = "aborted"
      BY <3>3
    <3>4. CASE txState # "ended" /\ txState' = txState
      BY <3>4
    <3>5. QED
      BY <1>3, <3>1, <3>2, <3>3, <3>4
      DEF Exec, Autocommit, ExecInTx, FailInTx, ImplicitCommit
  <2>3. QED
    BY <2>1, <2>2
<1>4. CASE Begin
  BY <1>4 DEF Begin, Answered
<1>5. CASE Finish
  BY <1>5 DEF Finish, Answered, FinishWith, TakeSlot, Durable, Undone, CommitOps,
     RollbackOps
<1>6. CASE SkipStatement
  BY <1>6 DEF SkipStatement, Reading, Skips, NothingToDo, IsControl
<1>7. CASE TakeStatement
  BY <1>7 DEF TakeStatement, Takes, Reading, Skips, IsControl, Call
<1>8. CASE TakeControl
  BY <1>8 DEF TakeControl, Takes, NothingToDo, Reading, IsControl, Call, GuardBefore,
     Disarm, CommitOps, RollbackOps, Skips
<1>9. CASE NestedBegin
  <2>1. /\ pc = "next" /\ active /\ OnFailure(OfferFor(seen + 1)) /\ startAt <= seen + 1
        /\ UNCHANGED <<jobVars, txVars, kept, startAt, external, txBegin>>
        /\ ~external /\ outcome # "done" /\ seen' = seen + 1
    BY <1>9 DEF NestedBegin, Takes, Reading, Skips
  <2>2. CASE mode.batch
    <3>1. /\ pc' = "call" /\ op' = "batchRollback" /\ skipping' /\ ~active'
          /\ UNCHANGED <<offer, outcome>>
      BY <2>1, <2>2 DEF OnFailure, RollBack, Call, Disarm
    <3>2. QED
      BY <2>1, <2>2, <3>1
  <2>3. CASE ~mode.batch
    <3>1. pc' = "call" /\ op' = "abortRollback" /\ outcome' = "failed" /\ ~active'
          /\ UNCHANGED skipping
      BY <2>1, <2>3 DEF OnFailure, AbortWith, RollBack, Call, Disarm
    <3>2. QED
      BY <2>1, <2>3, <3>1
  <2>4. QED
    BY <2>2, <2>3
<1>10. CASE ReadError
  BY <1>10 DEF ReadError, AbortWith, RollBack, Call, Disarm, CommitOps, RollbackOps
<1>11. CASE Begun
  BY <1>11 DEF Begun, AnsweredTo, GoOn
<1>12. CASE WrapFails
  BY <1>12 DEF WrapFails, AnsweredTo
<1>13. CASE BeginFails
  BY SMTT(30), <1>13 DEF BeginFails, AnsweredTo, OnFailure, AbortWith, RollBack, Call,
     Disarm, GoOn, CommitOps, RollbackOps, InTransaction, OfferedBegin, OfferFor
<1>14. CASE Succeeded
  BY <1>14 DEF Succeeded, AnsweredTo, GoOn, RestartUnsafe, CommitsImplicitly
<1>15. CASE StatementFails
  BY SMTT(30), <1>15 DEF StatementFails, AnsweredTo, OnFailure, AbortWith, RollBack, Call,
     Disarm, GoOn, CommitOps, RollbackOps, InTransaction, OfferedBegin, OfferFor
<1>16. CASE Committed
  BY <1>16 DEF Committed, AnsweredTo, GoOn, CountCommitted, CommitOps
<1>17. CASE CommitFails
  BY SMTT(30), <1>17 DEF CommitFails, AnsweredTo, OnFailure, AbortWith, RollBack, Call,
     Disarm, GoOn, CommitOps, RollbackOps
<1>18. CASE RolledBack
  BY <1>18 DEF RolledBack, AnsweredTo, GoOn, RollbackOps
<1>19. CASE RollbackFails
  BY SMTT(30), <1>19 DEF RollbackFails, AnsweredTo, OnFailure, AbortWith, RollBack, Call,
     Disarm, GoOn, CommitOps, RollbackOps, InTransaction, OfferedBegin, OfferFor
<1>20. CASE BatchRolledBack
  BY <1>20 DEF BatchRolledBack, GoOn, RollbackOps
<1>21. CASE CloseAtEnd
  BY <1>21 DEF CloseAtEnd, AtEnd, Call, Disarm, CommitOps, RollbackOps
<1>22. CASE Closed
  BY <1>22 DEF Closed, AnsweredTo, CountCommitted, CommitOps, RollbackOps
<1>23. CASE CloseFails
  BY SMTT(30), <1>23 DEF CloseFails, AnsweredTo, AbortWith, RollBack, Call, Disarm,
     CommitOps, RollbackOps
<1>24. CASE NothingOpen
  BY <1>24 DEF NothingOpen, AtEnd
<1>25. CASE Aborted
  BY <1>25 DEF Aborted, RollbackOps
<1>26. CASE Invalidate
  BY <1>26 DEF Invalidate
<1>27. CASE Cancel
  BY <1>27 DEF Cancel, LeftToTasks, CommitOps, RollbackOps
<1>28. CASE RollbackTask
  BY <1>28 DEF RollbackTask, TakeSlot
<1>29. CASE InvalTask
  BY <1>29 DEF InvalTask
<1>30. CASE ClickBegin
  BY <1>30 DEF ClickBegin, notUser
<1>31. CASE UserBegin
  BY <1>31 DEF UserBegin, SlotLocked, notUser
<1>32. CASE ClickFinish
  BY <1>32 DEF ClickFinish, notUser
<1>33. CASE UserFinish
  BY <1>33 DEF UserFinish, SlotLocked, TakeSlot, notUser
<1>34. CASE UserAnswer
  BY <1>34 DEF UserAnswer, notUser
<1>35. CASE UNCHANGED vars
  BY <1>35 DEF vars
<1>36. QED
  BY <1>1, <1>2, <1>3, <1>4, <1>5, <1>6, <1>7, <1>8, <1>9, <1>10, <1>11, <1>12, <1>13,
     <1>14, <1>15, <1>16, <1>17, <1>18, <1>19, <1>20, <1>21, <1>22, <1>23, <1>24, <1>25,
     <1>26, <1>27, <1>28, <1>29, <1>30, <1>31, <1>32, <1>33, <1>34, <1>35
     DEF Next, Server, Runner

\* A place to start at stays one: nothing durable is lost.
LEMMA RestartKept ==
  ASSUME NEW f, NEW i, Restart(f, i), UNCHANGED jobVars,
         kept \cup before \subseteq kept' \cup before'
  PROVE  Restart(f, i)'
BY DEF Restart, jobVars, Last

\* Nothing durable is lost.
LEMMA HeldKept ==
  ASSUME TypeOK, [Next]_vars
  PROVE  kept \cup before \subseteq kept' \cup before'
<1> USE DEF jobVars, txVars, factVars, callVars, posVars, guardVars, reportVars,
        taskVars, userVars
<1>1. CASE Start
  BY <1>1 DEF Start, Refused
<1>2. CASE Resume
  BY <1>2 DEF Resume, FreshGuard
<1>3. CASE Exec
  BY <1>3 DEF Exec, Answered, Autocommit, ExecInTx, FailInTx, ImplicitCommit,
     CommitsImplicitly
<1>4. CASE Begin
  BY <1>4 DEF Begin, Answered
<1>5. CASE Finish
  BY <1>5 DEF Finish, Answered, FinishWith, TakeSlot, Durable, Undone, CommitOps,
     RollbackOps
<1>6. CASE SkipStatement
  BY <1>6 DEF SkipStatement, Reading, Skips, NothingToDo, IsControl
<1>7. CASE TakeStatement
  BY <1>7 DEF TakeStatement, Takes, Reading, Skips, IsControl, Call
<1>8. CASE TakeControl
  BY <1>8 DEF TakeControl, Takes, NothingToDo, Reading, IsControl, Call, GuardBefore,
     Disarm, CommitOps, RollbackOps, Skips
<1>9. CASE NestedBegin
  BY SMTT(30), <1>9 DEF NestedBegin, Takes, Reading, OnFailure, AbortWith, RollBack, Call,
     Disarm, GoOn, CommitOps, RollbackOps, IsControl, Skips, InTransaction,
     OfferedBegin, OfferFor
<1>10. CASE ReadError
  BY <1>10 DEF ReadError, AbortWith, RollBack, Call, Disarm, CommitOps, RollbackOps
<1>11. CASE Begun
  BY <1>11 DEF Begun, AnsweredTo, GoOn
<1>12. CASE WrapFails
  BY <1>12 DEF WrapFails, AnsweredTo
<1>13. CASE BeginFails
  BY SMTT(30), <1>13 DEF BeginFails, AnsweredTo, OnFailure, AbortWith, RollBack, Call,
     Disarm, GoOn, CommitOps, RollbackOps, InTransaction, OfferedBegin, OfferFor
<1>14. CASE Succeeded
  BY <1>14 DEF Succeeded, AnsweredTo, GoOn, RestartUnsafe, CommitsImplicitly
<1>15. CASE StatementFails
  BY SMTT(30), <1>15 DEF StatementFails, AnsweredTo, OnFailure, AbortWith, RollBack, Call,
     Disarm, GoOn, CommitOps, RollbackOps, InTransaction, OfferedBegin, OfferFor
<1>16. CASE Committed
  BY <1>16 DEF Committed, AnsweredTo, GoOn, CountCommitted, CommitOps
<1>17. CASE CommitFails
  BY SMTT(30), <1>17 DEF CommitFails, AnsweredTo, OnFailure, AbortWith, RollBack, Call,
     Disarm, GoOn, CommitOps, RollbackOps
<1>18. CASE RolledBack
  BY <1>18 DEF RolledBack, AnsweredTo, GoOn, RollbackOps
<1>19. CASE RollbackFails
  BY SMTT(30), <1>19 DEF RollbackFails, AnsweredTo, OnFailure, AbortWith, RollBack, Call,
     Disarm, GoOn, CommitOps, RollbackOps, InTransaction, OfferedBegin, OfferFor
<1>20. CASE BatchRolledBack
  BY <1>20 DEF BatchRolledBack, GoOn, RollbackOps
<1>21. CASE CloseAtEnd
  BY <1>21 DEF CloseAtEnd, AtEnd, Call, Disarm, CommitOps, RollbackOps
<1>22. CASE Closed
  BY <1>22 DEF Closed, AnsweredTo, CountCommitted, CommitOps, RollbackOps
<1>23. CASE CloseFails
  BY SMTT(30), <1>23 DEF CloseFails, AnsweredTo, AbortWith, RollBack, Call, Disarm,
     CommitOps, RollbackOps
<1>24. CASE NothingOpen
  BY <1>24 DEF NothingOpen, AtEnd
<1>25. CASE Aborted
  BY <1>25 DEF Aborted, RollbackOps
<1>26. CASE Invalidate
  BY <1>26 DEF Invalidate
<1>27. CASE Cancel
  BY <1>27 DEF Cancel, LeftToTasks, CommitOps, RollbackOps
<1>28. CASE RollbackTask
  BY <1>28 DEF RollbackTask, TakeSlot
<1>29. CASE InvalTask
  BY <1>29 DEF InvalTask
<1>30. CASE ClickBegin
  BY <1>30 DEF ClickBegin, notUser
<1>31. CASE UserBegin
  BY <1>31 DEF UserBegin, SlotLocked, notUser
<1>32. CASE ClickFinish
  BY <1>32 DEF ClickFinish, notUser
<1>33. CASE UserFinish
  BY <1>33 DEF UserFinish, SlotLocked, TakeSlot, notUser
<1>34. CASE UserAnswer
  BY <1>34 DEF UserAnswer, notUser
<1>35. CASE UNCHANGED vars
  BY <1>35 DEF vars
<1>36. QED
  BY <1>1, <1>2, <1>3, <1>4, <1>5, <1>6, <1>7, <1>8, <1>9, <1>10, <1>11, <1>12, <1>13,
     <1>14, <1>15, <1>16, <1>17, <1>18, <1>19, <1>20, <1>21, <1>22, <1>23, <1>24, <1>25,
     <1>26, <1>27, <1>28, <1>29, <1>30, <1>31, <1>32, <1>33, <1>34, <1>35
     DEF Next, Server, Runner

\* Where a failure is offered to start again.
NewOffer ==
  /\ ~mode.batch
  /\ \/ pc = "next" /\ active /\ offer' = OfferFor(seen + 1)
     \/ /\ pc = "answered" /\ answer = "err" /\ op \in {"begin", "exec", "rollback"}
        /\ offer' = OfferFor(seen)

LEMMA OfferMoves ==
  ASSUME TypeOK, SlotInv, PlaceInv, RefFlow, ~mode.cont, [Next]_vars, offer' # 0
  PROVE  kept' = kept /\ (offer' = offer \/ NewOffer)
<1> USE DEF SlotInv, PlaceInv, RefFlow, NewOffer, AtCall, CommitOps, RollbackOps,
        jobVars, txVars, factVars, callVars, posVars, guardVars, reportVars,
        taskVars, userVars
<1>1. CASE Start
  BY <1>1 DEF Start, Refused
<1>2. CASE Resume
  BY <1>2 DEF Resume, FreshGuard
<1>3. CASE Exec
  BY <1>3 DEF Exec, Answered, Autocommit, ExecInTx, FailInTx, ImplicitCommit,
     CommitsImplicitly
<1>4. CASE Begin
  BY <1>4 DEF Begin, Answered
<1>5. CASE Finish
  BY <1>5 DEF Finish, Answered, FinishWith, TakeSlot, Durable, Undone, CommitOps,
     RollbackOps
<1>6. CASE SkipStatement
  BY <1>6 DEF SkipStatement, Reading, Skips, NothingToDo, IsControl
<1>7. CASE TakeStatement
  BY <1>7 DEF TakeStatement, Takes, Reading, Skips, IsControl, Call
<1>8. CASE TakeControl
  BY <1>8 DEF TakeControl, Takes, NothingToDo, Reading, IsControl, Call, GuardBefore,
     Disarm, CommitOps, RollbackOps, Skips
<1>9. CASE NestedBegin
  <2>1. /\ pc = "next" /\ active /\ OnFailure(OfferFor(seen + 1)) /\ startAt <= seen + 1
        /\ UNCHANGED kept /\ offer = 0
    BY <1>9 DEF NestedBegin, Takes, Reading, Skips, TypeOK, DataTypes
  <2>2. QED
    BY <2>1 DEF OnFailure, AbortWith, RollBack
<1>10. CASE ReadError
  BY <1>10 DEF ReadError, AbortWith, RollBack, Call, Disarm, CommitOps, RollbackOps
<1>11. CASE Begun
  BY <1>11 DEF Begun, AnsweredTo, GoOn
<1>12. CASE WrapFails
  BY <1>12 DEF WrapFails, AnsweredTo
<1>13. CASE BeginFails
  <2>1. /\ pc = "answered" /\ answer = "err" /\ OnFailure(OfferFor(seen))
        /\ op \in {"begin", "exec", "rollback"} /\ UNCHANGED kept /\ offer = 0
    BY <1>13 DEF BeginFails, AnsweredTo
  <2>2. QED
    BY <2>1 DEF OnFailure, AbortWith, RollBack
<1>14. CASE Succeeded
  BY <1>14 DEF Succeeded, AnsweredTo, GoOn, RestartUnsafe, CommitsImplicitly
<1>15. CASE StatementFails
  <2>1. /\ pc = "answered" /\ answer = "err" /\ OnFailure(OfferFor(seen))
        /\ op \in {"begin", "exec", "rollback"} /\ UNCHANGED kept /\ offer = 0
    BY <1>15 DEF StatementFails, AnsweredTo
  <2>2. QED
    BY <2>1 DEF OnFailure, AbortWith, RollBack
<1>16. CASE Committed
  BY <1>16 DEF Committed, AnsweredTo, GoOn, CountCommitted, CommitOps
<1>17. CASE CommitFails
  BY SMTT(30), <1>17 DEF CommitFails, AnsweredTo, OnFailure, AbortWith, RollBack, Call,
     Disarm, GoOn, CommitOps, RollbackOps
<1>18. CASE RolledBack
  BY <1>18 DEF RolledBack, AnsweredTo, GoOn, RollbackOps
<1>19. CASE RollbackFails
  <2>1. /\ pc = "answered" /\ answer = "err" /\ OnFailure(OfferFor(seen))
        /\ op \in {"begin", "exec", "rollback"} /\ UNCHANGED kept /\ offer = 0
    BY <1>19 DEF RollbackFails, AnsweredTo
  <2>2. QED
    BY <2>1 DEF OnFailure, AbortWith, RollBack
<1>20. CASE BatchRolledBack
  BY <1>20 DEF BatchRolledBack, GoOn, RollbackOps
<1>21. CASE CloseAtEnd
  BY <1>21 DEF CloseAtEnd, AtEnd, Call, Disarm, CommitOps, RollbackOps
<1>22. CASE Closed
  BY <1>22 DEF Closed, AnsweredTo, CountCommitted, CommitOps, RollbackOps
<1>23. CASE CloseFails
  BY SMTT(30), <1>23 DEF CloseFails, AnsweredTo, AbortWith, RollBack, Call, Disarm,
     CommitOps, RollbackOps
<1>24. CASE NothingOpen
  BY <1>24 DEF NothingOpen, AtEnd
<1>25. CASE Aborted
  BY <1>25 DEF Aborted, RollbackOps
<1>26. CASE Invalidate
  BY <1>26 DEF Invalidate
<1>27. CASE Cancel
  BY <1>27 DEF Cancel, LeftToTasks, CommitOps, RollbackOps
<1>28. CASE RollbackTask
  BY <1>28 DEF RollbackTask, TakeSlot
<1>29. CASE InvalTask
  BY <1>29 DEF InvalTask
<1>30. CASE ClickBegin
  BY <1>30 DEF ClickBegin, notUser
<1>31. CASE UserBegin
  BY <1>31 DEF UserBegin, SlotLocked, notUser
<1>32. CASE ClickFinish
  BY <1>32 DEF ClickFinish, notUser
<1>33. CASE UserFinish
  BY <1>33 DEF UserFinish, SlotLocked, TakeSlot, notUser
<1>34. CASE UserAnswer
  BY <1>34 DEF UserAnswer, notUser
<1>35. CASE UNCHANGED vars
  BY <1>35 DEF vars
<1>36. QED
  BY <1>1, <1>2, <1>3, <1>4, <1>5, <1>6, <1>7, <1>8, <1>9, <1>10, <1>11, <1>12, <1>13,
     <1>14, <1>15, <1>16, <1>17, <1>18, <1>19, <1>20, <1>21, <1>22, <1>23, <1>24, <1>25,
     <1>26, <1>27, <1>28, <1>29, <1>30, <1>31, <1>32, <1>33, <1>34, <1>35
     DEF Next, Server, Runner

\* Where the other places go.
LEMMA PlacesMove ==
  ASSUME TypeOK, [Next]_vars
  PROVE  /\ startAt' = startAt \/ (offer # 0 /\ startAt' = offer)
         /\ before' = before \/ (offer # 0 /\ before' = before \cup kept)
         /\ txBegin' \in {0, txBegin} \/ (AnsweredTo("begin", "ok") /\ txBegin' = seen)
<1> USE DEF jobVars, txVars, factVars, callVars, posVars, guardVars, reportVars,
        taskVars, userVars
<1>1. CASE Start
  BY <1>1 DEF Start, Refused
<1>2. CASE Resume
  BY <1>2 DEF Resume, FreshGuard
<1>3. CASE Exec
  BY <1>3 DEF Exec, Answered, Autocommit, ExecInTx, FailInTx, ImplicitCommit,
     CommitsImplicitly
<1>4. CASE Begin
  BY <1>4 DEF Begin, Answered
<1>5. CASE Finish
  BY <1>5 DEF Finish, Answered, FinishWith, TakeSlot, Durable, Undone, CommitOps,
     RollbackOps
<1>6. CASE SkipStatement
  BY <1>6 DEF SkipStatement, Reading, Skips, NothingToDo, IsControl
<1>7. CASE TakeStatement
  BY <1>7 DEF TakeStatement, Takes, Reading, Skips, IsControl, Call
<1>8. CASE TakeControl
  BY <1>8 DEF TakeControl, Takes, NothingToDo, Reading, IsControl, Call, GuardBefore,
     Disarm, CommitOps, RollbackOps, Skips
<1>9. CASE NestedBegin
  BY SMTT(30), <1>9 DEF NestedBegin, Takes, Reading, OnFailure, AbortWith, RollBack, Call,
     Disarm, GoOn, CommitOps, RollbackOps, IsControl, Skips, InTransaction,
     OfferedBegin, OfferFor
<1>10. CASE ReadError
  BY <1>10 DEF ReadError, AbortWith, RollBack, Call, Disarm, CommitOps, RollbackOps
<1>11. CASE Begun
  BY <1>11 DEF Begun, AnsweredTo, GoOn
<1>12. CASE WrapFails
  BY <1>12 DEF WrapFails, AnsweredTo
<1>13. CASE BeginFails
  BY SMTT(30), <1>13 DEF BeginFails, AnsweredTo, OnFailure, AbortWith, RollBack, Call,
     Disarm, GoOn, CommitOps, RollbackOps, InTransaction, OfferedBegin, OfferFor
<1>14. CASE Succeeded
  BY <1>14 DEF Succeeded, AnsweredTo, GoOn, RestartUnsafe, CommitsImplicitly
<1>15. CASE StatementFails
  BY SMTT(30), <1>15 DEF StatementFails, AnsweredTo, OnFailure, AbortWith, RollBack, Call,
     Disarm, GoOn, CommitOps, RollbackOps, InTransaction, OfferedBegin, OfferFor
<1>16. CASE Committed
  BY <1>16 DEF Committed, AnsweredTo, GoOn, CountCommitted, CommitOps
<1>17. CASE CommitFails
  BY SMTT(30), <1>17 DEF CommitFails, AnsweredTo, OnFailure, AbortWith, RollBack, Call,
     Disarm, GoOn, CommitOps, RollbackOps
<1>18. CASE RolledBack
  BY <1>18 DEF RolledBack, AnsweredTo, GoOn, RollbackOps
<1>19. CASE RollbackFails
  BY SMTT(30), <1>19 DEF RollbackFails, AnsweredTo, OnFailure, AbortWith, RollBack, Call,
     Disarm, GoOn, CommitOps, RollbackOps, InTransaction, OfferedBegin, OfferFor
<1>20. CASE BatchRolledBack
  BY <1>20 DEF BatchRolledBack, GoOn, RollbackOps
<1>21. CASE CloseAtEnd
  BY <1>21 DEF CloseAtEnd, AtEnd, Call, Disarm, CommitOps, RollbackOps
<1>22. CASE Closed
  BY <1>22 DEF Closed, AnsweredTo, CountCommitted, CommitOps, RollbackOps
<1>23. CASE CloseFails
  BY SMTT(30), <1>23 DEF CloseFails, AnsweredTo, AbortWith, RollBack, Call, Disarm,
     CommitOps, RollbackOps
<1>24. CASE NothingOpen
  BY <1>24 DEF NothingOpen, AtEnd
<1>25. CASE Aborted
  BY <1>25 DEF Aborted, RollbackOps
<1>26. CASE Invalidate
  BY <1>26 DEF Invalidate
<1>27. CASE Cancel
  BY <1>27 DEF Cancel, LeftToTasks, CommitOps, RollbackOps
<1>28. CASE RollbackTask
  BY <1>28 DEF RollbackTask, TakeSlot
<1>29. CASE InvalTask
  BY <1>29 DEF InvalTask
<1>30. CASE ClickBegin
  BY <1>30 DEF ClickBegin, notUser
<1>31. CASE UserBegin
  BY <1>31 DEF UserBegin, SlotLocked, notUser
<1>32. CASE ClickFinish
  BY <1>32 DEF ClickFinish, notUser
<1>33. CASE UserFinish
  BY <1>33 DEF UserFinish, SlotLocked, TakeSlot, notUser
<1>34. CASE UserAnswer
  BY <1>34 DEF UserAnswer, notUser
<1>35. CASE UNCHANGED vars
  BY <1>35 DEF vars
<1>36. QED
  BY <1>1, <1>2, <1>3, <1>4, <1>5, <1>6, <1>7, <1>8, <1>9, <1>10, <1>11, <1>12, <1>13,
     <1>14, <1>15, <1>16, <1>17, <1>18, <1>19, <1>20, <1>21, <1>22, <1>23, <1>24, <1>25,
     <1>26, <1>27, <1>28, <1>29, <1>30, <1>31, <1>32, <1>33, <1>34, <1>35
     DEF Next, Server, Runner

LEMMA RefPlacesStep ==
  ASSUME TypeOK, SlotInv, PlaceInv, ~mode.cont, ~mode.wrap, [Next]_vars,
         NEW f, IsTrace(f, Last), RefPlaces(f), RefFlow, Own => RefLevel(f)
  PROVE  RefPlaces(f)'
<1>1. /\ Last \in Nat /\ script \in Scripts /\ seen \in 0..Last
      /\ offer \in Nat /\ startAt \in Nat \ {0} /\ txBegin \in Nat
      /\ UNCHANGED jobVars /\ Last' = Last
  BY LastInNat, JobKept DEF TypeOK, DataTypes, jobVars, Last
<1>2. ASSUME NEW i, Restart(f, i)
      PROVE  Restart(f, i)'
  BY <1>1, <1>2, HeldKept, RestartKept
<1>3. Restart(f, startAt)'
  <2>1. CASE startAt' = startAt
    BY <1>2, <2>1 DEF RefPlaces, Restart
  <2>2. CASE offer # 0 /\ startAt' = offer
    BY <1>2, <2>2 DEF RefPlaces, Restart
  <2>3. QED
    BY <2>1, <2>2, PlacesMove
<1>4. before' \subseteq f[Last].durable
  BY PlacesMove DEF RefPlaces
<1>5. pc = "answered" /\ op = "begin" => Restart(f, seen)
  <2> SUFFICES ASSUME pc = "answered", op = "begin"
               PROVE  Restart(f, seen)
    OBVIOUS
  <2>1. Own /\ startAt <= seen /\ ~active /\ inTx = {}
    BY DEF Own, RefFlow, PlaceInv, SlotInv, AtCall
  <2>2. Sync(f, seen - 1)
    BY <2>1 DEF RefLevel, AtCall
  <2>3. seen - 1 \in 0..Last
    BY <1>1, <2>1 DEF TypeOK, DataTypes
  <2>4. QED
    BY <2>1, <2>2, <2>3 DEF Restart, Sync, Level
<1>6. (txBegin # 0 => Restart(f, txBegin))'
  BY <1>2, <1>5, PlacesMove DEF RefPlaces, Restart, AnsweredTo
<1>7. ASSUME offer' # 0
      PROVE  Restart(f, offer)' /\ (kept \subseteq f[Last].durable)'
  <2>1. kept' = kept /\ (offer' = offer \/ NewOffer)
    BY <1>7, OfferMoves
  <2>2. CASE offer' = offer
    BY <1>1, <1>2, <1>7, <2>1, <2>2 DEF RefPlaces, Restart
  <2>3. CASE NewOffer
    <3>1. /\ Own /\ RefLevel(f) /\ (active => txBegin # 0 /\ startAt <= seen)
          /\ seen \in 1..Last \/ pc = "next"
      <4>1. ~mode.batch /\ Own
        BY <2>3 DEF NewOffer, Own, RefFlow
      <4>2. active => txBegin # 0 /\ startAt <= seen
        <5>1. active => pc = "next" \/ (AtCall /\ op = "exec")
          BY <2>3 DEF NewOffer, SlotInv, AtCall
        <5>2. active => ~(seen < startAt)
          BY <4>1 DEF RefFlow
        <5>3. QED
          BY <1>1, <4>1, <5>1, <5>2 DEF RefFlow
      <4>3. pc = "next" \/ startAt <= seen
        BY <2>3 DEF NewOffer, PlaceInv, AtCall
      <4>4. QED
        BY <1>1, <4>1, <4>2, <4>3
    <3>2. kept \subseteq f[Last].durable
      <4>1. CASE pc = "next"
        <5>1. kept \subseteq f[seen].durable
          BY <2>3, <3>1, <4>1 DEF NewOffer, RefLevel, Sync, Level
        <5>2. QED
          BY <1>1, <5>1, TraceGrows
      <4>2. CASE pc = "answered" /\ op \in {"exec", "rollback"}
        <5>1. kept \subseteq f[seen].durable
          BY <3>1, <4>2 DEF RefLevel
        <5>2. QED
          BY <1>1, <5>1, TraceGrows
      <4>3. CASE pc = "answered" /\ op = "begin"
        <5>1. kept \subseteq f[seen - 1].durable /\ seen - 1 \in 0..Last
          BY <1>1, <3>1, <4>3 DEF RefLevel, Sync, Level, AtCall
        <5>2. QED
          BY <1>1, <5>1, TraceGrows
      <4>4. QED
        BY <2>3, <4>1, <4>2, <4>3 DEF NewOffer
    <3>3. Restart(f, offer')
      <4>1. CASE InTransaction
        <5>1. offer' = txBegin /\ txBegin # 0
          BY <1>7, <2>3, <4>1 DEF NewOffer, OfferFor, OfferedBegin
        <5>2. QED
          BY <5>1 DEF RefPlaces
      <4>2. CASE ~InTransaction
        <5>1. /\ pc = "answered" /\ answer = "err" /\ offer' = seen /\ ~active
              /\ op \in {"begin", "exec"}
          BY <2>3, <3>1, <4>2 DEF NewOffer, OfferFor, InTransaction, RefFlow, AtCall
        <5>2. QED
          BY <1>5, <3>1, <5>1 DEF RefLevel
      <4>3. QED
        BY <4>1, <4>2
    <3>4. QED
      BY <1>1, <1>2, <2>1, <3>2, <3>3 DEF Restart
  <2>4. QED
    BY <2>1, <2>2, <2>3
<1>8. QED
  BY <1>1, <1>3, <1>4, <1>6, <1>7 DEF RefPlaces

\* What the run has done beside what an undisturbed one has.
LEMMA SyncAtNext ==
  ASSUME TypeOK, SlotInv, RefFlow, NEW f, IsTrace(f, Last), RefPlaces(f), RefLevel(f),
         Own, pc = "next", startAt <= seen + 1
  PROVE  Sync(f, seen)
<1>1. startAt \in Nat \ {0} /\ seen \in Nat
  BY LastInNat DEF TypeOK, DataTypes
<1>2. CASE startAt <= seen
  BY <1>2 DEF RefLevel
<1>3. CASE startAt = seen + 1
  <2>1. kept = {} /\ inTx = {} /\ ~active
    BY <1>1, <1>3 DEF RefFlow
  <2>2. startAt - 1 = seen
    BY <1>1, <1>3
  <2>3. QED
    BY <2>1, <2>2 DEF RefPlaces, Restart, Sync, Level
<1>4. QED
  BY <1>1, <1>2, <1>3

LEMMA RefLevelStep ==
  ASSUME TypeOK, SlotInv, PlaceInv, ~mode.cont, ~mode.wrap, [Next]_vars,
         NEW f, IsTrace(f, Last), RefPlaces(f), RefFlow, Own => RefLevel(f), Own'
  PROVE  RefLevel(f)'
<1>0. /\ mode \in AllModes /\ Last \in Nat
      /\ UNCHANGED jobVars => Last' = Last
  BY ScriptAssumption, LastInNat DEF TypeOK, DataTypes, jobVars, Last
<1>b. mode.unclosed \in {"rollback", "commit"} /\ mode.batch \in BOOLEAN
  BY <1>0 DEF AllModes
<1>c. ASSUME NEW i \in 1..Last
      PROVE  f[i - 1] \in RefStates /\ f[i] = After(f[i - 1], i) /\ f[i] \in RefStates
  BY <1>0 DEF IsTrace
<1> USE <1>0, <1>b DEF TypeOK, DataTypes, FlagTypes, StepTypes, SlotInv, PlaceInv,
        RefFlow, RefLevel, Restart, Sync, Level, AtEndOf, Own, AtCall, Succeeds,
        CommitOps, RollbackOps, Ops,
        jobVars, txVars, factVars, callVars, posVars, guardVars, reportVars,
        taskVars, userVars
<1>1. CASE Start
  BY <1>1 DEF Start, Refused
<1>2. CASE Resume
  BY <1>2 DEF Resume, FreshGuard
<1>3. CASE Exec
  <2>1. /\ pc = "call" /\ op = "exec" /\ pc' = "answered" /\ op' = "exec" /\ Own
        /\ UNCHANGED <<jobVars, posVars, guardVars, reportVars, before>>
        /\ seen \in 1..Last /\ script[seen] \in {"write", "ddl"} /\ outcome # "done"
        /\ Sync(f, seen - 1) /\ (active => slot = "script")
    BY <1>3 DEF Exec, Answered, Autocommit, ExecInTx, FailInTx, ImplicitCommit
  <2> DEFINE s == f[seen - 1]
             t == f[seen]
  <2>2. /\ s \in RefStates /\ t = After(s, seen) /\ seen \in Nat
        /\ script[seen] \notin {"begin", "commit", "rollback"}
        /\ s.undecided = inTx /\ s.durable \subseteq kept \cup before
        /\ kept \subseteq s.durable /\ (s.open <=> active /\ txState = "open")
    BY <1>c, <2>1
  <2>3. s.durable \subseteq t.durable
    BY <2>2, AfterAny
  <2> HIDE DEF s, t
  <2>4. ASSUME kept' \subseteq t.durable, answer' = "ok" => Sync(f, seen)',
               answer' = "err" /\ ~active' => Restart(f, seen)'
        PROVE  RefLevel(f)'
    BY <2>1, <2>4 DEF t
  <2>5. CASE ~active /\ kept' = kept \cup {seen} /\ UNCHANGED <<inTx, txState>> /\ answer' = "ok"
    <3>1. ~s.open /\ inTx = {}
      BY <2>1, <2>2, <2>5
    <3>2. ~t.open /\ t.undecided = {} /\ t.durable = s.durable \cup s.undecided \cup {seen}
      BY <2>2, <3>1, AfterOutside
    <3>3. kept' \subseteq t.durable
      BY <2>2, <2>5, <3>2
    <3>4. Sync(f, seen)'
      BY <2>1, <2>2, <2>5, <3>1, <3>2, <3>3 DEF t
    <3>5. QED
      BY <2>4, <2>5, <3>3, <3>4
  <2>6. CASE UNCHANGED <<kept, inTx>> /\ answer' = "err"
    <3>1. kept' \subseteq t.durable
      BY <2>2, <2>3, <2>6
    <3>2. ~active => Restart(f, seen)'
      BY <2>1, <2>2, <2>6 DEF s
    <3>3. QED
      BY <2>1, <2>4, <2>6, <3>1, <3>2
  <2>7. CASE /\ active /\ txState = "ended" /\ kept' = kept \cup {seen}
             /\ UNCHANGED <<inTx, txState>> /\ answer' = "ok"
    <3>1. ~s.open /\ inTx = {}
      BY <2>2, <2>7
    <3>2. ~t.open /\ t.undecided = {} /\ t.durable = s.durable \cup s.undecided \cup {seen}
      BY <2>2, <3>1, AfterOutside
    <3>3. kept' \subseteq t.durable
      BY <2>2, <2>7, <3>2
    <3>4. Sync(f, seen)'
      BY <2>1, <2>2, <2>7, <3>1, <3>2, <3>3 DEF t
    <3>5. QED
      BY <2>4, <2>7, <3>3, <3>4
  <2>8. CASE /\ active /\ CommitsImplicitly(seen) /\ kept' = kept \cup inTx \cup {seen}
             /\ inTx' = {} /\ txState' = "ended" /\ answer' = "ok"
    <3>1. ~t.open /\ t.undecided = {} /\ t.durable = s.durable \cup s.undecided \cup {seen}
      BY <2>2, <2>8, AfterOutside
    <3>2. kept' \subseteq t.durable
      BY <2>2, <2>8, <3>1
    <3>3. Sync(f, seen)'
      BY <2>1, <2>2, <2>8, <3>1, <3>2 DEF t
    <3>4. QED
      BY <2>4, <2>8, <3>2, <3>3
  <2>9. CASE /\ active /\ txState = "open" /\ ~CommitsImplicitly(seen)
             /\ inTx' = inTx \cup {seen} /\ UNCHANGED <<kept, txState>> /\ answer' = "ok"
    <3>1. t.open /\ t.undecided = s.undecided \cup {seen} /\ t.durable = s.durable
      BY <2>2, <2>9, AfterInside
    <3>2. kept' \subseteq t.durable
      BY <2>2, <2>9, <3>1
    <3>3. Sync(f, seen)'
      BY <2>1, <2>2, <2>9, <3>1, <3>2 DEF t
    <3>4. QED
      BY <2>4, <2>9, <3>2, <3>3
  <2>10. CASE /\ active /\ CommitsImplicitly(seen) /\ kept' = kept \cup inTx /\ answer' = "err"
    <3>1. t.durable = s.durable \cup s.undecided \cup {seen}
      BY <2>2, <2>10, AfterOutside
    <3>2. kept' \subseteq t.durable
      BY <2>2, <2>10, <3>1
    <3>3. QED
      BY <2>1, <2>4, <2>10, <3>2
  <2>11. QED
    BY <1>3, <2>1, <2>5, <2>6, <2>7, <2>8, <2>9, <2>10
    DEF Exec, Answered, Autocommit, ExecInTx, FailInTx, ImplicitCommit
<1>4. CASE Begin
  BY <1>4 DEF Begin, Answered
<1>5. CASE Finish
  <2>1. /\ pc = "call" /\ pc' = "answered" /\ op' = op /\ op \in CommitOps \cup RollbackOps
        /\ UNCHANGED <<jobVars, posVars, guardVars, reportVars, before>>
        /\ Own /\ outcome # "done" /\ ~active /\ inTx' = {}
        /\ op \in CommitOps => \/ kept' = kept \cup inTx
                               \/ kept' = kept /\ answer' = "err"
        /\ op \in RollbackOps => kept' = kept
    BY <1>5 DEF Finish, Answered, FinishWith, TakeSlot, Durable, Undone
  <2>2. CASE op \in {"commit", "rollback"}
    <3> DEFINE s == f[seen - 1]
               t == f[seen]
    <3>1. /\ s \in RefStates /\ t = After(s, seen) /\ script[seen] = op
          /\ s.undecided = inTx /\ s.durable \subseteq kept \cup before
          /\ kept \subseteq s.durable
      BY <1>c, <2>1, <2>2
    <3> HIDE DEF s, t
    <3>2. op = "commit" => ~t.open /\ t.undecided = {} /\ t.durable = s.durable \cup inTx
      BY <3>1, AfterCommit
    <3>3. op = "rollback" => ~t.open /\ t.undecided = {} /\ t.durable = s.durable
      BY <3>1, AfterRollback
    <3>4. op = "rollback" => kept' \subseteq t.durable
      BY <2>1, <3>1, <3>3
    <3>5. answer' = "ok" => Sync(f, seen)'
      BY <2>1, <2>2, <3>1, <3>2, <3>3 DEF t
    <3>6. QED
      BY <2>1, <2>2, <3>4, <3>5 DEF t
  <2>3. CASE op \in {"eofCommit", "eofRollback"}
    <3>1. Level(f, Last) /\ before \subseteq f[Last].durable
      BY <2>1, <2>3 DEF RefPlaces
    <3>2. answer' = "ok" => kept' \cup before' = AtEndOf(f)'
      <4>1. CASE op = "eofCommit"
        BY <2>1, <3>1, <4>1
      <4>2. CASE op = "eofRollback"
        BY <2>1, <3>1, <4>2
      <4>3. QED
        BY <2>3, <4>1, <4>2
    <3>3. QED
      BY <2>1, <2>3, <3>2
  <2>4. CASE op \in {"abortRollback", "batchRollback"}
    BY <2>1, <2>4
  <2>5. QED
    BY <2>1, <2>2, <2>3, <2>4
<1>6. CASE SkipStatement
  <2>1. /\ pc = "next" /\ pc' = "next" /\ seen' = seen + 1 /\ seen + 1 \in 1..Last
        /\ UNCHANGED <<jobVars, txVars, factVars, guardVars, reportVars, startAt>>
        /\ Own /\ outcome # "done" /\ (Skips(seen + 1) \/ NothingToDo(seen + 1))
    BY <1>6 DEF SkipStatement, Reading
  <2>2. ASSUME startAt <= seen + 1
        PROVE  Sync(f, seen + 1)
    <3>1. ~active /\ script[seen + 1] \in {"commit", "rollback"} /\ inTx = {}
      BY <2>1, <2>2 DEF Skips, NothingToDo, IsControl
    <3>2. Sync(f, seen)
      BY <2>1, <2>2, SyncAtNext
    <3> DEFINE s == f[seen]
               t == f[seen + 1]
    <3>3. s \in RefStates /\ t = After(s, seen + 1)
      <4>1. (seen + 1) - 1 = seen
        BY <1>0
      <4>2. QED
        BY <1>c, <2>1, <4>1
    <3>4. s.undecided = {} /\ s.durable \subseteq kept \cup before /\ kept \subseteq s.durable
      BY <3>1, <3>2
    <3> HIDE DEF s, t
    <3>5. ~t.open /\ t.undecided = {} /\ t.durable = s.durable
      <4>1. CASE script[seen + 1] = "commit"
        <5>1. /\ ~t.open /\ t.undecided = {} /\ t.durable = s.durable \cup s.undecided
          BY <3>3, <4>1, AfterCommit
        <5>2. s.durable \cup s.undecided = s.durable
          BY <3>4
        <5>3. QED
          BY <5>1, <5>2
      <4>2. CASE script[seen + 1] = "rollback"
        BY <3>3, <3>4, <4>2, AfterRollback
      <4>3. QED
        BY <3>1, <4>1, <4>2
    <3>6. QED
      BY <3>1, <3>4, <3>5 DEF t
  <2>3. QED
    BY <2>1, <2>2
<1>7. CASE TakeStatement
  <2>1. /\ pc = "next" /\ pc' = "call" /\ op' = "exec" /\ seen' = seen + 1 /\ Own
        /\ UNCHANGED <<jobVars, txVars, factVars, guardVars, reportVars, startAt>>
        /\ outcome # "done" /\ startAt <= seen + 1
    BY <1>7 DEF TakeStatement, Takes, Reading, Skips, Call
  <2>2. Sync(f, seen)
    BY <2>1, SyncAtNext
  <2>3. seen' - 1 = seen
    BY <1>0, <2>1
  <2>4. QED
    BY <2>1, <2>2, <2>3
<1>8. CASE TakeControl
  <2>1. /\ pc = "next" /\ pc' = "call" /\ op' \in {"begin", "commit", "rollback"}
        /\ seen' = seen + 1 /\ Own /\ (op' = "begin" => active' = active)
        /\ UNCHANGED <<jobVars, txVars, factVars, reportVars, startAt>>
        /\ outcome # "done" /\ startAt <= seen + 1
    BY <1>8 DEF TakeControl, Takes, Reading, Skips, Call, IsControl, GuardBefore
  <2>2. Sync(f, seen)
    BY <2>1, SyncAtNext
  <2>3. seen' - 1 = seen
    BY <1>0, <2>1
  <2>4. QED
    BY <2>1, <2>2, <2>3
<1>9. CASE NestedBegin
  <2>1. /\ OnFailure(OfferFor(seen + 1)) /\ active /\ outcome # "done"
    BY <1>9 DEF NestedBegin, Takes, Reading
  <2>2. pc' = "call" /\ op' = "abortRollback" /\ outcome' = "failed"
    BY <2>1 DEF OnFailure, AbortWith, RollBack, Call
  <2>3. QED
    BY <2>2
<1>10. CASE ReadError
  BY <1>10 DEF ReadError, AbortWith, RollBack, Call, Disarm, CommitOps, RollbackOps
<1>11. CASE Begun
  <2>1. /\ pc = "answered" /\ op = "begin" /\ pc' = "next" /\ Own /\ outcome # "done"
        /\ UNCHANGED <<jobVars, factVars, posVars, reportVars>>
        /\ inTx' = {} /\ active' /\ txState' = "open" /\ ~active /\ inTx = {}
        /\ seen \in 1..Last /\ script[seen] = "begin"
    BY <1>11 DEF Begun, AnsweredTo, GoOn
  <2> DEFINE s == f[seen - 1]
             t == f[seen]
  <2>2. /\ s \in RefStates /\ t = After(s, seen)
        /\ s.undecided = {} /\ s.durable \subseteq kept \cup before /\ kept \subseteq s.durable
    BY <1>c, <2>1
  <2> HIDE DEF s, t
  <2>3. t.open /\ t.undecided = {} /\ t.durable = s.durable
    BY <2>1, <2>2, AfterBegin
  <2>4. Sync(f, seen)'
    BY <2>1, <2>2, <2>3 DEF t
  <2>5. QED
    BY <2>1, <2>4
<1>12. CASE WrapFails
  BY <1>12 DEF WrapFails, AnsweredTo
<1>13. CASE BeginFails
  BY SMTT(30), <1>13 DEF BeginFails, AnsweredTo, OnFailure, AbortWith, RollBack, Call,
     Disarm, GoOn, CommitOps, RollbackOps, InTransaction, OfferedBegin, OfferFor
<1>14. CASE Succeeded
  BY <1>14 DEF Succeeded, AnsweredTo, GoOn, RestartUnsafe, CommitsImplicitly
<1>15. CASE StatementFails
  BY SMTT(30), <1>15 DEF StatementFails, AnsweredTo, OnFailure, AbortWith, RollBack, Call,
     Disarm, GoOn, CommitOps, RollbackOps, InTransaction, OfferedBegin, OfferFor
<1>16. CASE Committed
  BY <1>16 DEF Committed, AnsweredTo, GoOn, CountCommitted, CommitOps
<1>17. CASE CommitFails
  BY SMTT(30), <1>17 DEF CommitFails, AnsweredTo, OnFailure, AbortWith, RollBack, Call,
     Disarm, GoOn, CommitOps, RollbackOps
<1>18. CASE RolledBack
  BY <1>18 DEF RolledBack, AnsweredTo, GoOn, RollbackOps
<1>19. CASE RollbackFails
  BY SMTT(30), <1>19 DEF RollbackFails, AnsweredTo, OnFailure, AbortWith, RollBack, Call,
     Disarm, GoOn, CommitOps, RollbackOps, InTransaction, OfferedBegin, OfferFor
<1>20. CASE BatchRolledBack
  BY <1>20 DEF BatchRolledBack, GoOn, RollbackOps
<1>21. CASE CloseAtEnd
  BY <1>21 DEF CloseAtEnd, AtEnd, Call, Disarm, CommitOps, RollbackOps
<1>22. CASE Closed
  BY <1>22 DEF Closed, AnsweredTo, CountCommitted, CommitOps, RollbackOps
<1>23. CASE CloseFails
  BY SMTT(30), <1>23 DEF CloseFails, AnsweredTo, AbortWith, RollBack, Call, Disarm,
     CommitOps, RollbackOps
<1>24. CASE NothingOpen
  <2>1. /\ pc = "next" /\ seen = Last /\ ~active /\ Own /\ pc' = "invalidate"
        /\ UNCHANGED <<jobVars, txVars, factVars, guardVars, seen>>
        /\ startAt <= seen + 1 /\ inTx = {}
    BY <1>24 DEF NothingOpen, AtEnd, RefPlaces
  <2>2. Sync(f, Last)
    BY <2>1, SyncAtNext
  <2>3. kept \cup before = AtEndOf(f)
    BY <2>1, <2>2 DEF RefPlaces
  <2>4. QED
    BY <2>1, <2>3
<1>25. CASE Aborted
  BY <1>25 DEF Aborted, RollbackOps
<1>26. CASE Invalidate
  BY <1>26 DEF Invalidate
<1>27. CASE Cancel
  BY <1>27 DEF Cancel, LeftToTasks, CommitOps, RollbackOps
<1>28. CASE RollbackTask
  BY <1>28 DEF RollbackTask, TakeSlot
<1>29. CASE InvalTask
  BY <1>29 DEF InvalTask
<1>30. CASE ClickBegin
  BY <1>30 DEF ClickBegin, notUser
<1>31. CASE UserBegin
  BY <1>31 DEF UserBegin, SlotLocked, notUser
<1>32. CASE ClickFinish
  BY <1>32 DEF ClickFinish, notUser
<1>33. CASE UserFinish
  BY <1>33 DEF UserFinish, SlotLocked, TakeSlot, notUser
<1>34. CASE UserAnswer
  BY <1>34 DEF UserAnswer, notUser
<1>35. CASE UNCHANGED vars
  BY <1>35 DEF vars
<1>36. QED
  BY <1>1, <1>2, <1>3, <1>4, <1>5, <1>6, <1>7, <1>8, <1>9, <1>10, <1>11, <1>12, <1>13,
     <1>14, <1>15, <1>16, <1>17, <1>18, <1>19, <1>20, <1>21, <1>22, <1>23, <1>24, <1>25,
     <1>26, <1>27, <1>28, <1>29, <1>30, <1>31, <1>32, <1>33, <1>34, <1>35
     DEF Next, Server, Runner

LEMMA RefStep ==
  ASSUME TypeOK, SlotInv, PlaceInv, [Next]_vars, NEW f, IsTrace(f, Last), RefInv(f)
  PROVE  RefInv(f)'
<1>1. UNCHANGED jobVars
  BY JobKept
<1>2. CASE mode.cont \/ mode.wrap
  BY <1>1, <1>2 DEF RefInv, jobVars
<1>3. CASE ~mode.cont /\ ~mode.wrap
  BY <1>1, <1>3, RefFlowStep, RefPlacesStep, RefLevelStep DEF RefInv, jobVars
<1>4. QED
  BY <1>2, <1>3

\* What is asserted of the trace is asserted of every one: there is just one.
RefAlways == \A f : IsTrace(f, Last) => RefInv(f)

LEMMA RefAlwaysStep ==
  ASSUME TypeOK, SlotInv, PlaceInv, [Next]_vars, RefAlways
  PROVE  RefAlways'
<1> SUFFICES ASSUME NEW f, IsTrace(f, Last)'
             PROVE  RefInv(f)'
  BY DEF RefAlways
<1>1. UNCHANGED <<script, driver>>
  BY JobKept DEF jobVars
<1>2. IsTrace(f, Last)
  BY <1>1 DEF IsTrace, Last, After, CommitsImplicitly
<1>3. QED
  BY <1>2, RefStep DEF RefAlways

-----------------------------------------------------------------------------
LEMMA Inductive ==
  Spec => [](TypeOK /\ SlotInv /\ PlaceInv /\ CacheInv /\ WrapInv /\ TallyInv /\ RefAlways)
<1> DEFINE IInv == TypeOK /\ SlotInv /\ PlaceInv /\ CacheInv /\ WrapInv /\ TallyInv
                     /\ RefAlways
<1>1. Init => IInv
  BY TypeInit, SlotInit, PlaceInit, CacheInit, WrapInit, TallyInit, RefInit DEF RefAlways
<1>2. IInv /\ [Next]_vars => IInv'
  BY TypeStep, SlotStep, PlaceStep, CacheStep, WrapStep, TallyStep, RefAlwaysStep
<1>3. QED
  BY <1>1, <1>2, PTL DEF Spec

(* Every variable of the runner keeps its type.                             *)
THEOREM TypeCorrect == Spec => []TypeOK
BY Inductive, PTL

(* A script and its clean-up never end the user's transaction, and the      *)
(* interface shows a transaction exactly when the user has one.             *)
THEOREM UserKeepsTransaction == Spec => []OwnTransactions
<1>1. SlotInv => OwnTransactions
  BY DEF SlotInv
<1>2. QED
  BY <1>1, Inductive, PTL

(* A resumed run repeats no durable statement, where a DDL statement that   *)
(* fails commits nothing.                                                   *)
THEOREM ResumeRepeatsNothing == Spec => []NothingTwice
<1>1. TypeOK /\ PlaceInv => NothingTwice
  <2> SUFFICES ASSUME TypeOK, PlaceInv, ~eager, NEW x \in kept \cap before
               PROVE  FALSE
    BY DEF NothingTwice
  <2>1. x \in Nat /\ startAt \in Nat
    BY DEF TypeOK, DataTypes
  <2>2. startAt <= x /\ x <= startAt - 1
    BY DEF PlaceInv, Between
  <2>3. QED
    BY <2>1, <2>2
<1>2. QED
  BY <1>1, Inductive, PTL

(* When a run is over and its tasks are done the caches hold nothing that a *)
(* durable statement has changed.                                           *)
THEOREM CachesAreInvalidated == Spec => []CachesFollow
<1>1. CacheInv => CachesFollow
  BY DEF CacheInv
<1>2. QED
  BY <1>1, Inductive, PTL

(* A run in one transaction keeps all of its statements or none, however it *)
(* ends, where the driver has transactional DDL.                            *)
THEOREM WrapKeepsAllOrNothing == Spec => []AllOrNothing
<1>1. WrapInv => AllOrNothing
  BY DEF WrapInv, WrapNothing, AllOrNothing
<1>2. QED
  BY <1>1, Inductive, PTL

(* The count a cancellation reports is never more than what is durable,     *)
(* unless a COMMIT has failed.                                              *)
THEOREM ClaimIsTrue == Spec => []ClaimHolds
<1>1. TallyInv => ClaimHolds
  BY DEF TallyInv, TallyCounts, ClaimHolds
<1>2. QED
  BY <1>1, Inductive, PTL

(* A script that came to its end, in one run or in resumed ones, has made   *)
(* durable exactly what one undisturbed run would have.                     *)
THEOREM ResumedRunIsExact == Spec => []ResumeExact
<1>1. ASSUME TypeOK, WrapInv, RefAlways
      PROVE  ResumeExact
  <2> SUFFICES ASSUME outcome = "done", ~mode.cont, ~skipping, ~external
               PROVE  kept \cup before = Reference
    BY DEF ResumeExact
  <2>1. CASE mode.wrap
    BY <1>1, <2>1 DEF WrapInv, WrapPlaces, WrapWhole, Reference
  <2>2. CASE ~mode.wrap
    <3>1. script \in Scripts
      BY <1>1 DEF TypeOK, DataTypes
    <3>2. PICK f : IsTrace(f, Last)
      BY <3>1, TraceExists
    <3>3. kept \cup before = AtEndOf(f)
      BY <1>1, <2>2, <3>2 DEF RefAlways, RefInv, RefLevel, Own
    <3>4. QED
      BY <2>2, <3>1, <3>2, <3>3, ReferenceIsTrace
  <2>3. QED
    BY <2>1, <2>2
<1>2. TypeOK /\ WrapInv /\ RefAlways => ResumeExact
  BY <1>1
<1>3. QED
  BY <1>2, Inductive, PTL

(* The slot of the session is never left behind by a script: while the      *)
(* script holds it, the guard of the run, a COMMIT or ROLLBACK under way or  *)
(* the task a cancellation spawned is there to free it.                      *)
THEOREM SlotHasOwner ==
  Spec => [](slot = "script" =>
               \/ active /\ pc \in {"next", "call", "answered"}
               \/ rollbackTask /\ outcome = "cancelled"
               \/ pc = "call" /\ op \in CommitOps \cup RollbackOps)
<1>1. SlotInv => (slot = "script" =>
                    \/ active /\ pc \in {"next", "call", "answered"}
                    \/ rollbackTask /\ outcome = "cancelled"
                    \/ pc = "call" /\ op \in CommitOps \cup RollbackOps)
  BY DEF SlotInv
<1>2. QED
  BY <1>1, Inductive, PTL
=============================================================================
