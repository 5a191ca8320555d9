---------------------------- MODULE ScriptRunner ----------------------------
(* Running a script of SQL statements (commands/script.rs) in a session      *)
(* whose driver has one slot for an explicit transaction (tx_begin,          *)
(* tx_execute, tx_finish), beside a user who begins and finishes             *)
(* transactions of their own and may cancel the script at any await; a       *)
(* failed run can be resumed where the result page offers it (scriptRun.ts). *)
EXTENDS Integers, Sequences, FiniteSets

CONSTANTS
  Scripts,          \* scripts: sequences of Kinds
  Drivers,          \* subset of {"mysql", "postgres", "sqlite"}
  Modes,            \* records [batch, cont, wrap, unclosed]
  Eagers,           \* subset of BOOLEAN: values of eager on MySQL
  MaxRuns,          \* bound on runs of the script
  MaxBegins         \* bound on transactions of the user

Kinds == {"write", "ddl", "begin", "commit", "rollback"}

\* validate_options: going on after errors excludes the outer transaction; a
\* batch leaves the policy for an unclosed transaction at its default.
AllModes ==
  {m \in [batch : BOOLEAN, cont : BOOLEAN, wrap : BOOLEAN,
          unclosed : {"rollback", "commit"}] :
     ~(m.cont /\ m.wrap) /\ (m.batch => m.unclosed = "rollback")}

ASSUME ScriptAssumption ==
  /\ Scripts \subseteq Seq(Kinds)
  /\ Drivers \subseteq {"mysql", "postgres", "sqlite"}
  /\ Modes \subseteq AllModes
  /\ Eagers \subseteq BOOLEAN /\ MaxRuns \in Nat /\ MaxBegins \in Nat

VARIABLES
  script, driver, mode,  \* what is run, chosen once
  eager,       \* a DDL statement that fails has committed before it fails
  slot,        \* whose transaction the driver holds: "none", "script", "user"
  txState,     \* the script's transaction: "open", "ended" by DDL, "aborted"
  inTx,        \* statements done in it and not yet durable
  kept,        \* statements this run made durable
  before,      \* statements earlier runs made durable
  stale,       \* the caches hold what a durable statement has changed
  pc,          \* "idle", "next", "call", "answered", "invalidate", "over"
  op,          \* the call under way
  answer,      \* "ok" or "err"
  seen, startAt,
  active,      \* TxGuard.active
  external,    \* the batch runs on the user's transaction
  pending,     \* pending_in_tx
  txBegin,     \* tx_begin_index, 0 for None
  unsafe,      \* tx_restart_unsafe
  wrote,       \* a statement has succeeded
  skipping,
  committed,   \* the shared counter a cancellation reports
  outcome,     \* "none", "done", "failed", "refused", "cancelled"
  offer,       \* the statement the result page offers to resume at, 0 for none
  commitErr,   \* a COMMIT of this run has failed
  cutOff,      \* cancelled where no task invalidates the caches
  rollbackTask, invalTask,  \* tasks spawned when the run was dropped
  runs,
  uiTx,        \* the interface shows a transaction (txActive)
  userOp,      \* the user's command under way: "none", "begin", "finish"
  begins

jobVars == <<script, driver, mode, eager>>
txVars == <<slot, txState, inTx>>
factVars == <<kept, before, stale>>
callVars == <<pc, op, answer>>
posVars == <<seen, startAt, skipping, external>>
guardVars == <<active, pending, txBegin, unsafe>>
reportVars == <<wrote, committed, outcome, offer, commitErr, cutOff>>
taskVars == <<rollbackTask, invalTask>>
userVars == <<uiTx, userOp, begins>>
vars == <<jobVars, txVars, factVars, callVars, posVars, guardVars, reportVars,
          taskVars, runs, userVars>>

Last == Len(script)
Statements == {i \in 1..Last : script[i] \in {"write", "ddl"}}

Init ==
  /\ script \in Scripts /\ driver \in Drivers /\ mode \in Modes
  /\ eager \in (IF driver = "mysql" THEN Eagers ELSE {FALSE})
  /\ slot = "none" /\ txState = "open" /\ inTx = {}
  /\ kept = {} /\ before = {} /\ stale = FALSE
  /\ pc = "idle" /\ op = "none" /\ answer = "ok"
  /\ seen = 0 /\ startAt = 1 /\ skipping = FALSE /\ external = FALSE
  /\ active = FALSE /\ pending = 0 /\ txBegin = 0 /\ unsafe = FALSE
  /\ wrote = FALSE /\ committed = 0 /\ outcome = "none" /\ offer = 0
  /\ commitErr = FALSE /\ cutOff = FALSE
  /\ rollbackTask = FALSE /\ invalTask = FALSE /\ runs = 0
  /\ uiTx = FALSE /\ userOp = "none" /\ begins = 0

-----------------------------------------------------------------------------
(* The start: a file is refused while the session has a transaction, a      *)
(* batch goes on in it.                                                     *)

Refused == slot # "none" /\ (~mode.batch \/ mode.wrap)

\* The mutex of the slot is held by a call that begins or finishes.
SlotLocked ==
  \/ pc = "call" /\ op \in {"wrapBegin", "begin", "commit", "rollback",
                            "eofCommit", "eofRollback", "abortRollback",
                            "batchRollback"}
  \/ pc = "answered" /\ op \in {"wrapBegin", "begin"}

Start ==
  /\ pc = "idle" /\ runs < MaxRuns
  /\ runs' = runs + 1
  /\ outcome' = IF Refused THEN "refused" ELSE "none"
  /\ external' = (~Refused /\ slot # "none")
  /\ IF Refused THEN pc' = "over" /\ UNCHANGED op
     ELSE IF mode.wrap THEN pc' = "call" /\ op' = "wrapBegin"
     ELSE pc' = "next" /\ UNCHANGED op
  /\ UNCHANGED <<jobVars, txVars, factVars, answer, seen, startAt, skipping,
                 guardVars, wrote, committed, offer, commitErr, cutOff,
                 taskVars, userVars>>

\* A new Runner starts with its guard off.
FreshGuard == active' = FALSE /\ pending' = 0 /\ txBegin' = 0 /\ unsafe' = FALSE

\* The user takes the offer of a failed run.
Resume ==
  /\ pc = "over" /\ outcome = "failed" /\ offer # 0 /\ runs < MaxRuns
  /\ pc' = "idle" /\ startAt' = offer
  /\ before' = before \cup kept /\ kept' = {}
  /\ seen' = 0 /\ skipping' = FALSE /\ external' = FALSE
  /\ FreshGuard
  /\ wrote' = FALSE /\ committed' = 0 /\ outcome' = "none" /\ offer' = 0
  /\ commitErr' = FALSE /\ cutOff' = FALSE
  /\ UNCHANGED <<jobVars, txVars, stale, op, answer, taskVars, runs,
                 userVars>>

-----------------------------------------------------------------------------
(* What the server does with a call.                                        *)

Call(o) == pc' = "call" /\ op' = o /\ UNCHANGED answer
Answered(a) == pc' = "answered" /\ answer' = a /\ UNCHANGED op

\* A statement through the pool commits by itself.
Autocommit(i) ==
  kept' = kept \cup {i} /\ stale' = TRUE /\ UNCHANGED <<txVars, before>>

\* MySQL commits the open transaction and the DDL statement with it.
ImplicitCommit(S) ==
  /\ kept' = kept \cup inTx \cup S /\ stale' = (stale \/ inTx \cup S # {})
  /\ inTx' = {} /\ txState' = "ended"
  /\ UNCHANGED <<slot, before>>

CommitsImplicitly(i) == driver = "mysql" /\ script[i] = "ddl"

ExecInTx(i) ==
  IF txState = "ended"
    THEN Autocommit(i)
    ELSE IF CommitsImplicitly(i) THEN ImplicitCommit({i})
    ELSE inTx' = inTx \cup {i} /\ UNCHANGED <<slot, txState, factVars>>

FailInTx(i) ==
  \/ /\ txState' = IF driver = "postgres" THEN "aborted" ELSE txState
     /\ UNCHANGED <<slot, inTx, factVars>>
  \/ /\ eager /\ CommitsImplicitly(i) /\ txState = "open"
     /\ ImplicitCommit({})

\* The runner's statement goes where its guard and the start have said.
Exec ==
  /\ pc = "call" /\ op = "exec"
  /\ \/ ~active /\ ~external
        /\ \/ Autocommit(seen) /\ Answered("ok")
           \/ UNCHANGED <<txVars, factVars>> /\ Answered("err")
     \/ active /\ slot = "script"
        /\ \/ txState # "aborted" /\ ExecInTx(seen) /\ Answered("ok")
           \/ FailInTx(seen) /\ Answered("err")
     \/ external /\ slot = "user"
        /\ UNCHANGED <<txVars, factVars>>
        /\ \E a \in {"ok", "err"} : Answered(a)
     \/ (active \/ external) /\ slot = "none"
        /\ UNCHANGED <<txVars, factVars>> /\ Answered("err")
  /\ UNCHANGED <<jobVars, posVars, guardVars, reportVars, taskVars, runs,
                 userVars>>

\* The slot itself is filled when the runner goes on.
Begin ==
  /\ pc = "call" /\ op \in {"wrapBegin", "begin"}
  /\ \/ slot = "none" /\ Answered("ok")
     \/ Answered("err")
  /\ UNCHANGED <<jobVars, txVars, factVars, posVars, guardVars, reportVars,
                 taskVars, runs, userVars>>

\* tx_finish takes what the slot holds; a connection whose COMMIT or ROLLBACK
\* failed is closed, and a COMMIT may have been done all the same.
TakeSlot == slot' = "none" /\ inTx' = {} /\ txState' = "open"

Durable == kept' = kept \cup inTx /\ stale' = (stale \/ inTx # {})
Undone == UNCHANGED <<kept, stale>>

FinishWith(commit, a) ==
  /\ TakeSlot /\ UNCHANGED before
  /\ \/ slot = "none" /\ a = "err" /\ Undone
     \/ slot # "none" /\ commit /\ txState # "aborted" /\ Durable
     \/ slot # "none" /\ (commit => a = "err") /\ Undone

CommitOps == {"commit", "eofCommit"}
RollbackOps == {"rollback", "eofRollback", "abortRollback", "batchRollback"}

Finish ==
  /\ pc = "call" /\ op \in CommitOps \cup RollbackOps
  /\ \E a \in {"ok", "err"} : FinishWith(op \in CommitOps, a) /\ Answered(a)
  /\ UNCHANGED <<jobVars, posVars, guardVars, reportVars, taskVars, runs,
                 userVars>>

-----------------------------------------------------------------------------
(* The next statement: run_statement up to its first await.                 *)

IsControl(i) == ~external /\ script[i] \in {"begin", "commit", "rollback"}
Skips(i) == skipping \/ i < startAt \/ (mode.wrap /\ IsControl(i))

\* COMMIT and ROLLBACK without a transaction of the script do nothing.
NothingToDo(i) == IsControl(i) /\ script[i] # "begin" /\ ~active

Reading == pc = "next" /\ seen < Last

SkipStatement ==
  /\ Reading /\ (Skips(seen + 1) \/ NothingToDo(seen + 1))
  /\ seen' = seen + 1
  /\ UNCHANGED <<jobVars, txVars, factVars, callVars, startAt, skipping,
                 external, guardVars, reportVars, taskVars, runs, userVars>>

Takes == Reading /\ ~Skips(seen + 1) /\ ~NothingToDo(seen + 1)

TakeStatement ==
  /\ Takes /\ ~IsControl(seen + 1)
  /\ seen' = seen + 1 /\ Call("exec")
  /\ UNCHANGED <<jobVars, txVars, factVars, startAt, skipping, external,
                 guardVars, reportVars, taskVars, runs, userVars>>

\* Variant for mutation: a ROLLBACK leaves the count of its statements.
DisarmKeepsCount(o) == active' = FALSE /\ UNCHANGED pending

\* The guard is off before the call; the count of the statements in the
\* transaction waits for the answer of a commit.
Disarm(o) ==
  /\ active' = FALSE
  /\ pending' = IF o \in CommitOps THEN pending ELSE 0

\* Variant for mutation: the guard is on before BEGIN has been answered.
GuardBeforeArmed(o) ==
  IF o = "begin" THEN active' = TRUE /\ UNCHANGED pending ELSE Disarm(o)

GuardBefore(o) ==
  IF o = "begin" THEN UNCHANGED <<active, pending>> ELSE Disarm(o)

TakeControl ==
  /\ Takes /\ IsControl(seen + 1) /\ ~(script[seen + 1] = "begin" /\ active)
  /\ seen' = seen + 1 /\ Call(script[seen + 1]) /\ GuardBefore(script[seen + 1])
  /\ UNCHANGED <<jobVars, txVars, factVars, startAt, skipping, external,
                 txBegin, unsafe, reportVars, taskVars, runs, userVars>>

-----------------------------------------------------------------------------
(* A failure ends the run, unless it goes on after errors; a batch reports  *)
(* the rest as skipped.                                                     *)

InTransaction == active \/ txBegin # 0
OfferedBegin == IF unsafe THEN 0 ELSE txBegin

\* Variant for mutation: the failed statement is offered inside a transaction.
OfferForFailed(i) == IF mode.wrap THEN 0 ELSE i

\* What resumeStartAt and resumeFromBeginAt make of a failed statement.
OfferFor(i) == IF mode.wrap THEN 0 ELSE IF InTransaction THEN OfferedBegin ELSE i

RollBack(o, otherwise) ==
  IF active THEN Call(o) /\ Disarm(o)
            ELSE pc' = otherwise /\ UNCHANGED <<op, answer, active, pending>>

\* abort_with: roll the script's transaction back, then report.
AbortWith(i) ==
  /\ offer' = i /\ outcome' = "failed" /\ UNCHANGED skipping
  /\ RollBack("abortRollback", "invalidate")

GoOn == pc' = "next" /\ UNCHANGED <<op, answer>>

\* Variant for mutation: a batch runs the rest after its rollback.
OnFailureGoesOn(i) ==
  \/ mode.batch /\ ~mode.cont /\ RollBack("batchRollback", "next")
     /\ UNCHANGED <<skipping, offer, outcome>>
  \/ /\ mode.cont /\ GoOn
     /\ UNCHANGED <<skipping, offer, outcome, active, pending>>
  \/ ~mode.batch /\ ~mode.cont /\ AbortWith(i)

OnFailure(i) ==
  \/ /\ mode.batch /\ ~mode.cont
     /\ skipping' = TRUE /\ UNCHANGED <<offer, outcome>>
     /\ RollBack("batchRollback", "next")
  \/ /\ mode.cont /\ GoOn
     /\ UNCHANGED <<skipping, offer, outcome, active, pending>>
  \/ ~mode.batch /\ ~mode.cont /\ AbortWith(i)

\* A BEGIN inside the script's own transaction.
NestedBegin ==
  /\ Takes /\ IsControl(seen + 1) /\ script[seen + 1] = "begin" /\ active
  /\ seen' = seen + 1 /\ OnFailure(OfferFor(seen + 1))
  /\ UNCHANGED <<jobVars, txVars, factVars, startAt, external, txBegin, unsafe,
                 wrote, committed, commitErr, cutOff, taskVars, runs, userVars>>

\* The file cannot be read on, or is not in its encoding.
ReadError ==
  /\ pc = "next" /\ ~mode.batch /\ AbortWith(0)
  /\ UNCHANGED <<jobVars, txVars, factVars, seen, startAt, external, txBegin,
                 unsafe, wrote, committed, commitErr, cutOff, taskVars, runs,
                 userVars>>

-----------------------------------------------------------------------------
(* The runner goes on with the answer of a call.                            *)

AnsweredTo(o, a) == pc = "answered" /\ op = o /\ answer = a

Begun ==
  /\ AnsweredTo("begin", "ok") \/ AnsweredTo("wrapBegin", "ok")
  /\ slot' = "script" /\ txState' = "open" /\ inTx' = {}
  /\ active' = TRUE /\ unsafe' = FALSE /\ GoOn
  /\ txBegin' = IF op = "begin" THEN seen ELSE txBegin
  /\ UNCHANGED <<jobVars, factVars, posVars, pending, reportVars, taskVars,
                 runs, userVars>>

WrapFails ==
  /\ AnsweredTo("wrapBegin", "err")
  /\ outcome' = "failed" /\ pc' = "over"
  /\ UNCHANGED <<jobVars, txVars, factVars, op, answer, posVars, guardVars, wrote,
                 committed, offer, commitErr, cutOff, taskVars, runs, userVars>>

BeginFails ==
  /\ AnsweredTo("begin", "err") /\ OnFailure(OfferFor(seen))
  /\ UNCHANGED <<jobVars, txVars, factVars, seen, startAt, external, txBegin,
                 unsafe, wrote, committed, commitErr, cutOff, taskVars, runs,
                 userVars>>

\* Variant for mutation: DDL is not looked for.
RestartUnsafeNever(i) == unsafe

\* A DDL statement of MySQL makes a restart at BEGIN unsafe.
RestartUnsafe(i) == unsafe \/ CommitsImplicitly(i)

Succeeded ==
  /\ AnsweredTo("exec", "ok") /\ GoOn /\ wrote' = TRUE
  /\ IF active
       THEN /\ unsafe' = RestartUnsafe(seen)
            /\ pending' = pending + 1 /\ UNCHANGED committed
       ELSE /\ committed' = IF external THEN committed ELSE committed + 1
            /\ UNCHANGED <<unsafe, pending>>
  /\ UNCHANGED <<jobVars, txVars, factVars, posVars, active, txBegin, outcome,
                 offer, commitErr, cutOff, taskVars, runs, userVars>>

StatementFails ==
  /\ AnsweredTo("exec", "err") /\ OnFailure(OfferFor(seen))
  /\ UNCHANGED <<jobVars, txVars, factVars, seen, startAt, external, txBegin,
                 unsafe, wrote, committed, commitErr, cutOff, taskVars, runs,
                 userVars>>

CountCommitted == committed' = committed + pending /\ pending' = 0 /\ txBegin' = 0

Committed ==
  /\ AnsweredTo("commit", "ok") /\ GoOn /\ CountCommitted
  /\ UNCHANGED <<jobVars, txVars, factVars, posVars, active, unsafe, wrote, outcome,
                 offer, commitErr, cutOff, taskVars, runs, userVars>>

\* Nobody knows whether it was committed: no restart at BEGIN.
CommitFails ==
  /\ AnsweredTo("commit", "err")
  /\ unsafe' = TRUE /\ commitErr' = TRUE
  /\ txBegin' = IF mode.cont THEN 0 ELSE txBegin
  /\ OnFailure(0)
  /\ UNCHANGED <<jobVars, txVars, factVars, seen, startAt, external, wrote,
                 committed, cutOff, taskVars, runs, userVars>>

RolledBack ==
  /\ AnsweredTo("rollback", "ok") /\ GoOn /\ txBegin' = 0
  /\ UNCHANGED <<jobVars, txVars, factVars, posVars, active, pending, unsafe,
                 reportVars, taskVars, runs, userVars>>

RollbackFails ==
  /\ AnsweredTo("rollback", "err")
  /\ txBegin' = IF mode.cont THEN 0 ELSE txBegin
  /\ OnFailure(OfferFor(seen))
  /\ UNCHANGED <<jobVars, txVars, factVars, seen, startAt, external, unsafe, wrote,
                 committed, commitErr, cutOff, taskVars, runs, userVars>>

BatchRolledBack ==
  /\ pc = "answered" /\ op = "batchRollback" /\ GoOn
  /\ UNCHANGED <<jobVars, txVars, factVars, posVars, guardVars, reportVars,
                 taskVars, runs, userVars>>

-----------------------------------------------------------------------------
(* The end of the run: an open transaction is committed when the runner     *)
(* began it or the user chose so, and rolled back otherwise; then the       *)
(* caches are invalidated and the outcome is reported.                      *)

AtEnd == pc = "next" /\ seen = Last

CloseAtEnd ==
  /\ AtEnd /\ active
  /\ LET o == IF mode.wrap \/ mode.unclosed = "commit"
                THEN "eofCommit" ELSE "eofRollback"
     IN /\ Call(o) /\ Disarm(o)
        /\ txBegin' = IF o = "eofRollback" THEN 0 ELSE txBegin
  /\ UNCHANGED <<jobVars, txVars, factVars, posVars, unsafe, reportVars, taskVars,
                 runs, userVars>>

Closed ==
  /\ AnsweredTo("eofCommit", "ok") \/ AnsweredTo("eofRollback", "ok")
  /\ IF op = "eofCommit" THEN CountCommitted
                         ELSE UNCHANGED <<committed, pending, txBegin>>
  /\ outcome' = "done" /\ pc' = "invalidate"
  /\ UNCHANGED <<jobVars, txVars, factVars, op, answer, posVars, active, unsafe,
                 wrote, offer, commitErr, cutOff, taskVars, runs, userVars>>

CloseFails ==
  /\ AnsweredTo("eofCommit", "err") \/ AnsweredTo("eofRollback", "err")
  /\ commitErr' = (commitErr \/ op = "eofCommit")
  /\ AbortWith(0)
  /\ UNCHANGED <<jobVars, txVars, factVars, seen, startAt, external, txBegin,
                 unsafe, wrote, committed, cutOff, taskVars, runs, userVars>>

NothingOpen ==
  /\ AtEnd /\ ~active
  /\ outcome' = "done" /\ pc' = "invalidate"
  /\ UNCHANGED <<jobVars, txVars, factVars, op, answer, posVars, guardVars, wrote,
                 committed, offer, commitErr, cutOff, taskVars, runs, userVars>>

Aborted ==
  /\ pc = "answered" /\ op = "abortRollback" /\ pc' = "invalidate"
  /\ UNCHANGED <<jobVars, txVars, factVars, op, answer, posVars, guardVars,
                 reportVars, taskVars, runs, userVars>>

Invalidate ==
  /\ pc = "invalidate" /\ pc' = "over"
  /\ stale' = (stale /\ ~wrote)
  /\ UNCHANGED <<jobVars, txVars, kept, before, op, answer, posVars,
                 guardVars, reportVars, taskVars, runs, userVars>>

-----------------------------------------------------------------------------
(* The user cancels: the future is dropped at its await, and what has to    *)
(* be put right is left to tasks that TxGuard and Runner spawn.  A COMMIT   *)
(* or ROLLBACK under way is carried out before the connection is used       *)
(* again: it is cancelled with its answer.                                  *)

\* Variants for mutation: one of the two tasks is not spawned.
LeftUnfinished == rollbackTask' = FALSE /\ invalTask' = (wrote /\ pc # "invalidate")

LeftStale == rollbackTask' = active /\ invalTask' = FALSE

LeftToTasks == rollbackTask' = active /\ invalTask' = (wrote /\ pc # "invalidate")

Cancel ==
  /\ pc \in {"next", "call", "answered", "invalidate"}
  /\ ~(pc = "call" /\ op \in CommitOps \cup RollbackOps)
  /\ pc' = "over" /\ outcome' = "cancelled" /\ offer' = 0
  /\ cutOff' = (pc = "invalidate" \/ (pc = "answered" /\ ~wrote))
  /\ active' = FALSE /\ LeftToTasks
  /\ UNCHANGED <<jobVars, txVars, kept, before, stale, op, answer, posVars,
                 pending, txBegin, unsafe, wrote, committed, commitErr, runs,
                 userVars>>

RollbackTask ==
  /\ rollbackTask /\ rollbackTask' = FALSE /\ TakeSlot
  /\ UNCHANGED <<jobVars, factVars, callVars, posVars, guardVars, reportVars,
                 invalTask, runs, userVars>>

InvalTask ==
  /\ invalTask /\ invalTask' = FALSE /\ stale' = FALSE
  /\ UNCHANGED <<jobVars, txVars, kept, before, callVars, posVars,
                 guardVars, reportVars, rollbackTask, runs, userVars>>

-----------------------------------------------------------------------------
(* The user's own transaction: a command, what the server does, its answer. *)

notUser == <<jobVars, factVars, callVars, posVars, guardVars, reportVars,
             taskVars, runs>>

ClickBegin ==
  /\ userOp = "none" /\ ~uiTx /\ begins < MaxBegins
  /\ userOp' = "begin" /\ begins' = begins + 1
  /\ UNCHANGED <<notUser, txVars, uiTx>>

UserBegin ==
  /\ userOp = "begin" /\ ~SlotLocked
  /\ \/ slot = "none" /\ slot' = "user" /\ userOp' = "begun"
     \/ UNCHANGED slot /\ userOp' = "none"
  /\ UNCHANGED <<notUser, txState, inTx, uiTx, begins>>

ClickFinish ==
  /\ userOp = "none" /\ uiTx /\ userOp' = "finish"
  /\ UNCHANGED <<notUser, txVars, uiTx, begins>>

UserFinish ==
  /\ userOp = "finish" /\ ~SlotLocked /\ TakeSlot /\ userOp' = "finished"
  /\ UNCHANGED <<notUser, uiTx, begins>>

\* The interface takes a transaction for over whether finishing worked or not.
UserAnswer ==
  /\ userOp \in {"begun", "finished"}
  /\ uiTx' = (userOp = "begun") /\ userOp' = "none"
  /\ UNCHANGED <<notUser, txVars, begins>>

-----------------------------------------------------------------------------
Server == Exec \/ Begin \/ Finish

Runner ==
  \/ SkipStatement \/ TakeStatement \/ TakeControl \/ NestedBegin
  \/ Begun \/ WrapFails \/ BeginFails \/ Succeeded \/ StatementFails
  \/ Committed \/ CommitFails \/ RolledBack \/ RollbackFails \/ BatchRolledBack
  \/ CloseAtEnd \/ Closed \/ CloseFails \/ NothingOpen \/ Aborted \/ Invalidate

Next ==
  \/ Start \/ Resume \/ Server \/ Runner \/ ReadError \/ Cancel
  \/ RollbackTask \/ InvalTask
  \/ ClickBegin \/ UserBegin \/ ClickFinish \/ UserFinish \/ UserAnswer

Spec == Init /\ [][Next]_vars

\* The server answers, the runtime polls a task that can go on.
FairSpec == Spec /\ WF_vars(Server) /\ WF_vars(Runner) /\ WF_vars(RollbackTask)

-----------------------------------------------------------------------------
Ops == {"none", "exec", "wrapBegin", "begin"} \cup CommitOps \cup RollbackOps

DataTypes ==
  /\ script \in Scripts /\ driver \in Drivers /\ mode \in Modes /\ eager \in BOOLEAN
  /\ slot \in {"none", "script", "user"} /\ txState \in {"open", "ended", "aborted"}
  /\ inTx \subseteq 1..seen /\ kept \subseteq 1..seen
  /\ before \subseteq 1..Last
  /\ seen \in 0..Last /\ startAt \in Nat \ {0}
  /\ txBegin \in 0..seen /\ offer \in 0..seen
  /\ pending \in Nat /\ committed \in Nat

FlagTypes ==
  /\ stale \in BOOLEAN /\ skipping \in BOOLEAN /\ external \in BOOLEAN
  /\ active \in BOOLEAN /\ unsafe \in BOOLEAN /\ wrote \in BOOLEAN
  /\ commitErr \in BOOLEAN /\ cutOff \in BOOLEAN
  /\ rollbackTask \in BOOLEAN /\ invalTask \in BOOLEAN /\ uiTx \in BOOLEAN

StepTypes ==
  /\ pc \in {"idle", "next", "call", "answered", "invalidate", "over"}
  /\ op \in Ops /\ answer \in {"ok", "err"}
  /\ outcome \in {"none", "done", "failed", "refused", "cancelled"}
  /\ userOp \in {"none", "begin", "begun", "finish", "finished"}
  /\ runs \in 0..MaxRuns /\ begins \in 0..MaxBegins

TypeOK == DataTypes /\ FlagTypes /\ StepTypes

-----------------------------------------------------------------------------
\* Reference: what the script, run once from its start to its end, makes
\* durable on this driver with this policy for an unclosed transaction.
After(s, i) ==
  CASE script[i] = "begin"    -> [s EXCEPT !.open = TRUE]
    [] script[i] = "commit"   -> [open |-> FALSE, undecided |-> {},
                                  durable |-> s.durable \cup s.undecided]
    [] script[i] = "rollback" -> [s EXCEPT !.open = FALSE, !.undecided = {}]
    [] OTHER ->
         IF s.open /\ ~CommitsImplicitly(i)
           THEN [s EXCEPT !.undecided = @ \cup {i}]
           ELSE [open |-> FALSE, undecided |-> {},
                 durable |-> s.durable \cup s.undecided \cup {i}]

Reference ==
  LET after[n \in 0..Last] ==
        IF n = 0 THEN [open |-> FALSE, undecided |-> {}, durable |-> {}]
                 ELSE After(after[n - 1], n)
      end == after[Last]
  IN IF mode.wrap THEN Statements
     ELSE IF mode.unclosed = "commit" THEN end.durable \cup end.undecided
     ELSE end.durable

\* A script and its clean-up never end the user's own transaction, and never
\* leave the interface with a transaction that is not there (or the other
\* way round) between two commands of the user.
OwnTransactions == userOp = "none" => (uiTx <=> slot = "user")

\* A resumed run repeats no statement that an earlier run made durable.
RestartRepeatsNothing == kept \cap before = {}

\* That holds where a DDL statement that fails commits nothing.
NothingTwice == ~eager => kept \cap before = {}

\* A script that came to its end, in one run or in resumed ones, has made
\* durable exactly what one run without a failure would have.
ResumeExact ==
  (outcome = "done" /\ ~mode.cont /\ ~skipping /\ ~external)
    => kept \cup before = Reference

\* A run in one transaction keeps all of its statements or none, however it
\* ends, where the driver has transactional DDL.
AllOrNothing ==
  (mode.wrap /\ driver # "mysql" /\ pc = "over") => kept \in {{}, Statements}

\* The count reported on a cancellation never exceeds what is durable, unless
\* a COMMIT has failed.
ClaimHolds == commitErr \/ committed <= Cardinality(kept)

\* When a run is over and its tasks are done, the caches hold nothing a
\* durable statement has changed, unless it was cut off while its first
\* answer was on its way or in the invalidation itself.
CachesFollow == (pc = "over" /\ ~invalTask /\ ~cutOff) => ~stale

\* A script's transaction does not stay in the session.
SlotFreed == slot = "script" ~> slot # "script"
=============================================================================
