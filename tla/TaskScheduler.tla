--------------------------- MODULE TaskScheduler ---------------------------
(***************************************************************************)
(* Scheduled tasks (src-tauri/src/tasks/, src-tauri/src/commands/tasks.rs): *)
(* the loop that looks at tasks.json every few seconds and starts what is   *)
(* due, the runs it and "run now" start, the commands of the task manager,  *)
(* and the process being quit or killed at any moment.                      *)
(*                                                                          *)
(* A read or write of tasks.json is one step: every one of them holds the   *)
(* store's lock from the read to the rename (module JsonStore). A tick is   *)
(* NOT one step: it works on the copy it read first, task by task, and      *)
(* waits while it records a skipped firing, so runs and commands come in    *)
(* between. Times are small naturals; 0 stands for "none" in next_run_at.   *)
(* The order of the tasks in the file is left open.                         *)
(***************************************************************************)
EXTENDS Integers, FiniteSets

CONSTANTS
  Tasks,        \* task ids; an id is never used again after a delete
  Periods,      \* what a schedule can add to the time it is computed from
  Limits,       \* values of pause_after_failures (0: never pause)
  SsmTasks,     \* tasks whose profile connects through an SSM tunnel
  MaxRetries,   \* connect_retry.max_retries
  MaxTime,      \* bound on the clock
  MaxRuns,      \* bound on the runs ever started
  MaxUpsets     \* bound on the commands that change tasks.json, the ends of
                \* the process and the failed store operations, together

ASSUME SchedulerAssumption ==
  /\ Tasks # {} /\ SsmTasks \subseteq Tasks
  /\ Periods \subseteq Nat \ {0} /\ Periods # {}
  /\ Limits \subseteq Nat /\ Limits # {}
  /\ MaxRetries \in Nat /\ MaxTime \in Nat /\ MaxRuns \in Nat
  /\ MaxUpsets \in Nat

VARIABLES
  now,        \* the clock
  \* tasks.json
  saved,      \* the tasks in it
  enabled, paused,           \* those that are enabled, that failures stopped
  next, fails, limit, every, \* next_run_at, consecutive_failures,
                             \* pause_after_failures, the schedule
  missed,     \* settings.catch_up_missed: "skip" or "catchup"
  used,       \* ids handed out so far
  \* the process
  pc,         \* its scheduler loop ("down": the process is not running)
  tick,       \* is_startup: "first" or "later"
  bootAt, bootErrors,        \* the clock and ioErrors when it was started
  copy,       \* the tick's copy of tasks.json
  todo,       \* tasks of that copy the tick has yet to look at
  cur,        \* the due task in hand, and when it was due
  running,    \* RUNNING: tasks whose RunGuard is held
  \* its runs, by number
  started,    \* how many there were
  task, due,  \* the task, and the firing it stands for (0: run now)
  origin,     \* how a firing that lay before the start came to be run
  begunOn,    \* runs whose task was enabled when they began
  phase, tries, result,
  written,    \* runs whose result is in tasks.json
  open,       \* runs whose session is registered
  closing,    \* runs whose disconnect was handed to a detached task
  adrift,     \* runs cancelled while their session had no guard yet
  skipped,    \* task_runs rows with status "skipped"
  edits, crashes, ioErrors   \* how often each of these has happened

fileVars == <<saved, enabled, paused, next, fails, limit, every, missed, used>>
tickVars == <<pc, tick, copy, todo, cur>>
bootVars == <<bootAt, bootErrors>>
beginVars == <<started, task, due, origin, begunOn>>
runVars  == <<running, phase, tries, result, written, open, closing, adrift>>
upsetVars == <<edits, crashes, ioErrors>>
vars == <<now, fileVars, tickVars, bootVars, beginVars, runVars, skipped, upsetVars>>

RunIds == 1 .. MaxRuns

(* Where a run is: executor.rs run_once up to "close", then the recording.  *)
Executing == {"connect", "retry", "keepalive", "work", "close"}
Recording == {"record", "finish"}
Live(i) == phase[i] \in Executing \cup Recording

Up == pc # "down"

NoCopy == [on |-> {}, next |-> [t \in Tasks |-> 0],
           every |-> [t \in Tasks |-> 0], missed |-> "skip", now |-> 0]
NoFiring == [task |-> CHOOSE t \in Tasks : TRUE, due |-> 0]

-----------------------------------------------------------------------------
(* schedule.rs *)

NextRunAfter(step, t) == t + step

IsDue(n, t) == n # 0 /\ n <= t

(* What was missed while the application was closed is kept or skipped.     *)
\* Variant for mutation: it is always kept.
AlwaysKeeps(n, step, t, keep) == IF n # 0 THEN n ELSE NextRunAfter(step, t)
ResolveStartup(n, step, t, keep) ==
  IF n > t \/ (n # 0 /\ keep) THEN n ELSE NextRunAfter(step, t)

(* When a task of the tick's copy is due. *)
EffectiveNext(t) ==
  LET n    == copy.next[t]
      step == copy.every[t]
  IN IF tick = "first"
     THEN ResolveStartup(n, step, copy.now, copy.missed = "catchup")
     ELSE IF n = 0 THEN NextRunAfter(step, copy.now) ELSE n

-----------------------------------------------------------------------------
(* tasks.json *)

MoreUpsets == edits + crashes + ioErrors < MaxUpsets

(* A store operation that returns an error leaves the file as it was. *)
StoreFails ==
  /\ MoreUpsets
  /\ ioErrors' = ioErrors + 1
  /\ UNCHANGED <<fileVars, edits, crashes>>

(* persist_next_run: one field of the definition as the file has it now;    *)
(* nothing for a task that was deleted.                                     *)
\* Variant for mutation: it writes the tick's copy back.
CopyBack(t, n) ==
  /\ next' = [next EXCEPT ![t] = n]
  /\ enabled' = (enabled \ {t}) \cup (copy.on \cap {t})
OnlyNext(t, n) ==
  /\ next' = [next EXCEPT ![t] = n]
  /\ UNCHANGED enabled

PersistNextRun(t, n) ==
  /\ IF t \in saved THEN OnlyNext(t, n) ELSE UNCHANGED <<next, enabled>>
  /\ UNCHANGED <<saved, paused, fails, limit, every, missed, used, upsetVars>>

(* apply_run_result: the result enters the streak of failures, and may stop *)
(* the task.                                                                *)
Streak(t, ok) == fails' = [fails EXCEPT ![t] = IF ok THEN 0 ELSE @ + 1]

ApplyRunResult(t, ok) ==
  LET stop == ~ok /\ t \in enabled /\ limit[t] > 0 /\ fails[t] + 1 >= limit[t]
  IN /\ Streak(t, ok)
     /\ enabled' = IF stop THEN enabled \ {t} ELSE enabled
     /\ paused' = IF stop THEN paused \cup {t} ELSE paused
     /\ next' = IF stop THEN [next EXCEPT ![t] = 0] ELSE next

-----------------------------------------------------------------------------
(* try_acquire_run: one run per task and process. *)
\* Variant for mutation: the guard is not asked.
AlwaysFree(t) == TRUE
Free(t) == t \notin running

(* RunGuard::drop *)
\* Variant for mutation: a cancelled run leaves its guard behind.
KeepIfCancelled(i) ==
  IF result[i] = "cancelled" THEN running ELSE running \ {task[i]}
DropGuard(i) == running \ {task[i]}

(* A run begins: for a firing d, or by hand (0).                            *)
Begin(t, d, how, on) ==
  LET i == started + 1
  IN /\ Free(t) /\ started < MaxRuns
     /\ running' = running \cup {t}
     /\ started' = i
     /\ task' = [task EXCEPT ![i] = t]
     /\ due' = [due EXCEPT ![i] = d]
     /\ origin' = [origin EXCEPT ![i] = how]
     /\ begunOn' = IF on THEN begunOn \cup {i} ELSE begunOn
     /\ phase' = [phase EXCEPT ![i] = "connect"]
     /\ UNCHANGED <<tries, result, written, open, closing, adrift>>

-----------------------------------------------------------------------------
(* The file an earlier process left: any tasks, each waiting for a run that *)
(* was missed.                                                              *)
Init ==
  /\ saved \in SUBSET Tasks /\ enabled = saved /\ paused = {} /\ used = saved
  /\ next = [t \in Tasks |-> IF t \in saved THEN 1 ELSE 0]
  /\ fails = [t \in Tasks |-> 0]
  /\ limit \in [Tasks -> Limits] /\ every \in [Tasks -> Periods]
  /\ missed = "skip"
  /\ now = 2 /\ bootAt = 2 /\ bootErrors = 0
  /\ pc = "asleep" /\ tick = "first"
  /\ copy = NoCopy /\ todo = {} /\ cur = NoFiring
  /\ running = {} /\ started = 0
  /\ task = [i \in RunIds |-> NoFiring.task] /\ due = [i \in RunIds |-> 0]
  /\ origin = [i \in RunIds |-> "called"] /\ begunOn = {}
  /\ phase = [i \in RunIds |-> "none"] /\ tries = [i \in RunIds |-> 0]
  /\ result = [i \in RunIds |-> "none"] /\ written = {}
  /\ open = {} /\ closing = {} /\ adrift = {} /\ skipped = {}
  /\ edits = 0 /\ crashes = 0 /\ ioErrors = 0

(* Time passes, whatever the program does. *)
Clock ==
  /\ now < MaxTime
  /\ now' = now + 1
  /\ UNCHANGED <<fileVars, tickVars, bootVars, beginVars, runVars, skipped,
                 upsetVars>>

-----------------------------------------------------------------------------
(* The scheduler loop. *)

TickOnly == UNCHANGED <<now, bootVars>>

(* The tick reads the settings and the tasks, once, and the clock. *)
TickStart ==
  /\ pc = "asleep"
  /\ copy' = [on |-> enabled, next |-> next, every |-> every,
              missed |-> missed, now |-> now]
  /\ todo' = saved \cap enabled
  /\ pc' = "scan"
  /\ TickOnly
  /\ UNCHANGED <<fileVars, tick, cur, beginVars, runVars, skipped, upsetVars>>

(* It could not read them: the tick is over, and so is being the first one. *)
\* Variant for mutation: the loop ends with it.
LoopEnds == "ended"
AfterError == "asleep"

TickFails ==
  /\ pc = "asleep"
  /\ StoreFails
  /\ tick' = "later" /\ pc' = AfterError
  /\ TickOnly
  /\ UNCHANGED <<copy, todo, cur, beginVars, runVars, skipped>>

(* A due task: its next run is written first, so that a run longer than the *)
(* tick's interval is not picked up again. If it cannot be, nothing is run. *)
TakeUp(t) ==
  /\ cur' = [task |-> t, due |-> EffectiveNext(t)]
  /\ pc' = "fire"

\* Variant for mutation: the run is started all the same.
FireAnyway(t) == TakeUp(t)
NotPersisted(t) == UNCHANGED <<cur, pc>>

ConsumeDue(t) ==
  /\ pc = "scan" /\ t \in todo
  /\ IsDue(EffectiveNext(t), copy.now)
  /\ todo' = todo \ {t}
  /\ \/ PersistNextRun(t, NextRunAfter(copy.every[t], copy.now)) /\ TakeUp(t)
     \/ StoreFails /\ NotPersisted(t)
  /\ TickOnly
  /\ UNCHANGED <<tick, copy, beginVars, runVars, skipped>>

(* A task that is not due: its next run is written if the first tick, or    *)
(* the lack of one, changed it; a failure of that is ignored.               *)
Reschedule(t) ==
  LET n == EffectiveNext(t)
  IN /\ pc = "scan" /\ t \in todo
     /\ ~IsDue(n, copy.now)
     /\ todo' = todo \ {t}
     /\ IF n = copy.next[t] THEN UNCHANGED <<fileVars, upsetVars>>
        ELSE PersistNextRun(t, n) \/ StoreFails
     /\ TickOnly
     /\ UNCHANGED <<pc, tick, copy, cur, beginVars, runVars, skipped>>

(* A firing from before the start is called for if this is the first tick   *)
(* and it was told to catch up.                                             *)
Origin ==
  CASE cur.due >= bootAt \/ (tick = "first" /\ copy.missed = "catchup") -> "called"
    [] ioErrors > bootErrors -> "broken"
    [] OTHER -> "uncalled"

(* The guard is free: the run is started as a task of its own, with the     *)
(* definition of the tick's copy.                                           *)
Fire ==
  /\ pc = "fire"
  /\ Begin(cur.task, cur.due, Origin, TRUE)
  /\ pc' = "scan" /\ cur' = NoFiring
  /\ TickOnly
  /\ UNCHANGED <<fileVars, tick, copy, todo, skipped, upsetVars>>

(* The previous run has not ended: this firing is given up ... *)
FindRunning ==
  /\ pc = "fire"
  /\ ~Free(cur.task)
  /\ pc' = "skip"
  /\ TickOnly
  /\ UNCHANGED <<fileVars, tick, copy, todo, cur, beginVars, runVars, skipped,
                 upsetVars>>

(* ... and recorded as such. *)
RecordSkipped ==
  /\ pc = "skip"
  /\ \/ skipped' = skipped \cup {cur} /\ UNCHANGED <<fileVars, upsetVars>>
     \/ StoreFails /\ UNCHANGED skipped
  /\ pc' = "scan" /\ cur' = NoFiring
  /\ TickOnly
  /\ UNCHANGED <<tick, copy, todo, beginVars, runVars>>

TickEnd ==
  /\ pc = "scan" /\ todo = {}
  /\ pc' = "asleep" /\ tick' = "later" /\ copy' = NoCopy
  /\ TickOnly
  /\ UNCHANGED <<fileVars, todo, cur, beginVars, runVars, skipped, upsetVars>>

-----------------------------------------------------------------------------
(* A run: run_once, then record_outcome_counting. *)

To(i, p) == phase' = [phase EXCEPT ![i] = p]

Outcome(i, r) == To(i, "record") /\ result' = [result EXCEPT ![i] = r]

RunOnly == /\ Up
           /\ UNCHANGED <<now, tickVars, bootVars, beginVars, skipped>>

(* The session is registered; an SSM session then starts its keepalive      *)
(* before connect returns and the run arms its guard.                       *)
Connected(i) ==
  /\ phase[i] = "connect"
  /\ To(i, IF task[i] \in SsmTasks THEN "keepalive" ELSE "work")
  /\ open' = open \cup {i}
  /\ RunOnly
  /\ UNCHANGED <<fileVars, running, tries, result, written, closing, adrift,
                 upsetVars>>

KeepaliveStarted(i) ==
  /\ phase[i] = "keepalive"
  /\ To(i, "work")
  /\ RunOnly
  /\ UNCHANGED <<fileVars, running, tries, result, written, open, closing,
                 adrift, upsetVars>>

(* A failure that waiting cannot mend, or one retry too many. *)
ConnectFails(i) ==
  /\ phase[i] = "connect"
  /\ Outcome(i, "error")
  /\ RunOnly
  /\ UNCHANGED <<fileVars, running, tries, written, open, closing, adrift,
                 upsetVars>>

RetryLater(i) ==
  /\ phase[i] = "connect" /\ tries[i] < MaxRetries
  /\ To(i, "retry")
  /\ tries' = [tries EXCEPT ![i] = @ + 1]
  /\ RunOnly
  /\ UNCHANGED <<fileVars, running, result, written, open, closing, adrift,
                 upsetVars>>

(* After the wait the definition is read again: a task that was deleted, or *)
(* disabled since the run began, is not connected for. If it cannot be      *)
(* read, the retry goes on.                                                 *)
RetryNow(i) ==
  LET stop == task[i] \notin saved \/ (i \in begunOn /\ task[i] \notin enabled)
  IN /\ phase[i] = "retry"
     /\ \/ /\ IF stop THEN Outcome(i, "error")
              ELSE To(i, "connect") /\ UNCHANGED result
           /\ UNCHANGED <<fileVars, upsetVars>>
        \/ StoreFails /\ To(i, "connect") /\ UNCHANGED result
     /\ RunOnly
     /\ UNCHANGED <<running, tries, written, open, closing, adrift>>

(* The action is over: done, failed, or cut off after TASK_MAX_RUN_SECS. *)
WorkEnds(i, r) ==
  /\ phase[i] = "work"
  /\ To(i, "close")
  /\ result' = [result EXCEPT ![i] = r]
  /\ RunOnly
  /\ UNCHANGED <<fileVars, running, tries, written, open, closing, adrift,
                 upsetVars>>

Disconnected(i) ==
  /\ phase[i] = "close"
  /\ To(i, "record")
  /\ open' = open \ {i}
  /\ RunOnly
  /\ UNCHANGED <<fileVars, running, tries, result, written, closing, adrift,
                 upsetVars>>

(* cancel_stream on a run started by hand: its future is dropped where it   *)
(* stands. The guard it armed once connect had returned, and disarms when   *)
(* its own disconnect has returned, disconnects in a task of its own.       *)
\* Variant for mutation: it is disarmed before the disconnect.
DisarmedEarly(i) == phase[i] = "work"
Armed(i) == phase[i] \in {"work", "close"}

CancelRun(i) ==
  /\ phase[i] \in Executing /\ due[i] = 0
  /\ Outcome(i, "cancelled")
  /\ closing' = IF Armed(i) THEN closing \cup {i} ELSE closing
  /\ adrift' = IF phase[i] = "keepalive" THEN adrift \cup {i} ELSE adrift
  /\ RunOnly
  /\ UNCHANGED <<fileVars, running, tries, written, open, upsetVars>>

DetachedDisconnect(i) ==
  /\ i \in closing
  /\ open' = open \ {i} /\ closing' = closing \ {i}
  /\ RunOnly
  /\ UNCHANGED <<fileVars, running, phase, tries, result, written, adrift,
                 upsetVars>>

(* record_outcome_counting: a row in task_runs.sqlite, then the result      *)
(* enters the definition as it is now. A failure of either is only logged.  *)
\* Variant for mutation: a cancelled run counts as a failure.
CountsAll(i) == TRUE
CountsStreak(i) == result[i] # "cancelled"

RecordOutcome(i) ==
  /\ phase[i] = "record"
  /\ To(i, "finish")
  /\ \/ /\ IF task[i] \in saved /\ CountsStreak(i)
           THEN ApplyRunResult(task[i], result[i] = "ok")
           ELSE UNCHANGED <<enabled, paused, next, fails>>
        /\ written' = IF task[i] \in saved THEN written \cup {i} ELSE written
        /\ UNCHANGED <<saved, limit, every, missed, used, upsetVars>>
     \/ StoreFails /\ UNCHANGED written
  /\ RunOnly
  /\ UNCHANGED <<running, tries, result, open, closing, adrift>>

(* The event is sent, and the guard dropped with the run. *)
Finish(i) ==
  /\ phase[i] = "finish"
  /\ To(i, "done")
  /\ tries' = [tries EXCEPT ![i] = 0]
  /\ running' = DropGuard(i)
  /\ RunOnly
  /\ UNCHANGED <<fileVars, result, written, open, closing, adrift, upsetVars>>

-----------------------------------------------------------------------------
(* The commands of the task manager. Those that change the file compute the *)
(* next run from the clock and change it under the lock.                    *)

(* run_task_now: refused while another run of the task is on.               *)
RunNow(t) ==
  /\ Up /\ t \in saved
  /\ Begin(t, 0, "called", t \in enabled)
  /\ UNCHANGED <<now, fileVars, tickVars, bootVars, skipped, upsetVars>>

Edited ==
  /\ Up /\ MoreUpsets
  /\ edits' = edits + 1
  /\ UNCHANGED <<now, tickVars, bootVars, beginVars, runVars, skipped, crashes,
                 ioErrors>>

(* save_task: a new task, or a new version of one that is still there. The  *)
(* streak is kept while the task stays enabled, the pause mark while it     *)
(* stays disabled.                                                          *)
MarkKept(t, on) == IF on THEN paused \ {t} ELSE paused

SaveTask(t, on, lim, step) ==
  /\ Edited
  /\ t \in saved \/ t \notin used
  /\ used' = used \cup {t}
  /\ saved' = saved \cup {t}
  /\ enabled' = IF on THEN enabled \cup {t} ELSE enabled \ {t}
  /\ next' = [next EXCEPT ![t] = IF on THEN NextRunAfter(step, now) ELSE 0]
  /\ fails' = [fails EXCEPT ![t] = IF on /\ t \in enabled THEN @ ELSE 0]
  /\ paused' = MarkKept(t, on)
  /\ limit' = [limit EXCEPT ![t] = lim]
  /\ every' = [every EXCEPT ![t] = step]
  /\ UNCHANGED missed

SetTaskEnabled(t, on) ==
  /\ Edited
  /\ t \in saved
  /\ enabled' = IF on THEN enabled \cup {t} ELSE enabled \ {t}
  /\ next' = [next EXCEPT ![t] = IF on THEN NextRunAfter(every[t], now) ELSE 0]
  /\ fails' = [fails EXCEPT ![t] = IF on THEN 0 ELSE @]
  /\ paused' = IF on THEN paused \ {t} ELSE paused
  /\ UNCHANGED <<saved, limit, every, missed, used>>

DeleteTask(t) ==
  /\ Edited
  /\ t \in saved
  /\ saved' = saved \ {t} /\ enabled' = enabled \ {t} /\ paused' = paused \ {t}
  /\ next' = [next EXCEPT ![t] = 0] /\ fails' = [fails EXCEPT ![t] = 0]
  /\ UNCHANGED <<limit, every, missed, used>>

SetSchedulerSettings(m) ==
  /\ Edited
  /\ m # missed
  /\ missed' = m
  /\ UNCHANGED <<saved, enabled, paused, next, fails, limit, every, used>>

-----------------------------------------------------------------------------
(* The process is quit or dies: what it held in memory is gone, and the     *)
(* servers see its sessions end.                                            *)
Crash ==
  /\ Up /\ MoreUpsets
  /\ crashes' = crashes + 1
  /\ phase' = [i \in RunIds |-> IF Live(i) THEN "lost" ELSE phase[i]]
  /\ running' = {} /\ open' = {} /\ closing' = {} /\ adrift' = {}
  /\ pc' = "down" /\ tick' = "first"
  /\ copy' = NoCopy /\ todo' = {} /\ cur' = NoFiring
  /\ UNCHANGED <<now, fileVars, bootVars, beginVars, tries, result, written,
                 skipped, edits, ioErrors>>

Start ==
  /\ pc = "down"
  /\ pc' = "asleep" /\ bootAt' = now /\ bootErrors' = ioErrors
  /\ UNCHANGED <<now, fileVars, tick, copy, todo, cur, beginVars, runVars,
                 skipped, upsetVars>>

-----------------------------------------------------------------------------
Tick == \/ TickStart \/ TickFails \/ TickEnd
        \/ \E t \in Tasks : ConsumeDue(t) \/ Reschedule(t)
        \/ Fire \/ FindRunning \/ RecordSkipped

RunStep(i) == \/ Connected(i) \/ KeepaliveStarted(i) \/ ConnectFails(i)
              \/ RetryLater(i) \/ RetryNow(i)
              \/ \E r \in {"ok", "error"} : WorkEnds(i, r)
              \/ Disconnected(i) \/ DetachedDisconnect(i)
              \/ RecordOutcome(i) \/ Finish(i)

Command == \/ \E t \in Tasks :
                \/ RunNow(t) \/ DeleteTask(t)
                \/ \E on \in BOOLEAN : SetTaskEnabled(t, on)
                \/ \E on \in BOOLEAN, l \in Limits, p \in Periods :
                     SaveTask(t, on, l, p)
           \/ \E m \in {"skip", "catchup"} : SetSchedulerSettings(m)
           \/ \E i \in RunIds : CancelRun(i)

Next == Clock \/ Tick \/ (\E i \in RunIds : RunStep(i)) \/ Command
        \/ Crash \/ Start

Spec == Init /\ [][Next]_vars

(* The loop is never stopped while the process lives, and what a run waits  *)
(* for is bounded: connect by its timeout, the action by TASK_MAX_RUN_SECS. *)
FairSpec == Spec /\ WF_vars(Tick) /\ \A i \in RunIds : WF_vars(RunStep(i))

-----------------------------------------------------------------------------
Copies == [on : SUBSET Tasks, next : [Tasks -> Nat], every : [Tasks -> Nat],
           missed : {"skip", "catchup"}, now : Nat]
Firings == [task : Tasks, due : Nat]

TypeOK ==
  /\ now \in Nat /\ bootAt \in Nat /\ bootErrors \in Nat
  /\ saved \subseteq Tasks /\ used \subseteq Tasks
  /\ enabled \subseteq Tasks /\ paused \subseteq Tasks
  /\ next \in [Tasks -> Nat] /\ fails \in [Tasks -> Nat]
  /\ limit \in [Tasks -> Limits] /\ every \in [Tasks -> Periods]
  /\ missed \in {"skip", "catchup"}
  /\ pc \in {"down", "asleep", "scan", "fire", "skip"}
  /\ tick \in {"first", "later"}
  /\ copy \in Copies /\ todo \subseteq Tasks /\ cur \in Firings
  /\ running \subseteq Tasks /\ started \in 0 .. MaxRuns
  /\ task \in [RunIds -> Tasks] /\ due \in [RunIds -> Nat]
  /\ origin \in [RunIds -> {"called", "broken", "uncalled"}]
  /\ phase \in [RunIds -> {"none", "done", "lost"} \cup Executing \cup Recording]
  /\ tries \in [RunIds -> Nat]
  /\ result \in [RunIds -> {"none", "ok", "error", "cancelled"}]
  /\ begunOn \subseteq RunIds /\ written \subseteq RunIds
  /\ open \subseteq RunIds /\ closing \subseteq RunIds /\ adrift \subseteq RunIds
  /\ skipped \subseteq Firings
  /\ edits \in Nat /\ crashes \in Nat /\ ioErrors \in Nat

(* Two runs of one task are never on at the same time, whoever started them *)
(* and whatever was cancelled: they would write the same output file.       *)
NoOverlap ==
  \A i, j \in RunIds : i # j /\ Live(i) /\ Live(j) => task[i] # task[j]

(* One firing of a task leads to one run or to one skipped row and never to *)
(* a second one, though the process may die at any point and the tick works *)
(* on a copy others have changed.                                           *)
FiresOnce ==
  /\ \A i, j \in RunIds : i # j /\ due[i] # 0 /\ due[i] = due[j] => task[i] # task[j]
  /\ \A i \in RunIds : due[i] # 0 => [task |-> task[i], due |-> due[i]] \notin skipped

(* A session a run opened is always somebody's to close: the run's own, or  *)
(* a detached disconnect's after a cancel. The exception is a cancel        *)
(* between the registration of an SSM session and the return of connect:    *)
(* no guard is armed yet, and the session stays.                            *)
SessionsAreOwned ==
  \A i \in open :
    phase[i] \in {"keepalive", "work", "close"} \/ i \in closing \/ i \in adrift

(* A task the failures have stopped stays off until the user turns it on;   *)
(* then the mark goes. Five writers touch these fields.                     *)
AutoPausedIsOff == paused \cap enabled = {}

(* What fell due while the application was closed is run only by a tick     *)
(* that was told to catch up, unless a store operation that failed took the *)
(* first tick after the start with it (origin "broken").                    *)
MissedIsSkipped == \A i \in RunIds : origin[i] # "uncalled"

(* The failures stop a task only after as many failed runs, none of them    *)
(* cancelled, as its limit says, with no success written between them.      *)
CountedFailures(t) ==
  {i \in written :
     /\ task[i] = t /\ result[i] = "error"
     /\ \A j \in written : j > i /\ task[j] = t => result[j] # "ok"}
PauseIsDeserved ==
  [][\A t \in paused' \ paused : Cardinality(CountedFailures(t)') >= limit[t]]_vars

(* What the user saved, turned off or deleted stays so: neither the tick's  *)
(* old copy nor the result of a run that began before undoes an edit.       *)
EditsAreKept ==
  [][edits' = edits => /\ saved' = saved /\ every' = every /\ limit' = limit
                       /\ enabled' \subseteq enabled]_vars

(* Every run comes to an end, its guard is dropped and its session closed,  *)
(* unless the process ends first.                                           *)
RunsEnd ==
  \A i \in RunIds :
    Live(i)
      ~> /\ ~Live(i)
         /\ i \in open => i \in adrift
         /\ \/ task[i] \notin running
            \/ \E j \in RunIds \ {i} : Live(j) /\ task[j] = task[i]

(* An enabled task that is due does not stay so: it is fired, skipped as    *)
(* missed, or changed by the user, while the process runs.                  *)
DueIsTaken ==
  \A t \in Tasks :
    Up /\ t \in saved \cap enabled /\ IsDue(next[t], now)
      ~> ~Up \/ t \notin saved \cap enabled \/ started = MaxRuns
         \/ ~IsDue(next[t], now)
=============================================================================
