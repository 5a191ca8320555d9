------------------------- MODULE TaskSchedulerProofs -------------------------
(***************************************************************************)
(* Proofs about TaskScheduler, for any tasks, schedules and bounds: that    *)
(* runs of a task never overlap and leave no session behind (RunInv), that  *)
(* no firing leads to two runs (DueInv), that what was missed while the     *)
(* application was closed stays unrun (MissInv), and that failures stop a   *)
(* task only when they are as many as its limit (StreakInv), whatever       *)
(* commands, failures and ends of the process come in between.              *)
(***************************************************************************)
EXTENDS TaskScheduler, FiniteSetTheorems, TLAPS

\* What a run holds, and who is still to give it back.
RunInv ==
  /\ \A i \in RunIds : i > started =>
       phase[i] = "none" /\ i \notin open \cup closing \cup adrift
  /\ \A i \in RunIds : Live(i) => task[i] \in running
  /\ \A i \in closing \cup adrift : phase[i] \notin Executing
  /\ NoOverlap
  /\ SessionsAreOwned

\* A firing d of t that was taken up lies behind the clock, behind the clock
\* of the tick at work, and behind the next run of t, in the file and in the
\* tick's copy.
Behind(t, d) ==
  /\ d <= now
  /\ pc \in {"scan", "fire", "skip"} => d <= copy.now
  /\ next[t] = 0 \/ d < next[t]
  /\ t \in todo => copy.next[t] = 0 \/ d < copy.next[t]

DueInv ==
  /\ pc \in {"scan", "fire", "skip"} => copy.now <= now
  /\ \A t \in todo : copy.every[t] # 0
  /\ \A t \in Tasks \ saved : next[t] = 0
  /\ \A i \in RunIds : i > started => due[i] = 0
  /\ \A i \in RunIds : due[i] # 0 => Behind(task[i], due[i])
  /\ \A f \in skipped : Behind(f.task, f.due)
  /\ pc \in {"fire", "skip"} =>
       /\ cur.due # 0 /\ cur \notin skipped /\ Behind(cur.task, cur.due)
       /\ \A i \in RunIds : due[i] = cur.due => task[i] # cur.task
  /\ FiresOnce

\* While no store operation has failed since the start, what lies before the
\* start is gone from the file once the first tick has looked at it.
Fresh(n) == n = 0 \/ n >= bootAt

MissInv ==
  /\ bootErrors <= ioErrors /\ bootAt <= now
  /\ pc = "down" => tick = "first"
  /\ pc \in {"scan", "fire", "skip"} => bootAt <= copy.now
  /\ MissedIsSkipped
  /\ Up /\ ioErrors = bootErrors =>
       /\ tick = "later" => \A t \in enabled : Fresh(next[t])
       /\ pc \in {"scan", "fire", "skip"} =>
            /\ \A t \in enabled \ todo : Fresh(next[t])
            /\ \A t \in todo : next[t] = copy.next[t] \/ Fresh(next[t])
            /\ tick = "later" => \A t \in todo : Fresh(copy.next[t])
       /\ pc = "fire" => cur.due >= bootAt \/ (tick = "first" /\ copy.missed = "catchup")

\* A task's failures in a row are no more than its failed runs in the file
\* since the last success there: a run's result is settled before it is
\* written, and runs of one task are written in the order they began.
Settled == {"finish", "done", "lost"}

Judged == \A i \in RunIds : phase[i] \in {"close", "record"} => result[i] # "none"

StreakInv ==
  /\ Judged
  /\ \A i \in written : i <= started /\ phase[i] \in Settled
  /\ \A i, j \in RunIds : i < j /\ j <= started /\ Live(i) => task[j] # task[i]
  /\ \A t \in Tasks : fails[t] <= Cardinality(CountedFailures(t))

-----------------------------------------------------------------------------
LEMMA Defaults ==
  /\ NoFiring \in Firings
  /\ NoCopy \in Copies
BY SchedulerAssumption DEF NoFiring, Firings, NoCopy, Copies

LEMMA NextId ==
  ASSUME started \in 0 .. MaxRuns, started < MaxRuns
  PROVE  /\ started + 1 \in RunIds
         /\ started + 1 \in 0 .. MaxRuns
BY SchedulerAssumption DEF RunIds

LEMMA TypeInit == Init => TypeOK
BY Defaults, SchedulerAssumption DEF Init, TypeOK, RunIds, Firings

(* Type correctness is preserved by every step.                             *)
LEMMA TypeStep ==
  ASSUME TypeOK, [Next]_vars
  PROVE  TypeOK'
<1> USE Defaults, SchedulerAssumption
    DEF TypeOK, fileVars, tickVars, bootVars, beginVars, runVars, upsetVars,
        Executing, Recording
<1>1. CASE Clock
  BY <1>1 DEF Clock
<1>2. CASE TickStart
  <2>1. every \in [Tasks -> Nat]
    OBVIOUS
  <2>2. copy' \in Copies
    BY <1>2, <2>1 DEF TickStart, Copies
  <2>3. QED
    BY <1>2, <2>2 DEF TickStart, TickOnly
<1>3. CASE TickFails
  BY <1>3 DEF TickFails, TickOnly, StoreFails, AfterError
<1>4. CASE TickEnd
  BY <1>4 DEF TickEnd, TickOnly
<1>5. ASSUME NEW t \in Tasks, ConsumeDue(t)
      PROVE  TypeOK'
  BY <1>5 DEF ConsumeDue, TickOnly, PersistNextRun, OnlyNext, TakeUp, NotPersisted, StoreFails, NextRunAfter, EffectiveNext, ResolveStartup, Firings, Copies
<1>6. ASSUME NEW t \in Tasks, Reschedule(t)
      PROVE  TypeOK'
  BY <1>6 DEF Reschedule, TickOnly, PersistNextRun, OnlyNext, StoreFails, EffectiveNext, ResolveStartup, NextRunAfter, Copies
<1>7. CASE Fire
  BY <1>7, NextId DEF Fire, TickOnly, Begin, Origin, Firings
<1>8. CASE FindRunning
  BY <1>8 DEF FindRunning, TickOnly
<1>9. CASE RecordSkipped
  BY <1>9 DEF RecordSkipped, TickOnly, StoreFails
<1>10. ASSUME NEW i \in RunIds, Connected(i)
      PROVE  TypeOK'
  BY <1>10 DEF Connected, To, RunOnly
<1>11. ASSUME NEW i \in RunIds, KeepaliveStarted(i)
      PROVE  TypeOK'
  BY <1>11 DEF KeepaliveStarted, To, RunOnly
<1>12. ASSUME NEW i \in RunIds, ConnectFails(i)
      PROVE  TypeOK'
  BY <1>12 DEF ConnectFails, To, Outcome, RunOnly
<1>13. ASSUME NEW i \in RunIds, RetryLater(i)
      PROVE  TypeOK'
  BY <1>13 DEF RetryLater, To, RunOnly
<1>14. ASSUME NEW i \in RunIds, RetryNow(i)
      PROVE  TypeOK'
  BY <1>14 DEF RetryNow, To, Outcome, StoreFails, RunOnly
<1>15. ASSUME NEW i \in RunIds, NEW r \in {"ok", "error"}, WorkEnds(i, r)
      PROVE  TypeOK'
  BY <1>15 DEF WorkEnds, To, RunOnly
<1>16. ASSUME NEW i \in RunIds, Disconnected(i)
      PROVE  TypeOK'
  BY <1>16 DEF Disconnected, To, RunOnly
<1>17. ASSUME NEW i \in RunIds, DetachedDisconnect(i)
      PROVE  TypeOK'
  BY <1>17 DEF DetachedDisconnect, RunOnly
<1>18. ASSUME NEW i \in RunIds, RecordOutcome(i)
      PROVE  TypeOK'
  BY <1>18 DEF RecordOutcome, To, ApplyRunResult, Streak, StoreFails, RunOnly
<1>19. ASSUME NEW i \in RunIds, Finish(i)
      PROVE  TypeOK'
  BY <1>19 DEF Finish, To, DropGuard, RunOnly
<1>20. ASSUME NEW t \in Tasks, RunNow(t)
      PROVE  TypeOK'
  BY <1>20, NextId DEF RunNow, Begin
<1>21. ASSUME NEW t \in Tasks, DeleteTask(t)
      PROVE  TypeOK'
  BY <1>21 DEF DeleteTask, Edited
<1>22. ASSUME NEW t \in Tasks, NEW b \in BOOLEAN, SetTaskEnabled(t, b)
      PROVE  TypeOK'
  <2>1. every[t] \in Nat
    OBVIOUS
  <2>2. QED
    BY <1>22, <2>1 DEF SetTaskEnabled, Edited, NextRunAfter
<1>23. ASSUME NEW t \in Tasks, NEW b \in BOOLEAN, NEW l \in Limits, NEW p \in Periods, SaveTask(t, b, l, p)
      PROVE  TypeOK'
  BY <1>23 DEF SaveTask, Edited, MarkKept, NextRunAfter
<1>24. ASSUME NEW m \in {"skip", "catchup"}, SetSchedulerSettings(m)
      PROVE  TypeOK'
  BY <1>24 DEF SetSchedulerSettings, Edited
<1>25. ASSUME NEW i \in RunIds, CancelRun(i)
      PROVE  TypeOK'
  BY <1>25 DEF CancelRun, To, Outcome, Armed, RunOnly
<1>26. CASE Crash
  BY <1>26 DEF Crash, Live
<1>27. CASE Start
  BY <1>27 DEF Start
<1>28. CASE UNCHANGED vars
  BY <1>28 DEF vars
<1>29. QED
  BY <1>1, <1>2, <1>3, <1>4, <1>5, <1>6, <1>7, <1>8, <1>9, <1>10, <1>11, <1>12, <1>13, <1>14, <1>15, <1>16, <1>17, <1>18, <1>19, <1>20, <1>21, <1>22, <1>23, <1>24, <1>25, <1>26, <1>27, <1>28
  DEF Next, Tick, RunStep, Command

THEOREM TypeCorrect == Spec => []TypeOK
<1>1. QED
  BY TypeInit, TypeStep, PTL DEF Spec

-----------------------------------------------------------------------------
LEMMA RunInit == Init => RunInv
BY DEF Init, RunInv, NoOverlap, SessionsAreOwned, Live, Executing, Recording

(* A run that begins is the only one of its task.                           *)
LEMMA BeginKeepsRunInv ==
  ASSUME TypeOK, RunInv, NEW t \in Tasks, started < MaxRuns, Free(t),
         running' = running \cup {t}, started' = started + 1,
         task' = [task EXCEPT ![started + 1] = t],
         phase' = [phase EXCEPT ![started + 1] = "connect"],
         UNCHANGED <<open, closing, adrift>>
  PROVE  RunInv'
<1> DEFINE new == started + 1
<1>1. new \in RunIds /\ started \in Nat
  BY NextId DEF TypeOK
<1>2. /\ phase[new] = "none" /\ new \notin open \cup closing \cup adrift
      /\ phase'[new] = "connect" /\ task'[new] = t
  BY <1>1 DEF TypeOK, RunInv
<1>3. ASSUME NEW i \in RunIds, i # new
      PROVE  phase'[i] = phase[i] /\ task'[i] = task[i]
  BY <1>1, <1>3 DEF TypeOK
<1> HIDE DEF new
<1>4. \A i \in RunIds : i > started' =>
        phase'[i] = "none" /\ i \notin open' \cup closing' \cup adrift'
  <2>1. \A i \in RunIds : i > started' => i # new /\ i > started
    BY <1>1 DEF new, RunIds
  <2>2. QED
    BY <2>1, <1>3 DEF RunInv
<1>5. \A i \in RunIds : Live(i)' => task'[i] \in running'
  BY <1>2, <1>3 DEF RunInv, Live, Executing, Recording
<1>6. \A i \in closing' \cup adrift' : phase'[i] \notin Executing
  BY <1>2, <1>3 DEF RunInv, TypeOK
<1>7. NoOverlap'
  <2>1. \A i \in RunIds : i # new /\ Live(i)' => task'[i] # t
    BY <1>3 DEF RunInv, Live, Free
  <2>2. QED
    BY <2>1, <1>2, <1>3 DEF RunInv, NoOverlap, Live
<1>8. SessionsAreOwned'
  BY <1>2, <1>3 DEF RunInv, SessionsAreOwned, TypeOK
<1>9. QED
  BY <1>4, <1>5, <1>6, <1>7, <1>8 DEF RunInv

LEMMA RunInvStep ==
  ASSUME TypeOK, TypeOK', RunInv, [Next]_vars
  PROVE  RunInv'
<1> USE DEF TypeOK, fileVars, tickVars, bootVars, beginVars, runVars, upsetVars,
        RunInv, NoOverlap, SessionsAreOwned, Live, Executing, Recording
<1>1. CASE Clock
  BY <1>1 DEF Clock
<1>2. CASE TickStart
  BY <1>2 DEF TickStart, TickOnly
<1>3. CASE TickFails
  BY <1>3 DEF TickFails, TickOnly, StoreFails, AfterError
<1>4. CASE TickEnd
  BY <1>4 DEF TickEnd, TickOnly
<1>5. ASSUME NEW t \in Tasks, ConsumeDue(t)
      PROVE  RunInv'
  BY <1>5 DEF ConsumeDue, TickOnly, PersistNextRun, OnlyNext, TakeUp, NotPersisted, StoreFails, NextRunAfter
<1>6. ASSUME NEW t \in Tasks, Reschedule(t)
      PROVE  RunInv'
  BY <1>6 DEF Reschedule, TickOnly, PersistNextRun, OnlyNext, StoreFails, EffectiveNext, ResolveStartup, NextRunAfter
<1>7. CASE Fire
  <2>1. cur.task \in Tasks
    BY DEF Firings
  <2>2. QED
    BY ONLY <1>7, <2>1, BeginKeepsRunInv, TypeOK, RunInv DEF Fire, Begin
<1>8. CASE FindRunning
  BY <1>8 DEF FindRunning, TickOnly
<1>9. CASE RecordSkipped
  BY <1>9 DEF RecordSkipped, TickOnly, StoreFails
<1>10. ASSUME NEW i \in RunIds, Connected(i)
      PROVE  RunInv'
  BY <1>10 DEF Connected, To, RunOnly
<1>11. ASSUME NEW i \in RunIds, KeepaliveStarted(i)
      PROVE  RunInv'
  BY <1>11 DEF KeepaliveStarted, To, RunOnly
<1>12. ASSUME NEW i \in RunIds, ConnectFails(i)
      PROVE  RunInv'
  BY <1>12 DEF ConnectFails, To, Outcome, RunOnly
<1>13. ASSUME NEW i \in RunIds, RetryLater(i)
      PROVE  RunInv'
  BY <1>13 DEF RetryLater, To, RunOnly
<1>14. ASSUME NEW i \in RunIds, RetryNow(i)
      PROVE  RunInv'
  BY <1>14 DEF RetryNow, To, Outcome, StoreFails, RunOnly
<1>15. ASSUME NEW i \in RunIds, NEW r \in {"ok", "error"}, WorkEnds(i, r)
      PROVE  RunInv'
  BY <1>15 DEF WorkEnds, To, RunOnly
<1>16. ASSUME NEW i \in RunIds, Disconnected(i)
      PROVE  RunInv'
  BY <1>16 DEF Disconnected, To, RunOnly
<1>17. ASSUME NEW i \in RunIds, DetachedDisconnect(i)
      PROVE  RunInv'
  BY <1>17 DEF DetachedDisconnect, RunOnly
<1>18. ASSUME NEW i \in RunIds, RecordOutcome(i)
      PROVE  RunInv'
  BY <1>18 DEF RecordOutcome, To, ApplyRunResult, Streak, StoreFails, RunOnly
<1>19. ASSUME NEW i \in RunIds, Finish(i)
      PROVE  RunInv'
  BY <1>19 DEF Finish, To, DropGuard, RunOnly
<1>20. ASSUME NEW t \in Tasks, RunNow(t)
      PROVE  RunInv'
  BY ONLY <1>20, BeginKeepsRunInv, TypeOK, RunInv DEF RunNow, Begin
<1>21. ASSUME NEW t \in Tasks, DeleteTask(t)
      PROVE  RunInv'
  BY <1>21 DEF DeleteTask, Edited
<1>22. ASSUME NEW t \in Tasks, NEW b \in BOOLEAN, SetTaskEnabled(t, b)
      PROVE  RunInv'
  BY <1>22 DEF SetTaskEnabled, Edited, NextRunAfter
<1>23. ASSUME NEW t \in Tasks, NEW b \in BOOLEAN, NEW l \in Limits, NEW p \in Periods, SaveTask(t, b, l, p)
      PROVE  RunInv'
  BY <1>23 DEF SaveTask, Edited, MarkKept, NextRunAfter
<1>24. ASSUME NEW m \in {"skip", "catchup"}, SetSchedulerSettings(m)
      PROVE  RunInv'
  BY <1>24 DEF SetSchedulerSettings, Edited
<1>25. ASSUME NEW i \in RunIds, CancelRun(i)
      PROVE  RunInv'
  BY <1>25 DEF CancelRun, To, Outcome, Armed, RunOnly
<1>26. CASE Crash
  BY <1>26 DEF Crash, Live
<1>27. CASE Start
  BY <1>27 DEF Start
<1>28. CASE UNCHANGED vars
  BY <1>28 DEF vars
<1>29. QED
  BY <1>1, <1>2, <1>3, <1>4, <1>5, <1>6, <1>7, <1>8, <1>9, <1>10, <1>11, <1>12, <1>13, <1>14, <1>15, <1>16, <1>17, <1>18, <1>19, <1>20, <1>21, <1>22, <1>23, <1>24, <1>25, <1>26, <1>27, <1>28
  DEF Next, Tick, RunStep, Command

LEMMA RunInvHolds == Spec => []RunInv
<1>1. QED
  BY TypeInit, TypeStep, RunInit, RunInvStep, PTL DEF Spec

(* Two runs of one task are never on at the same time.                      *)
THEOREM RunsStayApart == Spec => []NoOverlap
<1>1. RunInv => NoOverlap
  BY DEF RunInv
<1>2. QED
  BY <1>1, RunInvHolds, PTL

(* No session is left without somebody to close it, but for the cancel      *)
(* during the keepalive.                                                    *)
THEOREM SessionsHaveOwners == Spec => []SessionsAreOwned
<1>1. RunInv => SessionsAreOwned
  BY DEF RunInv
<1>2. QED
  BY <1>1, RunInvHolds, PTL

-----------------------------------------------------------------------------
LEMMA DueInit == Init => DueInv
BY DEF Init, DueInv, FiresOnce

LEMMA EffectiveNextIs ==
  ASSUME TypeOK, NEW t \in Tasks, copy.every[t] # 0
  PROVE  /\ EffectiveNext(t) \in Nat
         /\ EffectiveNext(t) \in {copy.next[t], NextRunAfter(copy.every[t], copy.now)}
         /\ IsDue(EffectiveNext(t), copy.now) => EffectiveNext(t) = copy.next[t]
         /\ NextRunAfter(copy.every[t], copy.now) > copy.now
         /\ NextRunAfter(copy.every[t], copy.now) \in Nat
BY DEF TypeOK, Copies, EffectiveNext, ResolveStartup, NextRunAfter, IsDue

(* The shapes the parts of DueInv are given where they are used.            *)
LEMMA Shapes ==
  ASSUME TypeOK
  PROVE  /\ now \in Nat /\ copy.now \in Nat
         /\ copy.next \in [Tasks -> Nat] /\ copy.every \in [Tasks -> Nat]
         /\ next \in [Tasks -> Nat] /\ every \in [Tasks -> Periods]
         /\ cur.task \in Tasks /\ cur.due \in Nat
         /\ [task |-> cur.task, due |-> cur.due] = cur
         /\ task \in [RunIds -> Tasks] /\ due \in [RunIds -> Nat]
         /\ \A f \in skipped : f.task \in Tasks /\ f.due \in Nat
         /\ todo \subseteq Tasks /\ started \in 0 .. MaxRuns
BY DEF TypeOK, Copies, Firings

(* A step that leaves the tick and the firings alone, and moves a next run  *)
(* only to "none" or past the clock.                                        *)
LEMMA DueFrame ==
  ASSUME TypeOK, TypeOK', DueInv, now' >= now,
         UNCHANGED <<pc, copy, todo, cur, started, task, due, skipped>>,
         \A t \in Tasks : \/ next'[t] \in {0, next[t]}
                          \/ next'[t] > now,
         \A t \in Tasks \ saved' : next'[t] = 0
  PROVE  DueInv'
<1>1. ASSUME NEW t \in Tasks, NEW d \in Nat, Behind(t, d)
      PROVE  Behind(t, d)'
  BY <1>1, Shapes DEF Behind, TypeOK
<1>2. \A i \in RunIds : due[i] # 0 => Behind(task[i], due[i])'
  BY <1>1, Shapes DEF DueInv
<1>3. \A f \in skipped : Behind(f.task, f.due)'
  BY <1>1, Shapes DEF DueInv
<1>4. pc \in {"fire", "skip"} => Behind(cur.task, cur.due)'
  BY <1>1, Shapes DEF DueInv
<1>5. pc \in {"scan", "fire", "skip"} => copy.now <= now'
  BY Shapes DEF DueInv, TypeOK
<1>6. QED
  BY <1>2, <1>3, <1>4, <1>5 DEF DueInv, FiresOnce, Behind

(* A step that is the tick's, and takes nothing up.                         *)
LEMMA DueScan ==
  ASSUME TypeOK, TypeOK', DueInv, now' = now, pc = "scan", pc' = "scan",
         UNCHANGED <<copy, started, task, due, skipped>>, todo' \subseteq todo,
         \A t \in Tasks : \/ next'[t] \in {0, next[t]}
                          \/ next'[t] > copy.now,
         \A t \in Tasks \ saved' : next'[t] = 0
  PROVE  DueInv'
<1>1. ASSUME NEW t \in Tasks, NEW d \in Nat, Behind(t, d)
      PROVE  Behind(t, d)'
  BY <1>1, Shapes DEF Behind, TypeOK
<1>2. \A i \in RunIds : due[i] # 0 => Behind(task[i], due[i])'
  BY <1>1, Shapes DEF DueInv
<1>3. \A f \in skipped : Behind(f.task, f.due)'
  BY <1>1, Shapes DEF DueInv
<1>4. QED
  BY <1>2, <1>3 DEF DueInv, FiresOnce

(* A due task that is taken up: nothing before stood for this firing.       *)
LEMMA DueTakeUp ==
  ASSUME TypeOK, TypeOK', DueInv, NEW t \in todo, pc = "scan",
         IsDue(EffectiveNext(t), copy.now),
         PersistNextRun(t, NextRunAfter(copy.every[t], copy.now)), TakeUp(t),
         todo' = todo \ {t},
         UNCHANGED <<now, copy, started, task, due, skipped>>
  PROVE  DueInv'
<1> DEFINE n == NextRunAfter(copy.every[t], copy.now)
<1>0. PICK d : d = EffectiveNext(t)
  OBVIOUS
<1>1. t \in Tasks /\ copy.every[t] # 0
  BY Shapes DEF DueInv
<1>2. d \in Nat \ {0} /\ d <= copy.now /\ d = copy.next[t] /\ n > copy.now /\ n \in Nat
  BY <1>0, <1>1, EffectiveNextIs DEF IsDue
<1>3. cur'.task = t /\ cur'.due = d /\ cur' = [task |-> t, due |-> d] /\ pc' = "fire"
  BY <1>0 DEF TakeUp
<1>4. /\ saved' = saved
      /\ \A u \in Tasks : next'[u] = IF u = t /\ t \in saved THEN n ELSE next[u]
  BY Shapes DEF PersistNextRun, OnlyNext
<1> HIDE DEF n
<1>5. ASSUME NEW u \in Tasks, NEW e \in Nat, Behind(u, e)
      PROVE  Behind(u, e)' /\ (u = t => e # d)
  BY <1>1, <1>2, <1>3, <1>4, <1>5, Shapes DEF Behind, TypeOK
<1>6. \A i \in RunIds : due[i] # 0 => /\ Behind(task[i], due[i])'
                                      /\ due[i] = d => task[i] # t
  BY <1>5, Shapes DEF DueInv
<1>7. \A f \in skipped : Behind(f.task, f.due)' /\ f # [task |-> t, due |-> d]
  BY <1>5, Shapes DEF DueInv
<1>8. Behind(t, d)'
  <2>1. copy.now <= now
    BY DEF DueInv
  <2>2. next'[t] = 0 \/ next'[t] = n
    BY <1>1, <1>4 DEF DueInv
  <2>3. t \notin todo'
    OBVIOUS
  <2>4. d <= now' /\ d <= copy'.now /\ d < n
    BY <2>1, <1>2, Shapes
  <2>5. QED
    BY ONLY <2>2, <2>3, <2>4 DEF Behind
<1>9. \A u \in Tasks \ saved' : next'[u] = 0
  BY <1>4 DEF DueInv
<1>10. cur'.due # 0 /\ cur' \notin skipped
  BY <1>2, <1>3, <1>7
<1>11. Behind(cur.task, cur.due)'
  BY ONLY <1>3, <1>8 DEF Behind
<1>12. \A i \in RunIds : due[i] = cur'.due => task[i] # cur'.task
  BY <1>2, <1>3, <1>6
<1>13. QED
  BY <1>3, <1>6, <1>7, <1>9, <1>10, <1>11, <1>12 DEF DueInv, FiresOnce

(* A run that begins by hand stands for no firing, and one the tick begins  *)
(* for the one in hand.                                                     *)
LEMMA DueBegin ==
  ASSUME TypeOK, TypeOK', DueInv, NEW t \in Tasks, NEW d \in Nat,
         started < MaxRuns, started' = started + 1,
         task' = [task EXCEPT ![started + 1] = t],
         due' = [due EXCEPT ![started + 1] = d],
         UNCHANGED <<now, saved, next, copy, todo, skipped>>,
         \/ d = 0 /\ UNCHANGED <<pc, cur>>
         \/ pc = "fire" /\ pc' = "scan" /\ t = cur.task /\ d = cur.due
  PROVE  DueInv'
<1> DEFINE new == started + 1
<1>1. new \in RunIds /\ started \in Nat
  BY NextId, Shapes
<1>2. task'[new] = t /\ due'[new] = d
  BY <1>1, Shapes
<1>3. ASSUME NEW i \in RunIds, i # new
      PROVE  due'[i] = due[i] /\ task'[i] = task[i]
  BY <1>1, <1>3, Shapes
<1> HIDE DEF new
<1>4. ASSUME NEW u \in Tasks, NEW e \in Nat, Behind(u, e)
      PROVE  Behind(u, e)'
  BY <1>4 DEF Behind
<1>5. d # 0 => /\ Behind(t, d)'
               /\ \A i \in RunIds : due[i] = d => task[i] # t
               /\ [task |-> t, due |-> d] \notin skipped
  BY <1>4, Shapes DEF DueInv
<1>6. \A i \in RunIds : i > started' => due'[i] = 0
  <2>1. \A i \in RunIds : i > started' => i # new /\ i > started
    BY <1>1 DEF new, RunIds
  <2>2. QED
    BY <2>1, <1>3 DEF DueInv
<1>7. \A i \in RunIds : due'[i] # 0 => Behind(task[i], due[i])'
  <2>1. ASSUME NEW i \in RunIds, due'[i] # 0
        PROVE  Behind(task[i], due[i])'
    <3>1. CASE i = new
      <4>1. Behind(t, d)' /\ task'[i] = t /\ due'[i] = d
        BY <2>1, <3>1, <1>2, <1>5
      <4>2. QED
        BY <4>1 DEF Behind
    <3>2. CASE i # new
      <4>1. task'[i] = task[i] /\ due'[i] = due[i] /\ task[i] \in Tasks /\ due[i] \in Nat
        BY <3>2, <1>3, Shapes
      <4>2. Behind(task[i], due[i])
        BY <2>1, <4>1 DEF DueInv
      <4>3. QED
        BY <4>1, <4>2 DEF Behind
    <3>3. QED
      BY <3>1, <3>2
  <2>2. QED
    BY <2>1
<1>8. \A f \in skipped : Behind(f.task, f.due)'
  BY <1>4, Shapes DEF DueInv
<1>9. FiresOnce'
  <2>1. \A i, j \in RunIds :
          i # j /\ due'[i] # 0 /\ due'[i] = due'[j] => task'[i] # task'[j]
    BY <1>2, <1>3, <1>5 DEF DueInv, FiresOnce
  <2>2. \A i \in RunIds :
          due'[i] # 0 => [task |-> task'[i], due |-> due'[i]] \notin skipped
    BY <1>2, <1>3, <1>5 DEF DueInv, FiresOnce
  <2>3. QED
    BY <2>1, <2>2 DEF FiresOnce
<1>10. ASSUME pc' \in {"fire", "skip"}
       PROVE  /\ cur'.due # 0 /\ cur' \notin skipped' /\ Behind(cur.task, cur.due)'
              /\ \A i \in RunIds : due'[i] = cur'.due => task'[i] # cur'.task
  <2>1. d = 0 /\ pc \in {"fire", "skip"} /\ cur' = cur
    BY <1>10
  <2>2. cur.due # 0 /\ cur \notin skipped /\ Behind(cur.task, cur.due)
    BY <2>1 DEF DueInv
  <2>3. Behind(cur.task, cur.due)'
    BY <2>1, <2>2 DEF Behind
  <2>4. \A i \in RunIds : due'[i] = cur'.due => task'[i] # cur'.task
    BY <2>1, <2>2, <1>2, <1>3 DEF DueInv
  <2>5. QED
    BY <2>1, <2>2, <2>3, <2>4
<1>11. QED
  BY <1>6, <1>7, <1>8, <1>9, <1>10 DEF DueInv

LEMMA DueInvStep ==
  ASSUME TypeOK, TypeOK', DueInv, [Next]_vars
  PROVE  DueInv'
<1> USE DEF TypeOK, fileVars, tickVars, bootVars, beginVars, runVars, upsetVars,
        DueInv, FiresOnce, Behind
<1>1. CASE Clock
  BY <1>1, DueFrame, Shapes DEF Clock
<1>2. CASE TickStart
  <2>1. /\ now' = now /\ next' = next /\ saved' = saved /\ every' = every
        /\ UNCHANGED <<started, task, due, skipped>>
        /\ copy'.next = next /\ copy'.every = every /\ copy'.now = now
        /\ todo' \subseteq Tasks /\ pc' = "scan"
    BY <1>2 DEF TickStart, TickOnly
  <2>2. \A t \in todo' : copy'.every[t] # 0
    BY <2>1, Shapes, SchedulerAssumption
  <2>3. ASSUME NEW t \in Tasks, NEW d \in Nat, Behind(t, d)
        PROVE  Behind(t, d)'
    BY <2>1, <2>3
  <2>4. \A i \in RunIds : due[i] # 0 => Behind(task[i], due[i])'
    <3>1. ASSUME NEW i \in RunIds, due[i] # 0
          PROVE  Behind(task[i], due[i])'
      <4>1. /\ task'[i] = task[i] /\ due'[i] = due[i]
            /\ task[i] \in Tasks /\ due[i] \in Nat
        BY ONLY <2>1, Shapes, TypeOK, i \in RunIds
      <4>2. Behind(task[i], due[i])
        BY ONLY <3>1, <4>1, DueInv, i \in RunIds DEF DueInv
      <4>3. QED
        BY ONLY <2>3, <4>1, <4>2 DEF Behind
    <3>2. QED
      BY ONLY <3>1
  <2>5. \A f \in skipped : Behind(f.task, f.due)'
    BY ONLY <2>1, <2>3, Shapes, TypeOK, DueInv DEF DueInv
  <2>6. QED
    BY ONLY <2>1, <2>2, <2>4, <2>5, Shapes, TypeOK, DueInv DEF DueInv, FiresOnce
<1>3. CASE TickFails
  BY <1>3 DEF TickFails, TickOnly, StoreFails, AfterError
<1>4. CASE TickEnd
  BY <1>4 DEF TickEnd, TickOnly
<1>5. ASSUME NEW t \in Tasks, ConsumeDue(t)
      PROVE  DueInv'
  <2>1. t \in todo /\ pc = "scan" /\ todo' = todo \ {t}
        /\ UNCHANGED <<now, copy, started, task, due, skipped>>
    BY <1>5 DEF ConsumeDue, TickOnly
  <2>2. CASE StoreFails /\ NotPersisted(t)
    BY ONLY <2>1, <2>2, DueScan, TypeOK, TypeOK', DueInv
    DEF StoreFails, NotPersisted, fileVars, DueInv
  <2>3. CASE PersistNextRun(t, NextRunAfter(copy.every[t], copy.now)) /\ TakeUp(t)
    BY ONLY <2>1, <2>3, <1>5, DueTakeUp, TypeOK, TypeOK', DueInv DEF ConsumeDue
  <2>4. QED
    BY ONLY <2>2, <2>3, <1>5 DEF ConsumeDue
<1>6. ASSUME NEW t \in Tasks, Reschedule(t)
      PROVE  DueInv'
  <2> DEFINE n == EffectiveNext(t)
  <2>1. t \in todo /\ pc = "scan" /\ pc' = "scan" /\ todo' = todo \ {t}
        /\ UNCHANGED <<now, copy, started, task, due, skipped>>
    BY <1>6 DEF Reschedule, TickOnly
  <2>2. copy.every[t] # 0
    BY <2>1
  <2>3. n \in Nat /\ (n # copy.next[t] => n > copy.now)
    BY ONLY <2>2, EffectiveNextIs, TypeOK, t \in Tasks
  <2> HIDE DEF n
  <2>4. /\ saved' = saved
        /\ \/ next' = next
           \/ /\ t \in saved /\ n # copy.next[t]
              /\ next' = [next EXCEPT ![t] = n]
    BY ONLY <1>6 DEF Reschedule, PersistNextRun, OnlyNext, StoreFails, fileVars, n
  <2>5. \A u \in Tasks : next'[u] \in {0, next[u]} \/ next'[u] > copy.now
    BY ONLY <2>3, <2>4, Shapes, TypeOK
  <2>6. \A u \in Tasks \ saved' : next'[u] = 0
    BY ONLY <2>4, Shapes, TypeOK, DueInv DEF DueInv
  <2>7. QED
    BY ONLY <2>1, <2>5, <2>6, DueScan, TypeOK, TypeOK', DueInv
<1>7. CASE Fire
  <2>1. /\ started < MaxRuns /\ started' = started + 1
        /\ task' = [task EXCEPT ![started + 1] = cur.task]
        /\ due' = [due EXCEPT ![started + 1] = cur.due]
        /\ UNCHANGED <<now, saved, next, copy, todo, skipped>>
        /\ pc = "fire" /\ pc' = "scan"
    BY ONLY <1>7 DEF Fire, TickOnly, Begin, fileVars
  <2>2. cur.task \in Tasks /\ cur.due \in Nat
    BY Shapes
  <2>3. QED
    BY ONLY <2>1, <2>2, DueBegin, TypeOK, TypeOK', DueInv
<1>8. CASE FindRunning
  BY <1>8 DEF FindRunning, TickOnly
<1>9. CASE RecordSkipped
  <2>1. /\ pc = "skip" /\ pc' = "scan"
        /\ UNCHANGED <<now, saved, next, copy, todo, started, task, due>>
        /\ skipped' = skipped \/ skipped' = skipped \cup {cur}
    BY ONLY <1>9 DEF RecordSkipped, TickOnly, StoreFails, beginVars, fileVars
  <2>2. ASSUME NEW t \in Tasks, NEW d \in Nat, Behind(t, d)
        PROVE  Behind(t, d)'
    BY <2>1, <2>2
  <2>3. \A i \in RunIds : due[i] # 0 => Behind(task[i], due[i])'
    <3>1. ASSUME NEW i \in RunIds, due[i] # 0
          PROVE  Behind(task[i], due[i])'
      <4>1. /\ task'[i] = task[i] /\ due'[i] = due[i]
            /\ task[i] \in Tasks /\ due[i] \in Nat
        BY ONLY <2>1, Shapes, TypeOK, i \in RunIds
      <4>2. Behind(task[i], due[i])
        BY ONLY <3>1, <4>1, DueInv, i \in RunIds DEF DueInv
      <4>3. QED
        BY ONLY <2>2, <4>1, <4>2 DEF Behind
    <3>2. QED
      BY ONLY <3>1
  <2>4. \A f \in skipped' : Behind(f.task, f.due)'
    BY ONLY <2>1, <2>2, Shapes, TypeOK, DueInv DEF DueInv
  <2>5. FiresOnce'
    <3>1. \A i \in RunIds : due[i] # 0 => [task |-> task[i], due |-> due[i]] # cur
      BY ONLY <2>1, Shapes, TypeOK, DueInv DEF DueInv
    <3>2. QED
      BY ONLY <2>1, <3>1, DueInv DEF DueInv, FiresOnce
  <2>6. QED
    BY ONLY <2>1, <2>3, <2>4, <2>5, DueInv DEF DueInv
<1>10. ASSUME NEW i \in RunIds, Connected(i)
      PROVE  DueInv'
  BY <1>10 DEF Connected, To, RunOnly
<1>11. ASSUME NEW i \in RunIds, KeepaliveStarted(i)
      PROVE  DueInv'
  BY <1>11 DEF KeepaliveStarted, To, RunOnly
<1>12. ASSUME NEW i \in RunIds, ConnectFails(i)
      PROVE  DueInv'
  BY <1>12 DEF ConnectFails, To, Outcome, RunOnly
<1>13. ASSUME NEW i \in RunIds, RetryLater(i)
      PROVE  DueInv'
  BY <1>13 DEF RetryLater, To, RunOnly
<1>14. ASSUME NEW i \in RunIds, RetryNow(i)
      PROVE  DueInv'
  BY <1>14 DEF RetryNow, To, Outcome, StoreFails, RunOnly
<1>15. ASSUME NEW i \in RunIds, NEW r \in {"ok", "error"}, WorkEnds(i, r)
      PROVE  DueInv'
  BY <1>15 DEF WorkEnds, To, RunOnly
<1>16. ASSUME NEW i \in RunIds, Disconnected(i)
      PROVE  DueInv'
  BY <1>16 DEF Disconnected, To, RunOnly
<1>17. ASSUME NEW i \in RunIds, DetachedDisconnect(i)
      PROVE  DueInv'
  BY <1>17 DEF DetachedDisconnect, RunOnly
<1>18. ASSUME NEW i \in RunIds, RecordOutcome(i)
      PROVE  DueInv'
  <2>1. /\ UNCHANGED <<now, saved, pc, copy, todo, cur, started, task, due, skipped>>
        /\ next' = next \/ next' = [next EXCEPT ![task[i]] = 0]
    BY ONLY <1>18 DEF RecordOutcome, ApplyRunResult, StoreFails, RunOnly, fileVars, tickVars, beginVars
  <2>2. \A t \in Tasks : next'[t] \in {0, next[t]}
    BY ONLY <2>1, Shapes, TypeOK
  <2>3. \A t \in Tasks \ saved' : next'[t] = 0
    BY ONLY <2>1, <2>2, DueInv DEF DueInv
  <2>4. QED
    BY ONLY <2>1, <2>2, <2>3, DueFrame, Shapes, TypeOK, TypeOK', DueInv
<1>19. ASSUME NEW i \in RunIds, Finish(i)
      PROVE  DueInv'
  BY <1>19 DEF Finish, To, DropGuard, RunOnly
<1>20. ASSUME NEW t \in Tasks, RunNow(t)
      PROVE  DueInv'
  <2>1. /\ started < MaxRuns /\ started' = started + 1
        /\ task' = [task EXCEPT ![started + 1] = t]
        /\ due' = [due EXCEPT ![started + 1] = 0]
        /\ UNCHANGED <<now, saved, next, copy, todo, skipped, pc, cur>>
    BY ONLY <1>20 DEF RunNow, Begin, fileVars, tickVars
  <2>2. QED
    BY ONLY <2>1, DueBegin, TypeOK, TypeOK', DueInv
<1>21. ASSUME NEW t \in Tasks, DeleteTask(t)
      PROVE  DueInv'
  <2>1. /\ UNCHANGED <<now, pc, copy, todo, cur, started, task, due, skipped>>
        /\ saved' = saved \ {t} /\ next' = [next EXCEPT ![t] = 0]
    BY ONLY <1>21 DEF DeleteTask, Edited, tickVars, beginVars
  <2>2. \A u \in Tasks : next'[u] \in {0, next[u]} /\ (u = t => next'[u] = 0)
    BY ONLY <2>1, Shapes, TypeOK
  <2>3. \A u \in Tasks \ saved' : next'[u] = 0
    BY ONLY <2>1, <2>2, DueInv DEF DueInv
  <2>4. QED
    BY ONLY <2>1, <2>2, <2>3, DueFrame, Shapes, TypeOK, TypeOK', DueInv
<1>22. ASSUME NEW t \in Tasks, NEW b \in BOOLEAN, SetTaskEnabled(t, b)
      PROVE  DueInv'
  <2>1. /\ UNCHANGED <<now, saved, pc, copy, todo, cur, started, task, due, skipped>>
        /\ t \in saved /\ \E v \in {0, now + every[t]} : next' = [next EXCEPT ![t] = v]
    <3>1. /\ UNCHANGED <<now, saved, pc, copy, todo, cur, started, task, due, skipped>>
          /\ t \in saved
          /\ next' = [next EXCEPT ![t] = IF b THEN now + every[t] ELSE 0]
      BY ONLY <1>22, b \in BOOLEAN DEF SetTaskEnabled, Edited, NextRunAfter, tickVars, beginVars
    <3>2. CASE b
      BY ONLY <3>1, <3>2
    <3>3. CASE ~b
      BY ONLY <3>1, <3>3
    <3>4. QED
      BY ONLY <3>2, <3>3
  <2>2. now + every[t] > now
    BY ONLY Shapes, TypeOK, SchedulerAssumption, t \in Tasks
  <2>3. \A u \in Tasks : next'[u] \in {0, next[u]} \/ next'[u] > now
    BY ONLY <2>1, <2>2, Shapes, TypeOK
  <2>4. \A u \in Tasks \ saved' : next'[u] = 0
    BY ONLY <2>1, Shapes, TypeOK, DueInv DEF DueInv
  <2>5. now' >= now
    BY ONLY <2>1, now \in Nat
  <2>6. QED
    BY ONLY <2>1, <2>3, <2>4, <2>5, DueFrame, TypeOK, TypeOK', DueInv
<1>23. ASSUME NEW t \in Tasks, NEW b \in BOOLEAN, NEW l \in Limits, NEW p \in Periods, SaveTask(t, b, l, p)
      PROVE  DueInv'
  <2>1. /\ UNCHANGED <<now, pc, copy, todo, cur, started, task, due, skipped>>
        /\ saved' = saved \cup {t} /\ \E v \in {0, now + p} : next' = [next EXCEPT ![t] = v]
    <3>1. /\ UNCHANGED <<now, pc, copy, todo, cur, started, task, due, skipped>>
          /\ saved' = saved \cup {t}
          /\ next' = [next EXCEPT ![t] = IF b THEN now + p ELSE 0]
      BY ONLY <1>23, b \in BOOLEAN DEF SaveTask, Edited, NextRunAfter, tickVars, beginVars
    <3>2. CASE b
      BY ONLY <3>1, <3>2
    <3>3. CASE ~b
      BY ONLY <3>1, <3>3
    <3>4. QED
      BY ONLY <3>2, <3>3
  <2>2. now + p > now
    BY ONLY Shapes, TypeOK, SchedulerAssumption, p \in Periods
  <2>3. \A u \in Tasks : next'[u] \in {0, next[u]} \/ next'[u] > now
    BY ONLY <2>1, <2>2, Shapes, TypeOK
  <2>4. \A u \in Tasks \ saved' : next'[u] = 0
    BY ONLY <2>1, Shapes, TypeOK, DueInv DEF DueInv
  <2>5. now' >= now
    BY ONLY <2>1, now \in Nat
  <2>6. QED
    BY ONLY <2>1, <2>3, <2>4, <2>5, DueFrame, TypeOK, TypeOK', DueInv
<1>24. ASSUME NEW m \in {"skip", "catchup"}, SetSchedulerSettings(m)
      PROVE  DueInv'
  BY <1>24 DEF SetSchedulerSettings, Edited
<1>25. ASSUME NEW i \in RunIds, CancelRun(i)
      PROVE  DueInv'
  BY <1>25 DEF CancelRun, To, Outcome, Armed, RunOnly
<1>26. CASE Crash
  BY <1>26 DEF Crash, Live
<1>27. CASE Start
  BY <1>27 DEF Start
<1>28. CASE UNCHANGED vars
  <2>1. UNCHANGED <<now, saved, next, pc, copy, todo, cur, started, task, due, skipped>>
    BY ONLY <1>28 DEF vars, fileVars, tickVars, beginVars
  <2>2. QED
    BY ONLY <2>1, DueFrame, Shapes, TypeOK, TypeOK', DueInv DEF DueInv
<1>29. QED
  BY <1>1, <1>2, <1>3, <1>4, <1>5, <1>6, <1>7, <1>8, <1>9, <1>10, <1>11, <1>12, <1>13, <1>14, <1>15, <1>16, <1>17, <1>18, <1>19, <1>20, <1>21, <1>22, <1>23, <1>24, <1>25, <1>26, <1>27, <1>28
  DEF Next, Tick, RunStep, Command

(* No firing leads to two runs, or to a run and a skipped row, through      *)
(* crashes, failed writes and edits between the steps of a tick.            *)
THEOREM EveryDueFiresOnce == Spec => []FiresOnce
<1>1. DueInv => FiresOnce
  BY DEF DueInv
<1>2. QED
  BY <1>1, TypeInit, TypeStep, DueInit, DueInvStep, PTL DEF Spec

-----------------------------------------------------------------------------
LEMMA PausedStep ==
  ASSUME TypeOK, AutoPausedIsOff, [Next]_vars
  PROVE  AutoPausedIsOff'
<1> USE DEF TypeOK, fileVars, tickVars, bootVars, beginVars, runVars, upsetVars,
        AutoPausedIsOff
<1>1. CASE Clock
  BY <1>1 DEF Clock
<1>2. CASE TickStart
  BY <1>2 DEF TickStart, TickOnly
<1>3. CASE TickFails
  BY <1>3 DEF TickFails, TickOnly, StoreFails, AfterError
<1>4. CASE TickEnd
  BY <1>4 DEF TickEnd, TickOnly
<1>5. ASSUME NEW t \in Tasks, ConsumeDue(t)
      PROVE  AutoPausedIsOff'
  BY <1>5 DEF ConsumeDue, TickOnly, PersistNextRun, OnlyNext, TakeUp, NotPersisted, StoreFails, NextRunAfter
<1>6. ASSUME NEW t \in Tasks, Reschedule(t)
      PROVE  AutoPausedIsOff'
  BY <1>6 DEF Reschedule, TickOnly, PersistNextRun, OnlyNext, StoreFails, EffectiveNext, ResolveStartup, NextRunAfter
<1>7. CASE Fire
  BY <1>7 DEF Fire, TickOnly, Begin, Origin
<1>8. CASE FindRunning
  BY <1>8 DEF FindRunning, TickOnly
<1>9. CASE RecordSkipped
  BY <1>9 DEF RecordSkipped, TickOnly, StoreFails
<1>10. ASSUME NEW i \in RunIds, Connected(i)
      PROVE  AutoPausedIsOff'
  BY <1>10 DEF Connected, To, RunOnly
<1>11. ASSUME NEW i \in RunIds, KeepaliveStarted(i)
      PROVE  AutoPausedIsOff'
  BY <1>11 DEF KeepaliveStarted, To, RunOnly
<1>12. ASSUME NEW i \in RunIds, ConnectFails(i)
      PROVE  AutoPausedIsOff'
  BY <1>12 DEF ConnectFails, To, Outcome, RunOnly
<1>13. ASSUME NEW i \in RunIds, RetryLater(i)
      PROVE  AutoPausedIsOff'
  BY <1>13 DEF RetryLater, To, RunOnly
<1>14. ASSUME NEW i \in RunIds, RetryNow(i)
      PROVE  AutoPausedIsOff'
  BY <1>14 DEF RetryNow, To, Outcome, StoreFails, RunOnly
<1>15. ASSUME NEW i \in RunIds, NEW r \in {"ok", "error"}, WorkEnds(i, r)
      PROVE  AutoPausedIsOff'
  BY <1>15 DEF WorkEnds, To, RunOnly
<1>16. ASSUME NEW i \in RunIds, Disconnected(i)
      PROVE  AutoPausedIsOff'
  BY <1>16 DEF Disconnected, To, RunOnly
<1>17. ASSUME NEW i \in RunIds, DetachedDisconnect(i)
      PROVE  AutoPausedIsOff'
  BY <1>17 DEF DetachedDisconnect, RunOnly
<1>18. ASSUME NEW i \in RunIds, RecordOutcome(i)
      PROVE  AutoPausedIsOff'
  BY <1>18 DEF RecordOutcome, To, ApplyRunResult, Streak, StoreFails, RunOnly
<1>19. ASSUME NEW i \in RunIds, Finish(i)
      PROVE  AutoPausedIsOff'
  BY <1>19 DEF Finish, To, DropGuard, RunOnly
<1>20. ASSUME NEW t \in Tasks, RunNow(t)
      PROVE  AutoPausedIsOff'
  BY <1>20 DEF RunNow, Begin
<1>21. ASSUME NEW t \in Tasks, DeleteTask(t)
      PROVE  AutoPausedIsOff'
  BY <1>21 DEF DeleteTask, Edited
<1>22. ASSUME NEW t \in Tasks, NEW b \in BOOLEAN, SetTaskEnabled(t, b)
      PROVE  AutoPausedIsOff'
  BY <1>22 DEF SetTaskEnabled, Edited, NextRunAfter
<1>23. ASSUME NEW t \in Tasks, NEW b \in BOOLEAN, NEW l \in Limits, NEW p \in Periods, SaveTask(t, b, l, p)
      PROVE  AutoPausedIsOff'
  BY <1>23 DEF SaveTask, Edited, MarkKept, NextRunAfter
<1>24. ASSUME NEW m \in {"skip", "catchup"}, SetSchedulerSettings(m)
      PROVE  AutoPausedIsOff'
  BY <1>24 DEF SetSchedulerSettings, Edited
<1>25. ASSUME NEW i \in RunIds, CancelRun(i)
      PROVE  AutoPausedIsOff'
  BY <1>25 DEF CancelRun, To, Outcome, Armed, RunOnly
<1>26. CASE Crash
  BY <1>26 DEF Crash, Live
<1>27. CASE Start
  BY <1>27 DEF Start
<1>28. CASE UNCHANGED vars
  BY <1>28 DEF vars
<1>29. QED
  BY <1>1, <1>2, <1>3, <1>4, <1>5, <1>6, <1>7, <1>8, <1>9, <1>10, <1>11, <1>12, <1>13, <1>14, <1>15, <1>16, <1>17, <1>18, <1>19, <1>20, <1>21, <1>22, <1>23, <1>24, <1>25, <1>26, <1>27, <1>28
  DEF Next, Tick, RunStep, Command

(* A task that failures have stopped is never enabled with the mark on.     *)
THEOREM PausedStaysOff == Spec => []AutoPausedIsOff
<1>1. Init => AutoPausedIsOff
  BY DEF Init, AutoPausedIsOff
<1>2. QED
  BY <1>1, TypeInit, TypeStep, PausedStep, PTL DEF Spec

-----------------------------------------------------------------------------
EditKept == edits' = edits => /\ saved' = saved /\ every' = every /\ limit' = limit
                              /\ enabled' \subseteq enabled

LEMMA EditStep ==
  ASSUME TypeOK, [Next]_vars
  PROVE  EditKept
<1> USE DEF TypeOK, fileVars, tickVars, bootVars, beginVars, runVars, upsetVars,
        EditKept
<1>1. CASE Clock
  BY <1>1 DEF Clock
<1>2. CASE TickStart
  BY <1>2 DEF TickStart, TickOnly
<1>3. CASE TickFails
  BY <1>3 DEF TickFails, TickOnly, StoreFails, AfterError
<1>4. CASE TickEnd
  BY <1>4 DEF TickEnd, TickOnly
<1>5. ASSUME NEW t \in Tasks, ConsumeDue(t)
      PROVE  EditKept
  BY <1>5 DEF ConsumeDue, TickOnly, PersistNextRun, OnlyNext, TakeUp, NotPersisted, StoreFails, NextRunAfter
<1>6. ASSUME NEW t \in Tasks, Reschedule(t)
      PROVE  EditKept
  BY <1>6 DEF Reschedule, TickOnly, PersistNextRun, OnlyNext, StoreFails, EffectiveNext, ResolveStartup, NextRunAfter
<1>7. CASE Fire
  BY <1>7 DEF Fire, TickOnly, Begin, Origin
<1>8. CASE FindRunning
  BY <1>8 DEF FindRunning, TickOnly
<1>9. CASE RecordSkipped
  BY <1>9 DEF RecordSkipped, TickOnly, StoreFails
<1>10. ASSUME NEW i \in RunIds, Connected(i)
      PROVE  EditKept
  BY <1>10 DEF Connected, To, RunOnly
<1>11. ASSUME NEW i \in RunIds, KeepaliveStarted(i)
      PROVE  EditKept
  BY <1>11 DEF KeepaliveStarted, To, RunOnly
<1>12. ASSUME NEW i \in RunIds, ConnectFails(i)
      PROVE  EditKept
  BY <1>12 DEF ConnectFails, To, Outcome, RunOnly
<1>13. ASSUME NEW i \in RunIds, RetryLater(i)
      PROVE  EditKept
  BY <1>13 DEF RetryLater, To, RunOnly
<1>14. ASSUME NEW i \in RunIds, RetryNow(i)
      PROVE  EditKept
  BY <1>14 DEF RetryNow, To, Outcome, StoreFails, RunOnly
<1>15. ASSUME NEW i \in RunIds, NEW r \in {"ok", "error"}, WorkEnds(i, r)
      PROVE  EditKept
  BY <1>15 DEF WorkEnds, To, RunOnly
<1>16. ASSUME NEW i \in RunIds, Disconnected(i)
      PROVE  EditKept
  BY <1>16 DEF Disconnected, To, RunOnly
<1>17. ASSUME NEW i \in RunIds, DetachedDisconnect(i)
      PROVE  EditKept
  BY <1>17 DEF DetachedDisconnect, RunOnly
<1>18. ASSUME NEW i \in RunIds, RecordOutcome(i)
      PROVE  EditKept
  BY <1>18 DEF RecordOutcome, To, ApplyRunResult, Streak, StoreFails, RunOnly
<1>19. ASSUME NEW i \in RunIds, Finish(i)
      PROVE  EditKept
  BY <1>19 DEF Finish, To, DropGuard, RunOnly
<1>20. ASSUME NEW t \in Tasks, RunNow(t)
      PROVE  EditKept
  BY <1>20 DEF RunNow, Begin
<1>21. ASSUME NEW t \in Tasks, DeleteTask(t)
      PROVE  EditKept
  BY <1>21 DEF DeleteTask, Edited
<1>22. ASSUME NEW t \in Tasks, NEW b \in BOOLEAN, SetTaskEnabled(t, b)
      PROVE  EditKept
  BY <1>22 DEF SetTaskEnabled, Edited, NextRunAfter
<1>23. ASSUME NEW t \in Tasks, NEW b \in BOOLEAN, NEW l \in Limits, NEW p \in Periods, SaveTask(t, b, l, p)
      PROVE  EditKept
  BY <1>23 DEF SaveTask, Edited, MarkKept, NextRunAfter
<1>24. ASSUME NEW m \in {"skip", "catchup"}, SetSchedulerSettings(m)
      PROVE  EditKept
  BY <1>24 DEF SetSchedulerSettings, Edited
<1>25. ASSUME NEW i \in RunIds, CancelRun(i)
      PROVE  EditKept
  BY <1>25 DEF CancelRun, To, Outcome, Armed, RunOnly
<1>26. CASE Crash
  BY <1>26 DEF Crash, Live
<1>27. CASE Start
  BY <1>27 DEF Start
<1>28. CASE UNCHANGED vars
  BY <1>28 DEF vars
<1>29. QED
  BY <1>1, <1>2, <1>3, <1>4, <1>5, <1>6, <1>7, <1>8, <1>9, <1>10, <1>11, <1>12, <1>13, <1>14, <1>15, <1>16, <1>17, <1>18, <1>19, <1>20, <1>21, <1>22, <1>23, <1>24, <1>25, <1>26, <1>27, <1>28
  DEF Next, Tick, RunStep, Command

(* No step but a command takes back what a command wrote.                   *)
THEOREM EditsStay == Spec => EditsAreKept
<1>1. TypeOK /\ [Next]_vars => [EditKept]_vars
  BY EditStep
<1>2. QED
  BY <1>1, TypeInit, TypeStep, PTL DEF Spec, EditsAreKept, EditKept

-----------------------------------------------------------------------------
\* What a step outside the tick may do to the file: a next run goes to "none"
\* or past the clock, and so does that of a task that is turned on.
OutsideTick ==
  /\ now' >= now /\ ioErrors' >= ioErrors
  /\ UNCHANGED <<tickVars, bootVars, origin>>
  /\ \A t \in Tasks : next'[t] \in {0, next[t]} \/ next'[t] >= now
  /\ \A t \in enabled' \ enabled : next'[t] = 0 \/ next'[t] >= now

LEMMA MissOutside ==
  ASSUME TypeOK, TypeOK', MissInv, OutsideTick
  PROVE  MissInv'
<1>1. /\ now \in Nat /\ now' \in Nat /\ bootAt \in Nat /\ ioErrors \in Nat /\ ioErrors' \in Nat
      /\ bootErrors \in Nat /\ enabled \subseteq Tasks /\ enabled' \subseteq Tasks
      /\ todo \subseteq Tasks
      /\ next \in [Tasks -> Nat] /\ next' \in [Tasks -> Nat]
  BY DEF TypeOK
<1>2. /\ bootErrors <= ioErrors /\ bootAt <= now
      /\ now' >= now /\ ioErrors' >= ioErrors
      /\ UNCHANGED <<pc, tick, copy, todo, cur, bootAt, bootErrors, origin>>
  BY DEF MissInv, OutsideTick, tickVars, bootVars
<1>3. ASSUME NEW n \in Nat, n >= now
      PROVE  Fresh(n)
  BY <1>1, <1>2, <1>3 DEF Fresh
<1>4. ASSUME NEW t \in Tasks
      PROVE  next'[t] = next[t] \/ Fresh(next'[t])
  <2>1. next'[t] \in Nat
    BY <1>1
  <2>2. QED
    BY <1>3, <2>1 DEF OutsideTick, Fresh
<1>5. ASSUME NEW t \in enabled' \ enabled
      PROVE  Fresh(next'[t])
  <2>1. next'[t] \in Nat
    BY <1>1
  <2>2. QED
    BY <1>3, <2>1 DEF OutsideTick, Fresh
<1>6. Up' /\ ioErrors' = bootErrors' => Up /\ ioErrors = bootErrors
  BY <1>1, <1>2 DEF Up
<1>7. \A n : Fresh(n)' <=> Fresh(n)
  BY <1>2 DEF Fresh
<1>8. (tick = "later" => \A t \in enabled : Fresh(next[t]))
      => (tick' = "later" => \A t \in enabled' : Fresh(next'[t]))
  BY <1>1, <1>2, <1>4, <1>5
<1>9. (\A t \in enabled \ todo : Fresh(next[t])) => \A t \in enabled' \ todo' : Fresh(next'[t])
  BY <1>1, <1>2, <1>4, <1>5
<1>10. (\A t \in todo : next[t] = copy.next[t] \/ Fresh(next[t]))
       => \A t \in todo' : next'[t] = copy'.next[t] \/ Fresh(next'[t])
  BY <1>1, <1>2, <1>4
<1>11. bootErrors' <= ioErrors' /\ bootAt' <= now' /\ MissedIsSkipped'
  BY <1>1, <1>2 DEF MissInv, MissedIsSkipped
<1>12. Fresh(0)' = Fresh(0)
  BY <1>2 DEF Fresh
<1>13. QED
  BY <1>2, <1>6, <1>8, <1>9, <1>10, <1>11 DEF MissInv, Fresh

\* A run's steps are of that kind, and so is its cancellation ...
LEMMA OutsideRun ==
  ASSUME TypeOK, NEW i \in RunIds, RunStep(i) \/ CancelRun(i)
  PROVE  OutsideTick
<1>0. /\ now \in Nat /\ ioErrors \in Nat /\ next \in [Tasks -> Nat] /\ enabled \subseteq Tasks
  BY DEF TypeOK
<1> USE <1>0 DEF OutsideTick, fileVars, tickVars, bootVars, beginVars, runVars, upsetVars
<1>1. CASE Connected(i)
  BY <1>1 DEF Connected, To, RunOnly
<1>2. CASE KeepaliveStarted(i)
  BY <1>2 DEF KeepaliveStarted, To, RunOnly
<1>3. CASE ConnectFails(i)
  BY <1>3 DEF ConnectFails, To, Outcome, RunOnly
<1>4. CASE RetryLater(i)
  BY <1>4 DEF RetryLater, To, RunOnly
<1>5. CASE RetryNow(i)
  BY <1>5 DEF RetryNow, To, Outcome, StoreFails, RunOnly
<1>6. ASSUME NEW q \in {"ok", "error"}, WorkEnds(i, q)
      PROVE  OutsideTick
  BY <1>6 DEF WorkEnds, To, RunOnly
<1>7. CASE Disconnected(i)
  BY <1>7 DEF Disconnected, To, RunOnly
<1>8. CASE DetachedDisconnect(i)
  BY <1>8 DEF DetachedDisconnect, RunOnly
<1>9. CASE RecordOutcome(i)
  BY <1>9 DEF RecordOutcome, To, ApplyRunResult, Streak, StoreFails, RunOnly
<1>10. CASE Finish(i)
  BY <1>10 DEF Finish, To, DropGuard, RunOnly
<1>11. CASE CancelRun(i)
  BY <1>11 DEF CancelRun, To, Outcome, Armed, RunOnly
<1>12. QED
  BY <1>1, <1>2, <1>3, <1>4, <1>5, <1>6, <1>7, <1>8, <1>9, <1>10, <1>11 DEF RunStep

\* ... and the commands.
LEMMA OutsideCommand ==
  ASSUME TypeOK, NEW t \in Tasks, NEW b \in BOOLEAN, NEW l \in Limits, NEW p \in Periods,
         NEW m \in {"skip", "catchup"},
         \/ DeleteTask(t) \/ SetTaskEnabled(t, b)
         \/ SaveTask(t, b, l, p) \/ SetSchedulerSettings(m)
  PROVE  OutsideTick
<1>1. /\ now \in Nat /\ ioErrors \in Nat /\ next \in [Tasks -> Nat] /\ enabled \subseteq Tasks
      /\ every[t] \in Nat /\ p \in Nat
  <2>1. Periods \subseteq Nat
    BY SchedulerAssumption
  <2>2. QED
    BY <2>1 DEF TypeOK
<1> USE <1>1 DEF OutsideTick, fileVars, tickVars, bootVars, beginVars, runVars, upsetVars
<1>2. now + every[t] >= now /\ now + p >= now
  OBVIOUS
<1>3. CASE DeleteTask(t)
  BY <1>3 DEF DeleteTask, Edited
<1>4. CASE SetTaskEnabled(t, b)
  BY <1>2, <1>4 DEF SetTaskEnabled, Edited, NextRunAfter
<1>5. CASE SaveTask(t, b, l, p)
  BY <1>2, <1>5 DEF SaveTask, Edited, MarkKept, NextRunAfter
<1>6. CASE SetSchedulerSettings(m)
  BY <1>6 DEF SetSchedulerSettings, Edited
<1>7. QED
  BY <1>3, <1>4, <1>5, <1>6

LEMMA MissInit == Init => MissInv
BY DEF Init, MissInv, MissedIsSkipped, Up, RunIds

LEMMA MissStep ==
  ASSUME TypeOK, TypeOK', DueInv, MissInv, [Next]_vars
  PROVE  MissInv'
<1>0. /\ now \in Nat /\ bootAt \in Nat /\ bootErrors \in Nat /\ ioErrors \in Nat
      /\ copy.now \in Nat /\ cur.due \in Nat /\ enabled \subseteq Tasks /\ todo \subseteq Tasks
      /\ copy.next \in [Tasks -> Nat] /\ next \in [Tasks -> Nat]
  BY Shapes DEF TypeOK
<1>a. \A t \in Tasks \ saved : next[t] = 0
  BY DEF DueInv
<1> USE <1>0 DEF fileVars, tickVars, bootVars, beginVars, runVars, upsetVars
<1>2. CASE TickStart
  <2>1. /\ pc' = "scan" /\ copy'.now = now /\ copy'.next = next /\ todo' = saved \cap enabled
        /\ pc = "asleep"
        /\ UNCHANGED <<tick, enabled, next, bootAt, bootErrors, ioErrors, origin, now>>
    BY <1>2 DEF TickStart, TickOnly
  <2>2. \A t \in enabled \ (saved \cap enabled) : next[t] = 0
    BY <1>a
  <2>3. QED
    BY <2>1, <2>2 DEF MissInv, MissedIsSkipped, Up, Fresh
<1>3. CASE TickFails
  BY <1>3 DEF TickFails, TickOnly, StoreFails, AfterError, MissInv, MissedIsSkipped, Up
<1>4. CASE TickEnd
  BY <1>4 DEF TickEnd, TickOnly, MissInv, MissedIsSkipped, Up, Fresh
<1>5. ASSUME NEW t \in Tasks, ConsumeDue(t)
      PROVE  MissInv'
  <2> DEFINE n == EffectiveNext(t)
             m == NextRunAfter(copy.every[t], copy.now)
  <2>1. /\ pc = "scan" /\ t \in todo /\ todo' = todo \ {t} /\ IsDue(n, copy.now)
        /\ UNCHANGED <<tick, copy, bootAt, bootErrors, origin, now>>
        /\ pc' \in {"scan", "fire"}
        /\ bootAt <= copy.now /\ bootErrors <= ioErrors /\ bootAt <= now
    BY <1>5 DEF ConsumeDue, TickOnly, PersistNextRun, StoreFails, TakeUp, NotPersisted, MissInv
  <2>2. copy.every[t] # 0
    BY <2>1 DEF DueInv
  <2>3. n = copy.next[t] /\ m > copy.now /\ m \in Nat
    BY <2>1, <2>2, EffectiveNextIs
  <2>4. tick # "later" => copy.missed = "catchup"
    <3>1. tick = "first" \/ tick = "later"
      BY DEF TypeOK
    <3>2. QED
      BY <2>1, <2>3, <3>1 DEF EffectiveNext, ResolveStartup, IsDue
  <2>5. n # 0
    BY <2>1 DEF IsDue
  <2> HIDE DEF n, m
  <2>6. CASE StoreFails /\ NotPersisted(t)
    BY <2>1, <2>6 DEF StoreFails, NotPersisted, MissInv, MissedIsSkipped, Up
  <2>7. CASE PersistNextRun(t, m) /\ TakeUp(t)
    <3>1. /\ UNCHANGED ioErrors /\ enabled' = enabled /\ pc' = "fire" /\ cur'.due = n
          /\ \A u \in Tasks : u # t => next'[u] = next[u]
          /\ next'[t] = m \/ (t \notin saved /\ next' = next)
      BY <2>7 DEF PersistNextRun, OnlyNext, TakeUp, n
    <3>2. Fresh(next'[t])
      BY <1>a, <2>1, <2>3, <3>1 DEF Fresh
    <3> SUFFICES ASSUME ioErrors = bootErrors
                 PROVE  MissInv'
      BY <2>1, <3>1 DEF MissInv, MissedIsSkipped, Up
    <3>3. \A u \in enabled' \ todo' : Fresh(next'[u])
      BY <2>1, <3>1, <3>2 DEF MissInv, Up
    <3>4. \A u \in todo' : next'[u] = copy.next[u] \/ Fresh(next'[u])
      BY <2>1, <3>1 DEF MissInv, Up
    <3>5. tick = "later" => \A u \in todo : Fresh(copy.next[u])
      BY <2>1 DEF MissInv, Up
    <3>6. n >= bootAt \/ (tick = "first" /\ copy.missed = "catchup")
      BY <2>1, <2>3, <2>4, <2>5, <3>5 DEF Fresh, TypeOK
    <3>7. tick = "later" => \A u \in enabled' : Fresh(next'[u])
      BY <2>1, <3>1, <3>2 DEF MissInv, Up
    <3>8. QED
      BY <2>1, <3>1, <3>3, <3>4, <3>5, <3>6, <3>7 DEF MissInv, MissedIsSkipped, Up, Fresh
  <2>8. QED
    BY <1>5, <2>6, <2>7 DEF ConsumeDue, m
<1>6. ASSUME NEW t \in Tasks, Reschedule(t)
      PROVE  MissInv'
  <2> DEFINE n == EffectiveNext(t)
             m == NextRunAfter(copy.every[t], copy.now)
  <2>1. /\ pc = "scan" /\ t \in todo /\ todo' = todo \ {t} /\ ~IsDue(n, copy.now)
        /\ UNCHANGED <<pc, tick, copy, cur, bootAt, bootErrors, origin, now>>
        /\ bootAt <= copy.now /\ bootErrors <= ioErrors /\ bootAt <= now
    BY <1>6 DEF Reschedule, TickOnly, MissInv
  <2>2. copy.every[t] # 0
    BY <2>1 DEF DueInv
  <2>3. n \in {copy.next[t], m} /\ n \in Nat /\ m > copy.now /\ m \in Nat
    BY <2>2, EffectiveNextIs
  <2>4. n # 0
    BY <2>3 DEF EffectiveNext, ResolveStartup
  <2>5. n > copy.now /\ Fresh(n)
    BY <2>1, <2>3, <2>4 DEF IsDue, Fresh
  <2> HIDE DEF n, m
  <2>6. CASE StoreFails
    BY <2>1, <2>6 DEF StoreFails, MissInv, MissedIsSkipped, Up
  <2>7. CASE \/ n = copy.next[t] /\ UNCHANGED <<fileVars, upsetVars>>
             \/ PersistNextRun(t, n)
    <3>1. /\ UNCHANGED ioErrors /\ enabled' = enabled
          /\ \A u \in Tasks : u # t => next'[u] = next[u]
          /\ \/ next'[t] = n \/ (t \notin saved /\ next' = next)
             \/ n = copy.next[t] /\ next' = next
      BY <2>7 DEF PersistNextRun, OnlyNext
    <3> SUFFICES ASSUME ioErrors = bootErrors
                 PROVE  MissInv'
      BY <2>1, <3>1 DEF MissInv, MissedIsSkipped, Up
    <3>2. next[t] = copy.next[t] \/ Fresh(next[t])
      BY <2>1 DEF MissInv, Up
    <3>a. Fresh(0)
      BY DEF Fresh
    <3>b. Fresh(next'[t])
      BY <1>a, <2>5, <3>1, <3>2, <3>a
    <3>3. \A u \in enabled' \ todo' : Fresh(next'[u])
      BY <2>1, <3>1, <3>b DEF MissInv, Up
    <3>4. \A u \in todo' : next'[u] = copy.next[u] \/ Fresh(next'[u])
      BY <2>1, <3>1 DEF MissInv, Up
    <3>5. tick = "later" => \A u \in todo : Fresh(copy.next[u])
      BY <2>1 DEF MissInv, Up
    <3>7. tick = "later" => \A u \in enabled' : Fresh(next'[u])
      BY <2>1, <3>1, <3>b DEF MissInv, Up
    <3>8. QED
      BY <2>1, <3>1, <3>3, <3>4, <3>5, <3>7 DEF MissInv, MissedIsSkipped, Up, Fresh
  <2>8. QED
    BY <1>6, <2>6, <2>7 DEF Reschedule, n
<1>7. CASE Fire
  <2>1. /\ pc = "fire" /\ pc' = "scan" /\ origin' = [origin EXCEPT ![started + 1] = Origin]
        /\ UNCHANGED <<tick, copy, todo, enabled, next, bootAt, bootErrors, ioErrors, now>>
    BY <1>7 DEF Fire, TickOnly, Begin
  <2>2. Origin # "uncalled"
    BY <2>1 DEF MissInv, Origin, Up
  <2>3. MissedIsSkipped'
    BY <2>1, <2>2 DEF MissInv, MissedIsSkipped, TypeOK
  <2>4. QED
    BY <2>1, <2>3 DEF MissInv, Up, Fresh
<1>8. CASE FindRunning
  BY <1>8 DEF FindRunning, TickOnly, MissInv, MissedIsSkipped, Up, Fresh
<1>9. CASE RecordSkipped
  BY <1>9 DEF RecordSkipped, TickOnly, StoreFails, MissInv, MissedIsSkipped, Up, Fresh
<1>20. ASSUME NEW t \in Tasks, RunNow(t)
      PROVE  MissInv'
  <2>1. /\ origin' = [origin EXCEPT ![started + 1] = "called"]
        /\ UNCHANGED <<now, fileVars, tickVars, bootVars, upsetVars>>
    BY <1>20 DEF RunNow, Begin
  <2>2. MissedIsSkipped'
    BY <2>1 DEF MissInv, MissedIsSkipped, TypeOK
  <2>3. QED
    BY <2>1, <2>2 DEF MissInv, Up, Fresh
<1>26. CASE Crash
  BY <1>26 DEF Crash, MissInv, MissedIsSkipped, Up
<1>27. CASE Start
  BY <1>27 DEF Start, MissInv, MissedIsSkipped, Up
<1>28. CASE Clock \/ UNCHANGED vars
  <2>1. OutsideTick
    BY <1>28 DEF Clock, vars, OutsideTick
  <2>2. QED
    BY <2>1, MissOutside
<1>29. ASSUME NEW i \in RunIds, RunStep(i) \/ CancelRun(i)
       PROVE  MissInv'
  BY <1>29, OutsideRun, MissOutside
<1>30. ASSUME NEW t \in Tasks, NEW b \in BOOLEAN, NEW l \in Limits, NEW p \in Periods,
              NEW m \in {"skip", "catchup"},
              \/ DeleteTask(t) \/ SetTaskEnabled(t, b)
              \/ SaveTask(t, b, l, p) \/ SetSchedulerSettings(m)
       PROVE  MissInv'
  BY <1>30, OutsideCommand, MissOutside
<1>31. PICK l0 \in Limits, p0 \in Periods : TRUE
  BY SchedulerAssumption
<1>32. /\ \A t \in Tasks : DeleteTask(t) => MissInv'
       /\ \A t \in Tasks, b \in BOOLEAN : SetTaskEnabled(t, b) => MissInv'
       /\ \A m \in {"skip", "catchup"} : SetSchedulerSettings(m) => MissInv'
  BY <1>30, <1>31, SchedulerAssumption
<1>33. QED
  BY <1>2, <1>3, <1>4, <1>5, <1>6, <1>7, <1>8, <1>9, <1>20, <1>26, <1>27, <1>28, <1>29, <1>30, <1>32
  DEF Next, Tick, Command

(* What fell due while the application was closed is run only by a first    *)
(* tick that was told to catch up, whatever commands and runs come in       *)
(* between; only a store operation that failed since the start can leave    *)
(* such a firing in the file for a later tick.                              *)
THEOREM MissedNeverRuns == Spec => []MissedIsSkipped
<1>1. MissInv => MissedIsSkipped
  BY DEF MissInv
<1>2. QED
  BY <1>1, TypeInit, TypeStep, DueInit, DueInvStep, MissInit, MissStep, PTL DEF Spec
-----------------------------------------------------------------------------
LEMMA RunsAreFinite ==
  ASSUME NEW C \in SUBSET RunIds
  PROVE  IsFiniteSet(C) /\ Cardinality(C) \in Nat
<1>1. IsFiniteSet(RunIds)
  BY SchedulerAssumption, FS_Interval DEF RunIds
<1>2. QED
  BY <1>1, FS_Subset, FS_CardinalityType

LEMMA CountedAreRuns ==
  ASSUME NEW t
  PROVE  /\ TypeOK => CountedFailures(t) \in SUBSET RunIds
         /\ TypeOK' => CountedFailures(t)' \in SUBSET RunIds
BY DEF CountedFailures, TypeOK

\* What a step other than the recording of a result leaves of the streaks.
StreakSame ==
  /\ UNCHANGED written
  /\ \A i \in written : task'[i] = task[i] /\ result'[i] = result[i]
  /\ \A i \in written : i <= started' /\ phase'[i] \in Settled
  /\ \A t \in Tasks : fails'[t] \in {0, fails[t]}

LEMMA StreakKept ==
  ASSUME TypeOK, TypeOK', StreakInv, StreakSame, Judged',
         \A i, j \in RunIds : i < j /\ j <= started' /\ Live(i)' => task'[j] # task'[i]
  PROVE  StreakInv'
<1>1. ASSUME NEW t \in Tasks
      PROVE  fails'[t] <= Cardinality(CountedFailures(t)')
  <2>1. CountedFailures(t)' = CountedFailures(t)
    BY DEF StreakSame, CountedFailures
  <2>2. Cardinality(CountedFailures(t)) \in Nat /\ fails[t] \in Nat
    BY CountedAreRuns, RunsAreFinite DEF TypeOK
  <2>3. fails'[t] \in {0, fails[t]} /\ fails[t] <= Cardinality(CountedFailures(t))
    BY DEF StreakInv, StreakSame
  <2>4. QED
    BY <2>1, <2>2, <2>3
<1>2. \A i \in written' : i <= started' /\ phase'[i] \in Settled
  BY DEF StreakSame
<1>3. QED
  BY <1>1, <1>2 DEF StreakInv

LEMMA BeginKeepsStreak ==
  ASSUME TypeOK, TypeOK', RunInv, StreakInv, NEW t \in Tasks, NEW d, NEW how, NEW on,
         Begin(t, d, how, on), UNCHANGED fails
  PROVE  StreakInv'
<1> DEFINE new == started + 1
<1>1. /\ new \in RunIds /\ started \in Nat /\ started' = new /\ t \notin running
      /\ UNCHANGED <<written, result>>
      /\ task'[new] = t
      /\ \A i \in RunIds : i # new => task'[i] = task[i] /\ phase'[i] = phase[i]
  BY NextId DEF Begin, Free, TypeOK
<1>2. \A i \in RunIds : Live(i) => task[i] # t
  BY <1>1 DEF RunInv
<1>3. \A i \in written : i \in RunIds /\ i <= started /\ i # new
  BY <1>1 DEF StreakInv, TypeOK, RunIds
<1>4. StreakSame
  BY <1>1, <1>3 DEF StreakSame, StreakInv, TypeOK, RunIds
<1>5. ASSUME NEW i \in RunIds, NEW j \in RunIds, i < j, j <= new, Live(i)'
      PROVE  task'[j] # task'[i]
  <2>1. i \in Nat /\ j \in Nat /\ i # new
    BY <1>1, <1>5 DEF RunIds
  <2>2. Live(i) /\ task'[i] = task[i]
    BY <1>1, <1>5, <2>1 DEF Live
  <2>3. CASE j = new
    BY <1>1, <1>2, <2>2, <2>3
  <2>4. CASE j # new
    <3>1. j <= started
      BY <1>1, <1>5, <2>1, <2>4
    <3>2. QED
      BY <1>1, <1>5, <2>2, <2>4, <3>1 DEF StreakInv
  <2>5. QED
    BY <2>3, <2>4
<1>6. Judged'
  BY <1>1 DEF Judged, StreakInv, Begin, TypeOK
<1>7. QED
  BY <1>1, <1>4, <1>5, <1>6, StreakKept

\* A result enters the file.
LEMMA RecordKeepsStreak ==
  ASSUME TypeOK, TypeOK', RunInv, StreakInv, NEW i \in RunIds, RecordOutcome(i)
  PROVE  StreakInv'
<1>1. /\ phase[i] = "record" /\ phase' = [phase EXCEPT ![i] = "finish"]
      /\ UNCHANGED <<started, task, result>>
      /\ i \notin written /\ result[i] # "none"
  BY DEF RecordOutcome, To, RunOnly, beginVars, StreakInv, Settled, Judged
<1>a. Judged'
  BY <1>1 DEF Judged, StreakInv, TypeOK
<1>2. \A j, k \in RunIds : j < k /\ k <= started' /\ Live(j)' => task'[k] # task'[j]
  BY <1>1 DEF StreakInv, Live, Executing, Recording, TypeOK
<1>3. CASE StoreFails /\ UNCHANGED written
  <2>1. StreakSame
    BY <1>1, <1>3 DEF StreakSame, StoreFails, fileVars, StreakInv, Settled, TypeOK
  <2>2. QED
    BY <1>2, <1>a, <2>1, StreakKept
<1>4. CASE task[i] \notin saved /\ UNCHANGED <<fails, written>>
  <2>1. StreakSame
    BY <1>1, <1>4 DEF StreakSame, StreakInv, Settled, TypeOK
  <2>2. QED
    BY <1>2, <1>a, <2>1, StreakKept
<1>5. CASE /\ written' = written \cup {i}
           /\ IF CountsStreak(i) THEN Streak(task[i], result[i] = "ok") ELSE UNCHANGED fails
  <2>1. \A j \in written' : j <= started' /\ phase'[j] \in Settled
    <3>1. i <= started
      BY <1>1 DEF RunInv, TypeOK, RunIds
    <3>2. QED
      BY <1>1, <1>5, <3>1 DEF StreakInv, Settled, TypeOK
  <2>2. ASSUME NEW t \in Tasks
        PROVE  fails'[t] <= Cardinality(CountedFailures(t)')
    <3> DEFINE C == CountedFailures(t)
    <3>0. IsFiniteSet(C) /\ Cardinality(C) \in Nat /\ fails[t] \in Nat /\ fails[t] <= Cardinality(C)
          /\ i \notin C
      BY <1>1, CountedAreRuns, RunsAreFinite DEF StreakInv, TypeOK, CountedFailures
    <3>1. CASE task[i] # t
      <4>1. C' = C
        BY <1>1, <1>5, <3>1 DEF CountedFailures
      <4>2. fails'[t] = fails[t]
        BY <1>5, <3>1 DEF Streak, TypeOK
      <4>3. QED
        BY <3>0, <4>1, <4>2
    <3>2. CASE task[i] = t /\ result[i] = "ok"
      <4>1. fails'[t] = 0
        BY <1>5, <3>2 DEF Streak, CountsStreak, TypeOK
      <4>2. QED
        BY <4>1, CountedAreRuns, RunsAreFinite
    <3>3. CASE task[i] = t /\ result[i] # "ok"
      <4>1. C' = IF result[i] = "error" THEN C \cup {i} ELSE C
        <5>1. \A j \in written : j > i => task[j] # t
          BY <1>1, <3>3 DEF StreakInv, TypeOK, Live, Recording, RunIds
        <5>2. QED
          BY <1>1, <1>5, <3>3, <5>1 DEF CountedFailures
      <4>2. CASE result[i] = "error"
        <5>1. Cardinality(C') = Cardinality(C) + 1
          BY <3>0, <4>1, <4>2, FS_AddElement
        <5>2. fails'[t] = fails[t] + 1
          BY <1>5, <3>3, <4>2 DEF Streak, CountsStreak, TypeOK
        <5>3. QED
          BY <3>0, <5>1, <5>2
      <4>3. CASE result[i] # "error"
        <5>1. fails'[t] = fails[t] /\ C' = C
          BY <1>1, <1>5, <3>3, <4>1, <4>3 DEF CountsStreak, TypeOK
        <5>2. QED
          BY <3>0, <5>1
      <4>4. QED
        BY <4>2, <4>3
    <3>4. QED
      BY <3>1, <3>2, <3>3
  <2>3. QED
    BY <1>2, <1>a, <2>1, <2>2 DEF StreakInv
<1>6. QED
  BY <1>3, <1>4, <1>5 DEF RecordOutcome, ApplyRunResult, fileVars

\* Where a run that is no longer live got to is not changed by the others.
LEMMA StreakSteps ==
  ASSUME TypeOK, TypeOK', StreakInv,
         /\ UNCHANGED <<started, task, written>>
         /\ \A i \in RunIds : phase[i] \in Settled => phase'[i] \in Settled /\ result'[i] = result[i]
         /\ \A i \in RunIds : Live(i)' => Live(i)
         /\ \A i \in RunIds : phase'[i] \in {"close", "record"} =>
              result'[i] # "none" \/ (phase[i] \in {"close", "record"} /\ result'[i] = result[i])
         /\ \A t \in Tasks : fails'[t] \in {0, fails[t]}
  PROVE  StreakInv'
<1>1. StreakSame
  BY DEF StreakSame, StreakInv, TypeOK
<1>2. \A i, j \in RunIds : i < j /\ j <= started' /\ Live(i)' => task'[j] # task'[i]
  BY DEF StreakInv
<1>3. Judged'
  BY DEF StreakInv, Judged
<1>4. QED
  BY <1>1, <1>2, <1>3, StreakKept

LEMMA StreakInit == Init => StreakInv
<1> SUFFICES ASSUME Init
             PROVE  StreakInv
  OBVIOUS
<1>1. TypeOK
  BY TypeInit
<1>2. ASSUME NEW t \in Tasks
      PROVE  fails[t] <= Cardinality(CountedFailures(t))
  <2>1. fails[t] = 0 /\ Cardinality(CountedFailures(t)) \in Nat
    BY <1>1, CountedAreRuns, RunsAreFinite DEF Init
  <2>2. QED
    BY <2>1
<1>3. QED
  BY <1>2 DEF Init, StreakInv, Judged, Live, Executing, Recording

LEMMA StreakStep ==
  ASSUME TypeOK, TypeOK', RunInv, StreakInv, [Next]_vars
  PROVE  StreakInv'
<1> USE DEF TypeOK, fileVars, tickVars, bootVars, beginVars, runVars, upsetVars
<1>1. CASE Clock
  BY <1>1, StreakSteps DEF Clock, Settled, Live, Executing, Recording
<1>2. CASE TickStart
  BY <1>2, StreakSteps DEF TickStart, TickOnly, Settled, Live, Executing, Recording
<1>3. CASE TickFails
  BY <1>3, StreakSteps DEF TickFails, TickOnly, StoreFails, AfterError, Settled, Live, Executing, Recording
<1>4. CASE TickEnd
  BY <1>4, StreakSteps DEF TickEnd, TickOnly, Settled, Live, Executing, Recording
<1>5. ASSUME NEW t \in Tasks, ConsumeDue(t)
      PROVE  StreakInv'
  BY <1>5, StreakSteps DEF ConsumeDue, TickOnly, PersistNextRun, OnlyNext, TakeUp, NotPersisted, StoreFails, NextRunAfter, Settled, Live, Executing, Recording
<1>6. ASSUME NEW t \in Tasks, Reschedule(t)
      PROVE  StreakInv'
  BY <1>6, StreakSteps DEF Reschedule, TickOnly, PersistNextRun, OnlyNext, StoreFails, EffectiveNext, ResolveStartup, NextRunAfter, Settled, Live, Executing, Recording
<1>7. CASE Fire
  <2>1. cur.task \in Tasks /\ UNCHANGED fails
    BY <1>7 DEF TypeOK, Firings, Fire, fileVars
  <2>2. QED
    BY <1>7, <2>1, BeginKeepsStreak DEF Fire
<1>8. CASE FindRunning
  BY <1>8, StreakSteps DEF FindRunning, TickOnly, Settled, Live, Executing, Recording
<1>9. CASE RecordSkipped
  BY <1>9, StreakSteps DEF RecordSkipped, TickOnly, StoreFails, Settled, Live, Executing, Recording
<1>10. ASSUME NEW i \in RunIds, Connected(i)
      PROVE  StreakInv'
  BY <1>10, StreakSteps DEF Connected, To, RunOnly, Settled, Live, Executing, Recording
<1>11. ASSUME NEW i \in RunIds, KeepaliveStarted(i)
      PROVE  StreakInv'
  BY <1>11, StreakSteps DEF KeepaliveStarted, To, RunOnly, Settled, Live, Executing, Recording
<1>12. ASSUME NEW i \in RunIds, ConnectFails(i)
      PROVE  StreakInv'
  BY <1>12, StreakSteps DEF ConnectFails, To, Outcome, RunOnly, Settled, Live, Executing, Recording
<1>13. ASSUME NEW i \in RunIds, RetryLater(i)
      PROVE  StreakInv'
  BY <1>13, StreakSteps DEF RetryLater, To, RunOnly, Settled, Live, Executing, Recording
<1>14. ASSUME NEW i \in RunIds, RetryNow(i)
      PROVE  StreakInv'
  BY <1>14, StreakSteps DEF RetryNow, To, Outcome, StoreFails, RunOnly, Settled, Live, Executing, Recording
<1>15. ASSUME NEW i \in RunIds, NEW r \in {"ok", "error"}, WorkEnds(i, r)
      PROVE  StreakInv'
  BY <1>15, StreakSteps DEF WorkEnds, To, RunOnly, Settled, Live, Executing, Recording
<1>16. ASSUME NEW i \in RunIds, Disconnected(i)
      PROVE  StreakInv'
  BY <1>16, StreakSteps DEF Disconnected, To, RunOnly, Settled, Live, Executing, Recording
<1>17. ASSUME NEW i \in RunIds, DetachedDisconnect(i)
      PROVE  StreakInv'
  BY <1>17, StreakSteps DEF DetachedDisconnect, RunOnly, Settled, Live, Executing, Recording
<1>18. ASSUME NEW i \in RunIds, RecordOutcome(i)
      PROVE  StreakInv'
  BY <1>18, RecordKeepsStreak
<1>19. ASSUME NEW i \in RunIds, Finish(i)
      PROVE  StreakInv'
  BY <1>19, StreakSteps DEF Finish, To, DropGuard, RunOnly, Settled, Live, Executing, Recording
<1>20. ASSUME NEW t \in Tasks, RunNow(t)
      PROVE  StreakInv'
  BY <1>20, BeginKeepsStreak DEF RunNow, fileVars
<1>21. ASSUME NEW t \in Tasks, DeleteTask(t)
      PROVE  StreakInv'
  BY <1>21, StreakSteps DEF DeleteTask, Edited, Settled, Live, Executing, Recording
<1>22. ASSUME NEW t \in Tasks, NEW b \in BOOLEAN, SetTaskEnabled(t, b)
      PROVE  StreakInv'
  BY <1>22, StreakSteps DEF SetTaskEnabled, Edited, NextRunAfter, Settled, Live, Executing, Recording
<1>23. ASSUME NEW t \in Tasks, NEW b \in BOOLEAN, NEW l \in Limits, NEW p \in Periods, SaveTask(t, b, l, p)
      PROVE  StreakInv'
  BY <1>23, StreakSteps DEF SaveTask, Edited, MarkKept, NextRunAfter, Settled, Live, Executing, Recording
<1>24. ASSUME NEW m \in {"skip", "catchup"}, SetSchedulerSettings(m)
      PROVE  StreakInv'
  BY <1>24, StreakSteps DEF SetSchedulerSettings, Edited, Settled, Live, Executing, Recording
<1>25. ASSUME NEW i \in RunIds, CancelRun(i)
      PROVE  StreakInv'
  BY <1>25, StreakSteps DEF CancelRun, To, Outcome, Armed, RunOnly, Settled, Live, Executing, Recording
<1>26. CASE Crash
  BY <1>26, StreakSteps DEF Crash, Live, Settled, Live, Executing, Recording
<1>27. CASE Start
  BY <1>27, StreakSteps DEF Start, Settled, Live, Executing, Recording
<1>28. CASE UNCHANGED vars
  BY <1>28, StreakSteps DEF vars, Settled, Live, Executing, Recording
<1>29. QED
  BY <1>1, <1>2, <1>3, <1>4, <1>5, <1>6, <1>7, <1>8, <1>9, <1>10, <1>11, <1>12, <1>13, <1>14, <1>15, <1>16, <1>17, <1>18, <1>19, <1>20, <1>21, <1>22, <1>23, <1>24, <1>25, <1>26, <1>27, <1>28
  DEF Next, Tick, RunStep, Command

\* Only the recording of a failure stops a task, when the streak is full.
LEMMA PauseStep ==
  ASSUME TypeOK, [Next]_vars, NEW u \in paused' \ paused
  PROVE  fails'[u] >= limit[u]
<1>0. limit[u] \in Nat \/ u \notin Tasks
  BY SchedulerAssumption DEF TypeOK
<1> USE DEF TypeOK, fileVars, tickVars, bootVars, beginVars, runVars, upsetVars
<1>1. CASE Clock
  BY <1>1 DEF Clock
<1>2. CASE TickStart
  BY <1>2 DEF TickStart, TickOnly
<1>3. CASE TickFails
  BY <1>3 DEF TickFails, TickOnly, StoreFails, AfterError
<1>4. CASE TickEnd
  BY <1>4 DEF TickEnd, TickOnly
<1>5. ASSUME NEW t \in Tasks, ConsumeDue(t)
      PROVE  fails'[u] >= limit[u]
  BY <1>5 DEF ConsumeDue, TickOnly, PersistNextRun, OnlyNext, TakeUp, NotPersisted, StoreFails, NextRunAfter
<1>6. ASSUME NEW t \in Tasks, Reschedule(t)
      PROVE  fails'[u] >= limit[u]
  BY <1>6 DEF Reschedule, TickOnly, PersistNextRun, OnlyNext, StoreFails, EffectiveNext, ResolveStartup, NextRunAfter
<1>7. CASE Fire
  BY <1>7 DEF Fire, TickOnly, Begin, Origin
<1>8. CASE FindRunning
  BY <1>8 DEF FindRunning, TickOnly
<1>9. CASE RecordSkipped
  BY <1>9 DEF RecordSkipped, TickOnly, StoreFails
<1>10. ASSUME NEW i \in RunIds, Connected(i)
      PROVE  fails'[u] >= limit[u]
  BY <1>10 DEF Connected, To, RunOnly
<1>11. ASSUME NEW i \in RunIds, KeepaliveStarted(i)
      PROVE  fails'[u] >= limit[u]
  BY <1>11 DEF KeepaliveStarted, To, RunOnly
<1>12. ASSUME NEW i \in RunIds, ConnectFails(i)
      PROVE  fails'[u] >= limit[u]
  BY <1>12 DEF ConnectFails, To, Outcome, RunOnly
<1>13. ASSUME NEW i \in RunIds, RetryLater(i)
      PROVE  fails'[u] >= limit[u]
  BY <1>13 DEF RetryLater, To, RunOnly
<1>14. ASSUME NEW i \in RunIds, RetryNow(i)
      PROVE  fails'[u] >= limit[u]
  BY <1>14 DEF RetryNow, To, Outcome, StoreFails, RunOnly
<1>15. ASSUME NEW i \in RunIds, NEW r \in {"ok", "error"}, WorkEnds(i, r)
      PROVE  fails'[u] >= limit[u]
  BY <1>15 DEF WorkEnds, To, RunOnly
<1>16. ASSUME NEW i \in RunIds, Disconnected(i)
      PROVE  fails'[u] >= limit[u]
  BY <1>16 DEF Disconnected, To, RunOnly
<1>17. ASSUME NEW i \in RunIds, DetachedDisconnect(i)
      PROVE  fails'[u] >= limit[u]
  BY <1>17 DEF DetachedDisconnect, RunOnly
<1>18. ASSUME NEW i \in RunIds, RecordOutcome(i)
      PROVE  fails'[u] >= limit[u]
  BY <1>18 DEF RecordOutcome, To, ApplyRunResult, Streak, StoreFails, RunOnly
<1>19. ASSUME NEW i \in RunIds, Finish(i)
      PROVE  fails'[u] >= limit[u]
  BY <1>19 DEF Finish, To, DropGuard, RunOnly
<1>20. ASSUME NEW t \in Tasks, RunNow(t)
      PROVE  fails'[u] >= limit[u]
  BY <1>20 DEF RunNow, Begin
<1>21. ASSUME NEW t \in Tasks, DeleteTask(t)
      PROVE  fails'[u] >= limit[u]
  BY <1>21 DEF DeleteTask, Edited
<1>22. ASSUME NEW t \in Tasks, NEW b \in BOOLEAN, SetTaskEnabled(t, b)
      PROVE  fails'[u] >= limit[u]
  BY <1>22 DEF SetTaskEnabled, Edited, NextRunAfter
<1>23. ASSUME NEW t \in Tasks, NEW b \in BOOLEAN, NEW l \in Limits, NEW p \in Periods, SaveTask(t, b, l, p)
      PROVE  fails'[u] >= limit[u]
  BY <1>23 DEF SaveTask, Edited, MarkKept, NextRunAfter
<1>24. ASSUME NEW m \in {"skip", "catchup"}, SetSchedulerSettings(m)
      PROVE  fails'[u] >= limit[u]
  BY <1>24 DEF SetSchedulerSettings, Edited
<1>25. ASSUME NEW i \in RunIds, CancelRun(i)
      PROVE  fails'[u] >= limit[u]
  BY <1>25 DEF CancelRun, To, Outcome, Armed, RunOnly
<1>26. CASE Crash
  BY <1>26 DEF Crash, Live
<1>27. CASE Start
  BY <1>27 DEF Start
<1>28. CASE UNCHANGED vars
  BY <1>28 DEF vars
<1>29. QED
  BY <1>1, <1>2, <1>3, <1>4, <1>5, <1>6, <1>7, <1>8, <1>9, <1>10, <1>11, <1>12, <1>13, <1>14, <1>15, <1>16, <1>17, <1>18, <1>19, <1>20, <1>21, <1>22, <1>23, <1>24, <1>25, <1>26, <1>27, <1>28
  DEF Next, Tick, RunStep, Command

(* A task is stopped by failures only after as many failed runs as its      *)
(* limit says, none of them cancelled, with no success written in between,  *)
(* whatever commands, crashes and failed store operations came meanwhile.   *)
THEOREM PausesAreDeserved == Spec => PauseIsDeserved
<1>1. ASSUME TypeOK, TypeOK', StreakInv', [Next]_vars
      PROVE  \A t \in paused' \ paused : Cardinality(CountedFailures(t)') >= limit[t]
  <2> SUFFICES ASSUME NEW t \in paused' \ paused
               PROVE  Cardinality(CountedFailures(t)') >= limit[t]
    OBVIOUS
  <2>1. t \in Tasks /\ limit[t] \in Nat /\ fails'[t] \in Nat
    BY <1>1, SchedulerAssumption DEF TypeOK
  <2>2. fails'[t] >= limit[t]
    BY <1>1, <2>1, PauseStep
  <2>3. Cardinality(CountedFailures(t)') \in Nat /\ fails'[t] <= Cardinality(CountedFailures(t)')
    BY <1>1, <2>1, CountedAreRuns, RunsAreFinite DEF StreakInv
  <2>4. QED
    BY <2>1, <2>2, <2>3
<1>2. TypeOK /\ TypeOK' /\ StreakInv' /\ [Next]_vars
      => [\A t \in paused' \ paused : Cardinality(CountedFailures(t)') >= limit[t]]_vars
  BY <1>1
<1>3. QED
  BY <1>2, TypeInit, TypeStep, RunInit, RunInvStep, StreakInit, StreakStep, PTL
  DEF Spec, PauseIsDeserved

-----------------------------------------------------------------------------
\* The guards held are those of the runs that are on.
GuardsHeld ==
  /\ \A i \in RunIds : Live(i) => task[i] \in running
  /\ \A t \in running : \E i \in RunIds : Live(i) /\ task[i] = t

LEMMA BeginKeepsGuards ==
  ASSUME TypeOK, GuardsHeld, RunInv, NEW t \in Tasks, NEW d, NEW how, NEW on,
         Begin(t, d, how, on)
  PROVE  GuardsHeld'
<1> DEFINE new == started + 1
<1>1. /\ new \in RunIds /\ running' = running \cup {t}
      /\ task'[new] = t /\ phase'[new] = "connect" /\ ~Live(new)
      /\ \A i \in RunIds : i # new => task'[i] = task[i] /\ phase'[i] = phase[i]
  <2>1. new \in RunIds /\ phase[new] = "none"
    BY NextId DEF Begin, TypeOK, RunInv
  <2>2. QED
    BY <2>1 DEF Begin, TypeOK, Live, Executing, Recording
<1>2. QED
  BY <1>1 DEF GuardsHeld, Live, Executing

LEMMA GuardsStep ==
  ASSUME TypeOK, RunInv, GuardsHeld, [Next]_vars
  PROVE  GuardsHeld'
<1> USE DEF TypeOK, fileVars, tickVars, bootVars, beginVars, runVars, upsetVars,
        GuardsHeld, NoOverlap, Live, Executing, Recording
<1>1. CASE Clock
  BY <1>1 DEF Clock
<1>2. CASE TickStart
  BY <1>2 DEF TickStart, TickOnly
<1>3. CASE TickFails
  BY <1>3 DEF TickFails, TickOnly, StoreFails, AfterError
<1>4. CASE TickEnd
  BY <1>4 DEF TickEnd, TickOnly
<1>5. ASSUME NEW t \in Tasks, ConsumeDue(t)
      PROVE  GuardsHeld'
  BY <1>5 DEF ConsumeDue, TickOnly, PersistNextRun, OnlyNext, TakeUp, NotPersisted, StoreFails, NextRunAfter
<1>6. ASSUME NEW t \in Tasks, Reschedule(t)
      PROVE  GuardsHeld'
  BY <1>6 DEF Reschedule, TickOnly, PersistNextRun, OnlyNext, StoreFails, EffectiveNext, ResolveStartup, NextRunAfter
<1>7. CASE Fire
  <2>1. cur.task \in Tasks
    BY DEF TypeOK, Firings
  <2>2. QED
    BY <1>7, <2>1, BeginKeepsGuards DEF Fire
<1>8. CASE FindRunning
  BY <1>8 DEF FindRunning, TickOnly
<1>9. CASE RecordSkipped
  BY <1>9 DEF RecordSkipped, TickOnly, StoreFails
<1>10. ASSUME NEW i \in RunIds, Connected(i)
      PROVE  GuardsHeld'
  BY <1>10 DEF Connected, To, RunOnly
<1>11. ASSUME NEW i \in RunIds, KeepaliveStarted(i)
      PROVE  GuardsHeld'
  BY <1>11 DEF KeepaliveStarted, To, RunOnly
<1>12. ASSUME NEW i \in RunIds, ConnectFails(i)
      PROVE  GuardsHeld'
  BY <1>12 DEF ConnectFails, To, Outcome, RunOnly
<1>13. ASSUME NEW i \in RunIds, RetryLater(i)
      PROVE  GuardsHeld'
  BY <1>13 DEF RetryLater, To, RunOnly
<1>14. ASSUME NEW i \in RunIds, RetryNow(i)
      PROVE  GuardsHeld'
  BY <1>14 DEF RetryNow, To, Outcome, StoreFails, RunOnly
<1>15. ASSUME NEW i \in RunIds, NEW r \in {"ok", "error"}, WorkEnds(i, r)
      PROVE  GuardsHeld'
  BY <1>15 DEF WorkEnds, To, RunOnly
<1>16. ASSUME NEW i \in RunIds, Disconnected(i)
      PROVE  GuardsHeld'
  BY <1>16 DEF Disconnected, To, RunOnly
<1>17. ASSUME NEW i \in RunIds, DetachedDisconnect(i)
      PROVE  GuardsHeld'
  BY <1>17 DEF DetachedDisconnect, RunOnly
<1>18. ASSUME NEW i \in RunIds, RecordOutcome(i)
      PROVE  GuardsHeld'
  BY <1>18 DEF RecordOutcome, To, ApplyRunResult, Streak, StoreFails, RunOnly
<1>19. ASSUME NEW i \in RunIds, Finish(i)
      PROVE  GuardsHeld'
  <2>1. /\ running' = running \ {task[i]} /\ task' = task /\ phase' = [phase EXCEPT ![i] = "done"]
        /\ phase[i] = "finish"
    BY <1>19 DEF Finish, To, DropGuard, RunOnly
  <2>2. \A j \in RunIds : j # i /\ Live(j) => task[j] # task[i]
    BY <2>1 DEF RunInv
  <2>3. \A j \in RunIds : Live(j)' <=> Live(j) /\ j # i
    BY <2>1
  <2>4. \A j \in RunIds : Live(j)' => task'[j] \in running'
    BY <2>1, <2>2, <2>3
  <2>5. ASSUME NEW t \in running'
        PROVE  \E j \in RunIds : Live(j)' /\ task'[j] = t
    <3>1. PICK j \in RunIds : Live(j) /\ task[j] = t
      BY <2>1, <2>5
    <3>2. QED
      BY <2>1, <2>3, <2>5, <3>1
  <2>6. QED
    BY <2>4, <2>5
<1>20. ASSUME NEW t \in Tasks, RunNow(t)
      PROVE  GuardsHeld'
  BY <1>20, BeginKeepsGuards DEF RunNow
<1>21. ASSUME NEW t \in Tasks, DeleteTask(t)
      PROVE  GuardsHeld'
  BY <1>21 DEF DeleteTask, Edited
<1>22. ASSUME NEW t \in Tasks, NEW b \in BOOLEAN, SetTaskEnabled(t, b)
      PROVE  GuardsHeld'
  BY <1>22 DEF SetTaskEnabled, Edited, NextRunAfter
<1>23. ASSUME NEW t \in Tasks, NEW b \in BOOLEAN, NEW l \in Limits, NEW p \in Periods, SaveTask(t, b, l, p)
      PROVE  GuardsHeld'
  BY <1>23 DEF SaveTask, Edited, MarkKept, NextRunAfter
<1>24. ASSUME NEW m \in {"skip", "catchup"}, SetSchedulerSettings(m)
      PROVE  GuardsHeld'
  BY <1>24 DEF SetSchedulerSettings, Edited
<1>25. ASSUME NEW i \in RunIds, CancelRun(i)
      PROVE  GuardsHeld'
  BY <1>25 DEF CancelRun, To, Outcome, Armed, RunOnly
<1>26. CASE Crash
  BY <1>26 DEF Crash, Live
<1>27. CASE Start
  BY <1>27 DEF Start
<1>28. CASE UNCHANGED vars
  BY <1>28 DEF vars
<1>29. QED
  BY <1>1, <1>2, <1>3, <1>4, <1>5, <1>6, <1>7, <1>8, <1>9, <1>10, <1>11, <1>12, <1>13, <1>14, <1>15, <1>16, <1>17, <1>18, <1>19, <1>20, <1>21, <1>22, <1>23, <1>24, <1>25, <1>26, <1>27, <1>28
  DEF Next, Tick, RunStep, Command

(* A task's guard is held exactly while a run of it is on: no task is       *)
(* refused because of a run that has ended, however it ended.               *)
THEOREM GuardsNeverLeak ==
  Spec => [](running = {task[i] : i \in {j \in RunIds : Live(j)}})
<1>1. Init => GuardsHeld
  BY DEF Init, GuardsHeld, Live, Executing, Recording
<1>2. GuardsHeld => running = {task[i] : i \in {j \in RunIds : Live(j)}}
  BY DEF GuardsHeld
<1>3. QED
  BY <1>1, <1>2, TypeInit, TypeStep, RunInit, RunInvStep, GuardsStep, PTL DEF Spec
=============================================================================
