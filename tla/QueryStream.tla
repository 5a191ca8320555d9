----------------------------- MODULE QueryStream -----------------------------
(***************************************************************************)
(* One run of run_query_stream (src/src-tauri/src/commands/query.rs) and   *)
(* the tab that started it (src/src/App.tsx): a task that executes a       *)
(* statement and sends batches of rows over a channel, the user who may    *)
(* stop it, and, for a write that the flight recorder captures, the part   *)
(* that nobody may stop any more.                                          *)
(*                                                                         *)
(* An abort takes effect when the task is next polled at an await, so the  *)
(* task runs on to its next await while cancel_stream reads the counter.   *)
(* What the server does with an abandoned statement is StatementStop;      *)
(* the patch mode of the automatic refresh, which sends no rows, is left   *)
(* out.                                                                    *)
(***************************************************************************)
EXTENDS Integers

CONSTANTS
  Kinds,   \* "select": spawn_query_stream; "capture": spawn_captured_write
  MaxRows  \* rows of the result

ASSUME KnownKinds == Kinds \subseteq {"select", "capture"}
ASSUME SomeRows == MaxRows \in Nat

VARIABLES
  kind, timed,          \* what is run, and whether it has a timeout
  pc, result,           \* the task, and the result it has so far
  detached,             \* the task is past the point where it can be aborted
  read, pending, batch, \* rows from the driver, in the batcher, in hand
  sentOnce, source,     \* the first batch was sent; who took the one in hand
  counted, reached,     \* delivered_rows; rows the channel took
  verdict, reported,    \* the closing message, and the row count in it
  registered, aborted,  \* the entry in AppState.streams; abort() was called
  kept,                 \* the result is in the result store
  written,                       \* what has become of a captured write
  invalidated, recorded, logged, \* and of what follows a statement
  attached, shown, told,                  \* the tab
  stop, claim                             \* its cancel_stream call, the answer

config == <<kind, timed>>
rowVars == <<read, pending, batch, sentOnce, source, counted, reached>>
doneVars == <<verdict, reported, kept>>
writeVars == <<written, invalidated, recorded, logged>>
uiVars == <<attached, shown, told, stop, claim>>
entryVars == <<registered, aborted>>
vars == <<config, pc, result, detached, rowVars, doneVars, entryVars, writeVars,
          uiVars>>

Init ==
  /\ kind \in Kinds /\ timed \in BOOLEAN
  /\ pc = "gate" /\ result = "none" /\ detached = FALSE
  /\ read = 0 /\ pending = 0 /\ batch = 0
  /\ sentOnce = FALSE /\ source = "driver"
  /\ counted = 0 /\ reached = 0
  /\ verdict = "none" /\ reported = 0
  /\ registered = FALSE /\ aborted = FALSE
  /\ kept = FALSE
  /\ written = "no" /\ invalidated = FALSE /\ recorded = FALSE /\ logged = FALSE
  /\ attached = TRUE /\ shown = 0 /\ told = "none"
  /\ stop = "none" /\ claim = 0

-----------------------------------------------------------------------------
(* Start and end of the task.                                              *)

\* The body of the task waits for its registration.
Register ==
  /\ pc = "gate" /\ ~registered /\ ~aborted
  /\ registered' = TRUE
  /\ UNCHANGED <<config, pc, result, detached, rowVars, doneVars, aborted,
                 writeVars, uiVars>>

Start ==
  /\ pc = "gate" /\ registered
  /\ pc' = IF kind = "select" THEN "run" ELSE "stage"
  /\ UNCHANGED <<config, result, detached, rowVars, doneVars, entryVars,
                 writeVars, uiVars>>

\* The places where the task is suspended at an await.
Suspended == pc \in {"gate", "run", "stage", "autocommit", "tx", "invalidate", "history",
                     "forget"}

Drop ==
  /\ aborted /\ Suspended /\ ~detached
  /\ pc' = "dropped"
  /\ UNCHANGED <<config, result, detached, rowVars, doneVars, entryVars,
                 writeVars, uiVars>>

-----------------------------------------------------------------------------
(* Rows on their way: StreamBatcher and send_rows.                         *)

Hand(n, from, to) ==
  /\ batch' = n
  /\ source' = from
  /\ pc' = to

\* A batch of one row: the first goes out at once, later ones are merged
\* until the interval has passed or the batcher is full.
Push ==
  /\ pc = "run" /\ read < MaxRows
  /\ read' = read + 1
  /\ \/ /\ Hand(pending + 1, "driver", "count")
        /\ pending' = 0
        /\ sentOnce' = TRUE
     \/ /\ sentOnce
        /\ pending' = pending + 1
        /\ UNCHANGED <<pc, batch, source, sentOnce>>
  /\ UNCHANGED <<config, result, detached, counted, reached, doneVars,
                 entryVars, writeVars, uiVars>>

\* take_due
Tick ==
  /\ pc = "run" /\ pending > 0
  /\ Hand(pending, "ticker", "count")
  /\ pending' = 0
  /\ UNCHANGED <<config, result, detached, read, sentOnce, counted, reached,
                 doneVars, entryVars, writeVars, uiVars>>

\* Rows are counted before they are sent.
\* Variant for mutation: once they were sent.
AddedLate(at) == IF at = "sent" THEN batch ELSE 0
Added(at) == IF at = "count" THEN batch ELSE 0

Count ==
  /\ pc = "count"
  /\ counted' = counted + Added("count")
  /\ pc' = "send"
  /\ UNCHANGED <<config, result, detached, read, pending, batch, sentOnce, source,
                 reached, doneVars, entryVars, writeVars, uiVars>>

\* Variant for mutation: the count is not taken back.
KeepCount(n) == counted
TakeBack(n) == counted - n

\* Where the task goes on after a batch.
Resume(ok) ==
  CASE source = "flush" -> "settle"
    [] source # "flush" /\ ok -> "run"
    [] OTHER -> "flush"

SendOk ==
  /\ reached' = reached + batch
  /\ counted' = counted + Added("sent")
  /\ pc' = Resume(TRUE)
  /\ UNCHANGED result

\* The driver, the ticker or a result that was good so far ends in an error.
SendFails ==
  /\ counted' = TakeBack(batch)
  /\ pc' = Resume(FALSE)
  /\ result' = IF result = "timeout" THEN result ELSE "error"
  /\ UNCHANGED reached

Send ==
  /\ pc = "send"
  /\ SendOk \/ SendFails
  /\ batch' = 0
  /\ UNCHANGED <<config, detached, read, pending, sentOnce, source, doneVars,
                 entryVars, writeVars, uiVars>>

-----------------------------------------------------------------------------
(* The end of the statement.                                               *)

\* All rows are read, or the database reports an error, or time is up.
ExecEnds ==
  /\ pc = "run"
  /\ \/ read = MaxRows /\ result' = "ok"
     \/ result' = "error"
     \/ timed /\ result' = "timeout"
  /\ pc' = "flush"
  /\ UNCHANGED <<config, detached, rowVars, doneVars, entryVars, writeVars, uiVars>>

\* finish: what the batcher still holds goes out however the run ended.
Rest == pending

Flush ==
  /\ pc = "flush"
  /\ IF Rest > 0 THEN Hand(Rest, "flush", "count")
                 ELSE pc' = "settle" /\ UNCHANGED <<batch, source>>
  /\ pending' = 0
  /\ UNCHANGED <<config, result, detached, read, sentOnce, counted, reached,
                 doneVars, entryVars, writeVars, uiVars>>

\* A good result is kept for the handle, if it is within the limits.
Settle ==
  /\ pc = "settle"
  /\ \/ result = "ok" /\ kept' = TRUE
     \/ UNCHANGED kept
  /\ pc' = IF result = "ok" THEN "invalidate" ELSE "report"
  /\ UNCHANGED <<config, result, detached, rowVars, verdict, reported, entryVars,
                 writeVars, uiVars>>

-----------------------------------------------------------------------------
(* A captured write.                                                       *)

\* capture_prepare declines, and the statement is executed outside any
\* transaction, or it is executed in one that stays open.
Prepare ==
  /\ pc = "stage"
  /\ \/ pc' = "autocommit" /\ written' = "sent"
     \/ pc' = "tx" /\ UNCHANGED written
  /\ UNCHANGED <<config, result, detached, rowVars, doneVars, entryVars, invalidated,
                 recorded, logged, uiVars>>

\* The server executes and commits it, whether or not somebody still waits.
Autocommit ==
  /\ written = "sent"
  /\ written' = "yes"
  /\ UNCHANGED <<config, pc, result, detached, rowVars, doneVars, entryVars, invalidated,
                 recorded, logged, uiVars>>

\* Variant for mutation: the rest runs in the task that can be aborted.
NotDetached == FALSE
OnceStaged == TRUE

\* The stage is through: the rest is a task of its own.
Staged ==
  /\ \/ pc = "tx" /\ pc' = "commit"
     \/ pc = "autocommit" /\ written = "yes" /\ pc' = "invalidate"
  /\ detached' = OnceStaged
  /\ result' = "ok"
  /\ UNCHANGED <<config, rowVars, doneVars, entryVars, writeVars, uiVars>>

\* The database reports an error, or time is up; an open transaction is
\* rolled back.
StageFails ==
  /\ pc \in {"stage", "autocommit", "tx"}
  /\ \/ written # "yes" /\ result' = "error" /\ written' = "no"
     \/ timed /\ result' = "timeout" /\ UNCHANGED written
  /\ pc' = "report"
  /\ UNCHANGED <<config, detached, rowVars, doneVars, entryVars, invalidated, recorded,
                 logged, uiVars>>

Commit ==
  /\ pc = "commit"
  /\ \/ written' = "yes" /\ pc' = "invalidate" /\ UNCHANGED result
     \/ result' = "error" /\ pc' = "report" /\ UNCHANGED written
  /\ UNCHANGED <<config, detached, rowVars, doneVars, entryVars, invalidated, recorded,
                 logged, uiVars>>

-----------------------------------------------------------------------------
(* What every run ends with: invalidate, report, record, forget.           *)

Invalidate ==
  /\ pc = "invalidate"
  /\ invalidated' = TRUE
  /\ pc' = "report"
  /\ UNCHANGED <<config, result, detached, rowVars, doneVars, entryVars,
                 written, recorded, logged, uiVars>>

\* A handle that did not reach the tab is thrown away.
\* Variant for mutation: it stays.
KeepHandle(sent) == kept
KeptAfter(sent) == kept /\ sent

Report ==
  /\ pc = "report"
  /\ \E sent \in BOOLEAN :
       /\ verdict' = IF ~sent THEN "lost" ELSE IF result = "ok" THEN "done" ELSE "error"
       /\ kept' = KeptAfter(sent)
  /\ reported' = counted
  /\ pc' = IF kind = "capture" /\ result = "ok" THEN "persist" ELSE "history"
  /\ UNCHANGED <<config, result, detached, rowVars, entryVars, writeVars, uiVars>>

Persist ==
  /\ pc = "persist"
  /\ recorded' = TRUE
  /\ pc' = "history"
  /\ UNCHANGED <<config, result, detached, rowVars, doneVars, entryVars,
                 written, invalidated, logged, uiVars>>

RecordHistory ==
  /\ pc = "history"
  /\ logged' = TRUE
  /\ pc' = "forget"
  /\ UNCHANGED <<config, result, detached, rowVars, doneVars, entryVars,
                 written, invalidated, recorded, uiVars>>

ForgetStream ==
  /\ pc = "forget"
  /\ registered' = FALSE
  /\ pc' = "end"
  /\ UNCHANGED <<config, result, detached, rowVars, doneVars, aborted,
                 writeVars, uiVars>>

-----------------------------------------------------------------------------
(* The tab.                                                                *)

\* The channel delivers in order; detached handlers ignore what arrives.
ShowRows ==
  /\ attached /\ shown < reached
  /\ shown' = shown + 1
  /\ UNCHANGED <<config, pc, result, detached, rowVars, doneVars, entryVars,
                 writeVars, attached, told, stop, claim>>

ShowVerdict ==
  /\ attached /\ told = "none" /\ verdict \in {"done", "error"} /\ shown = reached
  /\ told' = verdict
  /\ UNCHANGED <<config, pc, result, detached, rowVars, doneVars, entryVars,
                 writeVars, attached, shown, stop, claim>>

\* stopTab: detach first, then cancel, and once more if that missed.
UserStops ==
  /\ stop = "none" /\ told = "none"
  /\ attached' = FALSE
  /\ stop' = "first"
  /\ UNCHANGED <<config, pc, result, detached, rowVars, doneVars, entryVars,
                 writeVars, shown, told, claim>>

\* Variant for mutation: the task is left alone.
LeaveRunning == aborted
AbortTask == TRUE

CancelStream ==
  /\ stop \in {"first", "second"}
  /\ IF registered
       THEN /\ registered' = FALSE /\ aborted' = AbortTask
            /\ stop' = "aborted"
       ELSE /\ stop' = IF stop = "first" THEN "second" ELSE "missed"
            /\ UNCHANGED entryVars
  /\ UNCHANGED <<config, pc, result, detached, rowVars, doneVars, writeVars,
                 attached, shown, told, claim>>

ReadCount ==
  /\ stop = "aborted"
  /\ claim' = counted
  /\ stop' = "claimed"
  /\ UNCHANGED <<config, pc, result, detached, rowVars, doneVars, entryVars,
                 writeVars, attached, shown, told>>

RowStep == Push \/ Tick \/ Count \/ Send
EndStep == ExecEnds \/ Flush \/ Settle
CaptureStep == Prepare \/ Autocommit \/ Staged \/ StageFails \/ Commit
CloseStep == Invalidate \/ Report \/ Persist \/ RecordHistory \/ ForgetStream
TabStep == ShowRows \/ ShowVerdict \/ UserStops \/ CancelStream \/ ReadCount

Next == Register \/ Start \/ Drop \/ RowStep \/ EndStep \/ CaptureStep \/ CloseStep
        \/ TabStep

Spec == Init /\ [][Next]_vars

\* The runtime polls a task that can go on, and drops one that was aborted;
\* nothing is asked of the database, the timer or the user.
FairSpec ==
  /\ Spec
  /\ WF_vars(Drop)
  /\ WF_vars(Count \/ Send \/ Flush \/ Settle \/ Commit \/ CloseStep)

-----------------------------------------------------------------------------
(* Properties.                                                             *)

Results == {"none", "ok", "error", "timeout"}
PCs == {"gate", "run", "count", "send", "flush", "settle", "stage", "autocommit", "tx",
        "commit", "invalidate", "report", "persist", "history", "forget", "end", "dropped"}

\* Type correctness.
TypeOK ==
  /\ kind \in Kinds /\ timed \in BOOLEAN
  /\ pc \in PCs /\ result \in Results /\ detached \in BOOLEAN
  /\ read \in 0 .. MaxRows /\ pending \in 0 .. MaxRows /\ batch \in 0 .. MaxRows
  /\ counted \in 0 .. MaxRows /\ reached \in 0 .. MaxRows
  /\ sentOnce \in BOOLEAN /\ source \in {"driver", "ticker", "flush"}
  /\ verdict \in {"none", "done", "error", "lost"} /\ reported \in 0 .. MaxRows
  /\ registered \in BOOLEAN /\ aborted \in BOOLEAN /\ kept \in BOOLEAN
  /\ invalidated \in BOOLEAN /\ recorded \in BOOLEAN /\ logged \in BOOLEAN
  /\ written \in {"no", "sent", "yes"}
  /\ attached \in BOOLEAN /\ shown \in 0 .. MaxRows
  /\ told \in {"none", "done", "error"}
  /\ stop \in {"none", "first", "second", "missed", "aborted", "claimed"}
  /\ claim \in 0 .. MaxRows

(* The closing message tells the truth about the rows: an error or timeout *)
(* message gives the number the channel has taken, whichever sends failed  *)
(* before, and a select is done only when every row of its result was sent.*)
CountsExact ==
  /\ verdict = "error" => reported = reached
  /\ kind = "select" /\ verdict = "done" => reached = MaxRows

(* The number of rows a stop reports is never less than the rows the tab   *)
(* has shown: rows are counted before they are sent, and the tab detaches  *)
(* before it cancels.                                                      *)
ClaimCovers == stop = "claimed" => claim >= shown

(* A result handle that is still in the store when its run has ended was   *)
(* given to the tab.                                                       *)
KeptIsAnnounced == pc = "end" /\ kept => verdict = "done"

(* Once the stage of a captured write is through and the write committed,  *)
(* the cache is invalidated, what there is to record is recorded and the   *)
(* history is written, whenever the user stops the run                     *)
(* (spawn_captured_write).                                                 *)
CommittedIsRecorded ==
  (kind = "capture" /\ written = "yes" /\ result = "ok") ~> (invalidated /\ recorded /\ logged)

(* A run whose stop was claimed does not go on for ever.                   *)
StopEnds == (stop = "claimed") ~> (pc \in {"dropped", "end"})
=============================================================================
