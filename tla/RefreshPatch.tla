---------------------------- MODULE RefreshPatch ----------------------------
(***************************************************************************)
(* A tab that repeats its query by itself (src/src/App.tsx runQueryInTab,  *)
(* src/src/refreshPatch.ts) and the backend that answers with the          *)
(* difference from the last result (db/refresh_diff.rs, commands/query.rs  *)
(* spawn_query_stream).                                                    *)
(*                                                                         *)
(* The backend keeps hashes of the last result under an id, its snapshot;  *)
(* the tab ties that id to the array of rows it shows, and asks for a      *)
(* patch only while it still shows that array.  Nothing but these ids      *)
(* keeps the two sides together while runs are stopped, fail or overlap    *)
(* and cells are edited.                                                   *)
(*                                                                         *)
(* Runs are numbered in the order of their calls, 0 stands for none.  A    *)
(* run makes at most one snapshot, which is named after it.  A result is   *)
(* the value of each row, by its primary key; None is a row that is not    *)
(* there.  The order of rows, the statistics and the batches of a result   *)
(* are left out (StreamBatcher is in QueryStream).                         *)
(***************************************************************************)
EXTENDS Integers, Sequences

CONSTANTS
  Keys,      \* primary keys
  Values,    \* values of a row
  None,      \* no row, no value
  MaxRuns,   \* bound: calls of runQueryInTab
  MaxWrites, \* bound: changes of the table by others
  MaxEdits,  \* bound: edits applied from the tab
  MaxUpsets  \* bound: stops, refusals, failures, snapshots that are let go

ASSUME Bounds == /\ None \notin Values /\ MaxRuns \in Nat
                 /\ MaxWrites \in Nat /\ MaxEdits \in Nat /\ MaxUpsets \in Nat

Runs == 1 .. MaxRuns
Ids == 0 .. MaxRuns
Contents == [Keys -> Values \cup {None}]
Nothing == [k \in Keys |-> None]

VARIABLES
  db, writes,           \* the table; how often others changed it
  snap,                 \* RefreshSnapshotStore: the snapshot of this tab
  task, aborted,        \* the spawned tasks, and those that were aborted
  asks, base,           \* refreshDiff: whether a run sends it, prevSnapshotId
  prev, seen,           \* refresh_prev, and the result of the run
  answer,               \* snapshot_id
  made,                 \* history: the result a snapshot was made of
  msgs,                 \* what is on its way to the tab
  torn, mute,           \* history: runs that could not send the tab the changes
                        \* of their patch, or their closing message
  phase, victim,        \* a call of runQueryInTab; the stream it cancels first
  rows, tag,            \* tab.result.rows, and the snapshot id tied to that array
  closed, truth,        \* history: no change since a Done; what that run had read
  mixed,                \* history: an edit, another run or a lost patch got between
                        \* a run and its array
  streaming, cur, un,   \* tab.streaming, streamIdRef, streamUnlistenRef
  listening,            \* the runs whose handlers are attached
  stopping,             \* calls of stopTab: the streams they cancel
  edit, edits,          \* an edit of a cell that is being applied
  upsets                \* how often something was stopped, refused, failed or lost

dbVars == <<db, writes>>
taskVars == <<task, aborted, prev, seen, answer, made>>
sendVars == <<torn, mute>>
callVars == <<asks, base, phase, victim>>
arrayVars == <<rows, tag, closed, truth, mixed>>
tabVars == <<streaming, cur, un, listening>>
editVars == <<edit, edits>>
vars == <<dbVars, snap, taskVars, msgs, sendVars, callVars, arrayVars, tabVars, stopping, editVars, upsets>>

NoEdit == [at |-> "none", key |-> None, val |-> None]

\* The tab shows the result of a run that asked for no difference.
Init ==
  /\ db \in Contents /\ writes = 0 /\ snap = 0
  /\ task = [r \in Runs |-> "none"] /\ aborted = {}
  /\ asks = {} /\ base = [r \in Runs |-> 0]
  /\ prev = [r \in Runs |-> 0] /\ seen = [r \in Runs |-> Nothing]
  /\ answer = [r \in Runs |-> 0] /\ made = [r \in Runs |-> Nothing]
  /\ msgs = [r \in Runs |-> <<>>] /\ torn = {} /\ mute = {}
  /\ phase = [r \in Runs |-> "new"] /\ victim = [r \in Runs |-> 0]
  /\ rows = db /\ tag = 0 /\ closed = FALSE /\ truth = Nothing /\ mixed = FALSE
  /\ streaming = FALSE /\ cur = 0 /\ un = 0 /\ listening = {}
  /\ stopping = {}
  /\ edit = NoEdit /\ edits = 0 /\ upsets = 0

Upset == upsets < MaxUpsets /\ upsets' = upsets + 1

-----------------------------------------------------------------------------
(* The array of the tab. A snapshot id is tied to the array itself, so a    *)
(* new array has none.                                                      *)

Opened == closed' = FALSE /\ truth' = Nothing
NewArray(c) == rows' = c /\ tag' = 0 /\ Opened

(* detachStreamListener, and finalize, which does the same. *)
LetGo == listening' = listening \ {un} /\ un' = 0 /\ cur' = 0

\* What is on its way to a run that lets go is not looked at any more.
Unread == [r \in Runs |-> IF r = un THEN <<>> ELSE msgs[r]]

-----------------------------------------------------------------------------
(* runQueryInTab, called by the user or by the timer of the automatic       *)
(* refresh. It first cancels the stream of the tab and waits for that.      *)

Waiting == {r \in Runs : phase[r] = "waiting"}

\* The runs that may still send, or have sent, what is not yet handled.
Writing == {r \in Runs : task[r] # "over" \/ msgs[r] # <<>>}

\* From streamIdRef.set to api.runQueryStream: the awaits in between return
\* at once. The rows stay when a patch may be applied to them.
Launch(r, from, keep) ==
  /\ phase' = [phase EXCEPT ![r] = "live"]
  /\ task' = [task EXCEPT ![r] = "invoked"]
  /\ cur' = r /\ un' = r /\ listening' = from \cup {r}
  /\ streaming' = TRUE
  /\ mixed' = \/ keep /\ (mixed \/ phase[r] = "waiting")
              \/ from \cap Writing # {}
  /\ IF keep THEN UNCHANGED <<rows, tag, closed, truth>> ELSE NewArray(Nothing)

\* The tag of the array that is shown when the run is called.
\* Variant for mutation: the id of the last snapshot, whatever is shown.
LastAnswer(auto) == IF auto THEN snap ELSE 0
PrevSnapshotId(auto) == IF auto THEN tag ELSE 0

RunQuery(r, auto) ==
  /\ phase[r] = "new" /\ \A q \in 1 .. r - 1 : phase[q] # "new"
  /\ auto => ~streaming
  /\ asks' = IF auto THEN asks \cup {r} ELSE asks
  /\ base' = [base EXCEPT ![r] = PrevSnapshotId(auto)]
  /\ IF cur = 0
       THEN /\ Launch(r, listening \ {un}, base'[r] # 0)
            /\ UNCHANGED <<victim, msgs>>
       ELSE /\ phase' = [phase EXCEPT ![r] = "waiting"]
            /\ victim' = [victim EXCEPT ![r] = cur]
            /\ LetGo /\ msgs' = Unread
            /\ UNCHANGED <<task, arrayVars, streaming>>
  /\ UNCHANGED <<dbVars, snap, aborted, prev, seen, answer, made, sendVars, stopping, editVars, upsets>>

\* cancel_stream: finds nothing before the task is registered or after its end.
Cancelled(v) ==
  IF v # 0 /\ task[v] \in {"begun", "read", "settled"} THEN aborted \cup {v} ELSE aborted

CancelReturns(r) ==
  /\ phase[r] = "waiting"
  /\ aborted' = Cancelled(victim[r])
  /\ victim' = [victim EXCEPT ![r] = 0]
  /\ Launch(r, listening, base[r] # 0)
  /\ UNCHANGED <<dbVars, snap, prev, seen, answer, made, msgs, sendVars, asks, base, stopping,
                 editVars, upsets>>

\* run_query_stream refuses before it spawns: the call of the tab throws.
\* Variant for mutation: the tab still shows a running query.
StillStreaming == streaming
Over == FALSE

Refused(r) ==
  /\ task[r] = "invoked"
  /\ Upset
  /\ task' = [task EXCEPT ![r] = "over"]
  /\ streaming' = Over
  /\ LetGo /\ msgs' = Unread
  /\ UNCHANGED <<dbVars, snap, aborted, prev, seen, answer, made, sendVars, callVars,
                 arrayVars, stopping, editVars>>

(* stopTab: detach, cancel, and mark the tab as stopped once that returned. *)
StopTab ==
  /\ streaming
  /\ Upset
  /\ LetGo /\ msgs' = Unread
  /\ stopping' = stopping \cup ({cur} \ {0})
  /\ streaming' = IF cur = 0 THEN FALSE ELSE streaming
  /\ UNCHANGED <<dbVars, snap, taskVars, sendVars, callVars, arrayVars, editVars>>

StopReturns(v) ==
  /\ v \in stopping
  /\ stopping' = stopping \ {v}
  /\ aborted' = Cancelled(v)
  /\ streaming' = FALSE
  /\ UNCHANGED <<dbVars, snap, task, prev, seen, answer, made, msgs, sendVars,
                 callVars, arrayVars, cur, un, listening, editVars, upsets>>

-----------------------------------------------------------------------------
(* spawn_query_stream.                                                      *)

\* get_matching: the snapshot, if it is the one the tab asked for.
Matching(r, s) == IF r \in asks /\ s = base[r] THEN s ELSE 0

\* The store may have let go of the snapshot since, for those of other tabs.
BeginTask(r) ==
  /\ task[r] = "invoked"
  /\ task' = [task EXCEPT ![r] = "begun"]
  /\ \/ UNCHANGED <<snap, upsets>>
     \/ snap # 0 /\ snap' = 0 /\ Upset
  /\ prev' = [prev EXCEPT ![r] = Matching(r, snap')]
  /\ base' = [base EXCEPT ![r] = 0]
  /\ UNCHANGED <<dbVars, aborted, seen, answer, made, msgs, sendVars, asks,
                 phase, victim, arrayVars, tabVars, stopping, editVars>>

\* In patch mode neither columns nor rows are sent.
Patching(r) == prev[r] # 0

Message(k, id, c) == [kind |-> k, id |-> id, rows |-> c]
Post(r, ms) == msgs' = [msgs EXCEPT ![r] = IF r \in listening THEN @ \o ms ELSE @]

Execute(r) ==
  /\ task[r] = "begun"
  /\ task' = [task EXCEPT ![r] = "read"]
  /\ seen' = [seen EXCEPT ![r] = db]
  /\ Post(r, IF Patching(r) THEN <<>>
             ELSE <<Message("columns", 0, Nothing), Message("rows", 0, db)>>)
  /\ UNCHANGED <<dbVars, snap, aborted, prev, answer, made, sendVars, callVars,
                 arrayVars, tabVars, stopping, editVars, upsets>>

Unchanged(r) == Patching(r) /\ seen[r] = made[prev[r]]

\* The new snapshot replaces the last one, unless nothing has changed; a
\* result that is too large (MAX_SNAPSHOT_ROWS) removes it.
Settle(r) ==
  /\ task[r] = "read"
  /\ task' = [task EXCEPT ![r] = "settled"]
  /\ \/ /\ r \notin asks \/ Unchanged(r)
        /\ answer' = [answer EXCEPT ![r] = prev[r]]
        /\ UNCHANGED <<snap, made, upsets>>
     \/ /\ r \in asks /\ ~Unchanged(r)
        /\ snap' = r
        /\ answer' = [answer EXCEPT ![r] = r] /\ made' = [made EXCEPT ![r] = seen[r]]
        /\ UNCHANGED upsets
     \/ /\ r \in asks /\ ~Unchanged(r)
        /\ snap' = 0
        /\ Upset
        /\ UNCHANGED <<answer, made>>
  /\ UNCHANGED <<dbVars, aborted, prev, seen, msgs, sendVars, callVars,
                 arrayVars, tabVars, stopping, editVars>>

\* The task ends, and its local variables with it.
Ends(r) ==
  /\ task' = [task EXCEPT ![r] = "over"]
  /\ aborted' = aborted \ {r} /\ asks' = asks \ {r}
  /\ prev' = [prev EXCEPT ![r] = 0] /\ answer' = [answer EXCEPT ![r] = 0]
  /\ seen' = [seen EXCEPT ![r] = Nothing]
  /\ UNCHANGED <<dbVars, snap, made, base, phase, victim, arrayVars, tabVars,
                 stopping, editVars>>

\* A send that fails is only logged, and the task goes on. It matters to a tab
\* that listens.
LoseSome(r, lost) == IF lost = {} THEN UNCHANGED upsets ELSE r \in listening /\ Upset
Unsent(r, lost) == mute' = IF lost \cap {"done", "error"} # {} THEN mute \cup {r} ELSE mute

Sent(m, lost) == IF m.kind \in lost THEN <<>> ELSE <<m>>

\* The statement fails or times out, or its columns or rows cannot be sent:
\* before its columns, after them or after its rows. Then the error is sent.
Prefix(r) == {<<>>} \cup
  IF task[r] = "begun" /\ ~Patching(r) THEN {<<Message("columns", 0, Nothing)>>} ELSE {}

ExecFails(r) ==
  /\ task[r] \in {"begun", "read"} /\ Upset
  /\ \E head \in Prefix(r), lost \in SUBSET {"error"} :
       /\ Post(r, head \o Sent(Message("error", 0, Nothing), lost))
       /\ Unsent(r, lost)
  /\ UNCHANGED torn
  /\ Ends(r)

\* After the invalidation of the caches: the patch, then Done, also when the
\* patch could not be sent.
\* Variant for mutation: the closing message overtakes the patch.
DoneFirst(done, patch) == done \o patch
Closing(done, patch) == patch \o done

Report(r) ==
  /\ task[r] = "settled"
  /\ \E lost \in SUBSET (IF Patching(r) THEN {"patch", "done"} ELSE {"done"}) :
       /\ Post(r, Closing(Sent(Message("done", answer[r], seen[r]), lost),
                          IF Patching(r) THEN Sent(Message("patch", prev[r], seen[r]), lost)
                                         ELSE <<>>))
       /\ LoseSome(r, lost)
       /\ Unsent(r, lost)
       /\ torn' = IF "patch" \in lost /\ ~Unchanged(r) THEN torn \cup {r} ELSE torn
  /\ Ends(r)

\* An aborted task is dropped when it is next polled at an await.
Drop(r) ==
  /\ r \in aborted /\ task[r] \in {"begun", "read", "settled"}
  /\ Ends(r)
  /\ UNCHANGED <<msgs, sendVars, upsets>>

-----------------------------------------------------------------------------
(* The handlers of listenQueryStream. A message that arrives after they were *)
(* detached is ignored, so it is not even posted here.                       *)

OnColumns(r) ==
  /\ NewArray(Nothing)
  /\ mixed' = ((listening \ {r}) \cap Writing # {})
  /\ UNCHANGED tabVars

\* Appended to what is there.
OnRows(m) ==
  /\ NewArray([k \in Keys |-> IF m.rows[k] # None THEN m.rows[k] ELSE rows[k]])
  /\ UNCHANGED <<mixed, tabVars>>

\* applyRefreshPatch: what has not changed since the snapshot is taken from
\* the rows that are shown, everything else from the patch.
Patched(m) ==
  [k \in Keys |-> IF m.rows[k] = None THEN None
                  ELSE IF m.rows[k] = made[m.id][k] THEN rows[k]
                  ELSE m.rows[k]]

OnPatch(m) ==
  /\ IF m.rows = made[m.id] THEN UNCHANGED <<rows, tag, closed, truth>>
     ELSE NewArray(Patched(m))
  /\ UNCHANGED <<mixed, tabVars>>

\* The rows of a run whose patch was lost get the id of the new snapshot.
OnDone(r, m) ==
  /\ tag' = IF m.id # 0 THEN m.id ELSE tag
  /\ closed' = TRUE /\ truth' = m.rows
  /\ streaming' = Over
  /\ LetGo
  /\ mixed' = (mixed \/ r \in torn)
  /\ UNCHANGED rows

OnError ==
  /\ streaming' = Over
  /\ LetGo
  /\ UNCHANGED arrayVars

Deliver(r) ==
  /\ r \in listening /\ msgs[r] # <<>>
  /\ LET m == Head(msgs[r]) IN
       /\ m.kind = "columns" => OnColumns(r)
       /\ m.kind = "rows"    => OnRows(m)
       /\ m.kind = "patch"   => OnPatch(m)
       /\ m.kind = "done"    => OnDone(r, m)
       /\ m.kind = "error"   => OnError
  /\ msgs' = [q \in Runs |-> IF q \notin listening' THEN <<>>
                             ELSE IF q = r THEN Tail(msgs[q]) ELSE msgs[q]]
  /\ UNCHANGED <<dbVars, snap, taskVars, sendVars, callVars, stopping, editVars, upsets>>

-----------------------------------------------------------------------------
(* What changes the table. An edit is one cell that the row inspector or    *)
(* the cell viewer applies at once: it is not among the pending changes     *)
(* that hold the automatic refresh back.                                    *)

Others ==
  /\ writes < MaxWrites /\ writes' = writes + 1
  /\ \E k \in Keys, v \in Values \cup {None} : v # db[k] /\ db' = [db EXCEPT ![k] = v]
  /\ UNCHANGED <<snap, taskVars, msgs, sendVars, callVars, arrayVars, tabVars,
                 stopping, editVars, upsets>>

EditStart ==
  /\ edit.at = "none" /\ ~streaming /\ edits < MaxEdits
  /\ edits' = edits + 1
  /\ \E k \in Keys, v \in Values :
       /\ rows[k] \notin {None, v}
       /\ edit' = [at |-> "sent", key |-> k, val |-> v]
  /\ UNCHANGED <<dbVars, snap, taskVars, msgs, sendVars, callVars, arrayVars, tabVars,
                 stopping, upsets>>

EditCommits ==
  /\ edit.at = "sent" /\ db[edit.key] # None
  /\ db' = [db EXCEPT ![edit.key] = edit.val]
  /\ edit' = [edit EXCEPT !.at = "committed"]
  /\ UNCHANGED <<writes, snap, taskVars, msgs, sendVars, callVars, arrayVars, tabVars,
                 stopping, edits, upsets>>

EditFails ==
  /\ edit.at = "sent" /\ edit' = NoEdit /\ Upset
  /\ UNCHANGED <<dbVars, snap, taskVars, msgs, sendVars, callVars, arrayVars, tabVars,
                 stopping, edits>>

\* The edit goes into a copy of whatever array the tab shows by then.
\* Variant for mutation: into the array itself.
InPlace == tag' = tag
Copied == tag' = 0

EditLands ==
  /\ edit.at = "committed" /\ edit' = NoEdit
  /\ rows' = [rows EXCEPT ![edit.key] = IF @ = None THEN None ELSE edit.val]
  /\ Copied /\ Opened
  /\ mixed' = (mixed \/ listening \cup Waiting # {})
  /\ UNCHANGED <<dbVars, snap, taskVars, msgs, sendVars, callVars, tabVars,
                 stopping, edits, upsets>>

-----------------------------------------------------------------------------

TaskStep(r) == BeginTask(r) \/ Execute(r) \/ ExecFails(r) \/ Settle(r) \/ Report(r) \/ Drop(r)

Next ==
  \/ \E r \in Runs : \/ \E auto \in BOOLEAN : RunQuery(r, auto)
                     \/ CancelReturns(r) \/ Refused(r) \/ TaskStep(r) \/ Deliver(r)
                     \/ StopReturns(r)
  \/ StopTab
  \/ Others \/ EditStart \/ EditCommits \/ EditFails \/ EditLands

Spec == Init /\ [][Next]_vars

-----------------------------------------------------------------------------
(* Properties.                                                              *)

TaskStates == {"none", "invoked", "begun", "read", "settled", "over"}

Messages == [kind : {"columns", "rows", "patch", "done", "error"}, id : Ids,
             rows : Contents]

TypeOK ==
  /\ db \in Contents /\ writes \in 0 .. MaxWrites /\ snap \in Ids
  /\ task \in [Runs -> TaskStates] /\ aborted \subseteq Runs
  /\ asks \subseteq Runs
  /\ base \in [Runs -> Ids] /\ prev \in [Runs -> Ids] /\ answer \in [Runs -> Ids]
  /\ seen \in [Runs -> Contents]
  /\ made \in [Runs -> Contents] /\ msgs \in [Runs -> Seq(Messages)]
  /\ phase \in [Runs -> {"new", "waiting", "live"}] /\ victim \in [Runs -> Ids]
  /\ rows \in Contents /\ tag \in Ids /\ closed \in BOOLEAN /\ truth \in Contents
  /\ mixed \in BOOLEAN /\ streaming \in BOOLEAN
  /\ cur \in Ids /\ un \in Ids /\ upsets \in 0 .. MaxUpsets
  /\ edit \in {NoEdit} \cup [at : {"sent", "committed"}, key : Keys, val : Values]
  /\ listening \subseteq Runs /\ stopping \subseteq Runs
  /\ torn \subseteq Runs /\ mute \subseteq Runs

\* A patch is only ever applied to the rows it was computed from: when a run has
\* closed, the tab shows exactly what that run read, and an array that carries
\* the id of a snapshot is the result the snapshot was made of, however runs
\* were stopped and failed. Excluded is an array that an edit reached while a run
\* was on, that two runs wrote, or whose run asked for a patch and had to wait; and
\* the rows a patch should have changed that could not be sent: the code sends Done
\* all the same (query.rs:1438-1454), which ties the new id to the old rows.
ShownIsTrue ==
  ~mixed => /\ closed => rows = truth
            /\ tag # 0 => rows = made[tag]

\* The closing message of a run is on its way.
Closes(r) == \E i \in 1 .. Len(msgs[r]) : msgs[r][i].kind \in {"done", "error"}

\* A tab does not spin for ever: while it shows a running query, a call of the
\* tab is going to settle that, or its handlers are attached to a run that was
\* not stopped and has not answered or whose closing message is on its way. The
\* one exception is a closing message that could not be sent: the code only logs
\* that (query.rs:1483-1489, 1522-1528), and the tab spins until the user stops it.
StreamingHasEnd ==
  streaming => \/ Waiting # {} \/ stopping # {}
               \/ /\ cur \in listening \ aborted
                  /\ task[cur] \in {"invoked", "begun", "read", "settled"} \/ Closes(cur) \/ cur \in mute

=============================================================================
