--------------------------- MODULE SessionRegistry ---------------------------
(***************************************************************************)
(* The session table of the backend and what hangs on a session            *)
(* (src/src-tauri/src/state.rs, commands/connection.rs,                    *)
(* commands/listen.rs): connections that are replaced in place by a        *)
(* reconnect and closed by a disconnect, LISTEN streams that must stop     *)
(* with their session, and results kept per session.                       *)
(*                                                                         *)
(* Every command runs concurrently with every other one.  A step of a      *)
(* command is what it does between two points at which the others can run  *)
(* (an .await, a lock).  A spawned task whose abort handle was used may    *)
(* take further steps until it reaches an .await that is not ready; it is  *)
(* dropped there.                                                          *)
(*                                                                         *)
(* A connection is named by whoever opened it: the session itself for the  *)
(* first one, the reconnect for a later one.  The token of register_stream *)
(* is the identity of the registration, so a stream entry is named by the  *)
(* start call whose task it aborts.                                        *)
(***************************************************************************)
EXTENDS Naturals

CONSTANTS
  Sessions,     \* session ids; all are connected at first
  Reconnects,   \* calls of reconnect
  Disconnects,  \* calls of disconnect
  Starts,       \* calls of start_pg_listen, each with the task it spawns
  Streams,      \* stream ids
  StreamOf,     \* StreamOf[l]: the stream id the panel chose for start l
  Producers,    \* commands that store something for a session when they end
  KindOf,       \* KindOf[q]: the store producer q writes to
  TxSessions,   \* sessions whose user opens transactions
  Mortal,       \* connections that may die
  None

\* The panel cancels a stream when the user stops it, and once more when the
\* start call returns after the user has already stopped it.
StopOf(l)    == <<l, "stop">>
RecheckOf(l) == <<l, "recheck">>
Cancels == {StopOf(l) : l \in Starts} \cup {RecheckOf(l) : l \in Starts}
Conns == Sessions \cup Reconnects
Commands == Reconnects \cup Disconnects \cup Starts
Procs == Commands \cup Cancels
Kinds == {"diff", "result", "advice"}

ASSUME RegistryAssumption ==
  /\ StreamOf \in [Starts -> Streams]
  /\ KindOf \in [Producers -> Kinds]
  /\ None \notin Conns \cup Starts \cup Streams
  /\ Sessions \cap Reconnects = {}
  /\ Reconnects \cap (Disconnects \cup Starts \cup Cancels) = {}
  /\ Disconnects \cap (Starts \cup Cancels) = {}
  /\ Starts \cap Cancels = {}

VARIABLES
  registered,  \* registered[s]: the connection of session s, None once removed
  open,        \* connections that are open
  dead,        \* connections whose server side is gone
  tx,          \* connections with an explicit transaction open
  streams,     \* streams[x]: the start whose task stream id x aborts
  listeners,   \* pg_listeners[x]: the start that enlisted x
  task,        \* task[l]: the spawned task of start l
  aborted,     \* tasks whose abort handle was used
  dialed,      \* dialed[l]: connection (tunnel) the listener of l goes through
  kept,        \* producers whose product is still stored
  ppc,         \* one per producer
  pc,          \* one per process: where it is
  sess,        \* the session a command or a producer works for
  conn,        \* the connection a process looked up, replaced or removed
  fresh,       \* reconnects that hold a newly opened connection
  forced,      \* reconnects called with force
  victims,     \* streams a process has still to cancel
  target       \* the stream a process is cancelling

connVars   == <<registered, open, dead, tx>>
streamVars == <<streams, listeners, task, aborted, dialed>>
keptVars   == <<kept, ppc>>
procVars   == <<pc, sess, conn, fresh, forced, victims, target>>
vars == <<connVars, streamVars, keptVars, procVars>>

-----------------------------------------------------------------------------
Init ==
  /\ registered = [s \in Sessions |-> s]
  /\ open = Sessions /\ dead = {} /\ tx = {}
  /\ streams = [x \in Streams |-> None]
  /\ listeners = [x \in Streams |-> None]
  /\ task = [l \in Starts |-> "none"]
  /\ aborted = {}
  /\ dialed = [l \in Starts |-> None]
  /\ kept = {} /\ ppc = [q \in Producers |-> "idle"]
  /\ pc = [p \in Procs |-> "idle"]
  /\ sess \in [Commands \cup Producers -> Sessions]
  /\ conn = [p \in Procs |-> None]
  /\ fresh = {}
  /\ forced \in SUBSET Reconnects
  /\ victims = [p \in Procs |-> {}]
  /\ target = [p \in Procs |-> None]

Goto(p, l) == pc' = [pc EXCEPT ![p] = l]
Set(f, k, v) == [f EXCEPT ![k] = v]

-----------------------------------------------------------------------------
(* cancel_stream, and stop_pg_listeners_for_session that calls it for each *)
(* listener of a session.  The two tables are emptied one after the other. *)

Victims(s) == {x \in Streams : listeners[x] # None /\ sess[listeners[x]] = s}

Collect(p) ==
  /\ pc[p] = "collect"
  /\ victims' = Set(victims, p, Victims(sess[p]))
  /\ Goto(p, "stop")
  /\ UNCHANGED <<connVars, streamVars, keptVars, sess, conn, fresh, forced, target>>

Delist(p) ==
  /\ pc[p] = "stop"
  /\ \E x \in victims[p] :
       /\ victims' = Set(victims, p, victims[p] \ {x})
       /\ target' = Set(target, p, x)
       /\ listeners' = Set(listeners, x, None)
  /\ Goto(p, "take")
  /\ UNCHANGED <<connVars, streams, task, aborted, dialed, keptVars, sess, conn,
                 fresh, forced>>

\* Removing the entry and using its abort handle is one section under the
\* lock of the stream table.
TakeStream(p) ==
  /\ pc[p] = "take"
  /\ LET x == target[p] IN
       /\ streams' = Set(streams, x, None)
       /\ aborted' = IF streams[x] = None THEN aborted
                                          ELSE aborted \cup {streams[x]}
  /\ Goto(p, IF p \in Cancels THEN "done" ELSE "stop")
  /\ UNCHANGED <<connVars, listeners, task, dialed, keptVars, sess, conn, fresh,
                 forced, victims, target>>

Stopped(p) ==
  /\ pc[p] = "stop" /\ victims[p] = {}
  /\ Goto(p, IF p \in Starts THEN "ready"
             ELSE IF p \in Reconnects THEN "close" ELSE "advice")
  /\ UNCHANGED <<connVars, streamVars, keptVars, sess, conn, fresh, forced,
                 victims, target>>

-----------------------------------------------------------------------------
(* reconnect.                                                              *)

\* A reconnect that is not forced is refused while a transaction is open,
\* unless its connection fails the probe (a probe that times out refuses too).
Refused(r) == r \notin forced /\ conn[r] \in tx

LookUp(r) ==
  /\ pc[r] = "idle"
  /\ conn' = Set(conn, r, registered[sess[r]])
  /\ Goto(r, IF registered[sess[r]] = None THEN "done" ELSE "probe")
  /\ UNCHANGED <<connVars, streamVars, keptVars, sess, fresh, forced, victims, target>>

Probe(r) ==
  /\ pc[r] = "probe"
  /\ \/ Refused(r) /\ Goto(r, "done")
     \/ Refused(r) /\ conn[r] \in dead /\ Goto(r, "reopen")
     \/ ~Refused(r) /\ Goto(r, "reopen")
  /\ \/ UNCHANGED tx
     \/ r \in forced /\ tx' = tx \ {conn[r]}
  /\ UNCHANGED <<registered, open, dead, streamVars, keptVars, sess, conn, fresh,
                 forced, victims, target>>

\* The new transport is up, or reopening failed and the session is untouched.
Reopen(r) ==
  /\ pc[r] = "reopen"
  /\ \/ Goto(r, "done") /\ UNCHANGED <<open, fresh>>
     \/ Goto(r, "swap") /\ open' = open \cup {r} /\ fresh' = fresh \cup {r}
  /\ UNCHANGED <<registered, dead, tx, streamVars, keptVars, sess, conn, forced,
                 victims, target>>

\* AppState::replace, under the write lock of the session table: the id may
\* have been removed meanwhile, and the entry may no longer be the one that
\* the reconnect looked up.
\* Variant for mutation: the session table is not looked at again.
ReplaceAlways(r) == TRUE
StillThere(r) == registered[sess[r]] # None
\* Variant for mutation: the connection looked up at the start is closed.
CloseLookedUp(r) == conn[r]
ToClose(r) == registered[sess[r]]

Replace(r) ==
  /\ pc[r] = "swap"
  /\ IF StillThere(r)
       THEN /\ registered' = Set(registered, sess[r], r)
            /\ conn' = Set(conn, r, ToClose(r))
            /\ fresh' = fresh \ {r}
            /\ Goto(r, "collect")
       ELSE Goto(r, "orphan") /\ UNCHANGED <<registered, conn, fresh>>
  /\ UNCHANGED <<open, dead, tx, streamVars, keptVars, sess, forced, victims, target>>

CloseConn(c) == open' = open \ {c} /\ tx' = tx \ {c}

ClosePrev(r) ==
  /\ pc[r] = "close"
  /\ CloseConn(conn[r])
  /\ Goto(r, "done")
  /\ UNCHANGED <<registered, dead, streamVars, keptVars, sess, conn, fresh, forced,
                 victims, target>>

CloseOrphan(r) ==
  /\ pc[r] = "orphan"
  /\ CloseConn(r)
  /\ fresh' = fresh \ {r}
  /\ Goto(r, "done")
  /\ UNCHANGED <<registered, dead, streamVars, keptVars, sess, conn, forced,
                 victims, target>>

ReconnectStep(r) == LookUp(r) \/ Probe(r) \/ Reopen(r) \/ Replace(r)
                    \/ ClosePrev(r) \/ CloseOrphan(r)

-----------------------------------------------------------------------------
(* disconnect, with AppState::remove.                                      *)

\* Variant for mutation: diffs are dropped whatever is asked for.
DropOnlyDiffs(k, s) == kept' = {q \in kept : KindOf[q] # "diff" \/ sess[q] # s}
Drop(k, s) == kept' = {q \in kept : KindOf[q] # k \/ sess[q] # s}

DropDiffs(d) ==
  /\ pc[d] = "idle"
  /\ Drop("diff", sess[d])
  /\ Goto(d, "remove")
  /\ UNCHANGED <<connVars, streamVars, ppc, sess, conn, fresh, forced, victims, target>>

Remove(d) ==
  /\ pc[d] = "remove"
  /\ conn' = Set(conn, d, registered[sess[d]])
  /\ registered' = Set(registered, sess[d], None)
  /\ Goto(d, IF registered[sess[d]] = None THEN "done" ELSE "release")
  /\ UNCHANGED <<open, dead, tx, streamVars, keptVars, sess, fresh, forced,
                 victims, target>>

\* Result handles and refresh snapshots.
Release(d) ==
  /\ pc[d] = "release"
  /\ Drop("result", sess[d])
  /\ Goto(d, "collect")
  /\ UNCHANGED <<connVars, streamVars, ppc, sess, conn, fresh, forced, victims, target>>

DropAdvice(d) ==
  /\ pc[d] = "advice"
  /\ Drop("advice", sess[d])
  /\ Goto(d, "close")
  /\ UNCHANGED <<connVars, streamVars, ppc, sess, conn, fresh, forced, victims, target>>

CloseRemoved(d) ==
  /\ pc[d] = "close"
  /\ CloseConn(conn[d])
  /\ Goto(d, "done")
  /\ UNCHANGED <<registered, dead, streamVars, keptVars, sess, conn, fresh, forced,
                 victims, target>>

DisconnectStep(d) == DropDiffs(d) \/ Remove(d) \/ Release(d) \/ DropAdvice(d)
                     \/ CloseRemoved(d)

-----------------------------------------------------------------------------
(* start_pg_listen.  The task starts behind a gate that opens only after   *)
(* both registrations.                                                     *)

\* Variant for mutation: the task runs at once.
NoGate == "running"
SpawnState == "gated"

Spawn(l) ==
  /\ pc[l] = "idle"
  /\ IF registered[sess[l]] = None
       THEN Goto(l, "done") /\ UNCHANGED <<task, dialed>>
       ELSE /\ task' = Set(task, l, SpawnState)
            /\ dialed' = Set(dialed, l, registered[sess[l]])
            /\ Goto(l, "register")
  /\ UNCHANGED <<connVars, streams, listeners, aborted, keptVars, sess, conn, fresh,
                 forced, victims, target>>

\* register_stream: a task that is registered under the same id is aborted.
RegisterStream(l) ==
  /\ pc[l] = "register"
  /\ LET prev == streams[StreamOf[l]] IN
       aborted' = IF prev = None THEN aborted ELSE aborted \cup {prev}
  /\ streams' = Set(streams, StreamOf[l], l)
  /\ Goto(l, "enlist")
  /\ UNCHANGED <<connVars, listeners, task, dialed, keptVars, sess, conn, fresh,
                 forced, victims, target>>

Enlist(l) ==
  /\ pc[l] = "enlist"
  /\ listeners' = Set(listeners, StreamOf[l], l)
  /\ Goto(l, "verify")
  /\ UNCHANGED <<connVars, streams, task, aborted, dialed, keptVars, sess, conn,
                 fresh, forced, victims, target>>

\* Has the session gone away between the lookup and the registrations?
\* Variant for mutation: it is not looked at again.
NoSecondLook(l) == FALSE
SessionGone(l) == registered[sess[l]] = None

Verify(l) ==
  /\ pc[l] = "verify"
  /\ Goto(l, IF SessionGone(l) THEN "collect" ELSE "ready")
  /\ UNCHANGED <<connVars, streamVars, keptVars, sess, conn, fresh, forced, victims,
                 target>>

OpenGate(l) ==
  /\ pc[l] = "ready"
  /\ task' = IF task[l] = "gated" /\ l \notin aborted
               THEN Set(task, l, "running") ELSE task
  /\ Goto(l, "done")
  /\ UNCHANGED <<connVars, streams, listeners, aborted, dialed, keptVars, sess, conn,
                 fresh, forced, victims, target>>

StartStep(l) == Spawn(l) \/ RegisterStream(l) \/ Enlist(l) \/ Verify(l) \/ OpenGate(l)

\* run_listener returns: an error, or nobody receives its messages any more.
ListenerEnds(l) ==
  /\ task[l] = "running"
  /\ task' = Set(task, l, "delist")
  /\ UNCHANGED <<connVars, streams, listeners, aborted, dialed, keptVars, procVars>>

\* An entry is removed only by the task whose token it carries.
ForgetListener(l) ==
  /\ task[l] = "delist"
  /\ task' = Set(task, l, "forget")
  /\ listeners' = IF listeners[StreamOf[l]] = l
                    THEN Set(listeners, StreamOf[l], None) ELSE listeners
  /\ UNCHANGED <<connVars, streams, aborted, dialed, keptVars, procVars>>

\* The entry is removed only by the task it belongs to.
OwnEntry(l) == streams[StreamOf[l]] = l

ForgetStream(l) ==
  /\ task[l] = "forget"
  /\ task' = Set(task, l, "ended")
  /\ streams' = IF OwnEntry(l) THEN Set(streams, StreamOf[l], None) ELSE streams
  /\ UNCHANGED <<connVars, listeners, aborted, dialed, keptVars, procVars>>

\* The runtime drops an aborted task at an .await.
DropTask(l) ==
  /\ l \in aborted
  /\ task[l] \in {"gated", "running", "forget"}
  /\ task' = Set(task, l, "dropped")
  /\ UNCHANGED <<connVars, streams, listeners, aborted, dialed, keptVars, procVars>>

TaskStep(l) == ListenerEnds(l) \/ ForgetListener(l) \/ ForgetStream(l) \/ DropTask(l)

-----------------------------------------------------------------------------
(* The panel (PgListenPanel.tsx): stop, and the second look after start.   *)

BeginCancel(p, l) ==
  /\ listeners' = Set(listeners, StreamOf[l], None)
  /\ target' = Set(target, p, StreamOf[l])
  /\ Goto(p, "take")

UserStops(l) ==
  /\ pc[StopOf(l)] = "idle" /\ pc[l] # "idle"
  /\ BeginCancel(StopOf(l), l)
  /\ UNCHANGED <<connVars, streams, task, aborted, dialed, keptVars, sess, conn,
                 fresh, forced, victims>>

\* Variant for mutation: the panel does not look again.
NoRecheck(l) == FALSE
StoppedMeanwhile(l) == pc[StopOf(l)] # "idle"

Recheck(l) ==
  /\ pc[RecheckOf(l)] = "idle" /\ pc[l] = "done"
  /\ IF StoppedMeanwhile(l)
       THEN BeginCancel(RecheckOf(l), l)
       ELSE Goto(RecheckOf(l), "done") /\ UNCHANGED <<listeners, target>>
  /\ UNCHANGED <<connVars, streams, task, aborted, dialed, keptVars, sess, conn,
                 fresh, forced, victims>>

PanelStep(l) == UserStops(l) \/ Recheck(l)

-----------------------------------------------------------------------------
(* A command that stores something for its session when it ends: a stream  *)
(* that retains its result, a data comparison, an advisor report.  It      *)
(* looks the session up when it begins and never again.                    *)

Begin(q) ==
  /\ ppc[q] = "idle" /\ registered[sess[q]] # None
  /\ ppc' = Set(ppc, q, "working")
  /\ UNCHANGED <<connVars, streamVars, kept, procVars>>

Store(q) ==
  /\ ppc[q] = "working"
  /\ ppc' = Set(ppc, q, "done")
  /\ kept' = kept \cup {q}
  /\ UNCHANGED <<connVars, streamVars, procVars>>

\* begin_transaction and commit_transaction / rollback_transaction.
BeginTransaction(s) ==
  /\ s \in TxSessions
  /\ registered[s] # None /\ registered[s] \notin tx \cup dead
  /\ tx' = tx \cup {registered[s]}
  /\ UNCHANGED <<registered, open, dead, streamVars, keptVars, procVars>>

FinishTransaction(s) ==
  /\ registered[s] \in tx
  /\ tx' = tx \ {registered[s]}
  /\ UNCHANGED <<registered, open, dead, streamVars, keptVars, procVars>>

\* The server or the network drops a connection (outside the program).
Die(c) ==
  /\ c \in (open \cap Mortal) \ dead
  /\ dead' = dead \cup {c}
  /\ UNCHANGED <<registered, open, tx, streamVars, keptVars, procVars>>

-----------------------------------------------------------------------------
SharedStep(p) == Collect(p) \/ Delist(p) \/ TakeStream(p) \/ Stopped(p)

Next ==
  \/ \E p \in Procs : SharedStep(p)
  \/ \E r \in Reconnects : ReconnectStep(r)
  \/ \E d \in Disconnects : DisconnectStep(d)
  \/ \E l \in Starts : StartStep(l) \/ TaskStep(l) \/ PanelStep(l)
  \/ \E q \in Producers : Begin(q) \/ Store(q)
  \/ \E s \in Sessions : BeginTransaction(s) \/ FinishTransaction(s)
  \/ \E c \in Conns : Die(c)

Spec == Init /\ [][Next]_vars

\* A command that was called runs to its end (each future is polled by the
\* runtime), the panel's second look is part of its start, and the runtime
\* drops a task that was aborted.  Nothing obliges the user to stop a stream,
\* a listener to end by itself or a connection to die.
Fairness ==
  /\ \A p \in Procs : WF_vars(SharedStep(p))
  /\ \A r \in Reconnects : WF_vars(pc[r] # "idle" /\ ReconnectStep(r))
  /\ \A d \in Disconnects : WF_vars(pc[d] # "idle" /\ DisconnectStep(d))
  /\ \A l \in Starts : /\ WF_vars(pc[l] # "idle" /\ StartStep(l))
                       /\ WF_vars(Recheck(l))
                       /\ WF_vars(ForgetListener(l) \/ ForgetStream(l) \/ DropTask(l))

FairSpec == Spec /\ Fairness

-----------------------------------------------------------------------------
(* Properties.                                                             *)

TaskStates == {"none", "gated", "running", "delist", "forget", "ended", "dropped"}
ProcPCs == {"idle", "probe", "reopen", "swap", "orphan", "remove", "release",
            "register", "enlist", "verify", "ready", "collect", "stop", "take",
            "advice", "close", "done"}

ConnType ==
  /\ registered \in [Sessions -> Conns \cup {None}]
  /\ open \subseteq Conns /\ dead \subseteq Conns

StreamType ==
  /\ streams \in [Streams -> Starts \cup {None}]
  /\ listeners \in [Streams -> Starts \cup {None}]
  /\ task \in [Starts -> TaskStates]
  /\ aborted \subseteq Starts
  /\ dialed \in [Starts -> Conns \cup {None}]

KeptType ==
  /\ kept \subseteq Producers
  /\ ppc \in [Producers -> {"idle", "working", "done"}]

ProcType ==
  /\ pc \in [Procs -> ProcPCs]
  /\ sess \in [Commands \cup Producers -> Sessions]
  /\ conn \in [Procs -> Conns \cup {None}]
  /\ fresh \subseteq Reconnects /\ forced \subseteq Reconnects
  /\ victims \in [Procs -> SUBSET Streams]
  /\ target \in [Procs -> Streams \cup {None}]
  /\ \A p \in Procs : pc[p] = "take" => target[p] \in Streams

\* Every table maps ids to what the code stores in it, whoever cancels has
\* picked a stream, and a transaction is open only on an open connection.
TypeOK == ConnType /\ StreamType /\ KeptType /\ ProcType /\ tx \subseteq open

\* A session that was disconnected never comes back, although reconnects that
\* looked it up before are still running.
NoResurrection ==
  [][\A s \in Sessions : registered[s] = None => registered'[s] = None]_vars

ClosingPCs == {"release", "collect", "stop", "take", "advice", "close"}

\* p will close connection c.
WillClose(p, c) == conn[p] = c /\ pc[p] \in ClosingPCs

\* The connection of a session is open, and every open connection belongs to a
\* session or is in the hands of a command that has still to install or close
\* it: concurrent reconnects and disconnects leak none and close none in use.
ConnectionsOwned ==
  /\ \A s \in Sessions : registered[s] # None => registered[s] \in open
  /\ \A c \in open : \/ \E s \in Sessions : registered[s] = c
                     \/ c \in fresh
                     \/ \E p \in Reconnects \cup Disconnects : WillClose(p, c)

\* A task that runs and was not aborted can be reached through its stream id.
RunningReachable ==
  \A l \in Starts :
    task[l] \in {"running", "delist"} /\ l \notin aborted => streams[StreamOf[l]] = l

\* A stream entry stands for a task that has not ended and was not aborted.
EntriesAlive ==
  \A x \in Streams :
    streams[x] # None => /\ streams[x] \notin aborted
                         /\ task[streams[x]] \in {"gated", "running", "delist", "forget"}

\* The stream table is exact: a task that runs can always be cancelled through
\* its id, whatever tasks used that id before it, and cancel_stream never
\* reports the cancellation of a task that is gone.
StreamsExact == RunningReachable /\ EntriesAlive

\* p has still to abort the task registered under the stream of l.
WillStop(p, l) ==
  LET x == StreamOf[l] IN
    \/ pc[p] \in {"release", "collect"} /\ sess[p] = sess[l]
    \/ pc[p] \in {"stop", "take"} /\ x \in victims[p]
    \/ pc[p] = "take" /\ target[p] = x

Listening(l) == pc[l] = "done" /\ task[l] = "running" /\ l \notin aborted

\* No listener outlives its session: neither one that disconnect finds, nor
\* one that was being started while the session went away.
NoListenerAfterDisconnect ==
  \A l \in Starts : Listening(l) /\ registered[sess[l]] = None
                     => \E p \in Procs : WillStop(p, l)

\* Once its session is gone, or the user has stopped it, the task of a listener
\* ends for good, wherever the start call was when the cancellation ran into the
\* tables.
ListenersEnd ==
  \A l \in Starts : (registered[sess[l]] = None \/ pc[StopOf(l)] # "idle")
                     ~> [](task[l] \in {"none", "ended", "dropped"})

\* What was stored for a session before its disconnect began is gone when
\* the disconnect has finished.
RemovalReleases ==
  \A d \in Disconnects, q \in Producers :
    [](/\ pc[d] = "idle" /\ q \in kept /\ sess[q] = sess[d]
       => [](pc[d] = "done" /\ conn[d] # None => q \notin kept))

=============================================================================
