---------------------------- MODULE StatementStop ----------------------------
(***************************************************************************)
(* Stopping a statement on the server (src/src-tauri/src/db/server_stop.rs *)
(* with its callers in commands/query.rs, db/mysql.rs and db/postgres.rs). *)
(*                                                                         *)
(* A run borrows a connection of the session's pool, writes down its       *)
(* backend id and executes its statement.  Dropping the client's future    *)
(* does not end the statement, so a run that times out or is cancelled     *)
(* sends a kill for the backend id from another connection.  The kill      *)
(* names a connection and not a statement: it stops whatever runs there    *)
(* when it arrives.  Query streams close the connection they abandon; a    *)
(* dry run cannot, its transaction owns the connection and gives it back   *)
(* to the pool.                                                            *)
(*                                                                         *)
(* Taken for granted: backend ids are not reused by the server, and a kill *)
(* request given up after KILL_TIMEOUT is not carried out later.  SQLite,  *)
(* which has no backend and polls a flag instead, is left out.             *)
(***************************************************************************)
EXTENDS Naturals, FiniteSets

CONSTANTS
  Plain,     \* query streams (spawn_query_stream)
  Previews,  \* dry runs (spawn_preview_stream)
  Others,    \* users of the pool that set up no stop
  Timed,     \* the runs that have a query timeout
  Conns,     \* every connection the pool may ever open
  PoolSize,  \* open connections at one time
  None

Streams == Plain \cup Previews
Runs == Streams \cup Others

ASSUME DistinctKinds ==
  /\ Plain \cap Previews = {} /\ Plain \cap Others = {}
  /\ Previews \cap Others = {}
ASSUME NoneIsNothing == None \notin Runs /\ None \notin Conns

VARIABLES
  place,    \* where a connection is
  serving,  \* the run whose statement the server executes on it
  altered,  \* connections with the timeout of a run in their session
  pc,       \* how far the future that holds the connection is
  conn,     \* the connection a run holds
  armed,    \* query streams whose connection is closed when dropped
  mode,     \* what spawn_preview_stream is doing with that future
  backend,  \* ServerStopCtx: the backend id written down
  kill      \* the backend a kill on its way names

connVars == <<place, serving, altered>>
stopVars == <<backend, kill>>
vars == <<connVars, pc, conn, armed, mode, stopVars>>

Set(f, x, v) == [f EXCEPT ![x] = v]

Init ==
  /\ place = [c \in Conns |-> "new"]
  /\ serving = [c \in Conns |-> None]
  /\ altered = {}
  /\ pc = [r \in Runs |-> "waiting"]
  /\ conn = [r \in Runs |-> None]
  /\ armed = {}
  /\ mode = [p \in Previews |-> "run"]
  /\ backend = [q \in Streams |-> None]
  /\ kill = [q \in Streams |-> None]

-----------------------------------------------------------------------------
(* The future of a run, up to its statement.                               *)

\* spawn_preview_stream holds the future without polling it while a kill is
\* awaited, and once it has given up on it.
Polled(r) == r \in Previews => mode[r] \in {"run", "drain"}

OpenConns == {c \in Conns : place[c] \in {"pool", "held", "returning"}}
CanBorrow(c) ==
  \/ place[c] = "pool"
  \/ place[c] = "new" /\ Cardinality(OpenConns) < PoolSize

Acquire(r, c) ==
  /\ pc[r] = "waiting" /\ Polled(r)
  /\ CanBorrow(c)
  /\ place' = Set(place, c, "held")
  /\ pc' = Set(pc, r, "acquired")
  /\ conn' = Set(conn, r, c)
  /\ UNCHANGED <<serving, altered, armed, mode, stopVars>>

\* A run gives its connection up: it is closed, or goes back to the pool as
\* soon as the server has finished with it (sqlx pings it first).
LetGo(r, where) ==
  /\ place' = IF conn[r] = None THEN place ELSE Set(place, conn[r], where)
  /\ conn' = Set(conn, r, None)
  /\ pc' = Set(pc, r, "done")

\* A dry run reports as soon as its future ends, unless its time was up.
Over(r) == IF r \in Previews /\ mode[r] = "run" THEN Set(mode, r, "done") ELSE mode

\* No connection to be had, or USE / search_path is refused: nothing is armed.
Refused(r) ==
  /\ pc[r] \in {"waiting", "acquired"} /\ r \in Streams /\ Polled(r)
  /\ LetGo(r, "returning")
  /\ mode' = Over(r)
  /\ UNCHANGED <<serving, altered, armed, stopVars>>

\* Variant for mutation: the connection is not armed.
NeverArm(q) == armed
Arm(q) == IF q \in Plain THEN armed \cup {q} ELSE armed

\* The server may refuse any of the statements; the run goes on without.
\* A dry run changes nothing that outlives its transaction.
Register(q) ==
  /\ pc[q] = "acquired" /\ q \in Streams /\ Polled(q)
  /\ armed' = Arm(q)
  /\ \/ backend' = Set(backend, q, conn[q])
     \/ UNCHANGED backend
  /\ \/ altered' = altered \cup {c \in {conn[q]} : q \in Plain \cap Timed}
     \/ UNCHANGED altered
  /\ pc' = Set(pc, q, "ready")
  /\ UNCHANGED <<place, serving, conn, mode, kill>>

Execute(r) ==
  /\ pc[r] = IF r \in Others THEN "acquired" ELSE "ready"
  /\ Polled(r)
  /\ serving' = Set(serving, conn[r], r)
  /\ pc' = Set(pc, r, "running")
  /\ UNCHANGED <<place, altered, conn, armed, mode, stopVars>>

\* The server ends a statement: it is through, fails, or runs into the
\* timeout that was set for it.
ServerEnds(c) ==
  /\ serving[c] # None
  /\ serving' = Set(serving, c, None)
  /\ UNCHANGED <<place, altered, pc, conn, armed, mode, stopVars>>

Answered(r) == pc[r] = "running" /\ serving[conn[r]] # r

-----------------------------------------------------------------------------
(* Query streams.                                                          *)

\* Variant for mutation: the connection is kept whether restored or not.
AlwaysKeep(q, restored) == "returning"
AfterRestore(q, restored) ==
  IF conn[q] \in altered /\ ~restored /\ q \in armed THEN "closed" ELSE "returning"

\* The statement is over, well or badly: the timeout is put back and the
\* stop disarmed.
Complete(q) ==
  /\ q \in Plain /\ Answered(q)
  /\ \E restored \in BOOLEAN :
       /\ LetGo(q, AfterRestore(q, restored))
       /\ altered' = altered \ {c \in {conn[q]} : restored}
  /\ UNCHANGED <<serving, armed, mode, stopVars>>

\* Variant for mutation: a dropped connection is never closed.
NeverClose(q) == "returning"
AfterDrop(q) == IF q \in armed THEN "closed" ELSE "returning"

\* A batch cannot be sent to the UI: the connection is closed, nothing asks
\* the server to stop.
BatchFails(q) ==
  /\ q \in Plain /\ pc[q] = "running"
  /\ LetGo(q, AfterDrop(q))
  /\ UNCHANGED <<serving, altered, armed, mode, stopVars>>

\* request_and_take_backend
Fire(q) ==
  /\ kill' = IF backend[q] = None THEN kill ELSE Set(kill, q, backend[q])
  /\ backend' = Set(backend, q, None)

\* Timeout, cancellation, or a ticker that cannot send: the future is
\* dropped, then the stop fires.
Abandon(q) ==
  /\ q \in Plain /\ pc[q] # "done"
  /\ LetGo(q, AfterDrop(q))
  /\ Fire(q)
  /\ UNCHANGED <<serving, altered, armed, mode>>

-----------------------------------------------------------------------------
(* Dry runs.                                                               *)

\* The transaction is rolled back and its connection handed back.
Finish(p) ==
  /\ p \in Previews /\ Answered(p) /\ Polled(p)
  /\ LetGo(p, "returning")
  /\ mode' = Over(p)
  /\ UNCHANGED <<serving, altered, armed, stopVars>>

\* fire_and_wait: the future is not polled until the kill has been answered.
AfterFire(p) == IF backend[p] = None THEN "drain" ELSE "stopping"

TimeUp(p) ==
  /\ p \in Previews \cap Timed /\ mode[p] = "run"
  /\ Fire(p)
  /\ mode' = Set(mode, p, AfterFire(p))
  /\ UNCHANGED <<connVars, pc, conn, armed>>

\* The future has ended, or DRAIN_TIMEOUT has passed.
\* Variant for mutation: there is no such limit.
DrainToTheEnd(p) == pc[p] = "done"
DrainOver(p) == TRUE

\* should_stop_on_server: the result is a timeout, so the stop fires (again).
GiveUp(p) ==
  /\ p \in Previews /\ mode[p] = "drain"
  /\ DrainOver(p)
  /\ Fire(p)
  /\ mode' = Set(mode, p, "report")
  /\ UNCHANGED <<connVars, pc, conn, armed>>

DropFuture(p) ==
  /\ p \in Previews /\ mode[p] = "report"
  /\ LetGo(p, "returning")
  /\ mode' = Set(mode, p, "done")
  /\ UNCHANGED <<serving, altered, armed, stopVars>>

\* Cancelled: everything is dropped, a kill that is awaited with it.
CancelPreview(p) ==
  /\ p \in Previews /\ mode[p] # "done"
  /\ LetGo(p, "returning")
  /\ mode' = Set(mode, p, "done")
  /\ kill' = IF mode[p] = "stopping" THEN Set(kill, p, None) ELSE kill
  /\ UNCHANGED <<serving, altered, armed, backend>>

-----------------------------------------------------------------------------
(* Kills, the pool and its other users.                                    *)

KillOver(q) ==
  /\ kill' = Set(kill, q, None)
  /\ mode' = IF q \in Previews /\ mode[q] = "stopping" THEN Set(mode, q, "drain")
             ELSE mode

KillLands(q) ==
  /\ kill[q] # None
  /\ serving' = Set(serving, kill[q], None)
  /\ KillOver(q)
  /\ UNCHANGED <<place, altered, pc, conn, armed, backend>>

\* An error, or KILL_TIMEOUT.
KillLost(q) ==
  /\ kill[q] # None
  /\ KillOver(q)
  /\ UNCHANGED <<connVars, pc, conn, armed, backend>>

BackToPool(c) ==
  /\ place[c] = "returning" /\ serving[c] = None
  /\ place' = Set(place, c, "pool")
  /\ UNCHANGED <<serving, altered, pc, conn, armed, mode, stopVars>>

\* Another user of the pool is through, or is dropped, and comes again.
Leave(o) ==
  /\ o \in Others /\ conn[o] # None
  /\ place' = Set(place, conn[o], "returning")
  /\ conn' = Set(conn, o, None)
  /\ pc' = Set(pc, o, "waiting")
  /\ UNCHANGED <<serving, altered, armed, mode, stopVars>>

RunStep(r) == (\E c \in Conns : Acquire(r, c)) \/ Refused(r) \/ Register(r) \/ Execute(r)
PlainStep(q) == Complete(q) \/ BatchFails(q) \/ Abandon(q)
PreviewStep(p) == Finish(p) \/ TimeUp(p) \/ GiveUp(p) \/ DropFuture(p) \/ CancelPreview(p)

Next ==
  \/ \E r \in Runs : RunStep(r)
  \/ \E q \in Plain : PlainStep(q)
  \/ \E p \in Previews : PreviewStep(p)
  \/ \E q \in Streams : KillLands(q) \/ KillLost(q)
  \/ \E c \in Conns : ServerEnds(c) \/ BackToPool(c)
  \/ \E o \in Others : Leave(o)

Spec == Init /\ [][Next]_vars

\* Timers run out; nothing is asked of the server or of the pool.
Fairness ==
  /\ \A q \in Plain \cap Timed : WF_vars(Abandon(q))
  /\ \A p \in Previews \cap Timed : WF_vars(TimeUp(p)) /\ WF_vars(GiveUp(p))
  /\ \A p \in Previews : WF_vars(DropFuture(p))
  /\ \A q \in Streams : WF_vars(KillLands(q) \/ KillLost(q))

FairSpec == Spec /\ Fairness

-----------------------------------------------------------------------------
(* Properties.                                                             *)

\* Type correctness; a dry run waits only for a kill that was sent.
TypeOK ==
  /\ place \in [Conns -> {"new", "pool", "held", "returning", "closed"}]
  /\ serving \in [Conns -> Runs \cup {None}]
  /\ altered \subseteq Conns
  /\ pc \in [Runs -> {"waiting", "acquired", "ready", "running", "done"}]
  /\ conn \in [Runs -> Conns \cup {None}]
  /\ armed \subseteq Plain
  /\ mode \in [Previews -> {"run", "stopping", "drain", "report", "done"}]
  /\ backend \in [Streams -> Conns \cup {None}]
  /\ kill \in [Streams -> Conns \cup {None}]
  /\ \A p \in Previews : mode[p] = "stopping" => kill[p] # None

(* The kill of a query stream, and the one a dry run awaits, can stop only *)
(* the statement of the run that sent it: the connection is closed, or not *)
(* let go before the kill is answered (ReleaseGuard, fire_and_wait).       *)
KillsHitOwn ==
  \A q \in Plain \cup {p \in Previews : mode[p] = "stopping"} :
    kill[q] # None => serving[kill[q]] \in {None, q}

(* A connection that can be borrowed runs nobody's statement and has its   *)
(* session's own timeout (ReleaseGuard: neither is passed on).             *)
PoolClean ==
  \A c \in Conns : place[c] = "pool" => serving[c] = None /\ c \notin altered

(* A run with a timeout ends, even if the server answers nothing and the   *)
(* pool has no connection: every wait of the stop itself has a limit.      *)
TimedRunsEnd ==
  /\ \A q \in Plain \cap Timed : <>(pc[q] = "done")
  /\ \A p \in Previews \cap Timed : <>(mode[p] = "done")

-----------------------------------------------------------------------------
(* What documentation says and the code does not do.                       *)

(* No kill of a dry run stops a statement of somebody else (server_stop.rs *)
(* and query.rs: the connection is not reused before the kill arrives).    *)
PreviewKillsHitOwn ==
  \A p \in Previews : kill[p] # None => serving[kill[p]] \in {None, p}
=============================================================================
