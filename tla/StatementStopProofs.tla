------------------------- MODULE StatementStopProofs -------------------------
(***************************************************************************)
(* Proofs about StatementStop, for any runs, any connections and any size  *)
(* of the pool.  What a kill may hit depends on who holds a connection     *)
(* (HoldInv), on what the server works on there (ServeInv) and on what a   *)
(* run wrote down while it held one (BackendInv, KillInv); that none is    *)
(* left behind, on each one's having a holder (HeldInv).                   *)
(***************************************************************************)
EXTENDS StatementStop, TLAPS

\* A connection is held by one run, and the run is somewhere in between.
HoldInv ==
  /\ \A r \in Runs : conn[r] # None => place[conn[r]] = "held"
  /\ \A r, s \in Runs : conn[r] # None /\ conn[r] = conn[s] => r = s
  /\ \A r \in Runs : conn[r] # None <=> pc[r] \in {"acquired", "ready", "running"}

\* A statement runs for the holder, or on a connection nobody can borrow.
ServeInv ==
  \A c \in Conns : serving[c] # None =>
    \/ place[c] \in {"returning", "closed"}
    \/ place[c] = "held" /\ conn[serving[c]] = c

ArmInv ==
  /\ \A q \in Plain : pc[q] \in {"ready", "running"} => q \in armed
  /\ \A q \in armed : pc[q] \in {"ready", "running", "done"}

\* Only armed holders carry a changed timeout.
AlteredInv ==
  \A c \in altered : place[c] = "closed" \/ \E q \in Plain : conn[q] = c /\ q \in armed

\* As long as its run is under way, a backend id names the connection held.
BackendInv ==
  /\ \A q \in Plain : pc[q] # "done" /\ backend[q] # None
                        => conn[q] = backend[q] /\ q \in armed
  /\ \A p \in Previews : mode[p] = "run" /\ backend[p] # None => conn[p] = backend[p]

KillInv ==
  /\ \A q \in Plain : kill[q] # None => place[kill[q]] = "closed"
                                        /\ serving[kill[q]] \in {None, q}
  /\ \A p \in Previews : mode[p] = "stopping" => conn[p] = kill[p]

IInv == TypeOK /\ HoldInv /\ ServeInv /\ ArmInv /\ AlteredInv /\ BackendInv /\ KillInv

LEMMA InitInv == Init => IInv
BY DistinctKinds, NoneIsNothing
DEF Init, IInv, TypeOK, HoldInv, ServeInv, ArmInv, AlteredInv, BackendInv, KillInv,
    Runs, Streams

(* A connection in the pool serves nobody, and neither does a new one.     *)
LEMMA AcquireInv ==
  ASSUME IInv, NEW r \in Runs, NEW c \in Conns, Acquire(r, c)
  PROVE  IInv'
<1> USE DistinctKinds, NoneIsNothing DEF Runs, Streams, Set, IInv, TypeOK, connVars, stopVars
<1> USE DEF Acquire, CanBorrow, Polled
<1>1. TypeOK'
  OBVIOUS
<1>2. HoldInv'
  BY DEF HoldInv
<1>3. ServeInv'
  BY DEF HoldInv, ServeInv
<1>4. ArmInv'
  BY DEF ArmInv
<1>5. AlteredInv'
  BY DEF HoldInv, AlteredInv
<1>6. BackendInv'
  BY DEF HoldInv, BackendInv
<1>7. KillInv'
  BY DEF KillInv
<1>8. QED BY <1>1, <1>2, <1>3, <1>4, <1>5, <1>6, <1>7

(* What is given up before it is armed has its own timeout.                *)
LEMMA RefusedInv ==
  ASSUME IInv, NEW r \in Runs, Refused(r)
  PROVE  IInv'
<1> USE DistinctKinds, NoneIsNothing DEF Runs, Streams, Set, IInv, TypeOK, connVars, stopVars
<1> USE DEF Refused, LetGo, Over, Polled
<1>1. TypeOK'
  OBVIOUS
<1>2. HoldInv'
  BY DEF HoldInv
<1>3. ServeInv'
  BY DEF ServeInv
<1>4. ArmInv'
  BY DEF ArmInv
<1>5. AlteredInv'
  BY DEF HoldInv, ArmInv, AlteredInv
<1>6. BackendInv'
  BY DEF BackendInv
<1>7. KillInv'
  BY DEF HoldInv, KillInv
<1>8. QED BY <1>1, <1>2, <1>3, <1>4, <1>5, <1>6, <1>7

(* The timeout is changed only once the connection is armed.               *)
LEMMA RegisterInv ==
  ASSUME IInv, NEW q \in Runs, Register(q)
  PROVE  IInv'
<1> USE DistinctKinds, NoneIsNothing DEF Runs, Streams, Set, IInv, TypeOK, connVars, stopVars
<1> USE DEF Register, Arm, Polled
<1>1. TypeOK'
  BY DEF HoldInv
<1>2. HoldInv'
  BY DEF HoldInv
<1>3. ServeInv'
  BY DEF ServeInv
<1>4. ArmInv'
  BY DEF ArmInv
<1>5. AlteredInv'
  BY DEF AlteredInv
<1>6. BackendInv'
  BY DEF BackendInv
<1>7. KillInv'
  BY DEF KillInv
<1>8. QED BY <1>1, <1>2, <1>3, <1>4, <1>5, <1>6, <1>7

LEMMA ExecuteInv ==
  ASSUME IInv, NEW r \in Runs, Execute(r)
  PROVE  IInv'
<1> USE DistinctKinds, NoneIsNothing DEF Runs, Streams, Set, IInv, TypeOK, connVars, stopVars
<1> USE DEF Execute, Polled
<1>1. TypeOK'
  OBVIOUS
<1>2. HoldInv'
  BY DEF HoldInv
<1>3. ServeInv'
  BY DEF HoldInv, ServeInv, ArmInv, KillInv
<1>4. ArmInv'
  BY DEF ArmInv
<1>5. AlteredInv'
  BY DEF AlteredInv
<1>6. BackendInv'
  BY DEF BackendInv
<1>7. KillInv'
  BY DEF HoldInv, KillInv
<1>8. QED BY <1>1, <1>2, <1>3, <1>4, <1>5, <1>6, <1>7

LEMMA CompleteInv ==
  ASSUME IInv, NEW q \in Plain, Complete(q)
  PROVE  IInv'
<1> USE DistinctKinds, NoneIsNothing DEF Runs, Streams, Set, IInv, TypeOK, connVars, stopVars
<1> USE DEF Complete, LetGo, AfterRestore, Answered
<1>1. TypeOK'
  OBVIOUS
<1>2. HoldInv'
  BY DEF HoldInv
<1>3. ServeInv'
  BY DEF ServeInv
<1>4. ArmInv'
  BY DEF ArmInv
<1>5. AlteredInv'
  BY DEF HoldInv, AlteredInv
<1>6. BackendInv'
  BY DEF BackendInv
<1>7. KillInv'
  BY DEF HoldInv, KillInv
<1>8. QED BY <1>1, <1>2, <1>3, <1>4, <1>5, <1>6, <1>7

LEMMA BatchFailsInv ==
  ASSUME IInv, NEW q \in Plain, BatchFails(q)
  PROVE  IInv'
<1> USE DistinctKinds, NoneIsNothing DEF Runs, Streams, Set, IInv, TypeOK, connVars, stopVars
<1> USE DEF BatchFails, LetGo, AfterDrop
<1>1. TypeOK'
  OBVIOUS
<1>2. HoldInv'
  BY DEF HoldInv
<1>3. ServeInv'
  BY DEF ServeInv
<1>4. ArmInv'
  BY DEF ArmInv
<1>5. AlteredInv'
  BY DEF HoldInv, AlteredInv
<1>6. BackendInv'
  BY DEF BackendInv
<1>7. KillInv'
  BY DEF HoldInv, KillInv
<1>8. QED BY <1>1, <1>2, <1>3, <1>4, <1>5, <1>6, <1>7

(* What a query stream abandons with a backend id is closed for good.      *)
LEMMA AbandonInv ==
  ASSUME IInv, NEW q \in Plain, Abandon(q)
  PROVE  IInv'
<1> USE DistinctKinds, NoneIsNothing DEF Runs, Streams, Set, IInv, TypeOK, connVars, stopVars
<1> USE DEF Abandon, LetGo, AfterDrop, Fire
<1>1. TypeOK'
  OBVIOUS
<1>2. HoldInv'
  BY DEF HoldInv
<1>3. ServeInv'
  BY DEF ServeInv
<1>4. ArmInv'
  BY DEF ArmInv
<1>5. AlteredInv'
  BY DEF HoldInv, AlteredInv
<1>6. BackendInv'
  BY DEF BackendInv
<1>7. KillInv'
  BY DEF HoldInv, ServeInv, BackendInv, KillInv
<1>8. QED BY <1>1, <1>2, <1>3, <1>4, <1>5, <1>6, <1>7

LEMMA FinishInv ==
  ASSUME IInv, NEW p \in Previews, Finish(p)
  PROVE  IInv'
<1> USE DistinctKinds, NoneIsNothing DEF Runs, Streams, Set, IInv, TypeOK, connVars, stopVars
<1> USE DEF Finish, LetGo, Over, Answered, Polled
<1>1. TypeOK'
  OBVIOUS
<1>2. HoldInv'
  BY DEF HoldInv
<1>3. ServeInv'
  BY DEF ServeInv
<1>4. ArmInv'
  BY DEF ArmInv
<1>5. AlteredInv'
  BY DEF HoldInv, AlteredInv
<1>6. BackendInv'
  BY DEF BackendInv
<1>7. KillInv'
  BY DEF HoldInv, KillInv
<1>8. QED BY <1>1, <1>2, <1>3, <1>4, <1>5, <1>6, <1>7

(* The first kill of a dry run names a connection it holds and keeps.      *)
LEMMA TimeUpInv ==
  ASSUME IInv, NEW p \in Previews, TimeUp(p)
  PROVE  IInv'
<1> USE DistinctKinds, NoneIsNothing DEF Runs, Streams, Set, IInv, TypeOK, connVars, stopVars
<1> USE DEF TimeUp, Fire, AfterFire
<1>1. TypeOK'
  OBVIOUS
<1>2. HoldInv'
  BY DEF HoldInv
<1>3. ServeInv'
  BY DEF ServeInv
<1>4. ArmInv'
  BY DEF ArmInv
<1>5. AlteredInv'
  BY DEF AlteredInv
<1>6. BackendInv'
  BY DEF BackendInv
<1>7. KillInv'
  BY DEF BackendInv, KillInv
<1>8. QED BY <1>1, <1>2, <1>3, <1>4, <1>5, <1>6, <1>7

LEMMA GiveUpInv ==
  ASSUME IInv, NEW p \in Previews, GiveUp(p)
  PROVE  IInv'
<1> USE DistinctKinds, NoneIsNothing DEF Runs, Streams, Set, IInv, TypeOK, connVars, stopVars
<1> USE DEF GiveUp, Fire
<1>1. TypeOK'
  OBVIOUS
<1>2. HoldInv'
  BY DEF HoldInv
<1>3. ServeInv'
  BY DEF ServeInv
<1>4. ArmInv'
  BY DEF ArmInv
<1>5. AlteredInv'
  BY DEF AlteredInv
<1>6. BackendInv'
  BY DEF BackendInv
<1>7. KillInv'
  BY DEF KillInv
<1>8. QED BY <1>1, <1>2, <1>3, <1>4, <1>5, <1>6, <1>7

LEMMA DropFutureInv ==
  ASSUME IInv, NEW p \in Previews, DropFuture(p)
  PROVE  IInv'
<1> USE DistinctKinds, NoneIsNothing DEF Runs, Streams, Set, IInv, TypeOK, connVars, stopVars
<1> USE DEF DropFuture, LetGo
<1>1. TypeOK'
  OBVIOUS
<1>2. HoldInv'
  BY DEF HoldInv
<1>3. ServeInv'
  BY DEF ServeInv
<1>4. ArmInv'
  BY DEF ArmInv
<1>5. AlteredInv'
  BY DEF HoldInv, AlteredInv
<1>6. BackendInv'
  BY DEF BackendInv
<1>7. KillInv'
  BY DEF HoldInv, KillInv
<1>8. QED BY <1>1, <1>2, <1>3, <1>4, <1>5, <1>6, <1>7

LEMMA CancelPreviewInv ==
  ASSUME IInv, NEW p \in Previews, CancelPreview(p)
  PROVE  IInv'
<1> USE DistinctKinds, NoneIsNothing DEF Runs, Streams, Set, IInv, TypeOK, connVars, stopVars
<1> USE DEF CancelPreview, LetGo
<1>1. TypeOK'
  OBVIOUS
<1>2. HoldInv'
  BY DEF HoldInv
<1>3. ServeInv'
  BY DEF ServeInv
<1>4. ArmInv'
  BY DEF ArmInv
<1>5. AlteredInv'
  BY DEF HoldInv, AlteredInv
<1>6. BackendInv'
  BY DEF BackendInv
<1>7. KillInv'
  BY DEF HoldInv, KillInv
<1>8. QED BY <1>1, <1>2, <1>3, <1>4, <1>5, <1>6, <1>7

LEMMA KillLandsInv ==
  ASSUME IInv, NEW q \in Streams, KillLands(q)
  PROVE  IInv'
<1> USE DistinctKinds, NoneIsNothing DEF Runs, Streams, Set, IInv, TypeOK, connVars, stopVars
<1> USE DEF KillLands, KillOver
<1>1. TypeOK'
  OBVIOUS
<1>2. HoldInv'
  BY DEF HoldInv
<1>3. ServeInv'
  BY DEF ServeInv
<1>4. ArmInv'
  BY DEF ArmInv
<1>5. AlteredInv'
  BY DEF AlteredInv
<1>6. BackendInv'
  BY DEF BackendInv
<1>7. KillInv'
  BY DEF KillInv
<1>8. QED BY <1>1, <1>2, <1>3, <1>4, <1>5, <1>6, <1>7

LEMMA KillLostInv ==
  ASSUME IInv, NEW q \in Streams, KillLost(q)
  PROVE  IInv'
<1> USE DistinctKinds, NoneIsNothing DEF Runs, Streams, Set, IInv, TypeOK, connVars, stopVars
<1> USE DEF KillLost, KillOver
<1>1. TypeOK'
  OBVIOUS
<1>2. HoldInv'
  BY DEF HoldInv
<1>3. ServeInv'
  BY DEF ServeInv
<1>4. ArmInv'
  BY DEF HoldInv, ServeInv, ArmInv, KillInv
<1>5. AlteredInv'
  BY DEF AlteredInv
<1>6. BackendInv'
  BY DEF HoldInv, ServeInv, BackendInv, KillInv
<1>7. KillInv'
  BY DEF KillInv
<1>8. QED BY <1>1, <1>2, <1>3, <1>4, <1>5, <1>6, <1>7

LEMMA ServerEndsInv ==
  ASSUME IInv, NEW c \in Conns, ServerEnds(c)
  PROVE  IInv'
<1> USE DistinctKinds, NoneIsNothing DEF Runs, Streams, Set, IInv, TypeOK, connVars, stopVars
<1> USE DEF ServerEnds
<1>1. TypeOK'
  BY DEF HoldInv, ServeInv, ArmInv
<1>2. HoldInv'
  BY DEF HoldInv
<1>3. ServeInv'
  BY DEF ServeInv
<1>4. ArmInv'
  BY DEF ArmInv
<1>5. AlteredInv'
  BY DEF AlteredInv
<1>6. BackendInv'
  BY DEF BackendInv
<1>7. KillInv'
  BY DEF KillInv
<1>8. QED BY <1>1, <1>2, <1>3, <1>4, <1>5, <1>6, <1>7

(* A connection that comes back serves nobody and has no changed timeout.  *)
LEMMA BackToPoolInv ==
  ASSUME IInv, NEW c \in Conns, BackToPool(c)
  PROVE  IInv'
<1> USE DistinctKinds, NoneIsNothing DEF Runs, Streams, Set, IInv, TypeOK, connVars, stopVars
<1> USE DEF BackToPool
<1>1. TypeOK'
  OBVIOUS
<1>2. HoldInv'
  BY DEF HoldInv
<1>3. ServeInv'
  BY DEF ServeInv
<1>4. ArmInv'
  BY DEF ArmInv
<1>5. AlteredInv'
  BY DEF AlteredInv
<1>6. BackendInv'
  BY DEF BackendInv
<1>7. KillInv'
  BY DEF KillInv
<1>8. QED BY <1>1, <1>2, <1>3, <1>4, <1>5, <1>6, <1>7

LEMMA LeaveInv ==
  ASSUME IInv, NEW o \in Others, Leave(o)
  PROVE  IInv'
<1> USE DistinctKinds, NoneIsNothing DEF Runs, Streams, Set, IInv, TypeOK, connVars, stopVars
<1> USE DEF Leave
<1>1. TypeOK'
  OBVIOUS
<1>2. HoldInv'
  BY DEF HoldInv
<1>3. ServeInv'
  BY DEF ServeInv
<1>4. ArmInv'
  BY DEF ArmInv
<1>5. AlteredInv'
  BY DEF HoldInv, AlteredInv
<1>6. BackendInv'
  BY DEF BackendInv
<1>7. KillInv'
  BY DEF HoldInv, KillInv
<1>8. QED BY <1>1, <1>2, <1>3, <1>4, <1>5, <1>6, <1>7

LEMMA StutterInv ==
  ASSUME IInv, UNCHANGED vars
  PROVE  IInv'
BY DEF vars, connVars, stopVars, IInv, TypeOK, HoldInv, ServeInv, ArmInv, AlteredInv,
       BackendInv, KillInv

LEMMA StepInv == IInv /\ [Next]_vars => IInv'
<1> SUFFICES ASSUME IInv, [Next]_vars PROVE IInv'
  OBVIOUS
<1>1. ASSUME NEW r \in Runs, RunStep(r) PROVE IInv'
  BY <1>1, AcquireInv, RefusedInv, RegisterInv, ExecuteInv DEF RunStep
<1>2. ASSUME NEW q \in Plain, PlainStep(q) PROVE IInv'
  BY <1>2, CompleteInv, BatchFailsInv, AbandonInv DEF PlainStep
<1>3. ASSUME NEW p \in Previews, PreviewStep(p) PROVE IInv'
  BY <1>3, FinishInv, TimeUpInv, GiveUpInv, DropFutureInv, CancelPreviewInv
     DEF PreviewStep
<1>4. ASSUME NEW q \in Streams, KillLands(q) \/ KillLost(q) PROVE IInv'
  BY <1>4, KillLandsInv, KillLostInv
<1>5. ASSUME NEW c \in Conns, ServerEnds(c) \/ BackToPool(c) PROVE IInv'
  BY <1>5, ServerEndsInv, BackToPoolInv
<1>6. ASSUME NEW o \in Others, Leave(o) PROVE IInv'
  BY <1>6, LeaveInv
<1>7. CASE UNCHANGED vars
  BY <1>7, StutterInv
<1>8. QED
  BY <1>1, <1>2, <1>3, <1>4, <1>5, <1>6, <1>7 DEF Next

THEOREM InvHolds == Spec => []IInv
BY InitInv, StepInv, PTL DEF Spec

(* Type correctness; a dry run that waits for a kill has sent one.         *)
THEOREM TypeCorrect == Spec => []TypeOK
<1>1. IInv => TypeOK
  BY DEF IInv
<1>2. QED
  BY <1>1, InvHolds, PTL

(* Kills of query streams, and kills a dry run waits for, hit nobody else: *)
(* ReleaseGuard and fire_and_wait, whatever the size of the pool.          *)
THEOREM KillsAlwaysHitOwn == Spec => []KillsHitOwn
<1>1. IInv => KillsHitOwn
  <2> SUFFICES ASSUME IInv, NEW q \in Plain \cup {p \in Previews : mode[p] = "stopping"},
                      kill[q] # None
               PROVE  serving[kill[q]] \in {None, q}
    BY DEF KillsHitOwn
  <2>1. CASE q \in Plain
    BY <2>1 DEF IInv, KillInv
  <2>2. CASE q \in Previews /\ mode[q] = "stopping"
    <3>1. q \in Runs /\ conn[q] = kill[q] /\ kill[q] \in Conns
      BY <2>2 DEF IInv, KillInv, TypeOK, Runs, Streams
    <3>2. place[kill[q]] = "held"
      BY <3>1, NoneIsNothing DEF IInv, HoldInv
    <3>3. serving[kill[q]] # None => conn[serving[kill[q]]] = conn[q]
      BY <3>1, <3>2 DEF IInv, ServeInv
    <3>4. serving[kill[q]] # None => serving[kill[q]] \in Runs
      BY <3>1 DEF IInv, TypeOK
    <3>5. QED
      BY <3>1, <3>3, <3>4, NoneIsNothing DEF IInv, HoldInv
  <2>3. QED
    BY <2>1, <2>2
<1>2. QED
  BY <1>1, InvHolds, PTL

(* Whoever borrows a connection from the pool finds no statement running   *)
(* on it and the timeout the session had (ReleaseGuard, the restores).     *)
THEOREM PoolAlwaysClean == Spec => []PoolClean
<1>1. IInv => PoolClean
  <2> SUFFICES ASSUME IInv, NEW c \in Conns, place[c] = "pool"
               PROVE  serving[c] = None /\ c \notin altered
    BY DEF PoolClean
  <2>1. serving[c] = None
    BY DEF IInv, ServeInv
  <2>2. c \notin altered
    BY NoneIsNothing DEF IInv, AlteredInv, HoldInv, Runs, Streams
  <2>3. QED
    BY <2>1, <2>2
<1>2. QED
  BY <1>1, InvHolds, PTL

-----------------------------------------------------------------------------
(* Where the connections are.                                              *)
HeldInv == \A c \in Conns : place[c] = "held" => \E r \in Runs : conn[r] = c

\* A run gives up what it holds, if anything.
LEMMA LetGoHeld ==
  ASSUME IInv, HeldInv, NEW r \in Runs, NEW where \in {"returning", "closed"},
         LetGo(r, where)
  PROVE  HeldInv'
<1> SUFFICES ASSUME NEW c \in Conns, place'[c] = "held"
             PROVE  \E s \in Runs : conn'[s] = c
  BY DEF HeldInv
<1>1. place[c] = "held" /\ c # conn[r]
  <2>1. place \in [Conns -> {"new", "pool", "held", "returning", "closed"}]
    BY DEF IInv, TypeOK
  <2>2. CASE conn[r] = None
    BY <2>2, NoneIsNothing DEF LetGo
  <2>3. CASE conn[r] # None
    <3>1. place' = [place EXCEPT ![conn[r]] = where] /\ where # "held"
      BY <2>3 DEF LetGo, Set
    <3>2. QED
      BY <2>1, <3>1
  <2>4. QED
    BY <2>2, <2>3
<1>2. PICK s \in Runs : conn[s] = c
  BY <1>1 DEF HeldInv
<1>3. QED
  BY <1>1, <1>2 DEF LetGo, Set, IInv, TypeOK

LEMMA HeldStep ==
  ASSUME IInv, HeldInv, [Next]_vars
  PROVE  HeldInv'
<1> USE DEF Set, connVars, stopVars
<1>1. ASSUME NEW r \in Runs, NEW c \in Conns, Acquire(r, c)
      PROVE  HeldInv'
  <2>1. /\ pc[r] = "waiting" /\ place' = [place EXCEPT ![c] = "held"]
        /\ conn' = [conn EXCEPT ![r] = c]
    BY <1>1 DEF Acquire
  <2>2. conn[r] = None
    BY <2>1 DEF IInv, HoldInv
  <2>3. QED
    BY <2>1, <2>2, NoneIsNothing DEF HeldInv, IInv, TypeOK
<1>2. ASSUME NEW r \in Runs, Refused(r)
      PROVE  HeldInv'
  BY <1>2, LetGoHeld DEF Refused
<1>3. ASSUME NEW q \in Runs, Complete(q) \/ BatchFails(q) \/ Abandon(q)
      PROVE  HeldInv'
  BY <1>3, LetGoHeld DEF Complete, BatchFails, Abandon, AfterRestore, AfterDrop
<1>4. ASSUME NEW p \in Runs, Finish(p) \/ DropFuture(p) \/ CancelPreview(p)
      PROVE  HeldInv'
  BY <1>4, LetGoHeld DEF Finish, DropFuture, CancelPreview
<1>5. ASSUME NEW o \in Others, Leave(o)
      PROVE  HeldInv'
  <2>1. /\ place' = [place EXCEPT ![conn[o]] = "returning"]
        /\ conn' = [conn EXCEPT ![o] = None] /\ conn[o] \in Conns /\ o \in Runs
    BY <1>5 DEF Leave, IInv, TypeOK, Runs
  <2>2. QED
    BY <2>1 DEF HeldInv, IInv, TypeOK
<1>6. ASSUME NEW c \in Conns, BackToPool(c)
      PROVE  HeldInv'
  BY <1>6 DEF BackToPool, HeldInv, IInv, TypeOK
<1>7. CASE \/ \E r \in Runs : Register(r) \/ Execute(r)
           \/ \E p \in Previews : TimeUp(p) \/ GiveUp(p)
           \/ \E q \in Streams : KillLands(q) \/ KillLost(q)
           \/ \E c \in Conns : ServerEnds(c)
           \/ UNCHANGED vars
  <2>1. UNCHANGED <<place, conn>>
    BY <1>7 DEF Register, Execute, TimeUp, GiveUp, KillLands, KillLost, ServerEnds, vars
  <2>2. QED
    BY <2>1 DEF HeldInv
<1>8. QED
  BY <1>1, <1>2, <1>3, <1>4, <1>5, <1>6, <1>7
  DEF Next, RunStep, PlainStep, PreviewStep, Runs, Streams

(* No connection leaks: one that is neither in the pool, on its way back    *)
(* nor closed is held by exactly one run that is under way, whatever was    *)
(* cancelled, timed out or refused.                                         *)
THEOREM NoConnectionLeaks ==
  Spec => [](\A c \in Conns : place[c] = "held" =>
               \E r \in Runs : /\ conn[r] = c /\ pc[r] \in {"acquired", "ready", "running"}
                              /\ \A s \in Runs : conn[s] = c => s = r)
<1> DEFINE Held == \A c \in Conns : place[c] = "held" =>
                     \E r \in Runs : /\ conn[r] = c /\ pc[r] \in {"acquired", "ready", "running"}
                                    /\ \A s \in Runs : conn[s] = c => s = r
<1>1. Init => HeldInv
  BY DEF Init, HeldInv
<1>2. IInv /\ HeldInv => Held
  BY NoneIsNothing DEF IInv, HoldInv, HeldInv
<1>3. QED
  BY <1>1, <1>2, InvHolds, HeldStep, PTL DEF Spec
=============================================================================
