------------------------ MODULE SessionRegistryProofs ------------------------
(***************************************************************************)
(* Proofs about SessionRegistry, for any sessions, commands and streams.   *)
(***************************************************************************)
EXTENDS SessionRegistry, TLAPS

(* The types of the parts; that a transaction needs an open connection     *)
(* follows later, with the owners of connections.                          *)
Types == ConnType /\ StreamType /\ KeptType /\ ProcType

LEMMA Kinds3 ==
  /\ \A r \in Reconnects : r \in Procs /\ r \in Commands /\ r \in Conns
  /\ \A d \in Disconnects : d \in Procs /\ d \in Commands
  /\ \A l \in Starts : /\ l \in Procs /\ l \in Commands
                       /\ StopOf(l) \in Procs /\ RecheckOf(l) \in Procs
                       /\ StreamOf[l] \in Streams
  /\ \A s \in Sessions : s \in Conns
BY RegistryAssumption DEF Procs, Commands, Conns, Cancels

LEMMA TypesInit == Init => Types
BY RegistryAssumption DEF Init, Types, ConnType, StreamType, KeptType, ProcType,
  Conns, Procs, Commands, TaskStates, ProcPCs

LEMMA Frame ==
  /\ Types /\ UNCHANGED <<registered, open, dead>> => ConnType'
  /\ Types /\ UNCHANGED streamVars => StreamType'
  /\ Types /\ UNCHANGED keptVars => KeptType'
  /\ Types /\ UNCHANGED procVars => ProcType'
BY DEF Types, ConnType, StreamType, KeptType, ProcType, connVars, streamVars,
  keptVars, procVars

LEMMA TypesShared ==
  ASSUME Types, NEW p \in Procs, SharedStep(p)
  PROVE  Types'
<1> USE DEF Goto, Set, ProcPCs, ConnType, StreamType, KeptType, ProcType, connVars,
  streamVars, keptVars
<1>1. CASE Collect(p)
  BY <1>1 DEF Collect, Victims, Types
<1>2. CASE Delist(p)
  BY <1>2 DEF Delist, Types
<1>3. CASE TakeStream(p)
  BY <1>3, RegistryAssumption DEF TakeStream, Types
<1>4. CASE Stopped(p)
  BY <1>4 DEF Stopped, Types
<1>5. QED BY <1>1, <1>2, <1>3, <1>4 DEF SharedStep

LEMMA TypesReconnect ==
  ASSUME Types, NEW r \in Reconnects, ReconnectStep(r)
  PROVE  Types'
<1> USE Kinds3 DEF Goto, Set, ProcPCs, ConnType, StreamType, KeptType, ProcType,
  connVars, streamVars, keptVars, Types
<1>1. CASE LookUp(r)
  BY <1>1 DEF LookUp
<1>2. CASE Probe(r)
  BY <1>2 DEF Probe
<1>3. CASE Reopen(r)
  <2>1. ConnType'
    BY <1>3 DEF Reopen
  <2>2. ProcType'
    BY <1>3 DEF Reopen
  <2>3. QED BY <1>3, <2>1, <2>2 DEF Reopen
<1>4. CASE Replace(r)
  BY <1>4 DEF Replace, ToClose
<1>5. CASE ClosePrev(r)
  BY <1>5 DEF ClosePrev, CloseConn
<1>6. CASE CloseOrphan(r)
  BY <1>6 DEF CloseOrphan, CloseConn
<1>7. QED BY <1>1, <1>2, <1>3, <1>4, <1>5, <1>6 DEF ReconnectStep

LEMMA TypesDisconnect ==
  ASSUME Types, NEW d \in Disconnects, DisconnectStep(d)
  PROVE  Types'
<1> USE Kinds3 DEF Goto, Set, ProcPCs, ConnType, StreamType, KeptType, ProcType,
  connVars, streamVars, keptVars, Types
<1>1. CASE DropDiffs(d)
  BY <1>1 DEF DropDiffs, Drop
<1>2. CASE Remove(d)
  BY <1>2 DEF Remove
<1>3. CASE Release(d)
  BY <1>3 DEF Release, Drop
<1>4. CASE DropAdvice(d)
  BY <1>4 DEF DropAdvice, Drop
<1>5. CASE CloseRemoved(d)
  BY <1>5 DEF CloseRemoved, CloseConn
<1>6. QED BY <1>1, <1>2, <1>3, <1>4, <1>5 DEF DisconnectStep

LEMMA TypesStart ==
  ASSUME Types, NEW l \in Starts, StartStep(l) \/ TaskStep(l) \/ PanelStep(l)
  PROVE  Types'
<1> USE Kinds3 DEF Goto, Set, ProcPCs, TaskStates, ConnType, StreamType, KeptType,
  ProcType, connVars, streamVars, keptVars, procVars, Types
<1>1. CASE Spawn(l)
  BY <1>1 DEF Spawn, SpawnState
<1>2. CASE RegisterStream(l)
  BY <1>2, RegistryAssumption DEF RegisterStream
<1>3. CASE Enlist(l)
  BY <1>3 DEF Enlist
<1>4. CASE Verify(l)
  BY <1>4 DEF Verify
<1>5. CASE OpenGate(l)
  BY <1>5 DEF OpenGate
<1>6. CASE ListenerEnds(l)
  BY <1>6 DEF ListenerEnds
<1>7. CASE ForgetListener(l)
  BY <1>7 DEF ForgetListener
<1>8. CASE ForgetStream(l)
  BY <1>8 DEF ForgetStream
<1>9. CASE DropTask(l)
  BY <1>9 DEF DropTask
<1>10. CASE UserStops(l)
  BY <1>10 DEF UserStops, BeginCancel
<1>11. CASE Recheck(l)
  BY <1>11 DEF Recheck, BeginCancel
<1>12. QED
  BY <1>1, <1>2, <1>3, <1>4, <1>5, <1>6, <1>7, <1>8, <1>9, <1>10, <1>11
     DEF StartStep, TaskStep, PanelStep

LEMMA TypesStep == Types /\ [Next]_vars => Types'
<1> SUFFICES ASSUME Types, [Next]_vars PROVE Types'
  OBVIOUS
<1>1. CASE \E p \in Procs : SharedStep(p)
  BY <1>1, TypesShared
<1>2. CASE \E r \in Reconnects : ReconnectStep(r)
  BY <1>2, TypesReconnect
<1>3. CASE \E d \in Disconnects : DisconnectStep(d)
  BY <1>3, TypesDisconnect
<1>4. CASE \E l \in Starts : StartStep(l) \/ TaskStep(l) \/ PanelStep(l)
  BY <1>4, TypesStart
<1>5. CASE \E q \in Producers : Begin(q) \/ Store(q)
  BY <1>5, Frame DEF Begin, Store, Types, KeptType, Set, connVars
<1>6. CASE \E s \in Sessions : BeginTransaction(s) \/ FinishTransaction(s)
  BY <1>6, Frame DEF BeginTransaction, FinishTransaction, Types
<1>7. CASE \E c \in Conns : Die(c)
  <2>1. ConnType'
    BY <1>7 DEF Die, Types, ConnType
  <2>2. QED BY <1>7, <2>1, Frame DEF Die, Types
<1>8. CASE UNCHANGED vars
  BY <1>8, Frame DEF vars, connVars, Types
<1>9. QED BY <1>1, <1>2, <1>3, <1>4, <1>5, <1>6, <1>7, <1>8 DEF Next

-----------------------------------------------------------------------------
(* A disconnected session never comes back: only Replace installs a        *)
(* connection, and it looks at the table again under the same lock.        *)

THEOREM NeverResurrected == Spec => NoResurrection
<1> USE DEF Set
<1>1. Init => Types
  BY TypesInit
<1>2. ASSUME Types, Next
      PROVE  \A s \in Sessions : registered[s] = None => registered'[s] = None
  <2>1. ASSUME NEW p \in Procs, SharedStep(p) PROVE registered' = registered
    BY <2>1 DEF SharedStep, Collect, Delist, TakeStream, Stopped, connVars
  <2>2. ASSUME NEW r \in Reconnects, ReconnectStep(r)
        PROVE  \A s \in Sessions : registered[s] = None => registered'[s] = None
    <3>1. CASE Replace(r)
      <4>1. CASE StillThere(r)
        BY <1>2, <3>1, <4>1 DEF Replace, StillThere, Types, ConnType
      <4>2. CASE ~StillThere(r)
        BY <3>1, <4>2 DEF Replace
      <4>3. QED BY <4>1, <4>2
    <3>2. CASE ~Replace(r)
      BY <2>2, <3>2
         DEF ReconnectStep, LookUp, Probe, Reopen, ClosePrev, CloseOrphan, connVars
    <3>3. QED BY <3>1, <3>2
  <2>3. ASSUME NEW d \in Disconnects, DisconnectStep(d)
        PROVE  \A s \in Sessions : registered[s] = None => registered'[s] = None
    <3>1. CASE Remove(d)
      BY <1>2, <3>1 DEF Remove, Types, ConnType
    <3>2. CASE ~Remove(d)
      BY <2>3, <3>2
         DEF DisconnectStep, DropDiffs, Release, DropAdvice, CloseRemoved, connVars
    <3>3. QED BY <3>1, <3>2
  <2>4. ASSUME NEW l \in Starts, StartStep(l) \/ TaskStep(l) \/ PanelStep(l)
        PROVE  registered' = registered
    BY <2>4 DEF StartStep, TaskStep, PanelStep, Spawn, RegisterStream, Enlist, Verify,
       OpenGate, ListenerEnds, ForgetListener, ForgetStream, DropTask, UserStops,
       Recheck, connVars
  <2>5. ASSUME NEW q \in Producers, Begin(q) \/ Store(q) PROVE registered' = registered
    BY <2>5 DEF Begin, Store, connVars
  <2>6. ASSUME NEW s \in Sessions, BeginTransaction(s) \/ FinishTransaction(s)
        PROVE  registered' = registered
    BY <2>6 DEF BeginTransaction, FinishTransaction, connVars
  <2>7. ASSUME NEW c \in Conns, Die(c) PROVE registered' = registered
    BY <2>7 DEF Die
  <2>8. QED BY <1>2, <2>1, <2>2, <2>3, <2>4, <2>5, <2>6, <2>7 DEF Next
<1>3. QED BY <1>1, <1>2, TypesStep, PTL DEF Spec, NoResurrection

-----------------------------------------------------------------------------
(* Who owns a connection.  The invariant follows each connection from the  *)
(* reconnect that opens it through the session table to the command that   *)
(* replaces or removes it and then closes it: nobody else holds it.        *)

Closers == Reconnects \cup Disconnects

\* A registered connection is open, nobody still holds it as new and nobody
\* is about to close it.
TableInv ==
  \A s \in Sessions : registered[s] # None =>
    /\ registered[s] \in open \ fresh
    /\ \A p \in Closers : ~WillClose(p, registered[s])
    /\ \A t \in Sessions : registered[t] = registered[s] => t = s

\* A new connection is known to its reconnect only.
FreshInv ==
  \A r \in fresh : /\ pc[r] \in {"swap", "orphan"} /\ r \in open
                   /\ \A p \in Procs : conn[p] # r

\* Before that it has never been seen, and after that it is in the table.
EarlyInv ==
  \A r \in Reconnects :
    /\ pc[r] \in {"idle", "probe", "reopen"} =>
         r \notin open /\ \A p \in Procs : conn[p] # r
    /\ pc[r] \in {"swap", "orphan"} => r \in fresh

OwnerInv ==
  \A c \in open : \/ \E s \in Sessions : registered[s] = c
                 \/ c \in fresh
                 \/ \E p \in Closers : WillClose(p, c)

ConnInv == Types /\ TableInv /\ FreshInv /\ EarlyInv /\ OwnerInv /\ tx \subseteq open

LEMMA ConnInit == Init => ConnInv
<1> SUFFICES ASSUME Init PROVE ConnInv
  OBVIOUS
<1>1. Types /\ tx \subseteq open
  BY TypesInit DEF Init
<1>2. \A p \in Procs : conn[p] = None /\ pc[p] = "idle"
  BY DEF Init
<1>3. TableInv /\ OwnerInv
  BY <1>2, Kinds3, RegistryAssumption
     DEF Init, TableInv, OwnerInv, WillClose, ClosingPCs, Closers, Conns
<1>4. FreshInv /\ EarlyInv
  BY <1>2, Kinds3, RegistryAssumption DEF Init, FreshInv, EarlyInv, Conns
<1>5. QED BY <1>1, <1>3, <1>4 DEF ConnInv

(* Steps that touch neither the tables of connections nor the stage at     *)
(* which a reconnect or disconnect holds one.                              *)
ConnFrame == <<registered, open, conn, fresh>>

Quiet ==
  /\ ConnFrame' = ConnFrame
  /\ \A p \in Closers :
       \/ pc'[p] = pc[p]
       \/ pc[p] \in ClosingPCs /\ pc'[p] \in ClosingPCs
       \/ /\ pc[p] \in {"idle", "probe", "reopen"}
          /\ pc'[p] \in {"probe", "reopen", "done", "remove"}

LEMMA ConnStutter ==
  ASSUME ConnInv, Quiet
  PROVE  TableInv' /\ FreshInv' /\ EarlyInv' /\ OwnerInv'
<1>0. /\ UNCHANGED <<registered, open, conn, fresh>>
      /\ TableInv /\ FreshInv /\ EarlyInv /\ OwnerInv
  BY DEF Quiet, ConnFrame, ConnInv
<1>1. \A p \in Closers : pc'[p] \in ClosingPCs <=> pc[p] \in ClosingPCs
  BY DEF ClosingPCs, Quiet
<1>2. \A p \in Closers : \A c : WillClose(p, c)' <=> WillClose(p, c)
  BY <1>0, <1>1 DEF WillClose
<1>3. TableInv'
  BY <1>0, <1>2 DEF TableInv
<1>4. FreshInv'
  BY <1>0 DEF FreshInv, Quiet, Closers, ClosingPCs, ConnInv, Types, ProcType
<1>5. EarlyInv'
  BY <1>0 DEF EarlyInv, Quiet, Closers, ClosingPCs
<1>6. OwnerInv'
  BY <1>0, <1>2 DEF OwnerInv
<1>7. QED BY <1>3, <1>4, <1>5, <1>6

LEMMA CloserKinds ==
  /\ \A p \in Closers : p \in Procs /\ p \notin Starts /\ p \notin Cancels
  /\ \A r \in Reconnects : r \notin Disconnects
BY RegistryAssumption DEF Closers, Procs, Commands

LEMMA OwnerShared ==
  ASSUME ConnInv, NEW p \in Procs, SharedStep(p)
  PROVE  TableInv' /\ FreshInv' /\ EarlyInv' /\ OwnerInv'
<1>1. ConnFrame' = ConnFrame
  BY DEF SharedStep, Collect, Delist, TakeStream, Stopped, ConnFrame, connVars
<1>2. \A q \in Closers : \/ pc'[q] = pc[q]
                         \/ pc[q] \in ClosingPCs /\ pc'[q] \in ClosingPCs
  BY CloserKinds DEF SharedStep, Collect, Delist, TakeStream, Stopped, Goto,
     ClosingPCs, ConnInv, Types, ProcType, Closers
<1>3. Quiet
  BY <1>1, <1>2 DEF Quiet
<1>4. QED BY <1>3, ConnStutter

(* The step that closes a connection: its closer holds it alone.           *)
LEMMA OwnerClose ==
  ASSUME ConnInv, NEW p \in Closers, WillClose(p, conn[p]), CloseConn(conn[p]),
         UNCHANGED <<registered, conn, fresh>>, pc' = [pc EXCEPT ![p] = "done"]
  PROVE  TableInv' /\ FreshInv' /\ EarlyInv' /\ OwnerInv'
<1> USE CloserKinds DEF CloseConn, ClosingPCs
<1>1. /\ \A q \in Closers : \A c : WillClose(q, c)' => WillClose(q, c)
      /\ \A q \in Closers : \A c : WillClose(q, c) /\ q # p => WillClose(q, c)'
  BY DEF WillClose, ConnInv, Types, ProcType
<1>2. TableInv'
  BY <1>1 DEF ConnInv, TableInv
<1>3. conn[p] \notin fresh
  BY DEF ConnInv, FreshInv
<1>4. FreshInv'
  BY <1>3 DEF ConnInv, FreshInv, WillClose, Types, ProcType
<1>5. EarlyInv'
  BY DEF ConnInv, EarlyInv, WillClose, Types, ProcType
<1>6. OwnerInv'
  BY <1>1 DEF ConnInv, OwnerInv, WillClose
<1>7. QED BY <1>2, <1>4, <1>5, <1>6

LEMMA OwnerReconnect ==
  ASSUME ConnInv, NEW r \in Reconnects, ReconnectStep(r)
  PROVE  TableInv' /\ FreshInv' /\ EarlyInv' /\ OwnerInv'
<1> USE Kinds3 DEF Goto, Set, ClosingPCs
<1>0. Types /\ TableInv /\ FreshInv /\ EarlyInv /\ OwnerInv
  BY DEF ConnInv
<1>1. CASE LookUp(r)
  <2>1. /\ UNCHANGED <<registered, open, fresh>>
        /\ pc[r] = "idle" /\ pc' = [pc EXCEPT ![r] = pc'[r]]
        /\ pc'[r] \in {"done", "probe"}
        /\ conn' = [conn EXCEPT ![r] = registered[sess[r]]]
        /\ registered[sess[r]] \in Conns \cup {None}
    BY <1>0, <1>1 DEF LookUp, connVars, Types, ProcType, ConnType
  <2>2. \A p \in Closers : \A c : WillClose(p, c)' <=> WillClose(p, c)
    BY <1>0, <2>1, CloserKinds DEF WillClose, Types, ProcType
  <2>3. \A q \in Reconnects : q \notin open \/ q \in fresh => registered[sess[r]] # q
    BY <1>0, RegistryAssumption DEF TableInv, Types, ProcType
  <2>4. TableInv' /\ OwnerInv'
    BY <1>0, <2>1, <2>2 DEF TableInv, OwnerInv
  <2>5. FreshInv'
    BY <1>0, <2>1, <2>3 DEF FreshInv, Types, ProcType
  <2>6. EarlyInv'
    BY <1>0, <2>1, <2>3 DEF EarlyInv, Types, ProcType
  <2>7. QED BY <2>4, <2>5, <2>6
<1>2. CASE Probe(r)
  <2>1. Quiet
    BY <1>0, <1>2, CloserKinds DEF Probe, Quiet, ConnFrame, Types, ProcType
  <2>2. QED BY <2>1, ConnStutter
<1>3. CASE Reopen(r)
  <2>1. CASE pc'[r] = "done"
    <3>1. Quiet
      BY <1>0, <1>3, <2>1, CloserKinds DEF Reopen, Quiet, ConnFrame, Types, ProcType
    <3>2. QED BY <3>1, ConnStutter
  <2>2. CASE pc'[r] # "done"
    <3>1. /\ UNCHANGED <<registered, conn>>
          /\ pc[r] = "reopen" /\ pc' = [pc EXCEPT ![r] = "swap"]
          /\ open' = open \cup {r} /\ fresh' = fresh \cup {r}
      BY <1>0, <1>3, <2>2 DEF Reopen, Types, ProcType
    <3>2. r \notin open /\ \A p \in Procs : conn[p] # r
      BY <1>0, <3>1 DEF EarlyInv
    <3>3. \A p \in Closers : \A c : WillClose(p, c)' <=> WillClose(p, c)
      BY <1>0, <3>1, CloserKinds DEF WillClose, Types, ProcType
    <3>4. TableInv'
      BY <1>0, <3>1, <3>2, <3>3 DEF TableInv
    <3>5. FreshInv'
      BY <1>0, <3>1, <3>2 DEF FreshInv, Types, ProcType
    <3>6. EarlyInv'
      BY <1>0, <3>1, <3>2 DEF EarlyInv, Types, ProcType
    <3>7. OwnerInv'
      BY <1>0, <3>1, <3>3 DEF OwnerInv
    <3>8. QED BY <3>4, <3>5, <3>6, <3>7
  <2>3. QED BY <2>1, <2>2
<1>4. CASE Replace(r)
  <2>1. r \in fresh /\ r \in open
    BY <1>0, <1>4 DEF Replace, EarlyInv, FreshInv
  <2>2. CASE StillThere(r)
    <3>1. /\ registered' = [registered EXCEPT ![sess[r]] = r]
          /\ conn' = [conn EXCEPT ![r] = registered[sess[r]]]
          /\ fresh' = fresh \ {r} /\ pc[r] = "swap"
          /\ pc' = [pc EXCEPT ![r] = "collect"] /\ open' = open
      BY <1>4, <2>2 DEF Replace, ToClose
    <3>2. /\ sess[r] \in Sessions /\ registered[sess[r]] # None
          /\ registered[sess[r]] \in open \ fresh
      BY <1>0, <2>2 DEF StillThere, TableInv, Types, ProcType
    <3>3. \A p \in Closers : \A c :
            WillClose(p, c)' <=> WillClose(p, c) \/ (p = r /\ c = registered[sess[r]])
      BY <1>0, <3>1, CloserKinds DEF WillClose, Types, ProcType, Closers
    <3>4. \A p \in Closers : ~WillClose(p, r)
      BY <1>0, <2>1, CloserKinds DEF FreshInv, WillClose
    <3>5. \A s \in Sessions : registered[s] # r
      BY <1>0, <2>1, RegistryAssumption DEF TableInv
    <3>6. TableInv'
      <4> SUFFICES ASSUME NEW s \in Sessions, registered'[s] # None
                   PROVE  /\ registered'[s] \in open' \ fresh'
                          /\ \A p \in Closers : ~WillClose(p, registered[s])'
                          /\ \A t \in Sessions : registered'[t] = registered'[s] => t = s
        BY DEF TableInv
      <4>1. CASE s = sess[r]
        <5>1. registered'[s] = r
          BY <1>0, <3>1, <3>2, <4>1 DEF Types, ConnType
        <5>2. QED BY <1>0, <2>1, <3>1, <3>2, <3>3, <3>4, <3>5, <4>1, <5>1
                     DEF Types, ConnType
      <4>2. CASE s # sess[r]
        <5>1. registered'[s] = registered[s]
          BY <1>0, <3>1, <3>2, <4>2 DEF Types, ConnType
        <5>2. registered[s] # registered[sess[r]]
          BY <1>0, <3>2, <4>2, <5>1 DEF TableInv
        <5>3. QED BY <1>0, <2>1, <3>1, <3>2, <3>3, <3>5, <4>2, <5>1, <5>2
                     DEF TableInv, Types, ConnType
      <4>3. QED BY <4>1, <4>2
    <3>7. FreshInv'
      <4>1. ASSUME NEW q \in fresh' PROVE q \in fresh /\ q # r /\ q \in Procs
        BY <1>0, <3>1 DEF Types, ProcType
      <4>2. QED BY <1>0, <3>1, <3>2, <4>1 DEF FreshInv, Types, ProcType
    <3>8. EarlyInv'
      BY <1>0, <2>1, <3>1, <3>2 DEF EarlyInv, Types, ProcType
    <3>9. OwnerInv'
      <4> SUFFICES ASSUME NEW c \in open'
                   PROVE  \/ \E s \in Sessions : registered'[s] = c
                          \/ c \in fresh'
                          \/ \E p \in Closers : WillClose(p, c)'
        BY DEF OwnerInv
      <4>1. CASE c = r
        BY <1>0, <3>1, <3>2, <4>1 DEF Types, ConnType
      <4>2. CASE c = registered[sess[r]]
        BY <3>3, <4>2 DEF Closers
      <4>3. CASE c # r /\ c # registered[sess[r]]
        BY <1>0, <3>1, <3>2, <3>3, <4>3 DEF OwnerInv, Types, ConnType
      <4>4. QED BY <4>1, <4>2, <4>3
    <3>10. QED BY <3>6, <3>7, <3>8, <3>9
  <2>3. CASE ~StillThere(r)
    <3>1. /\ UNCHANGED <<registered, open, conn, fresh>> /\ pc[r] = "swap"
          /\ pc' = [pc EXCEPT ![r] = "orphan"]
      BY <1>4, <2>3 DEF Replace
    <3>2. \A p \in Closers : \A c : WillClose(p, c)' <=> WillClose(p, c)
      BY <1>0, <3>1, CloserKinds DEF WillClose, Types, ProcType
    <3>3. TableInv' /\ OwnerInv'
      BY <1>0, <3>1, <3>2 DEF TableInv, OwnerInv
    <3>4. FreshInv' /\ EarlyInv'
      BY <1>0, <3>1 DEF FreshInv, EarlyInv, Types, ProcType
    <3>5. QED BY <3>3, <3>4
  <2>4. QED BY <2>2, <2>3
<1>5. CASE ClosePrev(r)
  BY <1>5, OwnerClose DEF ClosePrev, WillClose, Closers
<1>6. CASE CloseOrphan(r)
  <2>1. /\ r \in fresh /\ fresh' = fresh \ {r} /\ open' = open \ {r}
        /\ pc' = [pc EXCEPT ![r] = "done"] /\ pc[r] = "orphan"
        /\ UNCHANGED <<registered, conn>>
    BY <1>0, <1>6 DEF CloseOrphan, CloseConn, EarlyInv
  <2>2. \A p \in Closers : \A c : WillClose(p, c)' <=> WillClose(p, c)
    BY <1>0, <2>1, CloserKinds DEF WillClose, Types, ProcType
  <2>3. TableInv'
    BY <1>0, <2>1, <2>2 DEF TableInv
  <2>4. FreshInv'
    BY <1>0, <2>1 DEF FreshInv, Types, ProcType
  <2>5. EarlyInv'
    BY <1>0, <2>1 DEF EarlyInv, Types, ProcType
  <2>6. OwnerInv'
    BY <1>0, <2>1, <2>2 DEF OwnerInv
  <2>7. QED BY <2>3, <2>4, <2>5, <2>6
<1>7. QED BY <1>1, <1>2, <1>3, <1>4, <1>5, <1>6 DEF ReconnectStep

LEMMA OwnerDisconnect ==
  ASSUME ConnInv, NEW d \in Disconnects, DisconnectStep(d)
  PROVE  TableInv' /\ FreshInv' /\ EarlyInv' /\ OwnerInv'
<1> USE Kinds3 DEF Goto, Set, ClosingPCs
<1>0. Types /\ TableInv /\ FreshInv /\ EarlyInv /\ OwnerInv
  BY DEF ConnInv
<1>1. CASE DropDiffs(d) \/ Release(d) \/ DropAdvice(d)
  <2>1. Quiet
    BY <1>0, <1>1, CloserKinds
       DEF DropDiffs, Release, DropAdvice, connVars, Quiet, ConnFrame, Types, ProcType
  <2>2. QED BY <2>1, ConnStutter
<1>2. CASE Remove(d)
  <2>1. /\ conn' = [conn EXCEPT ![d] = registered[sess[d]]]
        /\ registered' = [registered EXCEPT ![sess[d]] = None]
        /\ pc[d] = "remove" /\ pc' = [pc EXCEPT ![d] = pc'[d]]
        /\ pc'[d] = IF registered[sess[d]] = None THEN "done" ELSE "release"
        /\ UNCHANGED <<open, fresh>>
        /\ sess[d] \in Sessions
    BY <1>0, <1>2 DEF Remove, Types, ProcType
  <2>2. \A p \in Closers : \A c : p # d => (WillClose(p, c)' <=> WillClose(p, c))
    BY <1>0, <2>1, CloserKinds DEF WillClose, Types, ProcType
  <2>3. \A c : WillClose(d, c)' <=>
                 registered[sess[d]] # None /\ c = registered[sess[d]]
    BY <1>0, <2>1 DEF WillClose, Types, ProcType
  <2>4. \A q \in Reconnects : q \notin open \/ q \in fresh => registered[sess[d]] # q
    BY <1>0, <2>1, RegistryAssumption DEF TableInv, Conns
  <2>5. TableInv'
    <3> SUFFICES ASSUME NEW s \in Sessions, registered'[s] # None
                 PROVE  /\ registered'[s] \in open' \ fresh'
                        /\ \A p \in Closers : ~WillClose(p, registered[s])'
                        /\ \A t \in Sessions : registered'[t] = registered'[s] => t = s
      BY DEF TableInv
    <3>1. s # sess[d] /\ registered'[s] = registered[s]
      BY <1>0, <2>1 DEF Types, ConnType
    <3>2. registered[s] # registered[sess[d]]
      BY <1>0, <2>1, <3>1 DEF TableInv
    <3>3. \A p \in Closers : ~WillClose(p, registered[s])'
      BY <1>0, <2>1, <2>2, <2>3, <3>1, <3>2 DEF TableInv
    <3>4. \A t \in Sessions : registered'[t] = registered'[s] => t = s
      BY <1>0, <2>1, <3>1 DEF TableInv, Types, ConnType
    <3>5. QED BY <1>0, <2>1, <3>1, <3>3, <3>4 DEF TableInv
  <2>6. FreshInv'
    BY <1>0, <2>1, <2>4, CloserKinds DEF FreshInv, Types, ProcType
  <2>7. EarlyInv'
    BY <1>0, <2>1, <2>4, CloserKinds DEF EarlyInv, Types, ProcType
  <2>8. OwnerInv'
    <3> SUFFICES ASSUME NEW c \in open'
                 PROVE  \/ \E s \in Sessions : registered'[s] = c
                        \/ c \in fresh'
                        \/ \E p \in Closers : WillClose(p, c)'
      BY DEF OwnerInv
    <3>1. CASE c = registered[sess[d]]
      <4>1. c # None
        BY <2>1, <1>0, RegistryAssumption DEF Types, ConnType
      <4>2. QED BY <2>3, <3>1, <4>1 DEF Closers
    <3>2. CASE c # registered[sess[d]]
      <4>1. CASE \E s \in Sessions : registered[s] = c
        BY <1>0, <2>1, <3>2, <4>1 DEF Types, ConnType
      <4>2. CASE c \in fresh
        BY <2>1, <4>2
      <4>3. ASSUME NEW p \in Closers, WillClose(p, c) PROVE p # d
        BY <2>1, <4>3 DEF WillClose
      <4>4. QED BY <1>0, <2>1, <2>2, <4>1, <4>2, <4>3 DEF OwnerInv
    <3>3. QED BY <3>1, <3>2
  <2>9. QED BY <2>5, <2>6, <2>7, <2>8
<1>3. CASE CloseRemoved(d)
  BY <1>3, OwnerClose DEF CloseRemoved, WillClose, Closers
<1>4. QED BY <1>1, <1>2, <1>3 DEF DisconnectStep

LEMMA OwnerOther ==
  ASSUME ConnInv,
         \/ \E l \in Starts : StartStep(l) \/ TaskStep(l) \/ PanelStep(l)
         \/ \E q \in Producers : Begin(q) \/ Store(q)
         \/ \E s \in Sessions : BeginTransaction(s) \/ FinishTransaction(s)
         \/ \E c \in Conns : Die(c)
         \/ UNCHANGED vars
  PROVE  TableInv' /\ FreshInv' /\ EarlyInv' /\ OwnerInv'
<1> USE DEF Goto, Set, Quiet, ConnFrame, connVars, procVars
<1>1. Types
  BY DEF ConnInv
<1>2. ASSUME NEW l \in Starts, StartStep(l) PROVE Quiet
  BY <1>1, <1>2, Kinds3, CloserKinds
     DEF StartStep, Spawn, RegisterStream, Enlist, Verify, OpenGate, Types, ProcType
<1>3. ASSUME NEW l \in Starts, TaskStep(l) PROVE Quiet
  BY <1>3 DEF TaskStep, ListenerEnds, ForgetListener, ForgetStream, DropTask
<1>4. ASSUME NEW l \in Starts, PanelStep(l) PROVE Quiet
  <2>1. StopOf(l) \in Cancels /\ RecheckOf(l) \in Cancels
    BY DEF Cancels
  <2>2. QED BY <1>1, <1>4, <2>1, Kinds3, CloserKinds
               DEF PanelStep, UserStops, Recheck, BeginCancel, Types, ProcType
<1>5. ASSUME NEW q \in Producers, Begin(q) \/ Store(q) PROVE Quiet
  BY <1>5 DEF Begin, Store
<1>6. ASSUME NEW s \in Sessions, BeginTransaction(s) \/ FinishTransaction(s) PROVE Quiet
  BY <1>6 DEF BeginTransaction, FinishTransaction
<1>7. ASSUME NEW c \in Conns, Die(c) PROVE Quiet
  BY <1>7 DEF Die
<1>8. ASSUME UNCHANGED vars PROVE Quiet
  BY <1>8 DEF vars
<1>9. QED BY <1>2, <1>3, <1>4, <1>5, <1>6, <1>7, <1>8, ConnStutter

(* A transaction dies with its connection, so it needs an open one.        *)
LEMMA TxOpen == ConnInv /\ [Next]_vars => (tx \subseteq open)'
<1> SUFFICES ASSUME ConnInv, [Next]_vars PROVE (tx \subseteq open)'
  OBVIOUS
<1>1. tx \subseteq open
  BY DEF ConnInv
<1>2. ASSUME NEW p \in Procs, SharedStep(p) PROVE UNCHANGED <<tx, open>>
  BY <1>2 DEF SharedStep, Collect, Delist, TakeStream, Stopped, connVars
<1>3. ASSUME NEW r \in Reconnects, ReconnectStep(r) PROVE (tx \subseteq open)'
  BY <1>1, <1>3 DEF ReconnectStep, LookUp, Probe, Reopen, Replace, ClosePrev,
     CloseOrphan, CloseConn, connVars
<1>4. ASSUME NEW d \in Disconnects, DisconnectStep(d) PROVE (tx \subseteq open)'
  BY <1>1, <1>4 DEF DisconnectStep, DropDiffs, Remove, Release, DropAdvice,
     CloseRemoved, CloseConn, connVars
<1>5. ASSUME NEW l \in Starts, StartStep(l) \/ TaskStep(l) \/ PanelStep(l)
      PROVE  UNCHANGED <<tx, open>>
  BY <1>5 DEF StartStep, TaskStep, PanelStep, Spawn, RegisterStream, Enlist, Verify,
     OpenGate, ListenerEnds, ForgetListener, ForgetStream, DropTask, UserStops,
     Recheck, connVars
<1>6. ASSUME NEW q \in Producers, Begin(q) \/ Store(q) PROVE UNCHANGED <<tx, open>>
  BY <1>6 DEF Begin, Store, connVars
<1>7. ASSUME NEW s \in Sessions, BeginTransaction(s) \/ FinishTransaction(s)
      PROVE  (tx \subseteq open)'
  <2>1. CASE BeginTransaction(s)
    BY <1>1, <2>1 DEF BeginTransaction, ConnInv, TableInv
  <2>2. CASE FinishTransaction(s)
    BY <1>1, <2>2 DEF FinishTransaction
  <2>3. QED BY <1>7, <2>1, <2>2
<1>8. ASSUME NEW c \in Conns, Die(c) PROVE UNCHANGED <<tx, open>>
  BY <1>8 DEF Die
<1>9. ASSUME UNCHANGED vars PROVE UNCHANGED <<tx, open>>
  BY <1>9 DEF vars, connVars
<1>10. QED BY <1>1, <1>2, <1>3, <1>4, <1>5, <1>6, <1>7, <1>8, <1>9 DEF Next

LEMMA ConnInvStep == ConnInv /\ [Next]_vars => ConnInv'
<1> SUFFICES ASSUME ConnInv, [Next]_vars PROVE ConnInv'
  OBVIOUS
<1>1. Types' /\ (tx \subseteq open)'
  BY TypesStep, TxOpen DEF ConnInv
<1>2. TableInv' /\ FreshInv' /\ EarlyInv' /\ OwnerInv'
  BY OwnerShared, OwnerReconnect, OwnerDisconnect, OwnerOther DEF Next
<1>3. QED BY <1>1, <1>2 DEF ConnInv

\* Every table maps ids to what the code stores in it, and a transaction is
\* open only on an open connection.
THEOREM TypeCorrect == Spec => []TypeOK
<1>1. ConnInv => TypeOK
  BY DEF ConnInv, Types, TypeOK
<1>2. QED BY <1>1, ConnInit, ConnInvStep, PTL DEF Spec

\* Concurrent reconnects and disconnects leak no connection and close none
\* that a session still uses (AppState::replace, AppState::remove).
THEOREM ConnectionsAlwaysOwned == Spec => []ConnectionsOwned
<1>1. ConnInv => ConnectionsOwned
  BY DEF ConnInv, TableInv, OwnerInv, Closers, ConnectionsOwned
<1>2. QED BY <1>1, ConnInit, ConnInvStep, PTL DEF Spec

-----------------------------------------------------------------------------
(* The table of streams.  An entry stands for one task, and a task that is *)
(* registered keeps its entry until it is aborted or has ended.            *)

Alive(l) == l \notin aborted /\ task[l] \in {"gated", "running", "delist", "forget"}

EntryKept ==
  \A l \in Starts : Alive(l) /\ pc[l] # "register" => streams[StreamOf[l]] = l

EntryTrue ==
  \A x \in Streams : streams[x] # None =>
    /\ x = StreamOf[streams[x]] /\ Alive(streams[x])
    /\ pc[streams[x]] \notin {"idle", "register"}

Unregistered ==
  \A l \in Starts : /\ pc[l] = "idle" => task[l] = "none" /\ l \notin aborted
                    /\ pc[l] = "register" => task[l] = "gated" /\ l \notin aborted

StreamInv == Types /\ EntryKept /\ EntryTrue /\ Unregistered

LEMMA StreamInit == Init => StreamInv
BY TypesInit, Kinds3, RegistryAssumption
   DEF Init, StreamInv, EntryKept, EntryTrue, Unregistered, Alive

\* Steps that leave the tables alone and neither begin nor register a start.
LEMMA StreamStutter ==
  ASSUME StreamInv, UNCHANGED <<streams, task, aborted>>,
         \A l \in Starts : \/ pc'[l] = pc[l]
                           \/ {pc[l], pc'[l]} \cap {"idle", "register"} = {}
  PROVE  EntryKept' /\ EntryTrue' /\ Unregistered'
<1> USE DEF StreamInv, Alive
<1>1. \A l \in Starts : Alive(l)' <=> Alive(l)
  OBVIOUS
<1>2. EntryKept'
  BY <1>1 DEF EntryKept
<1>3. EntryTrue'
  BY <1>1 DEF EntryTrue, Types, StreamType
<1>4. Unregistered'
  BY DEF Unregistered
<1>5. QED BY <1>2, <1>3, <1>4

LEMMA StreamShared ==
  ASSUME StreamInv, NEW p \in Procs, SharedStep(p)
  PROVE  EntryKept' /\ EntryTrue' /\ Unregistered'
<1> USE DEF Goto, Set
<1>0. Types /\ EntryKept /\ EntryTrue /\ Unregistered
  BY DEF StreamInv
<1>1. \A l \in Starts : \/ pc'[l] = pc[l]
                        \/ {pc[l], pc'[l]} \cap {"idle", "register"} = {}
  BY <1>0, Kinds3 DEF SharedStep, Collect, Delist, TakeStream, Stopped, Types, ProcType
<1>2. CASE Collect(p) \/ Delist(p) \/ Stopped(p)
  <2>1. UNCHANGED <<streams, task, aborted>>
    BY <1>2 DEF Collect, Delist, Stopped, streamVars
  <2>2. QED BY <1>1, <2>1, StreamStutter
<1>3. CASE TakeStream(p)
  <2> DEFINE x == target[p]
  <2>1. /\ x \in Streams /\ UNCHANGED task
        /\ streams' = [streams EXCEPT ![x] = None]
        /\ aborted' = IF streams[x] = None THEN aborted ELSE aborted \cup {streams[x]}
    BY <1>0, <1>3 DEF TakeStream, Types, ProcType
  <2>2. EntryKept'
    BY <1>0, <1>1, <2>1, Kinds3, RegistryAssumption
       DEF EntryKept, Alive, Types, StreamType
  <2>3. EntryTrue'
    <3> SUFFICES ASSUME NEW y \in Streams, streams'[y] # None
                 PROVE  /\ y = StreamOf[streams'[y]] /\ Alive(streams[y])'
                        /\ pc'[streams'[y]] \notin {"idle", "register"}
      BY DEF EntryTrue
    <3>1. y # x /\ streams'[y] = streams[y] /\ streams[y] \in Starts
      BY <1>0, <2>1 DEF Types, StreamType
    <3>2. streams[x] # streams[y]
      BY <1>0, <2>1, <3>1 DEF EntryTrue
    <3>3. /\ y = StreamOf[streams[y]] /\ Alive(streams[y])
          /\ pc[streams[y]] \notin {"idle", "register"}
      BY <1>0, <3>1 DEF EntryTrue
    <3>4. Alive(streams[y])'
      BY <2>1, <3>1, <3>2, <3>3 DEF Alive
    <3>5. pc'[streams[y]] \notin {"idle", "register"}
      BY <1>1, <3>1, <3>3
    <3>6. QED BY <3>1, <3>3, <3>4, <3>5
  <2>4. Unregistered'
    BY <1>0, <1>1, <2>1 DEF Unregistered, EntryTrue
  <2>5. QED BY <2>2, <2>3, <2>4
<1>4. QED BY <1>2, <1>3 DEF SharedStep

LEMMA StreamStart ==
  ASSUME StreamInv, NEW l \in Starts, StartStep(l)
  PROVE  EntryKept' /\ EntryTrue' /\ Unregistered'
<1> USE Kinds3 DEF Goto, Set
<1>0. Types /\ EntryKept /\ EntryTrue /\ Unregistered
  BY DEF StreamInv
<1>1. CASE Spawn(l)
  <2>1. UNCHANGED <<streams, aborted>> /\ pc[l] = "idle"
    BY <1>1 DEF Spawn
  <2>2. \/ pc' = [pc EXCEPT ![l] = "done"] /\ task' = task
        \/ pc' = [pc EXCEPT ![l] = "register"] /\ task' = [task EXCEPT ![l] = "gated"]
    BY <1>1 DEF Spawn, SpawnState
  <2>3. task[l] = "none" /\ l \notin aborted /\ \A x \in Streams : streams[x] # l
    BY <1>0, <2>1, RegistryAssumption DEF Unregistered, EntryTrue
  <2>4. EntryKept'
    BY <1>0, <2>1, <2>2, <2>3 DEF EntryKept, Alive, Types, StreamType, ProcType
  <2>5. EntryTrue'
    BY <1>0, <2>1, <2>2, <2>3 DEF EntryTrue, Alive, Types, StreamType, ProcType
  <2>6. Unregistered'
    BY <1>0, <2>1, <2>2, <2>3 DEF Unregistered, Types, StreamType, ProcType
  <2>7. QED BY <2>4, <2>5, <2>6
<1>2. CASE RegisterStream(l)
  <2> DEFINE x == StreamOf[l]
  <2>1. /\ streams' = [streams EXCEPT ![x] = l] /\ UNCHANGED task
        /\ aborted' = IF streams[x] = None THEN aborted ELSE aborted \cup {streams[x]}
        /\ pc[l] = "register" /\ pc' = [pc EXCEPT ![l] = "enlist"]
    BY <1>2 DEF RegisterStream
  <2>2. task[l] = "gated" /\ l \notin aborted /\ \A y \in Streams : streams[y] # l
    BY <1>0, <2>1, RegistryAssumption DEF Unregistered, EntryTrue
  <2>3. EntryKept'
    BY <1>0, <2>1, <2>2, RegistryAssumption
       DEF EntryKept, Alive, Types, StreamType, ProcType
  <2>4. EntryTrue'
    BY <1>0, <2>1, <2>2 DEF EntryTrue, Alive, Types, StreamType, ProcType
  <2>5. Unregistered'
    BY <1>0, <2>1, <2>2 DEF Unregistered, EntryTrue, Types, ProcType
  <2>6. QED BY <2>3, <2>4, <2>5
<1>3. CASE Enlist(l) \/ Verify(l)
  <2>1. UNCHANGED <<streams, task, aborted>>
    BY <1>3 DEF Enlist, Verify, streamVars
  <2>2. \A k \in Starts : \/ pc'[k] = pc[k]
                          \/ {pc[k], pc'[k]} \cap {"idle", "register"} = {}
    BY <1>0, <1>3 DEF Enlist, Verify, Types, ProcType
  <2>3. QED BY <2>1, <2>2, StreamStutter
<1>4. CASE OpenGate(l)
  <2>1. /\ UNCHANGED <<streams, aborted>>
        /\ task' = IF task[l] = "gated" /\ l \notin aborted
                     THEN [task EXCEPT ![l] = "running"] ELSE task
        /\ pc[l] = "ready" /\ pc' = [pc EXCEPT ![l] = "done"]
    BY <1>4 DEF OpenGate
  <2>2. \A k \in Starts : Alive(k)' <=> Alive(k)
    BY <1>0, <2>1 DEF Alive, Types, StreamType
  <2>3. EntryKept'
    BY <1>0, <2>1, <2>2 DEF EntryKept, Types, ProcType
  <2>4. EntryTrue'
    BY <1>0, <2>1, <2>2 DEF EntryTrue, Types, ProcType, StreamType
  <2>5. Unregistered'
    BY <1>0, <2>1 DEF Unregistered, Types, ProcType, StreamType
  <2>6. QED BY <2>3, <2>4, <2>5
<1>5. QED BY <1>1, <1>2, <1>3, <1>4 DEF StartStep

LEMMA StreamTask ==
  ASSUME StreamInv, NEW l \in Starts, TaskStep(l)
  PROVE  EntryKept' /\ EntryTrue' /\ Unregistered'
<1> USE Kinds3 DEF Set, procVars
<1>0. Types /\ EntryKept /\ EntryTrue /\ Unregistered
  BY DEF StreamInv
<1>1. CASE ListenerEnds(l) \/ ForgetListener(l)
  <2>1. /\ UNCHANGED <<streams, aborted, pc>> /\ task[l] \in {"running", "delist"}
        /\ task' = [task EXCEPT ![l] = task'[l]] /\ task'[l] \in {"delist", "forget"}
    BY <1>0, <1>1 DEF ListenerEnds, ForgetListener, Types, StreamType
  <2>2. \A k \in Starts : Alive(k)' <=> Alive(k)
    BY <1>0, <2>1 DEF Alive, Types, StreamType
  <2>3. EntryKept'
    BY <1>0, <2>1, <2>2 DEF EntryKept
  <2>4. EntryTrue'
    BY <1>0, <2>1, <2>2 DEF EntryTrue, Types, StreamType
  <2>5. Unregistered'
    BY <1>0, <2>1 DEF Unregistered, Types, StreamType
  <2>6. QED BY <2>3, <2>4, <2>5
<1>2. CASE ForgetStream(l)
  <2>1. /\ UNCHANGED <<aborted, pc>> /\ task[l] = "forget"
        /\ task' = [task EXCEPT ![l] = "ended"]
        /\ streams' = IF streams[StreamOf[l]] = l
                        THEN [streams EXCEPT ![StreamOf[l]] = None] ELSE streams
    BY <1>2 DEF ForgetStream, OwnEntry
  <2>2. EntryKept'
    BY <1>0, <2>1, RegistryAssumption DEF EntryKept, Alive, Types, StreamType
  <2>3. EntryTrue'
    BY <1>0, <2>1 DEF EntryTrue, Alive, Types, StreamType
  <2>4. Unregistered'
    BY <1>0, <2>1 DEF Unregistered, Types, StreamType
  <2>5. QED BY <2>2, <2>3, <2>4
<1>3. CASE DropTask(l)
  <2>1. /\ UNCHANGED <<streams, aborted, pc>> /\ l \in aborted
        /\ task' = [task EXCEPT ![l] = "dropped"]
    BY <1>3 DEF DropTask
  <2>2. \A k \in Starts : Alive(k)' <=> Alive(k)
    BY <1>0, <2>1 DEF Alive, Types, StreamType
  <2>3. EntryKept' /\ EntryTrue'
    BY <1>0, <2>1, <2>2 DEF EntryKept, EntryTrue, Types, StreamType
  <2>4. Unregistered'
    BY <1>0, <2>1 DEF Unregistered, Types, StreamType
  <2>5. QED BY <2>3, <2>4
<1>4. QED BY <1>1, <1>2, <1>3 DEF TaskStep

LEMMA StreamOther ==
  ASSUME StreamInv,
         \/ \E r \in Reconnects : ReconnectStep(r)
         \/ \E d \in Disconnects : DisconnectStep(d)
         \/ \E l \in Starts : PanelStep(l)
         \/ \E q \in Producers : Begin(q) \/ Store(q)
         \/ \E s \in Sessions : BeginTransaction(s) \/ FinishTransaction(s)
         \/ \E c \in Conns : Die(c)
         \/ UNCHANGED vars
  PROVE  EntryKept' /\ EntryTrue' /\ Unregistered'
<1> DEFINE Still == /\ UNCHANGED <<streams, task, aborted>>
                    /\ \A l \in Starts : pc'[l] = pc[l]
<1> USE DEF Goto, Set, connVars, streamVars, procVars
<1>1. Types
  BY DEF StreamInv
<1>2. ASSUME NEW r \in Reconnects, ReconnectStep(r) PROVE Still
  <2>1. r \notin Starts
    BY RegistryAssumption
  <2>2. QED BY <1>1, <1>2, <2>1, Kinds3
               DEF ReconnectStep, LookUp, Probe, Reopen, Replace, ClosePrev, CloseOrphan,
                   Types, ProcType
<1>3. ASSUME NEW d \in Disconnects, DisconnectStep(d) PROVE Still
  <2>1. d \notin Starts
    BY RegistryAssumption
  <2>2. QED BY <1>1, <1>3, <2>1, Kinds3
               DEF DisconnectStep, DropDiffs, Remove, Release, DropAdvice, CloseRemoved,
                   Types, ProcType
<1>4. ASSUME NEW l \in Starts, PanelStep(l) PROVE Still
  <2>1. StopOf(l) \notin Starts /\ RecheckOf(l) \notin Starts
    BY RegistryAssumption DEF Cancels
  <2>2. QED BY <1>1, <1>4, <2>1, Kinds3
               DEF PanelStep, UserStops, Recheck, BeginCancel, Types, ProcType
<1>5. ASSUME NEW q \in Producers, Begin(q) \/ Store(q) PROVE Still
  BY <1>5 DEF Begin, Store
<1>6. ASSUME NEW s \in Sessions, BeginTransaction(s) \/ FinishTransaction(s) PROVE Still
  BY <1>6 DEF BeginTransaction, FinishTransaction
<1>7. ASSUME NEW c \in Conns, Die(c) PROVE Still
  BY <1>7 DEF Die
<1>8. ASSUME UNCHANGED vars PROVE Still
  BY <1>8 DEF vars
<1>9. Still
  BY <1>2, <1>3, <1>4, <1>5, <1>6, <1>7, <1>8
<1>10. QED BY <1>9, StreamStutter

LEMMA StreamInvStep == StreamInv /\ [Next]_vars => StreamInv'
<1> SUFFICES ASSUME StreamInv, [Next]_vars PROVE StreamInv'
  OBVIOUS
<1>1. Types'
  BY TypesStep DEF StreamInv
<1>2. EntryKept' /\ EntryTrue' /\ Unregistered'
  BY StreamShared, StreamStart, StreamTask, StreamOther DEF Next
<1>3. QED BY <1>1, <1>2 DEF StreamInv

\* A task that runs can always be cancelled through its stream id: whatever
\* tasks used that id before it, no late cleanup of theirs removes its entry;
\* and cancel_stream never finds the entry of a task that has ended.
THEOREM StreamsAlwaysExact == Spec => []StreamsExact
<1>1. StreamInv => RunningReachable
  BY DEF StreamInv, EntryKept, Unregistered, Alive, RunningReachable
<1>2. StreamInv => EntriesAlive
  BY DEF StreamInv, EntryTrue, Alive, EntriesAlive
<1>3. StreamInv => StreamsExact
  BY <1>1, <1>2 DEF StreamsExact
<1>4. QED BY <1>3, StreamInit, StreamInvStep, PTL DEF Spec

-----------------------------------------------------------------------------
(* Listeners end with their session.  A listener that was not aborted is   *)
(* in pg_listeners once its start call has enlisted it, or someone has     *)
(* taken it from there and is about to abort it.  So whoever collects the  *)
(* listeners of the session after that finds it; a start call that         *)
(* enlists later finds the session gone and collects itself.               *)

Waiting(l) == l \notin aborted /\ task[l] \in {"gated", "running"}

Taking(p, l) == pc[p] = "take" /\ target[p] = StreamOf[l]

CancelsIdle ==
  \A p \in Cancels : victims[p] = {} /\ pc[p] \in {"idle", "take", "done"}

Enlisted ==
  \A l \in Starts : Waiting(l) /\ pc[l] \notin {"idle", "register", "enlist"} =>
    listeners[StreamOf[l]] = l \/ \E p \in Procs : Taking(p, l)

Doomed ==
  \A l \in Starts :
    /\ Waiting(l) /\ registered[sess[l]] = None
    /\ pc[l] \notin {"idle", "register", "enlist", "verify"}
    => \E p \in Procs : WillStop(p, l)

ListenInv == StreamInv /\ CancelsIdle /\ Enlisted /\ Doomed

LEMMA ListenInit == Init => ListenInv
BY StreamInit, Kinds3 DEF Init, ListenInv, CancelsIdle, Enlisted, Doomed, Procs, Waiting

\* Each stream id is used once.
Injective == \A k, l \in Starts : StreamOf[k] = StreamOf[l] => k = l

\* Steps that neither begin to stop a stream nor finish doing so.
LEMMA ListenStutter ==
  ASSUME ListenInv, UNCHANGED <<registered, listeners, task, aborted, sess, victims, target>>,
         \A p \in Procs : \/ pc'[p] = pc[p]
                          \/ /\ p \notin Starts \cup Cancels
                             /\ pc[p] \notin {"collect", "stop", "take"}
                             /\ pc[p] = "release" => pc'[p] = "collect"
  PROVE  CancelsIdle' /\ Enlisted' /\ Doomed'
<1>1. \A l \in Starts : /\ l \in Procs /\ pc'[l] = pc[l] /\ (Waiting(l)' <=> Waiting(l))
                        /\ l \in Commands
  BY Kinds3 DEF Waiting
<1>2. CancelsIdle'
  BY DEF ListenInv, CancelsIdle, Procs
<1>3. ASSUME NEW p \in Procs, NEW l \in Starts, Taking(p, l) PROVE Taking(p, l)'
  BY <1>3 DEF Taking
<1>4. ASSUME NEW p \in Procs, NEW l \in Starts, WillStop(p, l) PROVE WillStop(p, l)'
  BY <1>4 DEF WillStop
<1>5. Enlisted'
  BY <1>1, <1>3 DEF ListenInv, Enlisted
<1>6. Doomed'
  BY <1>1, <1>4 DEF ListenInv, Doomed
<1>7. QED BY <1>2, <1>5, <1>6

LEMMA ListenShared ==
  ASSUME ListenInv, Injective, NEW p \in Procs, SharedStep(p)
  PROVE  CancelsIdle' /\ Enlisted' /\ Doomed'
<1> USE DEF Goto, Set
<1>0. /\ Types /\ EntryKept /\ Unregistered /\ CancelsIdle /\ Enlisted /\ Doomed
      /\ UNCHANGED <<registered, task, sess>>
  BY DEF ListenInv, StreamInv, SharedStep, Collect, Delist, TakeStream, Stopped,
     connVars, streamVars
<1>1. /\ \A q \in Procs : q # p => pc'[q] = pc[q] /\ victims'[q] = victims[q]
                                   /\ target'[q] = target[q]
      /\ pc[p] \in {"collect", "stop", "take"}
      /\ pc'[p] \in {"stop", "take", "done", "ready", "close", "advice"}
  BY <1>0 DEF SharedStep, Collect, Delist, TakeStream, Stopped, Types, ProcType
<1>2. ASSUME NEW l \in Starts, NEW q \in Procs, q # p
      PROVE  (Taking(q, l) => Taking(q, l)') /\ (WillStop(q, l) => WillStop(q, l)')
  BY <1>0, <1>1, <1>2 DEF Taking, WillStop
<1>3. ASSUME NEW l \in Starts, Waiting(l)',
             \/ pc'[l] \notin {"idle", "register", "enlist"}
             \/ pc'[l] \notin {"idle", "register", "enlist", "verify"}
      PROVE  /\ Waiting(l) /\ l \in Procs /\ l \in Commands
             /\ pc'[l] \notin {"idle", "register", "enlist"} =>
                  pc[l] \notin {"idle", "register", "enlist"}
             /\ pc'[l] \notin {"idle", "register", "enlist", "verify"} =>
                  pc[l] \notin {"idle", "register", "enlist", "verify"}
  BY <1>0, <1>1, <1>3, Kinds3
     DEF Waiting, SharedStep, Collect, Delist, TakeStream, Stopped, streamVars
<1>4. CASE Collect(p)
  <2>1. /\ victims' = [victims EXCEPT ![p] = Victims(sess[p])]
        /\ pc[p] = "collect" /\ pc' = [pc EXCEPT ![p] = "stop"]
        /\ UNCHANGED <<listeners, target>>
    BY <1>4 DEF Collect, streamVars
  <2>2. CancelsIdle'
    BY <1>0, <1>1, <2>1 DEF CancelsIdle, Procs
  <2>3. Enlisted'
    BY <1>0, <1>2, <1>3, <2>1 DEF Enlisted, Taking
  <2>4. Doomed'
    <3> SUFFICES ASSUME NEW l \in Starts, Waiting(l)', registered[sess[l]] = None,
                        pc'[l] \notin {"idle", "register", "enlist", "verify"}
                 PROVE  \E q \in Procs : WillStop(q, l)'
      BY <1>0 DEF Doomed
    <3>1. PICK q \in Procs : WillStop(q, l)
      BY <1>0, <1>3 DEF Doomed
    <3>2. CASE q # p
      BY <1>2, <3>1, <3>2
    <3>3. CASE q = p
      <4>1. sess[p] = sess[l]
        BY <2>1, <3>1, <3>3 DEF WillStop
      <4>2. CASE listeners[StreamOf[l]] = l
        <5>1. StreamOf[l] \in Victims(sess[p])
          BY <4>1, <4>2, Kinds3, RegistryAssumption DEF Victims
        <5>2. WillStop(p, l)'
          BY <1>0, <2>1, <5>1 DEF WillStop, Types, ProcType
        <5>3. QED BY <5>2
      <4>3. CASE \E t \in Procs : Taking(t, l)
        <5>1. PICK t \in Procs : Taking(t, l)
          BY <4>3
        <5>2. t # p
          BY <2>1, <5>1 DEF Taking
        <5>3. WillStop(t, l)'
          BY <1>2, <5>1, <5>2 DEF Taking, WillStop
        <5>4. QED BY <5>3
      <4>4. QED BY <1>0, <1>3, <4>2, <4>3 DEF Enlisted
    <3>4. QED BY <3>2, <3>3
  <2>5. QED BY <2>2, <2>3, <2>4
<1>5. CASE Delist(p)
  <2>1. PICK x \in victims[p] :
          /\ victims' = [victims EXCEPT ![p] = victims[p] \ {x}]
          /\ target' = [target EXCEPT ![p] = x]
          /\ listeners' = [listeners EXCEPT ![x] = None]
    BY <1>5 DEF Delist
  <2>2. x \in Streams /\ pc[p] = "stop" /\ pc' = [pc EXCEPT ![p] = "take"]
    BY <1>0, <1>5, <2>1 DEF Delist, Types, ProcType
  <2>3. CancelsIdle'
    BY <1>0, <1>1, <2>1, <2>2 DEF CancelsIdle, Procs
  <2>4. ASSUME NEW l \in Starts, StreamOf[l] = x PROVE Taking(p, l)' /\ WillStop(p, l)'
    BY <1>0, <2>1, <2>2, <2>4 DEF Taking, WillStop, Types, ProcType
  <2>5. Enlisted'
    <3> SUFFICES ASSUME NEW l \in Starts, Waiting(l)',
                        pc'[l] \notin {"idle", "register", "enlist"}
                 PROVE  listeners'[StreamOf[l]] = l \/ \E q \in Procs : Taking(q, l)'
      BY DEF Enlisted
    <3>1. CASE StreamOf[l] = x
      BY <2>4, <3>1
    <3>2. CASE StreamOf[l] # x
      <4>1. listeners[StreamOf[l]] = l => listeners'[StreamOf[l]] = l
        BY <1>0, <2>1, <3>2, Kinds3 DEF Types, StreamType
      <4>2. ASSUME NEW q \in Procs, Taking(q, l) PROVE Taking(q, l)'
        BY <1>2, <2>2, <4>2 DEF Taking
      <4>3. QED BY <1>0, <1>3, <4>1, <4>2 DEF Enlisted
    <3>3. QED BY <3>1, <3>2
  <2>6. Doomed'
    <3> SUFFICES ASSUME NEW l \in Starts, Waiting(l)', registered[sess[l]] = None,
                        pc'[l] \notin {"idle", "register", "enlist", "verify"}
                 PROVE  \E q \in Procs : WillStop(q, l)'
      BY <1>0 DEF Doomed
    <3>1. PICK q \in Procs : WillStop(q, l)
      BY <1>0, <1>3 DEF Doomed
    <3>2. CASE q # p
      BY <1>2, <3>1, <3>2
    <3>3. CASE q = p /\ StreamOf[l] # x
      <4>1. WillStop(p, l)'
        BY <1>0, <2>1, <2>2, <3>1, <3>3 DEF WillStop, Types, ProcType
      <4>2. QED BY <4>1
    <3>4. QED BY <2>4, <3>2, <3>3
  <2>7. QED BY <2>3, <2>5, <2>6
<1>6. CASE TakeStream(p)
  <2> DEFINE x == target[p]
  <2>1. /\ x \in Streams /\ UNCHANGED <<listeners, victims, target>>
        /\ aborted' = IF streams[x] = None THEN aborted ELSE aborted \cup {streams[x]}
        /\ pc[p] = "take"
        /\ pc' = [pc EXCEPT ![p] = IF p \in Cancels THEN "done" ELSE "stop"]
    BY <1>0, <1>6 DEF TakeStream, Types, ProcType
  <2>2. CancelsIdle'
    BY <1>0, <1>1, <2>1 DEF CancelsIdle, Procs, Types, ProcType
  <2>3. ASSUME NEW l \in Starts, Waiting(l)',
               pc'[l] \notin {"idle", "register", "enlist"}
        PROVE  StreamOf[l] # x
    <3>1. Alive(l) /\ pc[l] # "register"
      BY <1>3, <2>3 DEF Waiting, Alive
    <3>2. streams[StreamOf[l]] = l /\ l # None
      BY <1>0, <3>1, RegistryAssumption DEF EntryKept
    <3>3. QED BY <2>1, <2>3, <3>2 DEF Waiting
  <2>4. Enlisted'
    <3> SUFFICES ASSUME NEW l \in Starts, Waiting(l)',
                        pc'[l] \notin {"idle", "register", "enlist"}
                 PROVE  listeners[StreamOf[l]] = l \/ \E q \in Procs : Taking(q, l)'
      BY <2>1 DEF Enlisted
    <3>1. ASSUME NEW q \in Procs, Taking(q, l) PROVE Taking(q, l)'
      BY <1>2, <2>1, <2>3, <3>1 DEF Taking
    <3>2. QED BY <1>0, <1>3, <3>1 DEF Enlisted
  <2>5. Doomed'
    <3> SUFFICES ASSUME NEW l \in Starts, Waiting(l)', registered[sess[l]] = None,
                        pc'[l] \notin {"idle", "register", "enlist", "verify"}
                 PROVE  \E q \in Procs : WillStop(q, l)'
      BY <1>0 DEF Doomed
    <3>1. PICK q \in Procs : WillStop(q, l)
      BY <1>0, <1>3 DEF Doomed
    <3>2. CASE q # p
      BY <1>2, <3>1, <3>2
    <3>3. CASE q = p
      <4>1. StreamOf[l] \in victims[p]
        BY <2>1, <2>3, <3>1, <3>3 DEF WillStop
      <4>2. p \notin Cancels
        BY <1>0, <4>1 DEF CancelsIdle
      <4>3. WillStop(p, l)'
        BY <1>0, <2>1, <4>1, <4>2 DEF WillStop, Types, ProcType
      <4>4. QED BY <4>3
    <3>4. QED BY <3>2, <3>3
  <2>6. QED BY <2>2, <2>4, <2>5
<1>7. CASE Stopped(p)
  <2>1. /\ pc[p] = "stop" /\ victims[p] = {}
        /\ UNCHANGED <<listeners, aborted, victims, target>>
    BY <1>7 DEF Stopped, streamVars
  <2>2. CancelsIdle'
    BY <1>0, <1>1, <2>1 DEF CancelsIdle, Procs
  <2>3. ASSUME NEW l \in Starts PROVE ~Taking(p, l) /\ ~WillStop(p, l)
    BY <2>1 DEF Taking, WillStop
  <2>4. Enlisted'
    BY <1>0, <1>2, <1>3, <2>1, <2>3 DEF Enlisted
  <2>5. Doomed'
    BY <1>0, <1>2, <1>3, <2>1, <2>3 DEF Doomed
  <2>6. QED BY <2>2, <2>4, <2>5
<1>8. QED BY <1>4, <1>5, <1>6, <1>7 DEF SharedStep

LEMMA ListenReconnect ==
  ASSUME ListenInv, NEW r \in Reconnects, ReconnectStep(r)
  PROVE  CancelsIdle' /\ Enlisted' /\ Doomed'
<1> USE Kinds3 DEF Goto, Set
<1>0. /\ Types /\ r \notin Starts \cup Cancels
      /\ UNCHANGED <<listeners, task, aborted, sess, victims, target>>
      /\ \A q \in Procs : q # r => pc'[q] = pc[q]
      /\ pc[r] \notin {"collect", "stop", "take", "release"} \/ pc[r] = "close"
  BY RegistryAssumption
     DEF ListenInv, StreamInv, Types, ProcType, ReconnectStep, LookUp, Probe, Reopen,
         Replace, ClosePrev, CloseOrphan, streamVars
<1>1. CASE UNCHANGED registered
  BY <1>0, <1>1, ListenStutter
<1>2. CASE Replace(r) /\ StillThere(r)
  <2>1. /\ registered[sess[r]] # None /\ sess[r] \in Sessions
        /\ registered' = [registered EXCEPT ![sess[r]] = r]
    BY <1>0, <1>2 DEF Replace, StillThere, Types, ProcType
  <2>2. ASSUME NEW l \in Starts
        PROVE  pc'[l] = pc[l] /\ (Waiting(l)' <=> Waiting(l)) /\ l \in Commands
    BY <1>0 DEF Waiting
  <2>3. ASSUME NEW l \in Starts, registered'[sess[l]] = None
        PROVE  registered[sess[l]] = None
    BY <1>0, <2>1, <2>3, RegistryAssumption DEF Types, ProcType, ConnType
  <2>4. ASSUME NEW q \in Procs, NEW l \in Starts
        PROVE  (Taking(q, l) => Taking(q, l)') /\ (WillStop(q, l) => WillStop(q, l)')
    BY <1>0 DEF Taking, WillStop
  <2>5. CancelsIdle'
    BY <1>0 DEF ListenInv, CancelsIdle, Procs
  <2>6. Enlisted'
    BY <1>0, <2>2, <2>4 DEF ListenInv, Enlisted
  <2>7. Doomed'
    BY <1>0, <2>2, <2>3, <2>4 DEF ListenInv, Doomed
  <2>8. QED BY <2>5, <2>6, <2>7
<1>3. QED
  BY <1>1, <1>2 DEF ReconnectStep, LookUp, Probe, Reopen, Replace, ClosePrev,
     CloseOrphan, connVars

LEMMA ListenDisconnect ==
  ASSUME ListenInv, NEW d \in Disconnects, DisconnectStep(d)
  PROVE  CancelsIdle' /\ Enlisted' /\ Doomed'
<1> USE Kinds3 DEF Goto, Set
<1>0. /\ Types /\ d \notin Starts \cup Cancels
      /\ UNCHANGED <<listeners, task, aborted, sess, victims, target>>
      /\ \A q \in Procs : q # d => pc'[q] = pc[q]
      /\ pc[d] \notin {"collect", "stop", "take"}
      /\ pc[d] = "release" => pc'[d] = "collect"
  BY RegistryAssumption
     DEF ListenInv, StreamInv, Types, ProcType, DisconnectStep, DropDiffs, Remove,
         Release, DropAdvice, CloseRemoved, streamVars
<1>1. CASE UNCHANGED registered
  BY <1>0, <1>1, ListenStutter
<1>2. CASE Remove(d) /\ registered[sess[d]] # None
  <2>1. /\ pc'[d] = "release" /\ sess[d] \in Sessions /\ d \in Procs
        /\ registered' = [registered EXCEPT ![sess[d]] = None] /\ pc[d] = "remove"
    BY <1>0, <1>2 DEF Remove, Types, ProcType
  <2>2. ASSUME NEW l \in Starts
        PROVE  pc'[l] = pc[l] /\ (Waiting(l)' <=> Waiting(l)) /\ sess[l] \in Sessions
    BY <1>0 DEF Waiting, Types, ProcType
  <2>3. ASSUME NEW l \in Starts, registered'[sess[l]] = None
        PROVE  registered[sess[l]] = None \/ WillStop(d, l)'
    <3>1. CASE sess[l] = sess[d]
      BY <1>0, <2>1, <3>1 DEF WillStop
    <3>2. CASE sess[l] # sess[d]
      BY <2>1, <2>2, <2>3, <3>2, <1>0 DEF Types, ConnType
    <3>3. QED BY <3>1, <3>2
  <2>4. ASSUME NEW q \in Procs, NEW l \in Starts
        PROVE  (Taking(q, l) => Taking(q, l)') /\ (WillStop(q, l) => WillStop(q, l)')
    BY <1>0, <2>1 DEF Taking, WillStop
  <2>5. CancelsIdle'
    BY <1>0 DEF ListenInv, CancelsIdle, Procs
  <2>6. Enlisted'
    BY <1>0, <2>2, <2>4 DEF ListenInv, Enlisted
  <2>7. Doomed'
    BY <1>0, <2>1, <2>2, <2>3, <2>4 DEF ListenInv, Doomed
  <2>8. QED BY <2>5, <2>6, <2>7
<1>3. CASE Remove(d) /\ registered[sess[d]] = None
  <2>1. registered' = registered
    BY <1>0, <1>3 DEF Remove, Types, ConnType
  <2>2. QED BY <1>1, <2>1
<1>4. QED
  BY <1>1, <1>2, <1>3 DEF DisconnectStep, DropDiffs, Release, DropAdvice, CloseRemoved,
     connVars

LEMMA ListenStart ==
  ASSUME ListenInv, Injective, NEW l \in Starts, StartStep(l)
  PROVE  CancelsIdle' /\ Enlisted' /\ Doomed'
<1> USE Kinds3 DEF Goto, Set
<1>0. /\ Types /\ l \notin Cancels /\ Unregistered /\ CancelsIdle /\ Enlisted /\ Doomed
      /\ UNCHANGED <<registered, sess, victims, target>>
      /\ \A q \in Procs : q # l => pc'[q] = pc[q]
      /\ pc[l] \in {"idle", "register", "enlist", "verify", "ready"}
      /\ \A k \in Starts : k \in Procs /\ k \in Commands
  BY RegistryAssumption
     DEF ListenInv, StreamInv, Types, ProcType, StartStep, Spawn, RegisterStream,
         Enlist, Verify, OpenGate, connVars, streamVars
<1>1. CancelsIdle'
  BY <1>0 DEF CancelsIdle, Procs
<1>2. ASSUME NEW q \in Procs, NEW k \in Starts
      PROVE  (Taking(q, k) => Taking(q, k)') /\ (WillStop(q, k) => WillStop(q, k)')
  BY <1>0 DEF Taking, WillStop
<1>3. ASSUME NEW k \in Starts, k # l, Waiting(k)' PROVE Waiting(k) /\ pc'[k] = pc[k]
  BY <1>0, <1>3 DEF Waiting, StartStep, Spawn, SpawnState, RegisterStream, Enlist,
     Verify, OpenGate, Types, StreamType, streamVars
<1>4. ASSUME NEW k \in Starts, k # l, listeners[StreamOf[k]] = k
      PROVE  listeners'[StreamOf[k]] = k
  BY <1>0, <1>4 DEF StartStep, Spawn, RegisterStream, Enlist, Verify, OpenGate,
     Types, StreamType, streamVars, Injective
<1>5. ASSUME Waiting(l)', pc'[l] \notin {"idle", "register", "enlist"}
      PROVE  listeners'[StreamOf[l]] = l \/ \E q \in Procs : Taking(q, l)
  <2>1. CASE Spawn(l)
    BY <1>0, <1>5, <2>1 DEF Spawn, Waiting, Unregistered, Types, ProcType
  <2>2. CASE RegisterStream(l)
    BY <1>0, <1>5, <2>2 DEF RegisterStream, Types, ProcType
  <2>3. CASE Enlist(l)
    BY <1>0, <2>3 DEF Enlist, Types, StreamType
  <2>4. CASE Verify(l) \/ OpenGate(l)
    <3>1. Waiting(l) /\ pc[l] \notin {"idle", "register", "enlist"}
          /\ listeners' = listeners
      BY <1>0, <1>5, <2>4 DEF Verify, OpenGate, Waiting, streamVars, Types, StreamType
    <3>2. QED BY <1>0, <3>1 DEF Enlisted
  <2>5. QED BY <2>1, <2>2, <2>3, <2>4 DEF StartStep
<1>6. ASSUME Waiting(l)', pc'[l] \notin {"idle", "register", "enlist", "verify"},
             registered[sess[l]] = None
      PROVE  \E q \in Procs : WillStop(q, l)'
  <2>1. CASE Spawn(l)
    BY <1>0, <1>6, <2>1 DEF Spawn, Waiting, Unregistered, Types, ProcType
  <2>2. CASE RegisterStream(l) \/ Enlist(l)
    BY <1>0, <1>6, <2>2 DEF RegisterStream, Enlist, Types, ProcType
  <2>3. CASE Verify(l)
    <3>1. pc'[l] = "collect"
      BY <1>0, <1>6, <2>3 DEF Verify, SessionGone, Types, ProcType
    <3>2. WillStop(l, l)'
      BY <1>0, <3>1 DEF WillStop
    <3>3. QED BY <1>0, <3>2
  <2>4. CASE OpenGate(l)
    <3>1. Waiting(l) /\ pc[l] = "ready"
      BY <1>0, <1>6, <2>4 DEF OpenGate, Waiting, Types, StreamType
    <3>2. QED BY <1>0, <1>2, <1>6, <3>1 DEF Doomed
  <2>5. QED BY <2>1, <2>2, <2>3, <2>4 DEF StartStep
<1>7. Enlisted'
  BY <1>0, <1>2, <1>3, <1>4, <1>5 DEF Enlisted
<1>8. Doomed'
  BY <1>0, <1>2, <1>3, <1>6 DEF Doomed
<1>9. QED BY <1>1, <1>7, <1>8

LEMMA ListenTask ==
  ASSUME ListenInv, Injective, NEW l \in Starts, TaskStep(l)
  PROVE  CancelsIdle' /\ Enlisted' /\ Doomed'
<1> USE Kinds3 DEF Set, procVars, connVars
<1>0. /\ Types /\ CancelsIdle /\ Enlisted /\ Doomed
      /\ UNCHANGED <<registered, pc, sess, victims, target>>
  BY DEF ListenInv, StreamInv, TaskStep, ListenerEnds, ForgetListener, ForgetStream,
     DropTask
<1>1. ASSUME NEW k \in Starts, Waiting(k)' PROVE Waiting(k) /\ k # l
  BY <1>0, <1>1 DEF Waiting, TaskStep, ListenerEnds, ForgetListener, ForgetStream,
     DropTask, Types, StreamType
<1>2. ASSUME NEW k \in Starts, k # l, listeners[StreamOf[k]] = k
      PROVE  listeners'[StreamOf[k]] = k
  BY <1>0, <1>2 DEF TaskStep, ListenerEnds, ForgetListener, ForgetStream, DropTask,
     Types, StreamType, Injective
<1>3. CancelsIdle'
  BY <1>0 DEF CancelsIdle
<1>4. ASSUME NEW q \in Procs, NEW k \in Starts
      PROVE  (Taking(q, k) => Taking(q, k)') /\ (WillStop(q, k) => WillStop(q, k)')
  BY <1>0 DEF Taking, WillStop
<1>5. Enlisted'
  BY <1>0, <1>1, <1>2, <1>4 DEF Enlisted
<1>6. Doomed'
  BY <1>0, <1>1, <1>4 DEF Doomed
<1>7. QED BY <1>3, <1>5, <1>6

LEMMA ListenPanel ==
  ASSUME ListenInv, Injective, NEW l \in Starts, PanelStep(l)
  PROVE  CancelsIdle' /\ Enlisted' /\ Doomed'
<1> USE Kinds3 DEF Goto, Set, connVars
<1>0. /\ Types /\ CancelsIdle /\ Enlisted /\ Doomed
      /\ UNCHANGED <<registered, task, aborted, sess, victims>>
      /\ \A k \in Starts : k \in Procs /\ k \in Commands
  BY DEF ListenInv, StreamInv, PanelStep, UserStops, Recheck
<1>1. PICK p \in Cancels : p \in {StopOf(l), RecheckOf(l)} /\ pc[p] = "idle"
                           /\ \A q \in Procs : q # p => /\ pc'[q] = pc[q]
                                                        /\ target'[q] = target[q]
                           /\ \/ BeginCancel(p, l)
                              \/ Goto(p, "done") /\ UNCHANGED <<listeners, target>>
  <2>1. StopOf(l) \in Cancels /\ RecheckOf(l) \in Cancels
    BY DEF Cancels
  <2>2. CASE UserStops(l)
    BY <1>0, <2>1, <2>2 DEF UserStops, BeginCancel, Types, ProcType
  <2>3. CASE Recheck(l)
    BY <1>0, <2>1, <2>3 DEF Recheck, BeginCancel, Types, ProcType
  <2>4. QED BY <2>2, <2>3 DEF PanelStep
<1>2. p \in Procs /\ \A k \in Starts : k # p
  BY RegistryAssumption DEF Procs
<1>3. ASSUME NEW q \in Procs, NEW k \in Starts
      PROVE  (Taking(q, k) => Taking(q, k)') /\ (WillStop(q, k) => WillStop(q, k)')
  <2>1. CASE q = p
    BY <1>1, <2>1 DEF Taking, WillStop
  <2>2. CASE q # p
    BY <1>0, <1>1, <2>2 DEF Taking, WillStop
  <2>3. QED BY <2>1, <2>2
<1>4. CancelsIdle'
  <2>1. pc'[p] \in {"take", "done"}
    BY <1>0, <1>1, <1>2 DEF BeginCancel, Types, ProcType
  <2>2. ASSUME NEW q \in Cancels
        PROVE  victims'[q] = {} /\ pc'[q] \in {"idle", "take", "done"}
    <3>1. victims[q] = {} /\ pc[q] \in {"idle", "take", "done"} /\ q \in Procs
      BY <1>0, <2>2 DEF CancelsIdle, Procs
    <3>2. QED BY <1>0, <1>1, <2>1, <3>1
  <2>3. QED BY <2>2 DEF CancelsIdle
<1>5. ASSUME NEW k \in Starts
      PROVE  /\ pc'[k] = pc[k] /\ (Waiting(k)' <=> Waiting(k))
             /\ listeners[StreamOf[k]] = k =>
                  listeners'[StreamOf[k]] = k \/ Taking(p, k)'
  BY <1>0, <1>1, <1>2 DEF BeginCancel, Waiting, Taking, Types, ProcType, StreamType
<1>6. Enlisted'
  BY <1>0, <1>2, <1>3, <1>5 DEF Enlisted
<1>7. Doomed'
  BY <1>0, <1>3, <1>5 DEF Doomed
<1>8. QED BY <1>4, <1>6, <1>7

LEMMA ListenOther ==
  ASSUME ListenInv,
         \/ \E q \in Producers : Begin(q) \/ Store(q)
         \/ \E s \in Sessions : BeginTransaction(s) \/ FinishTransaction(s)
         \/ \E c \in Conns : Die(c)
         \/ UNCHANGED vars
  PROVE  CancelsIdle' /\ Enlisted' /\ Doomed'
<1>1. UNCHANGED <<registered, listeners, task, aborted, sess, victims, target, pc>>
  BY DEF Begin, Store, BeginTransaction, FinishTransaction, Die, vars, connVars,
     streamVars, keptVars, procVars
<1>2. QED BY <1>1, ListenStutter

LEMMA ListenInvStep == ListenInv /\ Injective /\ [Next]_vars => ListenInv'
<1> SUFFICES ASSUME ListenInv, Injective, [Next]_vars PROVE ListenInv'
  OBVIOUS
<1>1. StreamInv'
  BY StreamInvStep DEF ListenInv
<1>2. CancelsIdle' /\ Enlisted' /\ Doomed'
  BY ListenShared, ListenReconnect, ListenDisconnect, ListenStart, ListenTask,
     ListenPanel, ListenOther DEF Next
<1>3. QED BY <1>1, <1>2 DEF ListenInv

\* When each start call uses a stream id of its own, no listener is left
\* running in a session that was disconnected, unless someone is about to
\* abort it (listen.rs, the second look at the session).
THEOREM NoListenerLeft ==
  ASSUME Injective
  PROVE  Spec => []NoListenerAfterDisconnect
<1>1. ListenInv => NoListenerAfterDisconnect
  BY DEF ListenInv, Doomed, Waiting, Listening, NoListenerAfterDisconnect
<1>2. ListenInv /\ [Next]_vars => ListenInv'
  BY ListenInvStep
<1>3. QED BY <1>1, <1>2, ListenInit, PTL DEF Spec

-----------------------------------------------------------------------------
(* What a disconnect drops.  A producer stores once.                       *)
StoredOnce == \A q \in Producers : q \in kept => ppc[q] = "done"

\* Where disconnect d may be while the product of q, stored before d began,
\* is still there: the store of its kind has not been emptied yet, or d found
\* the session removed by someone else.
NotYet(d, q) ==
  \/ pc[d] = "idle"
  \/ KindOf[q] # "diff" /\ pc[d] \in {"remove", "release"}
  \/ KindOf[q] = "advice" /\ pc[d] \in {"collect", "stop", "take", "advice"}
  \/ pc[d] = "done" /\ conn[d] = None

Dropping(d, q) == ppc[q] = "done" /\ sess[q] = sess[d] /\ (q \in kept => NotYet(d, q))

\* A step that neither stores, nor drops, nor moves the disconnect.
LEMMA DroppingStutter ==
  ASSUME NEW d \in Disconnects, NEW q \in Producers, Dropping(d, q),
         pc'[d] = pc[d], conn'[d] = conn[d], sess' = sess, ppc'[q] = ppc[q],
         q \in kept' => q \in kept
  PROVE  Dropping(d, q)'
BY DEF Dropping, NotYet

LEMMA DroppingShared ==
  ASSUME Types, NEW d \in Disconnects, NEW q \in Producers, Dropping(d, q),
         NEW p \in Procs, SharedStep(p)
  PROVE  Dropping(d, q)'
<1> USE DEF Goto, Set, Types, ProcType, keptVars
<1>a. d \in Procs /\ d \notin Cancels /\ d \notin Starts /\ d \notin Reconnects
  BY Kinds3, RegistryAssumption
<1>b. UNCHANGED <<kept, ppc, sess, conn>>
  BY DEF SharedStep, Collect, Delist, TakeStream, Stopped
<1>1. CASE p # d
  <2>1. pc'[d] = pc[d]
    BY <1>1, <1>a DEF SharedStep, Collect, Delist, TakeStream, Stopped
  <2>2. QED BY <2>1, <1>b, DroppingStutter
<1>2. CASE p = d
  <2>1. /\ pc[d] \in {"collect", "stop", "take"}
        /\ pc'[d] \in {"stop", "take", "advice"}
    BY <1>2, <1>a DEF SharedStep, Collect, Delist, TakeStream, Stopped
  <2>2. QED BY <2>1, <1>b DEF Dropping, NotYet
<1>3. QED BY <1>1, <1>2

LEMMA DroppingDisconnect ==
  ASSUME Types, NEW d \in Disconnects, NEW q \in Producers, Dropping(d, q),
         NEW e \in Disconnects, DisconnectStep(e)
  PROVE  Dropping(d, q)'
<1> USE DEF Goto, Set, Types, ProcType, keptVars, Drop
<1>a. d \in Procs /\ e \in Procs /\ KindOf[q] \in Kinds
  BY Kinds3, RegistryAssumption
<1>b. UNCHANGED <<ppc, sess>> /\ (q \in kept' => q \in kept)
  BY DEF DisconnectStep, DropDiffs, Remove, Release, DropAdvice, CloseRemoved
<1>1. CASE e # d
  <2>1. pc'[d] = pc[d] /\ conn'[d] = conn[d]
    BY <1>1, <1>a DEF DisconnectStep, DropDiffs, Remove, Release, DropAdvice, CloseRemoved
  <2>2. QED BY <2>1, <1>b, DroppingStutter
<1>2. CASE e = d /\ DropDiffs(d)
  BY <1>2, <1>a, <1>b DEF DropDiffs, Dropping, NotYet
<1>3. CASE e = d /\ Remove(d)
  BY <1>3, <1>a, <1>b DEF Remove, Dropping, NotYet
<1>4. CASE e = d /\ Release(d)
  BY <1>4, <1>a, <1>b DEF Release, Dropping, NotYet, Kinds
<1>5. CASE e = d /\ DropAdvice(d)
  BY <1>5, <1>a, <1>b DEF DropAdvice, Dropping, NotYet
<1>6. CASE e = d /\ CloseRemoved(d)
  BY <1>6, <1>a, <1>b DEF CloseRemoved, Dropping, NotYet
<1>7. QED BY <1>1, <1>2, <1>3, <1>4, <1>5, <1>6 DEF DisconnectStep

LEMMA DroppingOther ==
  ASSUME Types, NEW d \in Disconnects, NEW q \in Producers, Dropping(d, q),
         \/ \E r \in Reconnects : ReconnectStep(r)
         \/ \E l \in Starts : StartStep(l) \/ TaskStep(l) \/ PanelStep(l)
         \/ \E p \in Producers : Begin(p) \/ Store(p)
         \/ \E s \in Sessions : BeginTransaction(s) \/ FinishTransaction(s)
         \/ \E c \in Conns : Die(c)
         \/ UNCHANGED vars
  PROVE  Dropping(d, q)'
<1> USE DEF Goto, Set, Types, ProcType, KeptType
<1>a. d \in Procs /\ d \notin Cancels /\ d \notin Starts /\ d \notin Reconnects
  BY Kinds3, RegistryAssumption
<1>1. ASSUME NEW r \in Reconnects, ReconnectStep(r) PROVE Dropping(d, q)'
  BY <1>1, <1>a, DroppingStutter DEF ReconnectStep, LookUp, Probe, Reopen, Replace,
     ClosePrev, CloseOrphan, keptVars
<1>2. ASSUME NEW l \in Starts, StartStep(l) PROVE Dropping(d, q)'
  BY <1>2, <1>a, DroppingStutter DEF StartStep, Spawn, RegisterStream, Enlist, Verify,
     OpenGate, keptVars
<1>3. ASSUME NEW l \in Starts, TaskStep(l) PROVE Dropping(d, q)'
  BY <1>3, <1>a, DroppingStutter DEF TaskStep, ListenerEnds, ForgetListener,
     ForgetStream, DropTask, keptVars, procVars
<1>4. ASSUME NEW l \in Starts, PanelStep(l) PROVE Dropping(d, q)'
  <2>1. StopOf(l) # d /\ RecheckOf(l) # d
    BY <1>a DEF Cancels
  <2>2. QED BY <1>4, <1>a, <2>1, DroppingStutter
     DEF PanelStep, UserStops, Recheck, BeginCancel, keptVars
<1>5. ASSUME NEW p \in Producers, Begin(p) \/ Store(p) PROVE Dropping(d, q)'
  <2>1. p # q
    BY <1>5 DEF Begin, Store, Dropping
  <2>2. QED BY <1>5, <2>1, DroppingStutter DEF Begin, Store, procVars
<1>6. ASSUME UNCHANGED <<keptVars, procVars>> PROVE Dropping(d, q)'
  BY <1>6, DroppingStutter DEF keptVars, procVars
<1>7. QED BY <1>1, <1>2, <1>3, <1>4, <1>5, <1>6
  DEF BeginTransaction, FinishTransaction, Die, vars

LEMMA StoredOnceStep == Types /\ StoredOnce /\ [Next]_vars => StoredOnce'
<1> SUFFICES ASSUME Types, StoredOnce, [Next]_vars PROVE StoredOnce'
  OBVIOUS
<1> USE DEF StoredOnce, Types, KeptType
<1>1. ASSUME NEW q \in Producers, Begin(q) \/ Store(q) PROVE StoredOnce'
  BY <1>1 DEF Begin, Store, Set
<1>2. ASSUME NEW d \in Disconnects, DisconnectStep(d) PROVE StoredOnce'
  BY <1>2 DEF DisconnectStep, DropDiffs, Remove, Release, DropAdvice, CloseRemoved,
     Drop, keptVars
<1>3. ASSUME UNCHANGED keptVars PROVE StoredOnce'
  BY <1>3 DEF keptVars
<1>4. CASE ~(\E q \in Producers : Begin(q) \/ Store(q))
           /\ ~(\E d \in Disconnects : DisconnectStep(d))
  BY <1>3, <1>4 DEF Next, vars, SharedStep, Collect, Delist, TakeStream, Stopped,
     ReconnectStep, LookUp, Probe, Reopen, Replace, ClosePrev, CloseOrphan, StartStep,
     Spawn, RegisterStream, Enlist, Verify, OpenGate, TaskStep, ListenerEnds,
     ForgetListener, ForgetStream, DropTask, PanelStep, UserStops, Recheck,
     BeginTransaction, FinishTransaction, Die
<1>5. QED BY <1>1, <1>2, <1>4

(* What was stored for a session before its disconnect began is gone when  *)
(* the disconnect has finished, whatever else runs meanwhile.              *)
THEOREM RemovalAlwaysReleases == Spec => RemovalReleases
<1>1. Init => Types /\ StoredOnce
  BY TypesInit DEF Init, StoredOnce
<1>2. ASSUME NEW d \in Disconnects, NEW q \in Producers
      PROVE  Spec => [](/\ pc[d] = "idle" /\ q \in kept /\ sess[q] = sess[d]
                        => [](pc[d] = "done" /\ conn[d] # None => q \notin kept))
  <2>1. StoredOnce /\ pc[d] = "idle" /\ q \in kept /\ sess[q] = sess[d]
          => Dropping(d, q)
    BY DEF StoredOnce, Dropping, NotYet
  <2>2. Types /\ Dropping(d, q) /\ [Next]_vars => Dropping(d, q)'
    BY DroppingShared, DroppingDisconnect, DroppingOther DEF Next
  <2>3. Dropping(d, q) => (pc[d] = "done" /\ conn[d] # None => q \notin kept)
    BY DEF Dropping, NotYet
  <2>4. QED BY <1>1, <2>1, <2>2, <2>3, TypesStep, StoredOnceStep, PTL DEF Spec
<1>3. QED BY <1>2 DEF RemovalReleases

-----------------------------------------------------------------------------
(* A stop of the user.  The first cancel may come before the registrations  *)
(* of the start; then the second one, after the start, finds the entry.     *)
StoppedInv ==
  /\ \A p \in Cancels : pc[p] \in {"idle", "take", "done"}
  /\ \A l \in Starts :
       /\ pc[RecheckOf(l)] # "idle" => pc[l] = "done"
       /\ pc[StopOf(l)] = "take" => target[StopOf(l)] = StreamOf[l]
       /\ pc[RecheckOf(l)] = "take" => target[RecheckOf(l)] = StreamOf[l]
       /\ pc[StopOf(l)] = "done" /\ pc[RecheckOf(l)] = "done" => streams[StreamOf[l]] # l

LEMMA CancelKinds ==
  /\ \A l \in Starts : /\ StopOf(l) \in Cancels /\ RecheckOf(l) \in Cancels
                       /\ StopOf(l) # RecheckOf(l)
  /\ \A k, l \in Starts : /\ StopOf(k) # RecheckOf(l)
                          /\ StopOf(k) = StopOf(l) => k = l
                          /\ RecheckOf(k) = RecheckOf(l) => k = l
  /\ \A c \in Cancels : c \in Procs /\ c \notin Commands
  /\ \A l \in Starts : l # None
BY RegistryAssumption DEF Cancels, StopOf, RecheckOf, Procs, Commands

\* Steps that do not belong to the panel and register no start that is over.
LEMMA StoppedFrame ==
  ASSUME StoppedInv,
         \A c \in Cancels : pc'[c] = pc[c] /\ target'[c] = target[c],
         \A l \in Starts : pc[l] = "done" =>
           /\ pc'[l] = "done"
           /\ streams'[StreamOf[l]] = l => streams[StreamOf[l]] = l
  PROVE  StoppedInv'
BY CancelKinds DEF StoppedInv

LEMMA StoppedShared ==
  ASSUME Types, StoppedInv, NEW p \in Procs, SharedStep(p)
  PROVE  StoppedInv'
<1> USE CancelKinds, Kinds3 DEF Goto, Set
<1>1. /\ \A q \in Procs : q # p => pc'[q] = pc[q] /\ target'[q] = target[q]
      /\ pc[p] \in {"collect", "stop", "take"}
      /\ \A x \in Streams : streams'[x] \in {None, streams[x]}
  BY DEF SharedStep, Collect, Delist, TakeStream, Stopped, Types, ProcType, StreamType, streamVars
<1>2. \A l \in Starts : streams'[StreamOf[l]] = l => streams[StreamOf[l]] = l
  BY <1>1
<1>3. CASE p \notin Cancels
  <2>1. \A c \in Cancels : pc'[c] = pc[c] /\ target'[c] = target[c]
    BY <1>1, <1>3
  <2>2. \A l \in Starts : pc[l] = "done" => pc'[l] = "done"
    BY <1>1
  <2>3. QED
    BY <1>2, <2>1, <2>2, StoppedFrame
<1>4. CASE p \in Cancels
  <2>1. /\ pc[p] = "take" /\ pc' = [pc EXCEPT ![p] = "done"] /\ target' = target
        /\ streams' = [streams EXCEPT ![target[p]] = None]
    BY <1>4 DEF SharedStep, Collect, Delist, TakeStream, Stopped, StoppedInv
  <2>2. \A c \in Cancels : pc'[c] \in {"idle", "take", "done"}
    BY <1>1, <1>4, <2>1 DEF StoppedInv, Types, ProcType
  <2>3. ASSUME NEW l \in Starts
        PROVE  /\ pc'[l] = pc[l]
               /\ \A c \in {StopOf(l), RecheckOf(l)} :
                    /\ pc'[c] = "take" => pc[c] = "take"
                    /\ pc'[c] # "idle" => pc[c] # "idle"
               /\ p \in {StopOf(l), RecheckOf(l)} => streams'[StreamOf[l]] = None
               /\ p \notin {StopOf(l), RecheckOf(l)} =>
                    \A c \in {StopOf(l), RecheckOf(l)} : pc'[c] = pc[c]
    <3>1. l # p /\ l \in Procs /\ StopOf(l) \in Procs /\ RecheckOf(l) \in Procs
      BY <1>4
    <3>2. p \in {StopOf(l), RecheckOf(l)} => target[p] = StreamOf[l]
      BY <2>1 DEF StoppedInv
    <3>3. QED
      BY <1>1, <2>1, <3>1, <3>2 DEF Types, ProcType, StreamType
  <2>4. QED
    BY <1>2, <2>1, <2>2, <2>3 DEF StoppedInv
<1>5. QED BY <1>3, <1>4

LEMMA StoppedPanel ==
  ASSUME Types, StoppedInv, NEW l \in Starts, PanelStep(l)
  PROVE  StoppedInv'
<1> USE CancelKinds, Kinds3 DEF Goto, Set
<1>1. PICK p \in {StopOf(l), RecheckOf(l)} :
        /\ pc[p] = "idle" /\ UNCHANGED streams
        /\ p = RecheckOf(l) => pc[l] = "done"
        /\ \/ pc' = [pc EXCEPT ![p] = "take"] /\ target' = [target EXCEPT ![p] = StreamOf[l]]
           \/ /\ p = RecheckOf(l) /\ pc[StopOf(l)] = "idle"
              /\ pc' = [pc EXCEPT ![p] = "done"] /\ target' = target
  <2>1. CASE UserStops(l)
    BY <2>1 DEF UserStops, BeginCancel
  <2>2. CASE Recheck(l)
    BY <2>2 DEF Recheck, BeginCancel, StoppedMeanwhile
  <2>3. QED BY <2>1, <2>2 DEF PanelStep
<1>2. p \in Cancels /\ p \in Procs
  BY <1>1
<1>3. \A q \in Procs : q # p => pc'[q] = pc[q] /\ target'[q] = target[q]
  BY <1>1 DEF Types, ProcType
<1>4. \/ pc'[p] = "take" /\ target'[p] = StreamOf[l]
      \/ pc'[p] = "done" /\ p = RecheckOf(l) /\ pc[StopOf(l)] = "idle"
  <2>1. pc \in [Procs -> ProcPCs] /\ target \in [Procs -> Streams \cup {None}]
    BY DEF Types, ProcType
  <2>2. CASE pc' = [pc EXCEPT ![p] = "take"] /\ target' = [target EXCEPT ![p] = StreamOf[l]]
    BY ONLY <1>2, <2>1, <2>2
  <2>3. CASE /\ p = RecheckOf(l) /\ pc[StopOf(l)] = "idle"
             /\ pc' = [pc EXCEPT ![p] = "done"] /\ target' = target
    BY ONLY <1>2, <2>1, <2>3
  <2>4. QED BY ONLY <1>1, <2>2, <2>3
<1>5. \A c \in Cancels : pc'[c] \in {"idle", "take", "done"}
  BY <1>3, <1>4 DEF StoppedInv
<1>6. ASSUME NEW k \in Starts
      PROVE  /\ pc'[RecheckOf(k)] # "idle" => pc'[k] = "done"
             /\ pc'[StopOf(k)] = "take" => target'[StopOf(k)] = StreamOf[k]
             /\ pc'[RecheckOf(k)] = "take" => target'[RecheckOf(k)] = StreamOf[k]
             /\ pc'[StopOf(k)] = "done" /\ pc'[RecheckOf(k)] = "done" => streams'[StreamOf[k]] # k
  <2>1. pc'[k] = pc[k] /\ k \in Procs
    BY <1>2, <1>3
  <2>2. CASE k # l
    <3>1. p \notin {StopOf(k), RecheckOf(k)}
      BY <1>1, <2>2
    <3>2. QED
      BY <1>1, <1>3, <2>1, <3>1 DEF StoppedInv
  <2>3. CASE k = l
    BY <1>1, <1>3, <1>4, <2>1, <2>3 DEF StoppedInv
  <2>4. QED BY <2>2, <2>3
<1>7. QED BY <1>5, <1>6 DEF StoppedInv

LEMMA StoppedStep ==
  ASSUME Types, StoppedInv, [Next]_vars
  PROVE  StoppedInv'
<1> USE CancelKinds, Kinds3
<1>1. ASSUME NEW r \in Reconnects, ReconnectStep(r)
      PROVE  StoppedInv'
  <2>1. /\ UNCHANGED <<streams, target>> /\ pc[r] # "done"
        /\ \A q \in Procs : q # r => pc'[q] = pc[q]
    BY <1>1 DEF ReconnectStep, LookUp, Probe, Reopen, Replace, ClosePrev, CloseOrphan, Goto,
       streamVars, Types, ProcType
  <2>2. QED BY <2>1, StoppedFrame, RegistryAssumption
<1>2. ASSUME NEW d \in Disconnects, DisconnectStep(d)
      PROVE  StoppedInv'
  <2>1. /\ UNCHANGED <<streams, target>> /\ pc[d] # "done"
        /\ \A q \in Procs : q # d => pc'[q] = pc[q]
    BY <1>2 DEF DisconnectStep, DropDiffs, Remove, Release, DropAdvice, CloseRemoved, Goto,
       streamVars, Types, ProcType
  <2>2. QED BY <2>1, StoppedFrame, RegistryAssumption
<1>3. ASSUME NEW l \in Starts, StartStep(l)
      PROVE  StoppedInv'
  <2>1. /\ UNCHANGED target /\ pc[l] # "done"
        /\ \A q \in Procs : q # l => pc'[q] = pc[q]
    BY <1>3 DEF StartStep, Spawn, RegisterStream, Enlist, Verify, OpenGate, Goto,
       Types, ProcType
  <2>2. \/ UNCHANGED streams
        \/ streams' = [streams EXCEPT ![StreamOf[l]] = l]
    BY <1>3 DEF StartStep, Spawn, RegisterStream, Enlist, Verify, OpenGate, Set, streamVars
  <2>3. \A x \in Streams : streams'[x] \in {l, streams[x]}
    BY <2>2 DEF Types, StreamType
  <2>4. QED BY <2>1, <2>3, StoppedFrame, RegistryAssumption
<1>4. ASSUME NEW l \in Starts, TaskStep(l)
      PROVE  StoppedInv'
  <2>1. /\ UNCHANGED <<target, pc>>
        /\ \A x \in Streams : streams'[x] \in {None, streams[x]}
    BY <1>4 DEF TaskStep, ListenerEnds, ForgetListener, ForgetStream, DropTask, Set, procVars,
       Types, StreamType
  <2>2. QED BY <2>1, StoppedFrame
<1>5. CASE \/ \E q \in Producers : Begin(q) \/ Store(q)
           \/ \E s \in Sessions : BeginTransaction(s) \/ FinishTransaction(s)
           \/ \E c \in Conns : Die(c)
           \/ UNCHANGED vars
  <2>1. UNCHANGED <<streams, target, pc>>
    BY <1>5 DEF Begin, Store, BeginTransaction, FinishTransaction, Die, vars, streamVars, procVars
  <2>2. QED BY <2>1, StoppedFrame
<1>6. QED BY <1>1, <1>2, <1>3, <1>4, <1>5, StoppedShared, StoppedPanel DEF Next

(* A stop is never lost: once the user has stopped a stream and the panel   *)
(* has looked again after the start call, the listener of that start has    *)
(* ended or is about to be dropped, however the stop fell between the       *)
(* registrations of the start and whoever uses the stream id afterwards.    *)
THEOREM StopNeverLost ==
  Spec => [](\A l \in Starts :
               pc[StopOf(l)] = "done" /\ pc[RecheckOf(l)] = "done" =>
                 task[l] \in {"none", "ended", "dropped"} \/ l \in aborted)
<1> DEFINE Lost == \A l \in Starts :
                     pc[StopOf(l)] = "done" /\ pc[RecheckOf(l)] = "done" =>
                       task[l] \in {"none", "ended", "dropped"} \/ l \in aborted
<1>1. Init => StoppedInv
  BY CancelKinds, Kinds3 DEF Init, StoppedInv
<1>2. StreamInv /\ StoppedInv => Lost
  BY DEF StreamInv, EntryKept, StoppedInv, Alive, Types, StreamType, TaskStates
<1>3. StreamInv => Types
  BY DEF StreamInv
<1>4. QED
  BY <1>1, <1>2, <1>3, StreamInit, StreamInvStep, StoppedStep, PTL DEF Spec
=============================================================================
