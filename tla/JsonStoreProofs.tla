---------------------------- MODULE JsonStoreProofs ----------------------------
(***************************************************************************)
(* Proofs about JsonStore, for any number of processes and calls: the file  *)
(* is always whole, and all calls together implement AtomicStore.           *)
(*                                                                          *)
(* The argument: only one call at a time holds the file lock (LockInv), and *)
(* what such a call has read, changed and written so far is what the file   *)
(* still says, but for the parts it is blind to (CallInv). A call that found *)
(* the file unreadable has put it aside before it writes.  Who holds which  *)
(* of the two locks follows at the end (MutexInv).                          *)
(***************************************************************************)
EXTENDS JsonStore, TLAPS

Writing == {"create", "write", "rename"}

\* At most one call is inside.
LockInv ==
  /\ \A c, e \in fileLock : c = e
  /\ \A c \in Calls : pc[c] \in Holding => c \in fileLock
  /\ \A c \in fileLock : pc[c] \in Holding \cup {"unlock"}

\* The file is no call's half-written one.
FileInv ==
  /\ main.kind # "partial"
  /\ main.kind = "json" => \A x \in main.raw : main.tasks[x] = 0

\* Calls have a result from the moment they took effect or failed.
ResultInv ==
  \A c \in Calls : pc[c] \in {"unlock", "leave", "done"} => result[c] # "none"
NoResultInv ==
  \A c \in Calls : pc[c] \in {"idle", "mutex", "lock"} \cup Holding => result[c] = "none"

\* What a call read, as the file says it now.
Own(c) == Atomic!Seen(Meaning(main), blind[c] \cup {"raw"})

CallInv(c) ==
  /\ pc[c] = "change" => c \notin repair /\ loaded[c] = Own(c)
  /\ pc[c] \in {"raw"} \cup Writing /\ c \in repair =>
       /\ main.kind = "json" /\ loaded[c] = Parsed(main) /\ "tasks" \notin blind[c]
       /\ main \in backups
  /\ pc[c] \in {"change", "raw"} \cup Writing /\ c \notin repair /\ "tasks" \notin blind[c] =>
       main.kind # "odd" /\ main.settings # "bad"
  /\ pc[c] \in {"raw"} \cup Writing /\ c \notin repair =>
       /\ op[c] # "load" /\ loaded[c] = Changed(op[c], arg[c], Own(c))
       /\ op[c] = "edit" => Own(c).tasks[arg[c]] # 0
  /\ pc[c] \in {"change", "raw"} /\ "raw" \in blind[c] => Meaning(main).raw = {}
  /\ pc[c] \in Writing =>
       body[c] = File("json", loaded[c].tasks,
                      {x \in Atomic!Seen(Meaning(main), blind[c] \ {"tasks"}).raw :
                         loaded[c].tasks[x] = 0},
                      loaded[c].settings)
  /\ pc[c] = "rename" => tmp[name[c]] = body[c]
  /\ pc[c] = "read" => blind[c] = {} /\ c \notin repair
  /\ pc[c] \in {"idle", "mutex", "lock"} => blind[c] = {} /\ c \notin repair

Inv == LockInv /\ FileInv /\ ResultInv /\ NoResultInv /\ \A c \in Calls : CallInv(c)

-----------------------------------------------------------------------------
LEMMA Shapes ==
  /\ NoTasks \in [Ids -> 0 .. 2]
  /\ \A k \in {"absent", "odd", "partial"} : Blank(k) \in Files
  /\ \A f \in Files : Meaning(f) \in Atomic!Docs /\ Parsed(f) \in Atomic!Docs
  /\ \A d \in Atomic!Docs, r \in SUBSET Ids : File("json", d.tasks, r, d.settings) \in Files
  /\ NoName \in Names /\ Names # {}
<1>1. NoTasks \in [Ids -> 0 .. 2]
  BY DEF NoTasks
<1>2. \A k \in {"absent", "odd", "partial"} : Blank(k) \in Files
  BY <1>1 DEF Blank, File, Files
<1>3. ASSUME NEW f \in Files
      PROVE  Meaning(f) \in Atomic!Docs /\ Parsed(f) \in Atomic!Docs
  <2>1. f.tasks \in [Ids -> 0 .. 2] /\ f.raw \subseteq Ids
    BY DEF Files
  <2>2. Meaning(f) \in Atomic!Docs
    BY <2>1, <1>1 DEF Meaning, Atomic!Docs, NoTasks
  <2>3. QED
    BY <2>2 DEF Parsed, Atomic!Docs
<1>4. ASSUME NEW d \in Atomic!Docs, NEW r \in SUBSET Ids
      PROVE  File("json", d.tasks, r, d.settings) \in Files
  BY DEF Atomic!Docs, File, Files
<1>5. NoName \in Names /\ Names # {}
  <2>1. PICK p \in Procs : TRUE
    BY StoreAssumption
  <2>2. PICK f \in [Procs -> Pids] : TRUE
    BY StoreAssumption
  <2>3. <<f[p], 0>> \in Names
    BY <2>1, <2>2, StoreAssumption DEF Names
  <2>4. QED
    BY <2>3 DEF NoName
<1>6. QED
  BY <1>1, <1>2, <1>3, <1>4, <1>5

LEMMA ChangedIs ==
  ASSUME NEW k \in Atomic!Ops, NEW x \in Ids, NEW d \in Atomic!Docs
  PROVE  Changed(k, x, d) \in Atomic!Docs
<1>1. Version(k) \in 0 .. 2
  BY DEF Version
<1>2. d.tasks \in [Ids -> 0 .. 2] /\ d.raw \subseteq Ids /\ d.settings \in {"off", "on"}
  BY DEF Atomic!Docs
<1>3. [d.tasks EXCEPT ![x] = Version(k)] \in [Ids -> 0 .. 2]
  BY <1>1, <1>2
<1>4. QED
  BY <1>2, <1>3 DEF Changed, Atomic!Docs

LEMMA TypeInit == Init => TypeOK
<1> SUFFICES ASSUME Init
             PROVE  TypeOK
  OBVIOUS
<1>1. main \in Files
  BY Shapes DEF Init, File, Files
<1>2. pid \in [Procs -> Pids]
  <2>1. PICK f \in [Procs -> Pids] : \A p, q \in Procs : p # q => f[p] # f[q]
    BY StoreAssumption
  <2>2. QED
    BY <2>1 DEF Init
<1>3. QED
  BY <1>1, <1>2, Shapes, StoreAssumption DEF Init, TypeOK, Atomic!Ops, Holding

LEMMA TypeStep ==
  ASSUME TypeOK, [Next]_vars
  PROVE  TypeOK'
<1> USE Shapes, StoreAssumption
    DEF TypeOK, dirVars, lockVars, procVars, callVars, dataVars, outVars, To,
        Return,
        NoFault, Fault, Holding
<1>1. ASSUME NEW c \in Calls, NEW p \in Procs, NEW k \in Atomic!Ops, NEW x \in Ids,
             Begin(c, p, k, x)
      PROVE  TypeOK'
  BY <1>1 DEF Begin
<1>2. ASSUME NEW c \in Calls, GetMutex(c) \/ GetFileLock(c) \/ LockFails(c) \/ ReadFails(c)
      PROVE  TypeOK'
  <2>1. CASE GetMutex(c)
    BY <2>1 DEF GetMutex
  <2>2. CASE GetFileLock(c)
    BY <2>2 DEF GetFileLock
  <2>3. CASE LockFails(c) \/ ReadFails(c)
    BY <2>3 DEF LockFails, ReadFails
  <2>4. QED
    BY <1>2, <2>1, <2>2, <2>3
<1>3. ASSUME NEW c \in Calls, StatFails(c) \/ ReadFile(c)
      PROVE  TypeOK'
  <2>1. CASE StatFails(c)
    BY <2>1 DEF StatFails, Atomic!Parts
  <2>2. CASE ReadFile(c)
    BY SMTT(30), <2>2 DEF ReadFile, Atomic!Parts
  <2>3. QED
    BY <1>3, <2>1, <2>2
<1>4. ASSUME NEW c \in Calls, Quarantine(c) \/ Repair(c)
      PROVE  TypeOK'
  BY <1>4 DEF Quarantine, Repair, CopyAside
<1>5. ASSUME NEW c \in Calls, LoadOnly(c) \/ Refuse(c)
      PROVE  TypeOK'
  <2>1. CASE LoadOnly(c)
    BY <2>1 DEF LoadOnly
  <2>2. CASE Refuse(c)
    BY <2>2 DEF Refuse
  <2>3. QED
    BY <1>5, <2>1, <2>2
<1>6. ASSUME NEW c \in Calls, Modify(c)
      PROVE  TypeOK'
  <2>1. Changed(op[c], arg[c], loaded[c]) \in Atomic!Docs
    BY ChangedIs
  <2>2. QED
    BY <1>6, <2>1 DEF Modify
<1>7. ASSUME NEW c \in Calls, AddRaw(c)
      PROVE  TypeOK'
  <2>1. KeepsRaw(loaded[c]) \subseteq Ids
    BY DEF KeepsRaw, Atomic!Docs
  <2>2. /\ File("json", loaded[c].tasks, KeepsRaw(loaded[c]), loaded[c].settings) \in Files
        /\ File("json", loaded[c].tasks, {}, loaded[c].settings) \in Files
    BY <2>1, loaded[c] \in Atomic!Docs
  <2>3. QED
    BY <1>7, <2>2 DEF AddRaw, Atomic!Parts
<1>8. ASSUME NEW c \in Calls, Create(c)
      PROVE  TypeOK'
  <2>1. <<pid[proc[c]], seq[proc[c]]>> \in Names
    BY DEF Names
  <2>2. seq' \in [Procs -> 0 .. MaxSeq]
    BY <1>8 DEF Create
  <2> DEFINE n == <<pid[proc[c]], seq[proc[c]]>>
  <2>3. tmp' \in [Names -> Files] /\ name' \in [Calls -> Names]
    <3>1. /\ tmp' = [tmp EXCEPT ![n] = Blank("partial")] \/ tmp' = tmp
          /\ name' = [name EXCEPT ![c] = n]
      BY <1>8 DEF Create
    <3>2. n \in Names /\ Blank("partial") \in Files
      BY <2>1
    <3> HIDE DEF n
    <3>3. QED
      BY <3>1, <3>2
  <2>4. /\ UNCHANGED <<main, backups, lockVars, up, pid, callVars, loaded, body, repair,
                       got, blind, ends>>
        /\ pc' \in {[pc EXCEPT ![c] = "write"], [pc EXCEPT ![c] = "unlock"]}
        /\ result' \in {result, [result EXCEPT ![c] = "error"]}
        /\ faults' \in Nat
    BY <1>8 DEF Create
  <2>5. QED
    BY <2>2, <2>3, <2>4
<1>9. ASSUME NEW c \in Calls, Write(c) \/ WriteFails(c) \/ RenameFails(c)
      PROVE  TypeOK'
  <2>1. CASE Write(c)
    BY <2>1 DEF Write
  <2>2. ASSUME GiveUp(c)
        PROVE  TypeOK'
    BY <2>2 DEF GiveUp
  <2>3. QED
    BY <1>9, <2>1, <2>2 DEF WriteFails, WriteError, RenameFails
<1>10. ASSUME NEW c \in Calls, Rename(c)
      PROVE  TypeOK'
  BY <1>10 DEF Rename
<1>11. ASSUME NEW c \in Calls, DropFileLock(c) \/ DropMutex(c)
      PROVE  TypeOK'
  <2>1. CASE DropFileLock(c)
    BY <2>1 DEF DropFileLock
  <2>2. CASE DropMutex(c)
    BY <2>2 DEF DropMutex, Unwind
  <2>3. QED
    BY <1>11, <2>1, <2>2
<1>12. ASSUME NEW p \in Procs, Exit(p)
      PROVE  TypeOK'
  BY <1>12 DEF Exit, LockGoes, InFlight, Unwind
<1>13. ASSUME NEW p \in Procs, NEW i \in Pids, Start(p, i)
      PROVE  TypeOK'
  BY <1>13 DEF Start
<1>14. CASE UNCHANGED vars
  BY <1>14 DEF vars
<1>15. QED
  BY <1>1, <1>2, <1>3, <1>4, <1>5, <1>6, <1>7, <1>8, <1>9, <1>10, <1>11, <1>12, <1>13, <1>14
  DEF Next, Step

(* Type correctness of every reachable state.                               *)
THEOREM TypeCorrect == Spec => []TypeOK
<1>1. QED
  BY TypeInit, TypeStep, PTL DEF Spec

-----------------------------------------------------------------------------
LEMMA InvInit == Init => Inv
BY DEF Init, Inv, LockInv, FileInv, ResultInv, NoResultInv, CallInv, Holding, Writing,
       Blank, File

(* What a call knows stays true while it and the files stay as they are.    *)
LEMMA Still ==
  ASSUME NEW c \in Calls, CallInv(c), UNCHANGED <<main, tmp, backups>>,
         pc'[c] = pc[c], loaded'[c] = loaded[c], body'[c] = body[c],
         name'[c] = name[c], blind'[c] = blind[c], op'[c] = op[c], arg'[c] = arg[c],
         c \in repair' <=> c \in repair
  PROVE  CallInv(c)'
<1>1. Own(c)' = Own(c)
  BY DEF Own
<1>2. QED
  BY <1>1 DEF CallInv

(* A step of one call, e, leaves what the others know true: they are not    *)
(* inside, or it is not and leaves the files alone.                         *)
LEMMA Others ==
  ASSUME TypeOK, Inv, NEW e \in Calls, NEW c \in Calls, c # e,
         pc'[c] = pc[c], loaded'[c] = loaded[c], body'[c] = body[c],
         name'[c] = name[c], blind'[c] = blind[c], op'[c] = op[c], arg'[c] = arg[c],
         c \in repair' <=> c \in repair,
         pc[e] \in Holding \/ UNCHANGED <<main, tmp, backups>>
  PROVE  CallInv(c)'
<1>1. CASE pc[c] \in Holding
  <2>1. pc[e] \notin Holding
    BY <1>1 DEF Inv, LockInv
  <2>2. UNCHANGED <<main, tmp, backups>>
    BY <2>1
  <2>3. CallInv(c)
    BY DEF Inv
  <2>4. QED
    BY <2>2, <2>3, Still
<1>2. CASE pc[c] \notin Holding
  <2>1. CallInv(c)
    BY DEF Inv
  <2>2. QED
    BY <1>2, <2>1 DEF CallInv, Holding, Writing
<1>3. QED
  BY <1>1, <1>2

(* The parts of Inv that do not look at the files, for a step of call e     *)
(* that leaves the locks alone.                                             *)
LEMMA SameLocks ==
  ASSUME TypeOK, Inv, NEW e \in Calls, NEW p, NEW r,
         pc' = [pc EXCEPT ![e] = p], fileLock' = fileLock,
         \/ pc[e] \in Holding /\ p \in Holding /\ UNCHANGED result
         \/ /\ pc[e] \in Holding /\ p = "unlock"
            /\ r # "none" /\ result' = [result EXCEPT ![e] = r]
         \/ pc[e] = "lock" /\ p = "unlock" /\ r # "none" /\ result' = [result EXCEPT ![e] = r]
         \/ pc[e] = "mutex" /\ p = "lock" /\ UNCHANGED result
         \/ pc[e] = "idle" /\ p = "mutex" /\ UNCHANGED result
         \/ pc[e] = "leave" /\ p = "done" /\ UNCHANGED result
  PROVE  LockInv' /\ ResultInv' /\ NoResultInv'
<1> USE DEF TypeOK, Inv, LockInv, Holding
<1>1. LockInv'
  OBVIOUS
<1>2. ResultInv'
  BY DEF ResultInv
<1>3. NoResultInv'
  BY DEF NoResultInv
<1>4. QED
  BY <1>1, <1>2, <1>3

LEMMA Unmoved ==
  ASSUME Inv, UNCHANGED <<dirVars, lockVars, pc, callVars, dataVars, outVars>>
  PROVE  Inv'
<1>1. LockInv' /\ FileInv' /\ ResultInv' /\ NoResultInv'
  BY DEF Inv, LockInv, FileInv, ResultInv, NoResultInv, dirVars, lockVars, outVars
<1>2. ASSUME NEW c \in Calls
      PROVE  CallInv(c)'
  BY Still DEF Inv, dirVars, callVars, dataVars, outVars
<1>3. QED
  BY <1>1, <1>2 DEF Inv

(* Inv is preserved by every step.                                          *)
LEMMA InvStep ==
  ASSUME TypeOK, TypeOK', Inv, [Next]_vars
  PROVE  Inv'
<1>1. ASSUME NEW c \in Calls, NEW p \in Procs, NEW k \in Atomic!Ops, NEW x \in Ids,
             Begin(c, p, k, x)
      PROVE  Inv'
  <2>1. LockInv' /\ ResultInv' /\ NoResultInv'
    <3>1. pc' = [pc EXCEPT ![c] = "mutex"] /\ fileLock' = fileLock /\ result' = result
      BY ONLY <1>1 DEF Begin, To, Return, lockVars, outVars
    <3>2. QED
      BY ONLY <1>1, <3>1, TypeOK, Inv, SameLocks, c \in Calls DEF Begin, Holding
  <2>2. FileInv' /\ main' = main
    BY <1>1 DEF Begin, dirVars, Inv, FileInv
  <2>3. \A e \in Calls \ {c} : CallInv(e)'
    BY ONLY <1>1, TypeOK, Inv, Others, c \in Calls
    DEF Begin, To, Return, TypeOK, dirVars, dataVars, callVars, outVars, lockVars,
        Holding
  <2>4. CallInv(c)'
    BY <1>1, <2>2
    DEF Begin, To, Return, dirVars, dataVars, callVars, outVars, Inv, CallInv, Own,
        TypeOK, Holding, Writing
  <2>5. QED
    BY <2>1, <2>2, <2>3, <2>4 DEF Inv
<1>2. ASSUME NEW c \in Calls, GetMutex(c)
      PROVE  Inv'
  <2>1. LockInv' /\ ResultInv' /\ NoResultInv'
    <3>1. pc' = [pc EXCEPT ![c] = "lock"] /\ fileLock' = fileLock /\ result' = result
      BY ONLY <1>2 DEF GetMutex, To, Return, lockVars, outVars
    <3>2. QED
      BY ONLY <1>2, <3>1, TypeOK, Inv, SameLocks, c \in Calls DEF GetMutex, Holding
  <2>2. FileInv' /\ main' = main
    BY <1>2 DEF GetMutex, dirVars, Inv, FileInv
  <2>3. \A e \in Calls \ {c} : CallInv(e)'
    BY ONLY <1>2, TypeOK, Inv, Others, c \in Calls
    DEF GetMutex, To, Return, TypeOK, dirVars, dataVars, callVars, outVars,
        lockVars, Holding
  <2>4. CallInv(c)'
    BY <1>2, <2>2
    DEF GetMutex, To, Return, dirVars, dataVars, callVars, outVars, Inv, CallInv,
        Own, TypeOK, Holding, Writing
  <2>5. QED
    BY <2>1, <2>2, <2>3, <2>4 DEF Inv
<1>3. ASSUME NEW c \in Calls, GetFileLock(c)
      PROVE  Inv'
  <2>1. LockInv' /\ ResultInv' /\ NoResultInv'
    <3>1. /\ pc[c] = "lock" /\ pc' = [pc EXCEPT ![c] = "read"] /\ result' = result
          /\ fileLock = {} /\ fileLock' = {c}
      BY <1>3 DEF GetFileLock, LockFree, To, outVars
    <3>2. QED
      BY <3>1 DEF TypeOK, Inv, LockInv, ResultInv, NoResultInv, Holding
  <2>2. FileInv' /\ main' = main
    BY <1>3 DEF GetFileLock, dirVars, Inv, FileInv
  <2>3. \A e \in Calls \ {c} : CallInv(e)'
    BY ONLY <1>3, TypeOK, Inv, Others, c \in Calls
    DEF GetFileLock, To, TypeOK, dirVars, dataVars, callVars, outVars, Holding
  <2>4. CallInv(c)'
    BY <1>3, <2>2
    DEF GetFileLock, To, dirVars, dataVars, callVars, outVars, Inv, CallInv, Own,
                      TypeOK, Holding, Writing
  <2>5. QED
    BY <2>1, <2>2, <2>3, <2>4 DEF Inv
<1>4. ASSUME NEW c \in Calls, LockFails(c)
      PROVE  Inv'
  <2>1. LockInv' /\ ResultInv' /\ NoResultInv'
    <3>1. /\ pc' = [pc EXCEPT ![c] = "unlock"] /\ fileLock' = fileLock
          /\ result' = [result EXCEPT ![c] = "error"]
      BY ONLY <1>4 DEF LockFails, To, Return, lockVars, outVars
    <3>2. QED
      BY ONLY <1>4, <3>1, TypeOK, Inv, SameLocks, c \in Calls DEF LockFails, Holding
  <2>2. FileInv' /\ main' = main
    BY <1>4 DEF LockFails, dirVars, Inv, FileInv
  <2>3. \A e \in Calls \ {c} : CallInv(e)'
    BY ONLY <1>4, TypeOK, Inv, Others, c \in Calls
    DEF LockFails, To, Return, TypeOK, dirVars, dataVars, callVars, outVars,
        lockVars, Holding
  <2>4. CallInv(c)'
    BY <1>4, <2>2
    DEF LockFails, To, Return, dirVars, dataVars, callVars, outVars, Inv, CallInv,
        Own, TypeOK, Holding, Writing
  <2>5. QED
    BY <2>1, <2>2, <2>3, <2>4 DEF Inv
<1>5. ASSUME NEW c \in Calls, ReadFails(c)
      PROVE  Inv'
  <2>1. LockInv' /\ ResultInv' /\ NoResultInv'
    <3>1. /\ pc' = [pc EXCEPT ![c] = "unlock"] /\ fileLock' = fileLock
          /\ result' = [result EXCEPT ![c] = "error"]
      BY ONLY <1>5 DEF ReadFails, To, Return, lockVars, outVars
    <3>2. QED
      BY ONLY <1>5, <3>1, TypeOK, Inv, SameLocks, c \in Calls DEF ReadFails, Holding
  <2>2. FileInv' /\ main' = main
    BY <1>5 DEF ReadFails, dirVars, Inv, FileInv
  <2>3. \A e \in Calls \ {c} : CallInv(e)'
    BY ONLY <1>5, TypeOK, Inv, Others, c \in Calls
    DEF ReadFails, To, Return, TypeOK, dirVars, dataVars, callVars, outVars,
        lockVars, Holding
  <2>4. CallInv(c)'
    BY <1>5, <2>2
    DEF ReadFails, To, Return, dirVars, dataVars, callVars, outVars, Inv, CallInv,
        Own, TypeOK, Holding, Writing
  <2>5. QED
    BY <2>1, <2>2, <2>3, <2>4 DEF Inv
<1>6. ASSUME NEW c \in Calls, StatFails(c)
      PROVE  Inv'
  <2>1. LockInv' /\ ResultInv' /\ NoResultInv'
    <3>1. pc' = [pc EXCEPT ![c] = "change"] /\ fileLock' = fileLock /\ result' = result
      BY ONLY <1>6 DEF StatFails, To, Return, lockVars, outVars
    <3>2. QED
      BY ONLY <1>6, <3>1, TypeOK, Inv, SameLocks, c \in Calls DEF StatFails, Holding
  <2>2. FileInv' /\ main' = main
    BY <1>6 DEF StatFails, dirVars, Inv, FileInv
  <2>3. \A e \in Calls \ {c} : CallInv(e)'
    BY ONLY <1>6, TypeOK, Inv, Others, c \in Calls
    DEF StatFails, To, Return, TypeOK, dirVars, dataVars, callVars, outVars,
        lockVars, Holding
  <2>4. CallInv(c)'
    <3>1. /\ pc'[c] = "change" /\ c \notin repair'
          /\ blind'[c] = {"tasks"} /\ "tasks" \in blind'[c] /\ "raw" \notin blind'[c]
          /\ loaded'[c] = Parsed(Blank("absent"))
      BY <1>6 DEF StatFails, To, Inv, CallInv, TypeOK
    <3>2. loaded'[c] = Atomic!Seen(Meaning(main'), blind'[c] \cup {"raw"})
      BY <3>1
      DEF Atomic!Seen, Atomic!Doc, Atomic!NoTasks, Parsed, Meaning, Blank, File
    <3>3. QED
      BY <3>1, <3>2 DEF CallInv, Own, Writing
  <2>5. QED
    BY <2>1, <2>2, <2>3, <2>4 DEF Inv
<1>7. ASSUME NEW c \in Calls, ReadFile(c)
      PROVE  Inv'
  <2>1. LockInv' /\ ResultInv' /\ NoResultInv'
    <3>1. pc' = [pc EXCEPT ![c] = "change"] /\ fileLock' = fileLock /\ result' = result
      BY ONLY <1>7 DEF ReadFile, To, Return, lockVars, outVars
    <3>2. QED
      BY ONLY <1>7, <3>1, TypeOK, Inv, SameLocks, c \in Calls DEF ReadFile, Holding
  <2>2. FileInv' /\ main' = main
    BY <1>7 DEF ReadFile, dirVars, Inv, FileInv
  <2>3. \A e \in Calls \ {c} : CallInv(e)'
    BY ONLY <1>7, TypeOK, Inv, Others, c \in Calls
    DEF ReadFile, To, Return, TypeOK, dirVars, dataVars, callVars, outVars,
        lockVars, Holding
  <2>4. CallInv(c)'
    <3>1. /\ pc'[c] = "change" /\ blind'[c] = {} /\ c \notin repair'
          /\ "raw" \notin blind'[c] /\ loaded'[c] = Parsed(main)
          /\ main'.kind # "odd" /\ main'.settings # "bad"
      BY <1>7, <2>2 DEF ReadFile, To, Inv, CallInv, TypeOK, outVars
    <3>2. loaded'[c] = Atomic!Seen(Meaning(main'), blind'[c] \cup {"raw"})
      BY <3>1, <2>2 DEF Atomic!Seen, Atomic!Doc, Parsed, Meaning
    <3>3. QED
      BY <3>1, <3>2 DEF CallInv, Own, Writing
  <2>5. QED
    BY <2>1, <2>2, <2>3, <2>4 DEF Inv
<1>8. ASSUME NEW c \in Calls, Quarantine(c)
      PROVE  Inv'
  <2>1. LockInv' /\ ResultInv' /\ NoResultInv'
    <3>1. pc' = [pc EXCEPT ![c] = "change"] /\ fileLock' = fileLock /\ result' = result
      BY ONLY <1>8 DEF Quarantine, To, lockVars, outVars
    <3>2. QED
      BY ONLY <1>8, <3>1, TypeOK, Inv, SameLocks, c \in Calls
      DEF Quarantine, Holding
  <2>2. FileInv'
    BY <1>8 DEF Quarantine, FileInv, Blank, File
  <2>3. \A e \in Calls \ {c} : CallInv(e)'
    BY ONLY <1>8, TypeOK, Inv, Others, c \in Calls
    DEF Quarantine, To, TypeOK, dataVars, callVars, outVars, lockVars, Holding
  <2>4. CallInv(c)'
    <3>1. /\ pc'[c] = "change" /\ blind'[c] = {} /\ c \notin repair'
          /\ main' = Blank("absent") /\ loaded'[c] = Parsed(Blank("absent"))
      BY <1>8 DEF Quarantine, To, outVars, Inv, CallInv, TypeOK
    <3>2. loaded'[c] = Atomic!Seen(Meaning(main'), blind'[c] \cup {"raw"})
      BY <3>1 DEF Atomic!Seen, Atomic!Doc, Parsed, Meaning, Blank, File
    <3>3. main'.kind = "absent" /\ main'.settings = "off" /\ "raw" \notin blind'[c]
      BY <3>1 DEF Blank, File
    <3>4. QED
      BY <3>1, <3>2, <3>3 DEF CallInv, Own, Writing
  <2>5. QED
    BY <2>1, <2>2, <2>3, <2>4 DEF Inv
<1>9. ASSUME NEW c \in Calls, Repair(c)
      PROVE  Inv'
  <2>1. LockInv' /\ ResultInv' /\ NoResultInv'
    <3>1. pc' = [pc EXCEPT ![c] = "raw"] /\ fileLock' = fileLock /\ result' = result
      BY ONLY <1>9 DEF Repair, To, Return, lockVars, outVars
    <3>2. QED
      BY ONLY <1>9, <3>1, TypeOK, Inv, SameLocks, c \in Calls DEF Repair, Holding
  <2>2. FileInv' /\ main' = main
    BY <1>9 DEF Repair, dirVars, Inv, FileInv
  <2>3. \A e \in Calls \ {c} : CallInv(e)'
    BY ONLY <1>9, TypeOK, Inv, Others, c \in Calls
    DEF Repair, To, Return, TypeOK, dirVars, dataVars, callVars, outVars, lockVars,
        Holding
  <2>4. CallInv(c)'
    BY <1>9, <2>2
    DEF Repair, CopyAside, To, outVars, Inv, CallInv, Own, TypeOK, Holding, Writing
  <2>5. QED
    BY <2>1, <2>2, <2>3, <2>4 DEF Inv
<1>10. ASSUME NEW c \in Calls, LoadOnly(c)
      PROVE  Inv'
  <2>1. LockInv' /\ ResultInv' /\ NoResultInv'
    <3>1. /\ pc' = [pc EXCEPT ![c] = "unlock"] /\ fileLock' = fileLock
          /\ result' = [result EXCEPT ![c] = "ok"]
      BY ONLY <1>10 DEF LoadOnly, To, Return, lockVars, outVars
    <3>2. QED
      BY ONLY <1>10, <3>1, TypeOK, Inv, SameLocks, c \in Calls DEF LoadOnly, Holding
  <2>2. FileInv' /\ main' = main
    BY <1>10 DEF LoadOnly, dirVars, Inv, FileInv
  <2>3. \A e \in Calls \ {c} : CallInv(e)'
    BY ONLY <1>10, TypeOK, Inv, Others, c \in Calls
    DEF LoadOnly, To, Return, TypeOK, dirVars, dataVars, callVars, outVars,
        lockVars, Holding
  <2>4. CallInv(c)'
    BY <1>10, <2>2
    DEF LoadOnly, To, Return, dirVars, dataVars, callVars, outVars, Inv, CallInv,
        Own, TypeOK, Holding, Writing
  <2>5. QED
    BY <2>1, <2>2, <2>3, <2>4 DEF Inv
<1>11. ASSUME NEW c \in Calls, Refuse(c)
      PROVE  Inv'
  <2>1. LockInv' /\ ResultInv' /\ NoResultInv'
    <3>1. /\ pc' = [pc EXCEPT ![c] = "unlock"] /\ fileLock' = fileLock
          /\ result' = [result EXCEPT ![c] = "error"]
      BY ONLY <1>11 DEF Refuse, To, Return, lockVars, outVars
    <3>2. QED
      BY ONLY <1>11, <3>1, TypeOK, Inv, SameLocks, c \in Calls DEF Refuse, Holding
  <2>2. FileInv' /\ main' = main
    BY <1>11 DEF Refuse, dirVars, Inv, FileInv
  <2>3. \A e \in Calls \ {c} : CallInv(e)'
    BY ONLY <1>11, TypeOK, Inv, Others, c \in Calls
    DEF Refuse, To, Return, TypeOK, dirVars, dataVars, callVars, outVars, lockVars,
        Holding
  <2>4. CallInv(c)'
    BY <1>11, <2>2
    DEF Refuse, To, Return, dirVars, dataVars, callVars, outVars, Inv, CallInv, Own,
        TypeOK, Holding, Writing
  <2>5. QED
    BY <2>1, <2>2, <2>3, <2>4 DEF Inv
<1>12. ASSUME NEW c \in Calls, Modify(c)
      PROVE  Inv'
  <2>1. LockInv' /\ ResultInv' /\ NoResultInv'
    <3>1. pc' = [pc EXCEPT ![c] = "raw"] /\ fileLock' = fileLock /\ result' = result
      BY ONLY <1>12 DEF Modify, To, Return, lockVars, outVars
    <3>2. QED
      BY ONLY <1>12, <3>1, TypeOK, Inv, SameLocks, c \in Calls DEF Modify, Holding
  <2>2. FileInv' /\ main' = main
    BY <1>12 DEF Modify, dirVars, Inv, FileInv
  <2>3. \A e \in Calls \ {c} : CallInv(e)'
    BY ONLY <1>12, TypeOK, Inv, Others, c \in Calls
    DEF Modify, To, Return, TypeOK, dirVars, dataVars, callVars, outVars, lockVars,
        Holding
  <2>4. CallInv(c)'
    <3>1. /\ pc[c] = "change" /\ pc'[c] = "raw" /\ CallInv(c) /\ Own(c)' = Own(c)
          /\ op[c] # "load" /\ (op[c] = "edit" => loaded[c].tasks[arg[c]] # 0)
          /\ loaded'[c] = Changed(op[c], arg[c], loaded[c])
          /\ UNCHANGED <<dirVars, callVars, repair, outVars>>
      BY <1>12, <2>2 DEF Modify, To, Inv, TypeOK, Own, outVars
    <3>2. QED
      BY <3>1 DEF CallInv, Writing, dirVars, callVars, outVars
  <2>5. QED
    BY <2>1, <2>2, <2>3, <2>4 DEF Inv
<1>13. ASSUME NEW c \in Calls, AddRaw(c)
      PROVE  Inv'
  <2>1. LockInv' /\ ResultInv' /\ NoResultInv'
    <3>1. pc' = [pc EXCEPT ![c] = "create"] /\ fileLock' = fileLock /\ result' = result
      BY ONLY <1>13 DEF AddRaw, To, Return, lockVars, outVars
    <3>2. QED
      BY ONLY <1>13, <3>1, TypeOK, Inv, SameLocks, c \in Calls DEF AddRaw, Holding
  <2>2. FileInv' /\ main' = main
    BY <1>13 DEF AddRaw, dirVars, Inv, FileInv
  <2>3. \A e \in Calls \ {c} : CallInv(e)'
    BY ONLY <1>13, TypeOK, Inv, Others, c \in Calls
    DEF AddRaw, To, Return, TypeOK, dirVars, dataVars, callVars, outVars, lockVars,
        Holding
  <2>4. CallInv(c)'
    <3>1. /\ pc[c] = "raw" /\ pc'[c] = "create" /\ UNCHANGED <<loaded, repair, callVars, backups>>
          /\ CallInv(c)
      BY <1>13 DEF AddRaw, To, Inv, TypeOK, dirVars
    <3>2. /\ blind'[c] \cup {"raw"} = blind[c] \cup {"raw"}
          /\ "tasks" \in blind'[c] <=> "tasks" \in blind[c]
      BY <1>13 DEF AddRaw, TypeOK
    <3>3. Own(c)' = Own(c)
      BY <2>2, <3>2 DEF Own
    <3>4. body'[c] = File("json", loaded[c].tasks,
                          {x \in Atomic!Seen(Meaning(main), blind'[c] \ {"tasks"}).raw :
                             loaded[c].tasks[x] = 0},
                          loaded[c].settings)
      <4>1. CASE /\ body' = [body EXCEPT ![c] = File("json", loaded[c].tasks,
                                             KeepsRaw(loaded[c]), loaded[c].settings)]
                 /\ blind' = blind
        <5>1. Atomic!Seen(Meaning(main), blind[c] \ {"tasks"}).raw = Meaning(main).raw
          BY <3>1 DEF CallInv, Atomic!Seen, Atomic!Doc
        <5>2. QED
          BY <4>1, <5>1 DEF KeepsRaw, TypeOK
      <4>2. CASE /\ body' = [body EXCEPT ![c] = File("json", loaded[c].tasks, {},
                                                   loaded[c].settings)]
                 /\ blind' = [blind EXCEPT ![c] = @ \cup {"raw"}]
        <5>1. Atomic!Seen(Meaning(main), blind'[c] \ {"tasks"}).raw = {}
          BY <4>2 DEF Atomic!Seen, Atomic!Doc, TypeOK
        <5>2. QED
          BY <4>2, <5>1 DEF TypeOK
      <4>3. QED
        BY <1>13, <4>1, <4>2 DEF AddRaw
    <3>5. QED
      BY <2>2, <3>1, <3>2, <3>3, <3>4 DEF CallInv, callVars, Writing
  <2>5. QED
    BY <2>1, <2>2, <2>3, <2>4 DEF Inv
<1>14. ASSUME NEW c \in Calls, Create(c)
      PROVE  Inv'
  <2>1. LockInv' /\ ResultInv' /\ NoResultInv'
    <3>1. /\ \/ pc' = [pc EXCEPT ![c] = "write"] /\ result' = result
             \/ /\ pc' = [pc EXCEPT ![c] = "unlock"]
                /\ result' = [result EXCEPT ![c] = "error"]
          /\ fileLock' = fileLock /\ pc[c] = "create"
      BY ONLY <1>14 DEF Create, To, Return, lockVars
    <3>2. QED
      BY ONLY <3>1, TypeOK, Inv, SameLocks, c \in Calls DEF Holding
  <2>2. FileInv' /\ main' = main
    BY <1>14 DEF Create, Inv, FileInv
  <2>3. /\ pc[c] = "create"
        /\ pc' = [pc EXCEPT ![c] = "write"] \/ pc' = [pc EXCEPT ![c] = "unlock"]
        /\ UNCHANGED <<loaded, body, repair, blind, callVars, backups>>
        /\ \E n \in Names : name' = [name EXCEPT ![c] = n]
    <3>1. <<pid[proc[c]], seq[proc[c]]>> \in Names
      BY DEF TypeOK, Names
    <3>2. QED
      BY ONLY <1>14, <3>1 DEF Create, To, Return, callVars
  <2>4. \A e \in Calls \ {c} : CallInv(e)'
    BY ONLY <2>3, TypeOK, Inv, Others, c \in Calls DEF TypeOK, callVars, Holding
  <2>5. CallInv(c)'
    <3>1. CallInv(c) /\ pc'[c] \in {"write", "unlock"} /\ Own(c)' = Own(c)
      BY <2>2, <2>3 DEF Inv, TypeOK, Own
    <3>2. QED
      BY <2>2, <2>3, <3>1 DEF callVars, CallInv, Writing
  <2>6. QED
    BY <2>1, <2>2, <2>4, <2>5 DEF Inv
<1>15. ASSUME NEW c \in Calls, Write(c)
      PROVE  Inv'
  <2>1. LockInv' /\ ResultInv' /\ NoResultInv'
    <3>1. pc' = [pc EXCEPT ![c] = "rename"] /\ fileLock' = fileLock /\ result' = result
      BY ONLY <1>15 DEF Write, To, Return, lockVars, outVars
    <3>2. QED
      BY ONLY <1>15, <3>1, TypeOK, Inv, SameLocks, c \in Calls DEF Write, Holding
  <2>2. FileInv' /\ main' = main
    BY <1>15 DEF Write, dirVars, Inv, FileInv
  <2>3. \A e \in Calls \ {c} : CallInv(e)'
    BY ONLY <1>15, TypeOK, Inv, Others, c \in Calls
    DEF Write, To, Return, TypeOK, dirVars, dataVars, callVars, outVars, lockVars,
        Holding
  <2>4. CallInv(c)'
    <3>1. /\ pc[c] = "write" /\ pc'[c] = "rename" /\ CallInv(c) /\ Own(c)' = Own(c)
          /\ UNCHANGED <<callVars, dataVars, outVars, backups>>
      BY <1>15, <2>2 DEF Write, To, Inv, TypeOK, Own, outVars
    <3>2. tmp'[name'[c]] = body'[c]
      BY <1>15, <3>1 DEF Write, TypeOK, dataVars
    <3>3. QED
      BY <2>2, <3>1, <3>2 DEF callVars, dataVars, outVars, CallInv, Writing
  <2>5. QED
    BY <2>1, <2>2, <2>3, <2>4 DEF Inv
<1>16. ASSUME NEW c \in Calls, WriteFails(c) \/ RenameFails(c)
      PROVE  Inv'
  <2>1. pc[c] \in Holding /\ GiveUp(c)
    BY <1>16 DEF WriteFails, WriteError, RenameFails, Holding
  <2>2. LockInv' /\ ResultInv' /\ NoResultInv'
    <3>1. /\ pc' = [pc EXCEPT ![c] = "unlock"] /\ fileLock' = fileLock
          /\ result' = [result EXCEPT ![c] = "error"]
      BY ONLY <2>1 DEF GiveUp, To, Return, lockVars
    <3>2. QED
      BY ONLY <2>1, <3>1, TypeOK, Inv, SameLocks, c \in Calls
  <2>3. FileInv' /\ main' = main
    BY <2>1 DEF GiveUp, Inv, FileInv
  <2>4. \A e \in Calls \ {c} : CallInv(e)'
    BY ONLY <2>1, TypeOK, Inv, Others, c \in Calls
    DEF GiveUp, To, Return, TypeOK, dataVars, callVars
  <2>5. CallInv(c)'
    BY <2>1 DEF GiveUp, To, Return, CallInv, TypeOK, Writing
  <2>6. QED
    BY <2>2, <2>3, <2>4, <2>5 DEF Inv
<1>17. ASSUME NEW c \in Calls, Rename(c)
      PROVE  Inv'
  <2>1. LockInv' /\ ResultInv' /\ NoResultInv'
    <3>1. /\ \/ pc' = [pc EXCEPT ![c] = "change"] /\ result' = result
             \/ pc' = [pc EXCEPT ![c] = "unlock"] /\ result' = [result EXCEPT ![c] = "ok"]
          /\ fileLock' = fileLock /\ pc[c] = "rename"
      BY ONLY <1>17 DEF Rename, To, Return, lockVars
    <3>2. QED
      BY ONLY <3>1, TypeOK, Inv, SameLocks, c \in Calls DEF Holding
  <2>2. main' = body[c]
    BY <1>17 DEF Rename, Inv, CallInv
  <2>3. /\ main'.kind = "json" /\ main'.tasks = loaded[c].tasks
        /\ main'.raw = {x \in Atomic!Seen(Meaning(main), blind[c] \ {"tasks"}).raw :
                          loaded[c].tasks[x] = 0}
        /\ main'.settings = loaded[c].settings
    <3>1. body[c] = File("json", loaded[c].tasks,
                         {x \in Atomic!Seen(Meaning(main), blind[c] \ {"tasks"}).raw :
                            loaded[c].tasks[x] = 0},
                         loaded[c].settings)
      BY <1>17 DEF Rename, Inv, CallInv, Writing
    <3>2. QED
      BY <2>2, <3>1 DEF File
  <2>4. FileInv'
    BY <2>3 DEF FileInv
  <2>5. \A e \in Calls \ {c} : CallInv(e)'
    BY ONLY <1>17, TypeOK, Inv, Others, c \in Calls
    DEF Rename, To, Return, TypeOK, outVars, callVars, Holding
  <2>6. CallInv(c)'
    <3>1. CASE c \notin repair
      BY <1>17, <3>1 DEF Rename, To, Return, CallInv, TypeOK, Writing
    <3>2. CASE c \in repair
      <4>1. /\ pc'[c] = "change" /\ c \notin repair' /\ loaded' = loaded /\ blind' = blind
        BY <1>17, <3>2 DEF Rename, To, TypeOK
      <4>2. main.kind = "json" /\ loaded[c] = Parsed(main)
        BY <1>17, <3>2 DEF Rename, Inv, CallInv, Writing
      <4>3. QED
        <5>1. /\ Meaning(main').tasks = Meaning(main).tasks
              /\ Meaning(main').settings = Meaning(main).settings
          BY <2>3, <4>2 DEF Meaning, Parsed
        <5>2. loaded'[c] = Own(c)'
          <6>1. "tasks" \notin blind[c]
            BY <1>17, <3>2 DEF Rename, Inv, CallInv, Writing
          <6>2. QED
            BY <4>1, <4>2, <5>1, <6>1 DEF Own, Parsed, Atomic!Seen, Atomic!Doc
        <5>3. "raw" \in blind[c] => Meaning(main').raw = {}
          BY <2>3 DEF Meaning, Atomic!Seen, Atomic!Doc
        <5>4. main'.kind # "odd" /\ main'.settings # "bad"
          BY <2>3 DEF TypeOK, Atomic!Docs
        <5>5. QED
          BY <4>1, <5>2, <5>3, <5>4 DEF CallInv, Writing
    <3>3. QED
      BY <3>1, <3>2
  <2>7. QED
    BY <2>1, <2>4, <2>5, <2>6 DEF Inv
<1>18. ASSUME NEW c \in Calls, DropFileLock(c)
      PROVE  Inv'
  <2>1. LockInv' /\ ResultInv' /\ NoResultInv'
    BY <1>18
    DEF DropFileLock, To, outVars, TypeOK, Inv, LockInv, ResultInv, NoResultInv,
        Holding
  <2>2. FileInv' /\ main' = main
    BY <1>18 DEF DropFileLock, dirVars, Inv, FileInv
  <2>3. \A e \in Calls \ {c} : CallInv(e)'
    BY ONLY <1>18, TypeOK, Inv, Others, c \in Calls
    DEF DropFileLock, To, TypeOK, dirVars, dataVars, callVars, outVars
  <2>4. CallInv(c)'
    BY <1>18 DEF DropFileLock, To, CallInv, TypeOK, Writing
  <2>5. QED
    BY <2>1, <2>2, <2>3, <2>4 DEF Inv
<1>19. ASSUME NEW c \in Calls, DropMutex(c)
      PROVE  Inv'
  <2>1. LockInv' /\ ResultInv' /\ NoResultInv'
    <3>1. pc' = [pc EXCEPT ![c] = "done"] /\ fileLock' = fileLock /\ result' = result
      BY ONLY <1>19 DEF DropMutex, To, outVars
    <3>2. QED
      BY ONLY <1>19, <3>1, TypeOK, Inv, SameLocks, c \in Calls DEF DropMutex
  <2>2. FileInv' /\ main' = main
    BY <1>19 DEF DropMutex, dirVars, Inv, FileInv
  <2>3. \A e \in Calls \ {c} : CallInv(e)'
    BY ONLY <1>19, TypeOK, Inv, Others, c \in Calls
    DEF DropMutex, Unwind, To, TypeOK, dirVars, callVars, outVars
  <2>4. CallInv(c)'
    BY <1>19 DEF DropMutex, To, CallInv, TypeOK, Writing
  <2>5. QED
    BY <2>1, <2>2, <2>3, <2>4 DEF Inv
<1>20. ASSUME NEW p \in Procs, Exit(p)
      PROVE  Inv'
  <2>1. /\ pc' = [c \in Calls |-> IF c \in InFlight(p) THEN "lost" ELSE pc[c]]
        /\ fileLock' = fileLock \ InFlight(p) /\ UNCHANGED <<dirVars, callVars, outVars>>
        /\ \A c \in Calls \ InFlight(p) : /\ loaded'[c] = loaded[c] /\ body'[c] = body[c]
                                          /\ name'[c] = name[c]
        /\ repair' = repair \ InFlight(p)
    BY <1>20 DEF Exit, LockGoes, Unwind
  <2>2. LockInv'
    BY <2>1 DEF Inv, LockInv, Holding, TypeOK
  <2>3. ResultInv' /\ NoResultInv'
    BY <2>1 DEF Inv, ResultInv, NoResultInv, outVars, Holding
  <2>4. FileInv'
    BY <2>1 DEF Inv, FileInv, dirVars
  <2>5. ASSUME NEW c \in Calls
        PROVE  CallInv(c)'
    <3>1. CASE c \in InFlight(p)
      BY <2>1, <3>1 DEF CallInv, Writing
    <3>2. CASE c \notin InFlight(p)
      <4>1. /\ pc'[c] = pc[c] /\ (c \in repair' <=> c \in repair)
            /\ loaded'[c] = loaded[c] /\ body'[c] = body[c] /\ name'[c] = name[c]
            /\ UNCHANGED <<dirVars, callVars, outVars>>
        BY <2>1, <3>2
      <4>2. CallInv(c)
        BY DEF Inv
      <4>3. QED
        BY <4>1, <4>2, Still DEF dirVars, callVars, outVars
    <3>3. QED
      BY <3>1, <3>2
  <2>6. QED
    BY <2>2, <2>3, <2>4, <2>5 DEF Inv
<1>21. ASSUME NEW p \in Procs, NEW i \in Pids, Start(p, i)
      PROVE  Inv'
  <2>1. UNCHANGED <<dirVars, lockVars, pc, callVars, dataVars, outVars>>
    BY <1>21 DEF Start
  <2>2. QED
    BY <2>1, Unmoved
<1>22. CASE UNCHANGED vars
  BY <1>22, Unmoved DEF vars
<1>23. QED
  BY <1>1, <1>2, <1>3, <1>4, <1>5, <1>6, <1>7, <1>8, <1>9, <1>10, <1>11, <1>12, <1>13, <1>14,
     <1>15, <1>16, <1>17, <1>18, <1>19, <1>20, <1>21, <1>22
  DEF Next, Step

LEMMA InvHolds == Spec => [](TypeOK /\ Inv)
<1>1. Init => TypeOK /\ Inv
  BY TypeInit, InvInit
<1>2. ASSUME TypeOK /\ Inv, [Next]_vars
      PROVE  (TypeOK /\ Inv)'
  BY <1>2, TypeStep, InvStep
<1>3. QED
  BY <1>1, <1>2, PTL DEF Spec

(* tasks.json is never half written.                                        *)
THEOREM FileStaysWhole == Spec => []FileIsWhole
<1>1. Inv => FileIsWhole
  BY DEF Inv, FileInv, FileIsWhole
<1>2. QED
  BY <1>1, InvHolds, PTL

(* Contents that could not be read are put aside before they are replaced:  *)
(* only a quarantine and a rename replace the file, and the call that        *)
(* renames holds the lock and has dealt with what it read.                  *)
THEOREM UnreadableIsKept == Spec => NothingOverwritten
<1> DEFINE Kept == main' # main /\ (main.kind = "odd" \/ main.settings = "bad")
                     => \/ main \in backups'
                        \/ \E c \in fileLock : "tasks" \in blind[c]
<1>1. ASSUME TypeOK, Inv, [Next]_vars
      PROVE  Kept
  <2>1. ASSUME main' # main
        PROVE  \E c \in Calls : Quarantine(c) \/ Rename(c)
    <3>1. \A c \in Calls, p \in Procs, k \in Atomic!Ops, x \in Ids :
            Begin(c, p, k, x) => main' = main
      BY DEF Begin, dirVars
    <3>2. ASSUME NEW c \in Calls, Step(c)
          PROVE  Quarantine(c) \/ Rename(c)
      BY <2>1, <3>2
      DEF Step, GetMutex, GetFileLock, LockFails, ReadFails, StatFails, ReadFile,
          Repair,
          LoadOnly, Refuse, Modify, AddRaw, Create, Write, WriteFails, WriteError,
          RenameFails, GiveUp, DropFileLock, DropMutex, dirVars
    <3>3. \A p \in Procs : /\ Exit(p) => main' = main
                           /\ \A i \in Pids : Start(p, i) => main' = main
      BY DEF Exit, Start, dirVars
    <3>4. ~UNCHANGED vars
      BY <2>1 DEF vars, dirVars
    <3>5. QED
      BY <1>1, <2>1, <3>1, <3>2, <3>3, <3>4 DEF Next
  <2>2. ASSUME NEW c \in Calls, Quarantine(c)
        PROVE  main \in backups'
    BY <2>2 DEF Quarantine
  <2>3. ASSUME NEW c \in Calls, Rename(c), main.kind = "odd" \/ main.settings = "bad"
        PROVE  main \in backups' \/ \E e \in fileLock : "tasks" \in blind[e]
    <3>1. c \in fileLock /\ CallInv(c) /\ pc[c] = "rename" /\ backups' = backups
      BY <1>1, <2>3 DEF Rename, Inv, LockInv, Holding
    <3>2. main \in backups \/ "tasks" \in blind[c]
      BY <2>3, <3>1 DEF CallInv, Writing
    <3>3. QED
      BY <3>1, <3>2
  <2>4. QED
    BY <2>1, <2>2, <2>3
<1>2. QED
  BY <1>1, InvHolds, PTL DEF Spec, NothingOverwritten

-----------------------------------------------------------------------------
(* The refinement. A call takes effect when its own rename does, and fails  *)
(* when an error is returned; what else it does is not seen.                *)
States == [x \in Calls |-> Status(x)]

LEMMA StatusOf ==
  ASSUME TypeOK, NEW c \in Calls, NEW p, NEW r,
         pc' = [pc EXCEPT ![c] = p], p \notin {"idle", "lost"}, r # "none",
         result' = [result EXCEPT ![c] = r]
  PROVE  States' = [States EXCEPT ![c] = r]
BY DEF States, Status, TypeOK

LEMMA StatusSame ==
  ASSUME TypeOK, NEW c \in Calls, NEW p,
         pc' = [pc EXCEPT ![c] = p], result' = result,
         p \notin {"idle", "lost"}, pc[c] \notin {"idle", "lost"}
  PROVE  States' = States
BY DEF States, Status, TypeOK

LEMMA RefineInit == Init => Atomic!AInit
<1> SUFFICES ASSUME Init
             PROVE  Atomic!AInit
  OBVIOUS
<1>1. TypeOK
  BY TypeInit
<1>2. Meaning(main) \in Atomic!Docs
  BY <1>1, Shapes DEF TypeOK
<1>3. [c \in Calls |-> Status(c)] = [c \in Calls |-> "idle"]
  BY DEF Init, Status
<1>4. Parsed(Blank("absent")) = Atomic!EmptyDoc
  BY DEF Parsed, Meaning, Blank, File, Atomic!EmptyDoc, Atomic!Doc, Atomic!NoTasks
<1>5. arg \in [Calls -> Ids]
  BY <1>1 DEF TypeOK
<1>6. QED
  BY <1>2, <1>3, <1>4, <1>5 DEF Init, Atomic!AInit

(* What a call writes when it is not repairing is what the abstract call    *)
(* makes of the file.                                                       *)
LEMMA RenameChanges ==
  ASSUME TypeOK, Inv, NEW c \in Calls, Rename(c), c \notin repair
  PROVE  Atomic!Change(c)
<1>1. /\ pc[c] = "rename" /\ CallInv(c) /\ main' = body[c]
      /\ pc' = [pc EXCEPT ![c] = "unlock"] /\ result' = [result EXCEPT ![c] = "ok"]
      /\ UNCHANGED <<op, arg, got, blind>>
  BY DEF Rename, Inv, CallInv, To, Return, callVars
<1>2. /\ op[c] # "load" /\ loaded[c] = Changed(op[c], arg[c], Own(c))
      /\ op[c] = "edit" => Own(c).tasks[arg[c]] # 0
      /\ body[c] = File("json", loaded[c].tasks,
                        {x \in Atomic!Seen(Meaning(main), blind[c] \ {"tasks"}).raw :
                           loaded[c].tasks[x] = 0},
                        loaded[c].settings)
  BY <1>1 DEF CallInv, Writing
<1> DEFINE doc == Meaning(main)
           seen == Atomic!Seen(doc, blind[c])
<1>3. /\ Own(c).tasks = seen.tasks /\ Own(c).settings = seen.settings
      /\ Atomic!Seen(doc, blind[c] \ {"tasks"}).raw = seen.raw
  BY DEF Own, Atomic!Seen, Atomic!Doc
<1>4. /\ loaded[c].tasks = Atomic!Apply(op[c], arg[c], seen).tasks
      /\ loaded[c].settings = Atomic!Apply(op[c], arg[c], seen).settings
  BY <1>2, <1>3 DEF Changed, Version, Atomic!Apply, Atomic!Written, Atomic!Doc
<1>5. Meaning(main') = Atomic!Apply(op[c], arg[c], seen)
  <2>1. /\ main'.kind = "json" /\ main'.tasks = loaded[c].tasks
        /\ main'.settings = loaded[c].settings
        /\ main'.raw = {x \in seen.raw : loaded[c].tasks[x] = 0}
    BY <1>1, <1>2, <1>3 DEF File
  <2>2. loaded[c].settings \in {"on", "off"}
    BY DEF TypeOK, Atomic!Docs
  <2>3. Meaning(main') = Atomic!Doc(loaded[c].tasks,
                                    {x \in seen.raw : loaded[c].tasks[x] = 0},
                                    loaded[c].settings)
    BY <2>1, <2>2 DEF Meaning, Atomic!Doc
  <2>4. QED
    BY <2>3, <1>4 DEF Atomic!Apply, Atomic!Doc
<1>6. Status(c) = "called"
  BY <1>1 DEF Status, Inv, NoResultInv, Holding
<1>7. States' = [States EXCEPT ![c] = "ok"]
  <2>1. /\ pc' = [pc EXCEPT ![c] = "unlock"] /\ result' = [result EXCEPT ![c] = "ok"]
        /\ "unlock" \notin {"idle", "lost"} /\ "ok" # "none"
    BY <1>1
  <2>2. QED
    BY ONLY <2>1, TypeOK, c \in Calls, StatusOf
<1>8. op[c] = "edit" => seen.tasks[arg[c]] # 0
  BY <1>2, <1>3
<1>9. QED
  BY ONLY <1>1, <1>2, <1>5, <1>6, <1>7, <1>8, c \in Calls DEF Atomic!Change, States

(* Replacing unparsable settings is not seen, unless the elements the       *)
(* program cannot parse are lost with it.                                   *)
LEMMA RenameRepairs ==
  ASSUME TypeOK, Inv, NEW c \in Calls, Rename(c), c \in repair
  PROVE  Atomic!Forget(c) \/ UNCHANGED Atomic!avars
<1>1. /\ pc[c] = "rename" /\ CallInv(c) /\ main' = body[c]
      /\ pc' = [pc EXCEPT ![c] = "change"] /\ result' = result
      /\ UNCHANGED <<op, arg, got, blind>>
  BY DEF Rename, Inv, CallInv, To, Return, callVars
<1> DEFINE doc == Meaning(main)
<1>2. /\ main.kind = "json" /\ loaded[c] = Parsed(main)
      /\ body[c] = File("json", loaded[c].tasks,
                        {x \in Atomic!Seen(doc, blind[c] \ {"tasks"}).raw :
                           loaded[c].tasks[x] = 0},
                        loaded[c].settings)
  BY <1>1 DEF CallInv, Writing
<1>3. doc.raw \subseteq {x \in Ids : doc.tasks[x] = 0}
  BY <1>2 DEF Meaning, Inv, FileInv, TypeOK, Files
<1>4. /\ main'.kind = "json" /\ main'.tasks = doc.tasks /\ main'.settings = doc.settings
      /\ main'.raw = {x \in Atomic!Seen(doc, blind[c] \ {"tasks"}).raw : doc.tasks[x] = 0}
  BY <1>1, <1>2 DEF File, Parsed
<1>5. Meaning(main') = Atomic!Doc(doc.tasks, main'.raw, doc.settings)
  BY <1>4 DEF Meaning, Atomic!Doc
<1>6. /\ States' = States /\ Status(c) = "called"
  <2>1. pc' = [pc EXCEPT ![c] = "change"] /\ result' = result /\ pc[c] = "rename"
    BY <1>1
  <2>2. States' = States
    BY ONLY <2>1, TypeOK, c \in Calls, StatusSame
  <2>3. QED
    BY <2>1, <2>2 DEF Status, Inv, NoResultInv, Holding
<1>7. CASE "raw" \in blind[c]
  <2>1. Meaning(main') = Atomic!Seen(doc, {"raw"})
    <3>1. main'.raw = {}
      BY <1>4, <1>7 DEF Atomic!Seen, Atomic!Doc
    <3>2. QED
      BY <1>5, <3>1 DEF Atomic!Seen, Atomic!Doc
  <2>2. QED
    BY ONLY <1>1, <1>6, <1>7, <2>1 DEF Atomic!Forget, States
<1>8. CASE "raw" \notin blind[c]
  <2>1. main'.raw = doc.raw
    BY <1>3, <1>4, <1>8 DEF Atomic!Seen, Atomic!Doc
  <2>2. Meaning(main') = doc
    BY <1>5, <2>1 DEF Atomic!Doc, Meaning
  <2>3. QED
    BY ONLY <1>1, <1>6, <2>2 DEF Atomic!avars, States
<1>9. QED
  BY <1>7, <1>8

LEMMA Fails ==
  ASSUME TypeOK, Inv, NEW c \in Calls, pc[c] \in {"lock"} \cup Holding,
         pc' = [pc EXCEPT ![c] = "unlock"], result' = [result EXCEPT ![c] = "error"],
         UNCHANGED <<main, op, arg, got, blind>>
  PROVE  Atomic!Fail(c)
<1>1. Status(c) = "called"
  BY DEF Status, Inv, NoResultInv, Holding
<1>2. States' = [States EXCEPT ![c] = "error"]
  <2>1. "unlock" \notin {"idle", "lost"} /\ "error" # "none"
    OBVIOUS
  <2>2. QED
    BY <2>1, StatusOf
<1>3. QED
  BY <1>1, <1>2 DEF Atomic!Fail, States

LEMMA Stutters ==
  ASSUME TypeOK, NEW c \in Calls, NEW p, pc' = [pc EXCEPT ![c] = p], result' = result,
         p \notin {"idle", "lost"}, pc[c] \notin {"idle", "lost"},
         Meaning(main)' = Meaning(main), UNCHANGED <<op, arg, got, blind>>
  PROVE  UNCHANGED Atomic!avars
<1>1. States' = States
  BY StatusSame
<1>2. QED
  BY <1>1 DEF Atomic!avars, States

LEMMA StepRefines ==
  ASSUME TypeOK, Inv, [Next]_vars
  PROVE  [Atomic!ANext]_(Atomic!avars)
<1>1. ASSUME NEW c \in Calls, NEW p \in Procs, NEW k \in Atomic!Ops, NEW x \in Ids,
             Begin(c, p, k, x)
      PROVE  [Atomic!ANext]_(Atomic!avars)
  <2>1. Status(c) = "idle"
    BY <1>1 DEF Begin, Status
  <2>2. States' = [States EXCEPT ![c] = "called"]
    <3>1. pc' = [pc EXCEPT ![c] = "mutex"] /\ result' = result /\ result[c] = "none"
      BY <1>1 DEF Begin, To, outVars, Inv, NoResultInv
    <3>2. QED
      BY <3>1 DEF States, Status, TypeOK
  <2>3. Atomic!Call(c, k, x)
    BY <1>1, <2>1, <2>2 DEF Begin, Atomic!Call, States, dirVars, outVars
  <2>4. QED
    BY <2>3 DEF Atomic!ANext
<1>2. ASSUME NEW c \in Calls, GetMutex(c)
      PROVE  [Atomic!ANext]_(Atomic!avars)
  <2>1. /\ pc[c] = "mutex" /\ pc' = [pc EXCEPT ![c] = "lock"] /\ result' = result
        /\ UNCHANGED <<main, op, arg, got, blind>>
    BY ONLY <1>2 DEF GetMutex, To, dirVars, callVars, outVars
  <2>2. "mutex" \notin {"idle", "lost"} /\ "lock" \notin {"idle", "lost"}
    OBVIOUS
  <2>3. QED
    BY ONLY <2>1, <2>2, TypeOK, c \in Calls, Stutters
<1>3. ASSUME NEW c \in Calls, GetFileLock(c)
      PROVE  [Atomic!ANext]_(Atomic!avars)
  <2>1. /\ pc[c] = "lock" /\ pc' = [pc EXCEPT ![c] = "read"] /\ result' = result
        /\ UNCHANGED <<main, op, arg, got, blind>>
    BY ONLY <1>3 DEF GetFileLock, To, dirVars, callVars, outVars
  <2>2. "lock" \notin {"idle", "lost"} /\ "read" \notin {"idle", "lost"}
    OBVIOUS
  <2>3. QED
    BY ONLY <2>1, <2>2, TypeOK, c \in Calls, Stutters
<1>4. ASSUME NEW c \in Calls, LockFails(c)
      PROVE  [Atomic!ANext]_(Atomic!avars)
  <2>1. /\ pc[c] \in {"lock"} \cup Holding /\ pc' = [pc EXCEPT ![c] = "unlock"]
        /\ result' = [result EXCEPT ![c] = "error"]
        /\ UNCHANGED <<main, op, arg, got, blind>>
    BY ONLY <1>4 DEF LockFails, To, Return, Holding, dirVars, callVars
  <2>2. QED
    BY <2>1, Fails DEF Atomic!ANext
<1>5. ASSUME NEW c \in Calls, ReadFails(c)
      PROVE  [Atomic!ANext]_(Atomic!avars)
  <2>1. /\ pc[c] \in {"lock"} \cup Holding /\ pc' = [pc EXCEPT ![c] = "unlock"]
        /\ result' = [result EXCEPT ![c] = "error"]
        /\ UNCHANGED <<main, op, arg, got, blind>>
    BY ONLY <1>5 DEF ReadFails, To, Return, Holding, dirVars, callVars
  <2>2. QED
    BY <2>1, Fails DEF Atomic!ANext
<1>6. ASSUME NEW c \in Calls, StatFails(c)
      PROVE  [Atomic!ANext]_(Atomic!avars)
  <2>1. /\ pc[c] = "read" /\ pc' = [pc EXCEPT ![c] = "change"] /\ result' = result
        /\ UNCHANGED <<main, op, arg, got>> /\ blind' = [blind EXCEPT ![c] = @ \cup {"tasks"}]
    BY <1>6 DEF StatFails, To, dirVars, callVars
  <2>2. States' = States
    BY <2>1, StatusSame
  <2>3. Status(c) = "called"
    BY <2>1 DEF Status, Inv, NoResultInv, Holding
  <2>4. Atomic!Misses(c, "tasks")
    BY <2>1, <2>2, <2>3 DEF Atomic!Misses, States
  <2>5. QED
    BY <2>4 DEF Atomic!ANext, Atomic!Parts
<1>7. ASSUME NEW c \in Calls, ReadFile(c)
      PROVE  [Atomic!ANext]_(Atomic!avars)
  <2>1. /\ pc[c] = "read" /\ pc' = [pc EXCEPT ![c] = "change"] /\ result' = result
        /\ UNCHANGED <<main, op, arg, got, blind>>
    BY ONLY <1>7 DEF ReadFile, To, dirVars, callVars, outVars
  <2>2. "read" \notin {"idle", "lost"} /\ "change" \notin {"idle", "lost"}
    OBVIOUS
  <2>3. QED
    BY ONLY <2>1, <2>2, TypeOK, c \in Calls, Stutters
<1>8. ASSUME NEW c \in Calls, Quarantine(c)
      PROVE  [Atomic!ANext]_(Atomic!avars)
  <2>1. /\ pc[c] = "read" /\ pc' = [pc EXCEPT ![c] = "change"] /\ result' = result
        /\ UNCHANGED <<op, arg, got, blind>>
    BY <1>8 DEF Quarantine, To, callVars, outVars
  <2>2. Meaning(main)' = Meaning(main)
    BY <1>8 DEF Quarantine, Meaning, Blank, File
  <2>3. "read" \notin {"idle", "lost"} /\ "change" \notin {"idle", "lost"}
    OBVIOUS
  <2>4. QED
    BY ONLY <2>1, <2>2, <2>3, TypeOK, c \in Calls, Stutters
<1>9. ASSUME NEW c \in Calls, Repair(c)
      PROVE  [Atomic!ANext]_(Atomic!avars)
  <2>1. /\ pc[c] = "read" /\ pc' = [pc EXCEPT ![c] = "raw"] /\ result' = result
        /\ UNCHANGED <<main, op, arg, got, blind>>
    BY ONLY <1>9 DEF Repair, To, dirVars, callVars, outVars
  <2>2. "read" \notin {"idle", "lost"} /\ "raw" \notin {"idle", "lost"}
    OBVIOUS
  <2>3. QED
    BY ONLY <2>1, <2>2, TypeOK, c \in Calls, Stutters
<1>10. ASSUME NEW c \in Calls, LoadOnly(c)
      PROVE  [Atomic!ANext]_(Atomic!avars)
  <2>1. /\ pc[c] = "change" /\ pc' = [pc EXCEPT ![c] = "unlock"] /\ op[c] = "load"
        /\ result' = [result EXCEPT ![c] = "ok"] /\ got' = [got EXCEPT ![c] = loaded[c]]
        /\ UNCHANGED <<main, op, arg, blind>>
    BY <1>10 DEF LoadOnly, To, Return, dirVars, callVars
  <2>2. States' = [States EXCEPT ![c] = "ok"]
    <3>1. "unlock" \notin {"idle", "lost"} /\ "ok" # "none"
      OBVIOUS
    <3>2. QED
      BY ONLY <2>1, <3>1, TypeOK, c \in Calls, StatusOf
  <2>3. Status(c) = "called"
    BY <2>1 DEF Status, Inv, NoResultInv, Holding
  <2>4. loaded[c] = Own(c)
    BY <2>1 DEF Inv, CallInv
  <2>5. Atomic!Load(c)
    BY <2>1, <2>2, <2>3, <2>4 DEF Atomic!Load, States, Own
  <2>6. QED
    BY <2>5 DEF Atomic!ANext
<1>11. ASSUME NEW c \in Calls, Refuse(c)
      PROVE  [Atomic!ANext]_(Atomic!avars)
  <2>1. /\ pc[c] \in {"lock"} \cup Holding /\ pc' = [pc EXCEPT ![c] = "unlock"]
        /\ result' = [result EXCEPT ![c] = "error"]
        /\ UNCHANGED <<main, op, arg, got, blind>>
    BY ONLY <1>11 DEF Refuse, To, Return, Holding, dirVars, callVars
  <2>2. QED
    BY <2>1, Fails DEF Atomic!ANext
<1>12. ASSUME NEW c \in Calls, Modify(c)
      PROVE  [Atomic!ANext]_(Atomic!avars)
  <2>1. /\ pc[c] = "change" /\ pc' = [pc EXCEPT ![c] = "raw"] /\ result' = result
        /\ UNCHANGED <<main, op, arg, got, blind>>
    BY ONLY <1>12 DEF Modify, To, dirVars, callVars, outVars
  <2>2. "change" \notin {"idle", "lost"} /\ "raw" \notin {"idle", "lost"}
    OBVIOUS
  <2>3. QED
    BY ONLY <2>1, <2>2, TypeOK, c \in Calls, Stutters
<1>13. ASSUME NEW c \in Calls, AddRaw(c)
      PROVE  [Atomic!ANext]_(Atomic!avars)
  <2>1. /\ pc[c] = "raw" /\ pc' = [pc EXCEPT ![c] = "create"] /\ result' = result
        /\ UNCHANGED <<main, op, arg, got>>
        /\ blind' = blind \/ blind' = [blind EXCEPT ![c] = @ \cup {"raw"}]
    BY <1>13 DEF AddRaw, To, dirVars, callVars
  <2>2. States' = States
    <3>1. "raw" \notin {"idle", "lost"} /\ "create" \notin {"idle", "lost"}
      OBVIOUS
    <3>2. QED
      BY ONLY <2>1, <3>1, TypeOK, c \in Calls, StatusSame
  <2>3. Status(c) = "called"
    BY <2>1 DEF Status, Inv, NoResultInv, Holding
  <2>4. Atomic!Misses(c, "raw") \/ UNCHANGED Atomic!avars
    BY <2>1, <2>2, <2>3 DEF Atomic!Misses, Atomic!avars, States
  <2>5. QED
    BY <2>4 DEF Atomic!ANext, Atomic!Parts
<1>14. ASSUME NEW c \in Calls, Create(c)
      PROVE  [Atomic!ANext]_(Atomic!avars)
  <2>1. /\ pc[c] = "create" /\ UNCHANGED <<main, op, arg, got, blind>>
        /\ \/ pc' = [pc EXCEPT ![c] = "write"] /\ result' = result
           \/ /\ pc' = [pc EXCEPT ![c] = "unlock"]
              /\ result' = [result EXCEPT ![c] = "error"]
    BY ONLY <1>14 DEF Create, To, Return, callVars
  <2>2. CASE pc' = [pc EXCEPT ![c] = "write"] /\ result' = result
    <3>1. "create" \notin {"idle", "lost"} /\ "write" \notin {"idle", "lost"}
      OBVIOUS
    <3>2. QED
      BY ONLY <2>1, <2>2, <3>1, TypeOK, c \in Calls, Stutters
  <2>3. CASE /\ pc' = [pc EXCEPT ![c] = "unlock"]
             /\ result' = [result EXCEPT ![c] = "error"]
    BY <2>1, <2>3, Fails DEF Atomic!ANext, Holding
  <2>4. QED
    BY <2>1, <2>2, <2>3
<1>15. ASSUME NEW c \in Calls, Write(c)
      PROVE  [Atomic!ANext]_(Atomic!avars)
  <2>1. /\ pc[c] = "write" /\ pc' = [pc EXCEPT ![c] = "rename"] /\ result' = result
        /\ UNCHANGED <<main, op, arg, got, blind>>
    BY ONLY <1>15 DEF Write, To, dirVars, callVars, outVars
  <2>2. "write" \notin {"idle", "lost"} /\ "rename" \notin {"idle", "lost"}
    OBVIOUS
  <2>3. QED
    BY ONLY <2>1, <2>2, TypeOK, c \in Calls, Stutters
<1>16. ASSUME NEW c \in Calls, WriteFails(c)
      PROVE  [Atomic!ANext]_(Atomic!avars)
  <2>1. /\ pc[c] \in {"lock"} \cup Holding /\ pc' = [pc EXCEPT ![c] = "unlock"]
        /\ result' = [result EXCEPT ![c] = "error"]
        /\ UNCHANGED <<main, op, arg, got, blind>>
    BY ONLY <1>16
    DEF WriteFails, WriteError, GiveUp, To, Return, Holding, dirVars, callVars
  <2>2. QED
    BY <2>1, Fails DEF Atomic!ANext
<1>17. ASSUME NEW c \in Calls, RenameFails(c)
      PROVE  [Atomic!ANext]_(Atomic!avars)
  <2>1. /\ pc[c] \in {"lock"} \cup Holding /\ pc' = [pc EXCEPT ![c] = "unlock"]
        /\ result' = [result EXCEPT ![c] = "error"]
        /\ UNCHANGED <<main, op, arg, got, blind>>
    BY ONLY <1>17 DEF RenameFails, GiveUp, To, Return, Holding, dirVars, callVars
  <2>2. QED
    BY <2>1, Fails DEF Atomic!ANext
<1>18. ASSUME NEW c \in Calls, Rename(c)
      PROVE  [Atomic!ANext]_(Atomic!avars)
  BY <1>18, RenameChanges, RenameRepairs DEF Atomic!ANext
<1>19. ASSUME NEW c \in Calls, DropFileLock(c)
      PROVE  [Atomic!ANext]_(Atomic!avars)
  <2>1. /\ pc[c] = "unlock" /\ pc' = [pc EXCEPT ![c] = "leave"] /\ result' = result
        /\ UNCHANGED <<main, op, arg, got, blind>>
    BY ONLY <1>19 DEF DropFileLock, To, dirVars, callVars, outVars
  <2>2. "unlock" \notin {"idle", "lost"} /\ "leave" \notin {"idle", "lost"}
    OBVIOUS
  <2>3. QED
    BY ONLY <2>1, <2>2, TypeOK, c \in Calls, Stutters
<1>20. ASSUME NEW c \in Calls, DropMutex(c)
      PROVE  [Atomic!ANext]_(Atomic!avars)
  <2>1. /\ pc[c] = "leave" /\ pc' = [pc EXCEPT ![c] = "done"] /\ result' = result
        /\ UNCHANGED <<main, op, arg, got, blind>>
    BY ONLY <1>20 DEF DropMutex, To, dirVars, callVars, outVars
  <2>2. "leave" \notin {"idle", "lost"} /\ "done" \notin {"idle", "lost"}
    OBVIOUS
  <2>3. QED
    BY ONLY <2>1, <2>2, TypeOK, c \in Calls, Stutters
<1>21. ASSUME NEW p \in Procs, Exit(p)
      PROVE  [Atomic!ANext]_(Atomic!avars)
  <2>1. /\ pc' = [c \in Calls |-> IF c \in InFlight(p) THEN "lost" ELSE pc[c]]
        /\ UNCHANGED <<main, op, arg, result, got, blind>>
    BY <1>21 DEF Exit, dirVars, callVars, outVars
  <2>2. States' = [c \in Calls |-> IF c \in InFlight(p) /\ States[c] # "idle" THEN "lost"
                                   ELSE States[c]]
    <3>1. ASSUME NEW c \in Calls, c \in InFlight(p)
          PROVE  Status(c)' = "lost" /\ Status(c) # "idle"
      BY <2>1, <3>1 DEF Status, InFlight, TypeOK
    <3>2. ASSUME NEW c \in Calls, c \notin InFlight(p)
          PROVE  Status(c)' = Status(c)
      BY <2>1, <3>2 DEF Status, TypeOK
    <3>3. QED
      BY <3>1, <3>2 DEF States
  <2>3. InFlight(p) \in SUBSET Calls
    BY DEF InFlight
  <2>4. Atomic!Ends(InFlight(p))
    BY <2>1, <2>2 DEF Atomic!Ends, States
  <2>5. QED
    BY <2>3, <2>4 DEF Atomic!ANext
<1>22. ASSUME NEW p \in Procs, NEW i \in Pids, Start(p, i)
      PROVE  [Atomic!ANext]_(Atomic!avars)
  <2>1. UNCHANGED <<main, pc, op, arg, result, got, blind>>
    BY <1>22 DEF Start, dirVars, callVars, outVars
  <2>2. QED
    BY <2>1 DEF Atomic!avars, Status
<1>23. CASE UNCHANGED vars
  BY <1>23 DEF vars, dirVars, callVars, outVars, Atomic!avars, Status
<1>24. QED
  BY <1>1, <1>2, <1>3, <1>4, <1>5, <1>6, <1>7, <1>8, <1>9, <1>10, <1>11, <1>12, <1>13, <1>14,
     <1>15, <1>16, <1>17, <1>18, <1>19, <1>20, <1>21, <1>22, <1>23
  DEF Next, Step

(* All calls together implement the atomic store, whatever the number of    *)
(* processes and calls and whatever fails or ends.                          *)
THEOREM Refines == Spec => Refinement
<1>1. ASSUME TypeOK /\ Inv, [Next]_vars
      PROVE  [Atomic!ANext]_(Atomic!avars)
  BY <1>1, StepRefines
<1>2. QED
  BY <1>1, RefineInit, InvHolds, PTL DEF Spec, Refinement, Atomic!ASpec

-----------------------------------------------------------------------------
(* Who holds the locks.  The mutex of a process is taken before the lock    *)
(* file and given back after it.                                            *)
Inside == {"lock", "unlock", "leave"} \cup Holding

MutexInv ==
  /\ \A p \in Procs : \A c \in mutex[p] : proc[c] = p /\ pc[c] \in Inside
  /\ \A c \in Calls : pc[c] \in Inside => mutex[proc[c]] = {c}
  /\ \A c \in Calls : pc[c] \in Inside \cup {"mutex"} => proc[c] \in up

\* A call that goes on inside.
LEMMA MutexMove ==
  ASSUME TypeOK, MutexInv, NEW c \in Calls, pc[c] \in Inside, NEW r \in Inside,
         pc' = [pc EXCEPT ![c] = r], UNCHANGED <<mutex, proc, up>>
  PROVE  MutexInv'
BY DEF TypeOK, MutexInv

LEMMA MutexSteps ==
  ASSUME TypeOK, MutexInv, NEW c \in Calls, Step(c)
  PROVE  MutexInv'
<1> USE DEF dirVars, lockVars, procVars, callVars, dataVars, outVars, To, Return, Holding
<1>1. CASE GetMutex(c)
  <2>1. /\ pc[c] = "mutex" /\ mutex[proc[c]] = {} /\ proc[c] \in Procs
        /\ mutex' = [mutex EXCEPT ![proc[c]] = {c}]
        /\ pc' = [pc EXCEPT ![c] = "lock"] /\ UNCHANGED <<proc, up>>
    BY <1>1 DEF GetMutex, TypeOK
  <2>2. ASSUME NEW e \in Calls, e # c, pc[e] \in Inside
        PROVE  proc[e] # proc[c]
    BY <2>1, <2>2 DEF MutexInv
  <2>3. \A p \in Procs : \A e \in mutex'[p] : proc'[e] = p /\ pc'[e] \in Inside
    BY <2>1 DEF MutexInv, TypeOK, Inside
  <2>4. \A e \in Calls : pc'[e] \in Inside => mutex'[proc'[e]] = {e}
    <3> SUFFICES ASSUME NEW e \in Calls, pc'[e] \in Inside
                 PROVE  mutex'[proc'[e]] = {e}
      OBVIOUS
    <3>1. CASE e = c
      BY <2>1, <3>1 DEF TypeOK
    <3>2. CASE e # c
      <4>1. pc[e] \in Inside
        BY <2>1, <3>2 DEF TypeOK
      <4>2. mutex[proc[e]] = {e} /\ proc[e] # proc[c]
        BY <2>2, <3>2, <4>1 DEF MutexInv
      <4>3. QED
        BY <2>1, <4>2 DEF TypeOK
    <3>3. QED
      BY <3>1, <3>2
  <2>5. \A e \in Calls : pc'[e] \in Inside \cup {"mutex"} => proc'[e] \in up'
    BY <2>1 DEF MutexInv, TypeOK
  <2>6. QED
    BY <2>3, <2>4, <2>5 DEF MutexInv
<1>2. CASE DropMutex(c)
  <2>1. /\ pc[c] = "leave" /\ proc[c] \in Procs
        /\ mutex' = [mutex EXCEPT ![proc[c]] = mutex[proc[c]] \ {c}]
        /\ pc' = [pc EXCEPT ![c] = "done"] /\ UNCHANGED <<proc, up>>
    BY <1>2 DEF DropMutex, TypeOK
  <2>2. mutex[proc[c]] = {c}
    BY <2>1 DEF MutexInv, Inside
  <2>3. ASSUME NEW e \in Calls, e # c, pc[e] \in Inside
        PROVE  proc[e] # proc[c]
    BY <2>2, <2>3 DEF MutexInv
  <2>4. \A p \in Procs : \A e \in mutex'[p] : e \in mutex[p] /\ e # c
    BY <2>1 DEF MutexInv, TypeOK
  <2>5. \A p \in Procs : \A e \in mutex'[p] : proc'[e] = p /\ pc'[e] \in Inside
    BY <2>1, <2>4 DEF MutexInv, TypeOK
  <2>6. \A e \in Calls : pc'[e] \in Inside \cup {"mutex"} => e # c /\ pc'[e] = pc[e]
    BY <2>1 DEF TypeOK, Inside
  <2>7. \A e \in Calls : pc'[e] \in Inside => mutex'[proc'[e]] = {e}
    BY <2>1, <2>3, <2>6 DEF MutexInv, TypeOK
  <2>8. \A e \in Calls : pc'[e] \in Inside \cup {"mutex"} => proc'[e] \in up'
    BY <2>1, <2>6 DEF MutexInv
  <2>9. QED
    BY <2>5, <2>7, <2>8 DEF MutexInv
<1>3. CASE \/ GetFileLock(c) \/ LockFails(c) \/ ReadFails(c) \/ StatFails(c) \/ ReadFile(c)
           \/ Quarantine(c) \/ Repair(c) \/ LoadOnly(c) \/ Refuse(c) \/ Modify(c) \/ AddRaw(c)
           \/ Create(c) \/ Write(c) \/ WriteFails(c) \/ Rename(c) \/ RenameFails(c)
           \/ DropFileLock(c)
  <2>1. /\ pc[c] \in Inside /\ UNCHANGED <<mutex, proc, up>>
        /\ \E r \in Inside : pc' = [pc EXCEPT ![c] = r]
    <3> USE DEF Inside
    <3>1. CASE \/ GetFileLock(c) \/ LockFails(c) \/ ReadFails(c) \/ StatFails(c) \/ ReadFile(c)
               \/ Quarantine(c) \/ Repair(c)
      BY <3>1 DEF GetFileLock, LockFails, ReadFails, StatFails, ReadFile, Quarantine, Repair
    <3>2. CASE LoadOnly(c) \/ Refuse(c) \/ Modify(c) \/ AddRaw(c) \/ DropFileLock(c)
      BY <3>2 DEF LoadOnly, Refuse, Modify, AddRaw, DropFileLock
    <3>3. CASE Create(c) \/ Write(c) \/ WriteFails(c)
      BY <3>3 DEF Create, Write, WriteFails, WriteError, GiveUp
    <3>4. CASE Rename(c) \/ RenameFails(c)
      BY <3>4 DEF Rename, RenameFails, GiveUp
    <3>5. QED
      BY <1>3, <3>1, <3>2, <3>3, <3>4
  <2>2. QED
    BY <2>1, MutexMove
<1>4. QED
  BY <1>1, <1>2, <1>3 DEF Step

LEMMA MutexStep ==
  ASSUME TypeOK, MutexInv, [Next]_vars
  PROVE  MutexInv'
<1> USE DEF dirVars, lockVars, procVars, callVars, dataVars, outVars, To
<1>1. ASSUME NEW c \in Calls, NEW p \in Procs, NEW k \in Atomic!Ops, NEW x \in Ids,
             Begin(c, p, k, x)
      PROVE  MutexInv'
  <2>1. /\ pc[c] = "idle" /\ p \in up /\ pc' = [pc EXCEPT ![c] = "mutex"]
        /\ proc' = [proc EXCEPT ![c] = p] /\ UNCHANGED <<mutex, up>>
    BY <1>1 DEF Begin
  <2>2. \A q \in Procs : c \notin mutex[q]
    BY <2>1 DEF MutexInv, Inside, Holding
  <2>3. QED
    BY <2>1, <2>2 DEF MutexInv, TypeOK, Inside, Holding
<1>2. ASSUME NEW p \in Procs, Exit(p)
      PROVE  MutexInv'
  <2>1. /\ mutex' = [mutex EXCEPT ![p] = {}] /\ up' = up \ {p} /\ proc' = proc
        /\ pc' = [c \in Calls |-> IF c \in InFlight(p) THEN "lost" ELSE pc[c]]
    BY <1>2 DEF Exit
  <2>2. \A c \in Calls : pc'[c] \in Inside \cup {"mutex"} => pc'[c] = pc[c] /\ proc[c] # p
    BY <2>1 DEF InFlight, Inside, Holding
  <2>3. \A c \in Calls : proc[c] # p => pc'[c] = pc[c]
    BY <2>1 DEF InFlight
  <2>4. QED
    BY <2>1, <2>2, <2>3 DEF MutexInv, TypeOK
<1>3. ASSUME NEW p \in Procs, NEW i \in Pids, Start(p, i)
      PROVE  MutexInv'
  BY <1>3 DEF Start, MutexInv
<1>4. CASE UNCHANGED vars
  BY <1>4 DEF vars, MutexInv
<1>5. QED
  BY <1>1, <1>2, <1>3, <1>4, MutexSteps DEF Next

(* No lock is left behind: whoever holds the lock file or the mutex of a    *)
(* process is a call under way in a process that runs, and the holder of    *)
(* the file lock holds its process's mutex, so that nobody waits in a ring. *)
THEOREM LocksHaveHolders ==
  Spec => [](/\ \A c \in fileLock : /\ pc[c] \in Holding \cup {"unlock"}
                                   /\ proc[c] \in up /\ mutex[proc[c]] = {c}
             /\ \A p \in Procs : \A c \in mutex[p] :
                  proc[c] = p /\ p \in up /\ pc[c] \in Inside)
<1> DEFINE Held == /\ \A c \in fileLock : /\ pc[c] \in Holding \cup {"unlock"}
                                        /\ proc[c] \in up /\ mutex[proc[c]] = {c}
                   /\ \A p \in Procs : \A c \in mutex[p] :
                        proc[c] = p /\ p \in up /\ pc[c] \in Inside
<1>1. Init => MutexInv
  BY DEF Init, MutexInv, Inside, Holding
<1>2. TypeOK /\ Inv /\ MutexInv => Held
  BY DEF TypeOK, Inv, LockInv, MutexInv, Inside
<1>3. TypeOK /\ MutexInv /\ [Next]_vars => MutexInv'
  BY MutexStep
<1>4. QED
  BY <1>1, <1>2, <1>3, InvHolds, PTL DEF Spec
=============================================================================
