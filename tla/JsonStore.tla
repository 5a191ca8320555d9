------------------------------- MODULE JsonStore -------------------------------
(***************************************************************************)
(* A JSON store on disk, as tasks.json is kept (src-tauri/src/store_lock.rs *)
(* and tasks/store.rs): calls from the threads of several processes lock,   *)
(* read, change and replace one file. Any file operation may fail and any   *)
(* process may end at any step; its temporary file stays, its locks go, and *)
(* the process that is started next may get its process id.                 *)
(*                                                                          *)
(* What the calls do together is module AtomicStore. The losses of a power  *)
(* failure (a rename that did not reach the disk) are not modelled.         *)
(***************************************************************************)
EXTENDS Naturals, FiniteSets

CONSTANTS
  Procs,      \* instances of the application that are ever open
  Calls,      \* calls of the store, each made once
  Ids,        \* ids of the elements in the file
  Pids,       \* process ids
  MaxSeq,     \* bound on the temporary files a process makes
  MaxUpsets   \* bound on the file operations that fail and the processes
              \* that end, together

ASSUME StoreAssumption ==
  /\ MaxSeq \in Nat /\ MaxUpsets \in Nat
  /\ Procs # {} /\ Ids # {}
  /\ \E f \in [Procs -> Pids] : \A p, q \in Procs : p # q => f[p] # f[q]

VARIABLES
  \* the directory
  main,       \* tasks.json
  tmp,        \* the temporary files, by name
  backups,    \* contents put aside as tasks.json.corrupt-...
  fileLock,   \* calls that hold the lock on tasks.json.lock
  \* the processes
  up, pid, seq,
  mutex,      \* STORE_LOCK of each: calls that hold it
  \* the calls
  pc, proc, op, arg,
  loaded,     \* what load_file_locked returned, changed by the call
  body,       \* what is being written
  name,       \* the temporary file it goes to
  repair,     \* calls that are replacing unparsable settings first
  result, got,
  blind,      \* parts that were there and that a call did not see
  faults, ends

dirVars  == <<main, tmp, backups>>
lockVars == <<fileLock, mutex>>
procVars == <<up, pid, seq>>
callVars == <<proc, op, arg>>
dataVars == <<loaded, body, name, repair>>
outVars  == <<result, got, blind>>
vars == <<dirVars, lockVars, procVars, pc, callVars, dataVars, outVars, faults, ends>>

(* The same variables, as the abstract store sees them.                     *)
Meaning(f) ==
  [tasks    |-> IF f.kind = "json" THEN f.tasks ELSE [x \in Ids |-> 0],
   raw      |-> IF f.kind = "json" THEN f.raw ELSE {},
   settings |-> IF f.kind = "json" /\ f.settings = "on" THEN "on" ELSE "off"]

Status(c) ==
  IF pc[c] \in {"idle", "lost"} THEN pc[c]
  ELSE IF result[c] = "none" THEN "called" ELSE result[c]

Atomic == INSTANCE AtomicStore
            WITH doc <- Meaning(main), state <- [c \in Calls |-> Status(c)]

(* What parse_tolerant makes of it: the elements it cannot parse are left out. *)
Parsed(f) ==
  [tasks |-> Meaning(f).tasks, raw |-> {}, settings |-> Meaning(f).settings]

NoTasks == [x \in Ids |-> 0]
File(k, t, r, s) == [kind |-> k, tasks |-> t, raw |-> r, settings |-> s]
Blank(k) == File(k, NoTasks, {}, "off")
Names == Pids \X (0 .. MaxSeq)
NoName == CHOOSE n \in Names : TRUE

-----------------------------------------------------------------------------
(* The file another version of the program or a text editor left: not       *)
(* there, not JSON or of another shape ("odd"), or with elements or         *)
(* settings this version cannot parse.                                      *)
Init ==
  /\ main \in {Blank("absent"), Blank("odd")}
       \cup {File("json", t, r, s) : t \in {[x \in Ids |-> IF x \in T THEN 1 ELSE 0] : T \in SUBSET Ids},
                                     r \in SUBSET Ids, s \in {"off", "bad"}}
  /\ main.kind = "json" => \A x \in main.raw : main.tasks[x] = 0
  /\ tmp = [n \in Names |-> Blank("absent")] /\ backups = {}
  /\ fileLock = {} /\ mutex = [p \in Procs |-> {}]
  /\ up = Procs /\ seq = [p \in Procs |-> 0]
  /\ pid = CHOOSE f \in [Procs -> Pids] : \A p, q \in Procs : p # q => f[p] # f[q]
  /\ pc = [c \in Calls |-> "idle"]
  /\ proc = [c \in Calls |-> CHOOSE p \in Procs : TRUE]
  /\ op = [c \in Calls |-> "load"] /\ arg = [c \in Calls |-> CHOOSE x \in Ids : TRUE]
  /\ loaded = [c \in Calls |-> Parsed(Blank("absent"))]
  /\ body = [c \in Calls |-> Blank("absent")] /\ name = [c \in Calls |-> NoName]
  /\ repair = {}
  /\ result = [c \in Calls |-> "none"] /\ got = [c \in Calls |-> Parsed(Blank("absent"))]
  /\ blind = [c \in Calls |-> {}]
  /\ faults = 0 /\ ends = 0

To(c, p) == pc' = [pc EXCEPT ![c] = p]

NoFault == UNCHANGED faults
Fault == faults + ends < MaxUpsets /\ faults' = faults + 1

(* An error is returned: the guard is dropped on the way out.               *)
Return(c, r) == To(c, "unlock") /\ result' = [result EXCEPT ![c] = r]

-----------------------------------------------------------------------------
(* One of the public functions is called in some process.                   *)
Begin(c, p, k, x) ==
  /\ pc[c] = "idle" /\ p \in up
  /\ To(c, "mutex")
  /\ proc' = [proc EXCEPT ![c] = p]
  /\ op' = [op EXCEPT ![c] = k]
  /\ arg' = [arg EXCEPT ![c] = x]
  /\ NoFault
  /\ UNCHANGED <<dirVars, lockVars, procVars, dataVars, outVars, ends>>

(* acquire: the mutex of the process ...                                    *)
GetMutex(c) ==
  /\ pc[c] = "mutex" /\ mutex[proc[c]] = {}
  /\ mutex' = [mutex EXCEPT ![proc[c]] = {c}]
  /\ To(c, "lock")
  /\ NoFault
  /\ UNCHANGED <<dirVars, fileLock, procVars, callVars, dataVars, outVars, ends>>

(* ... then the lock on the lock file, which is never deleted.              *)
\* Variant for mutation: processes do not exclude each other.
LockAlwaysFree == TRUE
LockFree == fileLock = {}

GetFileLock(c) ==
  /\ pc[c] = "lock" /\ LockFree
  /\ fileLock' = fileLock \cup {c}
  /\ To(c, "read")
  /\ NoFault
  /\ UNCHANGED <<dirVars, mutex, procVars, callVars, dataVars, outVars, ends>>

LockFails(c) ==
  /\ pc[c] = "lock" /\ Fault
  /\ Return(c, "error")
  /\ UNCHANGED <<dirVars, lockVars, procVars, callVars, dataVars, got, blind, ends>>

(* load_file_at. *)
ReadFails(c) ==
  /\ pc[c] = "read" /\ Fault
  /\ Return(c, "error")
  /\ UNCHANGED <<dirVars, lockVars, procVars, callVars, dataVars, got, blind, ends>>

(* Path::exists answers "no" also when it cannot tell.                      *)
StatFails(c) ==
  /\ pc[c] = "read" /\ Fault
  /\ loaded' = [loaded EXCEPT ![c] = Parsed(Blank("absent"))]
  /\ blind' = [blind EXCEPT ![c] = @ \cup {"tasks"}]
  /\ To(c, "change")
  /\ UNCHANGED <<dirVars, lockVars, procVars, callVars, body, name, repair,
                 result, got, ends>>

ReadFile(c) ==
  /\ pc[c] = "read" /\ main.kind # "odd" /\ main.settings # "bad"
  /\ loaded' = [loaded EXCEPT ![c] = Parsed(main)]
  /\ To(c, "change")
  /\ NoFault
  /\ UNCHANGED <<dirVars, lockVars, procVars, callVars, body, name, repair,
                 outVars, ends>>

(* A file that is not JSON, or of another shape, is moved aside.            *)
Quarantine(c) ==
  /\ pc[c] = "read" /\ main.kind = "odd"
  /\ backups' = backups \cup {main}
  /\ main' = Blank("absent")
  /\ loaded' = [loaded EXCEPT ![c] = Parsed(Blank("absent"))]
  /\ To(c, "change")
  /\ NoFault
  /\ UNCHANGED <<tmp, lockVars, procVars, callVars, body, name, repair, outVars,
                 ends>>

(* Settings that cannot be parsed: the file is copied aside and written     *)
(* again with the default ones, before anything else is done.               *)
\* Variant for mutation: the copy is forgotten.
NoCopy == backups
CopyAside == backups \cup {main}

Repair(c) ==
  /\ pc[c] = "read" /\ main.kind = "json" /\ main.settings = "bad"
  /\ backups' = CopyAside
  /\ loaded' = [loaded EXCEPT ![c] = Parsed(main)]
  /\ repair' = repair \cup {c}
  /\ To(c, "raw")
  /\ NoFault
  /\ UNCHANGED <<main, tmp, lockVars, procVars, callVars, body, name, outVars, ends>>

(* The call's own part: what load_all returns, or the change update_all is  *)
(* given. Editing an element that is not there is an error.                 *)
LoadOnly(c) ==
  /\ pc[c] = "change" /\ op[c] = "load"
  /\ Return(c, "ok")
  /\ got' = [got EXCEPT ![c] = loaded[c]]
  /\ NoFault
  /\ UNCHANGED <<dirVars, lockVars, procVars, callVars, dataVars, blind, ends>>

Refuse(c) ==
  /\ pc[c] = "change" /\ op[c] = "edit" /\ loaded[c].tasks[arg[c]] = 0
  /\ Return(c, "error")
  /\ NoFault
  /\ UNCHANGED <<dirVars, lockVars, procVars, callVars, dataVars, got, blind, ends>>

Version(k) == CASE k = "put" -> 1 [] k = "edit" -> 2 [] OTHER -> 0

Changed(k, x, d) ==
  [tasks    |-> IF k = "settings" THEN d.tasks ELSE [d.tasks EXCEPT ![x] = Version(k)],
   raw      |-> d.raw,
   settings |-> IF k = "settings" THEN "on" ELSE d.settings]

Modify(c) ==
  /\ pc[c] = "change" /\ op[c] # "load"
  /\ op[c] = "edit" => loaded[c].tasks[arg[c]] # 0
  /\ loaded' = [loaded EXCEPT ![c] = Changed(op[c], arg[c], @)]
  /\ To(c, "raw")
  /\ NoFault
  /\ UNCHANGED <<dirVars, lockVars, procVars, callVars, body, name, repair,
                 outVars, ends>>

(* save_file_at reads the file again for the elements it cannot parse, so   *)
(* that they are written back; if that fails they are taken for none.       *)
\* Variant for mutation: they are not written back.
DropsRaw(d) == {}
KeepsRaw(d) == {x \in Meaning(main).raw : d.tasks[x] = 0}

AddRaw(c) ==
  /\ pc[c] = "raw"
  /\ \/ /\ body' = [body EXCEPT ![c] = File("json", loaded[c].tasks,
                                            KeepsRaw(loaded[c]), loaded[c].settings)]
        /\ NoFault /\ UNCHANGED blind
     \/ /\ body' = [body EXCEPT ![c] = File("json", loaded[c].tasks, {},
                                            loaded[c].settings)]
        /\ blind' = [blind EXCEPT ![c] = @ \cup {"raw"}]
        /\ Fault
  /\ To(c, "create")
  /\ UNCHANGED <<dirVars, lockVars, procVars, callVars, loaded, name, repair,
                 result, got, ends>>

(* write_atomic: the name is made of the process id and a counter, and the  *)
(* file must be new. An older file of that name is left alone.              *)
Create(c) ==
  LET p == proc[c]
      n == <<pid[p], seq[p]>>
  IN /\ pc[c] = "create" /\ seq[p] < MaxSeq
     /\ seq' = [seq EXCEPT ![p] = @ + 1]
     /\ name' = [name EXCEPT ![c] = n]
     /\ \/ /\ tmp[n].kind = "absent"
           /\ tmp' = [tmp EXCEPT ![n] = Blank("partial")]
           /\ To(c, "write")
           /\ NoFault /\ UNCHANGED result
        \/ /\ tmp[n].kind # "absent"
           /\ Return(c, "error")
           /\ NoFault /\ UNCHANGED tmp
        \/ /\ Return(c, "error")
           /\ Fault /\ UNCHANGED tmp
  /\ UNCHANGED <<main, backups, lockVars, up, pid, callVars, loaded, body, repair,
                 got, blind, ends>>

(* A write, a sync or a rename that fails: the file is removed, if it can   *)
(* be, and the error returned.                                              *)
GiveUp(c) ==
  /\ Return(c, "error")
  /\ \/ tmp' = [tmp EXCEPT ![name[c]] = Blank("absent")]
     \/ UNCHANGED tmp
  /\ Fault
  /\ UNCHANGED <<main, backups, lockVars, procVars, callVars, dataVars, got, blind,
                 ends>>

Write(c) ==
  /\ pc[c] = "write"
  /\ tmp' = [tmp EXCEPT ![name[c]] = body[c]]
  /\ To(c, "rename")
  /\ NoFault
  /\ UNCHANGED <<main, backups, lockVars, procVars, callVars, dataVars, outVars,
                 ends>>

WriteError(c) == GiveUp(c)

WriteFails(c) == pc[c] = "write" /\ WriteError(c)

Rename(c) ==
  /\ pc[c] = "rename"
  /\ main' = tmp[name[c]]
  /\ tmp' = [tmp EXCEPT ![name[c]] = Blank("absent")]
  /\ repair' = repair \ {c}
  /\ IF c \in repair THEN To(c, "change") /\ UNCHANGED result ELSE Return(c, "ok")
  /\ NoFault
  /\ UNCHANGED <<backups, lockVars, procVars, callVars, loaded, body, name, got,
                 blind, ends>>

RenameFails(c) == pc[c] = "rename" /\ GiveUp(c)

(* The locals of calls that are over.                                       *)
Unwind(C) ==
  /\ loaded' = [c \in Calls |-> IF c \in C THEN Parsed(Blank("absent")) ELSE loaded[c]]
  /\ body' = [c \in Calls |-> IF c \in C THEN Blank("absent") ELSE body[c]]
  /\ name' = [c \in Calls |-> IF c \in C THEN NoName ELSE name[c]]
  /\ repair' = repair \ C

(* The guard is dropped: its fields in the order of their declaration.      *)
DropFileLock(c) ==
  /\ pc[c] = "unlock"
  /\ fileLock' = fileLock \ {c}
  /\ To(c, "leave")
  /\ NoFault
  /\ UNCHANGED <<dirVars, mutex, procVars, callVars, dataVars, outVars, ends>>

DropMutex(c) ==
  /\ pc[c] = "leave"
  /\ mutex' = [mutex EXCEPT ![proc[c]] = @ \ {c}]
  /\ To(c, "done")
  /\ Unwind({c})
  /\ NoFault
  /\ UNCHANGED <<dirVars, fileLock, procVars, callVars, outVars, ends>>

-----------------------------------------------------------------------------
(* A process ends, by itself or not. The system takes back its locks.       *)
InFlight(p) == {c \in Calls : proc[c] = p /\ pc[c] \notin {"idle", "done", "lost"}}

\* Variant for mutation: the lock is a file that somebody has to remove.
LockStays(p) == fileLock
LockGoes(p) == fileLock \ InFlight(p)

Exit(p) ==
  /\ p \in up /\ faults + ends < MaxUpsets
  /\ ends' = ends + 1
  /\ up' = up \ {p}
  /\ pc' = [c \in Calls |-> IF c \in InFlight(p) THEN "lost" ELSE pc[c]]
  /\ fileLock' = LockGoes(p)
  /\ mutex' = [mutex EXCEPT ![p] = {}]
  /\ Unwind(InFlight(p))
  /\ seq' = [seq EXCEPT ![p] = 0]
  /\ NoFault
  /\ UNCHANGED <<dirVars, pid, callVars, outVars>>

(* It is started again, with any process id that is free, and counts from 0. *)
Start(p, i) ==
  /\ p \notin up /\ \A q \in up : pid[q] # i
  /\ up' = up \cup {p}
  /\ pid' = [pid EXCEPT ![p] = i]
  /\ NoFault
  /\ UNCHANGED <<seq, dirVars, lockVars, pc, callVars, dataVars, outVars, ends>>

-----------------------------------------------------------------------------
Step(c) ==
  \/ GetMutex(c) \/ GetFileLock(c) \/ LockFails(c)
  \/ ReadFails(c) \/ StatFails(c) \/ ReadFile(c) \/ Quarantine(c) \/ Repair(c)
  \/ LoadOnly(c) \/ Refuse(c) \/ Modify(c) \/ AddRaw(c)
  \/ Create(c) \/ Write(c) \/ WriteFails(c) \/ Rename(c) \/ RenameFails(c)
  \/ DropFileLock(c) \/ DropMutex(c)

Next ==
  \/ \E c \in Calls :
       \/ \E p \in Procs, k \in Atomic!Ops, x \in Ids : Begin(c, p, k, x)
       \/ Step(c)
  \/ \E p \in Procs : Exit(p) \/ \E i \in Pids : Start(p, i)

Spec == Init /\ [][Next]_vars

(* Threads that can go on do, and a lock that is free is handed to one that *)
(* waits for it.                                                            *)
FairSpec == Spec /\ \A c \in Calls : WF_vars(Step(c))

-----------------------------------------------------------------------------
Files == [kind : {"absent", "odd", "json", "partial"}, tasks : [Ids -> 0 .. 2],
          raw : SUBSET Ids, settings : {"off", "on", "bad"}]

Holding == {"read", "change", "raw", "create", "write", "rename"}

TypeOK ==
  /\ main \in Files /\ tmp \in [Names -> Files] /\ backups \subseteq Files
  /\ fileLock \subseteq Calls /\ mutex \in [Procs -> SUBSET Calls]
  /\ up \subseteq Procs /\ pid \in [Procs -> Pids] /\ seq \in [Procs -> 0 .. MaxSeq]
  /\ pc \in [Calls -> {"idle", "mutex", "lock", "unlock", "leave", "done", "lost"}
                        \cup Holding]
  /\ proc \in [Calls -> Procs] /\ op \in [Calls -> Atomic!Ops] /\ arg \in [Calls -> Ids]
  /\ loaded \in [Calls -> Atomic!Docs] /\ body \in [Calls -> Files]
  /\ name \in [Calls -> Names] /\ repair \subseteq Calls
  /\ result \in [Calls -> {"none", "ok", "error"}]
  /\ got \in [Calls -> Atomic!Docs] /\ blind \in [Calls -> SUBSET Atomic!Parts]
  /\ faults \in Nat /\ ends \in Nat

(* tasks.json is never half written, and never what a process that ended    *)
(* left behind: a reader finds what a call wrote whole.                     *)
FileIsWhole == main.kind # "partial"

(* Contents the program could not read are put aside before anything takes  *)
(* their place, unless the call could not tell that there was a file.       *)
NothingOverwritten ==
  [][main' # main /\ (main.kind = "odd" \/ main.settings = "bad")
       => \/ main \in backups'
          \/ \E c \in fileLock : "tasks" \in blind[c]]_vars

(* The calls of all processes together behave like the atomic store: none   *)
(* is lost, half done or applied to a state another one had changed.        *)
Refinement == Atomic!ASpec

(* Every call returns, whoever holds the locks and whoever ends with them.  *)
EveryCallReturns == \A c \in Calls : pc[c] # "idle" ~> pc[c] \in {"done", "lost"}
=============================================================================
