------------------------------ MODULE AtomicStore ------------------------------
(***************************************************************************)
(* What a JSON store promises its callers (the public functions of          *)
(* src-tauri/src/tasks/store.rs): every call takes effect at once or not at *)
(* all, whichever process it comes from and whatever ends in between. A     *)
(* call of a process that ended may have taken effect.                      *)
(*                                                                          *)
(* There is one allowance, because the code makes it: a call may be blind   *)
(* to a part of the file it should have kept, when the operation that was   *)
(* to read that part failed without the call noticing.                      *)
(***************************************************************************)
EXTENDS Naturals

CONSTANTS
  Calls,      \* the calls ever made, from any process
  Ids         \* ids of the elements of the file

VARIABLES
  doc,        \* what the file says
  state,      \* where each call is
  op, arg,    \* what it is to do
  got,        \* what a load returned
  blind       \* the parts it did not see

avars == <<doc, state, op, arg, got, blind>>

Ops == {"load", "put", "edit", "delete", "settings"}
Parts == {"tasks", "raw"}

(* An element is absent (0), as created (1) or edited (2); raw are the ids  *)
(* of elements this version of the program cannot parse.                    *)
NoTasks == [x \in Ids |-> 0]
Doc(t, r, s) == [tasks |-> t, raw |-> r, settings |-> s]
EmptyDoc == Doc(NoTasks, {}, "off")
Docs == [tasks : [Ids -> 0 .. 2], raw : SUBSET Ids, settings : {"off", "on"}]

Written(k) == CASE k = "put" -> 1 [] k = "edit" -> 2 [] OTHER -> 0

(* An element that is saved takes the place of an unparsable one.           *)
Apply(k, x, d) ==
  LET t == IF k = "settings" THEN d.tasks ELSE [d.tasks EXCEPT ![x] = Written(k)]
  IN Doc(t, {y \in d.raw : t[y] = 0}, IF k = "settings" THEN "on" ELSE d.settings)

Seen(d, b) ==
  Doc(IF "tasks" \in b THEN NoTasks ELSE d.tasks,
      IF "raw" \in b THEN {} ELSE d.raw,
      IF "tasks" \in b THEN "off" ELSE d.settings)

-----------------------------------------------------------------------------
AInit ==
  /\ doc \in Docs
  /\ state = [c \in Calls |-> "idle"]
  /\ op = [c \in Calls |-> "load"] /\ arg \in [Calls -> Ids]
  /\ got = [c \in Calls |-> EmptyDoc]
  /\ blind = [c \in Calls |-> {}]

Call(c, k, x) ==
  /\ state[c] = "idle"
  /\ state' = [state EXCEPT ![c] = "called"]
  /\ op' = [op EXCEPT ![c] = k]
  /\ arg' = [arg EXCEPT ![c] = x]
  /\ UNCHANGED <<doc, got, blind>>

(* A load returns what could be parsed. *)
Load(c) ==
  /\ state[c] = "called" /\ op[c] = "load"
  /\ state' = [state EXCEPT ![c] = "ok"]
  /\ got' = [got EXCEPT ![c] = Seen(doc, blind[c] \cup {"raw"})]
  /\ UNCHANGED <<doc, op, arg, blind>>

(* Editing an element that is not there is refused. *)
Change(c) ==
  /\ state[c] = "called" /\ op[c] # "load"
  /\ op[c] = "edit" => Seen(doc, blind[c]).tasks[arg[c]] # 0
  /\ doc' = Apply(op[c], arg[c], Seen(doc, blind[c]))
  /\ state' = [state EXCEPT ![c] = "ok"]
  /\ UNCHANGED <<op, arg, got, blind>>

Fail(c) ==
  /\ state[c] = "called"
  /\ state' = [state EXCEPT ![c] = "error"]
  /\ UNCHANGED <<doc, op, arg, got, blind>>

(* Its process ends: nobody gets the answer. *)
Ends(C) ==
  /\ state' = [c \in Calls |-> IF c \in C /\ state[c] # "idle" THEN "lost" ELSE state[c]]
  /\ UNCHANGED <<doc, op, arg, got, blind>>

Misses(c, part) ==
  /\ state[c] = "called"
  /\ blind' = [blind EXCEPT ![c] = @ \cup {part}]
  /\ UNCHANGED <<doc, state, op, arg, got>>

(* A call that had to repair the file first and is blind to the unparsable  *)
(* elements loses them then.                                                *)
Forget(c) ==
  /\ state[c] = "called" /\ "raw" \in blind[c]
  /\ doc' = Seen(doc, {"raw"})
  /\ UNCHANGED <<state, op, arg, got, blind>>

ANext ==
  \/ \E c \in Calls :
       \/ \E k \in Ops, x \in Ids : Call(c, k, x)
       \/ Load(c) \/ Change(c) \/ Fail(c) \/ Forget(c)
       \/ \E part \in Parts : Misses(c, part)
  \/ \E C \in SUBSET Calls : Ends(C)

ASpec == AInit /\ [][ANext]_avars
=============================================================================
