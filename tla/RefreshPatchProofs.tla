-------------------------- MODULE RefreshPatchProofs --------------------------
(***************************************************************************)
(* Proofs about RefreshPatch, for any table and any number of runs: a tab   *)
(* that shows a running query has something that will settle it (TabInv),   *)
(* and what it shows is what was read (QueueInv, RefInv and FitInv).        *)
(***************************************************************************)
EXTENDS RefreshPatch, SequenceTheorems, TLAPS

Pending == {"invoked", "begun", "read", "settled"}

\* What the tab holds belongs to runs that were called, and the run it counts
\* on was not stopped and will close, unless its closing message was not sent.
TabInv ==
  /\ cur = un
  /\ cur # 0 => cur \in listening \ aborted
  /\ \A r \in Runs : phase[r] # "live" =>
       task[r] = "none" /\ r \notin listening \cup aborted \cup stopping
  /\ cur \notin stopping
  /\ streaming => Waiting # {} \/ stopping # {} \/ cur # 0
  /\ cur # 0 => task[cur] \in Pending \/ Closes(cur) \/ cur \in mute

\* The messages of a run come in the order of the protocol, and those that
\* belong together carry the same rows. Each may be the last that was sent.
Follows(q, i) ==
  /\ q[i].kind = "columns" => i = Len(q) \/ q[i + 1].kind \in {"rows", "error"}
  /\ q[i].kind = "rows" =>
       \/ i = Len(q) \/ q[i + 1].kind = "error"
       \/ q[i + 1].kind = "done" /\ q[i + 1].rows = q[i].rows
  /\ q[i].kind = "patch" =>
       \/ i = Len(q)
       \/ q[i + 1].kind = "done" /\ q[i + 1].rows = q[i].rows
  /\ q[i].kind \in {"done", "error"} => i = Len(q)

\* The snapshot of a run does not change any more.
Sealed(i) == i # 0 => task[i] \in {"settled", "over"}

Sound(m) ==
  /\ Sealed(m.id)
  /\ m.kind = "done" /\ m.id # 0 => made[m.id] = m.rows
  /\ m.kind = "patch" => m.id # 0

Order(q) == \A i \in 1 .. Len(q) : Follows(q, i)

Queue(r) ==
  /\ r \notin listening => msgs[r] = <<>>
  /\ Order(msgs[r])
  /\ \A i \in 1 .. Len(msgs[r]) : Sound(msgs[r][i])
  /\ task[r] \in {"none", "invoked", "begun"} => msgs[r] = <<>>
  /\ task[r] # "over" /\ prev[r] # 0 => msgs[r] = <<>>
  /\ task[r] \in {"read", "settled"} /\ msgs[r] # <<>> =>
       /\ msgs[r][Len(msgs[r])].kind = "rows"
       /\ msgs[r][Len(msgs[r])].rows = seen[r]

QueueInv == \A r \in Runs : Queue(r)

\* Only snapshots that do not change any more are referred to.
RefInv ==
  /\ Sealed(snap) /\ Sealed(tag)
  /\ \A r \in Runs :
       /\ Sealed(base[r]) /\ Sealed(prev[r]) /\ Sealed(answer[r])
       /\ prev[r] # 0 => r \in asks /\ task[r] \in {"begun", "read", "settled"}
       /\ answer[r] # 0 => task[r] = "settled" /\ made[answer[r]] = seen[r]

\* What a message finds when it arrives. Done finds the rows it speaks of,
\* unless the changes its patch should have made could not be sent.
Fits(r, m) ==
  /\ m.kind = "rows"  => rows = Nothing
  /\ m.kind = "patch" => rows = made[m.id]
  /\ m.kind = "done"  => r \in torn \/ rows = m.rows

Fit(r) ==
  /\ msgs[r] # <<>> => Fits(r, msgs[r][1])
  /\ msgs[r] = <<>> /\ task[r] \in {"read", "settled"} /\ prev[r] = 0 => rows = seen[r]
  /\ task[r] = "invoked" /\ base[r] # 0 => rows = made[base[r]]
  /\ prev[r] # 0 => rows = made[prev[r]]

\* At most one run writes the array.
OneWriter == \A a, b \in listening \cap Writing : a = b

Shown == (closed => rows = truth) /\ (tag # 0 => rows = made[tag])

FitInv == ~mixed => OneWriter /\ Shown /\ \A r \in listening : Fit(r)

Inv == TypeOK /\ TabInv /\ QueueInv /\ RefInv /\ FitInv

-----------------------------------------------------------------------------
LEMMA Basics ==
  /\ Nothing \in Contents
  /\ 0 \in Ids /\ Runs \subseteq Ids /\ 0 \notin Runs
  /\ \A i \in Ids : i # 0 => i \in Runs
BY Bounds DEF Nothing, Contents, Ids, Runs

LEMMA MessageIs ==
  ASSUME NEW k \in {"columns", "rows", "patch", "done", "error"}, NEW id \in Ids,
         NEW c \in Contents
  PROVE  /\ Message(k, id, c) \in Messages
         /\ Message(k, id, c).kind = k /\ Message(k, id, c).id = id
         /\ Message(k, id, c).rows = c
BY DEF Message, Messages

\* One or two messages at the end of a queue.
LEMMA Append1 ==
  ASSUME NEW q \in Seq(Messages), NEW m \in Messages
  PROVE  /\ q \o <<m>> \in Seq(Messages) /\ Len(q \o <<m>>) = Len(q) + 1
         /\ (q \o <<m>>)[Len(q) + 1] = m
         /\ \A i \in 1 .. Len(q) : (q \o <<m>>)[i] = q[i]
         /\ q \o <<m>> # <<>>
OBVIOUS

LEMMA Append2 ==
  ASSUME NEW q \in Seq(Messages), NEW m \in Messages, NEW n \in Messages
  PROVE  /\ q \o <<m, n>> \in Seq(Messages) /\ Len(q \o <<m, n>>) = Len(q) + 2
         /\ (q \o <<m, n>>)[Len(q) + 1] = m /\ (q \o <<m, n>>)[Len(q) + 2] = n
         /\ \A i \in 1 .. Len(q) : (q \o <<m, n>>)[i] = q[i]
         /\ q \o <<m, n>> # <<>>
OBVIOUS

LEMMA EmptyIs == /\ <<>> \in Seq(Messages) /\ Len(<<>>) = 0
                 /\ \A q \in Seq(Messages) : Len(q) = 0 <=> q = <<>>
                 /\ \A q \in Seq(Messages) : Len(q) \in Nat
OBVIOUS

LEMMA OneAfterOther ==
  ASSUME NEW m \in Messages, NEW n \in Messages
  PROVE  <<m>> \o <<n>> = <<m, n>> /\ <<>> \o <<n>> = <<n>> /\ <<m>> \o <<>> = <<m>>
<1>1. <<m>> \o <<n>> = <<m, n>>
  <2>1. <<m>> \in Seq(Messages) /\ <<n>> \in Seq(Messages) /\ <<m, n>> \in Seq(Messages)
    OBVIOUS
  <2>2. Len(<<m>>) = 1 /\ Len(<<n>>) = 1 /\ Len(<<m, n>>) = 2
    OBVIOUS
  <2>3. /\ <<m>> \o <<n>> \in Seq(Messages) /\ Len(<<m>> \o <<n>>) = 2
        /\ (<<m>> \o <<n>>)[1] = m /\ (<<m>> \o <<n>>)[2] = n
    BY <2>1, <2>2, ConcatProperties
  <2>4. \A i \in 1 .. 2 : (<<m>> \o <<n>>)[i] = <<m, n>>[i]
    BY <2>3
  <2> QED
    BY <2>1, <2>2, <2>3, <2>4, SeqEqual
<1>2. <<>> \o <<n>> = <<n>> /\ <<m>> \o <<>> = <<m>>
  <2>1. <<m>> \in Seq(Messages) /\ <<n>> \in Seq(Messages)
    OBVIOUS
  <2> QED
    BY <2>1, ConcatEmptySeq
<1>3. QED
  BY <1>1, <1>2

LEMMA TailIs ==
  ASSUME NEW q \in Seq(Messages), q # <<>>
  PROVE  /\ Tail(q) \in Seq(Messages) /\ Len(q) >= 1 /\ Len(Tail(q)) = Len(q) - 1
         /\ Head(q) = q[1] /\ Head(q) \in Messages
         /\ \A i \in 1 .. Len(q) - 1 : Tail(q)[i] = q[i + 1]
         /\ Tail(q) = <<>> <=> Len(q) = 1
<1>1. Tail(q) \in Seq(Messages) /\ Len(q) >= 1 /\ Len(Tail(q)) = Len(q) - 1
  OBVIOUS
<1>2. Head(q) = q[1] /\ Head(q) \in Messages
  OBVIOUS
<1>3. \A i \in 1 .. Len(q) - 1 : Tail(q)[i] = q[i + 1]
  OBVIOUS
<1>4. Tail(q) = <<>> <=> Len(Tail(q)) = 0
  BY <1>1, EmptyIs
<1>5. QED
  BY <1>1, <1>2, <1>3, <1>4

-----------------------------------------------------------------------------
(* Type correctness.                                                        *)

LEMMA TypeInit == Init => TypeOK
<1> SUFFICES ASSUME Init PROVE TypeOK
  OBVIOUS
<1>1. msgs \in [Runs -> Seq(Messages)]
  BY EmptyIs DEF Init
<1>2. writes \in 0 .. MaxWrites /\ upsets \in 0 .. MaxUpsets
  BY Bounds DEF Init
<1>3. task \in [Runs -> TaskStates]
  BY DEF Init, TaskStates
<1> QED
  BY <1>1, <1>2, <1>3, Basics DEF Init, TypeOK

LEMMA UnreadType ==
  ASSUME TypeOK
  PROVE  Unread \in [Runs -> Seq(Messages)]
BY EmptyIs DEF TypeOK, Unread

LEMMA PostType ==
  ASSUME TypeOK, NEW r \in Runs, NEW ms,
         Post(r, ms), ms \in Seq(Messages)
  PROVE  msgs' \in [Runs -> Seq(Messages)]
BY ConcatProperties DEF TypeOK, Post

LEMMA UpsetType ==
  ASSUME TypeOK, upsets' = upsets \/ Upset
  PROVE  upsets' \in 0 .. MaxUpsets
BY Bounds DEF TypeOK, Upset

LEMMA TypeStep ==
  ASSUME TypeOK, [Next]_vars
  PROVE  TypeOK'
<1> USE Basics, Bounds, UpsetType DEF dbVars, taskVars, sendVars, callVars, arrayVars, tabVars, editVars,
        TaskStates
<1>1. ASSUME NEW r \in Runs, NEW auto \in BOOLEAN, RunQuery(r, auto)
      PROVE  TypeOK'
  <2>1. PrevSnapshotId(auto) \in Ids
    BY DEF PrevSnapshotId, TypeOK
  <2>2. CASE cur = 0
    <3>1. base' \in [Runs -> Ids] /\ asks' \subseteq Runs
      BY <1>1, <2>1 DEF RunQuery, TypeOK
    <3>2. Launch(r, listening \ {un}, base'[r] # 0) /\ UNCHANGED <<victim, msgs>>
      BY <1>1, <2>2 DEF RunQuery
    <3>3. UNCHANGED <<dbVars, snap, aborted, prev, seen, answer, made, sendVars, stopping, editVars, upsets>>
      BY <1>1 DEF RunQuery
    <3> QED
      BY <3>1, <3>2, <3>3 DEF Launch, NewArray, Opened, TypeOK
  <2>3. CASE cur # 0
    <3>1. base' \in [Runs -> Ids] /\ asks' \subseteq Runs
      BY <1>1, <2>1 DEF RunQuery, TypeOK
    <3>2. /\ phase' = [phase EXCEPT ![r] = "waiting"] /\ victim' = [victim EXCEPT ![r] = cur]
          /\ LetGo /\ msgs' = Unread /\ UNCHANGED <<task, arrayVars, streaming>>
      BY <1>1, <2>3 DEF RunQuery
    <3>3. UNCHANGED <<dbVars, snap, aborted, prev, seen, answer, made, sendVars, stopping, editVars, upsets>>
      BY <1>1 DEF RunQuery
    <3> QED
      BY <3>1, <3>2, <3>3, UnreadType DEF LetGo, TypeOK
  <2> QED
    BY <2>2, <2>3
<1>2. ASSUME NEW r \in Runs, CancelReturns(r)
      PROVE  TypeOK'
  BY <1>2 DEF CancelReturns, Cancelled, Launch, NewArray, Opened, TypeOK
<1>3. ASSUME NEW r \in Runs, Refused(r)
      PROVE  TypeOK'
  <2>1. upsets' \in 0 .. MaxUpsets
    BY <1>3 DEF Refused
  <2> QED
    BY <1>3, <2>1, UnreadType DEF Refused, Over, LetGo, TypeOK
<1>4. ASSUME NEW r \in Runs, BeginTask(r)
      PROVE  TypeOK'
  BY <1>4 DEF BeginTask, Matching, TypeOK
<1>5. ASSUME NEW r \in Runs, Execute(r)
      PROVE  TypeOK'
  <2>1. msgs' \in [Runs -> Seq(Messages)]
    <3>1. db \in Contents
      BY DEF TypeOK
    <3> DEFINE c == Message("columns", 0, Nothing)
               m == Message("rows", 0, db)
    <3>2. c \in Messages /\ m \in Messages
      BY <3>1, MessageIs
    <3>3. <<>> \in Seq(Messages) /\ <<c, m>> \in Seq(Messages)
      BY <3>2, EmptyIs
    <3>4. Post(r, IF Patching(r) THEN <<>> ELSE <<c, m>>)
      BY <1>5 DEF Execute
    <3> QED
      BY <3>3, <3>4, PostType
  <2> QED
    BY <1>5, <2>1 DEF Execute, TypeOK
<1>6. ASSUME NEW r \in Runs, Settle(r)
      PROVE  TypeOK'
  <2>1. upsets' \in 0 .. MaxUpsets
    BY <1>6 DEF Settle
  <2>2. answer' \in [Runs -> Ids] /\ snap' \in Ids
    <3>1. prev[r] \in Ids /\ r \in Ids /\ snap \in Ids /\ answer \in [Runs -> Ids]
      BY DEF TypeOK
    <3>2. snap' = snap \/ snap' = r \/ snap' = 0
      BY <1>6 DEF Settle
    <3>3. \/ answer' = answer
          \/ answer' = [answer EXCEPT ![r] = prev[r]]
          \/ answer' = [answer EXCEPT ![r] = r]
      BY <1>6 DEF Settle
    <3> QED
      BY <3>1, <3>2, <3>3
  <2>3. made' \in [Runs -> Contents]
    <3>1. seen[r] \in Contents
      BY DEF TypeOK
    <3> QED
      BY <1>6, <3>1 DEF Settle, TypeOK
  <2> QED
    BY <1>6, <2>1, <2>2, <2>3 DEF Settle, TypeOK
<1>7. ASSUME NEW r \in Runs, ExecFails(r)
      PROVE  TypeOK'
  <2>1. PICK head \in Prefix(r), lost \in SUBSET {"error"} :
          /\ Post(r, head \o Sent(Message("error", 0, Nothing), lost))
          /\ Unsent(r, lost)
    BY <1>7 DEF ExecFails
  <2>2. msgs' \in [Runs -> Seq(Messages)]
    <3> DEFINE c == Message("columns", 0, Nothing)
               e == Message("error", 0, Nothing)
    <3>1. c \in Messages /\ e \in Messages
      BY MessageIs
    <3>2. head = <<>> \/ head = <<c>>
      BY DEF Prefix
    <3> HIDE DEF c, e
    <3>3. head \in Seq(Messages) /\ Sent(e, lost) \in Seq(Messages)
      <4>1. <<>> \in Seq(Messages) /\ <<c>> \in Seq(Messages) /\ <<e>> \in Seq(Messages)
        BY <3>1, EmptyIs
      <4>2. Sent(e, lost) = <<>> \/ Sent(e, lost) = <<e>>
        BY DEF Sent
      <4> QED
        BY <3>2, <4>1, <4>2
    <3>4. head \o Sent(e, lost) \in Seq(Messages) /\ Post(r, head \o Sent(e, lost))
      BY <2>1, <3>3, ConcatProperties DEF e
    <3> QED
      BY <3>4, PostType
  <2>3. upsets' \in 0 .. MaxUpsets /\ mute' \subseteq Runs
    BY <1>7, <2>1 DEF ExecFails, Unsent, TypeOK
  <2> QED
    BY <1>7, <2>2, <2>3 DEF ExecFails, Ends, TypeOK
<1>8. ASSUME NEW r \in Runs, Report(r)
      PROVE  TypeOK'
  <2> DEFINE d == Message("done", answer[r], seen[r])
             p == Message("patch", prev[r], seen[r])
  <2>1. PICK lost \in SUBSET (IF Patching(r) THEN {"patch", "done"} ELSE {"done"}) :
          /\ Post(r, Closing(Sent(d, lost), IF Patching(r) THEN Sent(p, lost) ELSE <<>>))
          /\ LoseSome(r, lost) /\ Unsent(r, lost)
          /\ torn' = IF "patch" \in lost /\ ~Unchanged(r) THEN torn \cup {r} ELSE torn
    BY <1>8 DEF Report
  <2>2. msgs' \in [Runs -> Seq(Messages)]
    <3>1. seen[r] \in Contents /\ answer[r] \in Ids /\ prev[r] \in Ids
      BY DEF TypeOK
    <3>2. d \in Messages /\ p \in Messages
      BY <3>1, MessageIs
    <3> HIDE DEF d, p
    <3>3. Sent(d, lost) \in Seq(Messages) /\ Sent(p, lost) \in Seq(Messages)
      BY <3>2, EmptyIs DEF Sent
    <3>4. Closing(Sent(d, lost), IF Patching(r) THEN Sent(p, lost) ELSE <<>>) \in Seq(Messages)
      BY <3>3, ConcatProperties, EmptyIs DEF Closing
    <3> QED
      BY <2>1, <3>4, PostType
  <2> HIDE DEF d, p
  <2>3. upsets' \in 0 .. MaxUpsets /\ mute' \subseteq Runs /\ torn' \subseteq Runs
    BY <2>1 DEF LoseSome, Unsent, TypeOK
  <2> QED
    BY <1>8, <2>2, <2>3 DEF Report, Ends, TypeOK
<1>9. ASSUME NEW r \in Runs, Drop(r)
      PROVE  TypeOK'
  BY <1>9 DEF Drop, Ends, TypeOK
<1>10. ASSUME NEW r \in Runs, Deliver(r)
       PROVE  TypeOK'
  <2> DEFINE m == Head(msgs[r])
  <2>1. m \in Messages /\ Tail(msgs[r]) \in Seq(Messages)
    BY <1>10, TailIs DEF Deliver, TypeOK
  <2>2. m.id \in Ids /\ m.rows \in Contents
        /\ m.kind \in {"columns", "rows", "patch", "done", "error"}
    BY <2>1 DEF Messages
  <2>3. msgs' \in [Runs -> Seq(Messages)]
    BY <1>10, <2>1, EmptyIs DEF Deliver, TypeOK
  <2> USE <2>2, <2>3
  <2>4. CASE m.kind = "columns"
    BY <1>10, <2>4 DEF Deliver, OnColumns, NewArray, Opened, TypeOK
  <2>5. CASE m.kind = "rows"
    <3>1. [k \in Keys |-> IF m.rows[k] # None THEN m.rows[k] ELSE rows[k]] \in Contents
      BY DEF Contents, TypeOK
    <3> QED
      BY <1>10, <2>5, <3>1 DEF Deliver, OnRows, NewArray, Opened, TypeOK
  <2>6. CASE m.kind = "patch"
    <3>1. Patched(m) \in Contents
      BY DEF Patched, Contents, TypeOK
    <3> QED
      BY <1>10, <2>6, <3>1 DEF Deliver, OnPatch, NewArray, Opened, TypeOK
  <2>7. CASE m.kind = "done"
    BY <1>10, <2>7 DEF Deliver, OnDone, Over, LetGo, TypeOK
  <2>8. CASE m.kind = "error"
    BY <1>10, <2>8 DEF Deliver, OnError, Over, LetGo, TypeOK
  <2> QED
    BY <2>4, <2>5, <2>6, <2>7, <2>8
<1>11. ASSUME NEW r \in Runs, StopReturns(r)
       PROVE  TypeOK'
  BY <1>11 DEF StopReturns, Cancelled, TypeOK
<1>12. CASE StopTab
  BY <1>12, UnreadType DEF StopTab, LetGo, TypeOK
<1>13. CASE Others
  BY <1>13 DEF Others, TypeOK, Contents
<1>14. CASE EditStart
  BY <1>14 DEF EditStart, TypeOK
<1>15. CASE EditCommits
  <2>1. edit \in [at : {"sent", "committed"}, key : Keys, val : Values]
    BY <1>15 DEF EditCommits, TypeOK, NoEdit
  <2> QED
    BY <1>15, <2>1 DEF EditCommits, TypeOK, Contents
<1>16. CASE EditFails
  BY <1>16 DEF EditFails, TypeOK
<1>17. CASE EditLands
  <2>1. edit \in [at : {"sent", "committed"}, key : Keys, val : Values]
    BY <1>17 DEF EditLands, TypeOK, NoEdit
  <2> QED
    BY <1>17, <2>1 DEF EditLands, Copied, Opened, TypeOK, Contents
<1>18. CASE UNCHANGED vars
  BY <1>18 DEF vars, TypeOK
<1>19. QED
  BY <1>1, <1>2, <1>3, <1>4, <1>5, <1>6, <1>7, <1>8, <1>9, <1>10, <1>11, <1>12,
     <1>13, <1>14, <1>15, <1>16, <1>17, <1>18 DEF Next, TaskStep

THEOREM TypeCorrect == Spec => []TypeOK
BY TypeInit, TypeStep, PTL DEF Spec

-----------------------------------------------------------------------------
(* What a run sends when it ends.                                           *)

First(r, m) ==
  \/ m.kind = "columns" /\ m.id = 0 /\ task[r] = "begun" /\ prev[r] = 0
  \/ /\ m.kind = "patch" /\ m.id = prev[r] /\ m.rows = seen[r]
     /\ task[r] = "settled" /\ prev[r] # 0

Last(r, m) ==
  \/ m.kind = "error" /\ m.id = 0 /\ task[r] \in {"begun", "read"}
  \/ m.kind = "done" /\ m.id = answer[r] /\ m.rows = seen[r] /\ task[r] = "settled"

\* All of it, or what was not refused. Done without its patch finds the rows of
\* the result when nothing has changed; else the run is among the torn ones.
Sends(r, ms) ==
  \/ ms = <<>> /\ r \in mute'
  \/ \E m \in Messages : ms = <<m>> /\ First(r, m) /\ r \in mute'
  \/ \E n \in Messages : /\ ms = <<n>> /\ Last(r, n)
                         /\ n.kind = "done" => prev[r] = 0 \/ Unchanged(r) \/ r \in torn'
  \/ \E m, n \in Messages : ms = <<m, n>> /\ First(r, m) /\ Last(r, n)

LEMMA LastSends ==
  ASSUME TypeOK, NEW r \in Runs, ExecFails(r) \/ Report(r)
  PROVE  /\ \E ms \in Seq(Messages) : Post(r, ms) /\ Sends(r, ms)
         /\ torn \subseteq torn' /\ mute \subseteq mute'
<1>1. CASE ExecFails(r)
  <2>1. PICK c \in Messages : c = Message("columns", 0, Nothing) /\ c.kind = "columns" /\ c.id = 0
    BY Basics, MessageIs
  <2>2. PICK e \in Messages : e = Message("error", 0, Nothing) /\ e.kind = "error" /\ e.id = 0
    BY Basics, MessageIs
  <2>3. PICK head \in Prefix(r), lost \in SUBSET {"error"} :
          Post(r, head \o Sent(e, lost)) /\ Unsent(r, lost)
    BY <1>1, <2>2 DEF ExecFails
  <2>4. head = <<>> \/ (head = <<c>> /\ First(r, c))
    BY <2>1, <2>3 DEF Prefix, First, Patching
  <2>5. \/ Sent(e, lost) = <<>> /\ r \in mute'
        \/ Sent(e, lost) = <<e>>
    BY <2>2, <2>3 DEF Sent, Unsent
  <2>6. Last(r, e) /\ torn' = torn /\ mute \subseteq mute'
    BY <1>1, <2>2, <2>3 DEF ExecFails, Last, Unsent
  <2> DEFINE ms == head \o Sent(e, lost)
  <2>7. \/ ms = <<>> /\ r \in mute'
        \/ ms = <<c>> /\ First(r, c) /\ r \in mute'
        \/ ms = <<e>>
        \/ ms = <<c, e>> /\ First(r, c)
    BY <2>4, <2>5, OneAfterOther, EmptyIs, ConcatEmptySeq
  <2>8. <<>> \in Seq(Messages) /\ <<c>> \in Seq(Messages) /\ <<e>> \in Seq(Messages)
        /\ <<c, e>> \in Seq(Messages)
    OBVIOUS
  <2>9. Post(r, ms)
    BY <2>3
  <2> HIDE DEF ms
  <2>10. ms \in Seq(Messages)
    BY <2>7, <2>8
  <2>11. Sends(r, ms)
    BY <2>2, <2>6, <2>7 DEF Sends
  <2> QED
    BY <2>6, <2>9, <2>10, <2>11
<1>2. CASE Report(r)
  <2>1. seen[r] \in Contents /\ answer[r] \in Ids /\ prev[r] \in Ids
    BY DEF TypeOK
  <2>2. PICK d \in Messages : /\ d = Message("done", answer[r], seen[r])
                              /\ d.kind = "done" /\ d.id = answer[r] /\ d.rows = seen[r]
    BY <2>1, MessageIs
  <2>3. PICK p \in Messages : /\ p = Message("patch", prev[r], seen[r])
                              /\ p.kind = "patch" /\ p.id = prev[r] /\ p.rows = seen[r]
    BY <2>1, MessageIs
  <2>4. PICK lost \in SUBSET (IF Patching(r) THEN {"patch", "done"} ELSE {"done"}) :
          /\ Post(r, Closing(Sent(d, lost), IF Patching(r) THEN Sent(p, lost) ELSE <<>>))
          /\ Unsent(r, lost)
          /\ torn' = IF "patch" \in lost /\ ~Unchanged(r) THEN torn \cup {r} ELSE torn
    BY <1>2, <2>2, <2>3 DEF Report
  <2> DEFINE head == IF Patching(r) THEN Sent(p, lost) ELSE <<>>
             ms == head \o Sent(d, lost)
  <2>5. Post(r, ms)
    BY <2>4 DEF Closing
  <2>6. \/ head = <<>> /\ (prev[r] = 0 \/ Unchanged(r) \/ r \in torn')
        \/ head = <<p>> /\ First(r, p)
    BY <1>2, <2>3, <2>4 DEF Report, Patching, Sent, First
  <2>7. \/ Sent(d, lost) = <<>> /\ r \in mute'
        \/ Sent(d, lost) = <<d>>
    BY <2>2, <2>4 DEF Sent, Unsent
  <2>8. Last(r, d) /\ torn \subseteq torn' /\ mute \subseteq mute'
    BY <1>2, <2>2, <2>4 DEF Report, Last, Unsent
  <2> HIDE DEF head
  <2>9. \/ ms = <<>> /\ r \in mute'
        \/ ms = <<p>> /\ First(r, p) /\ r \in mute'
        \/ ms = <<d>> /\ (prev[r] = 0 \/ Unchanged(r) \/ r \in torn')
        \/ ms = <<p, d>> /\ First(r, p)
    BY <2>6, <2>7, OneAfterOther, EmptyIs, ConcatEmptySeq
  <2>10. <<>> \in Seq(Messages) /\ <<p>> \in Seq(Messages) /\ <<d>> \in Seq(Messages)
        /\ <<p, d>> \in Seq(Messages)
    OBVIOUS
  <2> HIDE DEF ms
  <2>11. ms \in Seq(Messages)
    BY <2>9, <2>10
  <2>12. Sends(r, ms)
    BY <2>8, <2>9 DEF Sends
  <2> QED
    BY <2>5, <2>8, <2>11, <2>12
<1>3. QED
  BY <1>1, <1>2

-----------------------------------------------------------------------------
(* A tab that shows a running query has something that will settle it.      *)

LEMMA TabInit == Init => TabInv
BY Basics DEF Init, TabInv

\* Nothing the tab counts on has changed.
LEMMA TabFrame ==
  ASSUME TypeOK, TabInv,
         UNCHANGED <<task, phase, aborted, stopping, streaming, cur, un, listening, msgs, mute>>
  PROVE  TabInv'
BY Basics DEF TabInv, Waiting, Closes

LEMMA TabStep ==
  ASSUME TypeOK, TypeOK', TabInv, [Next]_vars
  PROVE  TabInv'
<1> USE Basics DEF dbVars, taskVars, sendVars, callVars, arrayVars, tabVars, editVars
<1>1. ASSUME NEW r \in Runs, NEW auto \in BOOLEAN, RunQuery(r, auto)
      PROVE  TabInv'
  <2>1. phase[r] = "new" /\ r \notin aborted \cup stopping
    BY <1>1 DEF RunQuery, TabInv
  <2>2. CASE cur = 0
    <3>1. /\ cur' = r /\ un' = r /\ listening' = listening \cup {r}
          /\ phase' = [phase EXCEPT ![r] = "live"]
          /\ task' = [task EXCEPT ![r] = "invoked"]
          /\ aborted' = aborted /\ stopping' = stopping
      BY <1>1, <2>2 DEF RunQuery, Launch, TabInv, TypeOK
    <3> QED
      BY <2>1, <3>1 DEF TabInv, TypeOK, Pending
  <2>3. CASE cur # 0
    <3>1. /\ cur' = 0 /\ un' = 0 /\ listening' = listening \ {un}
          /\ phase' = [phase EXCEPT ![r] = "waiting"]
          /\ task' = task /\ aborted' = aborted /\ stopping' = stopping
      BY <1>1, <2>3 DEF RunQuery, LetGo, TypeOK
    <3>2. r \in Waiting'
      BY <3>1 DEF Waiting, TypeOK
    <3> QED
      BY <2>1, <3>1, <3>2 DEF TabInv, TypeOK
  <2> QED
    BY <2>2, <2>3
<1>2. ASSUME NEW r \in Runs, CancelReturns(r)
      PROVE  TabInv'
  <2>1. phase[r] = "waiting" /\ task[r] = "none" /\ r \notin aborted \cup stopping
    BY <1>2 DEF CancelReturns, TabInv
  <2>2. /\ cur' = r /\ un' = r /\ listening' = listening \cup {r}
        /\ phase' = [phase EXCEPT ![r] = "live"]
        /\ task' = [task EXCEPT ![r] = "invoked"]
        /\ stopping' = stopping
    BY <1>2 DEF CancelReturns, Launch
  <2>3. \A v \in aborted' : v \in aborted \/ (v \in Runs /\ task[v] # "none")
    BY <1>2 DEF CancelReturns, Cancelled, TypeOK
  <2> QED
    BY <2>1, <2>2, <2>3 DEF TabInv, TypeOK, Pending
<1>3. ASSUME NEW r \in Runs, Refused(r)
      PROVE  TabInv'
  BY <1>3 DEF Refused, Over, LetGo, TabInv, TypeOK
<1>4. ASSUME NEW r \in Runs, BeginTask(r) \/ Settle(r)
      PROVE  TabInv'
  <2>1. /\ \E s \in {"begun", "settled"} : task' = [task EXCEPT ![r] = s]
        /\ task[r] # "none"
        /\ UNCHANGED <<phase, aborted, stopping, streaming, cur, un, listening, msgs, mute>>
    BY <1>4 DEF BeginTask, Settle
  <2> QED
    BY <2>1 DEF TabInv, TypeOK, Waiting, Closes, Pending
<1>5. ASSUME NEW r \in Runs, Execute(r)
      PROVE  TabInv'
  <2>1. /\ task' = [task EXCEPT ![r] = "read"]
        /\ task[r] = "begun"
        /\ UNCHANGED <<phase, aborted, stopping, streaming, cur, un, listening, mute>>
    BY <1>5 DEF Execute
  <2>2. \A q \in Runs : q # r => msgs'[q] = msgs[q]
    BY <1>5 DEF Execute, Post, TypeOK
  <2> QED
    BY <2>1, <2>2 DEF TabInv, TypeOK, Waiting, Closes, Pending
<1>6. ASSUME NEW r \in Runs, ExecFails(r) \/ Report(r)
      PROVE  TabInv'
  <2>1. /\ task' = [task EXCEPT ![r] = "over"] /\ aborted' = aborted \ {r}
        /\ task[r] # "none"
        /\ UNCHANGED <<phase, stopping, streaming, cur, un, listening>>
    BY <1>6 DEF ExecFails, Report, Ends
  <2>2. \A q \in Runs : q # r => msgs'[q] = msgs[q]
    BY <1>6 DEF ExecFails, Report, Post, TypeOK
  <2>3. PICK ms \in Seq(Messages) : Post(r, ms) /\ Sends(r, ms) /\ mute \subseteq mute'
    BY <1>6, LastSends
  <2>4. r \in listening => Closes(r)' \/ r \in mute'
    <3> SUFFICES ASSUME r \in listening, r \notin mute'
                 PROVE  \E i \in 1 .. Len(msgs'[r]) : msgs'[r][i].kind \in {"done", "error"}
      BY DEF Closes
    <3>1. msgs[r] \in Seq(Messages) /\ msgs'[r] = msgs[r] \o ms
      BY <2>3 DEF Post, TypeOK
    <3>2. CASE \E n \in Messages : ms = <<n>> /\ Last(r, n)
      <4>1. PICK n \in Messages : ms = <<n>> /\ n.kind \in {"done", "error"}
        BY <3>2 DEF Last
      <4>2. Len(msgs[r]) + 1 \in 1 .. Len(msgs'[r]) /\ msgs'[r][Len(msgs[r]) + 1] = n
        BY <3>1, <4>1, Append1, EmptyIs
      <4> QED
        BY <4>1, <4>2
    <3>3. CASE \E m, n \in Messages : ms = <<m, n>> /\ First(r, m) /\ Last(r, n)
      <4>1. PICK m \in Messages, n \in Messages : ms = <<m, n>> /\ n.kind \in {"done", "error"}
        BY <3>3 DEF Last
      <4>2. Len(msgs[r]) + 2 \in 1 .. Len(msgs'[r]) /\ msgs'[r][Len(msgs[r]) + 2] = n
        BY <3>1, <4>1, Append2, EmptyIs
      <4> QED
        BY <4>1, <4>2
    <3> QED
      BY <2>3, <3>2, <3>3 DEF Sends
  <2> QED
    BY <2>1, <2>2, <2>3, <2>4 DEF TabInv, TypeOK, Waiting, Closes, Pending
<1>7. ASSUME NEW r \in Runs, Drop(r)
      PROVE  TabInv'
  BY <1>7 DEF Drop, Ends, TabInv, TypeOK, Waiting, Closes
<1>8. ASSUME NEW r \in Runs, Deliver(r)
      PROVE  TabInv'
  <2> DEFINE m == Head(msgs[r])
  <2>1. m \in Messages
    BY <1>8, TailIs DEF Deliver, TypeOK
  <2>2. m.kind \in {"columns", "rows", "patch", "done", "error"}
    BY <2>1 DEF Messages
  <2>3. UNCHANGED <<task, phase, aborted, stopping, mute>>
    BY <1>8 DEF Deliver
  <2>4. CASE m.kind \in {"done", "error"}
    <3>1. LetGo /\ streaming' = FALSE
      BY <1>8, <2>4 DEF Deliver, OnDone, OnError, Over
    <3> QED
      BY <2>3, <3>1 DEF LetGo, TabInv, TypeOK
  <2>5. CASE m.kind \notin {"done", "error"}
    <3>1. UNCHANGED <<streaming, cur, un, listening>>
      BY <1>8, <2>2, <2>5 DEF Deliver, OnColumns, OnRows, OnPatch
    <3>2. cur # 0 /\ Closes(cur) => Closes(cur)'
      <4> SUFFICES ASSUME cur # 0, NEW i \in 1 .. Len(msgs[cur]),
                          msgs[cur][i].kind \in {"done", "error"}
                   PROVE  \E j \in 1 .. Len(msgs'[cur]) : msgs'[cur][j].kind \in {"done", "error"}
        BY <3>1 DEF Closes
      <4>1. cur \in Runs /\ cur \in listening'
        BY <3>1 DEF TabInv, TypeOK
      <4>2. CASE cur = r
        <5>1. msgs'[cur] = Tail(msgs[r]) /\ msgs[r] # <<>> /\ msgs[r] \in Seq(Messages)
          BY <1>8, <4>1, <4>2 DEF Deliver, TypeOK
        <5>2. i # 1
          BY <2>5, <4>2, <5>1, TailIs
        <5>3. i - 1 \in 1 .. Len(Tail(msgs[r])) /\ Tail(msgs[r])[i - 1] = msgs[r][i]
          <6>1. Len(msgs[r]) \in Nat
            BY <5>1
          <6>2. i - 1 \in 1 .. Len(msgs[r]) - 1
            BY <4>2, <5>2, <6>1
          <6>3. Tail(msgs[r])[i - 1] = msgs[r][(i - 1) + 1] /\ Len(Tail(msgs[r])) = Len(msgs[r]) - 1
            BY <5>1, <6>2, TailIs
          <6> QED
            BY <6>2, <6>3
        <5> QED
          BY <4>2, <5>1, <5>3
      <4>3. CASE cur # r
        <5>1. msgs'[cur] = msgs[cur]
          BY <1>8, <4>1, <4>3 DEF Deliver, TypeOK
        <5> QED
          BY <5>1
      <4> QED
        BY <4>2, <4>3
    <3> QED
      BY <2>3, <3>1, <3>2 DEF TabInv, Waiting
  <2> QED
    BY <2>4, <2>5
<1>9. ASSUME NEW r \in Runs, StopReturns(r)
      PROVE  TabInv'
  BY <1>9 DEF StopReturns, Cancelled, TabInv, TypeOK, Waiting, Closes
<1>10. CASE StopTab
  <2>1. /\ cur' = 0 /\ un' = 0 /\ listening' = listening \ {un}
        /\ stopping' = stopping \cup ({cur} \ {0})
        /\ streaming' = (IF cur = 0 THEN FALSE ELSE streaming)
        /\ UNCHANGED <<task, phase, aborted>>
    BY <1>10 DEF StopTab, LetGo
  <2>2. cur # 0 => stopping' # {}
    BY <2>1
  <2> QED
    BY <2>1, <2>2 DEF TabInv, TypeOK
<1>11. CASE Others \/ EditStart \/ EditCommits \/ EditFails \/ EditLands \/ UNCHANGED vars
  BY <1>11, TabFrame DEF Others, EditStart, EditCommits, EditFails, EditLands, vars
<1>12. QED
  BY <1>1, <1>2, <1>3, <1>4, <1>5, <1>6, <1>7, <1>8, <1>9, <1>10, <1>11
     DEF Next, TaskStep

(* A tab never spins for ever: while it shows a running query, a call of the *)
(* tab is going to settle that, or it listens to a run that was not stopped  *)
(* and has not answered, or whose closing message is on its way or, the one  *)
(* exception, could not be sent (query.rs:1483-1489, 1522-1528).             *)
THEOREM TabNeverHangs == Spec => []StreamingHasEnd
<1>1. TypeOK /\ TabInv => StreamingHasEnd
  BY DEF TabInv, StreamingHasEnd, Pending
<1>2. Init => TypeOK /\ TabInv
  BY TypeInit, TabInit
<1>3. TypeOK /\ TabInv /\ [Next]_vars => (TypeOK /\ TabInv)'
  BY TypeStep, TabStep
<1>4. QED
  BY <1>1, <1>2, <1>3, PTL DEF Spec

-----------------------------------------------------------------------------
(* Snapshots.                                                               *)

Kept ==
  /\ \A i \in Runs : task[i] \in {"settled", "over"} =>
       task'[i] \in {"settled", "over"} /\ made'[i] = made[i]
  /\ torn \subseteq torn'

LEMMA SnapshotsKept ==
  ASSUME TypeOK, TabInv, [Next]_vars
  PROVE  Kept
<1> USE DEF dbVars, taskVars, sendVars, callVars, arrayVars, tabVars, editVars, Kept
<1>1. ASSUME NEW r \in Runs, NEW auto \in BOOLEAN, RunQuery(r, auto)
      PROVE  Kept
  <2>1. task[r] = "none"
    BY <1>1 DEF RunQuery, TabInv
  <2> QED
    BY <1>1, <2>1 DEF RunQuery, Launch, TypeOK
<1>2. ASSUME NEW r \in Runs, CancelReturns(r)
      PROVE  Kept
  <2>1. task[r] = "none"
    BY <1>2 DEF CancelReturns, TabInv
  <2> QED
    BY <1>2, <2>1 DEF CancelReturns, Launch, TypeOK
<1>3. ASSUME NEW r \in Runs, Refused(r) \/ BeginTask(r) \/ Execute(r) \/ Settle(r)
      PROVE  Kept
  BY <1>3 DEF Refused, BeginTask, Execute, Settle, TypeOK
<1>4. ASSUME NEW r \in Runs, ExecFails(r) \/ Report(r) \/ Drop(r)
      PROVE  Kept
  BY <1>4, LastSends DEF ExecFails, Report, Drop, Ends, TypeOK
<1>5. ASSUME NEW r \in Runs, Deliver(r) \/ StopReturns(r)
      PROVE  Kept
  BY <1>5 DEF Deliver, StopReturns
<1>6. CASE StopTab \/ Others \/ EditStart \/ EditCommits \/ EditFails \/ EditLands
           \/ UNCHANGED vars
  BY <1>6 DEF StopTab, Others, EditStart, EditCommits, EditFails, EditLands, vars
<1>7. QED
  BY <1>1, <1>2, <1>3, <1>4, <1>5, <1>6 DEF Next, TaskStep

LEMMA StillSealed ==
  ASSUME Kept, NEW i \in Ids, Sealed(i)
  PROVE  Sealed(i)' /\ (i # 0 => made'[i] = made[i])
BY Basics DEF Kept, Sealed

LEMMA StillSound ==
  ASSUME Kept, NEW m \in Messages, Sound(m)
  PROVE  Sound(m)'
<1>1. m.id \in Ids
  BY DEF Messages
<1> QED
  BY <1>1, StillSealed DEF Sound

LEMMA RefInit == Init => RefInv
BY Basics DEF Init, RefInv, Sealed

\* Nothing that refers to a snapshot has changed.
LEMMA RefFrame ==
  ASSUME TypeOK, RefInv, Kept,
         UNCHANGED <<snap, base, prev, answer, asks, task, seen>>,
         Sealed(tag')
  PROVE  RefInv'
<1>1. \A r \in Runs : base[r] \in Ids /\ prev[r] \in Ids /\ answer[r] \in Ids
  BY DEF TypeOK
<1>2. snap \in Ids
  BY DEF TypeOK
<1>3. Sealed(tag)' /\ Sealed(snap)'
  BY <1>2, StillSealed DEF RefInv, Sealed
<1>4. ASSUME NEW r \in Runs
      PROVE  /\ Sealed(base[r])' /\ Sealed(prev[r])' /\ Sealed(answer[r])'
             /\ prev[r]' # 0 => r \in asks' /\ task'[r] \in {"begun", "read", "settled"}
             /\ answer[r]' # 0 => task'[r] = "settled" /\ made'[answer'[r]] = seen'[r]
  BY <1>1, StillSealed DEF RefInv
<1> QED
  BY <1>3, <1>4 DEF RefInv

LEMMA RefStep ==
  ASSUME TypeOK, TypeOK', TabInv, QueueInv, RefInv, [Next]_vars
  PROVE  RefInv'
<1> USE DEF dbVars, taskVars, sendVars, callVars, arrayVars, tabVars, editVars
<1>1. Kept
  BY SnapshotsKept
<1>2. \A i \in Ids : Sealed(i) => Sealed(i)' /\ (i # 0 => made'[i] = made[i])
  BY <1>1, StillSealed
<1>3. /\ snap \in Ids /\ tag \in Ids
      /\ \A r \in Runs : base[r] \in Ids /\ prev[r] \in Ids /\ answer[r] \in Ids
  BY DEF TypeOK
<1>4. Sealed(0)' /\ Sealed(0)
  BY DEF Sealed
<1>5. ASSUME NEW r \in Runs, NEW auto \in BOOLEAN, RunQuery(r, auto)
      PROVE  RefInv'
  <2>1. task[r] = "none" /\ tag' \in {tag, 0}
    BY <1>5 DEF RunQuery, TabInv, Launch, NewArray
  <2>2. /\ base' = [base EXCEPT ![r] = PrevSnapshotId(auto)]
        /\ PrevSnapshotId(auto) \in {tag, 0}
        /\ asks \subseteq asks'
        /\ UNCHANGED <<snap, prev, answer, seen, made>>
        /\ \A q \in Runs : q # r => task'[q] = task[q]
    BY <1>5 DEF RunQuery, PrevSnapshotId, Launch, TypeOK
  <2> QED
    BY <1>2, <1>3, <1>4, <2>1, <2>2 DEF RefInv, TypeOK
<1>6. ASSUME NEW r \in Runs, CancelReturns(r)
      PROVE  RefInv'
  <2>1. task[r] = "none" /\ tag' \in {tag, 0}
    BY <1>6 DEF CancelReturns, TabInv, Launch, NewArray
  <2>2. /\ UNCHANGED <<snap, prev, answer, seen, made, asks, base>>
        /\ \A q \in Runs : q # r => task'[q] = task[q]
    BY <1>6 DEF CancelReturns, Launch, TypeOK
  <2> QED
    BY <1>2, <1>3, <1>4, <2>1, <2>2 DEF RefInv
<1>7. ASSUME NEW r \in Runs, Refused(r)
      PROVE  RefInv'
  <2>1. /\ task[r] = "invoked"
        /\ UNCHANGED <<snap, tag, prev, answer, seen, made, asks, base>>
        /\ \A q \in Runs : q # r => task'[q] = task[q]
    BY <1>7 DEF Refused, TypeOK
  <2> QED
    BY <1>2, <1>3, <2>1 DEF RefInv
<1>8. ASSUME NEW r \in Runs, BeginTask(r)
      PROVE  RefInv'
  <2>1. /\ task[r] = "invoked" /\ task' = [task EXCEPT ![r] = "begun"]
        /\ snap' \in {snap, 0}
        /\ prev' = [prev EXCEPT ![r] = Matching(r, snap')]
        /\ base' = [base EXCEPT ![r] = 0]
        /\ UNCHANGED <<tag, answer, seen, made, asks>>
    BY <1>8 DEF BeginTask
  <2>2. Matching(r, snap') \in {snap', 0} /\ (Matching(r, snap') # 0 => r \in asks)
    BY DEF Matching
  <2> QED
    BY <1>2, <1>3, <1>4, <2>1, <2>2 DEF RefInv, TypeOK
<1>9. ASSUME NEW r \in Runs, Execute(r)
      PROVE  RefInv'
  <2>1. /\ task[r] = "begun" /\ task' = [task EXCEPT ![r] = "read"]
        /\ seen' = [seen EXCEPT ![r] = db]
        /\ UNCHANGED <<snap, tag, prev, base, answer, made, asks>>
    BY <1>9 DEF Execute
  <2> QED
    BY <1>2, <1>3, <2>1 DEF RefInv, TypeOK
<1>10. ASSUME NEW r \in Runs, Settle(r)
       PROVE  RefInv'
  <2>1. /\ task[r] = "read" /\ task' = [task EXCEPT ![r] = "settled"]
        /\ UNCHANGED <<tag, prev, base, seen, asks>>
    BY <1>10 DEF Settle
  <2>2. answer[r] = 0 /\ r \in Ids
    BY <2>1, Basics DEF RefInv
  <2>3. Sealed(r)'
    BY <2>1 DEF Sealed, TypeOK
  <2>4. CASE /\ r \notin asks \/ Unchanged(r)
             /\ answer' = [answer EXCEPT ![r] = prev[r]]
             /\ UNCHANGED <<snap, made, upsets>>
    <3>1. prev[r] # 0 => seen[r] = made[prev[r]]
      BY <2>4 DEF RefInv, Unchanged
    <3> QED
      BY <1>2, <1>3, <2>1, <2>4, <3>1 DEF RefInv, TypeOK
  <2>5. CASE /\ snap' = r
             /\ answer' = [answer EXCEPT ![r] = r] /\ made' = [made EXCEPT ![r] = seen[r]]
    <3>1. answer'[r] = r /\ made'[r] = seen[r] /\ task'[r] = "settled"
      BY <2>1, <2>5 DEF TypeOK
    <3>2. \A q \in Runs : q # r => answer'[q] = answer[q] /\ task'[q] = task[q]
      BY <2>1, <2>5 DEF TypeOK
    <3> QED
      BY <1>2, <1>3, <2>1, <2>3, <2>5, <3>1, <3>2 DEF RefInv
  <2>6. CASE snap' = 0 /\ UNCHANGED <<answer, made>>
    BY <1>2, <1>3, <1>4, <2>1, <2>2, <2>6 DEF RefInv, TypeOK
  <2> QED
    BY <1>10, <2>4, <2>5, <2>6 DEF Settle
<1>11. ASSUME NEW r \in Runs, Ends(r), tag' = tag
       PROVE  RefInv'
  <2>1. /\ prev'[r] = 0 /\ answer'[r] = 0 /\ base' = base /\ snap' = snap
        /\ \A q \in Runs : q # r => /\ prev'[q] = prev[q] /\ answer'[q] = answer[q]
                                    /\ task'[q] = task[q] /\ seen'[q] = seen[q]
                                    /\ q \in asks => q \in asks'
    BY <1>11 DEF Ends, TypeOK
  <2> QED
    BY <1>2, <1>3, <1>4, <1>11, <2>1 DEF RefInv
<1>12. ASSUME NEW r \in Runs, ExecFails(r) \/ Report(r) \/ Drop(r)
       PROVE  RefInv'
  BY <1>11, <1>12 DEF ExecFails, Report, Drop, Ends
<1>13. ASSUME NEW r \in Runs, Deliver(r)
       PROVE  RefInv'
  <2> DEFINE m == Head(msgs[r])
  <2>1. msgs[r] \in Seq(Messages) /\ msgs[r] # <<>>
    BY <1>13 DEF Deliver, TypeOK
  <2>2. m \in Messages /\ m = msgs[r][1] /\ 1 \in 1 .. Len(msgs[r])
    BY <2>1, TailIs
  <2>3. Sealed(m.id) /\ m.kind \in {"columns", "rows", "patch", "done", "error"}
    BY <2>2 DEF QueueInv, Queue, Sound, Messages
  <2>4. tag' \in {tag, 0, m.id}
    BY <1>13, <2>3 DEF Deliver, OnColumns, OnRows, OnPatch, OnDone, OnError, NewArray
  <2>5. Sealed(tag')
    BY <1>4, <2>3, <2>4 DEF RefInv
  <2>6. UNCHANGED <<snap, base, prev, answer, asks, task, seen>>
    BY <1>13 DEF Deliver
  <2> QED
    BY <1>1, <2>5, <2>6, RefFrame
<1>14. CASE (\E r \in Runs : StopReturns(r)) \/ StopTab \/ Others \/ EditStart
            \/ EditCommits \/ EditFails \/ EditLands \/ UNCHANGED vars
  <2>1. tag' \in {tag, 0} /\ UNCHANGED <<snap, base, prev, answer, asks, task, seen>>
    BY <1>14 DEF StopReturns, StopTab, Others, EditStart, EditCommits, EditFails,
                 EditLands, Copied, vars
  <2>2. Sealed(tag')
    BY <1>4, <2>1 DEF RefInv
  <2> QED
    BY <1>1, <2>1, <2>2, RefFrame
<1>15. QED
  BY <1>5, <1>6, <1>7, <1>8, <1>9, <1>10, <1>12, <1>13, <1>14 DEF Next, TaskStep

-----------------------------------------------------------------------------
(* The messages of a run.                                                   *)

LEMMA OrderTail ==
  ASSUME NEW q \in Seq(Messages), q # <<>>, Order(q)
  PROVE  Order(Tail(q))
<1> DEFINE t == Tail(q)
<1>1. PICK n \in Nat : Len(q) = n + 1 /\ Len(t) = n /\ \A j \in 1 .. n : t[j] = q[j + 1]
  <2>1. /\ Len(q) \in Nat /\ Len(q) >= 1 /\ Len(t) = Len(q) - 1
        /\ \A j \in 1 .. Len(q) - 1 : t[j] = q[j + 1]
    BY TailIs, EmptyIs
  <2>2. Len(q) - 1 \in Nat /\ Len(q) = (Len(q) - 1) + 1
    BY <2>1
  <2> QED
    BY <2>1, <2>2
<1> HIDE DEF t
<1>2. ASSUME NEW i \in 1 .. n
      PROVE  Follows(t, i)
  <2>1. i + 1 \in 1 .. n + 1 /\ t[i] = q[i + 1]
    BY <1>1
  <2>2. Follows(q, i + 1)
    BY <1>1, <2>1 DEF Order
  <2>3. CASE i = n
    BY <1>1, <2>1, <2>2, <2>3 DEF Follows
  <2>4. CASE i # n
    <3>1. i < n /\ i + 1 \in 1 .. n /\ i + 1 # n + 1
      BY <2>4
    <3>2. t[i + 1] = q[(i + 1) + 1]
      BY <1>1, <3>1
    <3> QED
      BY <1>1, <2>1, <2>2, <3>1, <3>2 DEF Follows
  <2> QED
    BY <2>3, <2>4
<1>3. Order(t)
  BY <1>1, <1>2 DEF Order
<1> QED
  BY <1>3 DEF t

LEMMA OrderEnd ==
  ASSUME NEW q \in Seq(Messages), NEW m \in Messages, Order(q),
         m.kind \in {"done", "error"},
         q # <<>> => /\ q[Len(q)].kind = "rows"
                     /\ m.kind = "error" \/ m.rows = q[Len(q)].rows
  PROVE  Order(q \o <<m>>)
<1> DEFINE p == q \o <<m>>
<1>1. /\ Len(q) \in Nat /\ Len(p) = Len(q) + 1 /\ p[Len(q) + 1] = m
      /\ \A j \in 1 .. Len(q) : p[j] = q[j]
  BY Append1, EmptyIs
<1>2. SUFFICES ASSUME NEW i \in 1 .. Len(p)
               PROVE  Follows(p, i)
  BY DEF Order
<1> HIDE DEF p
<1>3. CASE i = Len(q) + 1
  BY <1>1, <1>3 DEF Follows
<1>4. CASE i = Len(q)
  <2>1. q # <<>> /\ p[i] = q[i] /\ p[i + 1] = m
    BY <1>1, <1>2, <1>4, EmptyIs
  <2> QED
    BY <1>1, <1>4, <2>1 DEF Follows
<1>5. CASE i < Len(q)
  <2>1. /\ i \in 1 .. Len(q) /\ i + 1 \in 1 .. Len(q)
        /\ p[i] = q[i] /\ p[i + 1] = q[i + 1] /\ i # Len(q) /\ i < Len(p)
    BY <1>1, <1>2, <1>5
  <2>2. Follows(q, i)
    BY <2>1 DEF Order
  <2> QED
    BY <1>1, <2>1, <2>2 DEF Follows
<1>6. QED
  BY <1>1, <1>2, <1>3, <1>4, <1>5

LEMMA OrderTwo ==
  ASSUME NEW m \in Messages, NEW n \in Messages,
         \/ m.kind = "columns" /\ n.kind \in {"rows", "error"}
         \/ m.kind = "patch" /\ n.kind = "done" /\ n.rows = m.rows
  PROVE  Order(<<m, n>>)
<1>1. Len(<<m, n>>) = 2 /\ <<m, n>>[1] = m /\ <<m, n>>[2] = n
  OBVIOUS
<1>2. Follows(<<m, n>>, 1) /\ Follows(<<m, n>>, 2)
  BY <1>1 DEF Follows
<1>3. QED
  BY <1>1, <1>2 DEF Order

LEMMA OrderOne ==
  ASSUME NEW m \in Messages
  PROVE  Order(<<m>>)
<1>1. Len(<<m>>) = 1 /\ <<m>>[1] = m
  OBVIOUS
<1>2. Follows(<<m>>, 1)
  BY <1>1 DEF Follows
<1>3. QED
  BY <1>1, <1>2 DEF Order

LEMMA QueueInit == Init => QueueInv
<1> SUFFICES ASSUME Init, NEW r \in Runs
             PROVE  Queue(r)
  BY DEF QueueInv
<1>1. msgs[r] = <<>>
  BY DEF Init
<1> QED
  BY <1>1, EmptyIs DEF Queue, Order

LEMMA QueueEmpty ==
  ASSUME NEW r \in Runs, msgs'[r] = <<>>
  PROVE  Queue(r)'
BY EmptyIs DEF Queue, Order

\* Nothing is sent to a run and nothing is taken from it.
LEMMA QueueFrame ==
  ASSUME TypeOK, QueueInv, Kept, NEW r \in Runs,
         msgs'[r] = msgs[r], r \in listening => r \in listening',
         \/ /\ prev'[r] = prev[r] /\ seen'[r] = seen[r]
            /\ task'[r] = task[r] \/ (task[r] = "read" /\ task'[r] = "settled")
         \/ task'[r] = "over"
  PROVE  Queue(r)'
<1>1. Queue(r) /\ msgs[r] \in Seq(Messages)
  BY DEF QueueInv, TypeOK
<1>2. \A i \in 1 .. Len(msgs[r]) : msgs[r][i] \in Messages
  BY <1>1
<1>3. ASSUME NEW i \in 1 .. Len(msgs[r])
      PROVE  Sound(msgs[r][i])'
  <2>1. PICK m \in Messages : m = msgs[r][i]
    BY <1>2
  <2>2. Sound(m)'
    BY <1>1, <2>1, StillSound DEF Queue
  <2> QED
    BY <2>1, <2>2 DEF Sound, Sealed
<1>4. Order(msgs[r])'
  BY <1>1 DEF Queue, Order, Follows
<1>5. /\ r \notin listening' => msgs'[r] = <<>>
      /\ task'[r] \in {"none", "invoked", "begun"} => msgs'[r] = <<>>
      /\ task'[r] # "over" /\ prev'[r] # 0 => msgs'[r] = <<>>
  BY <1>1 DEF Queue
<1>6. task'[r] \in {"read", "settled"} /\ msgs'[r] # <<>> =>
        /\ msgs'[r][Len(msgs'[r])].kind = "rows"
        /\ msgs'[r][Len(msgs'[r])].rows = seen'[r]
  BY <1>1 DEF Queue
<1>7. QED
  BY <1>3, <1>4, <1>5, <1>6 DEF Queue

LEMMA SoundLater ==
  ASSUME Kept
  PROVE  \A m \in Messages : Sound(m) => Sound(m)'
BY StillSound

\* The last message of a run is added; the run is over.
LEMMA QueueAppended ==
  ASSUME Kept, NEW r \in Runs, NEW m \in Messages, Queue(r), msgs[r] \in Seq(Messages),
         r \in listening, listening' = listening, task'[r] = "over",
         msgs'[r] = msgs[r] \o <<m>>, Order(msgs[r] \o <<m>>), Sound(m)
  PROVE  Queue(r)'
<1> DEFINE p == msgs[r] \o <<m>>
<1>1. /\ Len(msgs[r]) \in Nat /\ Len(p) = Len(msgs[r]) + 1 /\ p[Len(msgs[r]) + 1] = m
      /\ \A i \in 1 .. Len(msgs[r]) : p[i] = msgs[r][i] /\ msgs[r][i] \in Messages
  BY Append1, EmptyIs
<1>2. \A i \in 1 .. Len(p) : p[i] \in Messages /\ Sound(p[i])
  BY <1>1 DEF Queue
<1>3. msgs'[r] = p
  OBVIOUS
<1> HIDE DEF p
<1>4. ASSUME NEW i \in 1 .. Len(p)
      PROVE  Sound(msgs[r][i])'
  <2>1. PICK n \in Messages : n = p[i] /\ Sound(n)
    BY <1>2
  <2>2. Sound(n)'
    BY <2>1, StillSound
  <2> QED
    BY <1>3, <2>1, <2>2 DEF Sound, Sealed
<1>5. Order(msgs[r])'
  BY <1>3 DEF Order, Follows, p
<1>6. QED
  BY <1>3, <1>4, <1>5 DEF Queue

\* The first message of a run is taken, and it is not the last one.
LEMMA QueueShortened ==
  ASSUME Kept, NEW r \in Runs, Queue(r), msgs[r] \in Seq(Messages), msgs[r] # <<>>,
         UNCHANGED <<task, prev, seen>>, r \in listening',
         msgs'[r] = Tail(msgs[r]), msgs'[r] # <<>>
  PROVE  Queue(r)'
<1> DEFINE q == msgs[r]
           t == Tail(q)
<1>1. PICK n \in Nat : /\ Len(q) = n + 1 /\ Len(t) = n /\ n # 0
                       /\ \A j \in 1 .. n : t[j] = q[j + 1]
  <2>1. /\ Len(q) \in Nat /\ Len(q) >= 1 /\ Len(t) = Len(q) - 1 /\ Len(t) # 0
        /\ \A j \in 1 .. Len(q) - 1 : t[j] = q[j + 1]
    BY TailIs, EmptyIs
  <2> QED
    BY <2>1
<1>2. \A i \in 1 .. n + 1 : q[i] \in Messages /\ Sound(q[i])
  BY <1>1 DEF Queue
<1>3. Order(t) /\ msgs'[r] = t
  BY OrderTail DEF Queue
<1>4. /\ task[r] \notin {"none", "invoked", "begun"} /\ ~(task[r] # "over" /\ prev[r] # 0)
      /\ task[r] \in {"read", "settled"} => q[n + 1].kind = "rows" /\ q[n + 1].rows = seen[r]
  BY <1>1 DEF Queue
<1> HIDE DEF q, t
<1>5. ASSUME NEW i \in 1 .. n
      PROVE  Sound(msgs[r][i])'
  <2>1. i + 1 \in 1 .. n + 1 /\ t[i] = q[i + 1]
    BY <1>1
  <2>2. PICK m \in Messages : m = t[i] /\ Sound(m)
    BY <1>2, <2>1
  <2>3. Sound(m)'
    BY <2>2, StillSound
  <2> QED
    BY <1>3, <2>2, <2>3 DEF Sound, Sealed
<1>6. Order(msgs[r])'
  BY <1>3 DEF Order, Follows
<1>7. t[n] = q[n + 1]
  BY <1>1
<1>8. QED
  BY <1>1, <1>3, <1>4, <1>5, <1>6, <1>7 DEF Queue

LEMMA QueueStep ==
  ASSUME TypeOK, TypeOK', TabInv, RefInv, QueueInv, [Next]_vars
  PROVE  QueueInv'
<1> USE DEF dbVars, taskVars, sendVars, callVars, arrayVars, tabVars, editVars
<1>1. Kept
  BY SnapshotsKept
<1>2. \A q \in Runs : Queue(q) /\ msgs[q] \in Seq(Messages)
  BY DEF QueueInv, TypeOK
<1>3. ASSUME NEW r \in Runs, NEW auto \in BOOLEAN, RunQuery(r, auto)
      PROVE  QueueInv'
  <2>1. phase[r] = "new" /\ task[r] = "none"
    BY <1>3 DEF RunQuery, TabInv
  <2>2. msgs[r] = <<>>
    BY <1>2, <2>1 DEF Queue
  <2>3. SUFFICES ASSUME NEW q \in Runs PROVE Queue(q)'
    BY DEF QueueInv
  <2>4. UNCHANGED <<prev, seen>> /\ (q # r => task'[q] = task[q])
    BY <1>3 DEF RunQuery, Launch, TypeOK
  <2>5. CASE cur = 0
    <3>1. msgs' = msgs /\ listening' = listening \cup {r}
      BY <1>3, <2>5, Basics DEF RunQuery, Launch, TabInv, TypeOK
    <3> QED
      BY <1>1, <2>2, <2>4, <3>1, QueueEmpty, QueueFrame
  <2>6. CASE cur # 0
    <3>1. msgs' = Unread /\ listening' = listening \ {un} /\ task' = task
      BY <1>3, <2>6 DEF RunQuery, LetGo
    <3>2. msgs'[q] = IF q = un THEN <<>> ELSE msgs[q]
      BY <3>1 DEF Unread
    <3> QED
      BY <1>1, <2>4, <3>1, <3>2, QueueEmpty, QueueFrame
  <2> QED
    BY <2>5, <2>6
<1>4. ASSUME NEW r \in Runs, CancelReturns(r)
      PROVE  QueueInv'
  <2>1. task[r] = "none"
    BY <1>4 DEF CancelReturns, TabInv
  <2>2. msgs[r] = <<>>
    BY <1>2, <2>1 DEF Queue
  <2>3. SUFFICES ASSUME NEW q \in Runs PROVE Queue(q)'
    BY DEF QueueInv
  <2>4. /\ UNCHANGED <<prev, seen, msgs>> /\ (q # r => task'[q] = task[q])
        /\ listening' = listening \cup {r}
    BY <1>4 DEF CancelReturns, Launch, TypeOK
  <2> QED
    BY <1>1, <2>2, <2>4, QueueEmpty, QueueFrame
<1>5. ASSUME NEW r \in Runs, Refused(r)
      PROVE  QueueInv'
  <2>1. SUFFICES ASSUME NEW q \in Runs PROVE Queue(q)'
    BY DEF QueueInv
  <2>2. /\ msgs' = Unread /\ listening' = listening \ {un}
        /\ UNCHANGED <<prev, seen>> /\ task' = [task EXCEPT ![r] = "over"]
    BY <1>5 DEF Refused, LetGo
  <2>3. msgs'[q] = (IF q = un THEN <<>> ELSE msgs[q]) /\ task'[q] \in {task[q], "over"}
    BY <2>2 DEF Unread, TypeOK
  <2> QED
    BY <1>1, <2>2, <2>3, QueueEmpty, QueueFrame
<1>6. CASE StopTab
  <2>1. SUFFICES ASSUME NEW q \in Runs PROVE Queue(q)'
    BY DEF QueueInv
  <2>2. /\ msgs' = Unread /\ listening' = listening \ {un}
        /\ UNCHANGED <<prev, seen, task>>
    BY <1>6 DEF StopTab, LetGo
  <2>3. msgs'[q] = IF q = un THEN <<>> ELSE msgs[q]
    BY <2>2 DEF Unread
  <2> QED
    BY <1>1, <2>2, <2>3, QueueEmpty, QueueFrame
<1>7. ASSUME NEW r \in Runs, BeginTask(r)
      PROVE  QueueInv'
  <2>1. task[r] = "invoked"
    BY <1>7 DEF BeginTask
  <2>2. msgs[r] = <<>>
    BY <1>2, <2>1 DEF Queue
  <2>3. SUFFICES ASSUME NEW q \in Runs PROVE Queue(q)'
    BY DEF QueueInv
  <2>4. UNCHANGED <<msgs, seen, listening>> /\ (q # r => task'[q] = task[q] /\ prev'[q] = prev[q])
    BY <1>7 DEF BeginTask, TypeOK
  <2> QED
    BY <1>1, <2>2, <2>4, QueueEmpty, QueueFrame
<1>8. ASSUME NEW r \in Runs, Execute(r)
      PROVE  QueueInv'
  <2>1. task[r] = "begun" /\ msgs[r] = <<>>
    BY <1>2, <1>8 DEF Execute, Queue
  <2>2. /\ UNCHANGED <<prev, listening, made>>
        /\ task' = [task EXCEPT ![r] = "read"] /\ seen' = [seen EXCEPT ![r] = db]
    BY <1>8 DEF Execute
  <2>3. db \in Contents
    BY DEF TypeOK
  <2> DEFINE c == Message("columns", 0, Nothing)
             m == Message("rows", 0, db)
  <2>4. /\ c \in Messages /\ c.kind = "columns" /\ c.id = 0
        /\ m \in Messages /\ m.kind = "rows" /\ m.id = 0 /\ m.rows = db
    BY <2>3, Basics, MessageIs
  <2>5. msgs' = [msgs EXCEPT ![r] = IF r \in listening
                                    THEN @ \o (IF Patching(r) THEN <<>> ELSE <<c, m>>) ELSE @]
    BY <1>8 DEF Execute, Post
  <2> HIDE DEF c, m
  <2>6. ASSUME NEW q \in Runs, q # r
        PROVE  Queue(q)'
    <3>1. msgs'[q] = msgs[q] /\ task'[q] = task[q] /\ seen'[q] = seen[q]
      BY <2>2, <2>5, <2>6 DEF TypeOK
    <3> QED
      BY <1>1, <2>2, <3>1, QueueFrame
  <2>7. Queue(r)'
    <3>1. CASE msgs'[r] = <<>>
      BY <3>1, QueueEmpty
    <3>2. CASE msgs'[r] # <<>>
      <4>1. r \in listening /\ ~Patching(r) /\ msgs'[r] = <<>> \o <<c, m>>
        BY <2>1, <2>5, <3>2, ConcatEmptySeq, EmptyIs DEF TypeOK
      <4>2. msgs'[r] = <<c, m>>
        <5>1. <<c, m>> \in Seq(Messages)
          BY <2>4
        <5> QED
          BY <4>1, <5>1, ConcatEmptySeq
      <4>3. Len(<<c, m>>) = 2 /\ <<c, m>>[1] = c /\ <<c, m>>[2] = m
        OBVIOUS
      <4>4. Order(msgs[r])'
        <5>1. Order(<<c, m>>)
          BY <2>4, OrderTwo
        <5> QED
          BY <4>2, <5>1 DEF Order, Follows
      <4>5. \A i \in 1 .. Len(msgs'[r]) : msgs'[r][i].id = 0 /\ msgs'[r][i].kind \in {"columns", "rows"}
        BY <2>4, <4>2, <4>3
      <4>6. \A i \in 1 .. Len(msgs'[r]) : Sound(msgs[r][i])'
        BY <4>5 DEF Sound, Sealed
      <4>7. prev'[r] = 0 /\ task'[r] = "read" /\ seen'[r] = db
        BY <2>2, <4>1 DEF Patching, TypeOK
      <4> QED
        BY <2>2, <2>4, <4>1, <4>2, <4>3, <4>4, <4>6, <4>7 DEF Queue
    <3> QED
      BY <3>1, <3>2
  <2> QED
    BY <2>6, <2>7 DEF QueueInv
<1>9. ASSUME NEW r \in Runs, Settle(r)
      PROVE  QueueInv'
  <2>1. SUFFICES ASSUME NEW q \in Runs PROVE Queue(q)'
    BY DEF QueueInv
  <2>2. /\ UNCHANGED <<msgs, prev, seen, listening>>
        /\ task'[q] = task[q] \/ (task[q] = "read" /\ task'[q] = "settled")
    BY <1>9 DEF Settle, TypeOK
  <2> QED
    BY <1>1, <2>2, QueueFrame
<1>10. ASSUME NEW r \in Runs, ExecFails(r) \/ Report(r)
       PROVE  QueueInv'
  <2>1. /\ task' = [task EXCEPT ![r] = "over"]
        /\ prev' = [prev EXCEPT ![r] = 0] /\ seen' = [seen EXCEPT ![r] = Nothing]
        /\ listening' = listening
    BY <1>10 DEF ExecFails, Report, Ends
  <2>2. PICK ms \in Seq(Messages) : Post(r, ms) /\ Sends(r, ms)
    BY <1>10, LastSends
  <2>3. msgs' = [msgs EXCEPT ![r] = IF r \in listening THEN @ \o ms ELSE @]
    BY <2>2 DEF Post
  <2>4. ASSUME NEW q \in Runs, q # r
        PROVE  Queue(q)'
    <3>1. /\ msgs'[q] = msgs[q] /\ task'[q] = task[q] /\ seen'[q] = seen[q]
          /\ prev'[q] = prev[q]
      BY <2>1, <2>3, <2>4 DEF TypeOK
    <3> QED
      BY <1>1, <2>1, <3>1, QueueFrame
  <2>5. task'[r] = "over" /\ (r \in listening => msgs'[r] = msgs[r] \o ms)
    BY <2>1, <2>3 DEF TypeOK
  <2>6. msgs'[r] = msgs[r] => Queue(r)'
    BY <1>1, <2>1, <2>5, QueueFrame
  <2>7. \A m \in Messages : First(r, m) => Sound(m) /\ msgs[r] = <<>>
    BY <1>2 DEF First, Queue, RefInv, Sound, Sealed
  <2>8. \A n \in Messages : Last(r, n) =>
          /\ Sound(n) /\ n.kind \in {"done", "error"}
          /\ msgs[r] # <<>> => /\ msgs[r][Len(msgs[r])].kind = "rows"
                               /\ n.kind = "error" \/ n.rows = msgs[r][Len(msgs[r])].rows
    BY <1>2 DEF Last, Queue, RefInv, Sound, Sealed
  <2>9. CASE r \in listening /\ \E n \in Messages : ms = <<n>> /\ Last(r, n)
    <3>1. PICK n \in Messages : ms = <<n>> /\ Last(r, n)
      BY <2>9
    <3>2. Order(msgs[r] \o <<n>>)
      BY <1>2, <2>8, <3>1, OrderEnd DEF Queue
    <3>3. Queue(r)'
      BY <1>1, <1>2, <2>1, <2>5, <2>8, <2>9, <3>1, <3>2, QueueAppended
    <3> QED
      BY <2>4, <3>3 DEF QueueInv
  <2>10. CASE r \in listening /\ \E m \in Messages : ms = <<m>> /\ First(r, m)
    <3>1. PICK m \in Messages : ms = <<m>> /\ First(r, m)
      BY <2>10
    <3>2. msgs[r] = <<>> /\ <<>> \o <<m>> = <<m>>
      BY <2>7, <3>1, OneAfterOther
    <3>3. Order(msgs[r] \o <<m>>)
      BY <3>2, OrderOne
    <3>4. Queue(r)'
      BY <1>1, <1>2, <2>1, <2>5, <2>7, <2>10, <3>1, <3>3, QueueAppended
    <3> QED
      BY <2>4, <3>4 DEF QueueInv
  <2>11. CASE r \in listening /\ \E m, n \in Messages : ms = <<m, n>> /\ First(r, m) /\ Last(r, n)
    <3>1. PICK m \in Messages, n \in Messages : ms = <<m, n>> /\ First(r, m) /\ Last(r, n)
      BY <2>11
    <3>2. msgs'[r] = <<m, n>>
      <4>1. msgs'[r] = <<>> \o <<m, n>> /\ <<m, n>> \in Seq(Messages)
        BY <2>5, <2>7, <2>11, <3>1
      <4> QED
        BY <4>1, ConcatEmptySeq
    <3>3. Len(<<m, n>>) = 2 /\ <<m, n>>[1] = m /\ <<m, n>>[2] = n
      OBVIOUS
    <3>4. Order(msgs[r])'
      <4>1. Order(<<m, n>>)
        BY <3>1, OrderTwo DEF First, Last
      <4> QED
        BY <3>2, <4>1 DEF Order, Follows
    <3>5. Sound(m)' /\ Sound(n)'
      BY <1>1, <2>7, <2>8, <3>1, SoundLater
    <3>6. \A i \in 1 .. Len(msgs'[r]) : Sound(msgs[r][i])'
      BY <3>2, <3>3, <3>5 DEF Sound, Sealed
    <3>7. Queue(r)'
      BY <2>1, <2>5, <2>11, <3>4, <3>6 DEF Queue
    <3> QED
      BY <2>4, <3>7 DEF QueueInv
  <2>12. CASE r \notin listening \/ ms = <<>>
    <3>1. msgs'[r] = msgs[r]
      BY <1>2, <2>3, <2>12, ConcatEmptySeq DEF TypeOK
    <3> QED
      BY <2>4, <2>6, <3>1 DEF QueueInv
  <2> QED
    BY <2>2, <2>9, <2>10, <2>11, <2>12 DEF Sends
<1>12. ASSUME NEW r \in Runs, Drop(r)
       PROVE  QueueInv'
  <2>1. SUFFICES ASSUME NEW q \in Runs PROVE Queue(q)'
    BY DEF QueueInv
  <2>2. /\ UNCHANGED <<msgs, listening>>
        /\ q # r => task'[q] = task[q] /\ prev'[q] = prev[q] /\ seen'[q] = seen[q]
        /\ q = r => task'[q] = "over"
    BY <1>12 DEF Drop, Ends, TypeOK
  <2> QED
    BY <1>1, <2>2, QueueFrame
<1>13. ASSUME NEW r \in Runs, Deliver(r)
       PROVE  QueueInv'
  <2>1. SUFFICES ASSUME NEW q \in Runs PROVE Queue(q)'
    BY DEF QueueInv
  <2>2. /\ UNCHANGED <<task, prev, seen, made>> /\ msgs[r] # <<>>
        /\ msgs'[q] = IF q \notin listening' THEN <<>>
                      ELSE IF q = r THEN Tail(msgs[q]) ELSE msgs[q]
    BY <1>13 DEF Deliver
  <2>3. CASE msgs'[q] = <<>>
    BY <2>3, QueueEmpty
  <2>4. CASE q # r /\ q \in listening'
    BY <1>1, <2>2, <2>4, QueueFrame
  <2>5. CASE q = r /\ q \in listening' /\ msgs'[q] # <<>>
    <3>1. msgs'[r] = Tail(msgs[r]) /\ r \in listening'
      BY <2>2, <2>5
    <3> QED
      BY <1>1, <1>2, <2>2, <2>5, <3>1, QueueShortened
  <2> QED
    BY <2>2, <2>3, <2>4, <2>5
<1>14. CASE (\E r \in Runs : StopReturns(r)) \/ Others \/ EditStart
            \/ EditCommits \/ EditFails \/ EditLands \/ UNCHANGED vars
  <2>1. UNCHANGED <<msgs, listening, task, prev, seen>>
    BY <1>14 DEF StopReturns, Others, EditStart, EditCommits, EditFails, EditLands, vars
  <2> QED
    BY <1>1, <2>1, QueueFrame DEF QueueInv
<1>15. QED
  BY <1>3, <1>4, <1>5, <1>6, <1>7, <1>8, <1>9, <1>10, <1>12, <1>13, <1>14
     DEF Next, TaskStep

-----------------------------------------------------------------------------
(* What is shown is what was read.                                          *)

\* A step that leaves a run alone.
Same(q) == /\ msgs'[q] = msgs[q] /\ task'[q] = task[q] /\ base'[q] = base[q]
           /\ prev'[q] = prev[q] /\ seen'[q] = seen[q]

LEMMA FitInit == Init => FitInv
BY DEF Init, FitInv, OneWriter, Shown

LEMMA FitsStill ==
  ASSUME Kept, NEW r \in Runs, NEW m \in Messages, Sound(m), Fits(r, m), rows' = rows
  PROVE  Fits(r, m)'
<1>1. m.id \in Ids
  BY DEF Messages
<1>2. m.id # 0 => made'[m.id] = made[m.id]
  BY <1>1, StillSealed DEF Sound
<1>3. r \in torn => r \in torn'
  BY DEF Kept
<1> QED
  BY <1>2, <1>3 DEF Fits, Sound

LEMMA FitFrame ==
  ASSUME TypeOK, QueueInv, RefInv, Kept, NEW q \in Runs, Fit(q), Same(q), rows' = rows
  PROVE  Fit(q)'
<1>1. base[q] \in Ids /\ prev[q] \in Ids /\ msgs[q] \in Seq(Messages)
  BY DEF TypeOK
<1>2. /\ base[q] # 0 => made'[base[q]] = made[base[q]]
      /\ prev[q] # 0 => made'[prev[q]] = made[prev[q]]
  BY <1>1, StillSealed DEF RefInv
<1>3. msgs[q] # <<>> => Fits(q, msgs[q][1])'
  <2>1. SUFFICES ASSUME msgs[q] # <<>> PROVE Fits(q, msgs[q][1])'
    OBVIOUS
  <2>2. PICK m \in Messages : m = msgs[q][1] /\ Sound(m) /\ Fits(q, m)
    <3>1. 1 \in 1 .. Len(msgs[q]) /\ msgs[q][1] \in Messages
      BY <1>1, <2>1, TailIs
    <3> QED
      BY <2>1, <3>1 DEF QueueInv, Queue, Fit
  <2>3. Fits(q, m)' /\ msgs'[q] = msgs[q]
    BY <2>2, FitsStill DEF Same
  <2> QED
    BY <2>2, <2>3 DEF Fits
<1>4. /\ msgs'[q] = <<>> /\ task'[q] \in {"read", "settled"} /\ prev'[q] = 0 => rows' = seen'[q]
      /\ task'[q] = "invoked" /\ base'[q] # 0 => rows' = made'[base'[q]]
      /\ prev'[q] # 0 => rows' = made'[prev'[q]]
  BY <1>2 DEF Fit, Same
<1>5. msgs'[q] = msgs[q]
  BY DEF Same
<1>6. QED
  BY <1>3, <1>4, <1>5 DEF Fit

LEMMA HeadStillFits ==
  ASSUME TypeOK, QueueInv, Kept, NEW q \in Runs, Fit(q), rows' = rows
  PROVE  msgs[q] # <<>> => \E m \in Messages : m = msgs[q][1] /\ Fits(q, m)'
<1> SUFFICES ASSUME msgs[q] # <<>>
             PROVE  \E m \in Messages : m = msgs[q][1] /\ Fits(q, m)'
  OBVIOUS
<1>1. PICK m \in Messages : m = msgs[q][1] /\ Sound(m) /\ Fits(q, m)
  <2>1. 1 \in 1 .. Len(msgs[q]) /\ msgs[q][1] \in Messages
    BY TailIs DEF TypeOK
  <2> QED
    BY <2>1 DEF QueueInv, Queue, Fit
<1>2. Fits(q, m)'
  BY <1>1, FitsStill
<1> QED
  BY <1>1, <1>2

LEMMA FirstStays ==
  ASSUME NEW q \in Seq(Messages), NEW ms \in Seq(Messages), q # <<>>
  PROVE  (q \o ms)[1] = q[1]
<1>1. 1 \in 1 .. Len(q)
  BY TailIs, EmptyIs
<1>2. QED
  BY <1>1, ConcatProperties

\* A run that is over and has nothing on its way asks nothing of the array.
LEMMA FitIdle ==
  ASSUME NEW q \in Runs, msgs'[q] = <<>>, task'[q] = "over", prev'[q] = 0
  PROVE  Fit(q)'
BY DEF Fit

LEMMA NotWriting ==
  ASSUME RefInv, NEW q \in Runs, q \notin Writing
  PROVE  msgs[q] = <<>> /\ task[q] = "over" /\ prev[q] = 0
BY DEF Writing, RefInv

LEMMA ShownFrame ==
  ASSUME TypeOK, RefInv, Kept, Shown, UNCHANGED <<rows, tag, closed, truth>>
  PROVE  Shown'
<1>1. tag # 0 => made'[tag] = made[tag]
  BY StillSealed DEF RefInv, TypeOK
<1> QED
  BY <1>1 DEF Shown

\* The array is left alone; each run that is listened to is left alone as well,
\* or still fits and writes only if it did.
LEMMA FitQuiet ==
  ASSUME TypeOK, QueueInv, RefInv, FitInv, Kept,
         UNCHANGED <<rows, tag, closed, truth, mixed>>, listening' \subseteq listening,
         \A q \in listening' : \/ Same(q)
                               \/ /\ ~mixed => Fit(q)'
                                  /\ q \in Writing' => q \in Writing
  PROVE  FitInv'
<1>1. SUFFICES ASSUME ~mixed
               PROVE  OneWriter' /\ Shown' /\ \A q \in listening' : Fit(q)'
  BY DEF FitInv
<1>2. listening \subseteq Runs
  BY DEF TypeOK
<1>3. \A q \in listening' : q \in Writing' => q \in Writing
  BY <1>2 DEF Writing, Same
<1>4. OneWriter'
  BY <1>1, <1>3 DEF FitInv, OneWriter
<1>5. Shown'
  BY <1>1, ShownFrame DEF FitInv
<1>6. \A q \in listening' : Fit(q)'
  BY <1>1, <1>2, FitFrame DEF FitInv
<1>7. QED
  BY <1>4, <1>5, <1>6

\* A new array, or the old one for a run that asks for a patch of it, when no
\* other run that is listened to writes.
LEMMA FitLaunch ==
  ASSUME TypeOK, TypeOK', TabInv, QueueInv, RefInv, FitInv, Kept, NEW r \in Runs,
         NEW from, from \subseteq listening, NEW keep \in BOOLEAN,
         Launch(r, from, keep), task[r] = "none", made' = made, msgs' = msgs, prev' = prev,
         \A q \in Runs : q # r => base'[q] = base[q],
         keep <=> base'[r] # 0,
         keep /\ phase[r] # "waiting" => base'[r] = tag
  PROVE  FitInv'
<1>1. SUFFICES ASSUME ~mixed'
               PROVE  OneWriter' /\ Shown' /\ \A q \in listening' : Fit(q)'
  BY DEF FitInv
<1>2. /\ listening' = from \cup {r} /\ task' = [task EXCEPT ![r] = "invoked"]
      /\ from \cap Writing = {} /\ (keep => ~mixed /\ phase[r] # "waiting")
  BY <1>1 DEF Launch
<1>3. from \subseteq Runs /\ msgs[r] = <<>> /\ prev[r] = 0
  BY DEF TypeOK, QueueInv, Queue, RefInv
<1>4. ASSUME NEW q \in from, q # r
      PROVE  q \in Runs /\ q \notin Writing' /\ Fit(q)'
  <2>1. q \in Runs /\ q \notin Writing
    BY <1>2, <1>3
  <2>2. msgs'[q] = <<>> /\ task'[q] = "over" /\ prev'[q] = 0
    BY <1>2, <1>4, <2>1, NotWriting DEF TypeOK
  <2> QED
    BY <2>1, <2>2, FitIdle DEF Writing
<1>5. OneWriter'
  BY <1>2, <1>4 DEF OneWriter
<1>6. CASE keep
  <2>1. UNCHANGED <<rows, tag, closed, truth>>
    BY <1>6 DEF Launch
  <2>2. Shown /\ base'[r] = tag /\ tag # 0
    BY <1>2, <1>6 DEF FitInv
  <2>3. Shown' /\ rows' = made'[base'[r]]
    BY <2>1, <2>2 DEF Shown
  <2>4. Fit(r)'
    BY <1>2, <1>3, <2>3 DEF Fit, TypeOK
  <2> QED
    BY <1>2, <1>4, <1>5, <2>3, <2>4
<1>7. CASE ~keep
  <2>1. Shown'
    BY <1>7 DEF Launch, NewArray, Opened, Shown
  <2>2. Fit(r)'
    BY <1>2, <1>3, <1>7 DEF Fit, TypeOK
  <2> QED
    BY <1>2, <1>4, <1>5, <2>1, <2>2
<1>8. QED
  BY <1>6, <1>7

\* The first message of a run is handled.
LEMMA FitDeliver ==
  ASSUME TypeOK, TypeOK', TabInv, QueueInv, RefInv, FitInv, Kept, NEW r \in Runs, Deliver(r)
  PROVE  FitInv'
<1> DEFINE q == msgs[r]
           t == Tail(q)
<1>1. /\ r \in listening /\ q # <<>> /\ q \in Seq(Messages)
      /\ UNCHANGED <<task, prev, seen, made, base>>
  BY DEF Deliver, taskVars, callVars, TypeOK
<1>2. PICK m \in Messages : m = Head(q) /\ m = q[1] /\ Sound(m)
  <2>1. q[1] \in Messages /\ Head(q) = q[1] /\ 1 \in 1 .. Len(q)
    BY <1>1, TailIs
  <2> QED
    BY <2>1 DEF QueueInv, Queue
<1>3. PICK n \in Nat : /\ Len(q) = n + 1 /\ Len(t) = n /\ (t = <<>> <=> n = 0)
                       /\ \A j \in 1 .. n : t[j] = q[j + 1]
  <2>1. /\ Len(q) \in Nat /\ Len(q) >= 1 /\ Len(t) = Len(q) - 1 /\ (t = <<>> <=> Len(q) = 1)
        /\ \A j \in 1 .. Len(q) - 1 : t[j] = q[j + 1]
    BY <1>1, TailIs, EmptyIs
  <2>2. Len(q) - 1 \in Nat /\ Len(q) = (Len(q) - 1) + 1 /\ (Len(q) = 1 <=> Len(q) - 1 = 0)
    BY <2>1
  <2> QED
    BY <2>1, <2>2
<1>4. Follows(q, 1) /\ (n # 0 => t[1] = q[2])
  <2>1. 1 \in 1 .. n + 1 /\ (n # 0 => 1 \in 1 .. n)
    OBVIOUS
  <2> QED
    BY <1>3, <2>1 DEF QueueInv, Queue, Order
<1>5. /\ task[r] \in {"read", "settled", "over"} /\ prev[r] = 0
      /\ task[r] # "over" => q[n + 1].kind = "rows" /\ q[n + 1].rows = seen[r]
  <2>1. task[r] \in TaskStates
    BY DEF TypeOK
  <2> QED
    BY <1>1, <1>3, <2>1 DEF QueueInv, Queue, RefInv, TaskStates
<1>6. /\ m.kind = "columns" => n = 0 \/ t[1].kind \in {"rows", "error"}
      /\ m.kind = "rows" => \/ n = 0 \/ t[1].kind = "error"
                            \/ t[1].kind = "done" /\ t[1].rows = m.rows
      /\ m.kind = "patch" => n = 0 \/ (t[1].kind = "done" /\ t[1].rows = m.rows)
      /\ m.kind \in {"done", "error"} => n = 0 /\ task[r] = "over"
      /\ n = 0 /\ task[r] # "over" => m.kind = "rows" /\ m.rows = seen[r]
  BY <1>2, <1>3, <1>4, <1>5 DEF Follows
<1>7. m.rows \in Contents /\ m.id \in Ids /\ m.kind \in {"columns", "rows", "patch", "done", "error"}
  BY DEF Messages
<1>8. msgs'[r] = (IF r \in listening' THEN t ELSE <<>>)
      /\ \A p \in Runs : p # r => msgs'[p] = (IF p \in listening' THEN msgs[p] ELSE <<>>)
  BY DEF Deliver
<1>9. listening \subseteq Runs /\ \A p \in Runs : p \in Writing' => p \in Writing
  <2>1. \A p \in Runs : msgs'[p] # <<>> => msgs[p] # <<>>
    BY <1>1, <1>8
  <2> QED
    BY <1>1, <2>1 DEF Writing, TypeOK
<1> HIDE DEF q, t
<1>10. CASE m.kind = "columns"
  <2>1. SUFFICES ASSUME ~mixed'
                 PROVE  OneWriter' /\ Shown' /\ \A p \in listening' : Fit(p)'
    BY DEF FitInv
  <2>2. /\ rows' = Nothing /\ tag' = 0 /\ closed' = FALSE /\ listening' = listening
        /\ (listening \ {r}) \cap Writing = {}
    BY <1>2, <1>10, <2>1 DEF Deliver, OnColumns, NewArray, Opened, tabVars, q
  <2>3. OneWriter'
    BY <1>9, <2>2 DEF OneWriter
  <2>4. ASSUME NEW p \in listening, p # r
        PROVE  Fit(p)'
    <3>1. msgs[p] = <<>> /\ task[p] = "over" /\ prev[p] = 0 /\ p \in Runs
      BY <1>9, <2>2, <2>4, NotWriting
    <3> QED
      BY <1>1, <1>8, <2>4, <3>1, FitIdle
  <2>5. Fit(r)'
    <3>1. msgs'[r] = t
      BY <1>1, <1>8, <2>2
    <3>2. CASE n = 0
      <4>1. msgs'[r] = <<>> /\ task'[r] = "over" /\ prev'[r] = 0
        BY <1>1, <1>3, <1>5, <1>6, <1>10, <3>1, <3>2
      <4> QED
        BY <4>1, FitIdle
    <3>3. CASE n # 0
      <4>1. t # <<>> /\ t[1].kind \in {"rows", "error"}
        BY <1>3, <1>6, <1>10, <3>3
      <4> QED
        BY <1>1, <1>5, <2>2, <3>1, <4>1 DEF Fit, Fits
    <3> QED
      BY <3>2, <3>3
  <2>6. Shown'
    BY <2>2 DEF Shown
  <2> QED
    BY <2>2, <2>3, <2>4, <2>5, <2>6
<1>11. CASE m.kind # "columns" /\ ~mixed
  <2>1. OneWriter /\ Shown /\ Fit(r)
    BY <1>1, <1>11 DEF FitInv
  <2>2. listening' \subseteq listening
    BY <1>2, <1>7, <1>11 DEF Deliver, OnRows, OnPatch, OnDone, OnError, LetGo, tabVars, q
  <2>3. OneWriter'
    BY <1>9, <2>1, <2>2 DEF OneWriter
  <2>4. ASSUME NEW p \in listening', p # r
        PROVE  Fit(p)'
    <3>1. p \in Runs /\ p \in listening /\ p \notin Writing
      BY <1>1, <1>9, <2>1, <2>2, <2>4 DEF OneWriter, Writing, q
    <3>2. msgs[p] = <<>> /\ task[p] = "over" /\ prev[p] = 0
      BY <3>1, NotWriting
    <3> QED
      BY <1>1, <1>8, <2>4, <3>1, <3>2, FitIdle
  <2>5. Fits(r, m)
    BY <1>1, <1>2, <2>1 DEF Fit, q
  <2>6. CASE m.kind = "rows"
    <3>1. /\ rows' = [k \in Keys |-> IF m.rows[k] # None THEN m.rows[k] ELSE rows[k]]
          /\ tag' = 0 /\ closed' = FALSE /\ listening' = listening
      BY <1>2, <2>6 DEF Deliver, OnRows, NewArray, Opened, tabVars, q
    <3>2. rows' = m.rows
      BY <1>7, <2>5, <2>6, <3>1 DEF Fits, Nothing, Contents
    <3>3. Shown'
      BY <3>1 DEF Shown
    <3>4. Fit(r)'
      <4>1. msgs'[r] = t
        BY <1>1, <1>8, <3>1
      <4>2. CASE n = 0
        <5>1. msgs'[r] = <<>> /\ prev'[r] = 0 /\ task'[r] # "invoked"
              /\ (task'[r] # "over" => rows' = seen'[r])
          BY <1>1, <1>3, <1>5, <1>6, <3>2, <4>1, <4>2
        <5> QED
          BY <5>1 DEF Fit
      <4>3. CASE n # 0
        <5>1. /\ msgs'[r] # <<>> /\ prev'[r] = 0 /\ task'[r] # "invoked"
              /\ msgs'[r][1].kind = "error" \/ (msgs'[r][1].kind = "done" /\ msgs'[r][1].rows = rows')
          BY <1>1, <1>3, <1>5, <1>6, <2>6, <3>2, <4>1, <4>3
        <5> QED
          BY <5>1 DEF Fit, Fits
      <4> QED
        BY <4>2, <4>3
    <3> QED
      BY <2>3, <2>4, <3>1, <3>3, <3>4 DEF FitInv
  <2>7. CASE m.kind = "patch"
    <3>1. /\ rows = made[m.id] /\ listening' = listening
          /\ IF m.rows = made[m.id] THEN UNCHANGED <<rows, tag, closed, truth>>
             ELSE rows' = Patched(m) /\ tag' = 0 /\ closed' = FALSE
      BY <1>2, <2>5, <2>7 DEF Deliver, OnPatch, NewArray, Opened, tabVars, Fits, q
    <3>2. rows' = m.rows
      <4>1. CASE m.rows = made[m.id]
        BY <3>1, <4>1
      <4>2. CASE m.rows # made[m.id]
        <5>1. \A k \in Keys : Patched(m)[k] = m.rows[k]
          BY <3>1 DEF Patched
        <5>2. Patched(m) = [k \in Keys |-> Patched(m)[k]] /\ m.rows = [k \in Keys |-> m.rows[k]]
          BY <1>7 DEF Patched, Contents
        <5> QED
          BY <3>1, <4>2, <5>1, <5>2
      <4> QED
        BY <4>1, <4>2
    <3>3. Shown'
      <4>1. CASE m.rows = made[m.id]
        BY <2>1, <3>1, <4>1, ShownFrame
      <4>2. CASE m.rows # made[m.id]
        BY <3>1, <4>2 DEF Shown
      <4> QED
        BY <4>1, <4>2
    <3>4. Fit(r)'
      <4>1. msgs'[r] = t
        BY <1>1, <1>8, <3>1
      <4>2. CASE n = 0
        <5>1. msgs'[r] = <<>> /\ task'[r] = "over" /\ prev'[r] = 0
          BY <1>1, <1>3, <1>5, <1>6, <2>7, <4>1, <4>2
        <5> QED
          BY <5>1, FitIdle
      <4>3. CASE n # 0
        <5>1. t # <<>> /\ t[1].kind = "done" /\ t[1].rows = m.rows
          BY <1>3, <1>6, <2>7, <4>3
        <5> QED
          BY <1>1, <1>5, <3>2, <4>1, <5>1 DEF Fit, Fits
      <4> QED
        BY <4>2, <4>3
    <3> QED
      BY <2>3, <2>4, <3>1, <3>3, <3>4 DEF FitInv
  <2>8. CASE m.kind = "done" /\ r \in torn
    <3>1. mixed'
      BY <1>2, <2>8 DEF Deliver, OnDone, q
    <3> QED
      BY <3>1 DEF FitInv
  <2>9. CASE m.kind \in {"done", "error"} /\ (m.kind = "done" => r \notin torn)
    <3>1. ASSUME r \in listening'
          PROVE  Fit(r)'
      <4>1. msgs'[r] = <<>> /\ task'[r] = "over" /\ prev'[r] = 0
        BY <1>1, <1>3, <1>5, <1>6, <1>8, <2>9, <3>1
      <4> QED
        BY <4>1, FitIdle
    <3>2. Shown'
      <4>1. CASE m.kind = "done"
        <5>1. rows' = rows /\ truth' = m.rows /\ tag' = (IF m.id # 0 THEN m.id ELSE tag)
          BY <1>2, <4>1 DEF Deliver, OnDone, q
        <5>2. rows = m.rows /\ (m.id # 0 => made[m.id] = m.rows)
          BY <1>2, <2>5, <2>9, <4>1 DEF Fits, Sound
        <5> QED
          BY <1>1, <2>1, <5>1, <5>2 DEF Shown
      <4>2. CASE m.kind = "error"
        <5>1. UNCHANGED <<rows, tag, closed, truth>>
          BY <1>2, <4>2 DEF Deliver, OnError, arrayVars, q
        <5> QED
          BY <2>1, <5>1, ShownFrame
      <4> QED
        BY <2>9, <4>1, <4>2
    <3> QED
      BY <2>3, <2>4, <3>1, <3>2 DEF FitInv
  <2> QED
    BY <1>7, <1>11, <2>6, <2>7, <2>8, <2>9
<1>12. CASE m.kind # "columns" /\ mixed
  <2>1. mixed'
    BY <1>2, <1>7, <1>12 DEF Deliver, OnRows, OnPatch, OnDone, OnError, arrayVars, q
  <2> QED
    BY <1>12, <2>1 DEF FitInv
<1>13. QED
  BY <1>10, <1>11, <1>12

LEMMA FitStep ==
  ASSUME TypeOK, TypeOK', TabInv, QueueInv, RefInv, FitInv, [Next]_vars
  PROVE  FitInv'
<1> USE DEF dbVars, taskVars, sendVars, callVars, arrayVars, tabVars, editVars
<1>1. Kept
  BY SnapshotsKept
<1>2. listening \subseteq Runs
  BY DEF TypeOK
<1>3. \A q \in Runs : q \in listening => phase[q] = "live"
  BY DEF TabInv
<1>4. ASSUME NEW r \in Runs, NEW auto \in BOOLEAN, RunQuery(r, auto)
      PROVE  FitInv'
  <2>1. /\ phase[r] = "new" /\ task[r] = "none"
        /\ base' = [base EXCEPT ![r] = PrevSnapshotId(auto)] /\ UNCHANGED <<made, prev, seen>>
    BY <1>4 DEF RunQuery, TabInv
  <2>2. /\ base'[r] = PrevSnapshotId(auto) /\ (PrevSnapshotId(auto) # 0 => PrevSnapshotId(auto) = tag)
        /\ \A q \in Runs : q # r => base'[q] = base[q]
    BY <2>1 DEF PrevSnapshotId, TypeOK
  <2>3. CASE cur = 0
    <3>1. Launch(r, listening \ {un}, base'[r] # 0) /\ msgs' = msgs
      BY <1>4, <2>3 DEF RunQuery
    <3> QED
      BY <1>1, <2>1, <2>2, <3>1, FitLaunch
  <2>4. CASE cur # 0
    <3>1. /\ listening' = listening \ {un} /\ msgs' = Unread
          /\ UNCHANGED <<task, rows, tag, closed, truth, mixed>>
      BY <1>4, <2>4 DEF RunQuery, LetGo
    <3>2. \A q \in listening' : Same(q)
      BY <1>2, <1>3, <2>1, <2>2, <3>1 DEF Same, Unread
    <3> QED
      BY <1>1, <3>1, <3>2, FitQuiet
  <2> QED
    BY <2>3, <2>4
<1>5. ASSUME NEW r \in Runs, CancelReturns(r)
      PROVE  FitInv'
  <2>1. /\ phase[r] = "waiting" /\ task[r] = "none" /\ Launch(r, listening, base[r] # 0)
        /\ UNCHANGED <<made, msgs, prev, base>>
    BY <1>5 DEF CancelReturns, TabInv
  <2> QED
    BY <1>1, <2>1, FitLaunch
<1>6. ASSUME NEW r \in Runs, Refused(r)
      PROVE  FitInv'
  <2>1. /\ task[r] = "invoked" /\ task' = [task EXCEPT ![r] = "over"]
        /\ listening' = listening \ {un} /\ msgs' = Unread
        /\ UNCHANGED <<base, prev, seen, rows, tag, closed, truth, mixed>>
    BY <1>6 DEF Refused, LetGo
  <2>2. msgs[r] = <<>> /\ prev[r] = 0
    BY <2>1 DEF QueueInv, Queue, RefInv
  <2>3. ASSUME NEW q \in listening', q # r
        PROVE  Same(q)
    BY <1>2, <2>1, <2>3 DEF Same, Unread, TypeOK
  <2>4. Fit(r)' /\ (r \in Writing' => r \in Writing)
    <3>1. msgs'[r] = <<>> /\ task'[r] = "over" /\ prev'[r] = 0
      BY <2>1, <2>2 DEF Unread, TypeOK
    <3> QED
      BY <3>1, FitIdle DEF Writing
  <2> QED
    BY <1>1, <2>1, <2>3, <2>4, FitQuiet
<1>7. CASE StopTab
  <2>1. /\ listening' = listening \ {un} /\ msgs' = Unread
        /\ UNCHANGED <<task, base, prev, seen, rows, tag, closed, truth, mixed>>
    BY <1>7 DEF StopTab, LetGo
  <2>2. \A q \in listening' : Same(q)
    BY <1>2, <2>1 DEF Same, Unread
  <2> QED
    BY <1>1, <2>1, <2>2, FitQuiet
<1>8. ASSUME NEW r \in Runs, BeginTask(r)
      PROVE  FitInv'
  <2>1. /\ task[r] = "invoked" /\ task' = [task EXCEPT ![r] = "begun"]
        /\ prev' = [prev EXCEPT ![r] = Matching(r, snap')]
        /\ base' = [base EXCEPT ![r] = 0]
        /\ UNCHANGED <<msgs, seen, made, rows, tag, closed, truth, mixed, listening>>
    BY <1>8 DEF BeginTask
  <2>2. msgs[r] = <<>>
    BY <2>1 DEF QueueInv, Queue
  <2>3. ASSUME NEW q \in listening', q # r
        PROVE  Same(q)
    BY <1>2, <2>1, <2>3 DEF Same, TypeOK
  <2>4. r \in listening /\ ~mixed => Fit(r)'
    <3>1. SUFFICES ASSUME r \in listening, ~mixed PROVE Fit(r)'
      OBVIOUS
    <3>2. base[r] # 0 => rows = made[base[r]]
      BY <2>1, <3>1 DEF FitInv, Fit
    <3>3. prev'[r] # 0 => prev'[r] = base[r]
      BY <2>1 DEF Matching, TypeOK
    <3>4. task'[r] = "begun" /\ msgs'[r] = <<>>
      BY <2>1, <2>2 DEF TypeOK
    <3> QED
      BY <2>1, <3>2, <3>3, <3>4 DEF Fit
  <2>5. r \in Writing
    BY <2>1 DEF Writing
  <2> QED
    BY <1>1, <2>1, <2>3, <2>4, <2>5, FitQuiet
<1>9. ASSUME NEW r \in Runs, Execute(r)
      PROVE  FitInv'
  <2>1. /\ task[r] = "begun" /\ task' = [task EXCEPT ![r] = "read"]
        /\ seen' = [seen EXCEPT ![r] = db]
        /\ UNCHANGED <<prev, base, made, rows, tag, closed, truth, mixed, listening>>
    BY <1>9 DEF Execute
  <2>2. msgs[r] = <<>> /\ db \in Contents
    BY <2>1 DEF QueueInv, Queue, TypeOK
  <2>3. PICK c \in Messages : c = Message("columns", 0, Nothing) /\ c.kind = "columns"
    BY Basics, MessageIs
  <2>4. PICK m \in Messages : m = Message("rows", 0, db)
    BY <2>2, Basics, MessageIs
  <2>5. msgs' = [msgs EXCEPT ![r] = IF r \in listening
                                    THEN @ \o (IF Patching(r) THEN <<>> ELSE <<c, m>>) ELSE @]
    BY <1>9, <2>3, <2>4 DEF Execute, Post
  <2>6. ASSUME NEW q \in listening', q # r
        PROVE  Same(q)
    BY <1>2, <2>1, <2>5, <2>6 DEF Same, TypeOK
  <2>7. r \in listening /\ ~mixed => Fit(r)'
    <3>1. SUFFICES ASSUME r \in listening, ~mixed PROVE Fit(r)'
      OBVIOUS
    <3>2. task'[r] = "read" /\ (prev[r] # 0 => rows = made[prev[r]])
      BY <2>1, <3>1 DEF FitInv, Fit, TypeOK
    <3>3. CASE Patching(r)
      <4>1. msgs'[r] = <<>> \o <<>>
        BY <2>2, <2>5, <3>1, <3>3 DEF TypeOK
      <4>2. msgs'[r] = <<>>
        BY <4>1, EmptyIs, ConcatEmptySeq
      <4> QED
        BY <2>1, <3>2, <3>3, <4>2 DEF Fit, Patching
    <3>4. CASE ~Patching(r)
      <4>1. msgs'[r] = <<>> \o <<c, m>>
        BY <2>2, <2>5, <3>1, <3>4 DEF TypeOK
      <4>2. <<c, m>> \in Seq(Messages) /\ <<c, m>>[1] = c /\ <<c, m>> # <<>>
        OBVIOUS
      <4>3. msgs'[r] # <<>> /\ msgs'[r][1] = c
        BY <4>1, <4>2, ConcatEmptySeq
      <4> QED
        BY <2>1, <2>3, <3>2, <3>4, <4>3 DEF Fit, Fits, Patching
    <3> QED
      BY <3>3, <3>4
  <2>8. r \in Writing
    BY <2>1 DEF Writing
  <2> QED
    BY <1>1, <2>1, <2>6, <2>7, <2>8, FitQuiet
<1>10. ASSUME NEW r \in Runs, Settle(r)
       PROVE  FitInv'
  <2>1. /\ task[r] = "read" /\ task' = [task EXCEPT ![r] = "settled"]
        /\ UNCHANGED <<msgs, prev, base, seen, rows, tag, closed, truth, mixed, listening>>
    BY <1>10 DEF Settle
  <2>2. ASSUME NEW q \in listening', q # r
        PROVE  Same(q)
    BY <1>2, <2>1, <2>2 DEF Same, TypeOK
  <2>3. r \in listening /\ ~mixed => Fit(r)'
    <3>1. SUFFICES ASSUME r \in listening, ~mixed PROVE Fit(r)'
      OBVIOUS
    <3>2. Fit(r) /\ task'[r] = "settled"
      BY <2>1, <3>1 DEF FitInv, TypeOK
    <3>3. msgs[r] # <<>> => \E h \in Messages : h = msgs[r][1] /\ Fits(r, h)'
      BY <1>1, <2>1, <3>2, HeadStillFits
    <3>4. prev[r] # 0 => made'[prev[r]] = made[prev[r]]
      BY <1>1, StillSealed DEF RefInv, TypeOK
    <3> QED
      BY <2>1, <3>2, <3>3, <3>4 DEF Fit
  <2>4. r \in Writing
    BY <2>1 DEF Writing
  <2> QED
    BY <1>1, <2>1, <2>2, <2>3, <2>4, FitQuiet
<1>11. ASSUME NEW r \in Runs, ExecFails(r) \/ Report(r) \/ Drop(r)
       PROVE  FitInv'
  <2>1. /\ task[r] \in {"begun", "read", "settled"} /\ task' = [task EXCEPT ![r] = "over"]
        /\ prev' = [prev EXCEPT ![r] = 0] /\ seen' = [seen EXCEPT ![r] = Nothing]
        /\ UNCHANGED <<base, made, rows, tag, closed, truth, mixed, listening>>
        /\ \A q \in Runs : q # r => msgs'[q] = msgs[q]
    BY <1>11 DEF ExecFails, Report, Drop, Ends, Post, TypeOK
  <2>2. ASSUME NEW q \in listening', q # r
        PROVE  Same(q)
    BY <1>2, <2>1, <2>2 DEF Same, TypeOK
  <2>3. r \in listening /\ ~mixed => Fit(r)'
    <3>1. SUFFICES ASSUME r \in listening, ~mixed PROVE Fit(r)'
      OBVIOUS
    <3>2. Fit(r) /\ task'[r] = "over" /\ prev'[r] = 0 /\ msgs[r] \in Seq(Messages)
      BY <2>1, <3>1 DEF FitInv, TypeOK
    <3>3. msgs[r] # <<>> => \E h \in Messages : h = msgs[r][1] /\ Fits(r, h)'
      BY <1>1, <2>1, <3>2, HeadStillFits
    <3>4. seen[r] \in Contents /\ answer[r] \in Ids /\ prev[r] \in Ids
      BY DEF TypeOK
    <3>5. CASE Drop(r)
      <4>1. msgs'[r] # <<>> => Fits(r, msgs[r][1])'
        BY <3>3, <3>5 DEF Drop
      <4> QED
        BY <3>2, <4>1 DEF Fit
    <3>6. CASE ExecFails(r) \/ Report(r)
      <4>1. PICK ms \in Seq(Messages) : Post(r, ms) /\ Sends(r, ms)
        BY <3>6, LastSends
      <4>2. msgs'[r] = msgs[r] \o ms
        BY <3>1, <4>1 DEF Post, TypeOK
      <4>3. CASE msgs[r] # <<>>
        <5>1. msgs'[r][1] = msgs[r][1]
          BY <3>2, <4>2, <4>3, FirstStays
        <5>2. msgs'[r] # <<>> => Fits(r, msgs[r][1])'
          BY <3>3, <4>3, <5>1 DEF Fits
        <5> QED
          BY <3>2, <5>2 DEF Fit
      <4>4. CASE msgs[r] = <<>>
        <5>1. msgs'[r] = ms
          BY <4>2, <4>4, ConcatEmptySeq
        <5>2. CASE ms = <<>>
          BY <3>2, <5>1, <5>2, FitIdle
        <5>3. ASSUME NEW m \in Messages, First(r, m), ms[1] = m
              PROVE  Fit(r)'
          <6>1. m.kind = "patch" => rows' = made'[m.id]
            BY <2>1, <3>2, <5>3 DEF First, Fit
          <6>2. m.kind \in {"columns", "patch"}
            BY <5>3 DEF First
          <6>3. Fits(r, msgs[r][1])'
            BY <5>1, <5>3, <6>1, <6>2 DEF Fits
          <6> QED
            BY <3>2, <6>3 DEF Fit
        <5>4. ASSUME NEW n \in Messages, Last(r, n), ms[1] = n,
                     n.kind = "done" => prev[r] = 0 \/ Unchanged(r) \/ r \in torn'
              PROVE  Fit(r)'
          <6>1. CASE n.kind = "error"
            <7>1. Fits(r, msgs[r][1])'
              BY <5>1, <5>4, <6>1 DEF Fits
            <7> QED
              BY <3>2, <7>1 DEF Fit
          <6>2. CASE n.kind = "done"
            <7>1. n.rows = seen[r] /\ task[r] = "settled"
              BY <5>4, <6>2 DEF Last
            <7>2. prev[r] = 0 => rows = seen[r]
              BY <3>2, <4>4, <7>1 DEF Fit
            <7>3. Unchanged(r) => rows = seen[r]
              BY <3>2 DEF Fit, Unchanged, Patching
            <7>4. r \in torn' \/ rows' = n.rows
              BY <2>1, <5>4, <6>2, <7>1, <7>2, <7>3
            <7>5. Fits(r, msgs[r][1])'
              BY <5>1, <5>4, <6>2, <7>4 DEF Fits
            <7> QED
              BY <3>2, <7>5 DEF Fit
          <6> QED
            BY <5>4, <6>1, <6>2 DEF Last
        <5>5. \A x \in Messages : <<x>>[1] = x /\ \A y \in Messages : <<x, y>>[1] = x
          OBVIOUS
        <5> QED
          BY <4>1, <5>2, <5>3, <5>4, <5>5 DEF Sends
      <4> QED
        BY <4>3, <4>4
    <3> QED
      BY <1>11, <3>5, <3>6
  <2>4. r \in Writing
    BY <2>1 DEF Writing
  <2> QED
    BY <1>1, <2>1, <2>2, <2>3, <2>4, FitQuiet
<1>12. ASSUME NEW r \in Runs, Deliver(r)
       PROVE  FitInv'
  BY <1>1, <1>12, FitDeliver
<1>13. CASE (\E r \in Runs : StopReturns(r)) \/ Others \/ EditStart
            \/ EditCommits \/ EditFails \/ UNCHANGED vars
  <2>1. UNCHANGED <<msgs, listening, task, base, prev, seen, rows, tag, closed, truth, mixed>>
    BY <1>13 DEF StopReturns, Others, EditStart, EditCommits, EditFails, vars
  <2> QED
    BY <1>1, <2>1, FitQuiet DEF Same
<1>14. CASE EditLands
  <2>1. mixed' = (mixed \/ listening \cup Waiting # {}) /\ listening' = listening
        /\ tag' = 0 /\ closed' = FALSE
    BY <1>14 DEF EditLands, Copied, Opened
  <2> QED
    BY <2>1 DEF FitInv, OneWriter, Shown
<1>15. QED
  BY <1>4, <1>5, <1>6, <1>7, <1>8, <1>9, <1>10, <1>11, <1>12, <1>13, <1>14
     DEF Next, TaskStep

(* A patch is only ever applied to the rows it was computed from: when a run *)
(* has closed, the tab shows exactly what that run read, and an array that   *)
(* carries the id of a snapshot is the result the snapshot was made of,      *)
(* however many runs were stopped, failed or overlapped. Excepted (mixed) are *)
(* an edit while a run is on, two runs that write the array, a run that asked *)
(* for a patch and had to wait, and the changes of a patch that could not be  *)
(* sent, which Done follows all the same (query.rs:1438-1454).                *)
THEOREM ShownAlwaysTrue == Spec => []ShownIsTrue
<1>1. Inv => ShownIsTrue
  BY DEF Inv, FitInv, Shown, ShownIsTrue
<1>2. Init => Inv
  BY TypeInit, TabInit, QueueInit, RefInit, FitInit DEF Inv
<1>3. Inv /\ [Next]_vars => Inv'
  BY TypeStep, TabStep, QueueStep, RefStep, FitStep DEF Inv
<1>4. QED
  BY <1>1, <1>2, <1>3, PTL DEF Spec
=============================================================================
