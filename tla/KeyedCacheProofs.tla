--------------------------- MODULE KeyedCacheProofs ---------------------------
(***************************************************************************)
(* Proofs about KeyedCache, for any calls, writers, bulk fetches, kinds,   *)
(* keys and cap.                                                           *)
(***************************************************************************)
EXTENDS KeyedCache, FiniteSetTheorems, TLAPS

(* The state stays of its type, whatever the sizes of the instance.        *)
LEMMA TypeInit == Init => TypeOK
BY CacheAssumption DEF Init, TypeOK, DbType, StoreType, CallType, WriterType,
  BulkType, CallPCs, Items

LEMMA InsertType ==
  ASSUME TypeOK, NEW s \in Slots, NEW S \in SUBSET Items,
         NEW v \in [Items -> Nat], NEW n, Insert(s, S, v, n)
  PROVE  /\ present' \subseteq Items /\ expired' \subseteq present'
         /\ value' \in [Items -> Nat]
<1>1. MakeRoom(s, n) \subseteq present
  BY DEF MakeRoom, InSlot
<1>2. QED BY <1>1 DEF Insert, TypeOK, StoreType

(* What a call does leaves the database and the other actors alone.        *)
LEMMA Frame ==
  /\ TypeOK /\ UNCHANGED <<dbVars, generation>> => DbType'
  /\ TypeOK /\ UNCHANGED storeVars => StoreType'
  /\ TypeOK /\ UNCHANGED <<flights, callVars>> => CallType'
  /\ TypeOK /\ UNCHANGED writeVars => WriterType'
  /\ TypeOK /\ UNCHANGED bulkVars => BulkType'
BY DEF TypeOK, DbType, StoreType, CallType, WriterType, BulkType, dbVars,
       storeVars, callVars, writeVars, bulkVars

LEMMA TypeCall ==
  ASSUME TypeOK, NEW c \in Calls, Start(c) \/ CallStep(c) \/ Cancel(c)
  PROVE  TypeOK'
<1> USE DEF Goto, Set, CallPCs, CallType, StoreType, DbType
<1>1. CASE Start(c)
  BY <1>1, Frame DEF Start, TypeOK
<1>2. CASE Lookup(c)
  BY <1>2, Frame DEF Lookup, TypeOK
<1>3. CASE LoadGeneration(c)
  BY <1>3, Frame DEF LoadGeneration, TypeOK
<1>4. CASE JoinOrLead(c)
  BY <1>4, Frame DEF JoinOrLead, CanJoin, TypeOK
<1>5. CASE Recheck(c)
  BY <1>5, Frame DEF Recheck, TypeOK
<1>6. ASSUME NEW cacheable \in BOOLEAN, FetchAnswer(c, cacheable) PROVE TypeOK'
  BY <1>6, Frame DEF FetchAnswer, TypeOK
<1>7. CASE FetchError(c)
  BY <1>7, Frame DEF FetchError, TypeOK
<1>8. CASE Publish(c)
  BY <1>8, Frame DEF Publish, TypeOK
<1>9. CASE Unlist(c)
  BY <1>9, Frame DEF Unlist, Unlisted, TypeOK
<1>10. CASE Close(c)
  BY <1>10, Frame DEF Close, TypeOK
<1>11. CASE TakeShared(c)
  BY <1>11, Frame DEF TakeShared, TypeOK
<1>12. CASE Retry(c)
  BY <1>12, Frame DEF Retry, TypeOK
<1>13. CASE TakeError(c)
  BY <1>13, Frame DEF TakeError, TypeOK
<1>14. CASE Cancel(c)
  BY <1>14, Frame DEF Cancel, AfterCancel, TypeOK
<1>15. CASE FetchAndStore(c)
  <2>1. StoreType'
    <3>1. CASE SameGeneration(gen[c])
      <4>1. /\ item[c][1] \in Slots /\ {item[c]} \in SUBSET Items
            /\ [j \in Items |-> val[c]] \in [Items -> Nat]
        BY DEF TypeOK, Items
      <4>2. QED BY <1>15, <3>1, <4>1, InsertType DEF FetchAndStore
    <3>2. CASE ~SameGeneration(gen[c])
      BY <1>15, <3>2, Frame DEF FetchAndStore
    <3>3. QED BY <3>1, <3>2
  <2>2. CallType'
    BY <1>15 DEF FetchAndStore, TypeOK
  <2>3. QED BY <1>15, <2>1, <2>2, Frame DEF FetchAndStore, TypeOK
<1>16. QED
  BY <1>1, <1>2, <1>3, <1>4, <1>5, <1>6, <1>7, <1>8, <1>9, <1>10, <1>11, <1>12, <1>13, <1>14, <1>15 DEF CallStep

LEMMA TypeWriter ==
  ASSUME TypeOK, NEW w \in Writers,
         (\E S \in Scopes : Commit(w, S)) \/ WriterStep(w) \/ AbortWrite(w)
  PROVE  TypeOK'
<1> USE DEF DbType, WriterType, dbVars
<1>1. ASSUME NEW S \in Scopes, Commit(w, S) PROVE TypeOK'
  <2>1. S \in SUBSET Items
    BY CacheAssumption
  <2>2. DbType' /\ WriterType'
    BY <1>1, <2>1 DEF Commit, TypeOK
  <2>3. QED BY <1>1, <2>2, Frame DEF Commit, TypeOK
<1>2. CASE Bump(w)
  <2>1. DbType' /\ WriterType'
    BY <1>2 DEF Bump, NextGeneration, TypeOK
  <2>2. QED BY <1>2, <2>1, Frame DEF Bump, TypeOK
<1>3. ASSUME NEW s \in Slots, ClearSlot(w, s) PROVE TypeOK'
  <2>1. StoreType' /\ WriterType'
    BY <1>3 DEF ClearSlot, TypeOK, StoreType
  <2>2. QED BY <1>3, <2>1, Frame DEF ClearSlot, TypeOK
<1>4. CASE FinishWrite(w)
  <2>1. DbType' /\ WriterType'
    BY <1>4 DEF FinishWrite, TypeOK
  <2>2. QED BY <1>4, <2>1, Frame DEF FinishWrite, TypeOK
<1>5. CASE AbortWrite(w)
  BY <1>5, Frame DEF AbortWrite, TypeOK
<1>6. QED BY <1>1, <1>2, <1>3, <1>4, <1>5 DEF WriterStep

LEMMA TypeBulk ==
  ASSUME TypeOK, NEW b \in Bulks,
         BulkBegin(b) \/ (\E S \in SUBSET Items : BulkAnswer(b, S))
           \/ StoreMany(b) \/ BulkAbandon(b)
  PROVE  TypeOK'
<1> USE DEF BulkType, DbType
<1>1. CASE BulkBegin(b)
  BY <1>1, Frame DEF BulkBegin, TypeOK
<1>2. ASSUME NEW S \in SUBSET Items, BulkAnswer(b, S) PROVE TypeOK'
  BY <1>2, Frame DEF BulkAnswer, TypeOK
<1>3. CASE StoreMany(b)
  <2>1. StoreType'
    <3>1. bslot[b] \in Slots /\ bset[b] \in SUBSET Items /\ bval[b] \in [Items -> Nat]
      BY DEF TypeOK
    <3>2. CASE BulkFits(b) /\ SameGeneration(bgen[b])
      BY <1>3, <3>1, <3>2, InsertType DEF StoreMany, StoreType
    <3>3. CASE ~(BulkFits(b) /\ SameGeneration(bgen[b]))
      BY <1>3, <3>3, Frame DEF StoreMany
    <3>4. QED BY <3>2, <3>3
  <2>2. QED BY <1>3, <2>1, Frame DEF StoreMany, TypeOK
<1>4. CASE BulkAbandon(b)
  BY <1>4, Frame DEF BulkAbandon, TypeOK
<1>5. QED BY <1>1, <1>2, <1>3, <1>4

LEMMA TypeExpire ==
  ASSUME TypeOK, NEW i \in Items, Expire(i)
  PROVE  TypeOK'
<1>1. StoreType'
  BY DEF Expire, TypeOK, StoreType
<1>2. QED BY <1>1, Frame DEF Expire, TypeOK

LEMMA TypeStep == TypeOK /\ [Next]_vars => TypeOK'
<1> SUFFICES ASSUME TypeOK, [Next]_vars PROVE TypeOK'
  OBVIOUS
<1>1. CASE Next
  BY <1>1, TypeCall, TypeWriter, TypeBulk, TypeExpire DEF Next
<1>2. CASE UNCHANGED vars
  BY <1>2, Frame DEF vars, TypeOK
<1>3. QED BY <1>1, <1>2

(* Type correctness of every reachable state, for every instance.          *)
THEOREM TypeCorrect == Spec => []TypeOK
<1>1. QED BY TypeInit, TypeStep, PTL DEF Spec

-----------------------------------------------------------------------------
(***************************************************************************)
(* The inductive invariant.  A version v of item i is good for generation  *)
(* g when it is at least the version of every write of i whose             *)
(* invalidation had bumped the generation to g or less.                    *)
(***************************************************************************)
GoodFor(v, i, g) ==
  \A w \in Writers : 0 < wgen[w] /\ wgen[w] <= g /\ i \in scope[w] => wver[w] <= v

GenInv ==
  /\ \A w \in Writers : wgen[w] <= generation
  /\ \A c \in Calls : gen[c] <= generation
  /\ \A b \in Bulks : bgen[b] <= generation

WriteInv ==
  /\ \A w \in Writers :
       /\ wpc[w] = "idle" => scope[w] = {}
       /\ wpc[w] \in {"idle", "committed"} => wgen[w] = 0
       /\ wpc[w] \in {"clearing", "done"} => 0 < wgen[w]
       /\ wpc[w] = "done" => todo[w] = {}
       /\ \A i \in scope[w] : wver[w] <= db[i]
  /\ \A i \in Items : db[i] <= commits

AckInv ==
  \A i \in Items : acked[i] = 0 \/
    \E w \in Writers : wpc[w] = "done" /\ i \in scope[w] /\ acked[i] = wver[w]

FetchInv ==
  \A c \in Calls :
    /\ pc[c] \in {"idle", "lookup", "loadGen", "join", "wait", "recheck", "fetch"}
         => result[c] = "none"
    /\ pc[c] = "store" => result[c] = "fetch"
    /\ result[c] = "fetch" => GoodFor(val[c], item[c], gen[c])

BulkInv ==
  \A b \in Bulks : bpc[b] = "store" =>
    \A i \in Items : GoodFor(bval[b][i], i, bgen[b])

StoredInv ==
  \A i \in present : \A w \in Writers :
    0 < wgen[w] /\ i \in scope[w] /\ i[1] \notin todo[w] => wver[w] <= value[i]

IInv == GenInv /\ WriteInv /\ AckInv /\ FetchInv /\ BulkInv /\ StoredInv

LEMMA IInvInit == Init => IInv
BY DEF Init, IInv, GenInv, WriteInv, AckInv, FetchInv, BulkInv, StoredInv, GoodFor

LEMMA IInvFresh == TypeOK /\ IInv => CacheFresh
BY DEF IInv, WriteInv, AckInv, StoredInv, TypeOK, StoreType, WriterType, DbType, CacheFresh

(* What the database holds is good for every generation.                   *)
LEMMA DbGood ==
  ASSUME TypeOK, IInv, NEW i \in Items, NEW g \in Nat
  PROVE  GoodFor(db[i], i, g)
BY DEF GoodFor, IInv, WriteInv

(* A store of versions that are good for the current generation.           *)
LEMMA InsertGood ==
  ASSUME TypeOK, IInv, NEW s, NEW S \in SUBSET Items,
         NEW v \in [Items -> Nat], NEW n, Insert(s, S, v, n),
         \A i \in S : GoodFor(v[i], i, generation),
         UNCHANGED <<generation, writeVars>>
  PROVE  StoredInv'
<1> SUFFICES ASSUME NEW i \in present', NEW w \in Writers,
                    0 < wgen[w], i \in scope[w], i[1] \notin todo[w]
             PROVE  wver[w] <= value'[i]
  BY DEF StoredInv, writeVars
<1>1. CASE i \in S
  BY <1>1 DEF Insert, GoodFor, IInv, GenInv
<1>2. CASE i \notin S
  <2>1. i \in present
    BY <1>2 DEF Insert, MakeRoom, InSlot
  <2>2. value'[i] = value[i]
    BY <1>2, <2>1 DEF Insert, TypeOK, StoreType
  <2>3. QED BY <2>1, <2>2 DEF IInv, StoredInv
<1>3. QED BY <1>1, <1>2

LEMMA IInvFrame ==
  /\ IInv /\ UNCHANGED <<dbVars, writeVars>> => WriteInv' /\ AckInv'
  /\ IInv /\ UNCHANGED <<writeVars, storeVars>> => StoredInv'
  /\ IInv /\ UNCHANGED <<writeVars, bulkVars>> => BulkInv'
  /\ IInv /\ UNCHANGED <<writeVars, callVars>> => FetchInv'
  /\ IInv /\ UNCHANGED <<generation, writeVars, bulkVars, callVars>> => GenInv'
BY DEF IInv, GenInv, WriteInv, AckInv, FetchInv, BulkInv, StoredInv, GoodFor,
       dbVars, storeVars, callVars, writeVars, bulkVars

LEMMA IInvCall ==
  ASSUME TypeOK, IInv, NEW c \in Calls, Start(c) \/ CallStep(c) \/ Cancel(c)
  PROVE  IInv'
<1> USE DEF Goto, Set, writeVars, bulkVars
<1>a. TypeOK /\ CallType /\ DbType
  BY DEF TypeOK
<1>1. CASE Start(c)
  <2>1. GenInv' /\ FetchInv'
    BY <1>1, <1>a DEF Start, IInv, GenInv, FetchInv, GoodFor, CallType
  <2>2. QED BY <1>1, <2>1, IInvFrame DEF Start, IInv
<1>2. CASE Lookup(c)
  <2>1. GenInv' /\ FetchInv'
    BY <1>2, <1>a DEF Lookup, IInv, GenInv, FetchInv, GoodFor, CallType
  <2>2. QED BY <1>2, <2>1, IInvFrame DEF Lookup, IInv
<1>3. CASE LoadGeneration(c)
  <2>1. GenInv' /\ FetchInv'
    BY <1>3, <1>a DEF LoadGeneration, IInv, GenInv, FetchInv, GoodFor, CallType, DbType
  <2>2. QED BY <1>3, <2>1, IInvFrame DEF LoadGeneration, IInv
<1>4. CASE JoinOrLead(c)
  <2>1. GenInv' /\ FetchInv'
    BY <1>4, <1>a DEF JoinOrLead, IInv, GenInv, FetchInv, GoodFor, CallType, CanJoin
  <2>2. QED BY <1>4, <2>1, IInvFrame DEF JoinOrLead, IInv
<1>5. CASE Recheck(c)
  <2>1. GenInv' /\ FetchInv'
    BY <1>5, <1>a DEF Recheck, IInv, GenInv, FetchInv, GoodFor, CallType
  <2>2. QED BY <1>5, <2>1, IInvFrame DEF Recheck, IInv
<1>6. ASSUME NEW cacheable \in BOOLEAN, FetchAnswer(c, cacheable) PROVE IInv'
  <2>1. GoodFor(db[item[c]], item[c], gen[c])
    BY <1>a, DbGood DEF CallType
  <2>2. GenInv' /\ FetchInv'
    BY <1>6, <1>a, <2>1 DEF FetchAnswer, IInv, GenInv, FetchInv, GoodFor, CallType
  <2>3. QED BY <1>6, <2>2, IInvFrame DEF FetchAnswer, IInv
<1>7. CASE FetchError(c)
  <2>1. GenInv' /\ FetchInv'
    BY <1>7, <1>a DEF FetchError, IInv, GenInv, FetchInv, GoodFor, CallType
  <2>2. QED BY <1>7, <2>1, IInvFrame DEF FetchError, IInv
<1>8. CASE Publish(c)
  <2>1. GenInv' /\ FetchInv'
    BY <1>8, <1>a DEF Publish, IInv, GenInv, FetchInv, GoodFor, CallType
  <2>2. QED BY <1>8, <2>1, IInvFrame DEF Publish, IInv
<1>9. CASE Unlist(c)
  <2>1. GenInv' /\ FetchInv'
    BY <1>9, <1>a DEF Unlist, IInv, GenInv, FetchInv, GoodFor, CallType
  <2>2. QED BY <1>9, <2>1, IInvFrame DEF Unlist, IInv
<1>10. CASE Close(c)
  <2>1. GenInv' /\ FetchInv'
    BY <1>10, <1>a DEF Close, IInv, GenInv, FetchInv, GoodFor, CallType
  <2>2. QED BY <1>10, <2>1, IInvFrame DEF Close, IInv
<1>11. CASE TakeShared(c)
  <2>1. GenInv' /\ FetchInv'
    BY <1>11, <1>a DEF TakeShared, IInv, GenInv, FetchInv, GoodFor, CallType
  <2>2. QED BY <1>11, <2>1, IInvFrame DEF TakeShared, IInv
<1>12. CASE Retry(c)
  <2>1. GenInv' /\ FetchInv'
    BY <1>12, <1>a DEF Retry, IInv, GenInv, FetchInv, GoodFor, CallType
  <2>2. QED BY <1>12, <2>1, IInvFrame DEF Retry, IInv
<1>13. CASE TakeError(c)
  <2>1. GenInv' /\ FetchInv'
    BY <1>13, <1>a DEF TakeError, IInv, GenInv, FetchInv, GoodFor, CallType
  <2>2. QED BY <1>13, <2>1, IInvFrame DEF TakeError, IInv
<1>14. CASE Cancel(c)
  <2>1. GenInv' /\ FetchInv'
    BY <1>14, <1>a DEF Cancel, IInv, GenInv, FetchInv, GoodFor, CallType, AfterCancel
  <2>2. QED BY <1>14, <2>1, IInvFrame DEF Cancel, IInv
<1>15. CASE FetchAndStore(c)
  <2>1. GenInv' /\ FetchInv'
    BY <1>15, <1>a DEF FetchAndStore, IInv, GenInv, FetchInv, GoodFor, CallType
  <2>2. StoredInv'
    <3>1. CASE SameGeneration(gen[c])
      <4>1. \A i \in {item[c]} : GoodFor([j \in Items |-> val[c]][i], i, generation)
        BY <1>15, <1>a, <3>1 DEF FetchAndStore, SameGeneration, IInv, FetchInv, CallType
      <4>2. /\ {item[c]} \in SUBSET Items
            /\ [j \in Items |-> val[c]] \in [Items -> Nat]
        BY <1>a DEF CallType
      <4>3. QED BY <1>15, <3>1, <4>1, <4>2, InsertGood DEF FetchAndStore
    <3>2. CASE ~SameGeneration(gen[c])
      BY <1>15, <3>2, IInvFrame DEF FetchAndStore
    <3>3. QED BY <3>1, <3>2
  <2>3. QED BY <1>15, <2>1, <2>2, IInvFrame DEF FetchAndStore, IInv
<1>16. QED
  BY <1>1, <1>2, <1>3, <1>4, <1>5, <1>6, <1>7, <1>8, <1>9, <1>10, <1>11, <1>12, <1>13, <1>14, <1>15 DEF CallStep

LEMMA IInvWriter ==
  ASSUME TypeOK, IInv, NEW w \in Writers,
         (\E S \in Scopes : Commit(w, S)) \/ WriterStep(w) \/ AbortWrite(w)
  PROVE  IInv'
<1>a. TypeOK /\ WriterType /\ DbType /\ StoreType /\ CallType /\ BulkType
  BY DEF TypeOK
<1>1. ASSUME NEW S \in Scopes, Commit(w, S) PROVE IInv'
  <2>1. S \in SUBSET Items
    BY CacheAssumption
  <2>2. wgen[w] = 0 /\ wgen' = wgen
    BY <1>1 DEF Commit, IInv, WriteInv
  <2>3. \A v, i, g : GoodFor(v, i, g) => GoodFor(v, i, g)'
    BY <1>1, <2>2, <1>a DEF Commit, GoodFor, WriterType
  <2>4. GenInv'
    BY <1>1, <2>2 DEF Commit, IInv, GenInv, callVars, bulkVars
  <2>5. WriteInv'
    BY <1>1, <1>a, <2>1 DEF Commit, IInv, WriteInv, WriterType, DbType
  <2>6. AckInv'
    BY <1>1, <1>a DEF Commit, IInv, AckInv, WriterType
  <2>7. FetchInv' /\ BulkInv'
    BY <1>1, <2>3 DEF Commit, IInv, FetchInv, BulkInv, callVars, bulkVars
  <2>8. StoredInv'
    BY <1>1, <1>a, <2>2 DEF Commit, IInv, StoredInv, WriterType, storeVars
  <2>9. QED BY <2>4, <2>5, <2>6, <2>7, <2>8 DEF IInv
<1>2. CASE Bump(w)
  <2>1. \A v, i : \A g \in Nat : g <= generation /\ GoodFor(v, i, g) => GoodFor(v, i, g)'
    BY <1>2, <1>a DEF Bump, NextGeneration, GoodFor, WriterType, DbType
  <2>2. GenInv'
    BY <1>2, <1>a DEF Bump, NextGeneration, IInv, GenInv, WriterType, DbType, CallType,
                  BulkType, callVars, bulkVars
  <2>3. WriteInv'
    BY <1>2, <1>a DEF Bump, NextGeneration, IInv, WriteInv, WriterType, DbType, dbVars
  <2>4. AckInv'
    BY <1>2, <1>a DEF Bump, IInv, AckInv, WriterType, dbVars
  <2>5. FetchInv' /\ BulkInv'
    BY <1>2, <1>a, <2>1 DEF Bump, IInv, GenInv, FetchInv, BulkInv, callVars, bulkVars,
                        CallType, BulkType
  <2>6. StoredInv'
    <3>1. \A i \in present : i[1] \in Slots
      BY <1>a DEF StoreType, Items
    <3>2. QED BY <1>2, <1>a, <3>1 DEF Bump, IInv, StoredInv, WriterType, storeVars
  <2>7. QED BY <2>2, <2>3, <2>4, <2>5, <2>6 DEF IInv
<1>3. ASSUME NEW s \in Slots, ClearSlot(w, s) PROVE IInv'
  <2>1. GenInv' /\ FetchInv' /\ BulkInv'
    BY <1>3 DEF ClearSlot, IInv, GenInv, FetchInv, BulkInv, GoodFor, callVars, bulkVars
  <2>2. WriteInv' /\ AckInv'
    BY <1>3, <1>a DEF ClearSlot, IInv, WriteInv, AckInv, WriterType, dbVars
  <2>3. StoredInv'
    BY <1>3, <1>a DEF ClearSlot, Removed, InSlot, IInv, StoredInv, WriterType, StoreType
  <2>4. QED BY <2>1, <2>2, <2>3 DEF IInv
<1>4. CASE FinishWrite(w)
  <2>1. GenInv' /\ FetchInv' /\ BulkInv' /\ StoredInv'
    BY <1>4 DEF FinishWrite, IInv, GenInv, FetchInv, BulkInv, StoredInv, GoodFor,
                callVars, bulkVars, storeVars
  <2>2. WriteInv'
    BY <1>4, <1>a DEF FinishWrite, IInv, WriteInv, WriterType
  <2>3. AckInv'
    <3>1. \A v \in Writers : wpc[v] = "done" => wpc'[v] = "done"
      BY <1>4, <1>a DEF FinishWrite, WriterType
    <3>2. wpc'[w] = "done"
      BY <1>4, <1>a DEF FinishWrite, WriterType
    <3>3. scope' = scope /\ wver' = wver
      BY <1>4 DEF FinishWrite
    <3>4. \A i \in Items : acked'[i] = acked[i] \/ (i \in scope[w] /\ acked'[i] = wver[w])
      BY <1>4, <1>a DEF FinishWrite, DbType
    <3>5. QED BY <3>1, <3>2, <3>3, <3>4 DEF IInv, AckInv
  <2>4. QED BY <2>1, <2>2, <2>3 DEF IInv
<1>5. CASE AbortWrite(w)
  <2>1. GenInv' /\ FetchInv' /\ BulkInv' /\ StoredInv'
    BY <1>5 DEF AbortWrite, IInv, GenInv, FetchInv, BulkInv, StoredInv, GoodFor,
                callVars, bulkVars, storeVars
  <2>2. WriteInv' /\ AckInv'
    BY <1>5, <1>a DEF AbortWrite, IInv, WriteInv, AckInv, WriterType, dbVars
  <2>3. QED BY <2>1, <2>2 DEF IInv
<1>6. QED BY <1>1, <1>2, <1>3, <1>4, <1>5 DEF WriterStep

LEMMA IInvBulk ==
  ASSUME TypeOK, IInv, NEW b \in Bulks,
         BulkBegin(b) \/ (\E S \in SUBSET Items : BulkAnswer(b, S))
           \/ StoreMany(b) \/ BulkAbandon(b)
  PROVE  IInv'
<1> USE DEF writeVars, callVars
<1>a. TypeOK /\ BulkType /\ DbType
  BY DEF TypeOK
<1>1. CASE BulkBegin(b)
  <2>1. GenInv' /\ BulkInv'
    BY <1>1, <1>a DEF BulkBegin, IInv, GenInv, BulkInv, GoodFor, BulkType, DbType
  <2>2. QED BY <1>1, <2>1, IInvFrame DEF BulkBegin, IInv
<1>2. ASSUME NEW S \in SUBSET Items, BulkAnswer(b, S) PROVE IInv'
  <2>1. \A i \in Items : GoodFor(db[i], i, bgen[b])
    BY <1>a, DbGood DEF BulkType
  <2>2. GenInv' /\ BulkInv'
    BY <1>2, <1>a, <2>1 DEF BulkAnswer, IInv, GenInv, BulkInv, GoodFor, BulkType
  <2>3. QED BY <1>2, <2>2, IInvFrame DEF BulkAnswer, IInv
<1>3. CASE StoreMany(b)
  <2>1. GenInv' /\ BulkInv'
    BY <1>3, <1>a DEF StoreMany, IInv, GenInv, BulkInv, GoodFor, BulkType
  <2>2. StoredInv'
    <3>1. CASE BulkFits(b) /\ SameGeneration(bgen[b])
      <4>1. \A i \in bset[b] : GoodFor(bval[b][i], i, generation)
        BY <1>3, <1>a, <3>1 DEF StoreMany, SameGeneration, IInv, BulkInv, BulkType
      <4>2. bset[b] \in SUBSET Items /\ bval[b] \in [Items -> Nat]
        BY <1>a DEF BulkType
      <4>3. QED BY <1>3, <3>1, <4>1, <4>2, InsertGood DEF StoreMany
    <3>2. CASE ~(BulkFits(b) /\ SameGeneration(bgen[b]))
      BY <1>3, <3>2, IInvFrame DEF StoreMany
    <3>3. QED BY <3>1, <3>2
  <2>3. QED BY <1>3, <2>1, <2>2, IInvFrame DEF StoreMany, IInv
<1>4. CASE BulkAbandon(b)
  <2>1. GenInv' /\ BulkInv'
    BY <1>4, <1>a DEF BulkAbandon, IInv, GenInv, BulkInv, GoodFor, BulkType
  <2>2. QED BY <1>4, <2>1, IInvFrame DEF BulkAbandon, IInv
<1>5. QED BY <1>1, <1>2, <1>3, <1>4

LEMMA IInvStep == TypeOK /\ IInv /\ [Next]_vars => IInv'
<1> SUFFICES ASSUME TypeOK, IInv, [Next]_vars PROVE IInv'
  OBVIOUS
<1>1. ASSUME NEW i \in Items, Expire(i) PROVE IInv'
  <2>1. StoredInv'
    BY <1>1 DEF Expire, IInv, StoredInv, writeVars
  <2>2. QED BY <1>1, <2>1, IInvFrame DEF Expire, IInv
<1>2. CASE UNCHANGED vars
  BY <1>2, IInvFrame DEF vars, IInv
<1>3. QED BY <1>1, <1>2, IInvCall, IInvWriter, IInvBulk DEF Next

LEMMA IInvCorrect == Spec => [](TypeOK /\ IInv)
<1>1. QED BY TypeCorrect, IInvInit, IInvStep, PTL DEF Spec

(* No cached entry is older than a write whose invalidation has finished.  *)
THEOREM CacheNeverStale == Spec => []CacheFresh
<1>1. QED BY IInvCorrect, IInvFresh, PTL

-----------------------------------------------------------------------------
(* What a call saw when it began, and what it answers.                     *)
ReadInv ==
  \A c \in Calls :
    /\ floor[c] <= acked[item[c]]
    /\ result[c] \in {"hit", "fetch"} => floor[c] <= val[c]

\* The database is never older than what has been acknowledged.
LEMMA AckedInDb ==
  ASSUME TypeOK, IInv, NEW i \in Items
  PROVE  acked[i] <= db[i]
BY DEF TypeOK, DbType, IInv, AckInv, WriteInv

LEMMA ReadStep == TypeOK /\ IInv /\ ReadInv /\ [Next]_vars => ReadInv'
<1> SUFFICES ASSUME TypeOK, IInv, ReadInv, [Next]_vars PROVE ReadInv'
  OBVIOUS
<1> USE DEF ReadInv
<1>a. CallType /\ DbType /\ StoreType
  BY DEF TypeOK
<1>b. ASSUME NEW i \in Items, Hit(i) PROVE acked[i] <= value[i]
  BY <1>b, <1>a, IInvFresh DEF CacheFresh, Hit
<1>c. ASSUME NEW c \in Calls, Start(c) \/ CallStep(c) \/ Cancel(c) PROVE ReadInv'
  <2> USE DEF Goto, Set, CallType, DbType
  <2>1. CASE Start(c)
    BY <2>1, <1>a DEF Start, dbVars, IInv, FetchInv
  <2>2. CASE Lookup(c)
    BY <2>2, <1>a, <1>b DEF Lookup, dbVars, StoreType
  <2>3. CASE LoadGeneration(c)
    BY <2>3, <1>a DEF LoadGeneration, dbVars
  <2>4. CASE JoinOrLead(c)
    BY <2>4, <1>a DEF JoinOrLead, dbVars
  <2>5. CASE Recheck(c)
    BY <2>5, <1>a, <1>b DEF Recheck, Found, dbVars, StoreType
  <2>6. ASSUME NEW cacheable \in BOOLEAN, FetchAnswer(c, cacheable) PROVE ReadInv'
    <3>1. acked[item[c]] <= db[item[c]]
      BY <1>a, AckedInDb
    <3>2. QED BY <2>6, <3>1, <1>a DEF FetchAnswer, dbVars
  <2>7. CASE FetchError(c)
    BY <2>7, <1>a DEF FetchError, dbVars
  <2>8. CASE FetchAndStore(c)
    BY <2>8, <1>a DEF FetchAndStore, dbVars
  <2>9. CASE Publish(c)
    BY <2>9, <1>a DEF Publish, dbVars
  <2>10. CASE Unlist(c)
    BY <2>10, <1>a DEF Unlist, dbVars
  <2>11. CASE Close(c)
    BY <2>11, <1>a DEF Close, dbVars
  <2>12. CASE TakeShared(c)
    BY <2>12, <1>a DEF TakeShared, dbVars
  <2>13. CASE Retry(c)
    BY <2>13, <1>a DEF Retry, dbVars
  <2>14. CASE TakeError(c)
    BY <2>14, <1>a DEF TakeError, dbVars
  <2>15. CASE Cancel(c)
    BY <2>15, <1>a DEF Cancel, dbVars
  <2>16. QED
    BY <1>c, <2>1, <2>2, <2>3, <2>4, <2>5, <2>6, <2>7, <2>8, <2>9, <2>10, <2>11, <2>12, <2>13, <2>14, <2>15 DEF CallStep
<1>d. ASSUME NEW w \in Writers,
              (\E S \in Scopes : Commit(w, S)) \/ WriterStep(w) \/ AbortWrite(w)
      PROVE  ReadInv'
  <2>1. UNCHANGED callVars
    BY <1>d DEF Commit, WriterStep, Bump, ClearSlot, FinishWrite, AbortWrite
  <2>2. \A i \in Items : acked[i] <= acked'[i]
    <3>1. CASE FinishWrite(w)
      BY <3>1, <1>a DEF FinishWrite, DbType, TypeOK, WriterType
    <3>2. CASE ~FinishWrite(w)
      BY <1>d, <3>2, <1>a DEF Commit, WriterStep, Bump, ClearSlot, AbortWrite, dbVars, DbType
    <3>3. QED BY <3>1, <3>2
  <2>3. \A i \in Items : acked'[i] \in Nat
    BY <1>d, TypeWriter DEF TypeOK, DbType
  <2>4. QED BY <2>1, <2>2, <2>3, <1>a DEF callVars, CallType, DbType
<1>e. ASSUME UNCHANGED callVars, UNCHANGED dbVars PROVE ReadInv'
  BY <1>e DEF callVars, dbVars
<1>f. ASSUME NEW b \in Bulks,
             BulkBegin(b) \/ (\E S \in SUBSET Items : BulkAnswer(b, S))
               \/ StoreMany(b) \/ BulkAbandon(b)
      PROVE  ReadInv'
  BY <1>f, <1>e DEF BulkBegin, BulkAnswer, StoreMany, BulkAbandon
<1>g. ASSUME NEW i \in Items, Expire(i) PROVE ReadInv'
  BY <1>g, <1>e DEF Expire
<1>h. CASE UNCHANGED vars
  BY <1>h, <1>e DEF vars
<1>i. QED BY <1>c, <1>d, <1>f, <1>g, <1>h DEF Next

(* A call answered from the cache or by its own fetch returns nothing      *)
(* older than the writes that had returned before it began.                *)
THEOREM ReadsNeverStale == Spec => []ReadsFresh
<1>1. Init => ReadInv
  BY DEF Init, ReadInv
<1>2. TypeOK /\ ReadInv => ReadsFresh
  BY DEF ReadInv, ReadsFresh, TypeOK, CallType
<1>3. QED BY IInvCorrect, ReadStep, <1>1, <1>2, PTL DEF Spec

-----------------------------------------------------------------------------
(* A waiter's leader is of its key and generation.                         *)
WaitInv ==
  \A c \in Calls : pc[c] = "wait" =>
    /\ pc[rx[c]] \in LeadPCs \cup {"done"}
    /\ item[rx[c]] = item[c] /\ gen[rx[c]] = gen[c]

JoinInv == FlightsLive /\ WaitInv

LEMMA JoinStep == TypeOK /\ JoinInv /\ [Next]_vars => JoinInv'
<1> SUFFICES ASSUME TypeOK, JoinInv, [Next]_vars PROVE JoinInv'
  OBVIOUS
<1> USE DEF JoinInv, FlightsLive, WaitInv, LeadPCs
<1>a. CallType /\ DbType
  BY DEF TypeOK
<1>c. ASSUME NEW c \in Calls, Start(c) \/ CallStep(c) \/ Cancel(c) PROVE JoinInv'
  <2> USE DEF Goto, Set, CallType, DbType
  <2>1. CASE Start(c)
    BY <2>1, <1>a DEF Start
  <2>2. CASE Lookup(c)
    BY <2>2, <1>a DEF Lookup
  <2>3. CASE LoadGeneration(c)
    BY <2>3, <1>a DEF LoadGeneration
  <2>4. CASE JoinOrLead(c)
    BY <2>4, <1>a, CacheAssumption DEF JoinOrLead, CanJoin
  <2>5. CASE Recheck(c)
    BY <2>5, <1>a DEF Recheck
  <2>6. ASSUME NEW cacheable \in BOOLEAN, FetchAnswer(c, cacheable) PROVE JoinInv'
    BY <2>6, <1>a DEF FetchAnswer
  <2>7. CASE FetchError(c)
    BY <2>7, <1>a DEF FetchError
  <2>8. CASE FetchAndStore(c)
    BY <2>8, <1>a DEF FetchAndStore
  <2>9. CASE Publish(c)
    BY <2>9, <1>a DEF Publish
  <2>10. CASE Unlist(c)
    BY <2>10, <1>a DEF Unlist, Unlisted
  <2>11. CASE Close(c)
    BY <2>11, <1>a DEF Close
  <2>12. CASE TakeShared(c)
    BY <2>12, <1>a DEF TakeShared
  <2>13. CASE Retry(c)
    BY <2>13, <1>a DEF Retry
  <2>14. CASE TakeError(c)
    BY <2>14, <1>a DEF TakeError
  <2>15. CASE Cancel(c)
    BY <2>15, <1>a DEF Cancel, AfterCancel
  <2>16. QED
    BY <1>c, <2>1, <2>2, <2>3, <2>4, <2>5, <2>6, <2>7, <2>8, <2>9, <2>10, <2>11, <2>12, <2>13, <2>14, <2>15 DEF CallStep
<1>e. ASSUME UNCHANGED <<flights, callVars>> PROVE JoinInv'
  BY <1>e DEF callVars
<1>f. CASE \E w \in Writers : (\E S \in Scopes : Commit(w, S)) \/ WriterStep(w) \/ AbortWrite(w)
  BY <1>f, <1>e DEF Commit, WriterStep, Bump, ClearSlot, FinishWrite, AbortWrite
<1>g. CASE \E b \in Bulks :
             BulkBegin(b) \/ (\E S \in SUBSET Items : BulkAnswer(b, S))
               \/ StoreMany(b) \/ BulkAbandon(b)
  BY <1>g, <1>e DEF BulkBegin, BulkAnswer, StoreMany, BulkAbandon
<1>h. ASSUME NEW i \in Items, Expire(i) PROVE JoinInv'
  BY <1>h, <1>e DEF Expire
<1>i. CASE UNCHANGED vars
  BY <1>i, <1>e DEF vars
<1>j. QED BY <1>c, <1>f, <1>g, <1>h, <1>i DEF Next

LEMMA JoinCorrect == Spec => []JoinInv
<1>1. Init => JoinInv
  BY DEF Init, JoinInv, FlightsLive, WaitInv
<1>2. QED BY TypeCorrect, JoinStep, <1>1, PTL DEF Spec

(* The in-flight table never holds a flight whose sender is gone.          *)
THEOREM FlightsAlwaysLive == Spec => []FlightsLive
<1>1. JoinInv => FlightsLive
  BY DEF JoinInv
<1>2. QED BY JoinCorrect, <1>1, PTL

(* A value that a leader fetched and a waiter takes is as new as every     *)
(* write that has returned by then.                                        *)
THEOREM SharedFetchesFresh == Spec => SharedFetchFresh
<1> DEFINE Fresh == \A c \in Calls :
             result'[c] = "shared" /\ result[c] # "shared" /\ result[rx[c]] = "fetch"
               => val'[c] >= acked[item[c]]
<1>1. TypeOK /\ IInv /\ JoinInv /\ [Next]_vars => [Fresh]_vars
  <2> SUFFICES ASSUME TypeOK, IInv, JoinInv, [Next]_vars, NEW c \in Calls,
                      result'[c] = "shared", result[c] # "shared",
                      result[rx[c]] = "fetch"
               PROVE  val'[c] >= acked[item[c]]
    OBVIOUS
  <2>a. CallType /\ DbType /\ WriterType
    BY DEF TypeOK
  <2>1. ASSUME NEW d \in Calls, Start(d) \/ CallStep(d) \/ Cancel(d) PROVE TakeShared(c)
    BY <2>1, <2>a DEF CallStep, Start, Lookup, LoadGeneration, JoinOrLead, Recheck,
       FetchAnswer, FetchError, FetchAndStore, Publish, Unlist, Close, TakeShared,
       Retry, TakeError, Cancel, Set, CallType
  <2>2. ASSUME UNCHANGED callVars PROVE FALSE
    BY <2>2 DEF callVars
  <2>3. TakeShared(c)
    BY <2>1, <2>2 DEF Next, vars, Commit, WriterStep, Bump, ClearSlot, FinishWrite,
       AbortWrite, BulkBegin, BulkAnswer, StoreMany, BulkAbandon, Expire
  <2>4. rx[c] \in Calls /\ item[rx[c]] = item[c] /\ gen[rx[c]] = generation
    BY <2>3, <2>a DEF TakeShared, SameGeneration, JoinInv, WaitInv, CallType
  <2>5. GoodFor(val[rx[c]], item[c], generation)
    BY <2>4 DEF IInv, FetchInv
  <2>6. val[rx[c]] >= acked[item[c]]
    BY <2>4, <2>5, <2>a DEF IInv, AckInv, WriteInv, GenInv, GoodFor, CallType, DbType, WriterType
  <2>7. QED BY <2>3, <2>6, <2>a DEF TakeShared, Set, CallType
<1>2. QED BY IInvCorrect, JoinCorrect, <1>1, PTL DEF Spec, SharedFetchFresh

-----------------------------------------------------------------------------
(* While nothing has been invalidated, whoever leads a flight is the one   *)
(* the in-flight table names for its key.                                  *)
Leading(c) == pc[c] \in LeadPCs \ {"close"}
LeadInv ==
  generation = 0 => \A c \in Calls : Leading(c) => flights[item[c]] = c

LEMMA LeadStep ==
  TypeOK /\ IInv /\ LeadInv /\ [Next]_vars => LeadInv'
<1> SUFFICES ASSUME TypeOK, IInv, LeadInv, [Next]_vars PROVE LeadInv'
  OBVIOUS
<1> USE DEF LeadInv, Leading, LeadPCs
<1>a. CallType /\ DbType
  BY DEF TypeOK
<1>b. ASSUME generation = 0, NEW c \in Calls PROVE gen[c] = 0
  BY <1>b, <1>a DEF IInv, GenInv, CallType
<1>c. ASSUME NEW c \in Calls, Start(c) \/ CallStep(c) \/ Cancel(c) PROVE LeadInv'
  <2> USE DEF Goto, Set, CallType
  <2>1. CASE Start(c)
    BY <2>1, <1>a DEF Start
  <2>2. CASE Lookup(c)
    BY <2>2, <1>a DEF Lookup
  <2>3. CASE LoadGeneration(c)
    BY <2>3, <1>a DEF LoadGeneration
  <2>4. CASE JoinOrLead(c)
    <3>1. CASE CanJoin(c)
      BY <2>4, <3>1, <1>a DEF JoinOrLead
    <3>2. CASE ~CanJoin(c)
      <4>1. ASSUME generation = 0, NEW d \in Calls, d # c, Leading(d)
            PROVE  item[d] # item[c]
        BY <4>1, <3>2, <1>a, <1>b, CacheAssumption DEF CanJoin
      <4>2. QED BY <2>4, <3>2, <4>1, <1>a DEF JoinOrLead
    <3>3. QED BY <3>1, <3>2
  <2>5. CASE Recheck(c)
    BY <2>5, <1>a DEF Recheck
  <2>6. ASSUME NEW cacheable \in BOOLEAN, FetchAnswer(c, cacheable) PROVE LeadInv'
    BY <2>6, <1>a DEF FetchAnswer
  <2>7. CASE FetchError(c)
    BY <2>7, <1>a DEF FetchError
  <2>8. CASE FetchAndStore(c)
    BY <2>8, <1>a DEF FetchAndStore
  <2>9. CASE Publish(c)
    BY <2>9, <1>a DEF Publish
  <2>10. CASE Unlist(c)
    BY <2>10, <1>a DEF Unlist, Unlisted
  <2>11. CASE Close(c)
    BY <2>11, <1>a DEF Close
  <2>12. CASE TakeShared(c)
    BY <2>12, <1>a DEF TakeShared
  <2>13. CASE Retry(c)
    BY <2>13, <1>a DEF Retry
  <2>14. CASE TakeError(c)
    BY <2>14, <1>a DEF TakeError
  <2>15. CASE Cancel(c)
    BY <2>15, <1>a DEF Cancel, AfterCancel
  <2>16. QED
    BY <1>c, <2>1, <2>2, <2>3, <2>4, <2>5, <2>6, <2>7, <2>8, <2>9, <2>10, <2>11, <2>12, <2>13, <2>14, <2>15 DEF CallStep
<1>e. ASSUME UNCHANGED <<flights, callVars>>, generation' = 0 => generation = 0
      PROVE  LeadInv'
  BY <1>e DEF callVars
<1>f. ASSUME NEW w \in Writers,
             (\E S \in Scopes : Commit(w, S)) \/ WriterStep(w) \/ AbortWrite(w)
      PROVE  LeadInv'
  BY <1>f, <1>e, <1>a DEF Commit, WriterStep, Bump, NextGeneration, ClearSlot,
     FinishWrite, AbortWrite, DbType
<1>g. CASE \E b \in Bulks :
             BulkBegin(b) \/ (\E S \in SUBSET Items : BulkAnswer(b, S))
               \/ StoreMany(b) \/ BulkAbandon(b)
  BY <1>g, <1>e DEF BulkBegin, BulkAnswer, StoreMany, BulkAbandon
<1>h. ASSUME NEW i \in Items, Expire(i) PROVE LeadInv'
  BY <1>h, <1>e DEF Expire
<1>i. CASE UNCHANGED vars
  BY <1>i, <1>e DEF vars
<1>j. QED BY <1>c, <1>f, <1>g, <1>h, <1>i DEF Next

(* What a call fetches has no entry it could have taken.                   *)
MissInv ==
  generation = 0 /\ (\A b \in Bulks : bpc[b] # "done") =>
    \A c \in Calls : pc[c] = "fetch" => ~Hit(item[c])

LEMMA MissStep ==
  TypeOK /\ LeadInv /\ MissInv /\ [Next]_vars => MissInv'
<1> SUFFICES ASSUME TypeOK, LeadInv, MissInv, [Next]_vars PROVE MissInv'
  OBVIOUS
<1> USE DEF MissInv, Hit
<1>a. CallType /\ DbType /\ StoreType /\ BulkType
  BY DEF TypeOK
<1>b. ASSUME \A i \in Items : Hit(i)' => Hit(i), generation' = 0 => generation = 0,
             \A b \in Bulks : bpc'[b] # "done" => bpc[b] # "done", item' = item,
             \A c \in Calls : pc'[c] = "fetch" => pc[c] = "fetch"
      PROVE  MissInv'
  BY <1>b, <1>a DEF CallType
<1>c. ASSUME NEW c \in Calls, Start(c) \/ CallStep(c) \/ Cancel(c) PROVE MissInv'
  <2> USE DEF Goto, Set, CallType
  <2>1. CASE Recheck(c)
    <3>1. item' = item /\ pc' = [pc EXCEPT ![c] = IF Found(c) THEN "publish" ELSE "fetch"]
          /\ UNCHANGED <<generation, storeVars, bulkVars>>
      BY <2>1 DEF Recheck
    <3> QED
      BY <3>1, <1>a DEF Found, storeVars, bulkVars
  <2>2. CASE FetchAndStore(c)
    <3>1. /\ pc[c] = "store" /\ pc' = [pc EXCEPT ![c] = "publish"]
          /\ UNCHANGED <<generation, item, flights, bulkVars>>
      BY <2>2 DEF FetchAndStore
    <3>2. CASE UNCHANGED storeVars
      BY <3>1, <3>2, <1>a, <1>b DEF storeVars, bulkVars
    <3>3. ASSUME NEW n, Insert(item[c][1], {item[c]}, [j \in Items |-> val[c]], n)
          PROVE  MissInv'
      <4>1. ASSUME NEW d \in Calls, pc[d] = "fetch", generation = 0
            PROVE  item[d] # item[c]
        BY <4>1, <3>1 DEF LeadInv, Leading, LeadPCs
      <4>2. ASSUME NEW i \in Items, i # item[c], Hit(i)'
            PROVE  Hit(i)
        BY <3>3, <4>2 DEF Insert, MakeRoom, InSlot
      <4> QED
        BY <3>1, <4>1, <4>2, <1>a DEF bulkVars
    <3> QED
      BY <2>2, <3>2, <3>3 DEF FetchAndStore
  <2>3. CASE ~Recheck(c) /\ ~FetchAndStore(c)
    <3>1. UNCHANGED <<generation, storeVars, bulkVars, item>>
      BY <1>c, <2>3 DEF CallStep, Start, Lookup, LoadGeneration, JoinOrLead, FetchAnswer,
         FetchError, Publish, Unlist, Close, TakeShared, Retry, TakeError, Cancel
    <3>2. pc' = pc \/ \E l \in CallPCs \ {"fetch"} : pc' = [pc EXCEPT ![c] = l]
      BY <1>c, <2>3 DEF CallStep, Start, Lookup, LoadGeneration, JoinOrLead, FetchAnswer,
         FetchError, Publish, Unlist, Close, TakeShared, Retry, TakeError, Cancel,
         AfterCancel, CallPCs
    <3> QED
      BY <3>1, <3>2, <1>a, <1>b DEF storeVars, bulkVars
  <2> QED
    BY <2>1, <2>2, <2>3
<1>d. ASSUME NEW w \in Writers,
             (\E S \in Scopes : Commit(w, S)) \/ WriterStep(w) \/ AbortWrite(w)
      PROVE  MissInv'
  <2>1. UNCHANGED <<callVars, bulkVars>> /\ (generation' = 0 => generation = 0)
        /\ \A i \in Items : Hit(i)' => Hit(i)
    BY <1>d, <1>a DEF Commit, WriterStep, Bump, NextGeneration, ClearSlot, FinishWrite,
       AbortWrite, DbType, storeVars
  <2> QED
    BY <2>1, <1>b DEF callVars, bulkVars
<1>e. ASSUME NEW b \in Bulks, BulkBegin(b) \/ \E S \in SUBSET Items : BulkAnswer(b, S)
      PROVE  MissInv'
  BY <1>e, <1>a, <1>b DEF BulkBegin, BulkAnswer, callVars, storeVars, BulkType
<1>f. ASSUME NEW b \in Bulks, StoreMany(b) \/ BulkAbandon(b)
      PROVE  MissInv'
  <2>1. bpc'[b] = "done"
    BY <1>f, <1>a DEF StoreMany, BulkAbandon, BulkType
  <2> QED
    BY <2>1
<1>g. ASSUME NEW i \in Items, Expire(i) PROVE MissInv'
  BY <1>g, <1>b DEF Expire, callVars, bulkVars
<1>h. CASE UNCHANGED vars
  BY <1>h, <1>b DEF vars, callVars, storeVars, bulkVars
<1> QED
  BY <1>c, <1>d, <1>e, <1>f, <1>g, <1>h DEF Next

(* As long as nothing is invalidated, no two calls fetch one key at once,  *)
(* and none fetches what another has stored meanwhile, however many are    *)
(* cancelled and however often the entry expires.                          *)
THEOREM FetchesSingleFlight == Spec => []SingleFlight
<1>1. Init => LeadInv /\ MissInv
  BY DEF Init, LeadInv, Leading, LeadPCs, MissInv
<1>2. TypeOK /\ LeadInv /\ MissInv => SingleFlight
  BY DEF LeadInv, Leading, LeadPCs, MissInv, SingleFlight
<1>3. QED BY IInvCorrect, LeadStep, MissStep, <1>1, <1>2, PTL DEF Spec

-----------------------------------------------------------------------------
(* The entries are finitely many, a bulk answer is of the kind it was      *)
(* asked for, and no kind is over its cap.                                 *)
CapInv ==
  /\ IsFiniteSet(present)
  /\ \A b \in Bulks : IsFiniteSet(bset[b]) /\ bset[b] \subseteq InSlot(bslot[b], Items)
  /\ CapRespected

\* Removing entries breaks no cap.
LEMMA FewerFit ==
  ASSUME IsFiniteSet(present), CapRespected, MaxEntries \in Nat,
         NEW S, S \subseteq present
  PROVE  /\ IsFiniteSet(S)
         /\ \A s \in Slots : Cardinality(InSlot(s, S)) <= MaxEntries
<1>1. IsFiniteSet(S)
  BY FS_Subset
<1>2. ASSUME NEW s \in Slots PROVE Cardinality(InSlot(s, S)) <= MaxEntries
  <2>1. InSlot(s, S) \subseteq InSlot(s, present) /\ InSlot(s, present) \subseteq present
    BY DEF InSlot
  <2>2. IsFiniteSet(InSlot(s, present)) /\ Cardinality(InSlot(s, present)) \in Nat
    BY <2>1, FS_Subset, FS_CardinalityType
  <2>3. /\ Cardinality(InSlot(s, S)) <= Cardinality(InSlot(s, present))
        /\ Cardinality(InSlot(s, S)) \in Nat
    BY <2>1, <2>2, FS_Subset, FS_CardinalityType
  <2>4. QED BY <2>2, <2>3 DEF CapRespected
<1>3. QED BY <1>1, <1>2

\* n more entries fit in a kind that has room for n.
LEMMA UnionFits ==
  ASSUME NEW A, NEW S, IsFiniteSet(A), IsFiniteSet(S), NEW n \in Nat, NEW m \in Nat,
         Cardinality(A) + n <= m, Cardinality(S) <= n
  PROVE  Cardinality(A \cup S) <= m
<1>1. /\ Cardinality(A) \in Nat /\ Cardinality(S) \in Nat
      /\ Cardinality(A \cap S) \in Nat
  BY FS_CardinalityType, FS_Intersection
<1>2. Cardinality(A \cup S) = Cardinality(A) + Cardinality(S) - Cardinality(A \cap S)
  BY FS_Union
<1>3. QED BY <1>1, <1>2

(* A store keeps every kind within its cap, if it counts what it adds:     *)
(* either the n new entries are no more than the cap allows, or nothing    *)
(* is new.                                                                 *)
LEMMA InsertFits ==
  ASSUME IsFiniteSet(present), CapRespected, NEW s \in Slots, NEW S,
         S \subseteq InSlot(s, Items), IsFiniteSet(S), NEW v, NEW n \in Nat,
         Insert(s, S, v, n),
         (Cardinality(S) <= n /\ n <= MaxEntries) \/ (n = 0 /\ S \subseteq present)
  PROVE  IsFiniteSet(present') /\ CapRespected'
<1> DEFINE kept == MakeRoom(s, n)
           live == present \ InSlot(s, expired)
<1>a. MaxEntries \in Nat
  BY CacheAssumption
<1>1. kept \subseteq present
  BY DEF MakeRoom, InSlot
<1>2. present' = kept \cup S
  BY DEF Insert
<1>3. IsFiniteSet(kept)
  BY <1>1, FS_Subset
<1>4. IsFiniteSet(present')
  BY <1>2, <1>3, FS_Union
<1>5. ASSUME NEW t \in Slots PROVE Cardinality(InSlot(t, present')) <= MaxEntries
  <2>1. CASE t # s
    <3>1. InSlot(t, present') = InSlot(t, kept)
      BY <1>2, <2>1 DEF InSlot
    <3>2. QED BY <3>1, <1>1, <1>a, FewerFit
  <2>2. CASE t = s
    <3>1. InSlot(t, present') = InSlot(s, kept) \cup S
      BY <1>2, <2>2 DEF InSlot
    <3>2. IsFiniteSet(InSlot(s, present)) /\ IsFiniteSet(InSlot(s, live))
      <4>1. InSlot(s, present) \subseteq present /\ InSlot(s, live) \subseteq present
        BY DEF InSlot
      <4>2. QED BY <4>1, FS_Subset
    <3>3. CASE n = 0 /\ S \subseteq present
      <4>1. Cardinality(InSlot(s, present)) \in Nat
        BY <3>2, FS_CardinalityType
      <4>2. kept = present
        BY <4>1, <3>3, <1>a DEF MakeRoom, CapRespected
      <4>3. InSlot(t, present') = InSlot(s, present)
        BY <3>1, <3>3, <4>2 DEF InSlot
      <4>4. QED BY <4>3 DEF CapRespected
    <3>4. CASE Cardinality(S) <= n /\ n <= MaxEntries
      <4>1. CASE kept = present /\ Cardinality(InSlot(s, present)) + n <= MaxEntries
        BY <4>1, <3>1, <3>2, <3>4, <1>a, UnionFits
      <4>2. CASE kept = live /\ Cardinality(InSlot(s, live)) + n <= MaxEntries
        BY <4>2, <3>1, <3>2, <3>4, <1>a, UnionFits
      <4>3. CASE kept = present \ InSlot(s, present)
        <5>1. InSlot(t, present') = S
          BY <4>3, <3>1 DEF InSlot
        <5>2. Cardinality(S) \in Nat
          BY FS_CardinalityType
        <5>3. QED BY <5>1, <5>2, <3>4, <1>a
      <4>4. \/ kept = present /\ ~(Cardinality(InSlot(s, present)) + n > MaxEntries)
            \/ kept = live /\ ~(Cardinality(InSlot(s, live)) + n > MaxEntries)
            \/ kept = present \ InSlot(s, present)
        BY Zenon DEF MakeRoom
      <4>5. /\ Cardinality(InSlot(s, present)) \in Nat
            /\ Cardinality(InSlot(s, live)) \in Nat
        BY <3>2, FS_CardinalityType
      <4>6. QED BY <4>1, <4>2, <4>3, <4>4, <4>5, <1>a
    <3>5. QED BY <3>3, <3>4
  <2>3. QED BY <2>1, <2>2
<1>6. CapRespected'
  BY <1>5 DEF CapRespected
<1>7. QED BY <1>4, <1>6

LEMMA CapStep == TypeOK /\ CapInv /\ [Next]_vars => CapInv'
<1> SUFFICES ASSUME TypeOK, CapInv, [Next]_vars PROVE CapInv'
  OBVIOUS
<1>a. StoreType /\ CallType /\ BulkType
  BY DEF TypeOK
<1>b. ASSUME UNCHANGED <<present, bslot, bset>> PROVE CapInv'
  BY <1>b DEF CapInv, CapRespected, InSlot
<1>c. ASSUME UNCHANGED <<bslot, bset>>, present' \subseteq present PROVE CapInv'
  <2>1. /\ IsFiniteSet(present')
        /\ \A s \in Slots : Cardinality(InSlot(s, present')) <= MaxEntries
    BY <1>c, FewerFit, CacheAssumption DEF CapInv
  <2>2. QED BY <1>c, <2>1 DEF CapInv, CapRespected, InSlot
<1>1. ASSUME NEW c \in Calls, FetchAndStore(c) PROVE CapInv'
  <2>1. CASE SameGeneration(gen[c])
    <3> DEFINE i == item[c]
               n == IF i \in present THEN 0 ELSE 1
    <3>1. i \in Items /\ i[1] \in Slots /\ {i} \subseteq InSlot(i[1], Items)
      BY <1>a DEF CallType, Items, InSlot
    <3>2. IsFiniteSet({i}) /\ Cardinality({i}) = 1
      BY FS_Singleton
    <3>3. Insert(i[1], {i}, [j \in Items |-> val[c]], n)
      BY <1>1, <2>1 DEF FetchAndStore
    <3>4. n \in Nat /\ ((1 <= n /\ n <= MaxEntries) \/ (n = 0 /\ {i} \subseteq present))
      BY CacheAssumption
    <3>5. IsFiniteSet(present') /\ CapRespected'
      <4> HIDE DEF i, n
      <4>1. QED BY <3>1, <3>2, <3>3, <3>4, InsertFits DEF CapInv
    <3>6. UNCHANGED <<bslot, bset>>
      BY <1>1 DEF FetchAndStore, bulkVars
    <3>7. QED BY <3>5, <3>6 DEF CapInv, InSlot
  <2>2. CASE ~SameGeneration(gen[c])
    BY <1>1, <1>b, <2>2 DEF FetchAndStore, storeVars, bulkVars
  <2>3. QED BY <2>1, <2>2
<1>2. ASSUME NEW b \in Bulks, StoreMany(b) PROVE CapInv'
  <2>1. CASE BulkFits(b) /\ SameGeneration(bgen[b])
    <3>1. /\ bslot[b] \in Slots /\ IsFiniteSet(bset[b])
          /\ bset[b] \subseteq InSlot(bslot[b], Items)
      BY <1>a DEF BulkType, CapInv
    <3>2. Cardinality(bset[b]) \in Nat /\ Cardinality(bset[b]) <= MaxEntries
      BY <3>1, <2>1, FS_CardinalityType DEF BulkFits
    <3>3. Insert(bslot[b], bset[b], bval[b], Cardinality(bset[b]))
      BY <1>2, <2>1 DEF StoreMany
    <3>4. IsFiniteSet(present') /\ CapRespected'
      BY <3>1, <3>2, <3>3, InsertFits DEF CapInv
    <3>5. QED BY <1>2, <3>4 DEF StoreMany, CapInv, InSlot
  <2>2. CASE ~(BulkFits(b) /\ SameGeneration(bgen[b]))
    BY <1>2, <1>b, <2>2 DEF StoreMany, storeVars
  <2>3. QED BY <2>1, <2>2
<1>3. ASSUME NEW b \in Bulks, NEW S \in SUBSET Items, BulkAnswer(b, S) PROVE CapInv'
  BY <1>3, <1>a DEF BulkAnswer, CapInv, CapRespected, InSlot, storeVars, BulkType
<1>4. ASSUME NEW b \in Bulks, BulkBegin(b) \/ BulkAbandon(b) PROVE CapInv'
  BY <1>4, <1>b DEF BulkBegin, BulkAbandon, storeVars
<1>5. ASSUME NEW w \in Writers,
             (\E S \in Scopes : Commit(w, S)) \/ WriterStep(w) \/ AbortWrite(w)
      PROVE  CapInv'
  BY <1>5, <1>c DEF Commit, WriterStep, Bump, ClearSlot, FinishWrite, AbortWrite,
     storeVars, bulkVars
<1>6. ASSUME NEW c \in Calls, Start(c) \/ CallStep(c) \/ Cancel(c) PROVE CapInv'
  BY <1>1, <1>6, <1>b DEF CallStep, Start, Lookup, LoadGeneration, JoinOrLead,
     Recheck, FetchAnswer, FetchError, Publish, Unlist, Close, TakeShared, Retry,
     TakeError, Cancel, storeVars, bulkVars
<1>7. ASSUME NEW i \in Items, Expire(i) PROVE CapInv'
  BY <1>7, <1>b DEF Expire, bulkVars
<1>8. CASE UNCHANGED vars
  BY <1>8, <1>b DEF vars, storeVars, bulkVars
<1>9. QED BY <1>2, <1>3, <1>4, <1>5, <1>6, <1>7, <1>8 DEF Next

(* No kind of the cache outgrows its cap, through any mix of single        *)
(* fetches, bulk fetches, expiry and invalidation.                         *)
THEOREM CapAlwaysRespected == Spec => []CapRespected
<1>1. Init => CapInv
  <2>1. ASSUME Init PROVE CapInv
    <3>1. \A s : InSlot(s, {}) = {}
      BY DEF InSlot
    <3>2. present = {} /\ \A b \in Bulks : bset[b] = {}
      BY <2>1 DEF Init
    <3>3. CapRespected
      BY <3>1, <3>2, FS_EmptySet, CacheAssumption DEF CapRespected
    <3>4. QED BY <3>2, <3>3, FS_EmptySet DEF CapInv
  <2>2. QED BY <2>1
<1>2. CapInv => CapRespected
  BY DEF CapInv
<1>3. QED BY TypeCorrect, CapStep, <1>1, <1>2, PTL DEF Spec
=============================================================================
