----------------------------- MODULE KeyedCache -----------------------------
(***************************************************************************)
(* The per-session Schema Cache and Query Result Cache of the backend      *)
(* (src/src-tauri/src/cache/mod.rs): keyed entries with a TTL and a cap    *)
(* per kind, one in-flight fetch per key that concurrent misses share      *)
(* ("single-flight"), and an invalidation counter ("generation") that is   *)
(* bumped before any kind is cleared.                                      *)
(*                                                                         *)
(* Actors: calls of get_or_fetch, writers (a statement that takes effect   *)
(* in the database and then invalidates what it changed), and bulk         *)
(* fetches that fill many keys of one kind at once.  A cached value is     *)
(* abstracted to the version of the database item it was read from.        *)
(*                                                                         *)
(* A step of an actor is what runs between two points at which the others  *)
(* can run: an .await, a lock, or the load of a shared atomic.             *)
(***************************************************************************)
EXTENDS Naturals, FiniteSets

CONSTANTS
  Calls,      \* calls of get_or_fetch; a call leads at most one flight
  Writers,    \* writes, each followed by its invalidation
  Bulks,      \* bulk fetches (fetch_columns_bulk, fetch_indexes_bulk)
  Slots,      \* the KeyedCache fields of the cache ("kinds")
  Keys,       \* keys of one kind
  Scopes,     \* what a write may change, and its invalidation then removes
  MaxEntries, \* cap on the entries of one kind
  NoCall

Items == Slots \X Keys

ASSUME CacheAssumption ==
  /\ MaxEntries \in Nat \ {0}
  /\ Scopes \subseteq SUBSET Items
  /\ NoCall \notin Calls

VARIABLES
  db,         \* db[i]: version of item i in the database
  commits,    \* writes that have taken effect
  acked,      \* acked[i]: newest version of i whose invalidation has finished
  generation, \* SchemaCache.generation / QueryResultCache.generation
  present,    \* items that have an entry
  expired,    \* entries older than the TTL
  value,      \* value[i]: the entry of i (meaningful for i \in present)
  flights,    \* flights[i]: the call whose flight the in-flight table holds
  pc, item, gen, rx, val, outcome, result, floor,   \* one per call
  wpc, scope, todo, wver, wgen,                     \* one per writer
  bpc, bslot, bgen, bset, bval                      \* one per bulk fetch

dbVars    == <<db, commits, acked>>
storeVars == <<present, expired, value>>
callVars  == <<pc, item, gen, rx, val, outcome, result, floor>>
writeVars == <<wpc, scope, todo, wver, wgen>>
bulkVars  == <<bpc, bslot, bgen, bset, bval>>
vars == <<dbVars, generation, storeVars, flights, callVars, writeVars, bulkVars>>

InSlot(s, S) == {i \in S : i[1] = s}

-----------------------------------------------------------------------------
(* The state of a call, in the order get_or_fetch goes through it.         *)
CallPCs == {"idle", "lookup", "loadGen", "join", "wait", "recheck", "fetch",
            "store", "publish", "unlist", "close", "done"}

\* From registering the flight until FlightGuard's sender is dropped.
LeadPCs == {"recheck", "fetch", "store", "publish", "unlist", "close"}

Init ==
  /\ db = [i \in Items |-> 0] /\ commits = 0 /\ acked = [i \in Items |-> 0]
  /\ generation = 0
  /\ present = {} /\ expired = {} /\ value = [i \in Items |-> 0]
  /\ flights = [i \in Items |-> NoCall]
  /\ pc = [c \in Calls |-> "idle"]
  /\ item \in [Calls -> Items]
  /\ gen = [c \in Calls |-> 0]
  /\ rx = [c \in Calls |-> NoCall]
  /\ val = [c \in Calls |-> 0]
  /\ outcome = [c \in Calls |-> "none"]
  /\ result = [c \in Calls |-> "none"]
  /\ floor = [c \in Calls |-> 0]
  /\ wpc = [w \in Writers |-> "idle"]
  /\ scope = [w \in Writers |-> {}]
  /\ todo = [w \in Writers |-> {}]
  /\ wver = [w \in Writers |-> 0]
  /\ wgen = [w \in Writers |-> 0]
  /\ bpc = [b \in Bulks |-> "idle"]
  /\ bslot \in [Bulks -> Slots]
  /\ bgen = [b \in Bulks |-> 0]
  /\ bset = [b \in Bulks |-> {}]
  /\ bval = [b \in Bulks |-> [i \in Items |-> 0]]

-----------------------------------------------------------------------------
(* Calls of get_or_fetch.                                                  *)

Goto(c, l) == pc' = [pc EXCEPT ![c] = l]
Set(f, c, v) == [f EXCEPT ![c] = v]

\* lookup returns only entries within the TTL.
Hit(i) == i \in present \ expired

\* Called with its key; the call must see every write acknowledged by now.
Start(c) ==
  /\ pc[c] = "idle"
  /\ Goto(c, "lookup")
  /\ floor' = Set(floor, c, acked[item[c]])
  /\ UNCHANGED <<dbVars, generation, storeVars, flights, item, gen, rx, val,
                 outcome, result, writeVars, bulkVars>>

Lookup(c) ==
  /\ pc[c] = "lookup"
  /\ IF Hit(item[c])
       THEN /\ Goto(c, "done")
            /\ val' = Set(val, c, value[item[c]])
            /\ result' = Set(result, c, "hit")
       ELSE Goto(c, "loadGen") /\ UNCHANGED <<val, result>>
  /\ UNCHANGED <<dbVars, generation, storeVars, flights, item, gen, rx,
                 outcome, floor, writeVars, bulkVars>>

LoadGeneration(c) ==
  /\ pc[c] = "loadGen"
  /\ Goto(c, "join")
  /\ gen' = Set(gen, c, generation)
  /\ UNCHANGED <<dbVars, generation, storeVars, flights, item, rx, val,
                 outcome, result, floor, writeVars, bulkVars>>

\* A flight may be shared only by calls of its own generation.
CanJoin(c) ==
  /\ flights[item[c]] # NoCall
  /\ gen[flights[item[c]]] = gen[c]

\* join_or_lead, under the in-flight table's mutex.  A flight of another
\* generation is replaced, whichever of the two is the newer one.
JoinOrLead(c) ==
  /\ pc[c] = "join"
  /\ IF CanJoin(c)
       THEN /\ Goto(c, "wait")
            /\ rx' = Set(rx, c, flights[item[c]])
            /\ UNCHANGED flights
       ELSE /\ Goto(c, "recheck")
            /\ flights' = Set(flights, item[c], c)
            /\ UNCHANGED rx
  /\ UNCHANGED <<dbVars, generation, storeVars, item, gen, val, outcome,
                 result, floor, writeVars, bulkVars>>

\* A new leader looks again: the previous one may have stored and left
\* between this call's lookup and its registration.
\* Variant for mutation: it does not look.
NeverFound(c) == FALSE
Found(c) == Hit(item[c])

Recheck(c) ==
  /\ pc[c] = "recheck"
  /\ IF Found(c)
       THEN /\ Goto(c, "publish")
            /\ val' = Set(val, c, value[item[c]])
            /\ result' = Set(result, c, "hit")
       ELSE Goto(c, "fetch") /\ UNCHANGED <<val, result>>
  /\ UNCHANGED <<dbVars, generation, storeVars, flights, item, gen, rx,
                 outcome, floor, writeVars, bulkVars>>

\* The database answers.  The Query Result Cache does not store a result
\* over its row or byte limit; it is still published and returned.
FetchAnswer(c, cacheable) ==
  /\ pc[c] = "fetch"
  /\ Goto(c, IF cacheable THEN "store" ELSE "publish")
  /\ val' = Set(val, c, db[item[c]])
  /\ result' = Set(result, c, "fetch")
  /\ UNCHANGED <<dbVars, generation, storeVars, flights, item, gen, rx,
                 outcome, floor, writeVars, bulkVars>>

FetchError(c) ==
  /\ pc[c] = "fetch"
  /\ Goto(c, "publish")
  /\ result' = Set(result, c, "err")
  /\ UNCHANGED <<dbVars, generation, storeVars, flights, item, gen, rx, val,
                 outcome, floor, writeVars, bulkVars>>

\* What is left of the entries once there is room for n entries on top of
\* the S of them that count: purge the expired, and clear if that is short.
RoomWithoutClear(s, n) == present \ InSlot(s, expired)
MakeRoom(s, n) ==
  LET live == present \ InSlot(s, expired)
      full(S) == Cardinality(InSlot(s, S)) + n > MaxEntries
  IN IF ~full(present) THEN present
     ELSE IF ~full(live) THEN live ELSE present \ InSlot(s, present)

\* The generation is loaded again under the write lock of the kind.
NoGenerationCheck(g) == TRUE
SameGeneration(g) == generation = g

\* Write the entries of S (all of kind s) with the versions of v; a new
\* entry starts its TTL afresh.
Insert(s, S, v, n) ==
  LET kept == MakeRoom(s, n)
  IN /\ present' = kept \cup S
     /\ expired' = (expired \cap kept) \ S
     /\ value' = [i \in Items |-> IF i \in S THEN v[i] ELSE value[i]]

FetchAndStore(c) ==
  /\ pc[c] = "store"
  /\ Goto(c, "publish")
  /\ LET i == item[c]
     IN IF SameGeneration(gen[c])
          THEN Insert(i[1], {i}, [j \in Items |-> val[c]],
                      IF i \in present THEN 0 ELSE 1)
          ELSE UNCHANGED storeVars
  /\ UNCHANGED <<dbVars, generation, flights, item, gen, rx, val, outcome,
                 result, floor, writeVars, bulkVars>>

\* send_replace: the waiters can see how the flight ended.
Publish(c) ==
  /\ pc[c] = "publish"
  /\ Goto(c, "unlist")
  /\ outcome' = Set(outcome, c, IF result[c] = "err" THEN "failed" ELSE "value")
  /\ UNCHANGED <<dbVars, generation, storeVars, flights, item, gen, rx, val,
                 result, floor, writeVars, bulkVars>>

\* FlightGuard::drop removes the table's entry only if it is its own ...
Unlisted(c) ==
  IF flights[item[c]] = c THEN Set(flights, item[c], NoCall) ELSE flights

Unlist(c) ==
  /\ pc[c] = "unlist"
  /\ Goto(c, "close")
  /\ flights' = Unlisted(c)
  /\ UNCHANGED <<dbVars, generation, storeVars, item, gen, rx, val, outcome,
                 result, floor, writeVars, bulkVars>>

\* ... and only then is the sender dropped; the call returns.
Close(c) ==
  /\ pc[c] = "close"
  /\ Goto(c, "done")
  /\ UNCHANGED <<dbVars, generation, storeVars, flights, item, gen, rx, val,
                 outcome, result, floor, writeVars, bulkVars>>

\* A waiter takes the leader's value if nothing was invalidated meanwhile.
TakeShared(c) ==
  /\ pc[c] = "wait" /\ outcome[rx[c]] = "value" /\ SameGeneration(gen[c])
  /\ Goto(c, "done")
  /\ val' = Set(val, c, val[rx[c]])
  /\ result' = Set(result, c, "shared")
  /\ UNCHANGED <<dbVars, generation, storeVars, flights, item, gen, rx,
                 outcome, floor, writeVars, bulkVars>>

\* It starts over if an invalidation raced with the flight, or if the
\* sender closed without an outcome (the leader was cancelled or panicked).
MustRetryOnlyOnRace(c) == outcome[rx[c]] = "value" /\ ~SameGeneration(gen[c])
MustRetry(c) ==
  \/ outcome[rx[c]] = "value" /\ ~SameGeneration(gen[c])
  \/ outcome[rx[c]] = "none" /\ pc[rx[c]] = "done"

Retry(c) ==
  /\ pc[c] = "wait" /\ MustRetry(c)
  /\ Goto(c, "lookup")
  /\ rx' = Set(rx, c, NoCall)
  /\ UNCHANGED <<dbVars, generation, storeVars, flights, item, gen, val,
                 outcome, result, floor, writeVars, bulkVars>>

\* A waiter returns a replica of its leader's error; it does not fetch.
TakeError(c) ==
  /\ pc[c] = "wait" /\ outcome[rx[c]] = "failed"
  /\ Goto(c, "done")
  /\ result' = Set(result, c, "errShared")
  /\ UNCHANGED <<dbVars, generation, storeVars, flights, item, gen, rx, val,
                 outcome, floor, writeVars, bulkVars>>

\* The call's future is dropped at an .await, or panics.  A leader leaves
\* through FlightGuard, without having published anything.
AfterCancel(c) == IF pc[c] \in LeadPCs THEN "unlist" ELSE "done"

Cancel(c) ==
  /\ pc[c] \in {"lookup", "wait", "recheck", "fetch", "store"}
  /\ Goto(c, AfterCancel(c))
  /\ result' = Set(result, c, "cancelled")
  /\ UNCHANGED <<dbVars, generation, storeVars, flights, item, gen, rx, val,
                 outcome, floor, writeVars, bulkVars>>

CallStep(c) ==
  \/ Lookup(c) \/ LoadGeneration(c) \/ JoinOrLead(c) \/ Recheck(c)
  \/ \E cacheable \in BOOLEAN : FetchAnswer(c, cacheable)
  \/ FetchError(c) \/ FetchAndStore(c)
  \/ Publish(c) \/ Unlist(c) \/ Close(c)
  \/ TakeShared(c) \/ Retry(c) \/ TakeError(c)

-----------------------------------------------------------------------------
(* Writers: a statement takes effect, then invalidate_all (S = Items) or   *)
(* invalidate_table (S = the entries of one table) removes what it made    *)
(* stale.  The two functions visit the kinds in different orders, so the   *)
(* order is left open.                                                     *)

Commit(w, S) ==
  /\ wpc[w] = "idle"
  /\ wpc' = [wpc EXCEPT ![w] = "committed"]
  /\ commits' = commits + 1
  /\ db' = [i \in Items |-> IF i \in S THEN commits + 1 ELSE db[i]]
  /\ scope' = [scope EXCEPT ![w] = S]
  /\ wver' = [wver EXCEPT ![w] = commits + 1]
  /\ UNCHANGED <<acked, generation, storeVars, flights, callVars, todo, wgen,
                 bulkVars>>

\* The generation advances before any kind is cleared ...
BumpForgotten == generation
NextGeneration == generation + 1

Bump(w) ==
  /\ wpc[w] = "committed"
  /\ wpc' = [wpc EXCEPT ![w] = "clearing"]
  /\ generation' = NextGeneration
  /\ wgen' = [wgen EXCEPT ![w] = NextGeneration]
  /\ todo' = [todo EXCEPT ![w] = Slots]
  /\ UNCHANGED <<dbVars, storeVars, flights, callVars, scope, wver, bulkVars>>

\* ... and each kind is cleared (clear, remove_where) under its write lock.
RemoveNothing(w, s) == {}
Removed(w, s) == InSlot(s, scope[w])

ClearSlot(w, s) ==
  /\ wpc[w] = "clearing" /\ s \in todo[w]
  /\ todo' = [todo EXCEPT ![w] = @ \ {s}]
  /\ present' = present \ Removed(w, s)
  /\ expired' = expired \ Removed(w, s)
  /\ UNCHANGED <<dbVars, generation, value, flights, callVars, wpc, scope,
                 wver, wgen, bulkVars>>

\* The write returns to its caller: calls from now on must see it.
FinishWrite(w) ==
  /\ wpc[w] = "clearing" /\ todo[w] = {}
  /\ wpc' = [wpc EXCEPT ![w] = "done"]
  /\ acked' = [i \in Items |-> IF i \in scope[w] /\ acked[i] < wver[w]
                                 THEN wver[w] ELSE acked[i]]
  /\ UNCHANGED <<db, commits, generation, storeVars, flights, callVars, scope,
                 todo, wver, wgen, bulkVars>>

\* The task that runs the write is aborted before its invalidation is over.
AbortWrite(w) ==
  /\ wpc[w] \in {"committed", "clearing"}
  /\ wpc' = [wpc EXCEPT ![w] = "aborted"]
  /\ UNCHANGED <<dbVars, generation, storeVars, flights, callVars, scope,
                 todo, wver, wgen, bulkVars>>

WriterStep(w) == Bump(w) \/ (\E s \in Slots : ClearSlot(w, s)) \/ FinishWrite(w)

-----------------------------------------------------------------------------
(* Bulk fetches: the generation is read before the query is sent.          *)

BulkBegin(b) ==
  /\ bpc[b] = "idle"
  /\ bpc' = [bpc EXCEPT ![b] = "fetch"]
  /\ bgen' = [bgen EXCEPT ![b] = generation]
  /\ UNCHANGED <<dbVars, generation, storeVars, flights, callVars, writeVars,
                 bslot, bset, bval>>

\* The answer covers the tables that exist then, finitely many.
BulkAnswer(b, S) ==
  /\ bpc[b] = "fetch" /\ S \subseteq InSlot(bslot[b], Items) /\ IsFiniteSet(S)
  /\ bpc' = [bpc EXCEPT ![b] = "store"]
  /\ bset' = [bset EXCEPT ![b] = S]
  /\ bval' = [bval EXCEPT ![b] = db]
  /\ UNCHANGED <<dbVars, generation, storeVars, flights, callVars, writeVars,
                 bslot, bgen>>

\* store_many: all of the items or, if they are over the cap or the
\* generation moved, none.
BulkFits(b) == Cardinality(bset[b]) <= MaxEntries

StoreMany(b) ==
  /\ bpc[b] = "store"
  /\ bpc' = [bpc EXCEPT ![b] = "done"]
  /\ IF BulkFits(b) /\ SameGeneration(bgen[b])
       THEN Insert(bslot[b], bset[b], bval[b], Cardinality(bset[b]))
       ELSE UNCHANGED storeVars
  /\ UNCHANGED <<dbVars, generation, flights, callVars, writeVars, bslot, bgen,
                 bset, bval>>

\* The bulk query fails, or its command is dropped.
BulkAbandon(b) ==
  /\ bpc[b] \in {"fetch", "store"}
  /\ bpc' = [bpc EXCEPT ![b] = "done"]
  /\ UNCHANGED <<dbVars, generation, storeVars, flights, callVars, writeVars,
                 bslot, bgen, bset, bval>>

-----------------------------------------------------------------------------
Expire(i) ==
  /\ i \in present \ expired
  /\ expired' = expired \cup {i}
  /\ UNCHANGED <<dbVars, generation, present, value, flights, callVars,
                 writeVars, bulkVars>>

Next ==
  \/ \E c \in Calls : Start(c) \/ CallStep(c) \/ Cancel(c)
  \/ \E w \in Writers : (\E S \in Scopes : Commit(w, S))
                        \/ WriterStep(w) \/ AbortWrite(w)
  \/ \E b \in Bulks : BulkBegin(b) \/ (\E S \in SUBSET Items : BulkAnswer(b, S))
                      \/ StoreMany(b) \/ BulkAbandon(b)
  \/ \E i \in Items : Expire(i)

Spec == Init /\ [][Next]_vars

\* The runtime keeps polling a call that can go on, and a driver answers or
\* fails.  Nothing is assumed of cancellations, expiry, writers and bulks.
FairSpec == Spec /\ \A c \in Calls : WF_vars(CallStep(c))

-----------------------------------------------------------------------------
DbType ==
  /\ db \in [Items -> Nat] /\ commits \in Nat /\ acked \in [Items -> Nat]
  /\ generation \in Nat

StoreType ==
  /\ present \subseteq Items /\ expired \subseteq present
  /\ value \in [Items -> Nat]

CallType ==
  /\ flights \in [Items -> Calls \cup {NoCall}]
  /\ pc \in [Calls -> CallPCs] /\ item \in [Calls -> Items]
  /\ gen \in [Calls -> Nat] /\ rx \in [Calls -> Calls \cup {NoCall}]
  /\ val \in [Calls -> Nat] /\ floor \in [Calls -> Nat]
  /\ outcome \in [Calls -> {"none", "value", "failed"}]
  /\ result \in [Calls -> {"none", "hit", "fetch", "err", "shared",
                           "errShared", "cancelled"}]
  /\ \A c \in Calls : pc[c] = "wait" => rx[c] \in Calls

WriterType ==
  /\ wpc \in [Writers -> {"idle", "committed", "clearing", "done", "aborted"}]
  /\ scope \in [Writers -> SUBSET Items] /\ todo \in [Writers -> SUBSET Slots]
  /\ wver \in [Writers -> Nat] /\ wgen \in [Writers -> Nat]

BulkType ==
  /\ bpc \in [Bulks -> {"idle", "fetch", "store", "done"}]
  /\ bslot \in [Bulks -> Slots] /\ bgen \in [Bulks -> Nat]
  /\ bset \in [Bulks -> SUBSET Items] /\ bval \in [Bulks -> [Items -> Nat]]

TypeOK == DbType /\ StoreType /\ CallType /\ WriterType /\ BulkType

(* An entry is never older than a write whose invalidation has finished:   *)
(* no fetch that raced with the invalidation writes its result back        *)
(* (fetch_and_store and store_many against invalidate_all/_table).         *)
CacheFresh == \A i \in present : value[i] >= acked[i]

(* A call answered from the cache or by its own fetch returns nothing      *)
(* older than the writes that had returned before the call began.          *)
ReadsFresh ==
  \A c \in Calls : pc[c] = "done" /\ result[c] \in {"hit", "fetch"}
                     => val[c] >= floor[c]

(* A waiter that takes the value its leader fetched takes one that no      *)
(* write finished by that moment has made stale (get_or_fetch's Wait arm). *)
SharedFetchFresh ==
  [][\A c \in Calls :
       result'[c] = "shared" /\ result[c] # "shared" /\ result[rx[c]] = "fetch"
         => val'[c] >= acked[item[c]]]_vars

(* The in-flight table never holds a flight whose sender is gone: a caller *)
(* that joins one would start over again and again (FlightGuard's order of *)
(* drops, and the guard running on a cancelled leader too).                *)
FlightsLive ==
  \A i \in Items : flights[i] # NoCall =>
    /\ pc[flights[i]] \in LeadPCs \ {"close"} /\ item[flights[i]] = i

(* No kind outgrows its cap, through any mix of single and bulk stores.    *)
CapRespected == \A s \in Slots : Cardinality(InSlot(s, present)) <= MaxEntries

(* As long as nothing is invalidated, no key is fetched twice in vain: two *)
(* calls never fetch it at the same time, and, as long as no bulk fetch is *)
(* over, none fetches it while an entry another call left is within its    *)
(* TTL, even when that call stored and left between the lookup and the     *)
(* registration; cancelled leaders and expiring entries included.          *)
SingleFlight ==
  generation = 0 =>
    \A c \in Calls : pc[c] = "fetch" =>
      /\ \A d \in Calls \ {c} : pc[d] = "fetch" => item[d] # item[c]
      /\ (\A b \in Bulks : bpc[b] # "done") => ~Hit(item[c])

(* Every call returns: no waiter is left behind by a leader that fails, is *)
(* cancelled, or raced with an invalidation.                               *)
EveryCallReturns == \A c \in Calls : pc[c] = "lookup" ~> pc[c] = "done"

=============================================================================
