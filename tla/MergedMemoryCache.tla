--------------------------- MODULE MergedMemoryCache ---------------------------
(***************************************************************************)
(* The merged view's cache of a process without Redis,                     *)
(* CachedMergedDanmaku in internal/store/redis_cache.go: a map of entries  *)
(* and a revision under one mutex.  A read takes the lock to look up and   *)
(* again to store, and loads in between; a writer commits, then bumps the  *)
(* revision and drops the map under the lock.                              *)
(*                                                                         *)
(* Content is the number of changes committed.  The pools are read without *)
(* a cache, so one content stands for all of them.                         *)
(***************************************************************************)
EXTENDS Integers, FiniteSets

CONSTANTS
    Identities,   \* what a read asks for: a video with its bindings
    Readers,
    Writers,
    Capacity,     \* entries in the map at most: 128
    MaxChanges    \* bound on the changes committed

ASSUME MemoryAssumption ==
    /\ Identities # {}
    /\ Capacity \in Nat \ {0}
    /\ MaxChanges \in Nat

VARIABLES
    stored,     \* PostgreSQL: changes committed
    revision,   \* mergedCache.revision
    entries,    \* mergedCache.entries: a function on the cached identities
    step,       \* where each read is
    wanted,     \* the identity it reads
    seen,       \* the revision it saw at its lookup
    got,        \* what it returns
    writer,     \* "idle" or "committed"
    change,     \* the change a write committed
    effective,  \* history: newest change whose writer has invalidated
    floor       \* history: effective when a read began

readVars == <<step, wanted, seen, got, floor>>
vars == <<stored, revision, entries, readVars, writer, change, effective>>

TypeOK ==
    /\ stored \in Nat
    /\ revision \in Nat
    /\ DOMAIN entries \subseteq Identities
    /\ \A i \in DOMAIN entries : entries[i] \in Nat
    /\ step \in [Readers -> {"idle", "lookup", "load", "store", "answered"}]
    /\ wanted \in [Readers -> Identities]
    /\ seen \in [Readers -> Nat]
    /\ got \in [Readers -> Nat]
    /\ writer \in [Writers -> {"idle", "committed"}]
    /\ change \in [Writers -> Nat]
    /\ effective \in Nat
    /\ floor \in [Readers -> Nat]

NoEntries == [i \in {} |-> 0]
AnyIdentity == CHOOSE i \in Identities : TRUE

Init ==
    /\ stored = 0
    /\ revision = 0
    /\ entries = NoEntries
    /\ step = [r \in Readers |-> "idle"]
    /\ wanted = [r \in Readers |-> AnyIdentity]
    /\ seen = [r \in Readers |-> 0]
    /\ got = [r \in Readers |-> 0]
    /\ writer = [w \in Writers |-> "idle"]
    /\ change = [w \in Writers |-> 0]
    /\ effective = 0
    /\ floor = [r \in Readers |-> 0]

Begin(r) ==
    /\ step[r] = "idle"
    /\ step' = [step EXCEPT ![r] = "lookup"]
    /\ \E i \in Identities : wanted' = [wanted EXCEPT ![r] = i]
    /\ floor' = [floor EXCEPT ![r] = effective]
    /\ UNCHANGED <<stored, revision, entries, seen, got, writer, change, effective>>

\* The first critical section; an entry that is there may have expired.
Lookup(r) ==
    /\ step[r] = "lookup"
    /\ seen' = [seen EXCEPT ![r] = revision]
    /\ \/ /\ wanted[r] \in DOMAIN entries
          /\ got' = [got EXCEPT ![r] = entries[wanted[r]]]
          /\ step' = [step EXCEPT ![r] = "answered"]
       \/ /\ step' = [step EXCEPT ![r] = "load"]
          /\ UNCHANGED got
    /\ UNCHANGED <<stored, revision, entries, wanted, floor, writer, change, effective>>

Load(r) ==
    /\ step[r] = "load"
    /\ got' = [got EXCEPT ![r] = stored]
    /\ step' = [step EXCEPT ![r] = "store"]
    /\ UNCHANGED <<stored, revision, entries, wanted, seen, floor, writer, change, effective>>

\* The map after an entry was added; a full map is dropped first.
With(i, v) ==
    LET kept == IF Cardinality(DOMAIN entries) >= Capacity THEN {} ELSE DOMAIN entries
    IN  [j \in kept \cup {i} |-> IF j = i THEN v ELSE entries[j]]

Mut_StoreAnyway(r) ==
    /\ step[r] = "store"
    /\ step' = [step EXCEPT ![r] = "answered"]
    /\ entries' = With(wanted[r], got[r])
    /\ UNCHANGED <<stored, revision, wanted, seen, got, floor, writer, change, effective>>

\* The second critical section: nothing is stored when the revision has moved.
Store(r) ==
    /\ step[r] = "store"
    /\ step' = [step EXCEPT ![r] = "answered"]
    /\ entries' = IF revision = seen[r] THEN With(wanted[r], got[r]) ELSE entries
    /\ UNCHANGED <<stored, revision, wanted, seen, got, floor, writer, change, effective>>

\* The answer is sent, or the load failed.
End(r) ==
    /\ step[r] \in {"load", "answered"}
    /\ step' = [step EXCEPT ![r] = "idle"]
    /\ wanted' = [wanted EXCEPT ![r] = AnyIdentity]
    /\ seen' = [seen EXCEPT ![r] = 0]
    /\ got' = [got EXCEPT ![r] = 0]
    /\ floor' = [floor EXCEPT ![r] = 0]
    /\ UNCHANGED <<stored, revision, entries, writer, change, effective>>

Commit(w) ==
    /\ writer[w] = "idle"
    /\ stored < MaxChanges
    /\ stored' = stored + 1
    /\ change' = [change EXCEPT ![w] = stored + 1]
    /\ writer' = [writer EXCEPT ![w] = "committed"]
    /\ UNCHANGED <<revision, entries, readVars, effective>>

Mut_KeepEntries(w) ==
    /\ writer[w] = "committed"
    /\ revision' = revision + 1
    /\ effective' = IF effective < change[w] THEN change[w] ELSE effective
    /\ writer' = [writer EXCEPT ![w] = "idle"]
    /\ change' = [change EXCEPT ![w] = 0]
    /\ UNCHANGED <<stored, entries, readVars>>

\* invalidateDanmakuCache without Redis: one critical section.
Invalidate(w) ==
    /\ writer[w] = "committed"
    /\ revision' = revision + 1
    /\ entries' = NoEntries
    /\ effective' = IF effective < change[w] THEN change[w] ELSE effective
    /\ writer' = [writer EXCEPT ![w] = "idle"]
    /\ change' = [change EXCEPT ![w] = 0]
    /\ UNCHANGED <<stored, readVars>>

Next ==
    \/ \E r \in Readers : Begin(r) \/ Lookup(r) \/ Load(r) \/ Store(r) \/ End(r)
    \/ \E w \in Writers : Commit(w) \/ Invalidate(w)

Spec == Init /\ [][Next]_vars

--------------------------------------------------------------------------------
(* Properties *)

\* The map never holds more than its capacity (redis_cache.go:52).
EntriesBounded == Cardinality(DOMAIN entries) <= Capacity

\* An answer includes every change that was invalidated before the read began.
FreshRead == \A r \in Readers : step[r] = "answered" => floor[r] <= got[r]

\* An entry in the map includes every change that was invalidated so far: a hit
\* is as fresh at the moment of the lookup as it was when it was stored, and a
\* load that an invalidation overtook leaves nothing behind.
EntriesCurrent == \A i \in DOMAIN entries : effective <= entries[i]

\* The cache keeps the contract of FreshReads.
Phase(r) == IF step[r] \in {"idle", "answered"} THEN step[r] ELSE "reading"

Contract == INSTANCE FreshReads
    WITH Namespaces <- {1},
         stored <- [n \in {1} |-> stored],
         completed <- [n \in {1} |-> effective],
         phase <- [r \in Readers |-> Phase(r)],
         scope <- [r \in Readers |-> IF step[r] = "idle" THEN {} ELSE {1}],
         floor <- [r \in Readers |-> [n \in {1} |-> floor[r]]],
         got <- [r \in Readers |-> [n \in {1} |-> IF step[r] = "answered" THEN got[r] ELSE 0]]

ImplementsContract == Contract!Spec

================================================================================
