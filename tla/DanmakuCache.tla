----------------------------- MODULE DanmakuCache ------------------------------
(***************************************************************************)
(* The Redis cache of danmaku, internal/store/redis_cache.go, under its    *)
(* readers and writers.                                                    *)
(*                                                                         *)
(* A namespace (native, bilibili, iqiyi, ...) has a revision in Redis and  *)
(* entries keyed by revision; the merged view of a video is cached in the  *)
(* same way in a namespace of its own and is loaded through the entries of *)
(* the others.  A writer commits to PostgreSQL, then increments the        *)
(* revision of its namespace, then that of the merged namespace.  Nothing  *)
(* is locked: every Redis command and every query is a step of its own.    *)
(*                                                                         *)
(* The content of a namespace is the number of changes committed to it, so *)
(* an older content is a smaller number.  One identity per namespace is    *)
(* enough, for entries of different identities never meet.                 *)
(***************************************************************************)
EXTENDS Integers, FiniteSets

CONSTANTS
    Last,         \* the namespaces are 1 .. Last; 1 is native
    Readers,      \* concurrent reads
    Writers,      \* concurrent writes
    MaxChanges,   \* bound on the changes committed per namespace
    MaxRevision,  \* bound on every revision
    ReadFaults,   \* Redis may fail a GET of a revision or a SET
    IncrFaults,   \* Redis may fail an INCR
    LookupFaults, \* a keyword's pool lookup may fail after its INSERT
    Deaths        \* a process may end between its commit and its increments

ASSUME CacheAssumption ==
    /\ Last \in Nat \ {0}
    /\ MaxChanges \in Nat
    /\ MaxRevision \in Nat
    /\ {ReadFaults, IncrFaults, LookupFaults, Deaths} \subseteq BOOLEAN

Namespaces == 1 .. Last
Merged == 0
Revisions == 0 .. MaxRevision
NoRevision == -1      \* the GET of a revision failed: load, store nothing
Contents == [Namespaces -> Nat]
Empty == [n \in Namespaces |-> 0]

VARIABLES
    stored,      \* PostgreSQL: changes committed, per namespace
    revision,    \* Redis: revision:<namespace>, Merged included
    poolEntries,   \* Redis: data:<namespace>:<revision>
    mergedEntries, \* Redis: data:merged:<revision>
    step,        \* where each read is
    goal,        \* the namespace a read was asked for
    at,          \* the namespace it is reading now
    mergedRev,   \* the merged revision it holds
    poolRev,     \* the revision of namespace at it holds
    got,         \* what it has read so far
    writer,      \* where each write is
    target,      \* the namespace of a write
    change,      \* the change it committed
    returned,    \* history: newest change whose call has returned
    effective,   \* history: newest change whose call did both increments
    floor,       \* history: effective when a read began
    promised,    \* history: returned when a read began
    poolBase,    \* history: stored when a revision was made
    mergedBase   \* history: the same for merged revisions

redisVars == <<revision, poolEntries, mergedEntries>>
readVars == <<step, goal, at, mergedRev, poolRev, got, floor, promised>>
writeVars == <<writer, target, change, returned, effective>>
baseVars == <<poolBase, mergedBase>>
vars == <<stored, redisVars, readVars, writeVars, baseVars>>

ReadSteps == {"idle", "mergedRevision", "mergedEntry", "poolRevision", "poolEntry",
              "load", "poolStore", "mergedStore", "answered"}

TypeOK ==
    /\ stored \in Contents
    /\ revision \in [{Merged} \cup Namespaces -> Revisions]
    /\ poolEntries \subseteq [ns : Namespaces, rev : Revisions, val : Nat]
    /\ mergedEntries \subseteq [rev : Revisions, val : Contents]
    /\ step \in [Readers -> ReadSteps]
    /\ goal \in [Readers -> {Merged} \cup Namespaces]
    /\ at \in [Readers -> Namespaces]
    /\ mergedRev \in [Readers -> Revisions \cup {NoRevision}]
    /\ poolRev \in [Readers -> Revisions \cup {NoRevision}]
    /\ got \in [Readers -> Contents]
    /\ writer \in [Writers -> {"idle", "pool", "merged", "mergedOnly"}]
    /\ target \in [Writers -> Namespaces]
    /\ change \in [Writers -> Nat]
    /\ returned \in Contents
    /\ effective \in Contents
    /\ floor \in [Readers -> Contents]
    /\ promised \in [Readers -> Contents]
    /\ poolBase \in [Namespaces -> [Revisions -> Nat]]
    /\ mergedBase \in [Revisions -> Contents]

Init ==
    /\ stored = Empty
    /\ revision = [n \in {Merged} \cup Namespaces |-> 0]
    /\ poolEntries = {}
    /\ mergedEntries = {}
    /\ step = [r \in Readers |-> "idle"]
    /\ goal = [r \in Readers |-> Merged]
    /\ at = [r \in Readers |-> 1]
    /\ mergedRev = [r \in Readers |-> NoRevision]
    /\ poolRev = [r \in Readers |-> NoRevision]
    /\ got = [r \in Readers |-> Empty]
    /\ writer = [w \in Writers |-> "idle"]
    /\ target = [w \in Writers |-> 1]
    /\ change = [w \in Writers |-> 0]
    /\ returned = Empty
    /\ effective = Empty
    /\ floor = [r \in Readers |-> Empty]
    /\ promised = [r \in Readers |-> Empty]
    /\ poolBase = [n \in Namespaces |-> [v \in Revisions |-> 0]]
    /\ mergedBase = [v \in Revisions |-> Empty]

--------------------------------------------------------------------------------
(* Reads *)

\* A read of the merged view, or of one pool.
Begin(r) ==
    /\ step[r] = "idle"
    /\ \E g \in {Merged} \cup Namespaces :
         /\ goal' = [goal EXCEPT ![r] = g]
         /\ at' = [at EXCEPT ![r] = IF g = Merged THEN 1 ELSE g]
         /\ step' = [step EXCEPT ![r] = IF g = Merged THEN "mergedRevision" ELSE "poolRevision"]
    /\ floor' = [floor EXCEPT ![r] = effective]
    /\ promised' = [promised EXCEPT ![r] = returned]
    /\ UNCHANGED <<stored, redisVars, mergedRev, poolRev, got, writeVars, baseVars>>

\* GET revision:merged; absent is "0", an error loads without the cache.
GetMergedRevision(r) ==
    /\ step[r] = "mergedRevision"
    /\ \/ /\ mergedRev' = [mergedRev EXCEPT ![r] = revision[Merged]]
          /\ step' = [step EXCEPT ![r] = "mergedEntry"]
       \/ /\ ReadFaults
          /\ step' = [step EXCEPT ![r] = "poolRevision"]
          /\ UNCHANGED mergedRev
    /\ UNCHANGED <<stored, redisVars, goal, at, poolRev, got, floor, promised, writeVars, baseVars>>

MergedHit(r) == {e \in mergedEntries : e.rev = mergedRev[r]}

\* GET data:merged:<revision>.  An entry that is there may also be missed: its
\* TTL has run out, or the GET fails.
GetMergedEntry(r) ==
    /\ step[r] = "mergedEntry"
    /\ \/ \E e \in MergedHit(r) :
            /\ got' = [got EXCEPT ![r] = e.val]
            /\ step' = [step EXCEPT ![r] = "answered"]
       \/ /\ step' = [step EXCEPT ![r] = "poolRevision"]
          /\ UNCHANGED got
    /\ UNCHANGED <<stored, redisVars, goal, at, mergedRev, poolRev, floor, promised, writeVars, baseVars>>

\* GET revision:<namespace> of the next pool of the view.
GetPoolRevision(r) ==
    /\ step[r] = "poolRevision"
    /\ \/ /\ poolRev' = [poolRev EXCEPT ![r] = revision[at[r]]]
          /\ step' = [step EXCEPT ![r] = "poolEntry"]
       \/ /\ ReadFaults
          /\ poolRev' = [poolRev EXCEPT ![r] = NoRevision]
          /\ step' = [step EXCEPT ![r] = "load"]
    /\ UNCHANGED <<stored, redisVars, goal, at, mergedRev, got, floor, promised, writeVars, baseVars>>

Mut_AnyRevision(r) == {e \in poolEntries : e.ns = at[r]}

PoolHit(r) == {e \in poolEntries : e.ns = at[r] /\ e.rev = poolRev[r]}

\* The pool is read: on to the next one, or to the end of the read.
PoolRead(r) ==
    IF goal[r] # Merged
    THEN step' = [step EXCEPT ![r] = "answered"] /\ UNCHANGED at
    ELSE IF at[r] < Last
    THEN /\ at' = [at EXCEPT ![r] = @ + 1]
         /\ step' = [step EXCEPT ![r] = "poolRevision"]
    ELSE /\ step' = [step EXCEPT ![r] =
                        IF mergedRev[r] = NoRevision THEN "answered" ELSE "mergedStore"]
         /\ UNCHANGED at

\* GET data:<namespace>:<revision>, missed as above.
GetPoolEntry(r) ==
    /\ step[r] = "poolEntry"
    /\ \/ \E e \in PoolHit(r) :
            /\ got' = [got EXCEPT ![r][at[r]] = e.val]
            /\ PoolRead(r)
       \/ /\ step' = [step EXCEPT ![r] = "load"]
          /\ UNCHANGED <<at, got>>
    /\ UNCHANGED <<stored, redisVars, goal, mergedRev, poolRev, floor, promised, writeVars, baseVars>>

\* The query of the pool's danmaku.
Load(r) ==
    /\ step[r] = "load"
    /\ got' = [got EXCEPT ![r][at[r]] = stored[at[r]]]
    /\ IF poolRev[r] = NoRevision
       THEN PoolRead(r)
       ELSE step' = [step EXCEPT ![r] = "poolStore"] /\ UNCHANGED at
    /\ UNCHANGED <<stored, redisVars, goal, mergedRev, poolRev, floor, promised, writeVars, baseVars>>

Mut_StoreUnderNewRevision(r) ==
    /\ step[r] = "poolStore"
    /\ poolEntries' =
          {e \in poolEntries : e.ns # at[r] \/ e.rev # revision[at[r]]}
             \cup {[ns |-> at[r], rev |-> revision[at[r]], val |-> got[r][at[r]]]}
    /\ PoolRead(r)
    /\ UNCHANGED <<stored, revision, mergedEntries, goal, mergedRev, poolRev, got, floor, promised, writeVars, baseVars>>

\* SET data:<namespace>:<revision>, under the revision read before the load.
StorePool(r) ==
    /\ step[r] = "poolStore"
    /\ \/ poolEntries' =
            {e \in poolEntries : e.ns # at[r] \/ e.rev # poolRev[r]}
               \cup {[ns |-> at[r], rev |-> poolRev[r], val |-> got[r][at[r]]]}
       \/ ReadFaults /\ UNCHANGED poolEntries
    /\ PoolRead(r)
    /\ UNCHANGED <<stored, revision, mergedEntries, goal, mergedRev, poolRev, got, floor, promised, writeVars, baseVars>>

\* SET data:merged:<revision>.
StoreMerged(r) ==
    /\ step[r] = "mergedStore"
    /\ \/ mergedEntries' = {e \in mergedEntries : e.rev # mergedRev[r]}
                              \cup {[rev |-> mergedRev[r], val |-> got[r]]}
       \/ ReadFaults /\ UNCHANGED mergedEntries
    /\ step' = [step EXCEPT ![r] = "answered"]
    /\ UNCHANGED <<stored, revision, poolEntries, goal, at, mergedRev, poolRev, got, floor, promised, writeVars, baseVars>>

\* The answer is sent, or a query failed and the read ends in an error.
End(r) ==
    /\ step[r] \in {"load", "answered"}
    /\ step' = [step EXCEPT ![r] = "idle"]
    /\ goal' = [goal EXCEPT ![r] = Merged]
    /\ at' = [at EXCEPT ![r] = 1]
    /\ mergedRev' = [mergedRev EXCEPT ![r] = NoRevision]
    /\ poolRev' = [poolRev EXCEPT ![r] = NoRevision]
    /\ got' = [got EXCEPT ![r] = Empty]
    /\ floor' = [floor EXCEPT ![r] = Empty]
    /\ promised' = [promised EXCEPT ![r] = Empty]
    /\ UNCHANGED <<stored, redisVars, writeVars, baseVars>>

--------------------------------------------------------------------------------
(* Writes *)

Raise(f, w) == [f EXCEPT ![target[w]] = IF @ < change[w] THEN change[w] ELSE @]
Forget(w) ==
    /\ writer' = [writer EXCEPT ![w] = "idle"]
    /\ target' = [target EXCEPT ![w] = 1]
    /\ change' = [change EXCEPT ![w] = 0]

\* The transaction, or the single statement, of a write commits.
Commit(w) ==
    /\ writer[w] = "idle"
    /\ \E n \in Namespaces :
         /\ stored[n] < MaxChanges
         /\ stored' = [stored EXCEPT ![n] = @ + 1]
         /\ target' = [target EXCEPT ![w] = n]
         /\ change' = [change EXCEPT ![w] = stored[n] + 1]
    /\ writer' = [writer EXCEPT ![w] = "pool"]
    /\ UNCHANGED <<redisVars, readVars, returned, effective, baseVars>>

\* A keyword of one pool: its INSERT is committed, the pool is then read back,
\* and the error of that query is returned before anything is invalidated.
LookupFails(w) ==
    /\ LookupFaults
    /\ writer[w] = "pool"
    /\ returned' = Raise(returned, w)
    /\ Forget(w)
    /\ UNCHANGED <<stored, redisVars, readVars, effective, baseVars>>

\* The process of the write ends after the commit; its caller gets no answer.
WriterDies(w) ==
    /\ Deaths
    /\ writer[w] # "idle"
    /\ Forget(w)
    /\ UNCHANGED <<stored, redisVars, readVars, returned, effective, baseVars>>

\* INCR revision:<namespace>.
IncrPool(w) ==
    /\ writer[w] = "pool"
    /\ LET n == target[w]
           v == revision[n] + 1
       IN  /\ v \in Revisions
           /\ revision' = [revision EXCEPT ![n] = v]
           /\ poolBase' = [poolBase EXCEPT ![n][v] = stored[n]]
    /\ writer' = [writer EXCEPT ![w] = "merged"]
    /\ UNCHANGED <<stored, poolEntries, mergedEntries, readVars, target, change, returned, effective, mergedBase>>

\* Its error is dropped and the call goes on.
IncrPoolFails(w) ==
    /\ IncrFaults
    /\ writer[w] = "pool"
    /\ writer' = [writer EXCEPT ![w] = "mergedOnly"]
    /\ UNCHANGED <<stored, redisVars, readVars, target, change, returned, effective, baseVars>>

\* INCR revision:merged; the call returns.
IncrMerged(w) ==
    /\ writer[w] \in {"merged", "mergedOnly"}
    /\ LET v == revision[Merged] + 1
       IN  /\ v \in Revisions
           /\ revision' = [revision EXCEPT ![Merged] = v]
           /\ mergedBase' = [mergedBase EXCEPT ![v] = [n \in Namespaces |-> poolBase[n][revision[n]]]]
    /\ effective' = IF writer[w] = "merged" THEN Raise(effective, w) ELSE effective
    /\ returned' = Raise(returned, w)
    /\ Forget(w)
    /\ UNCHANGED <<stored, poolEntries, mergedEntries, readVars, poolBase>>

IncrMergedFails(w) ==
    /\ IncrFaults
    /\ writer[w] \in {"merged", "mergedOnly"}
    /\ returned' = Raise(returned, w)
    /\ Forget(w)
    /\ UNCHANGED <<stored, redisVars, readVars, effective, baseVars>>

ReadStep(r) ==
    \/ Begin(r)
    \/ GetMergedRevision(r)
    \/ GetMergedEntry(r)
    \/ GetPoolRevision(r)
    \/ GetPoolEntry(r)
    \/ Load(r)
    \/ StorePool(r)
    \/ StoreMerged(r)
    \/ End(r)

WriteStep(w) ==
    \/ Commit(w)
    \/ LookupFails(w)
    \/ WriterDies(w)
    \/ IncrPool(w)
    \/ IncrPoolFails(w)
    \/ IncrMerged(w)
    \/ IncrMergedFails(w)

Next ==
    \/ \E r \in Readers : ReadStep(r)
    \/ \E w \in Writers : WriteStep(w)

Spec == Init /\ [][Next]_vars

--------------------------------------------------------------------------------
(* Properties *)

Scope(r) == IF goal[r] = Merged THEN Namespaces ELSE {goal[r]}

\* An answer includes every change that was invalidated before the read began,
\* through both levels of cache, whatever the interleaving of loads, stores and
\* increments, and although Redis may fail and writers may die at any step.
FreshRead ==
    \A r \in Readers : step[r] = "answered" =>
        \A n \in Scope(r) : floor[r][n] <= got[r][n]

\* README and docs/compatibility.md: a write switches the cache version at once.
\* An answer includes every change whose call had returned when the read began.
ReadSeesReturnedWrites ==
    \A r \in Readers : step[r] = "answered" =>
        \A n \in Scope(r) : promised[r][n] <= got[r][n]

\* The cache keeps the contract of FreshReads, and answers nothing that was
\* never stored.
Phase(r) == IF step[r] \in {"idle", "answered"} THEN step[r] ELSE "reading"
Answered(r) == [n \in Namespaces |-> IF step[r] = "answered" THEN got[r][n] ELSE 0]

Contract == INSTANCE FreshReads
    WITH completed <- effective,
         phase <- [r \in Readers |-> Phase(r)],
         scope <- [r \in Readers |-> IF step[r] = "idle" THEN {} ELSE Scope(r)],
         got <- [r \in Readers |-> Answered(r)]

ImplementsContract == Contract!Spec

================================================================================
