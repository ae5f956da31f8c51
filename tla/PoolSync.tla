-------------------------------- MODULE PoolSync --------------------------------
(***************************************************************************)
(* A third-party pool and the calls that synchronise it: ensurePool of a   *)
(* provider (internal/api/catalog.go) over EnsureCatalogPool,              *)
(* ClaimCatalogPoolSync and MergeCatalogDanmaku (internal/store/           *)
(* catalog.go).  iQIYI, DanDanPlay, Animeko and bilibili have the same     *)
(* four steps.                                                             *)
(*                                                                         *)
(* Calls of any number of processes meet in PostgreSQL: a passive refresh, *)
(* or a forced one of an administrator.  One pool identity is modelled,    *)
(* for pools share nothing.  A danmaku is its key (pool, time, content);   *)
(* PostgreSQL makes an INSERT wait for the transaction that holds the same *)
(* key and aborts one transaction of a circular wait.                      *)
(***************************************************************************)
EXTENDS Integers, Sequences, FiniteSets

CONSTANTS
    Callers,     \* calls of ensurePool
    Admins,      \* calls of SetCatalogDanmakuBlocked
    Items,       \* danmaku keys
    Feeds,       \* what the upstream may answer: sequences of items
    Interval,    \* SyncIntervalSeconds
    MaxClock     \* bound on the clock

ASSUME SyncAssumption ==
    /\ Feeds \subseteq Seq(Items)
    /\ Interval \in Nat
    /\ MaxClock \in Nat

Never == -1
Times == 0 .. MaxClock

VARIABLES
    clock,
    pool,         \* the pool's row is committed
    lock,         \* callers that hold the advisory lock of the identity
    lastAttempt,  \* LastAttemptTime
    lastSync,     \* LastSyncTime
    content,      \* committed danmaku of the pool
    blocked,      \* those with IsBlocked
    cached,       \* what readers are answered from the caches: "current",
                  \* "outdated", or "missed" when an invalidation was lost
    pc,           \* where each call is
    force,        \* its parameter
    now,          \* the time it has read
    feed,         \* what it has fetched
    next,         \* the index of the next INSERT of its batch
    own,          \* rows its open transaction has inserted
    admin,        \* where each block or unblock is
    newest,       \* history: latest time of an executed claim
    waited,       \* history: longest a forced claim stood behind its time
    reported      \* history: sum of the inserted counts of committed merges

poolVars == <<pool, lock, lastAttempt, lastSync, content, blocked>>
callVars == <<pc, force, now, feed, next, own>>
history == <<newest, waited, reported>>
vars == <<clock, poolVars, cached, callVars, admin, history>>

Steps == {"idle", "lock", "select", "insert", "time", "claim", "fetch", "merge",
          "invalidate", "synced"}

TypeOK ==
    /\ clock \in Times
    /\ pool \in BOOLEAN
    /\ lock \in SUBSET Callers
    /\ lastAttempt \in Times \cup {Never}
    /\ lastSync \in Times \cup {Never}
    /\ content \subseteq Items
    /\ blocked \subseteq content
    /\ cached \in {"current", "outdated", "missed"}
    /\ pc \in [Callers -> Steps]
    /\ force \in [Callers -> BOOLEAN]
    /\ now \in [Callers -> Times]
    /\ feed \in [Callers -> Feeds \cup {<<>>}]
    /\ next \in [Callers -> Nat \ {0}]
    /\ own \in [Callers -> SUBSET Items]
    /\ admin \in [Admins -> {"idle", "invalidate"}]
    /\ newest \in Times \cup {Never}
    /\ waited \in Times
    /\ reported \in Nat

Init ==
    /\ clock = 0
    /\ pool = FALSE
    /\ lock = {}
    /\ lastAttempt = Never
    /\ lastSync = Never
    /\ content = {}
    /\ blocked = {}
    /\ cached = "current"
    /\ pc = [c \in Callers |-> "idle"]
    /\ force = [c \in Callers |-> FALSE]
    /\ now = [c \in Callers |-> 0]
    /\ feed = [c \in Callers |-> <<>>]
    /\ next = [c \in Callers |-> 1]
    /\ own = [c \in Callers |-> {}]
    /\ admin = [a \in Admins |-> "idle"]
    /\ newest = Never
    /\ waited = 0
    /\ reported = 0

Go(c, s) == pc' = [pc EXCEPT ![c] = s]

\* The call returns, with an error or without, and its variables are gone.
End(c) ==
    /\ Go(c, "idle")
    /\ force' = [force EXCEPT ![c] = FALSE]
    /\ now' = [now EXCEPT ![c] = 0]
    /\ feed' = [feed EXCEPT ![c] = <<>>]
    /\ next' = [next EXCEPT ![c] = 1]

--------------------------------------------------------------------------------
(* EnsureCatalogPool *)

Call(c) ==
    /\ pc[c] = "idle"
    /\ \E f \in BOOLEAN : force' = [force EXCEPT ![c] = f]
    /\ Go(c, "lock")
    /\ UNCHANGED <<clock, poolVars, cached, now, feed, next, own, admin, history>>

Mut_NoLock(c) ==
    /\ pc[c] = "lock"
    /\ lock' = lock \cup {c}
    /\ Go(c, "select")
    /\ UNCHANGED <<clock, pool, lastAttempt, lastSync, content, blocked, cached, force, now, feed,
                   next, own, admin, history>>

\* pg_advisory_xact_lock waits for the transaction that holds the lock.
Lock(c) ==
    /\ pc[c] = "lock"
    /\ lock = {}
    /\ lock' = {c}
    /\ Go(c, "select")
    /\ UNCHANGED <<clock, pool, lastAttempt, lastSync, content, blocked, cached, force, now, feed,
                   next, own, admin, history>>

Mut_NoRollback(c) ==
    /\ pc[c] = "select"
    /\ Go(c, IF pool THEN "time" ELSE "insert")
    /\ UNCHANGED <<clock, poolVars, cached, force, now, feed, next, own, admin, history>>

\* The pool is there: commit, which gives the lock back.
SelectPool(c) ==
    /\ pc[c] = "select"
    /\ IF pool
       THEN Go(c, "time") /\ lock' = lock \ {c}
       ELSE Go(c, "insert") /\ UNCHANGED lock
    /\ UNCHANGED <<clock, pool, lastAttempt, lastSync, content, blocked, cached, force, now, feed,
                   next, own, admin, history>>

\* INSERT and commit; the unique index refuses a second row.
InsertPool(c) ==
    /\ pc[c] = "insert"
    /\ pool' = TRUE
    /\ lock' = lock \ {c}
    /\ IF pool THEN End(c) ELSE Go(c, "time") /\ UNCHANGED <<force, now, feed, next>>
    /\ UNCHANGED <<clock, lastAttempt, lastSync, content, blocked, cached, own, admin, history>>

--------------------------------------------------------------------------------
(* ClaimCatalogPoolSync *)

\* The row is free for this call: forced, never attempted, or out of its window.
Mut_WindowFromSync(c) == force[c] \/ lastSync = Never \/ lastSync <= now[c] - Interval

Claimable(c) == force[c] \/ lastAttempt = Never \/ lastAttempt <= now[c] - Interval

\* time.Now, ahead of the UPDATE.
ReadTime(c) ==
    /\ pc[c] = "time"
    /\ now' = [now EXCEPT ![c] = clock]
    /\ Go(c, "claim")
    /\ UNCHANGED <<clock, poolVars, cached, force, feed, next, own, admin, history>>

Later(s, t) == IF s < t THEN t ELSE s

\* The conditional UPDATE of LastAttemptTime, one statement.  Its answer may be
\* lost, and then the call fails although the window has been opened.  The rest of
\* the call uses neither force nor this time again.
Claim(c) ==
    /\ pc[c] = "claim"
    /\ IF Claimable(c)
       THEN /\ lastAttempt' = now[c]
            /\ newest' = Later(newest, now[c])
            /\ waited' = IF force[c] THEN Later(waited, clock - now[c]) ELSE waited
            /\ \/ /\ Go(c, "fetch")
                  /\ force' = [force EXCEPT ![c] = FALSE]
                  /\ now' = [now EXCEPT ![c] = 0]
                  /\ UNCHANGED <<feed, next>>
               \/ End(c)
       ELSE End(c) /\ UNCHANGED <<lastAttempt, newest, waited>>
    /\ UNCHANGED <<clock, pool, lock, lastSync, content, blocked, cached, own, admin, reported>>

--------------------------------------------------------------------------------
(* The fetch and MergeCatalogDanmaku *)

\* The upstream answers; the merge begins and reads the time.
Fetch(c) ==
    /\ pc[c] = "fetch"
    /\ \E f \in Feeds : feed' = [feed EXCEPT ![c] = f]
    /\ now' = [now EXCEPT ![c] = clock]
    /\ Go(c, "merge")
    /\ UNCHANGED <<clock, poolVars, cached, force, next, own, admin, history>>

Wanted(c) == feed[c][next[c]]
Mut_ButLast(c) == pc[c] = "merge" /\ next[c] < Len(feed[c])
More(c) == pc[c] = "merge" /\ next[c] <= Len(feed[c])

\* c's INSERT waits for the open transaction of d.
Waits(c, d) == c # d /\ More(c) /\ Wanted(c) \in own[d]

\* INSERT ... ON CONFLICT DO NOTHING of the next danmaku.
InsertItem(c) ==
    /\ More(c)
    /\ \A d \in Callers : ~ Waits(c, d)
    /\ own' = [own EXCEPT ![c] = @ \cup ({Wanted(c)} \ content)]
    /\ next' = [next EXCEPT ![c] = @ + 1]
    /\ UNCHANGED <<clock, poolVars, cached, pc, force, now, feed, admin, history>>

Mut_NoInvalidate(c) ==
    /\ pc[c] = "merge"
    /\ ~ More(c)
    /\ content' = content \cup own[c]
    /\ lastSync' = now[c]
    /\ reported' = reported + Cardinality(own[c])
    /\ own' = [own EXCEPT ![c] = {}]
    /\ cached' = IF own[c] = {} THEN cached ELSE "outdated"
    /\ Go(c, "synced")
    /\ UNCHANGED <<clock, pool, lock, lastAttempt, blocked, force, now, feed, next, admin, newest, waited>>

\* LastSyncTime and the commit.
CommitMerge(c) ==
    /\ pc[c] = "merge"
    /\ ~ More(c)
    /\ content' = content \cup own[c]
    /\ lastSync' = now[c]
    /\ reported' = reported + Cardinality(own[c])
    /\ own' = [own EXCEPT ![c] = {}]
    /\ cached' = IF own[c] = {} THEN cached ELSE "outdated"
    /\ Go(c, "invalidate")
    /\ UNCHANGED <<clock, pool, lock, lastAttempt, blocked, force, now, feed, next, admin, newest, waited>>

\* invalidateDanmakuCache does not depend on the call's context and ignores the
\* error of its INCRs; a process that ends before them leaves the same behind.
Announce ==
    \/ cached' = "current"
    \/ cached' = IF cached = "current" THEN "current" ELSE "missed"

Invalidate(c) ==
    /\ pc[c] = "invalidate"
    /\ Announce
    /\ Go(c, "synced")
    /\ UNCHANGED <<clock, poolVars, force, now, feed, next, own, admin, history>>

Mut_KeepInserted(c) ==
    /\ pc[c] \in {"lock", "select", "insert", "time", "claim", "fetch", "merge"}
    /\ lock' = lock \ {c}
    /\ content' = content \cup own[c]
    /\ cached' = IF own[c] = {} THEN cached ELSE "outdated"
    /\ own' = [own EXCEPT ![c] = {}]
    /\ End(c)
    /\ UNCHANGED <<clock, pool, lastAttempt, lastSync, blocked, admin, history>>

\* An error at any step before the commit, the upstream's or a cancelled context
\* included, rolls the open transaction back.
Fail(c) ==
    /\ pc[c] \in {"lock", "select", "insert", "time", "claim", "fetch", "merge"}
    /\ lock' = lock \ {c}
    /\ own' = [own EXCEPT ![c] = {}]
    /\ End(c)
    /\ UNCHANGED <<clock, pool, lastAttempt, lastSync, content, blocked, cached, admin, history>>

\* PostgreSQL finds two inserts waiting for each other and aborts one of them.
Deadlocked(c) == \E d \in Callers : Waits(c, d) /\ Waits(d, c)

BreakDeadlock(c) ==
    /\ Deadlocked(c)
    /\ own' = [own EXCEPT ![c] = {}]
    /\ End(c)
    /\ UNCHANGED <<clock, poolVars, cached, admin, history>>

\* The pool is read again for the answer, which may fail.
Return(c) ==
    /\ pc[c] = "synced"
    /\ End(c)
    /\ UNCHANGED <<clock, poolVars, cached, own, admin, history>>

--------------------------------------------------------------------------------
(* SetCatalogDanmakuBlocked, and time *)

SetBlocked(a) ==
    /\ admin[a] = "idle"
    /\ \E x \in content : blocked' \in {blocked \cup {x}, blocked \ {x}}
    /\ cached' = IF blocked' = blocked THEN cached ELSE "outdated"
    /\ admin' = [admin EXCEPT ![a] = "invalidate"]
    /\ UNCHANGED <<clock, pool, lock, lastAttempt, lastSync, content, callVars, history>>

InvalidateBlocked(a) ==
    /\ admin[a] = "invalidate"
    /\ Announce
    /\ admin' = [admin EXCEPT ![a] = "idle"]
    /\ UNCHANGED <<clock, poolVars, callVars, history>>

Tick ==
    /\ clock < MaxClock
    /\ clock' = clock + 1
    /\ UNCHANGED <<poolVars, cached, callVars, admin, history>>

CallStep(c) ==
    \/ Lock(c) \/ SelectPool(c) \/ InsertPool(c)
    \/ ReadTime(c) \/ Claim(c)
    \/ Fetch(c) \/ InsertItem(c) \/ CommitMerge(c) \/ Invalidate(c)
    \/ BreakDeadlock(c)
    \/ Return(c)

Next ==
    \/ \E c \in Callers : Call(c) \/ CallStep(c) \/ Fail(c)
    \/ \E a \in Admins : SetBlocked(a) \/ InvalidateBlocked(a)
    \/ Tick

Spec == Init /\ [][Next]_vars

\* A call that has begun goes on: goroutines are scheduled, contexts end a wait and
\* the deadlock detector runs.  Fairness is strong for Lock and InsertItem, which
\* others may disable again: PostgreSQL serves its lock queues.  The other steps stay
\* enabled until they are taken.
Fairness == \A c \in Callers : SF_vars(CallStep(c))

FairSpec == Spec /\ Fairness

--------------------------------------------------------------------------------
(* Properties *)

\* The advisory lock keeps two first calls from inserting the same pool: the
\* unique index never has to refuse one (catalog.go, EnsureCatalogPool).
NoDuplicateInsert == \A c \in Callers : pc[c] = "insert" => ~pool

\* A passive call that is let through by at least d after every attempt before it.
SpacedBy(d, c) ==
    (pc[c] = "claim" /\ pc'[c] = "fetch" /\ ~force[c] /\ newest # Never)
        => now[c] - newest >= d

\* docs/catalog-providers.md, docs/dandanplay.md: within the window of the last
\* attempt, failed or not, no passive call goes to the upstream.
PassiveSpacing == [][\A c \in Callers : SpacedBy(Interval, c)]_vars

\* What the code gives instead: a forced claim that was executed late has set the
\* row back to its own, older time (catalog.go:87), and a passive call comes early
\* by at most the longest such wait.  Without one the window is kept.
SpacedButForWaits == [][\A c \in Callers : SpacedBy(Interval - waited, c)]_vars

\* A call that reports success has everything it fetched in the table.
SyncDelivers ==
    \A c \in Callers : pc[c] \in {"invalidate", "synced"} =>
        \A i \in DOMAIN feed[c] : feed[c][i] \in content

\* The inserted counts of overlapping calls add up to the rows of the pool: no
\* row is counted twice, none is left behind by a call that failed.
CountsAddUp == reported = Cardinality(content)

\* Only an administrator unblocks a danmaku, however often it is fetched again.
BlockedStays ==
    [][\A x \in blocked : x \in blocked' \/ \E a \in Admins : admin'[a] # admin[a]]_vars

\* Every change of what readers are answered is followed by an invalidation of its
\* own: answers are out of date only while one is to come, or since one was lost
\* after the last change.
StaleIsPending ==
    cached = "outdated" =>
        (\E c \in Callers : pc[c] = "invalidate") \/ (\E a \in Admins : admin[a] = "invalidate")

\* Every call ends.
CallsEnd == \A c \in Callers : pc[c] # "idle" ~> pc[c] = "idle"

================================================================================
