--------------------------- MODULE BackgroundRefresh ---------------------------
(***************************************************************************)
(* The pool of passive refreshes, internal/api/refresh.go.                 *)
(*                                                                         *)
(* A public read answers from the stored snapshot and then calls schedule, *)
(* which admits at most Capacity keys, one goroutine each; at most Slots   *)
(* of these goroutines run their fetch.  close() closes admission, cancels *)
(* the shared context and joins the goroutines.                            *)
(*                                                                         *)
(* A goroutine is a member of Workers; the set bounds how many goroutines  *)
(* exist together, those that already freed their key included.  What the  *)
(* code does under r.mu is one step, and so is every other statement that  *)
(* another goroutine can see.                                              *)
(***************************************************************************)
EXTENDS Integers, FiniteSets

CONSTANTS
    Keys,      \* refresh keys, "provider:pool"
    Workers,   \* goroutine identities (bound of the model)
    Slots,     \* capacity of the channel r.slots, 8 in the code
    Capacity,  \* admission limit, 256 in the code
    NoKey      \* the key of a goroutine that does not exist

ASSUME ConstantsAssumption ==
    /\ IsFiniteSet(Keys)
    /\ IsFiniteSet(Workers)
    /\ Slots \in Nat \ {0}
    /\ Capacity \in Nat \ {0}
    /\ NoKey \notin Keys

VARIABLES
    active,     \* the keys of the map r.active
    wg,         \* the counter of r.wg
    slots,      \* how many values the channel r.slots holds
    closed,     \* r.closed
    cancelled,  \* r.ctx is done: the parent context or close() ended it
    closer,     \* where the goroutine that calls close() is
    pc,         \* what each goroutine does next
    key,        \* the key each goroutine was started for
    expired     \* goroutines whose own five-minute context ran out

refreshVars == <<active, wg, slots, closed, cancelled, closer, pc, key, expired>>

\* "queued": at the select.  "slotted": has a slot, before the ctx.Err() test.
\* "fetching": inside fetch.  The deferred calls then run in reverse order:
\* "releasing" the slot, "clearing" the key, "leaving" the wait group.
Stages == {"none", "queued", "slotted", "fetching", "releasing", "clearing", "leaving"}

SlotHolders == {w \in Workers : pc[w] \in {"slotted", "fetching", "releasing"}}
KeyHolders == {w \in Workers : pc[w] \notin {"none", "leaving"}}
Running == {w \in Workers : pc[w] # "none"}
Fetching == {w \in Workers : pc[w] = "fetching"}

\* ctx.Done() of the goroutine's own context, a child of r.ctx.
Done(w) == cancelled \/ w \in expired

TypeOK ==
    /\ active \subseteq Keys
    /\ wg \in Nat
    /\ slots \in 0 .. Slots
    /\ closed \in BOOLEAN
    /\ cancelled \in BOOLEAN
    /\ closer \in {"open", "waiting", "joined"}
    /\ pc \in [Workers -> Stages]
    /\ key \in [Workers -> Keys \cup {NoKey}]
    /\ expired \subseteq Workers

RefreshInit ==
    /\ active = {}
    /\ wg = 0
    /\ slots = 0
    /\ closed = FALSE
    /\ cancelled = FALSE
    /\ closer = "open"
    /\ pc = [w \in Workers |-> "none"]
    /\ key = [w \in Workers |-> NoKey]
    /\ expired = {}

--------------------------------------------------------------------------------
(* Admission *)

Mut_AdmitsTwice(k) == ~closed /\ ~cancelled /\ Cardinality(active) < Capacity
Mut_AdmitsOneMore(k) ==
    ~closed /\ ~cancelled /\ k \notin active /\ Cardinality(active) <= Capacity

\* The negation of the early return of schedule.
Admits(k) ==
    /\ ~closed
    /\ ~cancelled
    /\ k \notin active
    /\ Cardinality(active) < Capacity

\* schedule(k): a refused call changes nothing, an admitted one starts a goroutine.
Schedule(k) ==
    /\ Admits(k)
    /\ active' = active \cup {k}
    /\ wg' = wg + 1
    /\ \E w \in Workers :
         /\ pc[w] = "none"
         /\ pc' = [pc EXCEPT ![w] = "queued"]
         /\ key' = [key EXCEPT ![w] = k]
    /\ UNCHANGED <<slots, closed, cancelled, closer, expired>>

--------------------------------------------------------------------------------
(* The goroutine *)

Advance(w, stage) == pc' = [pc EXCEPT ![w] = stage]

\* select, first case: the send on r.slots succeeds.
AcquireSlot(w) ==
    /\ pc[w] = "queued"
    /\ slots < Slots
    /\ slots' = slots + 1
    /\ Advance(w, "slotted")
    /\ UNCHANGED <<active, wg, closed, cancelled, closer, key, expired>>

\* select, second case.  With both cases ready Go picks either.
GiveUp(w) ==
    /\ pc[w] = "queued"
    /\ Done(w)
    /\ Advance(w, "clearing")
    /\ UNCHANGED <<active, wg, slots, closed, cancelled, closer, key, expired>>

Mut_FetchWithoutCheck(w) ==
    /\ pc[w] = "slotted"
    /\ Advance(w, "fetching")
    /\ UNCHANGED <<active, wg, slots, closed, cancelled, closer, key, expired>>

\* The ctx.Err() test between the slot and the fetch.
StartFetch(w) ==
    /\ pc[w] = "slotted"
    /\ Advance(w, IF Done(w) THEN "releasing" ELSE "fetching")
    /\ UNCHANGED <<active, wg, slots, closed, cancelled, closer, key, expired>>

\* fetch returns a result or an error, or panics and the deferred calls recover it.
FetchReturns(w) ==
    /\ pc[w] = "fetching"
    /\ Advance(w, "releasing")
    /\ UNCHANGED <<active, wg, slots, closed, cancelled, closer, key, expired>>

\* Deferred: <-r.slots.
ReleaseSlot(w) ==
    /\ pc[w] = "releasing"
    /\ slots' = slots - 1
    /\ Advance(w, "clearing")
    /\ UNCHANGED <<active, wg, closed, cancelled, closer, key, expired>>

Mut_KeepKey(w) ==
    /\ pc[w] = "clearing"
    /\ active' = IF w \in expired THEN active ELSE active \ {key[w]}
    /\ Advance(w, "leaving")
    /\ UNCHANGED <<wg, slots, closed, cancelled, closer, key, expired>>

\* Deferred: delete(r.active, key) under r.mu; the context is cancelled before.
ClearKey(w) ==
    /\ pc[w] = "clearing"
    /\ active' = active \ {key[w]}
    /\ Advance(w, "leaving")
    /\ UNCHANGED <<wg, slots, closed, cancelled, closer, key, expired>>

Mut_DoneOnlyInTime(w) ==
    /\ pc[w] = "leaving"
    /\ wg' = IF w \in expired THEN wg ELSE wg - 1
    /\ Advance(w, "none")
    /\ key' = [key EXCEPT ![w] = NoKey]
    /\ expired' = expired \ {w}
    /\ UNCHANGED <<active, slots, closed, cancelled, closer>>

\* Deferred: r.wg.Done(); the goroutine is gone.
Leave(w) ==
    /\ pc[w] = "leaving"
    /\ wg' = wg - 1
    /\ Advance(w, "none")
    /\ key' = [key EXCEPT ![w] = NoKey]
    /\ expired' = expired \ {w}
    /\ UNCHANGED <<active, slots, closed, cancelled, closer>>

\* The five minutes of context.WithTimeout run out.
Expire(w) ==
    /\ pc[w] \in {"queued", "slotted", "fetching"}
    /\ w \notin expired
    /\ expired' = expired \cup {w}
    /\ UNCHANGED <<active, wg, slots, closed, cancelled, closer, pc, key>>

Work(w) ==
    \/ AcquireSlot(w)
    \/ GiveUp(w)
    \/ StartFetch(w)
    \/ FetchReturns(w)
    \/ ReleaseSlot(w)
    \/ ClearKey(w)
    \/ Leave(w)

--------------------------------------------------------------------------------
(* Cancellation and close *)

\* The parent context is cancelled (the signal context of main).
CancelParent ==
    /\ ~cancelled
    /\ cancelled' = TRUE
    /\ UNCHANGED <<active, wg, slots, closed, closer, pc, key, expired>>

\* close(), the critical section.
CloseBegin ==
    /\ closer = "open"
    /\ closed' = TRUE
    /\ cancelled' = TRUE
    /\ closer' = "waiting"
    /\ UNCHANGED <<active, wg, slots, pc, key, expired>>

Mut_JoinWhenKeysGone ==
    /\ closer = "waiting"
    /\ active = {}
    /\ closer' = "joined"
    /\ UNCHANGED <<active, wg, slots, closed, cancelled, pc, key, expired>>

\* close(), r.wg.Wait() returns.
CloseJoin ==
    /\ closer = "waiting"
    /\ wg = 0
    /\ closer' = "joined"
    /\ UNCHANGED <<active, wg, slots, closed, cancelled, pc, key, expired>>

RefreshNext ==
    \/ \E k \in Keys : Schedule(k)
    \/ \E w \in Workers : Work(w) \/ Expire(w)
    \/ CancelParent
    \/ CloseBegin
    \/ CloseJoin

RefreshSpec == RefreshInit /\ [][RefreshNext]_refreshVars

\* A runnable goroutine runs on, its timer fires, and a fetch whose context is
\* done returns (every upstream and database call of a fetch takes that
\* context); a fetch whose context is live owes nothing.  A goroutine queued on
\* r.slots may be overtaken for ever, so no strong fairness is assumed.
WorkFairness ==
    \A w \in Workers :
        /\ WF_refreshVars(GiveUp(w))
        /\ WF_refreshVars(StartFetch(w))
        /\ WF_refreshVars(Done(w) /\ FetchReturns(w))
        /\ WF_refreshVars(ReleaseSlot(w))
        /\ WF_refreshVars(ClearKey(w))
        /\ WF_refreshVars(Leave(w))
        /\ WF_refreshVars(Expire(w))

FairRefreshSpec == RefreshSpec /\ WorkFairness /\ WF_refreshVars(CloseJoin)

--------------------------------------------------------------------------------
(* Properties *)

\* One fetch per key: two goroutines inside their fetch have different keys,
\* although a key is admitted again before its last goroutine has left.
OneFetchPerKey == \A v, w \in KeyHolders : key[v] = key[w] => v = w

\* README: "at most 8 run, 256 running or waiting".  The slots taken are those
\* of live goroutines, so no exit path leaks a slot or returns one twice, and
\* the goroutines that have not given their key back are within the capacity.
LoadIsBounded ==
    /\ Cardinality(SlotHolders) <= Slots
    /\ Cardinality(KeyHolders) <= Capacity
    /\ Cardinality(SlotHolders) = slots

\* Once close() has returned nothing is left that could touch the repository.
JoinedIsQuiescent == closer = "joined" => Running = {} /\ active = {} /\ slots = 0

\* sync.WaitGroup forbids an Add that races a Wait at zero: nothing is admitted
\* once close() has taken the lock.
NoAddAfterClose == [][closed => wg' <= wg]_refreshVars

\* The pool keeps the contract its callers see: the goroutines of a key are one
\* job, which runs while one of them is inside its fetch.
JobOf(k) ==
    IF \E w \in Fetching : key[w] = k THEN "running"
    ELSE IF k \in active THEN "admitted" ELSE "idle"

StopOf ==
    IF closer = "joined" THEN "stopped"
    ELSE IF cancelled THEN "stopping" ELSE "serving"

Contract == INSTANCE RefreshContract
                WITH job <- [k \in Keys |-> JobOf(k)], stop <- StopOf

ImplementsContract == Contract!Spec

\* Whatever its fetch does, a key that was admitted can be admitted again.
KeyIsFreedAgain == \A k \in Keys : k \in active ~> k \notin active

\* close() returns, however long the fetches would run on their own.
CloseReturns == closer = "waiting" ~> closer = "joined"

================================================================================
