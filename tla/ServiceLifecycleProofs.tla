------------------------ MODULE ServiceLifecycleProofs -------------------------
(***************************************************************************)
(* The safety of the refresh pool and of the process around it, for every  *)
(* set of keys, goroutines and requests and for every limit.               *)
(*                                                                         *)
(* None of the pool's invariants is inductive alone: that a key runs once  *)
(* depends on each admitted key having exactly one goroutine that will     *)
(* give it back, the bounds on the counters being the sizes of the sets of *)
(* goroutines they stand for, and the join on the last closing step having *)
(* seen the counter at zero.  The same invariant carries the refinement of *)
(* RefreshContract.                                                        *)
(*                                                                         *)
(* That close() returns is liveness.  What it rests on is safety: a number *)
(* that every step lowers once it has begun (ToGo), and a goroutine with a *)
(* step it can take alone.                                                 *)
(*                                                                         *)
(* The process takes no step that the pool does not allow, so all of this  *)
(* holds in it; what it adds is the order of its closing steps.            *)
(***************************************************************************)
EXTENDS ServiceLifecycle, FiniteSetTheorems, TLAPS

\* Every admitted key belongs to exactly one goroutine that has it to give back.
Ownership ==
    /\ \A w \in KeyHolders : key[w] \in active
    /\ \A k \in active : \E w \in KeyHolders : key[w] = k
    /\ OneFetchPerKey

\* The counters are the sizes of the sets they count.
Accounting ==
    /\ wg = Cardinality(Running)
    /\ slots = Cardinality(SlotHolders)
    /\ Cardinality(KeyHolders) = Cardinality(active)
    /\ Cardinality(active) <= Capacity

\* close() moves its flags together, and the join saw no goroutine.
Closing ==
    /\ closed <=> closer # "open"
    /\ closed => cancelled
    /\ closer = "joined" => Running = {}

\* The inductive invariant.
IInv == TypeOK /\ Ownership /\ Accounting /\ Closing

--------------------------------------------------------------------------------

\* The sets the counters stand for are finite.
LEMMA FiniteHolders ==
    ASSUME TypeOK
    PROVE  /\ IsFiniteSet(Running)
           /\ IsFiniteSet(SlotHolders)
           /\ IsFiniteSet(KeyHolders)
           /\ IsFiniteSet(active)
<1>1. /\ Running \in SUBSET Workers
      /\ SlotHolders \in SUBSET Workers
      /\ KeyHolders \in SUBSET Workers
      /\ active \in SUBSET Keys
  BY DEF TypeOK, Running, SlotHolders, KeyHolders
<1> QED BY <1>1, FS_Subset, ConstantsAssumption

\* Moving one goroutine to another stage changes the sets of goroutines by that
\* goroutine only.
LEMMA AdvanceSets ==
    ASSUME TypeOK, NEW w \in Workers, NEW s \in Stages,
           pc' = [pc EXCEPT ![w] = s]
    PROVE  /\ pc' \in [Workers -> Stages]
           /\ pc'[w] = s
           /\ \A v \in Workers : v # w => pc'[v] = pc[v]
           /\ Running' = IF s = "none" THEN Running \ {w} ELSE Running \cup {w}
           /\ SlotHolders' = IF s \in {"slotted", "fetching", "releasing"}
                             THEN SlotHolders \cup {w} ELSE SlotHolders \ {w}
           /\ KeyHolders' = IF s \in {"none", "leaving"}
                            THEN KeyHolders \ {w} ELSE KeyHolders \cup {w}
<1>1. /\ pc' \in [Workers -> Stages]
      /\ pc'[w] = s
      /\ \A v \in Workers : v # w => pc'[v] = pc[v]
  BY DEF TypeOK
<1>2. Running' = IF s = "none" THEN Running \ {w} ELSE Running \cup {w}
  BY <1>1 DEF Running
<1>3. SlotHolders' = IF s \in {"slotted", "fetching", "releasing"}
                     THEN SlotHolders \cup {w} ELSE SlotHolders \ {w}
  BY <1>1 DEF SlotHolders
<1>4. KeyHolders' = IF s \in {"none", "leaving"}
                    THEN KeyHolders \ {w} ELSE KeyHolders \cup {w}
  BY <1>1 DEF KeyHolders
<1> QED BY <1>1, <1>2, <1>3, <1>4

\* The initial state satisfies the inductive invariant.
LEMMA InitInv == RefreshInit => IInv
<1> SUFFICES ASSUME RefreshInit PROVE IInv
  OBVIOUS
<1>1. TypeOK
  <2>1. /\ pc \in [Workers -> Stages]
        /\ key \in [Workers -> Keys \cup {NoKey}]
    BY DEF RefreshInit, Stages
  <2>2. slots \in 0 .. Slots /\ wg \in Nat
    BY ConstantsAssumption DEF RefreshInit
  <2> QED BY <2>1, <2>2 DEF RefreshInit, TypeOK
<1>2. Running = {} /\ SlotHolders = {} /\ KeyHolders = {}
  BY DEF RefreshInit, Running, SlotHolders, KeyHolders
<1>3. Ownership
  BY <1>2 DEF RefreshInit, Ownership, OneFetchPerKey
<1>4. Accounting
  BY <1>2, FS_EmptySet, ConstantsAssumption DEF RefreshInit, Accounting
<1>5. Closing
  BY <1>2 DEF RefreshInit, Closing
<1> QED BY <1>1, <1>3, <1>4, <1>5 DEF IInv

\* Admitting a key keeps the invariant: the new goroutine is its only owner.
LEMMA ScheduleInv ==
    ASSUME IInv, NEW k \in Keys, Schedule(k)
    PROVE  IInv'
<1> USE DEF IInv
<1>1. PICK w \in Workers : /\ pc[w] = "none"
                           /\ pc' = [pc EXCEPT ![w] = "queued"]
                           /\ key' = [key EXCEPT ![w] = k]
  BY DEF Schedule
<1>2. /\ pc' \in [Workers -> Stages]
      /\ pc'[w] = "queued"
      /\ \A v \in Workers : v # w => pc'[v] = pc[v]
      /\ Running' = Running \cup {w}
      /\ SlotHolders' = SlotHolders \ {w}
      /\ KeyHolders' = KeyHolders \cup {w}
  <2>1. "queued" \in Stages
    BY DEF Stages
  <2> QED BY <1>1, <2>1, AdvanceSets
<1>3. w \notin Running /\ w \notin SlotHolders /\ w \notin KeyHolders
  BY <1>1 DEF Running, SlotHolders, KeyHolders
<1>4. TypeOK'
  BY <1>1, <1>2 DEF Schedule, TypeOK
<1>5. Ownership'
  <2>1. \A v \in KeyHolders : key'[v] = key[v] /\ key[v] # k
    BY <1>1, <1>3 DEF Ownership, Schedule, Admits, TypeOK, KeyHolders
  <2>2. key'[w] = k
    BY <1>1 DEF TypeOK
  <2>3. active' = active \cup {k}
    BY DEF Schedule
  <2>4. \A v \in KeyHolders' : key'[v] \in active'
    BY <1>2, <2>1, <2>2, <2>3 DEF Ownership
  <2>5. \A j \in active' : \E v \in KeyHolders' : key'[v] = j
    BY <1>2, <2>1, <2>2, <2>3 DEF Ownership
  <2>6. OneFetchPerKey'
    BY <1>2, <2>1, <2>2 DEF Ownership, OneFetchPerKey
  <2> QED BY <2>4, <2>5, <2>6 DEF Ownership
<1>6. Accounting'
  <2>1. /\ Cardinality(Running') = Cardinality(Running) + 1
        /\ Cardinality(KeyHolders') = Cardinality(KeyHolders) + 1
    BY <1>2, <1>3, FS_AddElement, FiniteHolders
  <2>2. SlotHolders' = SlotHolders
    BY <1>2, <1>3
  <2>3. Cardinality(active') = Cardinality(active) + 1
    BY FS_AddElement, FiniteHolders DEF Schedule, Admits
  <2>4. Cardinality(active) \in Nat
    BY FS_CardinalityType, FiniteHolders
  <2>5. Cardinality(active') <= Capacity
    BY <2>3, <2>4, ConstantsAssumption DEF Schedule, Admits
  <2> QED BY <2>1, <2>2, <2>3, <2>5 DEF Accounting, Schedule
<1>7. Closing'
  BY DEF Closing, Schedule, Admits
<1> QED BY <1>4, <1>5, <1>6, <1>7

\* Every step of a goroutine keeps the invariant.
LEMMA WorkInv ==
    ASSUME IInv, NEW w \in Workers, Work(w)
    PROVE  IInv'
<1> USE DEF IInv
<1>a. /\ Cardinality(Running) \in Nat
      /\ Cardinality(SlotHolders) \in Nat
      /\ Cardinality(active) \in Nat
  BY FS_CardinalityType, FiniteHolders
<1>b. {"none", "queued", "slotted", "fetching", "releasing", "clearing", "leaving"} = Stages
  BY DEF Stages
<1>1. CASE AcquireSlot(w)
  <2>1. /\ pc' \in [Workers -> Stages]
        /\ Running' = Running \cup {w}
        /\ SlotHolders' = SlotHolders \cup {w}
        /\ KeyHolders' = KeyHolders \cup {w}
    BY <1>1, <1>b, AdvanceSets DEF AcquireSlot, Advance
  <2>2. w \in Running /\ w \notin SlotHolders /\ w \in KeyHolders
    BY <1>1 DEF AcquireSlot, Running, SlotHolders, KeyHolders
  <2>3. Running' = Running /\ KeyHolders' = KeyHolders
    BY <2>1, <2>2
  <2>4. TypeOK'
    BY <1>1, <2>1, ConstantsAssumption DEF AcquireSlot, TypeOK
  <2>5. Ownership'
    BY <1>1, <2>3 DEF AcquireSlot, Ownership, OneFetchPerKey
  <2>6. Cardinality(SlotHolders') = Cardinality(SlotHolders) + 1
    BY <2>1, <2>2, FS_AddElement, FiniteHolders
  <2>7. Accounting'
    BY <1>1, <2>3, <2>6 DEF AcquireSlot, Accounting
  <2>8. Closing'
    BY <1>1, <2>3 DEF AcquireSlot, Closing
  <2> QED BY <2>4, <2>5, <2>7, <2>8
<1>2. CASE GiveUp(w) \/ StartFetch(w) \/ FetchReturns(w)
  <2>1. PICK s \in {"fetching", "releasing", "clearing"} :
             /\ pc' = [pc EXCEPT ![w] = s]
             /\ pc[w] = "queued" => s = "clearing"
             /\ pc[w] # "queued" => s # "clearing"
             /\ pc[w] \in {"queued", "slotted", "fetching"}
    BY <1>2 DEF GiveUp, StartFetch, FetchReturns, Advance
  <2>2. UNCHANGED <<active, wg, slots, closed, cancelled, closer, key, expired>>
    BY <1>2 DEF GiveUp, StartFetch, FetchReturns
  <2>3. /\ pc' \in [Workers -> Stages]
        /\ Running' = Running \cup {w}
        /\ SlotHolders' = IF s = "clearing" THEN SlotHolders \ {w} ELSE SlotHolders \cup {w}
        /\ KeyHolders' = KeyHolders \cup {w}
    BY <2>1, <1>b, AdvanceSets
  <2>4. /\ w \in Running /\ w \in KeyHolders
        /\ w \in SlotHolders <=> s # "clearing"
    BY <2>1 DEF Running, SlotHolders, KeyHolders
  <2>5. Running' = Running /\ SlotHolders' = SlotHolders /\ KeyHolders' = KeyHolders
    BY <2>3, <2>4
  <2>6. TypeOK'
    BY <2>2, <2>3 DEF TypeOK
  <2>7. Ownership'
    BY <2>2, <2>5 DEF Ownership, OneFetchPerKey
  <2>8. Accounting'
    BY <2>2, <2>5 DEF Accounting
  <2>9. Closing'
    BY <2>2, <2>5 DEF Closing
  <2> QED BY <2>6, <2>7, <2>8, <2>9
<1>3. CASE ReleaseSlot(w)
  <2>1. /\ pc' \in [Workers -> Stages]
        /\ Running' = Running \cup {w}
        /\ SlotHolders' = SlotHolders \ {w}
        /\ KeyHolders' = KeyHolders \cup {w}
    BY <1>3, <1>b, AdvanceSets DEF ReleaseSlot, Advance
  <2>2. w \in Running /\ w \in SlotHolders /\ w \in KeyHolders
    BY <1>3 DEF ReleaseSlot, Running, SlotHolders, KeyHolders
  <2>3. Running' = Running /\ KeyHolders' = KeyHolders
    BY <2>1, <2>2
  <2>4. Cardinality(SlotHolders') = Cardinality(SlotHolders) - 1
    BY <2>1, <2>2, FS_RemoveElement, FiniteHolders
  <2>5. Cardinality(SlotHolders) # 0
    BY <2>2, FS_EmptySet, FiniteHolders
  <2>6. TypeOK'
    BY <1>3, <2>1, <2>5, <1>a, ConstantsAssumption DEF ReleaseSlot, TypeOK, Accounting
  <2>7. Ownership'
    BY <1>3, <2>3 DEF ReleaseSlot, Ownership, OneFetchPerKey
  <2>8. Accounting'
    BY <1>3, <2>3, <2>4 DEF ReleaseSlot, Accounting
  <2>9. Closing'
    BY <1>3, <2>3 DEF ReleaseSlot, Closing
  <2> QED BY <2>6, <2>7, <2>8, <2>9
<1>4. CASE ClearKey(w)
  <2>1. /\ pc' \in [Workers -> Stages]
        /\ Running' = Running \cup {w}
        /\ SlotHolders' = SlotHolders \ {w}
        /\ KeyHolders' = KeyHolders \ {w}
    BY <1>4, <1>b, AdvanceSets DEF ClearKey, Advance
  <2>2. w \in Running /\ w \notin SlotHolders /\ w \in KeyHolders
    BY <1>4 DEF ClearKey, Running, SlotHolders, KeyHolders
  <2>3. Running' = Running /\ SlotHolders' = SlotHolders
    BY <2>1, <2>2
  <2>4. key[w] \in active /\ active' = active \ {key[w]} /\ key' = key
    BY <1>4, <2>2 DEF ClearKey, Ownership
  <2>5. TypeOK'
    BY <1>4, <2>1 DEF ClearKey, TypeOK
  <2>6. Ownership'
    <3>1. \A v \in KeyHolders' : key[v] # key[w]
      BY <2>1, <2>2 DEF Ownership, OneFetchPerKey
    <3>2. \A v \in KeyHolders' : key'[v] \in active'
      BY <3>1, <2>1, <2>4 DEF Ownership
    <3>3. \A k \in active' : \E v \in KeyHolders' : key'[v] = k
      BY <2>1, <2>4 DEF Ownership
    <3>4. OneFetchPerKey'
      BY <2>1, <2>4 DEF Ownership, OneFetchPerKey
    <3> QED BY <3>2, <3>3, <3>4 DEF Ownership
  <2>7. Accounting'
    <3>1. /\ Cardinality(KeyHolders') = Cardinality(KeyHolders) - 1
          /\ Cardinality(active') = Cardinality(active) - 1
      BY <2>1, <2>2, <2>4, FS_RemoveElement, FiniteHolders
    <3> QED BY <1>4, <2>3, <3>1, <1>a, ConstantsAssumption DEF ClearKey, Accounting
  <2>8. Closing'
    BY <1>4, <2>3 DEF ClearKey, Closing
  <2> QED BY <2>5, <2>6, <2>7, <2>8
<1>5. CASE Leave(w)
  <2>1. /\ pc' \in [Workers -> Stages]
        /\ Running' = Running \ {w}
        /\ SlotHolders' = SlotHolders \ {w}
        /\ KeyHolders' = KeyHolders \ {w}
    BY <1>5, <1>b, AdvanceSets DEF Leave, Advance
  <2>2. w \in Running /\ w \notin SlotHolders /\ w \notin KeyHolders
    BY <1>5 DEF Leave, Running, SlotHolders, KeyHolders
  <2>3. SlotHolders' = SlotHolders /\ KeyHolders' = KeyHolders
    BY <2>1, <2>2
  <2>4. Cardinality(Running') = Cardinality(Running) - 1
    BY <2>1, <2>2, FS_RemoveElement, FiniteHolders
  <2>5. Cardinality(Running) # 0
    BY <2>2, FS_EmptySet, FiniteHolders
  <2>6. TypeOK'
    <3>1. wg' \in Nat
      BY <1>5, <2>5, <1>a DEF Leave, Accounting
    <3>2. key' \in [Workers -> Keys \cup {NoKey}]
      BY <1>5 DEF Leave, TypeOK
    <3> QED BY <1>5, <2>1, <3>1, <3>2 DEF Leave, TypeOK
  <2>7. \A v \in KeyHolders : key'[v] = key[v]
    BY <1>5, <2>2 DEF Leave, TypeOK, KeyHolders
  <2>8. Ownership'
    BY <1>5, <2>3, <2>7 DEF Leave, Ownership, OneFetchPerKey
  <2>9. Accounting'
    BY <1>5, <2>3, <2>4 DEF Leave, Accounting
  <2>10. Closing'
    BY <1>5, <2>1 DEF Leave, Closing
  <2> QED BY <2>6, <2>8, <2>9, <2>10
<1> QED BY <1>1, <1>2, <1>3, <1>4, <1>5 DEF Work

\* Timers, the signal and close() keep the invariant.
LEMMA EnvironmentInv ==
    ASSUME IInv,
           \/ \E w \in Workers : Expire(w)
           \/ CancelParent
           \/ CloseBegin
           \/ CloseJoin
           \/ UNCHANGED refreshVars
    PROVE  IInv'
<1> USE DEF IInv
<1>1. UNCHANGED <<active, wg, slots, pc, key>>
  BY DEF Expire, CancelParent, CloseBegin, CloseJoin, refreshVars
<1>2. /\ Running' = Running
      /\ SlotHolders' = SlotHolders
      /\ KeyHolders' = KeyHolders
  BY <1>1 DEF Running, SlotHolders, KeyHolders
<1>3. TypeOK'
  BY DEF TypeOK, Expire, CancelParent, CloseBegin, CloseJoin, refreshVars
<1>4. Ownership'
  BY <1>1, <1>2 DEF Ownership, OneFetchPerKey
<1>5. Accounting'
  BY <1>1, <1>2 DEF Accounting
<1>6. Closing'
  <2>1. CASE CloseJoin
    <3>1. Running = {}
      BY <2>1, FS_EmptySet, FiniteHolders DEF CloseJoin, Accounting
    <3> QED BY <2>1, <3>1, <1>2 DEF CloseJoin, Closing
  <2>2. CASE CancelParent
    BY <2>2, <1>2 DEF CancelParent, Closing
  <2>3. CASE CloseBegin
    BY <2>3, <1>2 DEF CloseBegin, Closing
  <2>4. CASE \E w \in Workers : Expire(w)
    BY <2>4, <1>2 DEF Expire, Closing
  <2>5. CASE UNCHANGED refreshVars
    BY <2>5, <1>2 DEF refreshVars, Closing
  <2> QED BY <2>1, <2>2, <2>3, <2>4, <2>5
<1> QED BY <1>3, <1>4, <1>5, <1>6

\* The invariant is inductive.
LEMMA NextInv == IInv /\ [RefreshNext]_refreshVars => IInv'
<1> SUFFICES ASSUME IInv, [RefreshNext]_refreshVars PROVE IInv'
  OBVIOUS
<1> QED BY ScheduleInv, WorkInv, EnvironmentInv DEF RefreshNext

\* Every reachable state satisfies the inductive invariant.
THEOREM Invariance == RefreshSpec => []IInv
<1> QED BY InitInv, NextInv, PTL DEF RefreshSpec

\* The variables keep their types.
THEOREM TypeCorrect == RefreshSpec => []TypeOK
<1>1. IInv => TypeOK
  BY DEF IInv
<1> QED BY <1>1, Invariance, PTL

\* refresh.go, r.active: no two goroutines ever work for one key, however often
\* it is scheduled, refused and scheduled again.
THEOREM KeyRunsOnce == RefreshSpec => []OneFetchPerKey
<1>1. IInv => OneFetchPerKey
  BY DEF IInv, Ownership
<1> QED BY <1>1, Invariance, PTL

\* refresh.go, len(r.active) and r.slots: the limits of the README hold for every
\* Slots and Capacity, and the channel holds one value per goroutine in it.
THEOREM Bounded == RefreshSpec => []LoadIsBounded
<1>1. IInv => LoadIsBounded
  BY ConstantsAssumption DEF IInv, TypeOK, Accounting, LoadIsBounded
<1> QED BY <1>1, Invariance, PTL

\* refresh.go, close(): when it has returned no goroutine, key or slot is left.
THEOREM Quiescence == RefreshSpec => []JoinedIsQuiescent
<1>1. ASSUME IInv PROVE JoinedIsQuiescent
  <2> SUFFICES ASSUME closer = "joined"
               PROVE  Running = {} /\ active = {} /\ slots = 0
    BY DEF JoinedIsQuiescent
  <2>1. Running = {}
    BY <1>1 DEF IInv, Closing
  <2>2. KeyHolders = {} /\ SlotHolders = {}
    BY <2>1 DEF Running, KeyHolders, SlotHolders
  <2>3. active = {}
    BY <1>1, <2>2 DEF IInv, Ownership
  <2> QED BY <1>1, <2>1, <2>2, <2>3, FS_EmptySet DEF IInv, Accounting
<1> QED BY <1>1, Invariance, PTL

\* sync.WaitGroup: once close() has begun the counter never grows again.
THEOREM WaitGroupOnlyDrains == RefreshSpec => NoAddAfterClose
<1>1. IInv /\ [RefreshNext]_refreshVars => [closed => wg' <= wg]_refreshVars
  <2> SUFFICES ASSUME IInv, RefreshNext, closed PROVE wg' <= wg
    OBVIOUS
  <2>1. \A k \in Keys : ~Schedule(k)
    BY DEF Schedule, Admits
  <2>2. wg \in Nat
    BY DEF IInv, TypeOK
  <2>3. wg' = wg \/ wg' = wg - 1
    BY <2>1 DEF RefreshNext, Work, AcquireSlot, GiveUp, StartFetch, FetchReturns,
                ReleaseSlot, ClearKey, Leave, Expire, CancelParent, CloseBegin, CloseJoin
  <2> QED BY <2>2, <2>3
<1> QED BY <1>1, Invariance, PTL DEF RefreshSpec, NoAddAfterClose

--------------------------------------------------------------------------------
(* close() ends: once it has begun every step lowers a number, and until it *)
(* has joined there is a step that nothing can refuse.                      *)

\* The steps a goroutine can still take, its timer included.
Stage(w) ==
    IF pc[w] = "queued" THEN 6 ELSE IF pc[w] = "slotted" THEN 5
    ELSE IF pc[w] = "fetching" THEN 4 ELSE IF pc[w] = "releasing" THEN 3
    ELSE IF pc[w] = "clearing" THEN 2 ELSE IF pc[w] = "leaving" THEN 1 ELSE 0
Timer(w) == IF pc[w] \in {"queued", "slotted", "fetching"} /\ w \notin expired THEN 1 ELSE 0
StepsLeft(w) == Stage(w) + Timer(w)
Owed == {p \in Workers \X (1 .. 7) : p[2] <= StepsLeft(p[1])}
ToGo == Cardinality(Owed) + (IF closer = "joined" THEN 0 ELSE 1)

\* The guards of the steps of WorkFairness that a goroutine takes by itself, its timer left out.
CanStep(w) ==
    \/ pc[w] \in {"slotted", "releasing", "clearing", "leaving"}
    \/ pc[w] \in {"queued", "fetching"} /\ Done(w)

\* A goroutine's steps, and its timer, leave it fewer steps and the others as many.
LEMMA StepsFall ==
    ASSUME TypeOK, NEW w \in Workers, Work(w) \/ Expire(w)
    PROVE  /\ StepsLeft(w)' < StepsLeft(w)
           /\ \A v \in Workers \ {w} : StepsLeft(v)' = StepsLeft(v)
           /\ closer' = closer
<1> USE DEF TypeOK, Stages, Advance, StepsLeft, Stage, Timer
<1>1. CASE AcquireSlot(w)
  BY <1>1 DEF AcquireSlot
<1>2. CASE GiveUp(w)
  BY <1>2 DEF GiveUp
<1>3. CASE StartFetch(w)
  <2>1. /\ pc[w] = "slotted" /\ pc'[w] \in {"releasing", "fetching"}
        /\ \A v \in Workers \ {w} : pc'[v] = pc[v]
        /\ UNCHANGED <<expired, closer>>
    BY <1>3 DEF StartFetch
  <2> QED BY <2>1
<1>4. CASE FetchReturns(w)
  BY <1>4 DEF FetchReturns
<1>5. CASE ReleaseSlot(w)
  BY <1>5 DEF ReleaseSlot
<1>6. CASE ClearKey(w)
  BY <1>6 DEF ClearKey
<1>7. CASE Leave(w)
  <2>1. /\ pc[w] = "leaving" /\ pc'[w] = "none"
        /\ \A v \in Workers \ {w} : pc'[v] = pc[v] /\ (v \in expired' <=> v \in expired)
        /\ closer' = closer
    BY <1>7 DEF Leave
  <2> QED BY <2>1
<1>8. CASE Expire(w)
  <2>1. /\ pc[w] \in {"queued", "slotted", "fetching"} /\ w \notin expired /\ w \in expired'
        /\ \A v \in Workers \ {w} : v \in expired' <=> v \in expired
        /\ UNCHANGED <<pc, closer>>
    BY <1>8 DEF Expire
  <2> QED BY <2>1
<1> QED
  BY <1>1, <1>2, <1>3, <1>4, <1>5, <1>6, <1>7, <1>8 DEF Work

\* What is owed is finitely much.
LEMMA OwedIsFinite == IsFiniteSet(Owed) /\ Cardinality(Owed) \in Nat
<1>1. IsFiniteSet(1 .. 7)
  <2>1. 1 \in Int /\ 7 \in Int
    OBVIOUS
  <2> QED
    BY <2>1, FS_Interval
<1>2. IsFiniteSet(Workers \X (1 .. 7))
  BY <1>1, FS_Product, ConstantsAssumption
<1>3. Owed \in SUBSET (Workers \X (1 .. 7))
  BY DEF Owed
<1>4. IsFiniteSet(Owed)
  BY <1>2, <1>3, FS_Subset
<1> QED
  BY <1>4, FS_CardinalityType

\* Fewer steps left for one goroutine is less owed.
LEMMA OwedShrinks ==
    ASSUME NEW w \in Workers,
           \A v \in Workers : StepsLeft(v) \in 0 .. 7 /\ StepsLeft(v)' \in 0 .. 7,
           StepsLeft(w)' < StepsLeft(w),
           \A v \in Workers \ {w} : StepsLeft(v)' = StepsLeft(v)
    PROVE  Cardinality(Owed') < Cardinality(Owed) /\ Cardinality(Owed') \in Nat
<1>1. Owed' \subseteq Owed
  <2>1. Owed' = {p \in Workers \X (1 .. 7) : p[2] <= StepsLeft(p[1])'}
    BY DEF Owed
  <2>2. ASSUME NEW v \in Workers, NEW i \in 1 .. 7, i <= StepsLeft(v)' PROVE i <= StepsLeft(v)
    BY <2>2
  <2> HIDE DEF StepsLeft
  <2> QED
    BY <2>1, <2>2 DEF Owed
<1>2. <<w, StepsLeft(w)>> \in Owed /\ <<w, StepsLeft(w)>> \notin Owed'
  <2>1. StepsLeft(w) \in 1 .. 7 /\ ~(StepsLeft(w) <= StepsLeft(w)')
    OBVIOUS
  <2> QED
    BY <2>1 DEF Owed
<1>3. Owed' \in SUBSET Owed /\ Owed' # Owed
  BY <1>1, <1>2
<1>4. IsFiniteSet(Owed') /\ Cardinality(Owed') <= Cardinality(Owed)
      /\ (Cardinality(Owed) = Cardinality(Owed') => Owed = Owed')
  BY <1>3, OwedIsFinite, FS_Subset
<1>5. Cardinality(Owed') \in Nat /\ Cardinality(Owed) \in Nat
  BY <1>4, OwedIsFinite, FS_CardinalityType
<1> QED
  BY <1>3, <1>4, <1>5

\* refresh.go, the goroutine of schedule: while it has a key to give back it works for that
\* key, no step of anybody sets it back, and the key is in the map until it gives it back.
THEOREM HoldersOnlyAdvance ==
    RefreshSpec =>
      [][\A w \in KeyHolders :
           /\ key'[w] = key[w] /\ StepsLeft(w)' <= StepsLeft(w)
           /\ key[w] \in active' <=> w \in KeyHolders']_refreshVars
<1>1. ASSUME IInv, IInv', RefreshNext, NEW w \in KeyHolders
      PROVE  key'[w] = key[w] /\ StepsLeft(w)' <= StepsLeft(w)
  <2>1. w \in Workers /\ pc[w] # "none" /\ pc[w] # "leaving" /\ StepsLeft(w) \in 0 .. 7
    BY DEF KeyHolders, StepsLeft, Stage, Timer
  <2>2. CASE \E k \in Keys : Schedule(k)
    <3>1. pc'[w] = pc[w] /\ key'[w] = key[w] /\ expired' = expired
      BY <1>1, <2>1, <2>2 DEF Schedule, IInv, TypeOK
    <3> QED
      BY <2>1, <3>1 DEF StepsLeft, Stage, Timer
  <2>3. ASSUME NEW v \in Workers, Work(v) \/ Expire(v)
        PROVE  key'[w] = key[w] /\ StepsLeft(w)' <= StepsLeft(w)
    <3>1. key'[w] = key[w]
      BY <1>1, <2>1, <2>3 DEF IInv, TypeOK, Work, AcquireSlot, GiveUp, StartFetch, FetchReturns,
                              ReleaseSlot, ClearKey, Leave, Expire
    <3>2. StepsLeft(w)' <= StepsLeft(w)
      <4>1. CASE v = w
        <5>1. StepsLeft(w)' < StepsLeft(w) /\ StepsLeft(w)' \in 0 .. 7
          BY <1>1, <2>3, <4>1, StepsFall DEF IInv, StepsLeft, Stage, Timer
        <5> QED
          BY <2>1, <5>1
      <4>2. CASE v # w
        BY <1>1, <2>1, <2>3, <4>2, StepsFall DEF IInv
      <4> QED
        BY <4>1, <4>2
    <3> QED
      BY <3>1, <3>2
  <2>4. CASE CancelParent \/ CloseBegin \/ CloseJoin
    <3>1. UNCHANGED <<pc, key, expired>>
      BY <2>4 DEF CancelParent, CloseBegin, CloseJoin
    <3> QED
      BY <2>1, <3>1 DEF StepsLeft, Stage, Timer
  <2> QED
    BY <1>1, <2>2, <2>3, <2>4 DEF RefreshNext
<1>2. ASSUME IInv, IInv', RefreshNext, NEW w \in KeyHolders
      PROVE  key[w] \in active' <=> w \in KeyHolders'
  <2>1. key'[w] = key[w] /\ key[w] \in active
    BY <1>1, <1>2 DEF IInv, Ownership
  <2>2. w \in KeyHolders' => key[w] \in active'
    BY <1>2, <2>1 DEF IInv, Ownership
  <2>3. ASSUME w \notin KeyHolders' PROVE key[w] \notin active'
    <3>1. ClearKey(w)
      BY <1>2, <2>3 DEF KeyHolders, IInv, TypeOK, RefreshNext, Schedule, Work, AcquireSlot, GiveUp,
           StartFetch, FetchReturns, ReleaseSlot, ClearKey, Leave, Expire, Advance,
           CancelParent, CloseBegin, CloseJoin
    <3> QED
      BY <3>1 DEF ClearKey
  <2> QED
    BY <2>2, <2>3
<1>3. IInv /\ IInv' /\ [RefreshNext]_refreshVars =>
        [\A w \in KeyHolders :
           /\ key'[w] = key[w] /\ StepsLeft(w)' <= StepsLeft(w)
           /\ key[w] \in active' <=> w \in KeyHolders']_refreshVars
  BY <1>1, <1>2
<1> QED
  BY <1>3, Invariance, PTL DEF RefreshSpec

\* refresh.go, close(): once it has begun every step of the pool lowers a natural number, so
\* that it cannot be kept waiting by goroutines that come, queue or fetch for ever.
THEOREM CloseEnds == RefreshSpec => [](ToGo \in Nat) /\ [][closed => ToGo' < ToGo]_refreshVars
<1>1. ToGo \in Nat
  BY OwedIsFinite DEF ToGo
<1>2. ASSUME IInv, IInv', RefreshNext, closed PROVE ToGo' < ToGo
  <2>1. \A k \in Keys : ~Schedule(k)
    BY <1>2 DEF Schedule, Admits
  <2>2. ~CancelParent /\ ~CloseBegin
    BY <1>2 DEF IInv, Closing, CancelParent, CloseBegin
  <2>3. CASE CloseJoin
    <3>1. closer = "waiting" /\ closer' = "joined" /\ Owed' = Owed
      BY <2>3 DEF CloseJoin, Owed, StepsLeft, Stage, Timer
    <3> QED
      BY <3>1, OwedIsFinite DEF ToGo
  <2>4. ASSUME NEW w \in Workers, Work(w) \/ Expire(w) PROVE ToGo' < ToGo
    <3>1. /\ StepsLeft(w)' < StepsLeft(w)
          /\ \A v \in Workers \ {w} : StepsLeft(v)' = StepsLeft(v)
          /\ closer' = closer
      BY <1>2, <2>4, StepsFall DEF IInv
    <3>2. \A v \in Workers : StepsLeft(v) \in 0 .. 7 /\ StepsLeft(v)' \in 0 .. 7
      BY DEF StepsLeft, Stage, Timer
    <3>3. Cardinality(Owed') < Cardinality(Owed) /\ Cardinality(Owed') \in Nat
      BY <3>1, <3>2, OwedShrinks
    <3> QED
      BY <3>1, <3>3, OwedIsFinite DEF ToGo
  <2> QED
    BY <1>2, <2>1, <2>2, <2>3, <2>4 DEF RefreshNext
<1> QED
  BY <1>1, <1>2, Invariance, PTL DEF RefreshSpec

\* refresh.go, r.wg.Wait(): while close() waits, the counter is zero or a goroutine has a step
\* that needs no slot, no timer and no answer of an upstream server.
THEOREM CloseNeverStuck ==
    RefreshSpec => [](closer = "waiting" => wg = 0 \/ \E w \in Workers : CanStep(w))
<1>1. IInv => (closer = "waiting" => wg = 0 \/ \E w \in Workers : CanStep(w))
  <2> SUFFICES ASSUME IInv, closer = "waiting", wg # 0 PROVE \E w \in Workers : CanStep(w)
    OBVIOUS
  <2>1. Running # {}
    BY FS_EmptySet DEF IInv, Accounting
  <2>2. PICK w \in Workers : pc[w] # "none"
    BY <2>1 DEF Running
  <2>3. cancelled /\ pc[w] \in Stages
    BY DEF IInv, TypeOK, Closing
  <2> QED
    BY <2>2, <2>3 DEF Stages, CanStep, Done
<1> QED
  BY <1>1, Invariance, PTL

--------------------------------------------------------------------------------
(* The pool implements RefreshContract *)

\* The contract counts with the Cardinality of its own instance of FiniteSets.
LEMMA SameCardinality ==
    ASSUME NEW S
    PROVE  Contract!Cardinality(S) = Cardinality(S)
BY DEF Contract!Cardinality, Cardinality

\* The keys that are not idle are those of the map, and the running ones are
\* those of the goroutines inside their fetch.
LEMMA JobsOfState ==
    ASSUME IInv
    PROVE  /\ Contract!Busy = active
           /\ Contract!Active = {k \in Keys : \E w \in Fetching : key[w] = k}
           /\ \A w \in Fetching : key[w] \in active
<1>1. Fetching \subseteq KeyHolders
  BY DEF Fetching, KeyHolders
<1>2. \A w \in Fetching : key[w] \in active
  BY <1>1 DEF IInv, Ownership
<1>3. active \subseteq Keys
  BY DEF IInv, TypeOK
<1>4. Contract!Busy = active
  BY <1>2, <1>3 DEF Contract!Busy, JobOf
<1>5. Contract!Active = {k \in Keys : \E w \in Fetching : key[w] = k}
  BY DEF Contract!Active, JobOf
<1> QED BY <1>2, <1>4, <1>5

\* A goroutine that holds a slot and has not started its fetch leaves room for
\* one more running key.
LEMMA RoomToStart ==
    ASSUME IInv, NEW w \in SlotHolders, w \notin Fetching
    PROVE  Cardinality(Contract!Active) < Slots
<1> DEFINE A == Contract!Active
           others == SlotHolders \ {w}
           f == [k \in A |-> CHOOSE v \in Fetching : key[v] = k]
<1>1. /\ IsFiniteSet(SlotHolders)
      /\ Cardinality(SlotHolders) <= Slots
      /\ Cardinality(SlotHolders) \in Nat
  BY FiniteHolders, FS_CardinalityType, ConstantsAssumption DEF IInv, Accounting, TypeOK
<1>2. /\ IsFiniteSet(others)
      /\ Cardinality(others) = Cardinality(SlotHolders) - 1
  BY <1>1, FS_RemoveElement
<1>3. \A k \in A : \E v \in Fetching : key[v] = k
  BY JobsOfState
<1>4. \A k \in A : f[k] \in Fetching /\ key[f[k]] = k
  BY <1>3
<1>5. Fetching \subseteq others
  BY DEF Fetching, SlotHolders
<1>6. f \in Injection(A, others)
  <2>1. f \in [A -> others]
    BY <1>4, <1>5
  <2>2. IsInjective(f)
    BY <1>4 DEF IsInjective
  <2> HIDE DEF f, A, others
  <2> QED BY <2>1, <2>2 DEF Injection
<1> HIDE DEF f, A, others
<1>7. IsFiniteSet(A) /\ Cardinality(A) <= Cardinality(others)
  BY <1>2, <1>6, FS_Injection
<1>8. Cardinality(A) \in Nat
  BY <1>7, FS_CardinalityType
<1>9. Cardinality(A) < Slots
  BY <1>1, <1>2, <1>7, <1>8, ConstantsAssumption
<1> QED BY <1>9 DEF A

\* What one step that moves a key's job looks like to the contract.
LEMMA OneJobMoves ==
    ASSUME NEW k \in Keys, \A j \in Keys : j # k => JobOf(j)' = JobOf(j)
    PROVE  /\ [j \in Keys |-> JobOf(j)'] = [[j \in Keys |-> JobOf(j)] EXCEPT ![k] = JobOf(k)']
           /\ JobOf(k)' = JobOf(k) => [j \in Keys |-> JobOf(j)'] = [j \in Keys |-> JobOf(j)]
<1> DEFINE now(j) == JobOf(j)
           then(j) == JobOf(j)'
<1>1. \A j \in Keys : j # k => then(j) = now(j)
  OBVIOUS
<1> HIDE DEF now, then
<1>2. /\ [j \in Keys |-> then(j)] = [[j \in Keys |-> now(j)] EXCEPT ![k] = then(k)]
      /\ then(k) = now(k) => [j \in Keys |-> then(j)] = [j \in Keys |-> now(j)]
  BY <1>1
<1> QED BY <1>2 DEF now, then

\* A goroutine that stays outside its fetch changes no job.
LEMMA JobsStay ==
    ASSUME active' = active, Fetching' = Fetching,
           \A v \in Fetching : key'[v] = key[v]
    PROVE  /\ \A j \in Keys : JobOf(j)' = JobOf(j)
           /\ [j \in Keys |-> JobOf(j)'] = [j \in Keys |-> JobOf(j)]
<1>1. ASSUME NEW j \in Keys PROVE JobOf(j)' = JobOf(j)
  BY DEF JobOf
<1> DEFINE now(j) == JobOf(j)
           then(j) == JobOf(j)'
<1>2. \A j \in Keys : then(j) = now(j)
  BY <1>1
<1> HIDE DEF now, then
<1>3. [j \in Keys |-> then(j)] = [j \in Keys |-> now(j)]
  BY <1>2
<1> QED BY <1>1, <1>3 DEF now, then

\* Only a goroutine that enters or leaves its fetch changes the set Fetching.
LEMMA AdvanceFetching ==
    ASSUME TypeOK, NEW w \in Workers, NEW s, Advance(w, s)
    PROVE  Fetching' = IF s = "fetching" THEN Fetching \cup {w} ELSE Fetching \ {w}
BY DEF Advance, TypeOK, Fetching

\* The initial state of the pool is the initial state of its contract.
LEMMA ContractInit == RefreshInit => Contract!Init
<1> SUFFICES ASSUME RefreshInit PROVE Contract!Init
  OBVIOUS
<1>1. \A k \in Keys : JobOf(k) = "idle"
  BY DEF RefreshInit, JobOf, Fetching
<1>2. StopOf = "serving"
  BY DEF RefreshInit, StopOf
<1> QED BY <1>1, <1>2 DEF Contract!Init

\* schedule admits a job.
LEMMA ScheduleAdmits ==
    ASSUME IInv, NEW k \in Keys, Schedule(k)
    PROVE  Contract!Admit(k)
<1>1. PICK w \in Workers : /\ pc[w] = "none"
                           /\ pc' = [pc EXCEPT ![w] = "queued"]
                           /\ key' = [key EXCEPT ![w] = k]
  BY DEF Schedule
<1>2. /\ Fetching' = Fetching
      /\ \A v \in Fetching : key'[v] = key[v]
      /\ active' = active \cup {k}
      /\ k \notin active
  BY <1>1 DEF IInv, TypeOK, Fetching, Schedule, Admits
<1>3. \A v \in Fetching : key[v] # k
  BY <1>2, JobsOfState
<1>4. JobOf(k) = "idle" /\ JobOf(k)' = "admitted"
  BY <1>2, <1>3 DEF JobOf
<1>5. \A j \in Keys : j # k => JobOf(j)' = JobOf(j)
  BY <1>2 DEF JobOf
<1>6. /\ StopOf = "serving"
      /\ StopOf' = StopOf
  BY DEF Schedule, Admits, StopOf, IInv, Closing
<1>7. Cardinality(Contract!Busy) < Capacity
  BY JobsOfState DEF Schedule, Admits
<1>8. [j \in Keys |-> JobOf(j)'] = [[j \in Keys |-> JobOf(j)] EXCEPT ![k] = "admitted"]
  BY <1>4, <1>5, OneJobMoves
<1> QED BY <1>4, <1>6, <1>7, <1>8, SameCardinality DEF Contract!Admit

\* A goroutine that starts its fetch starts the job of its key, within the slots.
LEMMA FetchStarts ==
    ASSUME IInv, NEW w \in Workers, StartFetch(w), ~Done(w)
    PROVE  \E k \in Keys : Contract!Start(k)
<1>1. /\ pc[w] = "slotted"
      /\ Advance(w, "fetching")
      /\ UNCHANGED <<active, key, closer, cancelled>>
  BY DEF StartFetch
<1>2. w \in SlotHolders /\ w \in KeyHolders /\ w \notin Fetching
  BY <1>1 DEF SlotHolders, KeyHolders, Fetching
<1>3. PICK k \in Keys : k = key[w] /\ k \in active
  BY <1>2 DEF IInv, Ownership, TypeOK
<1>4. Fetching' = Fetching \cup {w}
  BY <1>1, AdvanceFetching DEF IInv
<1>5. \A v \in Fetching : key[v] # k
  BY <1>2, <1>3 DEF IInv, Ownership, OneFetchPerKey, Fetching, KeyHolders
<1>6. JobOf(k) = "admitted" /\ JobOf(k)' = "running"
  BY <1>1, <1>3, <1>4, <1>5 DEF JobOf
<1>7. \A j \in Keys : j # k => JobOf(j)' = JobOf(j)
  BY <1>1, <1>3, <1>4 DEF JobOf
<1>8. StopOf = "serving" /\ StopOf' = StopOf
  BY <1>1 DEF StopOf, Done, IInv, Closing, TypeOK
<1>9. Cardinality(Contract!Active) < Slots
  BY <1>2, RoomToStart
<1>10. [j \in Keys |-> JobOf(j)'] = [[j \in Keys |-> JobOf(j)] EXCEPT ![k] = "running"]
  BY <1>6, <1>7, OneJobMoves
<1>11. Contract!Start(k)
  BY <1>6, <1>8, <1>9, <1>10, SameCardinality DEF Contract!Start
<1> QED BY <1>11

\* A fetch that returns finishes the job of its key.
LEMMA FetchFinishes ==
    ASSUME IInv, NEW w \in Workers, FetchReturns(w)
    PROVE  \E k \in Keys : Contract!Finish(k)
<1>1. /\ pc[w] = "fetching"
      /\ Advance(w, "releasing")
      /\ UNCHANGED <<active, key, closer, cancelled>>
  BY DEF FetchReturns
<1>2. w \in KeyHolders /\ w \in Fetching
  BY <1>1 DEF KeyHolders, Fetching
<1>3. PICK k \in Keys : k = key[w] /\ k \in active
  BY <1>2 DEF IInv, Ownership, TypeOK
<1>4. Fetching' = Fetching \ {w}
  BY <1>1, AdvanceFetching DEF IInv
<1>5. \A v \in Fetching : key[v] = k => v = w
  BY <1>2, <1>3 DEF IInv, Ownership, OneFetchPerKey, Fetching, KeyHolders
<1>6. JobOf(k) = "running" /\ JobOf(k)' = "admitted"
  BY <1>1, <1>2, <1>3, <1>4, <1>5 DEF JobOf
<1>7. \A j \in Keys : j # k => JobOf(j)' = JobOf(j)
  BY <1>1, <1>3, <1>4 DEF JobOf
<1>8. StopOf' = StopOf
  BY <1>1 DEF StopOf
<1>9. [j \in Keys |-> JobOf(j)'] = [[j \in Keys |-> JobOf(j)] EXCEPT ![k] = "admitted"]
  BY <1>6, <1>7, OneJobMoves
<1>10. Contract!Finish(k)
  BY <1>6, <1>8, <1>9 DEF Contract!Finish
<1> QED BY <1>10

\* Clearing the map frees the job.
LEMMA ClearFrees ==
    ASSUME IInv, NEW w \in Workers, ClearKey(w)
    PROVE  \E k \in Keys : Contract!Free(k)
<1>1. /\ pc[w] = "clearing"
      /\ Advance(w, "leaving")
      /\ active' = active \ {key[w]}
      /\ UNCHANGED <<key, closer, cancelled>>
  BY DEF ClearKey
<1>2. w \in KeyHolders /\ w \notin Fetching
  BY <1>1 DEF KeyHolders, Fetching
<1>3. PICK k \in Keys : k = key[w] /\ k \in active
  BY <1>2 DEF IInv, Ownership, TypeOK
<1>4. Fetching' = Fetching
  BY <1>1, <1>2, AdvanceFetching DEF IInv
<1>5. \A v \in Fetching : key[v] # k
  BY <1>2, <1>3 DEF IInv, Ownership, OneFetchPerKey, Fetching, KeyHolders
<1>6. JobOf(k) = "admitted" /\ JobOf(k)' = "idle"
  BY <1>1, <1>3, <1>4, <1>5 DEF JobOf
<1>7. \A j \in Keys : j # k => JobOf(j)' = JobOf(j)
  BY <1>1, <1>3, <1>4 DEF JobOf
<1>8. StopOf' = StopOf
  BY <1>1 DEF StopOf
<1>9. [j \in Keys |-> JobOf(j)'] = [[j \in Keys |-> JobOf(j)] EXCEPT ![k] = "idle"]
  BY <1>6, <1>7, OneJobMoves
<1>10. Contract!Free(k)
  BY <1>6, <1>8, <1>9 DEF Contract!Free
<1> QED BY <1>10

\* The other steps of a goroutine are invisible to the contract.
LEMMA WorkStutters ==
    ASSUME IInv, NEW w \in Workers,
           \/ AcquireSlot(w)
           \/ GiveUp(w)
           \/ StartFetch(w) /\ Done(w)
           \/ ReleaseSlot(w)
           \/ Leave(w)
           \/ Expire(w)
    PROVE  UNCHANGED Contract!contractVars
<1>1. UNCHANGED <<active, closer, cancelled>>
  BY DEF AcquireSlot, GiveUp, StartFetch, ReleaseSlot, Leave, Expire
<1>2. /\ Fetching' = Fetching
      /\ \A v \in Fetching : key'[v] = key[v]
  <2>1. CASE Expire(w)
    BY <2>1 DEF Expire, Fetching
  <2>2. CASE ~Expire(w)
    <3>1. /\ pc[w] \in {"queued", "slotted", "releasing", "leaving"}
          /\ key' = key \/ key' = [key EXCEPT ![w] = NoKey]
      BY <2>2 DEF AcquireSlot, GiveUp, StartFetch, ReleaseSlot, Leave
    <3>2. PICK s \in {"slotted", "clearing", "releasing", "none"} : Advance(w, s)
      BY <2>2 DEF AcquireSlot, GiveUp, StartFetch, ReleaseSlot, Leave
    <3>3. Fetching' = Fetching /\ w \notin Fetching
      BY <3>1, <3>2, AdvanceFetching DEF IInv, Fetching
    <3> QED BY <3>1, <3>3 DEF IInv, TypeOK, Fetching
  <2> QED BY <2>1, <2>2
<1>3. StopOf' = StopOf
  BY <1>1 DEF StopOf
<1> QED BY <1>1, <1>2, <1>3, JobsStay DEF Contract!contractVars

\* The signal and close() stop the service once, and the join stops it for good.
LEMMA CloseStops ==
    ASSUME IInv, CancelParent \/ CloseBegin \/ CloseJoin
    PROVE  [Contract!Next]_(Contract!contractVars)
<1>1. UNCHANGED <<active, pc, key>>
  BY DEF CancelParent, CloseBegin, CloseJoin
<1>2. [j \in Keys |-> JobOf(j)'] = [j \in Keys |-> JobOf(j)]
  BY <1>1, JobsStay DEF Fetching
<1>3. CASE CancelParent \/ CloseBegin
  <2>1. /\ closer = "open"
        /\ closer' \in {"open", "waiting"}
        /\ cancelled'
    BY <1>3 DEF CancelParent, CloseBegin, IInv, Closing, TypeOK
  <2>2. StopOf \in {"serving", "stopping"} /\ StopOf' = "stopping"
    BY <2>1 DEF StopOf
  <2>3. CASE StopOf = "serving"
    BY <1>2, <2>2, <2>3 DEF Contract!Next, Contract!Stop
  <2>4. CASE StopOf = "stopping"
    BY <1>2, <2>2, <2>4 DEF Contract!contractVars
  <2> QED BY <2>2, <2>3, <2>4
<1>4. CASE CloseJoin
  <2>1. StopOf = "stopping" /\ StopOf' = "stopped"
    BY <1>4 DEF CloseJoin, StopOf, IInv, Closing
  <2>2. Running = {}
    BY <1>4, FS_EmptySet, FiniteHolders DEF CloseJoin, IInv, Accounting
  <2>3. Contract!Busy = {}
    <3>1. KeyHolders = {}
      BY <2>2 DEF Running, KeyHolders
    <3> QED BY <3>1, JobsOfState DEF IInv, Ownership
  <2> QED BY <1>2, <2>1, <2>3 DEF Contract!Next, Contract!Stopped
<1> QED BY <1>3, <1>4

\* Every step of the pool is a step of the contract or changes nothing it sees.
LEMMA ContractStep == IInv /\ [RefreshNext]_refreshVars => [Contract!Next]_(Contract!contractVars)
<1> SUFFICES ASSUME IInv, [RefreshNext]_refreshVars PROVE [Contract!Next]_(Contract!contractVars)
  OBVIOUS
<1>1. ASSUME NEW k \in Keys, Schedule(k) PROVE Contract!Next
  BY <1>1, ScheduleAdmits DEF Contract!Next
<1>2. ASSUME NEW w \in Workers, Work(w) \/ Expire(w) PROVE [Contract!Next]_(Contract!contractVars)
  <2>1. CASE StartFetch(w) /\ ~Done(w)
    BY <2>1, FetchStarts DEF Contract!Next
  <2>2. CASE FetchReturns(w)
    BY <2>2, FetchFinishes DEF Contract!Next
  <2>3. CASE ClearKey(w)
    BY <2>3, ClearFrees DEF Contract!Next
  <2>4. CASE \/ AcquireSlot(w) \/ GiveUp(w) \/ (StartFetch(w) /\ Done(w))
             \/ ReleaseSlot(w) \/ Leave(w) \/ Expire(w)
    BY <2>4, WorkStutters
  <2> QED BY <1>2, <2>1, <2>2, <2>3, <2>4 DEF Work
<1>3. CASE CancelParent \/ CloseBegin \/ CloseJoin
  BY <1>3, CloseStops
<1>4. CASE UNCHANGED refreshVars
  <2>1. UNCHANGED <<active, key, closer, cancelled>> /\ Fetching' = Fetching
    BY <1>4 DEF refreshVars, Fetching
  <2>2. StopOf' = StopOf
    BY <2>1 DEF StopOf
  <2> QED BY <2>1, <2>2, JobsStay DEF Contract!contractVars
<1> QED BY <1>1, <1>2, <1>3, <1>4 DEF RefreshNext

\* refresh.go as its callers see it: a key is admitted, run and freed within the
\* two limits, nothing starts after the stop, and close() returns only when every
\* key is idle again, for every number of keys, goroutines and slots.
THEOREM PoolImplementsContract == RefreshSpec => ImplementsContract
BY Invariance, ContractInit, ContractStep, PTL DEF RefreshSpec, ImplementsContract, Contract!Spec

--------------------------------------------------------------------------------
(* The process *)

LifeTypeOK ==
    /\ main \in {"serving", "shutdown", "deferred", "closing", "exited"}
    /\ accepting \in BOOLEAN
    /\ request \in [Requests -> {"idle", "working", "querying", "writing", "committed"}]
    /\ repository \in {"open", "redisClosed", "draining", "closed"}
    /\ graceful \in BOOLEAN
    /\ stale \in BOOLEAN

\* The deferred calls of run() run once each and in their order.
DeferredOrder ==
    /\ main \in {"serving", "shutdown", "deferred"} => closer = "open"
    /\ repository # "open" => closer = "joined"

\* A Shutdown that waited for every request left nobody who could start one, or
\* lose an invalidation to the closed Redis client.
GracefulOrder ==
    /\ main = "shutdown" => ~accepting
    /\ graceful => main \in {"deferred", "closing", "exited"} /\ ~accepting
    /\ stale => repository # "open" \/ main = "exited"
    /\ GracefulStopIsClean

\* The inductive invariant of the process.
LifeInv == IInv /\ LifeTypeOK /\ DeferredOrder /\ GracefulOrder

\* Every step of the process is a step of the pool of refreshes or leaves the
\* pool alone.
LEMMA LifeStepIsRefreshStep == [Next]_vars => [RefreshNext]_refreshVars
<1> SUFFICES ASSUME [Next]_vars PROVE [RefreshNext]_refreshVars
  OBVIOUS
<1>1. CASE \E r \in Requests : ScheduleRefresh(r)
  BY <1>1 DEF ScheduleRefresh, RefreshNext
<1>2. CASE RefreshStep
  BY <1>2 DEF RefreshStep, RefreshNext
<1>3. CASE Signal \/ CloseHandler \/ JoinHandler
  BY <1>3 DEF Signal, CloseHandler, JoinHandler, RefreshNext
<1>4. CASE \E r \in Requests : Arrive(r) \/ Acquire(r) \/ QueryEnds(r) \/ WriteEnds(r)
                                 \/ Invalidate(r) \/ Reply(r)
  BY <1>4 DEF Arrive, Acquire, QueryEnds, WriteEnds, Invalidate, Reply
<1>5. CASE \/ BeginShutdown \/ ShutdownReturns \/ ShutdownTimesOut \/ ListenerFails
           \/ CloseRedis \/ ClosePool \/ PoolDrained \/ Exit
  BY <1>5 DEF BeginShutdown, ShutdownReturns, ShutdownTimesOut, ListenerFails,
              CloseRedis, ClosePool, PoolDrained, Exit
<1>6. CASE UNCHANGED vars
  BY <1>6 DEF vars
<1> QED BY <1>1, <1>2, <1>3, <1>4, <1>5, <1>6 DEF Next

\* main.go: the server uses the pool as the pool allows, so whatever holds of the
\* pool alone, its contract included, holds of the pool in the process.
THEOREM ProcessRunsThePool == Spec => RefreshSpec
<1>1. Init => RefreshInit
  BY DEF Init
<1> QED BY <1>1, LifeStepIsRefreshStep, PTL DEF Spec, RefreshSpec

\* The goroutines of the refreshes do not touch closer.
LEMMA WorkersKeepCloser ==
    ASSUME \/ \E k \in Keys : Schedule(k)
           \/ \E w \in Workers : Work(w) \/ Expire(w)
           \/ CancelParent
    PROVE  closer' = closer
BY DEF Schedule, Work, AcquireSlot, GiveUp, StartFetch, FetchReturns,
       ReleaseSlot, ClearKey, Leave, Expire, CancelParent

\* A step of a request keeps the invariant of the process.
LEMMA RequestInv ==
    ASSUME LifeInv, NEW r \in Requests,
           \/ Arrive(r) \/ Acquire(r) \/ QueryEnds(r) \/ WriteEnds(r)
           \/ Invalidate(r) \/ Reply(r)
    PROVE  (LifeTypeOK /\ DeferredOrder /\ GracefulOrder)'
<1>1. /\ UNCHANGED <<refreshVars, main, accepting, repository, graceful>>
      /\ request' \in [Requests -> {"idle", "working", "querying", "writing", "committed"}]
      /\ stale' = stale \/ stale' = (stale \/ repository # "open")
      /\ main # "exited"
  BY DEF Arrive, Acquire, QueryEnds, WriteEnds, Invalidate, Reply, Move, LifeInv, LifeTypeOK
<1>2. LifeTypeOK' /\ DeferredOrder'
  BY <1>1 DEF LifeInv, LifeTypeOK, DeferredOrder, refreshVars
<1>3. ~graceful
  <2> SUFFICES ASSUME graceful PROVE FALSE
    OBVIOUS
  <2>1. ~accepting /\ request[r] = "idle"
    BY DEF LifeInv, GracefulOrder, GracefulStopIsClean, InFlight
  <2> QED BY <2>1 DEF Arrive, Acquire, QueryEnds, WriteEnds, Invalidate, Reply, Move
<1> QED BY <1>1, <1>2, <1>3 DEF LifeInv, LifeTypeOK, GracefulOrder, GracefulStopIsClean

\* A step of a refresh, or the signal, keeps the invariant of the process.
LEMMA RefreshInv ==
    ASSUME LifeInv, (\E r \in Requests : ScheduleRefresh(r)) \/ RefreshStep \/ Signal
    PROVE  (LifeTypeOK /\ DeferredOrder /\ GracefulOrder)'
<1>1. UNCHANGED lifeVars /\ closer' = closer
  BY WorkersKeepCloser DEF ScheduleRefresh, RefreshStep, Signal
<1> QED BY <1>1 DEF lifeVars, LifeInv, LifeTypeOK, DeferredOrder, GracefulOrder,
                    GracefulStopIsClean, InFlight

\* A step of run() keeps the invariant of the process.
LEMMA RunInv ==
    ASSUME LifeInv,
           \/ BeginShutdown \/ ShutdownReturns \/ ShutdownTimesOut \/ ListenerFails
           \/ CloseHandler \/ JoinHandler \/ CloseRedis \/ ClosePool \/ PoolDrained
           \/ Exit \/ UNCHANGED vars
    PROVE  (LifeTypeOK /\ DeferredOrder /\ GracefulOrder)'
<1> USE DEF LifeInv, LifeTypeOK, DeferredOrder, GracefulOrder, GracefulStopIsClean, InFlight
<1>1. CASE BeginShutdown
  BY <1>1 DEF BeginShutdown, refreshVars
<1>2. CASE ShutdownReturns
  BY <1>2 DEF ShutdownReturns, refreshVars
<1>3. CASE ShutdownTimesOut \/ ListenerFails
  BY <1>3 DEF ShutdownTimesOut, ListenerFails, refreshVars
<1>4. CASE CloseHandler
  BY <1>4 DEF CloseHandler, CloseBegin
<1>5. CASE JoinHandler
  BY <1>5 DEF JoinHandler, CloseJoin, lifeVars
<1>6. CASE CloseRedis
  BY <1>6 DEF CloseRedis, refreshVars
<1>7. CASE ClosePool \/ PoolDrained
  BY <1>7 DEF ClosePool, PoolDrained, refreshVars
<1>8. CASE Exit
  BY <1>8 DEF Exit, refreshVars
<1>9. CASE UNCHANGED vars
  BY <1>9 DEF vars, lifeVars, refreshVars
<1> QED BY <1>1, <1>2, <1>3, <1>4, <1>5, <1>6, <1>7, <1>8, <1>9

\* Every reachable state of the process satisfies its inductive invariant.
THEOREM ProcessInvariance == Spec => []LifeInv
<1>1. Init => LifeInv
  BY InitInv DEF Init, RefreshInit, LifeInv, LifeTypeOK, DeferredOrder, GracefulOrder, GracefulStopIsClean
<1>2. LifeInv /\ [Next]_vars => LifeInv'
  <2> SUFFICES ASSUME LifeInv, [Next]_vars PROVE LifeInv'
    OBVIOUS
  <2>1. IInv'
    BY LifeStepIsRefreshStep, NextInv DEF LifeInv
  <2>2. (LifeTypeOK /\ DeferredOrder /\ GracefulOrder)'
    BY RequestInv, RefreshInv, RunInv DEF Next
  <2> QED BY <2>1, <2>2 DEF LifeInv
<1> QED BY <1>1, <1>2, PTL DEF Spec

\* server.go, Close: on every path out of run(), the one that skips Shutdown
\* included, no refresh goroutine is left when the repository starts to close.
THEOREM RepositoryIsClosedLast == Spec => []RepositoryOutlivesRefreshes
<1>1. LifeInv => RepositoryOutlivesRefreshes
  BY DEF LifeInv, DeferredOrder, IInv, Closing, RepositoryOutlivesRefreshes
<1> QED BY <1>1, ProcessInvariance, PTL

\* main.go, Shutdown: when it returned before its fifteen seconds, no request runs
\* into the closing repository and no write loses its invalidation.
THEOREM GracefulStop == Spec => []GracefulStopIsClean
<1>1. LifeInv => GracefulStopIsClean
  BY DEF LifeInv, GracefulOrder
<1> QED BY <1>1, ProcessInvariance, PTL

================================================================================
