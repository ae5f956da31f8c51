------------------------ MODULE MergedMemoryCacheProofs ------------------------
(***************************************************************************)
(* The merged memory cache is fresh and bounded for every set of           *)
(* identities, readers and writers and every capacity.                     *)
(*                                                                         *)
(* The invariant that carries the proof is Current: whoever still holds    *)
(* the revision it saw at its lookup has loaded a content that includes    *)
(* every invalidated change, so storing it keeps EntriesCurrent.           *)
(***************************************************************************)
EXTENDS MergedMemoryCache, FiniteSetTheorems, TLAPS

Ordered ==
    /\ effective <= stored
    /\ \A w \in Writers : change[w] <= stored
    /\ \A r \in Readers : floor[r] <= effective /\ seen[r] <= revision

Current ==
    \A r \in Readers : step[r] = "store" =>
        /\ floor[r] <= got[r]
        /\ seen[r] = revision => effective <= got[r]

Bounded == IsFiniteSet(DOMAIN entries) /\ EntriesBounded

IInv == TypeOK /\ Ordered /\ Current /\ EntriesCurrent /\ FreshRead

\* There is an identity to read.
LEMMA AnyIdentityType == AnyIdentity \in Identities
BY MemoryAssumption DEF AnyIdentity

\* What With returns: the new entry, and old entries only.
LEMMA WithReturns ==
    ASSUME NEW i \in Identities, NEW v
    PROVE  /\ DOMAIN With(i, v) \subseteq DOMAIN entries \cup {i}
           /\ i \in DOMAIN With(i, v)
           /\ \A j \in DOMAIN With(i, v) : With(i, v)[j] = IF j = i THEN v ELSE entries[j]
BY DEF With

\* The invariant holds of an empty map.
LEMMA InitIInv == Init => IInv
BY AnyIdentityType DEF Init, IInv, TypeOK, Ordered, Current, EntriesCurrent, FreshRead, NoEntries

\* Every step of a read or a writer keeps the invariant.
LEMMA NextIInv == IInv /\ [Next]_vars => IInv'
<1> SUFFICES ASSUME IInv, [Next]_vars PROVE IInv'
  OBVIOUS
<1> USE DEF IInv
<1>1. ASSUME NEW r \in Readers, Begin(r) PROVE IInv'
  BY <1>1 DEF Begin, TypeOK, Ordered, Current, EntriesCurrent, FreshRead
<1>2. ASSUME NEW r \in Readers, Lookup(r) PROVE IInv'
  <2>1. TypeOK'
    BY <1>2 DEF Lookup, TypeOK
  <2>2. (Ordered /\ Current /\ EntriesCurrent /\ FreshRead)'
    BY <1>2 DEF Lookup, TypeOK, Ordered, Current, EntriesCurrent, FreshRead
  <2> QED BY <2>1, <2>2
<1>3. ASSUME NEW r \in Readers, Load(r) PROVE IInv'
  BY <1>3 DEF Load, TypeOK, Ordered, Current, EntriesCurrent, FreshRead
<1>4. ASSUME NEW r \in Readers, Store(r) PROVE IInv'
  <2> DEFINE new == With(wanted[r], got[r])
  <2>1. wanted[r] \in Identities /\ got[r] \in Nat
    BY DEF TypeOK
  <2>2. /\ DOMAIN new \subseteq DOMAIN entries \cup {wanted[r]}
        /\ \A j \in DOMAIN new : new[j] = IF j = wanted[r] THEN got[r] ELSE entries[j]
    BY <2>1, WithReturns
  <2>3. \/ revision = seen[r] /\ entries' = new
        \/ entries' = entries
    BY <1>4 DEF Store
  <2> HIDE DEF new
  <2>4. TypeOK'
    BY <1>4, <2>1, <2>2, <2>3 DEF Store, TypeOK
  <2>5. EntriesCurrent'
    <3>1. step[r] = "store" /\ effective' = effective
      BY <1>4 DEF Store
    <3>2. CASE revision = seen[r] /\ entries' = new
      <4>1. effective <= got[r]
        BY <3>1, <3>2 DEF Current
      <4> QED BY <2>2, <3>1, <3>2, <4>1 DEF EntriesCurrent
    <3>3. CASE entries' = entries
      BY <3>1, <3>3 DEF EntriesCurrent
    <3> QED BY <2>3, <3>2, <3>3
  <2>6. (Ordered /\ Current /\ FreshRead)'
    BY <1>4 DEF Store, TypeOK, Ordered, Current, FreshRead
  <2> QED BY <2>4, <2>5, <2>6
<1>5. ASSUME NEW r \in Readers, End(r) PROVE IInv'
  BY <1>5, AnyIdentityType DEF End, TypeOK, Ordered, Current, EntriesCurrent, FreshRead
<1>6. ASSUME NEW w \in Writers, Commit(w) PROVE IInv'
  BY <1>6 DEF Commit, readVars, TypeOK, Ordered, Current, EntriesCurrent, FreshRead
<1>7. ASSUME NEW w \in Writers, Invalidate(w) PROVE IInv'
  BY <1>7 DEF Invalidate, readVars, NoEntries, TypeOK, Ordered, Current, EntriesCurrent, FreshRead
<1>8. CASE UNCHANGED vars
  BY <1>8 DEF vars, readVars, TypeOK, Ordered, Current, EntriesCurrent, FreshRead
<1> QED
  BY <1>1, <1>2, <1>3, <1>4, <1>5, <1>6, <1>7, <1>8 DEF Next

\* The invariant holds in every reachable state.
LEMMA Invariance == Spec => []IInv
BY InitIInv, NextIInv, PTL DEF Spec

\* The variables keep their types.
THEOREM MemoryTypeCorrect == Spec => []TypeOK
BY Invariance, PTL DEF IInv

\* An answer includes every change invalidated before the read began.
THEOREM MemoryFresh == Spec => []FreshRead
BY Invariance, PTL DEF IInv

\* No entry is older than the newest invalidated change.
THEOREM MemoryEntriesCurrent == Spec => []EntriesCurrent
BY Invariance, PTL DEF IInv

\* The map never outgrows its capacity.
THEOREM MemoryBounded == Spec => []EntriesBounded
<1>1. Init => Bounded
  BY FS_EmptySet, MemoryAssumption DEF Init, NoEntries, Bounded, EntriesBounded
<1>2. Bounded /\ [Next]_vars => Bounded'
  <2> SUFFICES ASSUME Bounded, [Next]_vars PROVE Bounded'
    OBVIOUS
  <2> USE DEF Bounded, EntriesBounded
  <2>1. ASSUME NEW r \in Readers, Store(r), revision = seen[r] PROVE Bounded'
    <3> DEFINE kept == IF Cardinality(DOMAIN entries) >= Capacity THEN {} ELSE DOMAIN entries
    <3>1. DOMAIN entries' = kept \cup {wanted[r]}
      BY <2>1 DEF Store, With
    <3>2. IsFiniteSet(kept) /\ Cardinality(kept) \in Nat /\ Cardinality(kept) < Capacity
      <4>1. CASE Cardinality(DOMAIN entries) >= Capacity
        BY <4>1, FS_EmptySet, MemoryAssumption
      <4>2. CASE ~ (Cardinality(DOMAIN entries) >= Capacity)
        BY <4>2, FS_CardinalityType, MemoryAssumption
      <4> QED BY <4>1, <4>2
    <3> HIDE DEF kept
    <3>3. IsFiniteSet(kept \cup {wanted[r]})
      BY <3>2, FS_AddElement
    <3>4. Cardinality(kept \cup {wanted[r]}) \in {Cardinality(kept), Cardinality(kept) + 1}
      BY <3>2, FS_AddElement
    <3> QED BY <3>1, <3>2, <3>3, <3>4, MemoryAssumption
  <2>2. ASSUME NEW w \in Writers, Invalidate(w) PROVE Bounded'
    BY <2>2, FS_EmptySet, MemoryAssumption DEF Invalidate, NoEntries
  <2>3. CASE UNCHANGED entries
    BY <2>3
  <2>4. \/ UNCHANGED entries
        \/ \E r \in Readers : Store(r) /\ revision = seen[r]
        \/ \E w \in Writers : Invalidate(w)
    BY DEF Next, Begin, Lookup, Load, Store, End, Commit, vars
  <2> QED BY <2>1, <2>2, <2>3, <2>4
<1> QED BY <1>1, <1>2, PTL DEF Spec, Bounded

--------------------------------------------------------------------------------
(* The cache implements FreshReads *)

\* Nothing is cached or read that was not stored.
NothingInvented ==
    /\ \A i \in DOMAIN entries : entries[i] <= stored
    /\ \A r \in Readers : got[r] <= stored

\* Neither an entry nor an answer is newer than what is stored.
LEMMA NothingIsInvented == Spec => []NothingInvented
<1>1. Init => NothingInvented
  BY DEF Init, NoEntries, NothingInvented
<1>2. IInv /\ NothingInvented /\ [Next]_vars => NothingInvented'
  <2> SUFFICES ASSUME TypeOK, NothingInvented, [Next]_vars PROVE NothingInvented'
    BY DEF IInv
  <2> USE DEF NothingInvented
  <2>1. ASSUME NEW r \in Readers, Store(r) PROVE NothingInvented'
    <3>1. wanted[r] \in Identities /\ got[r] <= stored
      BY DEF TypeOK
    <3> DEFINE new == With(wanted[r], got[r])
    <3>2. /\ DOMAIN new \subseteq DOMAIN entries \cup {wanted[r]}
          /\ \A j \in DOMAIN new : new[j] = IF j = wanted[r] THEN got[r] ELSE entries[j]
      BY <3>1, WithReturns
    <3>3. entries' \in {new, entries} /\ stored' = stored /\ got' = got
      BY <2>1 DEF Store
    <3> HIDE DEF new
    <3> QED BY <3>1, <3>2, <3>3
  <2>2. ASSUME NEW r \in Readers, Begin(r) \/ Lookup(r) \/ Load(r) \/ End(r)
        PROVE  NothingInvented'
    BY <2>2 DEF Begin, Lookup, Load, End, TypeOK
  <2>3. ASSUME NEW w \in Writers, Commit(w) \/ Invalidate(w) PROVE NothingInvented'
    BY <2>3 DEF Commit, Invalidate, NoEntries, readVars, TypeOK
  <2>4. CASE UNCHANGED vars
    BY <2>4 DEF vars, readVars
  <2> QED BY <2>1, <2>2, <2>3, <2>4 DEF Next
<1> QED BY <1>1, <1>2, Invariance, PTL DEF Spec

\* The initial state of the cache is the initial state of the contract.
LEMMA ContractInit == Init => Contract!Init
BY DEF Init, Contract!Init, Phase

\* What is visible of a read, in maps on Readers.
Phases == [r \in Readers |-> Phase(r)]
Scopes == [r \in Readers |-> IF step[r] = "idle" THEN {} ELSE {1}]
Floors == [r \in Readers |-> [n \in {1} |-> floor[r]]]
Answers == [r \in Readers |-> [n \in {1} |-> IF step[r] = "answered" THEN got[r] ELSE 0]]

\* A read that begins is a Begin of FreshReads.
LEMMA BeginBegins ==
    ASSUME TypeOK, NEW r \in Readers, Begin(r)
    PROVE  Contract!Begin(r)
<1>1. /\ Phases[r] = "idle"
      /\ Phases' = [Phases EXCEPT ![r] = "reading"]
      /\ Scopes' = [Scopes EXCEPT ![r] = {1}]
      /\ Floors' = [Floors EXCEPT ![r] = [n \in {1} |-> effective]]
      /\ Answers' = Answers
  BY DEF Begin, TypeOK, Phases, Scopes, Floors, Answers, Phase
<1>2. UNCHANGED <<stored, effective>>
  BY DEF Begin
<1> QED BY <1>1, <1>2 DEF Contract!Begin, Phases, Scopes, Floors, Answers

\* A read that is answered, from the map or from the database, is answered freshly.
LEMMA AnswerAnswers ==
    ASSUME IInv, NothingInvented, NothingInvented', IInv',
           NEW r \in Readers, Lookup(r) \/ Store(r), step'[r] = "answered"
    PROVE  Contract!Answer(r)
<1>1. /\ step[r] \in {"lookup", "store"}
      /\ step' = [step EXCEPT ![r] = "answered"]
      /\ \A q \in Readers \ {r} : got'[q] = got[q]
      /\ UNCHANGED <<stored, effective, floor>>
  BY DEF IInv, TypeOK, Lookup, Store
<1>2. /\ Phases[r] = "reading"
      /\ Phases' = [Phases EXCEPT ![r] = "answered"]
      /\ Scopes' = Scopes
      /\ Floors' = Floors
      /\ \A q \in Readers \ {r} : Answers'[q] = Answers[q]
      /\ Answers'[r] = [n \in {1} |-> got'[r]]
      /\ Floors[r] = [n \in {1} |-> floor[r]]
      /\ Scopes[r] = {1}
  <2>1. step \in [Readers -> {"idle", "lookup", "load", "store", "answered"}]
    BY DEF IInv, TypeOK
  <2>2. step[r] # "idle" /\ step'[r] # "idle" /\ \A q \in Readers \ {r} : step'[q] = step[q]
    BY ONLY <1>1, <2>1
  <2>3. Phases[r] = "reading" /\ Floors[r] = [n \in {1} |-> floor[r]] /\ Scopes[r] = {1}
    BY <1>1 DEF Phases, Floors, Scopes, Phase
  <2>4. Phases' = [Phases EXCEPT ![r] = "answered"]
    BY ONLY <1>1, <2>1 DEF Phases, Phase
  <2>5. Scopes' = Scopes
    BY ONLY <2>2 DEF Scopes
  <2>6. Floors' = Floors
    BY ONLY <1>1 DEF Floors
  <2>7. \A q \in Readers \ {r} : Answers'[q] = Answers[q]
    BY ONLY <1>1, <2>2 DEF Answers
  <2>8. Answers'[r] = [n \in {1} |-> got'[r]]
    BY ONLY <1>1, <2>1 DEF Answers
  <2> QED BY <2>3, <2>4, <2>5, <2>6, <2>7, <2>8
<1>3. floor[r] <= got'[r] /\ got'[r] <= stored
  BY <1>1 DEF IInv, FreshRead, NothingInvented
<1>4. got'[r] \in floor[r] .. stored
  BY <1>3 DEF IInv, TypeOK
<1> QED BY <1>1, <1>2, <1>4 DEF Contract!Answer, Phases, Scopes, Floors, Answers

\* A read that ends is a Forget of FreshReads.
LEMMA EndForgets ==
    ASSUME TypeOK, NEW r \in Readers, End(r)
    PROVE  Contract!Forget(r)
<1>1. /\ Phases[r] # "idle"
      /\ Phases' = [Phases EXCEPT ![r] = "idle"]
      /\ Scopes' = [Scopes EXCEPT ![r] = {}]
      /\ Floors' = [Floors EXCEPT ![r] = [n \in {1} |-> 0]]
      /\ Answers' = [Answers EXCEPT ![r] = [n \in {1} |-> 0]]
  BY DEF End, TypeOK, Phases, Scopes, Floors, Answers, Phase
<1>2. UNCHANGED <<stored, effective>>
  BY DEF End
<1> QED BY <1>1, <1>2 DEF Contract!Forget, Phases, Scopes, Floors, Answers

\* A load, and a lookup that misses, are invisible.
LEMMA LoadStutters ==
    ASSUME TypeOK, NEW r \in Readers, Lookup(r) \/ Load(r), step'[r] # "answered"
    PROVE  UNCHANGED Contract!readVars
<1>1. /\ Phases' = Phases
      /\ Scopes' = Scopes
      /\ Floors' = Floors
      /\ Answers' = Answers
  BY DEF Lookup, Load, TypeOK, Phases, Scopes, Floors, Answers, Phase
<1>2. UNCHANGED <<stored, effective>>
  BY DEF Lookup, Load
<1> QED BY <1>1, <1>2 DEF Contract!readVars, Phases, Scopes, Floors, Answers

\* A commit changes the content, and an invalidation completes a change.
LEMMA WriteChanges ==
    ASSUME IInv, IInv', NEW w \in Writers, Commit(w) \/ Invalidate(w)
    PROVE  Contract!Change(1) \/ Contract!Complete(1)
<1>1. /\ Phases' = Phases
      /\ Scopes' = Scopes
      /\ Floors' = Floors
      /\ Answers' = Answers
  BY DEF Commit, Invalidate, readVars, Phases, Scopes, Floors, Answers, Phase
<1>2. CASE Commit(w)
  BY <1>1, <1>2 DEF Commit, Contract!Change, Phases, Scopes, Floors, Answers
<1>3. CASE Invalidate(w)
  <2>1. stored' = stored /\ effective' \in effective .. stored
    BY <1>3 DEF Invalidate, IInv, TypeOK, Ordered
  <2> QED BY <1>1, <2>1 DEF Contract!Complete, Phases, Scopes, Floors, Answers
<1> QED BY <1>2, <1>3

\* Every step is a step of FreshReads or a stutter.
LEMMA ContractStep ==
    IInv /\ IInv' /\ NothingInvented /\ NothingInvented' /\ [Next]_vars
        => [Contract!Next]_(Contract!readVars)
<1> SUFFICES ASSUME IInv, IInv', NothingInvented, NothingInvented', [Next]_vars
             PROVE  [Contract!Next]_(Contract!readVars)
  OBVIOUS
<1>1. ASSUME NEW r \in Readers, Begin(r) \/ Lookup(r) \/ Load(r) \/ Store(r) \/ End(r)
      PROVE  [Contract!Next]_(Contract!readVars)
  <2>1. CASE Begin(r)
    BY <2>1, BeginBegins DEF IInv, Contract!Next
  <2>2. CASE (Lookup(r) \/ Store(r)) /\ step'[r] = "answered"
    BY <2>2, AnswerAnswers DEF Contract!Next
  <2>3. CASE (Lookup(r) \/ Load(r)) /\ step'[r] # "answered"
    BY <2>3, LoadStutters DEF IInv
  <2>4. CASE End(r)
    BY <2>4, EndForgets DEF IInv, Contract!Next
  <2>5. Store(r) => step'[r] = "answered"
    BY DEF Store, IInv, TypeOK
  <2>6. Load(r) => step'[r] # "answered"
    BY DEF Load, IInv, TypeOK
  <2> QED BY <1>1, <2>1, <2>2, <2>3, <2>4, <2>5, <2>6
<1>2. ASSUME NEW w \in Writers, Commit(w) \/ Invalidate(w) PROVE Contract!Next
  BY <1>2, WriteChanges DEF Contract!Next
<1>3. CASE UNCHANGED vars
  BY <1>3 DEF vars, readVars, Contract!readVars, Phase
<1> QED BY <1>1, <1>2, <1>3 DEF Next

\* CachedMergedDanmaku as its callers see it: an answer holds every change that
\* was invalidated when the read began and nothing that was never stored.
THEOREM MemoryImplementsContract == Spec => ImplementsContract
BY Invariance, NothingIsInvented, ContractInit, ContractStep, PTL
   DEF Spec, ImplementsContract, Contract!Spec

================================================================================
