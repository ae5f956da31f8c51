--------------------------- MODULE DanmakuCacheProofs ---------------------------
(***************************************************************************)
(* The Redis cache answers freshly, for any number of namespaces, readers  *)
(* and writers, and whatever fails.                                        *)
(*                                                                         *)
(* FreshRead is not inductive: it says nothing of the entries a read will  *)
(* find.  The argument gives every revision a base, the content that was   *)
(* committed when the revision was made (poolBase, mergedBase).  An entry  *)
(* under a revision includes the revision's base, because a read takes the *)
(* revision before it loads.  A merged revision's base is included in the  *)
(* bases of the pool revisions in force from then on, because a writer     *)
(* raises the pool's revision first.  So the base of any revision a read   *)
(* can find includes what was invalidated before the read began.           *)
(***************************************************************************)
EXTENDS DanmakuCache, TLAPS

PoolBases ==
    \A n \in Namespaces, v \in Revisions :
        v <= revision[n] => poolBase[n][v] <= stored[n]

MergedBases ==
    \A n \in Namespaces, v \in Revisions :
        v <= revision[Merged] => mergedBase[v][n] <= poolBase[n][revision[n]]

Invalidated ==
    \A n \in Namespaces : effective[n] <= mergedBase[revision[Merged]][n]

EntriesKept ==
    /\ \A e \in poolEntries :
         e.rev <= revision[e.ns] /\ poolBase[e.ns][e.rev] <= e.val
    /\ \A e \in mergedEntries :
         /\ e.rev <= revision[Merged]
         /\ \A n \in Namespaces : mergedBase[e.rev][n] <= e.val[n]

WritersOrdered ==
    \A w \in Writers :
        /\ change[w] <= stored[target[w]]
        /\ writer[w] = "merged" =>
               change[w] <= poolBase[target[w]][revision[target[w]]]

\* Content v of namespace n is new enough for read r and for what it will store.
Suffices(r, n, v) ==
    /\ floor[r][n] <= v
    /\ mergedRev[r] # NoRevision => mergedBase[mergedRev[r]][n] <= v

ReadShape(r) ==
    /\ step[r] \in {"idle", "mergedRevision"} => mergedRev[r] = NoRevision
    /\ step[r] \in {"mergedRevision", "mergedEntry"} => goal[r] = Merged /\ at[r] = 1
    /\ step[r] = "mergedEntry" => mergedRev[r] # NoRevision
    /\ goal[r] # Merged => at[r] = goal[r] /\ mergedRev[r] = NoRevision
    /\ step[r] = "mergedStore" => mergedRev[r] # NoRevision /\ goal[r] = Merged
    /\ step[r] \in {"poolEntry", "poolStore"} => poolRev[r] # NoRevision

ReadFloor(r) ==
    /\ \A n \in Namespaces : floor[r][n] <= effective[n]
    /\ mergedRev[r] # NoRevision =>
           /\ mergedRev[r] <= revision[Merged]
           /\ \A n \in Namespaces : floor[r][n] <= mergedBase[mergedRev[r]][n]

ReadHolds(r) ==
    /\ (step[r] \in {"poolEntry", "load", "poolStore"} /\ poolRev[r] # NoRevision) =>
           /\ poolRev[r] <= revision[at[r]]
           /\ Suffices(r, at[r], poolBase[at[r]][poolRev[r]])
    /\ step[r] = "poolStore" => poolBase[at[r]][poolRev[r]] <= got[r][at[r]]

ReadSoFar(r) ==
    /\ (step[r] \in {"poolRevision", "poolEntry", "load", "poolStore"} /\ goal[r] = Merged) =>
           \A n \in Namespaces : n < at[r] => Suffices(r, n, got[r][n])
    /\ step[r] \in {"mergedStore", "answered"} =>
           \A n \in Scope(r) : Suffices(r, n, got[r][n])

Reading(r) == ReadShape(r) /\ ReadFloor(r) /\ ReadHolds(r) /\ ReadSoFar(r)
Bases == PoolBases /\ MergedBases /\ Invalidated
IInv == TypeOK /\ Bases /\ EntriesKept /\ WritersOrdered /\ \A r \in Readers : Reading(r)

--------------------------------------------------------------------------------
(* Types, and the initial state *)

\* Revisions and contents are natural numbers.
LEMMA Numbers ==
    /\ Revisions \subseteq Nat
    /\ 0 \in Revisions
    /\ NoRevision \notin Nat
    /\ Namespaces \subseteq Nat
    /\ 1 \in Namespaces
    /\ Merged \notin Namespaces
<1>1. Last \in Nat \ {0} /\ MaxRevision \in Nat
  BY CacheAssumption
<1> QED BY <1>1 DEF Revisions, NoRevision, Namespaces, Merged

\* The invariant holds of an empty Redis.
LEMMA InitIInv == Init => IInv
<1> SUFFICES ASSUME Init PROVE IInv
  OBVIOUS
<1> USE CacheAssumption DEF Init
<1>1. TypeOK
  BY DEF TypeOK, Namespaces, Merged, Revisions, NoRevision, Contents, Empty, ReadSteps
<1>2. Bases /\ EntriesKept /\ WritersOrdered
  BY DEF Bases, PoolBases, MergedBases, Invalidated, EntriesKept, WritersOrdered,
         Namespaces, Merged, Revisions, Empty
<1>3. ASSUME NEW r \in Readers PROVE Reading(r)
  BY DEF Reading, ReadShape, ReadFloor, ReadHolds, ReadSoFar, NoRevision, Empty
<1> QED BY <1>1, <1>2, <1>3 DEF IInv

--------------------------------------------------------------------------------
(* Reads *)

\* A read that does not move keeps what it knows while revisions only grow and
\* the bases of old revisions stay.
LEMMA ReadUnmoved ==
    ASSUME NEW q \in Readers, TypeOK, Reading(q),
           step'[q] = step[q], goal'[q] = goal[q], at'[q] = at[q],
           mergedRev'[q] = mergedRev[q], poolRev'[q] = poolRev[q],
           got'[q] = got[q], floor'[q] = floor[q],
           TypeOK',
           \A n \in {Merged} \cup Namespaces : revision[n] <= revision'[n],
           \A n \in Namespaces : effective[n] <= effective'[n],
           \A n \in Namespaces, v \in Revisions :
               v <= revision[n] => poolBase'[n][v] = poolBase[n][v],
           \A v \in Revisions : v <= revision[Merged] => mergedBase'[v] = mergedBase[v]
    PROVE  Reading(q)'
<1>1. /\ at[q] \in Namespaces /\ mergedRev[q] \in Revisions \cup {NoRevision}
      /\ poolRev[q] \in Revisions \cup {NoRevision}
      /\ \A n \in {Merged} \cup Namespaces : revision[n] \in Nat /\ revision'[n] \in Nat
      /\ \A n \in Namespaces : effective[n] \in Nat /\ effective'[n] \in Nat
                               /\ floor[q][n] \in Nat
      /\ \A v \in Revisions : v \in Nat
  <2>1. at[q] \in Namespaces /\ mergedRev[q] \in Revisions \cup {NoRevision}
        /\ poolRev[q] \in Revisions \cup {NoRevision}
    BY DEF TypeOK
  <2>2. \A n \in {Merged} \cup Namespaces : revision[n] \in Revisions /\ revision'[n] \in Revisions
    BY DEF TypeOK
  <2>3. effective \in Contents /\ effective' \in Contents /\ floor[q] \in Contents
    BY DEF TypeOK
  <2>4. \A n \in Namespaces : effective[n] \in Nat /\ effective'[n] \in Nat /\ floor[q][n] \in Nat
    BY <2>3 DEF Contents
  <2> QED BY <2>1, <2>2, <2>4, Numbers
<1>2. ReadShape(q)'
  BY DEF Reading, ReadShape
<1>3. ReadFloor(q)'
  BY <1>1 DEF Reading, ReadFloor
<1>4. \A n, v : Suffices(q, n, v) => Suffices(q, n, v)'
  BY <1>1 DEF Reading, ReadFloor, Suffices
<1>5. ReadHolds(q)'
  BY <1>1, <1>4 DEF Reading, ReadHolds, ReadShape
<1>6. ReadSoFar(q)'
  BY <1>4 DEF Reading, ReadSoFar, Scope
<1> QED BY <1>2, <1>3, <1>5, <1>6 DEF Reading

\* The step of one read leaves the other reads' knowledge alone.
LEMMA OtherReads ==
    ASSUME IInv, TypeOK', NEW r \in Readers,
           \A q \in Readers \ {r} :
               /\ step'[q] = step[q] /\ goal'[q] = goal[q] /\ at'[q] = at[q]
               /\ mergedRev'[q] = mergedRev[q] /\ poolRev'[q] = poolRev[q]
               /\ got'[q] = got[q] /\ floor'[q] = floor[q],
           UNCHANGED <<revision, effective, poolBase, mergedBase>>
    PROVE  \A q \in Readers \ {r} : Reading(q)'
<1> SUFFICES ASSUME NEW q \in Readers \ {r} PROVE Reading(q)'
  OBVIOUS
<1>1. /\ \A n \in {Merged} \cup Namespaces : revision[n] \in Nat
      /\ \A n \in Namespaces : effective[n] \in Nat
  BY Numbers DEF IInv, TypeOK, Contents
<1>2. TypeOK /\ Reading(q)
  BY DEF IInv
<1> QED BY <1>1, <1>2, ReadUnmoved

\* The order facts every step below uses, with the types they need.
LEMMA Ordering ==
    ASSUME IInv, NEW n \in Namespaces
    PROVE  /\ revision[n] \in Revisions /\ revision[Merged] \in Revisions
           /\ stored[n] \in Nat /\ effective[n] \in Nat
           /\ \A v \in Revisions : poolBase[n][v] \in Nat /\ mergedBase[v][n] \in Nat
           /\ effective[n] <= mergedBase[revision[Merged]][n]
           /\ mergedBase[revision[Merged]][n] <= poolBase[n][revision[n]]
           /\ poolBase[n][revision[n]] <= stored[n]
           /\ effective[n] <= poolBase[n][revision[n]]
           /\ effective[n] <= stored[n]
<1>1. /\ revision[n] \in Revisions /\ revision[Merged] \in Revisions
      /\ stored[n] \in Nat /\ effective[n] \in Nat
      /\ \A v \in Revisions : poolBase[n][v] \in Nat /\ mergedBase[v][n] \in Nat
  BY DEF IInv, TypeOK, Contents
<1>2. \A v \in Revisions : v \in Nat
  BY CacheAssumption DEF Revisions
<1>3. effective[n] <= mergedBase[revision[Merged]][n]
  BY DEF IInv, Bases, Invalidated
<1>4. mergedBase[revision[Merged]][n] <= poolBase[n][revision[n]]
  BY <1>1, <1>2 DEF IInv, Bases, MergedBases
<1>5. poolBase[n][revision[n]] <= stored[n]
  BY <1>1, <1>2 DEF IInv, Bases, PoolBases
<1> QED BY <1>1, <1>3, <1>4, <1>5

\* A read that begins keeps the invariant.
LEMMA BeginKeeps == ASSUME IInv, NEW r \in Readers, Begin(r) PROVE IInv'
<1>1. TypeOK'
  BY Numbers DEF IInv, TypeOK, Begin, redisVars, writeVars, baseVars, ReadSteps
<1>2. (Bases /\ EntriesKept /\ WritersOrdered)'
  BY DEF IInv, Begin, Bases, PoolBases, MergedBases, Invalidated, EntriesKept, WritersOrdered,
         redisVars, writeVars, baseVars
<1>3. \A q \in Readers \ {r} : Reading(q)'
  BY <1>1, OtherReads DEF IInv, TypeOK, Begin, redisVars, writeVars, baseVars
<1>4. Reading(r)'
  <2>1. mergedRev'[r] = NoRevision
    BY DEF IInv, TypeOK, Reading, ReadShape, Begin
  <2>2. /\ step'[r] = IF goal'[r] = Merged THEN "mergedRevision" ELSE "poolRevision"
        /\ at'[r] = IF goal'[r] = Merged THEN 1 ELSE goal'[r]
        /\ floor'[r] = effective /\ effective' = effective
    BY DEF IInv, TypeOK, Begin, writeVars
  <2>3. \A n \in Namespaces : effective[n] \in Nat
    BY DEF IInv, TypeOK, Contents
  <2>4. ReadFloor(r)'
    BY <2>1, <2>2, <2>3 DEF ReadFloor
  <2>5. ReadShape(r)' /\ ReadHolds(r)'
    BY <2>1, <2>2 DEF ReadShape, ReadHolds
  <2>6. ReadSoFar(r)'
    BY <2>2 DEF ReadSoFar
  <2> QED BY <2>4, <2>5, <2>6 DEF Reading
<1> QED BY <1>1, <1>2, <1>3, <1>4 DEF IInv

\* The revision of the merged view is read, or the read of it fails.
LEMMA GetMergedRevisionKeeps ==
    ASSUME IInv, NEW r \in Readers, GetMergedRevision(r) PROVE IInv'
<1>1. TypeOK'
  <2>1. revision[Merged] \in Revisions
    BY DEF IInv, TypeOK
  <2>2. step' \in [Readers -> ReadSteps] /\ mergedRev' \in [Readers -> Revisions \cup {NoRevision}]
    BY ZenonT(40), <2>1 DEF IInv, TypeOK, GetMergedRevision, ReadSteps
  <2> QED BY <2>2 DEF IInv, TypeOK, GetMergedRevision, redisVars, writeVars, baseVars
<1>2. (Bases /\ EntriesKept /\ WritersOrdered)'
  BY DEF IInv, GetMergedRevision, Bases, PoolBases, MergedBases, Invalidated, EntriesKept,
         WritersOrdered, redisVars, writeVars, baseVars
<1>3. \A q \in Readers \ {r} : Reading(q)'
  BY <1>1, OtherReads DEF IInv, TypeOK, GetMergedRevision, redisVars, writeVars, baseVars
<1>4. Reading(r)'
  <2> USE DEF GetMergedRevision, redisVars, writeVars, baseVars
  <2>1. step[r] = "mergedRevision" /\ goal[r] = Merged /\ at[r] = 1 /\ mergedRev[r] = NoRevision
    BY DEF IInv, Reading, ReadShape
  <2>2. \A n \in Namespaces : floor[r][n] \in Nat /\ floor[r][n] <= effective[n]
    BY DEF IInv, TypeOK, Reading, ReadFloor, Contents
  <2>3. \/ step'[r] = "mergedEntry" /\ mergedRev'[r] = revision[Merged]
        \/ step'[r] = "poolRevision" /\ mergedRev'[r] = NoRevision
    BY <2>1 DEF IInv, TypeOK
  <2>4. revision[Merged] \in Nat /\ NoRevision \notin Nat
    BY Numbers DEF IInv, TypeOK
  <2>5. ReadFloor(r)'
    BY <2>2, <2>3, <2>4, Ordering DEF ReadFloor
  <2>6. ReadShape(r)' /\ ReadHolds(r)'
    BY <2>1, <2>3, <2>4 DEF ReadShape, ReadHolds
  <2>7. ReadSoFar(r)'
    BY <2>1, <2>3, CacheAssumption DEF ReadSoFar, Namespaces
  <2> QED BY <2>5, <2>6, <2>7 DEF Reading
<1> QED BY <1>1, <1>2, <1>3, <1>4 DEF IInv

\* The merged entry is read, found or missed.
LEMMA GetMergedEntryKeeps ==
    ASSUME IInv, NEW r \in Readers, GetMergedEntry(r) PROVE IInv'
<1>1. TypeOK'
  BY DEF IInv, TypeOK, GetMergedEntry, MergedHit, redisVars, writeVars, baseVars, ReadSteps
<1>2. (Bases /\ EntriesKept /\ WritersOrdered)'
  BY DEF IInv, GetMergedEntry, Bases, PoolBases, MergedBases, Invalidated, EntriesKept,
         WritersOrdered, redisVars, writeVars, baseVars
<1>3. \A q \in Readers \ {r} : Reading(q)'
  BY <1>1, OtherReads DEF IInv, TypeOK, GetMergedEntry, redisVars, writeVars, baseVars
<1>4. Reading(r)'
  <2> USE DEF GetMergedEntry, redisVars, writeVars, baseVars
  <2>1. /\ step[r] = "mergedEntry" /\ goal[r] = Merged /\ at[r] = 1
        /\ mergedRev[r] # NoRevision /\ mergedRev[r] \in Revisions
    BY DEF IInv, TypeOK, Reading, ReadShape
  <2>2. ReadFloor(r) /\ ReadFloor(r)'
    BY DEF IInv, Reading, ReadFloor
  <2>3. ReadShape(r)' /\ ReadHolds(r)'
    BY <2>1 DEF IInv, TypeOK, ReadShape, ReadHolds
  <2>4. ReadSoFar(r)'
    <3>1. CASE step'[r] = "poolRevision"
      BY <2>1, <3>1, CacheAssumption DEF ReadSoFar, Namespaces
    <3>2. ASSUME NEW e \in MergedHit(r), got' = [got EXCEPT ![r] = e.val], step'[r] = "answered"
          PROVE  ReadSoFar(r)'
      <4>1. e.rev = mergedRev[r] /\ e.val \in Contents /\ got'[r] = e.val
        BY <3>2 DEF MergedHit, IInv, TypeOK
      <4>2. \A n \in Namespaces : mergedBase[mergedRev[r]][n] <= e.val[n]
        BY <4>1 DEF MergedHit, IInv, EntriesKept
      <4>3. \A n \in Namespaces : /\ floor[r][n] \in Nat /\ mergedBase[mergedRev[r]][n] \in Nat
                                  /\ e.val[n] \in Nat
                                  /\ floor[r][n] <= mergedBase[mergedRev[r]][n]
        BY <2>1, <2>2, <4>1 DEF IInv, TypeOK, Contents, ReadFloor
      <4>4. \A n \in Namespaces : Suffices(r, n, e.val[n])'
        BY <4>2, <4>3 DEF Suffices
      <4> QED BY <2>1, <3>2, <4>1, <4>4 DEF ReadSoFar, Scope
    <3> QED BY <3>1, <3>2 DEF IInv, TypeOK
  <2> QED BY <2>2, <2>3, <2>4 DEF Reading
<1> QED BY <1>1, <1>2, <1>3, <1>4 DEF IInv

\* The revision of a pool is read, or the read of it fails.
LEMMA GetPoolRevisionKeeps ==
    ASSUME IInv, NEW r \in Readers, GetPoolRevision(r) PROVE IInv'
<1>1. TypeOK'
  <2>1. revision[at[r]] \in Revisions
    BY DEF IInv, TypeOK
  <2>2. step' \in [Readers -> ReadSteps] /\ poolRev' \in [Readers -> Revisions \cup {NoRevision}]
    BY ZenonT(40), <2>1 DEF IInv, TypeOK, GetPoolRevision, ReadSteps
  <2> QED BY <2>2 DEF IInv, TypeOK, GetPoolRevision, redisVars, writeVars, baseVars
<1>2. (Bases /\ EntriesKept /\ WritersOrdered)'
  BY DEF IInv, GetPoolRevision, Bases, PoolBases, MergedBases, Invalidated, EntriesKept,
         WritersOrdered, redisVars, writeVars, baseVars
<1>3. \A q \in Readers \ {r} : Reading(q)'
  BY <1>1, OtherReads DEF IInv, TypeOK, GetPoolRevision, redisVars, writeVars, baseVars
<1>4. Reading(r)'
  <2> USE DEF GetPoolRevision, redisVars, writeVars, baseVars
  <2> DEFINE n == at[r]
  <2>1. step[r] = "poolRevision" /\ n \in Namespaces
    BY DEF IInv, TypeOK
  <2>2. \/ step'[r] = "poolEntry" /\ poolRev'[r] = revision[n]
        \/ step'[r] = "load" /\ poolRev'[r] = NoRevision
    BY DEF IInv, TypeOK
  <2>3. ReadShape(r) /\ ReadFloor(r) /\ ReadSoFar(r)
    BY DEF IInv, Reading
  <2>4. ReadFloor(r)'
    BY <2>3 DEF ReadFloor
  <2>5. revision[n] # NoRevision
    BY <2>1, Ordering, Numbers
  <2>6. ReadShape(r)'
    BY <2>1, <2>2, <2>3, <2>5 DEF ReadShape
  <2>7. Suffices(r, n, poolBase[n][revision[n]])
    <3>1. /\ floor[r][n] \in Nat /\ floor[r][n] <= effective[n]
          /\ mergedRev[r] \in Revisions \cup {NoRevision}
      BY <2>1, <2>3 DEF IInv, TypeOK, Contents, ReadFloor
    <3>2. floor[r][n] <= poolBase[n][revision[n]]
      BY <2>1, <3>1, Ordering
    <3>3. mergedRev[r] # NoRevision => mergedBase[mergedRev[r]][n] <= poolBase[n][revision[n]]
      BY <2>1, <2>3, <3>1 DEF IInv, Bases, MergedBases, ReadFloor
    <3> QED BY <3>2, <3>3 DEF Suffices
  <2>8. ReadHolds(r)'
    <3>1. revision[n] <= revision[n]
      <4>1. revision[n] \in Revisions
        BY <2>1, Ordering
      <4>2. revision[n] \in Nat
        BY <4>1, Numbers
      <4> QED BY <4>2
    <3> QED BY <2>1, <2>2, <2>7, <3>1 DEF ReadHolds, Suffices
  <2>9. ReadSoFar(r)'
    BY <2>1, <2>2, <2>3 DEF ReadSoFar, Suffices
  <2> QED BY <2>4, <2>6, <2>8, <2>9 DEF Reading
<1> QED BY <1>1, <1>2, <1>3, <1>4 DEF IInv

\* PoolRead keeps the types.
LEMMA PoolReadTypes ==
    ASSUME TypeOK, NEW r \in Readers, PoolRead(r)
    PROVE  step' \in [Readers -> ReadSteps] /\ at' \in [Readers -> Namespaces]
<1>1. at[r] < Last => at[r] + 1 \in Namespaces
  BY CacheAssumption DEF TypeOK, Namespaces
<1> QED BY <1>1 DEF PoolRead, TypeOK, ReadSteps

\* PoolRead moves on from a namespace whose content is new enough.
LEMMA PoolReadMoves ==
    ASSUME IInv, NEW r \in Readers, PoolRead(r),
           step[r] \in {"poolEntry", "load", "poolStore"},
           UNCHANGED <<goal, mergedRev, poolRev, floor, revision, effective, poolBase, mergedBase>>,
           \A n \in Namespaces : n # at[r] => got'[r][n] = got[r][n],
           Suffices(r, at[r], got'[r][at[r]])
    PROVE  Reading(r)'
<1>1. /\ at[r] \in Namespaces /\ goal[r] \in {Merged} \cup Namespaces
      /\ step \in [Readers -> ReadSteps] /\ at \in [Readers -> Namespaces]
      /\ ReadShape(r) /\ ReadFloor(r) /\ ReadSoFar(r)
  BY DEF IInv, TypeOK, Reading
<1>2. ReadFloor(r)'
  BY <1>1 DEF ReadFloor
<1>3. CASE goal[r] # Merged
  <2>1. step'[r] = "answered" /\ at'[r] = at[r] /\ at[r] = goal[r]
    BY <1>1, <1>3 DEF PoolRead, ReadShape
  <2>2. ReadShape(r)' /\ ReadHolds(r)'
    BY <1>1, <1>3, <2>1 DEF ReadShape, ReadHolds
  <2>3. ReadSoFar(r)'
    BY <1>1, <1>3, <2>1 DEF ReadSoFar, Scope, Suffices
  <2> QED BY <1>2, <2>2, <2>3 DEF Reading
<1>4. ASSUME goal[r] = Merged
      PROVE  \A n \in Namespaces : n < at[r] \/ n = at[r] => Suffices(r, n, got'[r][n])
  BY <1>1, <1>4, Numbers DEF ReadSoFar
<1>5. CASE goal[r] = Merged /\ at[r] < Last
  <2>1. step'[r] = "poolRevision" /\ at'[r] = at[r] + 1
    BY <1>1, <1>5 DEF PoolRead
  <2>2. ReadShape(r)' /\ ReadHolds(r)'
    BY <1>1, <1>5, <2>1 DEF ReadShape, ReadHolds
  <2>3. \A n \in Namespaces : n < at'[r] => n < at[r] \/ n = at[r]
    BY <1>1, <2>1, CacheAssumption DEF Namespaces
  <2>4. ReadSoFar(r)'
    BY <1>4, <1>5, <2>1, <2>3 DEF ReadSoFar, Suffices
  <2> QED BY <1>2, <2>2, <2>4 DEF Reading
<1>6. CASE goal[r] = Merged /\ ~ (at[r] < Last)
  <2>1. /\ at'[r] = at[r]
        /\ \/ step'[r] = "answered" /\ mergedRev[r] = NoRevision
           \/ step'[r] = "mergedStore" /\ mergedRev[r] # NoRevision
    BY <1>1, <1>6 DEF PoolRead
  <2>2. ReadShape(r)' /\ ReadHolds(r)'
    BY <1>1, <1>6, <2>1 DEF ReadShape, ReadHolds
  <2>3. \A n \in Namespaces : n < at[r] \/ n = at[r]
    BY <1>1, <1>6, CacheAssumption DEF Namespaces
  <2>4. ReadSoFar(r)'
    BY <1>4, <1>6, <2>1, <2>3 DEF ReadSoFar, Suffices, Scope
  <2> QED BY <1>2, <2>2, <2>4 DEF Reading
<1> QED BY <1>3, <1>5, <1>6

\* The pool's entry is read, found or missed.
LEMMA GetPoolEntryKeeps ==
    ASSUME IInv, NEW r \in Readers, GetPoolEntry(r) PROVE IInv'
<1> USE DEF GetPoolEntry, redisVars, writeVars, baseVars
<1>1. TypeOK /\ step[r] = "poolEntry" /\ at[r] \in Namespaces /\ got \in [Readers -> Contents]
  BY DEF IInv, TypeOK
<1>2. Reading(r) /\ poolRev[r] # NoRevision /\ poolRev[r] \in Revisions
  BY <1>1 DEF IInv, TypeOK, Reading, ReadShape
<1>3. (Bases /\ EntriesKept /\ WritersOrdered)'
  BY DEF IInv, Bases, PoolBases, MergedBases, Invalidated, EntriesKept, WritersOrdered
<1>4. ASSUME NEW e \in PoolHit(r), got' = [got EXCEPT ![r][at[r]] = e.val], PoolRead(r)
      PROVE  IInv'
  <2>1. /\ e \in poolEntries /\ e.ns = at[r] /\ e.rev = poolRev[r] /\ e.val \in Nat
        /\ poolBase[at[r]][poolRev[r]] <= e.val
    BY DEF PoolHit, IInv, TypeOK, EntriesKept
  <2>2. got' \in [Readers -> Contents] /\ got'[r] = [got[r] EXCEPT ![at[r]] = e.val]
    BY <1>1, <1>4, <2>1 DEF Contents
  <2>3. TypeOK'
    BY <1>1, <1>4, <2>2, PoolReadTypes DEF TypeOK
  <2>4. /\ got'[r][at[r]] = e.val
        /\ \A n \in Namespaces : n # at[r] => got'[r][n] = got[r][n]
    BY <1>1, <2>2 DEF Contents
  <2>5. Suffices(r, at[r], e.val)
    <3>1. Suffices(r, at[r], poolBase[at[r]][poolRev[r]])
      BY <1>1, <1>2 DEF Reading, ReadHolds
    <3>2. /\ poolBase[at[r]][poolRev[r]] \in Nat /\ floor[r][at[r]] \in Nat
          /\ mergedRev[r] # NoRevision => mergedBase[mergedRev[r]][at[r]] \in Nat
      BY <1>1, <1>2 DEF TypeOK, Contents
    <3> QED BY <2>1, <3>1, <3>2 DEF Suffices
  <2>6. Reading(r)'
    BY <1>1, <1>4, <2>4, <2>5, PoolReadMoves
  <2>7. \A q \in Readers \ {r} : Reading(q)'
    <3>1. \A q \in Readers \ {r} : step'[q] = step[q] /\ at'[q] = at[q]
      BY <1>1, <1>4 DEF PoolRead, TypeOK
    <3>2. \A q \in Readers \ {r} : got'[q] = got[q]
      BY <1>1, <1>4
    <3> QED BY <2>3, <3>1, <3>2, OtherReads
  <2> QED BY <1>3, <2>3, <2>6, <2>7 DEF IInv
<1>5. ASSUME step' = [step EXCEPT ![r] = "load"], UNCHANGED <<at, got>> PROVE IInv'
  <2>1. TypeOK'
    BY <1>1, <1>5 DEF TypeOK, ReadSteps
  <2>2. step'[r] = "load"
    BY <1>1, <1>5 DEF TypeOK
  <2>3. Reading(r)'
    BY <1>1, <1>2, <1>5, <2>2
       DEF Reading, ReadShape, ReadFloor, ReadHolds, ReadSoFar, Suffices
  <2>4. \A q \in Readers \ {r} : Reading(q)'
    BY <1>1, <1>5, <2>1, OtherReads DEF TypeOK
  <2> QED BY <1>3, <2>1, <2>3, <2>4 DEF IInv
<1> QED BY <1>4, <1>5

\* The rows are loaded from PostgreSQL.
LEMMA LoadKeeps == ASSUME IInv, NEW r \in Readers, Load(r) PROVE IInv'
<1> USE DEF Load, redisVars, writeVars, baseVars
<1> DEFINE n == at[r]
<1>1. TypeOK /\ step[r] = "load" /\ n \in Namespaces /\ got \in [Readers -> Contents]
  BY DEF IInv, TypeOK
<1>2. Reading(r) /\ poolRev[r] \in Revisions \cup {NoRevision}
  BY DEF IInv, TypeOK
<1>3. stored[n] \in Nat
  BY <1>1, Ordering
<1>4. got' \in [Readers -> Contents] /\ got'[r] = [got[r] EXCEPT ![n] = stored[n]]
  BY <1>1, <1>3 DEF Contents
<1>5. TypeOK'
  <2>1. step' \in [Readers -> ReadSteps] /\ at' \in [Readers -> Namespaces]
    BY <1>1, PoolReadTypes DEF TypeOK, ReadSteps
  <2> QED BY <1>1, <1>4, <2>1 DEF TypeOK
<1>6. (Bases /\ EntriesKept /\ WritersOrdered)'
  BY DEF IInv, Bases, PoolBases, MergedBases, Invalidated, EntriesKept, WritersOrdered
<1>7. \A q \in Readers \ {r} : Reading(q)'
  BY <1>1, <1>5, OtherReads DEF PoolRead, TypeOK
<1>8. /\ got'[r][n] = stored[n]
      /\ \A m \in Namespaces : m # n => got'[r][m] = got[r][m]
  BY <1>1, <1>4 DEF Contents
<1>9. Suffices(r, n, stored[n])
  <2>1. /\ floor[r][n] \in Nat /\ floor[r][n] <= effective[n]
        /\ mergedRev[r] \in Revisions \cup {NoRevision}
    BY <1>1, <1>2 DEF TypeOK, Contents, Reading, ReadFloor
  <2>2. floor[r][n] <= stored[n]
    BY <1>1, <2>1, Ordering
  <2>3. ASSUME mergedRev[r] # NoRevision PROVE mergedBase[mergedRev[r]][n] <= stored[n]
    <3>1. mergedRev[r] \in Revisions
      BY <2>1, <2>3
    <3>2. mergedBase[mergedRev[r]][n] <= poolBase[n][revision[n]]
      BY <1>1, <1>2, <2>3, <3>1 DEF IInv, Bases, MergedBases, Reading, ReadFloor
    <3>3. /\ mergedBase[mergedRev[r]][n] \in Nat /\ poolBase[n][revision[n]] \in Nat
          /\ poolBase[n][revision[n]] <= stored[n]
      BY <1>1, <3>1, Ordering
    <3> QED BY <1>3, <3>2, <3>3
  <2> QED BY <2>2, <2>3 DEF Suffices
<1>10. CASE poolRev[r] = NoRevision
  <2>1. PoolRead(r)
    BY <1>10
  <2> QED BY <1>1, <1>5, <1>6, <1>7, <1>8, <1>9, <2>1, PoolReadMoves DEF IInv
<1>11. CASE poolRev[r] # NoRevision
  <2>1. step'[r] = "poolStore" /\ at' = at
    BY <1>1, <1>11 DEF TypeOK
  <2>2. poolBase[n][poolRev[r]] <= stored[n]
    BY <1>1, <1>2, <1>11 DEF IInv, Bases, PoolBases, Reading, ReadHolds
  <2>3. ReadShape(r)' /\ ReadFloor(r)'
    BY <1>1, <1>2, <1>11, <2>1 DEF Reading, ReadShape, ReadFloor
  <2>4. ReadHolds(r)'
    BY <1>1, <1>2, <1>8, <1>11, <2>1, <2>2 DEF Reading, ReadHolds, Suffices
  <2>5. ReadSoFar(r)'
    <3>1. \A m \in Namespaces : m < n => m # n
      BY <1>1, Numbers
    <3> QED BY <1>1, <1>2, <1>8, <2>1, <3>1 DEF Reading, ReadSoFar, Suffices
  <2> QED BY <1>5, <1>6, <1>7, <2>3, <2>4, <2>5 DEF IInv, Reading
<1> QED BY <1>10, <1>11

\* What was loaded is stored under the revision read before.
LEMMA StorePoolKeeps == ASSUME IInv, NEW r \in Readers, StorePool(r) PROVE IInv'
<1> USE DEF StorePool, writeVars, baseVars
<1> DEFINE new == [ns |-> at[r], rev |-> poolRev[r], val |-> got[r][at[r]]]
<1>1. TypeOK /\ step[r] = "poolStore" /\ at[r] \in Namespaces /\ PoolRead(r)
  BY DEF IInv, TypeOK
<1>2. Reading(r) /\ poolRev[r] \in Revisions /\ poolRev[r] # NoRevision /\ got[r][at[r]] \in Nat
  BY <1>1 DEF IInv, TypeOK, Contents, Reading, ReadShape
<1>3. \A e \in poolEntries' : e \in poolEntries \/ e = new
  OBVIOUS
<1>4. new \in [ns : Namespaces, rev : Revisions, val : Nat]
  BY <1>1, <1>2
<1>5. TypeOK'
  BY <1>1, <1>3, <1>4, PoolReadTypes DEF TypeOK
<1>6. EntriesKept'
  <2>1. new.rev <= revision[new.ns] /\ poolBase[new.ns][new.rev] <= new.val
    BY <1>1, <1>2 DEF Reading, ReadHolds
  <2> HIDE DEF new
  <2> QED BY <1>3, <2>1 DEF IInv, EntriesKept
<1>7. (Bases /\ WritersOrdered)'
  BY DEF IInv, Bases, PoolBases, MergedBases, Invalidated, WritersOrdered
<1>8. \A q \in Readers \ {r} : Reading(q)'
  BY <1>1, <1>5, OtherReads DEF PoolRead, TypeOK
<1>9. Suffices(r, at[r], got[r][at[r]])
  <2>1. /\ Suffices(r, at[r], poolBase[at[r]][poolRev[r]])
        /\ poolBase[at[r]][poolRev[r]] <= got[r][at[r]]
    BY <1>1, <1>2 DEF Reading, ReadHolds
  <2>2. /\ poolBase[at[r]][poolRev[r]] \in Nat /\ floor[r][at[r]] \in Nat
        /\ mergedRev[r] # NoRevision => mergedBase[mergedRev[r]][at[r]] \in Nat
    BY <1>1, <1>2 DEF TypeOK, Contents
  <2> QED BY <1>2, <2>1, <2>2 DEF Suffices
<1>10. Reading(r)'
  BY <1>1, <1>9, PoolReadMoves
<1> QED BY <1>5, <1>6, <1>7, <1>8, <1>10 DEF IInv

\* The merged view is stored under the revision read first.
LEMMA StoreMergedKeeps == ASSUME IInv, NEW r \in Readers, StoreMerged(r) PROVE IInv'
<1> USE DEF StoreMerged, writeVars, baseVars
<1> DEFINE new == [rev |-> mergedRev[r], val |-> got[r]]
<1>1. TypeOK /\ step[r] = "mergedStore" /\ step'[r] = "answered"
  BY DEF IInv, TypeOK
<1>2. /\ Reading(r) /\ goal[r] = Merged /\ mergedRev[r] # NoRevision
      /\ mergedRev[r] \in Revisions /\ got[r] \in Contents
  BY <1>1 DEF IInv, TypeOK, Reading, ReadShape
<1>3. \A e \in mergedEntries' : e \in mergedEntries \/ e = new
  OBVIOUS
<1>4. new \in [rev : Revisions, val : Contents]
  BY <1>2
<1>5. TypeOK'
  <2>1. mergedEntries' \subseteq [rev : Revisions, val : Contents]
    BY <1>1, <1>3, <1>4 DEF TypeOK
  <2>2. step' \in [Readers -> ReadSteps]
    BY <1>1 DEF TypeOK, ReadSteps
  <2> QED BY <1>1, <2>1, <2>2 DEF TypeOK
<1>6. EntriesKept'
  <2>1. new.rev <= revision[Merged] /\ \A n \in Namespaces : mergedBase[new.rev][n] <= new.val[n]
    BY <1>1, <1>2 DEF Reading, ReadFloor, ReadSoFar, Scope, Suffices
  <2> HIDE DEF new
  <2> QED BY <1>3, <2>1 DEF IInv, EntriesKept
<1>7. (Bases /\ WritersOrdered)'
  BY DEF IInv, Bases, PoolBases, MergedBases, Invalidated, WritersOrdered
<1>8. \A q \in Readers \ {r} : Reading(q)'
  BY <1>1, <1>5, OtherReads DEF TypeOK
<1>9. Reading(r)'
  BY <1>1, <1>2 DEF Reading, ReadShape, ReadFloor, ReadHolds, ReadSoFar, Scope, Suffices
<1> QED BY <1>5, <1>6, <1>7, <1>8, <1>9 DEF IInv

\* A read that ends keeps the invariant.
LEMMA EndKeeps == ASSUME IInv, NEW r \in Readers, End(r) PROVE IInv'
<1> USE DEF End, redisVars, writeVars, baseVars
<1>1. TypeOK /\ Empty \in Contents
  BY DEF IInv, Empty, Contents
<1>2. TypeOK'
  BY <1>1, Numbers DEF TypeOK, ReadSteps
<1>3. (Bases /\ EntriesKept /\ WritersOrdered)'
  BY DEF IInv, Bases, PoolBases, MergedBases, Invalidated, EntriesKept, WritersOrdered
<1>4. \A q \in Readers \ {r} : Reading(q)'
  BY <1>1, <1>2, OtherReads DEF TypeOK
<1>5. /\ step'[r] = "idle" /\ goal'[r] = Merged /\ at'[r] = 1
      /\ mergedRev'[r] = NoRevision /\ floor'[r] = Empty
  BY <1>1 DEF TypeOK
<1>6. \A n \in Namespaces : 0 <= effective[n]
  BY <1>1 DEF TypeOK, Contents
<1>7. Reading(r)'
  BY <1>5, <1>6 DEF Reading, ReadShape, ReadFloor, ReadHolds, ReadSoFar, Empty
<1> QED BY <1>2, <1>3, <1>4, <1>7 DEF IInv

\* Every step of a read keeps the invariant.
LEMMA ReadKeeps == ASSUME IInv, NEW r \in Readers, ReadStep(r) PROVE IInv'
BY BeginKeeps, GetMergedRevisionKeeps, GetMergedEntryKeeps, GetPoolRevisionKeeps, GetPoolEntryKeeps,
   LoadKeeps, StorePoolKeeps, StoreMergedKeeps, EndKeeps DEF ReadStep

--------------------------------------------------------------------------------
(* Writes *)

\* A write moves no read; it is enough that revisions, their bases and effective
\* only grow.
LEMMA ReadsAdvance ==
    ASSUME IInv, TypeOK', UNCHANGED readVars,
           \A n \in {Merged} \cup Namespaces : revision[n] <= revision'[n],
           \A n \in Namespaces : effective[n] <= effective'[n],
           \A n \in Namespaces, v \in Revisions :
               v <= revision[n] => poolBase'[n][v] = poolBase[n][v],
           \A v \in Revisions : v <= revision[Merged] => mergedBase'[v] = mergedBase[v]
    PROVE  \A q \in Readers : Reading(q)'
<1> SUFFICES ASSUME NEW q \in Readers PROVE Reading(q)'
  OBVIOUS
<1>1. TypeOK /\ Reading(q)
  BY DEF IInv
<1>2. /\ step' = step /\ goal' = goal /\ at' = at /\ mergedRev' = mergedRev
      /\ poolRev' = poolRev /\ got' = got /\ floor' = floor
  BY DEF readVars
<1> QED BY <1>1, <1>2, ReadUnmoved

\* revision and effective, as numbers.
LEMMA WriteNumbers ==
    ASSUME IInv
    PROVE  /\ \A n \in {Merged} \cup Namespaces : revision[n] \in Nat
           /\ \A n \in Namespaces : effective[n] \in Nat
BY Numbers DEF IInv, TypeOK, Contents

\* Raise never lowers, and lifts its target's value to the change at most.
LEMMA RaiseReturns ==
    ASSUME IInv, NEW w \in Writers, NEW f \in Contents
    PROVE  /\ Raise(f, w) \in Contents
           /\ \A n \in Namespaces :
                /\ f[n] <= Raise(f, w)[n]
                /\ Raise(f, w)[n] = f[n] \/ (n = target[w] /\ Raise(f, w)[n] = change[w])
<1>1. target[w] \in Namespaces /\ change[w] \in Nat
  BY DEF IInv, TypeOK
<1> QED BY <1>1 DEF Raise, Contents

\* A step that changes neither revisions nor bases nor effective, and lets a
\* writer forget its change.
LEMMA ForgetKeeps ==
    ASSUME IInv, NEW w \in Writers, Forget(w), returned' \in Contents,
           UNCHANGED <<stored, redisVars, readVars, effective, baseVars>>
    PROVE  IInv'
<1>1. TypeOK /\ TypeOK'
  BY Numbers DEF IInv, TypeOK, Forget, redisVars, readVars, baseVars
<1>2. (Bases /\ EntriesKept)'
  BY DEF IInv, Bases, PoolBases, MergedBases, Invalidated, EntriesKept, redisVars, baseVars
<1>3. WritersOrdered'
  <2>1. \A n \in Namespaces : 0 <= stored[n]
    BY <1>1 DEF TypeOK, Contents
  <2> QED BY <1>1, <2>1, Numbers DEF IInv, TypeOK, WritersOrdered, Forget, redisVars, baseVars
<1>4. \A q \in Readers : Reading(q)'
  BY <1>1, ReadsAdvance, WriteNumbers DEF redisVars, baseVars
<1> QED BY <1>1, <1>2, <1>3, <1>4 DEF IInv

\* A commit makes what is stored newer, and nothing else.
LEMMA CommitKeeps == ASSUME IInv, NEW w \in Writers, Commit(w) PROVE IInv'
<1> USE DEF redisVars, baseVars
<1>1. PICK n \in Namespaces :
        /\ stored' = [stored EXCEPT ![n] = @ + 1]
        /\ target' = [target EXCEPT ![w] = n]
        /\ change' = [change EXCEPT ![w] = stored[n] + 1]
  BY DEF Commit
<1>2. TypeOK /\ stored \in Contents
  BY DEF IInv, TypeOK
<1>3. stored' \in Contents /\ \A m \in Namespaces : stored[m] <= stored'[m]
  BY <1>1, <1>2 DEF Contents
<1>4. TypeOK'
  <2>1. change' \in [Writers -> Nat]
    BY <1>1, <1>2 DEF TypeOK, Contents
  <2> QED BY <1>1, <1>2, <1>3, <2>1 DEF Commit, TypeOK, readVars
<1>5. PoolBases'
  <2>1. ASSUME NEW m \in Namespaces, NEW v \in Revisions, v <= revision[m]
        PROVE  poolBase[m][v] <= stored'[m]
    <3>1. poolBase[m][v] \in Nat /\ stored[m] \in Nat /\ stored'[m] \in Nat
      BY <1>2, <1>3 DEF TypeOK, Contents
    <3>2. poolBase[m][v] <= stored[m]
      BY <2>1 DEF IInv, Bases, PoolBases
    <3> QED BY <1>3, <3>1, <3>2
  <2> QED BY <2>1 DEF PoolBases, Commit
<1>6. (MergedBases /\ Invalidated /\ EntriesKept)'
  BY DEF IInv, Commit, Bases, MergedBases, Invalidated, EntriesKept
<1>7. WritersOrdered'
  <2>1. ASSUME NEW u \in Writers PROVE change'[u] <= stored'[target'[u]]
    <3>1. CASE u = w
      <4>1. change'[w] = stored[n] + 1 /\ target'[w] = n
        BY <1>1, <1>2 DEF TypeOK
      <4>2. stored'[n] = stored[n] + 1 /\ stored[n] \in Nat
        BY <1>1, <1>2 DEF Contents
      <4> QED BY <3>1, <4>1, <4>2
    <3>2. CASE u # w
      <4>1. change'[u] = change[u] /\ target'[u] = target[u] /\ target[u] \in Namespaces
        BY <1>1, <1>2, <3>2 DEF TypeOK
      <4>2. change[u] \in Nat /\ stored[target[u]] \in Nat /\ stored'[target[u]] \in Nat
        BY <1>2, <1>3, <4>1 DEF TypeOK, Contents
      <4>3. change[u] <= stored[target[u]]
        BY DEF IInv, WritersOrdered
      <4> QED BY <1>3, <4>1, <4>2, <4>3
    <3> QED BY <3>1, <3>2
  <2>2. ASSUME NEW u \in Writers, writer'[u] = "merged"
        PROVE  change'[u] <= poolBase'[target'[u]][revision'[target'[u]]]
    <3>1. u # w
      BY <1>2, <2>2 DEF Commit, TypeOK
    <3> QED BY <1>1, <1>2, <2>2, <3>1 DEF IInv, WritersOrdered, Commit, TypeOK
  <2> QED BY <2>1, <2>2 DEF WritersOrdered
<1>8. \A q \in Readers : Reading(q)'
  BY <1>4, ReadsAdvance, WriteNumbers DEF Commit
<1> QED BY <1>4, <1>5, <1>6, <1>7, <1>8 DEF IInv, Bases

\* The INCR of a pool's revision gives the new revision its base.
LEMMA IncrPoolKeeps == ASSUME IInv, NEW w \in Writers, IncrPool(w) PROVE IInv'
<1> DEFINE n == target[w]
           v == revision[n] + 1
<1>1. TypeOK /\ n \in Namespaces /\ writer[w] = "pool"
  BY DEF IInv, TypeOK, IncrPool
<1>2. /\ v \in Revisions
      /\ revision' = [revision EXCEPT ![n] = v]
      /\ poolBase' = [poolBase EXCEPT ![n][v] = stored[n]]
  BY DEF IncrPool
<1>3. revision[n] \in Nat /\ stored[n] \in Nat /\ n # Merged
  BY <1>1, Ordering, Numbers
<1>4. /\ revision'[n] = v
      /\ \A m \in {Merged} \cup Namespaces : m # n => revision'[m] = revision[m]
  BY <1>1, <1>2 DEF TypeOK
<1>5. /\ poolBase'[n][v] = stored[n]
      /\ \A m \in Namespaces, u \in Revisions : m # n \/ u # v => poolBase'[m][u] = poolBase[m][u]
  BY <1>1, <1>2 DEF TypeOK
<1>6. \A u \in Revisions : u \in Nat
  BY Numbers
<1>7. TypeOK'
  <2>1. poolBase' \in [Namespaces -> [Revisions -> Nat]]
    BY <1>1, <1>2, <1>3 DEF TypeOK
  <2>2. revision' \in [{Merged} \cup Namespaces -> Revisions]
    BY <1>1, <1>2 DEF TypeOK
  <2> QED BY <1>1, <2>1, <2>2 DEF TypeOK, IncrPool, readVars
<1> HIDE DEF v
<1>8. v = revision[n] + 1
  BY DEF v
<1>9. \A m \in Namespaces, u \in Revisions : u <= revision[m] => poolBase'[m][u] = poolBase[m][u]
  BY <1>3, <1>5, <1>6, <1>8
<1>10. \A m \in Namespaces : poolBase[m][revision[m]] <= poolBase'[m][revision'[m]]
  <2>1. ASSUME NEW m \in Namespaces PROVE poolBase[m][revision[m]] <= poolBase'[m][revision'[m]]
    <3>1. CASE m = n
      BY <1>1, <1>4, <1>5, <3>1, Ordering
    <3>2. CASE m # n
      <4>1. revision[m] \in Revisions /\ poolBase[m][revision[m]] \in Nat
        BY Ordering
      <4> QED BY <1>4, <1>5, <3>2, <4>1
    <3> QED BY <3>1, <3>2
  <2> QED BY <2>1
<1>11. stored' = stored /\ effective' = effective /\ mergedBase' = mergedBase
       /\ poolEntries' = poolEntries /\ mergedEntries' = mergedEntries
  BY DEF IncrPool
<1>12. PoolBases'
  <2>1. ASSUME NEW m \in Namespaces, NEW u \in Revisions, u <= revision'[m]
        PROVE  poolBase'[m][u] <= stored[m]
    <3>1. CASE m = n /\ u = v
      BY <1>3, <1>5, <3>1
    <3>2. CASE ~ (m = n /\ u = v)
      <4>1. u <= revision[m]
        BY <1>3, <1>4, <1>6, <1>8, <2>1, <3>2
      <4>2. poolBase[m][u] <= stored[m]
        BY <4>1 DEF IInv, Bases, PoolBases
      <4> QED BY <1>9, <4>1, <4>2
    <3> QED BY <3>1, <3>2
  <2> QED BY <1>11, <2>1 DEF PoolBases
<1>13. MergedBases'
  <2>1. ASSUME NEW m \in Namespaces, NEW u \in Revisions, u <= revision[Merged]
        PROVE  mergedBase[u][m] <= poolBase'[m][revision'[m]]
    <3>1. /\ mergedBase[u][m] \in Nat /\ poolBase[m][revision[m]] \in Nat
          /\ poolBase'[m][revision'[m]] \in Nat
      <4>1. mergedBase[u][m] \in Nat /\ poolBase[m][revision[m]] \in Nat
        BY Ordering
      <4>2. revision'[m] \in Revisions /\ poolBase' \in [Namespaces -> [Revisions -> Nat]]
        BY <1>7 DEF TypeOK
      <4> QED BY <4>1, <4>2
    <3>2. mergedBase[u][m] <= poolBase[m][revision[m]]
      BY <2>1 DEF IInv, Bases, MergedBases
    <3> QED BY <1>10, <3>1, <3>2
  <2>2. revision'[Merged] = revision[Merged]
    BY <1>3, <1>4
  <2> QED BY <1>11, <2>1, <2>2 DEF MergedBases
<1>14. Invalidated'
  BY <1>3, <1>4, <1>11 DEF IInv, Bases, Invalidated
<1>15. \A m \in {Merged} \cup Namespaces : revision[m] <= revision'[m]
  BY <1>3, <1>4, <1>8, WriteNumbers
<1>16. EntriesKept'
  <2>1. ASSUME NEW e \in poolEntries
        PROVE  e.rev <= revision'[e.ns] /\ poolBase'[e.ns][e.rev] <= e.val
    <3>1. /\ e.ns \in Namespaces /\ e.rev \in Revisions
          /\ e.rev <= revision[e.ns] /\ poolBase[e.ns][e.rev] <= e.val
      BY <1>1 DEF TypeOK, IInv, EntriesKept
    <3>2. e.rev \in Nat /\ revision[e.ns] \in Nat /\ revision'[e.ns] \in Nat
      BY <1>7, <3>1, WriteNumbers, Numbers DEF TypeOK
    <3>3. e.rev <= revision'[e.ns]
      BY <1>15, <3>1, <3>2
    <3> QED BY <1>9, <3>1, <3>3
  <2>2. revision'[Merged] = revision[Merged]
    BY <1>3, <1>4
  <2> QED BY <1>11, <2>1, <2>2 DEF IInv, EntriesKept
<1>17. WritersOrdered'
  <2>1. ASSUME NEW u \in Writers, writer'[u] = "merged"
        PROVE  change[u] <= poolBase'[target[u]][revision'[target[u]]]
    <3>1. CASE u = w
      BY <1>4, <1>5, <3>1 DEF IInv, WritersOrdered
    <3>2. CASE u # w
      <4>1. writer[u] = "merged" /\ target[u] \in Namespaces /\ change[u] \in Nat
        BY <1>1, <2>1, <3>2 DEF TypeOK, IncrPool
      <4>2. change[u] <= poolBase[target[u]][revision[target[u]]]
        BY <4>1 DEF IInv, WritersOrdered
      <4>3. /\ poolBase[target[u]][revision[target[u]]] \in Nat
            /\ poolBase'[target[u]][revision'[target[u]]] \in Nat
        BY <1>1, <1>7, <4>1 DEF TypeOK
      <4> QED BY <1>10, <4>1, <4>2, <4>3
    <3> QED BY <3>1, <3>2
  <2> QED BY <1>11, <2>1 DEF IInv, WritersOrdered, IncrPool
<1>18. \A q \in Readers : Reading(q)'
  BY <1>7, <1>9, <1>11, <1>15, ReadsAdvance, WriteNumbers DEF IncrPool
<1> QED BY <1>7, <1>12, <1>13, <1>14, <1>16, <1>17, <1>18 DEF IInv, Bases

\* A failed INCR leaves the revision as it was.
LEMMA IncrPoolFailsKeeps == ASSUME IInv, NEW w \in Writers, IncrPoolFails(w) PROVE IInv'
<1> USE DEF IncrPoolFails, redisVars, baseVars
<1>1. TypeOK /\ TypeOK'
  BY DEF IInv, TypeOK, readVars
<1>2. (Bases /\ EntriesKept)'
  BY DEF IInv, Bases, PoolBases, MergedBases, Invalidated, EntriesKept
<1>3. WritersOrdered'
  BY <1>1 DEF IInv, TypeOK, WritersOrdered
<1>4. \A q \in Readers : Reading(q)'
  BY <1>1, ReadsAdvance, WriteNumbers
<1> QED BY <1>1, <1>2, <1>3, <1>4 DEF IInv

\* The INCR of the merged revision completes the invalidation.
LEMMA IncrMergedKeeps == ASSUME IInv, NEW w \in Writers, IncrMerged(w) PROVE IInv'
<1> DEFINE v == revision[Merged] + 1
           base == [n \in Namespaces |-> poolBase[n][revision[n]]]
<1>1. TypeOK /\ effective \in Contents /\ returned \in Contents
  BY DEF IInv, TypeOK
<1>2. /\ v \in Revisions
      /\ revision' = [revision EXCEPT ![Merged] = v]
      /\ mergedBase' = [mergedBase EXCEPT ![v] = base]
      /\ effective' = IF writer[w] = "merged" THEN Raise(effective, w) ELSE effective
      /\ returned' = Raise(returned, w)
      /\ Forget(w)
      /\ UNCHANGED <<stored, poolEntries, mergedEntries, readVars, poolBase>>
  BY DEF IncrMerged
<1>3. revision[Merged] \in Nat /\ \A u \in Revisions : u \in Nat
  BY WriteNumbers, Numbers
<1>4. /\ revision'[Merged] = v
      /\ \A n \in Namespaces : revision'[n] = revision[n]
  BY <1>1, <1>2, Numbers DEF TypeOK
<1>5. base \in Contents
  BY Ordering DEF Contents
<1>6. /\ \A n \in Namespaces : mergedBase'[v][n] = poolBase[n][revision[n]]
      /\ \A u \in Revisions : u # v => mergedBase'[u] = mergedBase[u]
  BY <1>1, <1>2 DEF TypeOK
<1>7. effective' \in Contents /\ returned' \in Contents
      /\ \A n \in Namespaces : effective[n] <= effective'[n]
  <2>1. \A n \in Namespaces : effective[n] <= effective[n]
    BY <1>1 DEF Contents
  <2> QED BY <1>1, <1>2, <2>1, RaiseReturns
<1>8. TypeOK'
  <2>1. mergedBase' \in [Revisions -> Contents]
    BY <1>1, <1>2, <1>5 DEF TypeOK
  <2>2. revision' \in [{Merged} \cup Namespaces -> Revisions]
    BY <1>1, <1>2 DEF TypeOK
  <2>3. /\ writer' \in [Writers -> {"idle", "pool", "merged", "mergedOnly"}]
        /\ target' \in [Writers -> Namespaces] /\ change' \in [Writers -> Nat]
    BY <1>1, <1>2, Numbers DEF TypeOK, Forget
  <2> QED BY <1>1, <1>2, <1>7, <2>1, <2>2, <2>3 DEF TypeOK, readVars
<1> HIDE DEF v, base
<1>9. v = revision[Merged] + 1
  BY DEF v
<1>10. PoolBases'
  BY <1>2, <1>4 DEF IInv, Bases, PoolBases
<1>11. MergedBases'
  <2>1. ASSUME NEW n \in Namespaces, NEW u \in Revisions, u <= v
        PROVE  mergedBase'[u][n] <= poolBase[n][revision[n]]
    <3>1. CASE u = v
      <4>1. poolBase[n][revision[n]] \in Nat
        BY Ordering
      <4> QED BY <1>6, <3>1, <4>1
    <3>2. CASE u # v
      <4>1. u <= revision[Merged]
        BY <1>3, <1>9, <2>1, <3>2
      <4> QED BY <1>6, <3>2, <4>1 DEF IInv, Bases, MergedBases
    <3> QED BY <3>1, <3>2
  <2> QED BY <1>2, <1>4, <2>1 DEF MergedBases
<1>12. Invalidated'
  <2>1. ASSUME NEW n \in Namespaces PROVE effective'[n] <= poolBase[n][revision[n]]
    <3>1. effective[n] <= poolBase[n][revision[n]]
      BY Ordering
    <3>2. effective'[n] = effective[n] \/
             (writer[w] = "merged" /\ n = target[w] /\ effective'[n] = change[w])
      BY <1>1, <1>2, RaiseReturns
    <3> QED BY <3>1, <3>2 DEF IInv, WritersOrdered
  <2> QED BY <1>4, <1>6, <2>1 DEF Invalidated
<1>13. \A n \in {Merged} \cup Namespaces : revision[n] <= revision'[n]
  BY <1>3, <1>4, <1>9, WriteNumbers
<1>14. \A u \in Revisions : u <= revision[Merged] => mergedBase'[u] = mergedBase[u]
  BY <1>3, <1>6, <1>9
<1>15. EntriesKept'
  <2>1. ASSUME NEW e \in mergedEntries
        PROVE  /\ e.rev <= revision'[Merged]
               /\ \A n \in Namespaces : mergedBase'[e.rev][n] <= e.val[n]
    <3>1. /\ e.rev \in Revisions /\ e.rev <= revision[Merged]
          /\ \A n \in Namespaces : mergedBase[e.rev][n] <= e.val[n]
      BY <1>1 DEF TypeOK, IInv, EntriesKept
    <3> QED BY <1>3, <1>4, <1>9, <1>14, <3>1
  <2>2. \A e \in poolEntries : e.ns \in Namespaces
    BY <1>1 DEF TypeOK
  <2> QED BY <1>2, <1>4, <2>1, <2>2 DEF IInv, EntriesKept
<1>16. WritersOrdered'
  <2>1. ASSUME NEW u \in Writers, u # w
        PROVE  /\ change'[u] <= stored[target'[u]]
               /\ writer'[u] = "merged" => change'[u] <= poolBase[target'[u]][revision'[target'[u]]]
    BY <1>1, <1>2, <1>4, <2>1 DEF IInv, TypeOK, WritersOrdered, Forget
  <2>2. writer'[w] = "idle" /\ change'[w] = 0 /\ target'[w] = 1
    BY <1>1, <1>2 DEF TypeOK, Forget
  <2>3. 0 <= stored[1]
    BY <1>1, Numbers DEF TypeOK, Contents
  <2> QED BY <1>2, <2>1, <2>2, <2>3 DEF WritersOrdered
<1>17. \A q \in Readers : Reading(q)'
  BY <1>2, <1>7, <1>8, <1>13, <1>14, ReadsAdvance
<1> QED BY <1>8, <1>10, <1>11, <1>12, <1>15, <1>16, <1>17 DEF IInv, Bases

\* Every step of a writer keeps the invariant.
LEMMA WriteKeeps == ASSUME IInv, NEW w \in Writers, WriteStep(w) PROVE IInv'
<1>1. returned \in Contents /\ Raise(returned, w) \in Contents
  BY RaiseReturns DEF IInv, TypeOK
<1>2. CASE LookupFails(w) \/ WriterDies(w) \/ IncrMergedFails(w)
  BY <1>1, <1>2, ForgetKeeps DEF LookupFails, WriterDies, IncrMergedFails
<1> QED BY <1>2, CommitKeeps, IncrPoolKeeps, IncrPoolFailsKeeps, IncrMergedKeeps DEF WriteStep

--------------------------------------------------------------------------------
(* The theorems *)

\* A stutter keeps the invariant.
LEMMA Unchanged == ASSUME IInv, UNCHANGED vars PROVE IInv'
<1> USE DEF vars, redisVars, writeVars, baseVars
<1>1. TypeOK'
  BY DEF IInv, TypeOK, readVars
<1>2. (Bases /\ EntriesKept /\ WritersOrdered)'
  BY DEF IInv, Bases, PoolBases, MergedBases, Invalidated, EntriesKept, WritersOrdered
<1>3. \A q \in Readers : Reading(q)'
  BY <1>1, ReadsAdvance, WriteNumbers
<1> QED BY <1>1, <1>2, <1>3 DEF IInv

\* The bases of revisions order what is stored, invalidated, cached and read, in
\* every reachable state (cachedDanmaku and invalidateDanmakuCache).
THEOREM CacheInvariance == Spec => []IInv
<1>1. IInv /\ [Next]_vars => IInv'
  BY ReadKeeps, WriteKeeps, Unchanged DEF Next
<1> QED BY <1>1, InitIInv, PTL DEF Spec

\* The variables of the cache keep their types.
THEOREM CacheTypeCorrect == Spec => []TypeOK
BY CacheInvariance, PTL DEF IInv

\* An answer includes every change invalidated before the read began, whatever
\* fails, for any number of namespaces, reads and writes.
THEOREM CacheFresh == Spec => []FreshRead
<1>1. IInv => FreshRead
  BY DEF IInv, Reading, ReadSoFar, Suffices, FreshRead
<1> QED BY <1>1, CacheInvariance, PTL

\* Without failing INCRs and keyword lookups, returning is invalidating.
ReturnsInvalidated ==
    /\ returned = effective
    /\ promised = floor
    /\ \A w \in Writers : writer[w] # "mergedOnly"

\* When Redis answers every INCR and no keyword lookup fails, an answer includes
\* every change whose call had returned before the read began.
THEOREM CacheSeesReturnedWrites ==
    ASSUME ~IncrFaults, ~LookupFaults
    PROVE  Spec => []ReadSeesReturnedWrites
<1>1. Init => ReturnsInvalidated
  BY DEF Init, ReturnsInvalidated
<1>2. ReturnsInvalidated /\ [Next]_vars => ReturnsInvalidated'
  <2> SUFFICES ASSUME ReturnsInvalidated, [Next]_vars PROVE ReturnsInvalidated'
    OBVIOUS
  <2> USE DEF ReturnsInvalidated
  <2>1. ASSUME NEW r \in Readers, ReadStep(r) PROVE ReturnsInvalidated'
    BY <2>1 DEF ReadStep, Begin, GetMergedRevision, GetMergedEntry, GetPoolRevision, GetPoolEntry,
                Load, StorePool, StoreMerged, End, writeVars
  <2>2. ASSUME NEW w \in Writers, WriteStep(w) PROVE ReturnsInvalidated'
    <3>1. CASE Commit(w)
      BY <3>1 DEF Commit, readVars
    <3>4. CASE IncrPool(w)
      BY <3>4 DEF IncrPool, readVars
    <3>2. CASE WriterDies(w)
      BY <3>2 DEF WriterDies, Forget, readVars
    <3>3. CASE IncrMerged(w)
      BY <3>3 DEF IncrMerged, Raise, Forget, readVars
    <3> QED BY <2>2, <3>1, <3>2, <3>3, <3>4 DEF WriteStep, LookupFails, IncrPoolFails, IncrMergedFails
  <2>3. CASE UNCHANGED vars
    BY <2>3 DEF vars, readVars, writeVars
  <2> QED BY <2>1, <2>2, <2>3 DEF Next
<1>3. ReturnsInvalidated /\ FreshRead => ReadSeesReturnedWrites
  BY DEF ReturnsInvalidated, FreshRead, ReadSeesReturnedWrites
<1> QED BY <1>1, <1>2, <1>3, CacheFresh, PTL DEF Spec

--------------------------------------------------------------------------------
(* The cache implements FreshReads *)

\* Nothing is cached or read that was not stored.
NothingInvented ==
    /\ \A e \in poolEntries : e.val <= stored[e.ns]
    /\ \A e \in mergedEntries : \A n \in Namespaces : e.val[n] <= stored[n]
    /\ \A r \in Readers : \A n \in Namespaces : got[r][n] <= stored[n]

\* A read brings nothing in that was not stored.
LEMMA ReadInventsNothing ==
    ASSUME TypeOK, NothingInvented, NEW r \in Readers, ReadStep(r)
    PROVE  NothingInvented'
<1> USE DEF NothingInvented, redisVars, writeVars, baseVars
<1>1. /\ at[r] \in Namespaces
      /\ got \in [Readers -> Contents]
      /\ stored \in Contents
      /\ stored' = stored
  BY DEF TypeOK, ReadStep, Begin, GetMergedRevision, GetMergedEntry, GetPoolRevision,
         GetPoolEntry, Load, StorePool, StoreMerged, End
<1>2. CASE Begin(r) \/ GetMergedRevision(r) \/ GetPoolRevision(r)
  BY <1>2 DEF Begin, GetMergedRevision, GetPoolRevision
<1>3. CASE GetMergedEntry(r)
  BY <1>1, <1>3 DEF GetMergedEntry, MergedHit
<1>4. CASE GetPoolEntry(r)
  <2>1. \A e \in PoolHit(r) : e.val <= stored[at[r]]
    BY DEF PoolHit
  <2> QED BY <1>1, <1>4, <2>1 DEF GetPoolEntry, Contents
<1>5. CASE Load(r)
  <2>1. stored[at[r]] <= stored[at[r]]
    BY <1>1 DEF Contents
  <2> QED BY <1>1, <1>5, <2>1 DEF Load, Contents
<1>6. CASE StorePool(r)
  <2> DEFINE new == [ns |-> at[r], rev |-> poolRev[r], val |-> got[r][at[r]]]
  <2>1. /\ poolEntries' \subseteq poolEntries \cup {new}
        /\ UNCHANGED <<mergedEntries, got>>
    BY <1>6 DEF StorePool
  <2>2. new.val <= stored[new.ns]
    BY <1>1
  <2> HIDE DEF new
  <2> QED BY <1>1, <2>1, <2>2
<1>7. CASE StoreMerged(r)
  <2> DEFINE new == [rev |-> mergedRev[r], val |-> got[r]]
  <2>1. /\ mergedEntries' \subseteq mergedEntries \cup {new}
        /\ UNCHANGED <<poolEntries, got>>
    BY <1>7 DEF StoreMerged
  <2>2. \A n \in Namespaces : new.val[n] <= stored[n]
    BY <1>1
  <2> HIDE DEF new
  <2> QED BY <1>1, <2>1, <2>2
<1>8. CASE End(r)
  <2>1. \A n \in Namespaces : Empty[n] <= stored[n]
    BY <1>1 DEF Empty, Contents
  <2> QED BY <1>1, <1>8, <2>1 DEF End
<1> QED BY <1>2, <1>3, <1>4, <1>5, <1>6, <1>7, <1>8 DEF ReadStep

\* Neither does a write: the content only grows.
LEMMA WriteInventsNothing ==
    ASSUME TypeOK, NothingInvented, NEW w \in Writers, WriteStep(w)
    PROVE  NothingInvented'
<1>1. UNCHANGED <<poolEntries, mergedEntries, got>>
  BY DEF WriteStep, Commit, LookupFails, WriterDies, IncrPool, IncrPoolFails, IncrMerged,
         IncrMergedFails, redisVars, readVars
<1>2. \A n \in Namespaces : stored[n] \in Nat /\ stored'[n] \in Nat /\ stored[n] <= stored'[n]
  <2>1. stored \in Contents
    BY DEF TypeOK
  <2>2. stored' = stored \/ \E n \in Namespaces : stored' = [stored EXCEPT ![n] = @ + 1]
    BY DEF WriteStep, Commit, LookupFails, WriterDies, IncrPool, IncrPoolFails, IncrMerged,
           IncrMergedFails
  <2> QED BY <2>1, <2>2 DEF Contents
<1>3. /\ \A e \in poolEntries : e.ns \in Namespaces /\ e.val \in Nat
      /\ \A e \in mergedEntries : \A n \in Namespaces : e.val[n] \in Nat
      /\ \A r \in Readers : \A n \in Namespaces : got[r][n] \in Nat
  <2>1. \A e \in poolEntries : e.ns \in Namespaces /\ e.val \in Nat
    BY DEF TypeOK
  <2>2. \A e \in mergedEntries : e.val \in Contents
    BY DEF TypeOK
  <2>3. \A r \in Readers : got[r] \in Contents
    BY DEF TypeOK
  <2> QED BY <2>1, <2>2, <2>3 DEF Contents
<1> QED BY <1>1, <1>2, <1>3 DEF NothingInvented

\* What the cache answers was stored.
LEMMA NothingIsInvented == Spec => []NothingInvented
<1>1. Init => NothingInvented
  BY CacheAssumption DEF Init, NothingInvented, Empty
<1>2. IInv /\ NothingInvented /\ [Next]_vars => NothingInvented'
  <2>1. UNCHANGED vars /\ NothingInvented => NothingInvented'
    BY DEF vars, redisVars, readVars, NothingInvented
  <2> QED BY <2>1, ReadInventsNothing, WriteInventsNothing DEF IInv, Next
<1> QED BY <1>1, <1>2, CacheInvariance, PTL DEF Spec

\* What is visible of the reads, as maps on Readers.
Phases == [r \in Readers |-> Phase(r)]
Scopes == [r \in Readers |-> IF step[r] = "idle" THEN {} ELSE Scope(r)]
Answers == [r \in Readers |-> Answered(r)]

\* The initial state of the cache is the initial state of the contract.
LEMMA ContractInit == Init => Contract!Init
<1> SUFFICES ASSUME Init PROVE Contract!Init
  OBVIOUS
<1>1. /\ Phases = [r \in Readers |-> "idle"]
      /\ Scopes = [r \in Readers |-> {}]
      /\ Answers = [r \in Readers |-> [n \in Namespaces |-> 0]]
  BY DEF Init, Phases, Scopes, Answers, Phase, Answered
<1> QED BY <1>1 DEF Init, Empty, Contract!Init, Phases, Scopes, Answers

\* A read of the view or of one pool begins.
LEMMA BeginBegins ==
    ASSUME TypeOK, NEW r \in Readers, Begin(r)
    PROVE  Contract!Begin(r)
<1>1. PICK g \in {Merged} \cup Namespaces :
          /\ goal' = [goal EXCEPT ![r] = g]
          /\ step' = [step EXCEPT ![r] = IF g = Merged THEN "mergedRevision" ELSE "poolRevision"]
  BY DEF Begin
<1>2. PICK s \in SUBSET Namespaces : s = IF g = Merged THEN Namespaces ELSE {g}
  OBVIOUS
<1>3. /\ step[r] = "idle"
      /\ floor' = [floor EXCEPT ![r] = effective]
      /\ UNCHANGED <<stored, effective, got>>
  BY DEF Begin, writeVars
<1>4. Phases[r] = "idle" /\ Phases' = [Phases EXCEPT ![r] = "reading"]
  BY <1>1, <1>3 DEF TypeOK, Phases, Phase
<1>5. Scopes' = [Scopes EXCEPT ![r] = s]
  BY <1>1, <1>2, <1>3 DEF TypeOK, Scopes, Scope
<1>6. Answers' = Answers
  <2>1. \A q \in Readers : (step'[q] = "answered") <=> (step[q] = "answered")
    BY <1>1, <1>3 DEF TypeOK
  <2> QED BY <1>3, <2>1 DEF Answers, Answered
<1> QED BY <1>3, <1>4, <1>5, <1>6 DEF Contract!Begin, Phases, Scopes, Answers

\* What every step between the beginning and the answer leaves alone.
LEMMA MiddleStep ==
    ASSUME IInv, NEW r \in Readers, ReadStep(r), ~Begin(r), ~End(r)
    PROVE  /\ UNCHANGED <<stored, effective, goal, floor>>
           /\ step[r] \notin {"idle", "answered"}
           /\ step'[r] # "idle"
           /\ step' \in [Readers -> ReadSteps]
           /\ \A q \in Readers \ {r} : step'[q] = step[q] /\ got'[q] = got[q]
<1> USE DEF redisVars, writeVars, baseVars
<1>1. CASE GetMergedRevision(r) \/ GetMergedEntry(r) \/ GetPoolRevision(r) \/ StoreMerged(r)
  <2>1. step' \in [Readers -> ReadSteps]
    BY <1>1, ReadKeeps DEF IInv, TypeOK
  <2> QED BY <1>1, <2>1 DEF GetMergedRevision, GetMergedEntry, GetPoolRevision, StoreMerged, IInv, TypeOK
<1>2. PoolRead(r) => /\ step'[r] # "idle"
                     /\ \A q \in Readers \ {r} : step'[q] = step[q]
  BY DEF PoolRead, IInv, TypeOK
<1>3. CASE GetPoolEntry(r) \/ Load(r) \/ StorePool(r)
  <2>1. step' \in [Readers -> ReadSteps]
    BY <1>3, ReadKeeps DEF IInv, TypeOK
  <2> QED BY <1>2, <1>3, <2>1 DEF GetPoolEntry, Load, StorePool, IInv, TypeOK
<1> QED BY <1>1, <1>3 DEF ReadStep

\* A read that is answered, at whatever level it was found, is answered freshly.
LEMMA AnswerAnswers ==
    ASSUME IInv, IInv', NothingInvented', NEW r \in Readers,
           ReadStep(r), ~Begin(r), ~End(r), step'[r] = "answered"
    PROVE  Contract!Answer(r)
<1>1. /\ UNCHANGED <<stored, effective, goal, floor>>
      /\ step[r] \notin {"idle", "answered"}
      /\ step' \in [Readers -> ReadSteps]
      /\ \A q \in Readers \ {r} : step'[q] = step[q] /\ got'[q] = got[q]
  BY MiddleStep
<1>2. Phases[r] = "reading" /\ Phases' = [Phases EXCEPT ![r] = "answered"]
  BY <1>1 DEF IInv, TypeOK, Phases, Phase
<1>3. Scopes' = Scopes /\ Scopes[r] = Scope(r)
  BY <1>1 DEF IInv, TypeOK, Scopes, Scope
<1>4. /\ \A q \in Readers \ {r} : Answers'[q] = Answers[q]
      /\ \A n \in Namespaces : Answers'[r][n] = got'[r][n]
  BY <1>1 DEF Answers, Answered
<1>5. ASSUME NEW n \in Scope(r) PROVE Answers'[r][n] \in floor[r][n] .. stored[n]
  <2>1. n \in Namespaces
    BY <1>5 DEF Scope, IInv, TypeOK
  <2>2. floor[r][n] <= got'[r][n]
    BY <1>1, <1>5 DEF IInv, Reading, ReadSoFar, Suffices, Scope
  <2>3. got'[r][n] <= stored[n]
    BY <1>1, <2>1 DEF NothingInvented
  <2>4. floor[r][n] \in Nat /\ got'[r][n] \in Nat /\ stored[n] \in Nat
    BY <1>1, <2>1 DEF IInv, TypeOK, Contents
  <2> QED BY <1>4, <2>1, <2>2, <2>3, <2>4
<1> QED BY <1>1, <1>2, <1>3, <1>4, <1>5 DEF Contract!Answer, Phases, Scopes, Answers

\* A step towards the answer is invisible.
LEMMA MiddleStutters ==
    ASSUME IInv, NEW r \in Readers,
           ReadStep(r), ~Begin(r), ~End(r), step'[r] # "answered"
    PROVE  UNCHANGED Contract!readVars
<1>1. /\ UNCHANGED <<stored, effective, goal, floor>>
      /\ step[r] \notin {"idle", "answered"}
      /\ step'[r] # "idle"
      /\ step' \in [Readers -> ReadSteps]
      /\ \A q \in Readers \ {r} : step'[q] = step[q] /\ got'[q] = got[q]
  BY MiddleStep
<1>2. Phases' = Phases /\ Scopes' = Scopes /\ Answers' = Answers
  BY <1>1 DEF IInv, TypeOK, Phases, Phase, Scopes, Scope, Answers, Answered
<1> QED BY <1>1, <1>2 DEF Contract!readVars, Phases, Scopes, Answers

\* A read that ends, answered or failed, is forgotten.
LEMMA EndForgets ==
    ASSUME TypeOK, NEW r \in Readers, End(r)
    PROVE  Contract!Forget(r)
<1>1. /\ Phases[r] # "idle"
      /\ Phases' = [Phases EXCEPT ![r] = "idle"]
  BY DEF End, TypeOK, Phases, Phase
<1>2. Scopes' = [Scopes EXCEPT ![r] = {}]
  BY DEF End, TypeOK, Scopes, Scope
<1>3. floor' = [floor EXCEPT ![r] = [n \in Namespaces |-> 0]]
  BY DEF End, Empty
<1>4. Answers' = [Answers EXCEPT ![r] = [n \in Namespaces |-> 0]]
  BY DEF End, TypeOK, Answers, Answered
<1>5. UNCHANGED <<stored, effective>>
  BY DEF End, writeVars
<1> QED BY <1>1, <1>2, <1>3, <1>4, <1>5 DEF Contract!Forget, Phases, Scopes, Answers

\* A commit is a change, an increment of the merged revision after that of the
\* pool completes it, and every other step of a write is invisible.
LEMMA WriteChanges ==
    ASSUME IInv, NEW w \in Writers, WriteStep(w)
    PROVE  [Contract!Next]_(Contract!readVars)
<1>1. UNCHANGED readVars
  BY DEF WriteStep, Commit, LookupFails, WriterDies, IncrPool, IncrPoolFails, IncrMerged,
         IncrMergedFails
<1>2. Phases' = Phases /\ Scopes' = Scopes /\ Answers' = Answers /\ floor' = floor
  BY <1>1 DEF readVars, Phases, Phase, Scopes, Scope, Answers, Answered
<1>3. CASE Commit(w)
  <2>1. PICK n \in Namespaces : stored' = [stored EXCEPT ![n] = @ + 1]
    BY <1>3 DEF Commit
  <2>2. effective' = effective
    BY <1>3 DEF Commit
  <2>3. Contract!Change(n)
    BY <1>2, <2>1, <2>2 DEF Contract!Change, Phases, Scopes, Answers
  <2> QED BY <2>3 DEF Contract!Next
<1>4. CASE IncrMerged(w) /\ writer[w] = "merged"
  <2> DEFINE n == target[w]
             v == IF effective[n] < change[w] THEN change[w] ELSE effective[n]
  <2>1. n \in Namespaces /\ stored' = stored /\ effective' = [effective EXCEPT ![n] = v]
    BY <1>4 DEF IncrMerged, IInv, TypeOK, Raise, Contents
  <2>2. v \in effective[n] .. stored[n]
    <3>1. effective[n] <= stored[n] /\ effective[n] \in Nat /\ stored[n] \in Nat
      BY <2>1, Ordering
    <3>2. change[w] <= stored[n] /\ change[w] \in Nat
      BY DEF IInv, WritersOrdered, TypeOK
    <3> QED BY <3>1, <3>2
  <2> HIDE DEF n, v
  <2>3. Contract!Complete(n)
    BY <1>2, <2>1, <2>2 DEF Contract!Complete, Phases, Scopes, Answers
  <2> QED BY <2>1, <2>3 DEF Contract!Next
<1>5. CASE \/ LookupFails(w) \/ WriterDies(w) \/ IncrPool(w) \/ IncrPoolFails(w)
           \/ (IncrMerged(w) /\ writer[w] # "merged") \/ IncrMergedFails(w)
  <2>1. stored' = stored /\ effective' = effective
    BY <1>5 DEF LookupFails, WriterDies, IncrPool, IncrPoolFails, IncrMerged, IncrMergedFails
  <2> QED BY <1>2, <2>1 DEF Contract!readVars, Phases, Scopes, Answers
<1> QED BY <1>3, <1>4, <1>5 DEF WriteStep

\* Every step is a step of FreshReads or a stutter.
LEMMA ContractStep ==
    IInv /\ IInv' /\ NothingInvented' /\ [Next]_vars => [Contract!Next]_(Contract!readVars)
<1> SUFFICES ASSUME IInv, IInv', NothingInvented', [Next]_vars
             PROVE  [Contract!Next]_(Contract!readVars)
  OBVIOUS
<1>1. ASSUME NEW r \in Readers, ReadStep(r) PROVE [Contract!Next]_(Contract!readVars)
  <2>1. CASE Begin(r)
    BY <2>1, BeginBegins DEF IInv, Contract!Next
  <2>2. CASE End(r)
    BY <2>2, EndForgets DEF IInv, Contract!Next
  <2>3. CASE ~Begin(r) /\ ~End(r) /\ step'[r] = "answered"
    BY <1>1, <2>3, AnswerAnswers DEF Contract!Next
  <2>4. CASE ~Begin(r) /\ ~End(r) /\ step'[r] # "answered"
    BY <1>1, <2>4, MiddleStutters
  <2> QED BY <2>1, <2>2, <2>3, <2>4
<1>2. CASE UNCHANGED vars
  BY <1>2 DEF vars, readVars, writeVars, Contract!readVars, Phase, Scope, Answered
<1> QED BY <1>1, <1>2, WriteChanges DEF Next

\* redis_cache.go as its callers see it, both levels and every failure included:
\* an answer holds every change invalidated when the read began, and nothing that
\* was never stored, for any number of namespaces, reads and writes.
THEOREM CacheImplementsContract == Spec => ImplementsContract
BY CacheInvariance, NothingIsInvented, ContractInit, ContractStep, PTL
   DEF Spec, ImplementsContract, Contract!Spec

================================================================================
