----------------------------- MODULE PoolSyncProofs -----------------------------
(***************************************************************************)
(* The properties of PoolSync for any calls, feeds and intervals.          *)
(*                                                                         *)
(* Until it commits, a merge holds what the INSERTs so far were to bring   *)
(* in: each danmaku is in the table or among the rows the transaction owns *)
(* (Delivered), and no two transactions own the same row (Owned).  The     *)
(* advisory lock is with the call between its SELECT and its INSERT        *)
(* (Locked), so that a pool that was not there is still not there.         *)
(***************************************************************************)
EXTENDS PoolSync, FiniteSetTheorems, TLAPS

\* The advisory lock of the identity, and what was seen under it.
Locked ==
    /\ \A c \in Callers : c \in lock <=> pc[c] \in {"select", "insert"}
    /\ \A c, d \in lock : c = d

\* Rows of open transactions: none is committed, none is in two of them.
Owned ==
    /\ IsFiniteSet(content)
    /\ \A c \in Callers :
         /\ IsFiniteSet(own[c])
         /\ own[c] \cap content = {}
         /\ own[c] # {} => pc[c] = "merge"
    /\ \A c, d \in Callers : c # d => own[c] \cap own[d] = {}

\* What a merge has inserted so far is in the table or its own.
Delivered ==
    \A c \in Callers : pc[c] = "merge" =>
        /\ next[c] <= Len(feed[c]) + 1
        /\ \A i \in DOMAIN feed[c] : i < next[c] => feed[c][i] \in content \cup own[c]

\* A call starts at the first danmaku, and every danmaku of its feed is one.
Fresh ==
    /\ \A c \in Callers :
         pc[c] \notin {"merge", "invalidate", "synced"} => next[c] = 1
    /\ \A c \in Callers : \A i \in DOMAIN feed[c] : feed[c][i] \in Items

\* The row remembers the latest attempt, or one as much older as a forced claim was
\* late.
Attempts ==
    /\ \A c \in Callers : now[c] <= clock
    /\ newest <= clock
    /\ lastAttempt <= newest
    /\ newest <= lastAttempt + waited
    /\ lastAttempt = Never => newest = Never

IInv ==
    /\ TypeOK
    /\ Locked
    /\ Owned
    /\ Fresh
    /\ Delivered
    /\ NoDuplicateInsert
    /\ SyncDelivers
    /\ CountsAddUp
    /\ StaleIsPending
    /\ Attempts

--------------------------------------------------------------------------------
\* Every step keeps the types.
LEMMA TypeStep == IInv /\ [Next]_vars => TypeOK'
<1> SUFFICES ASSUME IInv, [Next]_vars PROVE TypeOK'
  OBVIOUS
<1> USE SyncAssumption DEF IInv, TypeOK, Steps, Times, Never, history
<1>1. ASSUME NEW c \in Callers, Call(c) PROVE TypeOK'
  BY <1>1 DEF Call, Go, poolVars
<1>2. ASSUME NEW c \in Callers, Lock(c) PROVE TypeOK'
  BY <1>2 DEF Lock, Go, poolVars
<1>3. ASSUME NEW c \in Callers, SelectPool(c) PROVE TypeOK'
  BY <1>3 DEF SelectPool, Go, poolVars
<1>4. ASSUME NEW c \in Callers, InsertPool(c) PROVE TypeOK'
  <2>1. pool = FALSE /\ pc[c] = "insert"
    BY <1>4 DEF InsertPool, NoDuplicateInsert
  <2>2. pc' = [pc EXCEPT ![c] = "time"] /\ UNCHANGED <<force, now, feed, next>>
    BY <1>4, <2>1 DEF InsertPool, Go
  <2>3. pool' = TRUE /\ lock' = lock \ {c} /\ UNCHANGED <<clock, lastAttempt, lastSync, content>>
    BY <1>4 DEF InsertPool
  <2>4. UNCHANGED <<blocked, cached, own, admin, newest, waited, reported>>
    BY <1>4 DEF InsertPool
  <2> QED BY <2>1, <2>2, <2>3, <2>4
<1>5. ASSUME NEW c \in Callers, ReadTime(c) PROVE TypeOK'
  BY <1>5 DEF ReadTime, Go, poolVars
<1>6. ASSUME NEW c \in Callers, Claim(c) PROVE TypeOK'
  <2>1. now[c] \in 0 .. MaxClock /\ newest \in (0 .. MaxClock) \cup {-1}
    OBVIOUS
  <2>2. newest' \in (0 .. MaxClock) \cup {-1}
    BY <1>6, <2>1 DEF Claim, Later
  <2>3. lastAttempt' \in (0 .. MaxClock) \cup {-1}
    BY <1>6, <2>1 DEF Claim
  <2>4. pc' \in [Callers -> Steps]
    <3>1. pc' = [pc EXCEPT ![c] = "fetch"] \/ pc' = [pc EXCEPT ![c] = "idle"]
      BY <1>6, Zenon DEF Claim, End, Go
    <3> QED BY <3>1
  <2>5. UNCHANGED <<clock, pool, lock, lastSync, content, blocked, cached, own, admin, reported>>
    BY <1>6 DEF Claim
  <2>6. waited' \in 0 .. MaxClock
    <3>1. clock \in 0 .. MaxClock /\ waited \in 0 .. MaxClock /\ MaxClock \in Nat
      OBVIOUS
    <3>2. waited' = waited \/ waited' = Later(waited, clock - now[c])
      BY <1>6 DEF Claim
    <3> HIDE DEF IInv, TypeOK
    <3> QED BY <2>1, <3>1, <3>2 DEF Later
  <2>7. force' \in [Callers -> BOOLEAN]
    <3>1. force' = force \/ force' = [force EXCEPT ![c] = FALSE]
      BY <1>6 DEF Claim, End
    <3>2. force \in [Callers -> BOOLEAN] /\ FALSE \in BOOLEAN
      OBVIOUS
    <3> HIDE DEF IInv, TypeOK
    <3> QED BY <3>1, <3>2
  <2>8. now' \in [Callers -> 0 .. MaxClock]
    <3>1. now' = now \/ now' = [now EXCEPT ![c] = 0]
      BY <1>6 DEF Claim, End
    <3>2. now \in [Callers -> 0 .. MaxClock] /\ 0 \in 0 .. MaxClock
      OBVIOUS
    <3> HIDE DEF IInv, TypeOK
    <3> QED BY <3>1, <3>2
  <2>9. feed' \in [Callers -> Feeds \cup {<<>>}]
    <3>1. feed' = feed \/ feed' = [feed EXCEPT ![c] = <<>>]
      BY <1>6 DEF Claim, End
    <3>2. feed \in [Callers -> Feeds \cup {<<>>}] /\ <<>> \in Feeds \cup {<<>>}
      OBVIOUS
    <3> HIDE DEF IInv, TypeOK
    <3> QED BY <3>1, <3>2
  <2>10. next' \in [Callers -> Nat \ {0}]
    <3>1. next' = next \/ next' = [next EXCEPT ![c] = 1]
      BY <1>6 DEF Claim, End
    <3>2. next \in [Callers -> Nat \ {0}] /\ 1 \in Nat \ {0}
      OBVIOUS
    <3> HIDE DEF IInv, TypeOK
    <3> QED BY <3>1, <3>2
  <2> QED BY <2>2, <2>3, <2>4, <2>5, <2>6, <2>7, <2>8, <2>9, <2>10
<1>7. ASSUME NEW c \in Callers, Fetch(c) PROVE TypeOK'
  BY <1>7 DEF Fetch, Go, poolVars
<1>8. ASSUME NEW c \in Callers, InsertItem(c) PROVE TypeOK'
  BY <1>8 DEF InsertItem, More, Wanted, poolVars
<1>9. ASSUME NEW c \in Callers, CommitMerge(c) PROVE TypeOK'
  BY <1>9, FS_CardinalityType DEF CommitMerge, Go, More, Owned
<1>10. ASSUME NEW c \in Callers, Invalidate(c) PROVE TypeOK'
  BY <1>10 DEF Invalidate, Announce, Go, poolVars
<1>11. ASSUME NEW c \in Callers, BreakDeadlock(c) PROVE TypeOK'
  BY <1>11 DEF BreakDeadlock, End, Go, Deadlocked, Waits, More, poolVars
<1>12. ASSUME NEW c \in Callers, Return(c) PROVE TypeOK'
  BY <1>12 DEF Return, End, Go, poolVars
<1>13. ASSUME NEW c \in Callers, Fail(c) PROVE TypeOK'
  BY <1>13 DEF Fail, End, Go, poolVars
<1>14. ASSUME NEW a \in Admins, SetBlocked(a) PROVE TypeOK'
  BY <1>14 DEF SetBlocked, callVars, poolVars
<1>15. ASSUME NEW a \in Admins, InvalidateBlocked(a) PROVE TypeOK'
  BY <1>15 DEF InvalidateBlocked, Announce, callVars, poolVars
<1>16. ASSUME Tick PROVE TypeOK'
  BY <1>16 DEF Tick, callVars, poolVars
<1>17. CASE UNCHANGED vars
  BY <1>17 DEF vars, callVars, poolVars
<1> QED BY <1>1, <1>2, <1>3, <1>4, <1>5, <1>6, <1>7, <1>8, <1>9, <1>10, <1>11, <1>12, <1>13,
       <1>14, <1>15, <1>16, <1>17 DEF Next, CallStep

\* One call at a time is between its SELECT and its INSERT.
LEMMA LockedStep == IInv /\ [Next]_vars => Locked'
<1> SUFFICES ASSUME IInv, [Next]_vars PROVE Locked'
  OBVIOUS
<1> USE SyncAssumption DEF IInv, TypeOK, Steps, Times, Never, history
<1>1. ASSUME NEW c \in Callers, Call(c) PROVE Locked'
  BY <1>1 DEF Call, Go, poolVars, Locked
<1>2. ASSUME NEW c \in Callers, Lock(c) PROVE Locked'
  BY <1>2 DEF Lock, Go, poolVars, Locked
<1>3. ASSUME NEW c \in Callers, SelectPool(c) PROVE Locked'
  BY <1>3 DEF SelectPool, Go, poolVars, Locked
<1>4. ASSUME NEW c \in Callers, InsertPool(c) PROVE Locked'
  <2>1. pool = FALSE /\ pc[c] = "insert"
    BY <1>4 DEF InsertPool, NoDuplicateInsert
  <2>2. pc' = [pc EXCEPT ![c] = "time"] /\ UNCHANGED <<force, now, feed, next>>
    BY <1>4, <2>1 DEF InsertPool, Go
  <2>3. pool' = TRUE /\ lock' = lock \ {c} /\ UNCHANGED <<clock, lastAttempt, lastSync, content>>
    BY <1>4 DEF InsertPool
  <2>4. UNCHANGED <<blocked, cached, own, admin, newest, waited, reported>>
    BY <1>4 DEF InsertPool
  <2> QED BY <2>1, <2>2, <2>3, <2>4 DEF Locked
<1>5. ASSUME NEW c \in Callers, ReadTime(c) PROVE Locked'
  BY <1>5 DEF ReadTime, Go, poolVars, Locked
<1>6. ASSUME NEW c \in Callers, Claim(c) PROVE Locked'
  <2>1. pc' = [pc EXCEPT ![c] = "fetch"] \/ pc' = [pc EXCEPT ![c] = "idle"]
    BY <1>6, Zenon DEF Claim, End, Go
  <2>2. pc[c] = "claim" /\ lock' = lock
    BY <1>6, Zenon DEF Claim
  <2> QED BY <2>1, <2>2 DEF Locked, TypeOK
<1>7. ASSUME NEW c \in Callers, Fetch(c) PROVE Locked'
  BY <1>7 DEF Fetch, Go, poolVars, Locked
<1>8. ASSUME NEW c \in Callers, InsertItem(c) PROVE Locked'
  BY <1>8 DEF InsertItem, More, Wanted, poolVars, Locked
<1>9. ASSUME NEW c \in Callers, CommitMerge(c) PROVE Locked'
  BY <1>9 DEF CommitMerge, Go, More, poolVars, Locked
<1>10. ASSUME NEW c \in Callers, Invalidate(c) PROVE Locked'
  BY <1>10 DEF Invalidate, Announce, Go, poolVars, Locked
<1>11. ASSUME NEW c \in Callers, BreakDeadlock(c) PROVE Locked'
  BY <1>11 DEF BreakDeadlock, End, Go, Deadlocked, Waits, More, poolVars, Locked
<1>12. ASSUME NEW c \in Callers, Return(c) PROVE Locked'
  BY <1>12 DEF Return, End, Go, poolVars, Locked
<1>13. ASSUME NEW c \in Callers, Fail(c) PROVE Locked'
  BY <1>13 DEF Fail, End, Go, poolVars, Locked
<1>14. ASSUME NEW a \in Admins, SetBlocked(a) PROVE Locked'
  BY <1>14 DEF SetBlocked, callVars, poolVars, Locked
<1>15. ASSUME NEW a \in Admins, InvalidateBlocked(a) PROVE Locked'
  BY <1>15 DEF InvalidateBlocked, Announce, callVars, poolVars, Locked
<1>16. ASSUME Tick PROVE Locked'
  BY <1>16 DEF Tick, callVars, poolVars, Locked
<1>17. CASE UNCHANGED vars
  BY <1>17 DEF vars, callVars, poolVars, Locked
<1> QED BY <1>1, <1>2, <1>3, <1>4, <1>5, <1>6, <1>7, <1>8, <1>9, <1>10, <1>11, <1>12, <1>13,
       <1>14, <1>15, <1>16, <1>17 DEF Next, CallStep

\* No row is in two transactions, or in one and in the table.
LEMMA OwnedStep == IInv /\ [Next]_vars => Owned'
<1> SUFFICES ASSUME IInv, [Next]_vars PROVE Owned'
  OBVIOUS
<1> USE SyncAssumption DEF IInv, TypeOK, Steps, Times, Never, history
<1>1. ASSUME NEW c \in Callers, Call(c) PROVE Owned'
  BY <1>1 DEF Call, Go, poolVars, Owned
<1>2. ASSUME NEW c \in Callers, Lock(c) PROVE Owned'
  BY <1>2 DEF Lock, Go, poolVars, Owned
<1>3. ASSUME NEW c \in Callers, SelectPool(c) PROVE Owned'
  BY <1>3 DEF SelectPool, Go, poolVars, Owned
<1>4. ASSUME NEW c \in Callers, InsertPool(c) PROVE Owned'
  <2>1. pool = FALSE /\ pc[c] = "insert"
    BY <1>4 DEF InsertPool, NoDuplicateInsert
  <2>2. pc' = [pc EXCEPT ![c] = "time"] /\ UNCHANGED <<force, now, feed, next>>
    BY <1>4, <2>1 DEF InsertPool, Go
  <2>3. pool' = TRUE /\ lock' = lock \ {c} /\ UNCHANGED <<clock, lastAttempt, lastSync, content>>
    BY <1>4 DEF InsertPool
  <2>4. UNCHANGED <<blocked, cached, own, admin, newest, waited, reported>>
    BY <1>4 DEF InsertPool
  <2> QED BY <2>1, <2>2, <2>3, <2>4 DEF Owned
<1>5. ASSUME NEW c \in Callers, ReadTime(c) PROVE Owned'
  BY <1>5 DEF ReadTime, Go, poolVars, Owned
<1>6. ASSUME NEW c \in Callers, Claim(c) PROVE Owned'
  BY <1>6 DEF Claim, End, Go, Owned
<1>7. ASSUME NEW c \in Callers, Fetch(c) PROVE Owned'
  BY <1>7 DEF Fetch, Go, poolVars, Owned
<1>8. ASSUME NEW c \in Callers, InsertItem(c) PROVE Owned'
  <2>1. IsFiniteSet({Wanted(c)} \ content)
    BY FS_Singleton, FS_Subset
  <2>2. IsFiniteSet(own[c] \cup ({Wanted(c)} \ content))
    BY <2>1, FS_Union DEF Owned
  <2>3. \A d \in Callers : d # c => Wanted(c) \notin own[d]
    BY <1>8 DEF InsertItem, Waits
  <2>4. own' = [own EXCEPT ![c] = @ \cup ({Wanted(c)} \ content)] /\ UNCHANGED <<pc, content>>
    BY <1>8 DEF InsertItem, poolVars
  <2>5. pc[c] = "merge"
    BY <1>8 DEF InsertItem, More
  <2> HIDE DEF Steps, Times
  <2> QED BY <2>2, <2>3, <2>4, <2>5 DEF Owned
<1>9. ASSUME NEW c \in Callers, CommitMerge(c) PROVE Owned'
  <2>1. IsFiniteSet(content \cup own[c]) /\ IsFiniteSet({})
    BY FS_Union, FS_EmptySet DEF Owned
  <2>2. own' = [own EXCEPT ![c] = {}] /\ content' = content \cup own[c]
    BY <1>9 DEF CommitMerge
  <2>3. pc' = [pc EXCEPT ![c] = "invalidate"]
    BY <1>9 DEF CommitMerge, Go
  <2> HIDE DEF Steps, Times
  <2> QED BY <2>1, <2>2, <2>3 DEF Owned
<1>10. ASSUME NEW c \in Callers, Invalidate(c) PROVE Owned'
  BY <1>10 DEF Invalidate, Announce, Go, poolVars, Owned
<1>11. ASSUME NEW c \in Callers, BreakDeadlock(c) PROVE Owned'
  <2>1. own' = [own EXCEPT ![c] = {}] /\ pc' = [pc EXCEPT ![c] = "idle"] /\ UNCHANGED content
    BY <1>11 DEF BreakDeadlock, End, Go, poolVars
  <2> QED BY <2>1, FS_EmptySet DEF Owned
<1>12. ASSUME NEW c \in Callers, Return(c) PROVE Owned'
  BY <1>12 DEF Return, End, Go, poolVars, Owned
<1>13. ASSUME NEW c \in Callers, Fail(c) PROVE Owned'
  <2>1. own' = [own EXCEPT ![c] = {}] /\ pc' = [pc EXCEPT ![c] = "idle"] /\ UNCHANGED content
    BY <1>13 DEF Fail, End, Go
  <2> QED BY <2>1, FS_EmptySet DEF Owned
<1>14. ASSUME NEW a \in Admins, SetBlocked(a) PROVE Owned'
  BY <1>14 DEF SetBlocked, callVars, poolVars, Owned
<1>15. ASSUME NEW a \in Admins, InvalidateBlocked(a) PROVE Owned'
  BY <1>15 DEF InvalidateBlocked, Announce, callVars, poolVars, Owned
<1>16. ASSUME Tick PROVE Owned'
  BY <1>16 DEF Tick, callVars, poolVars, Owned
<1>17. CASE UNCHANGED vars
  BY <1>17 DEF vars, callVars, poolVars, Owned
<1> QED BY <1>1, <1>2, <1>3, <1>4, <1>5, <1>6, <1>7, <1>8, <1>9, <1>10, <1>11, <1>12, <1>13,
       <1>14, <1>15, <1>16, <1>17 DEF Next, CallStep

\* A merge starts at the first danmaku of its feed.
LEMMA FreshStep == IInv /\ [Next]_vars => Fresh'
<1> SUFFICES ASSUME IInv, [Next]_vars PROVE Fresh'
  OBVIOUS
<1> USE SyncAssumption DEF IInv, TypeOK, Steps, Times, Never, history
<1>1. ASSUME NEW c \in Callers, Call(c) PROVE Fresh'
  BY <1>1 DEF Call, Go, poolVars, Fresh
<1>2. ASSUME NEW c \in Callers, Lock(c) PROVE Fresh'
  BY <1>2 DEF Lock, Go, poolVars, Fresh
<1>3. ASSUME NEW c \in Callers, SelectPool(c) PROVE Fresh'
  BY <1>3 DEF SelectPool, Go, poolVars, Fresh
<1>4. ASSUME NEW c \in Callers, InsertPool(c) PROVE Fresh'
  <2>1. pool = FALSE /\ pc[c] = "insert"
    BY <1>4 DEF InsertPool, NoDuplicateInsert
  <2>2. pc' = [pc EXCEPT ![c] = "time"] /\ UNCHANGED <<force, now, feed, next>>
    BY <1>4, <2>1 DEF InsertPool, Go
  <2>3. pool' = TRUE /\ lock' = lock \ {c} /\ UNCHANGED <<clock, lastAttempt, lastSync, content>>
    BY <1>4 DEF InsertPool
  <2>4. UNCHANGED <<blocked, cached, own, admin, newest, waited, reported>>
    BY <1>4 DEF InsertPool
  <2> QED BY <2>1, <2>2, <2>3, <2>4 DEF Fresh
<1>5. ASSUME NEW c \in Callers, ReadTime(c) PROVE Fresh'
  BY <1>5 DEF ReadTime, Go, poolVars, Fresh
<1>6. ASSUME NEW c \in Callers, Claim(c) PROVE Fresh'
  <2>1. pc[c] = "claim" /\ UNCHANGED <<content, own>>
    BY <1>6 DEF Claim
  <2>2. pc' = [pc EXCEPT ![c] = "fetch"] \/ pc' = [pc EXCEPT ![c] = "idle"]
    BY <1>6 DEF Claim, End, Go
  <2>3. feed' = feed \/ feed' = [feed EXCEPT ![c] = <<>>]
    BY <1>6 DEF Claim, End
  <2>4. next' = next \/ next' = [next EXCEPT ![c] = 1]
    BY <1>6 DEF Claim, End
  <2>5. pc \in [Callers -> Steps] /\ next \in [Callers -> Nat \ {0}]
    OBVIOUS
  <2>6. feed \in [Callers -> Feeds \cup {<<>>}] /\ Fresh
    OBVIOUS
  <2>7. \A d \in Callers :
          pc'[d] \notin {"merge", "invalidate", "synced"} => next'[d] = 1
    <3> HIDE DEF IInv, TypeOK, Steps
    <3> QED BY <2>1, <2>2, <2>4, <2>5, <2>6 DEF Fresh
  <2>8. \A d \in Callers : \A i \in DOMAIN feed'[d] : feed'[d][i] \in Items
    <3> HIDE DEF IInv, TypeOK, Steps
    <3> QED BY <2>3, <2>6 DEF Fresh
  <2> QED BY <2>7, <2>8 DEF Fresh
<1>7. ASSUME NEW c \in Callers, Fetch(c) PROVE Fresh'
  BY <1>7 DEF Fetch, Go, poolVars, Fresh
<1>8. ASSUME NEW c \in Callers, InsertItem(c) PROVE Fresh'
  BY <1>8 DEF InsertItem, More, Wanted, poolVars, Fresh
<1>9. ASSUME NEW c \in Callers, CommitMerge(c) PROVE Fresh'
  BY <1>9 DEF CommitMerge, Go, More, poolVars, Fresh
<1>10. ASSUME NEW c \in Callers, Invalidate(c) PROVE Fresh'
  BY <1>10 DEF Invalidate, Announce, Go, poolVars, Fresh
<1>11. ASSUME NEW c \in Callers, BreakDeadlock(c) PROVE Fresh'
  BY <1>11 DEF BreakDeadlock, End, Go, Deadlocked, Waits, More, poolVars, Fresh
<1>12. ASSUME NEW c \in Callers, Return(c) PROVE Fresh'
  BY <1>12 DEF Return, End, Go, poolVars, Fresh
<1>13. ASSUME NEW c \in Callers, Fail(c) PROVE Fresh'
  BY <1>13 DEF Fail, End, Go, poolVars, Fresh
<1>14. ASSUME NEW a \in Admins, SetBlocked(a) PROVE Fresh'
  BY <1>14 DEF SetBlocked, callVars, poolVars, Fresh
<1>15. ASSUME NEW a \in Admins, InvalidateBlocked(a) PROVE Fresh'
  BY <1>15 DEF InvalidateBlocked, Announce, callVars, poolVars, Fresh
<1>16. ASSUME Tick PROVE Fresh'
  BY <1>16 DEF Tick, callVars, poolVars, Fresh
<1>17. CASE UNCHANGED vars
  BY <1>17 DEF vars, callVars, poolVars, Fresh
<1> QED BY <1>1, <1>2, <1>3, <1>4, <1>5, <1>6, <1>7, <1>8, <1>9, <1>10, <1>11, <1>12, <1>13,
       <1>14, <1>15, <1>16, <1>17 DEF Next, CallStep

\* The rows a merge has inserted stay in the table or with it.
LEMMA DeliveredStep == IInv /\ [Next]_vars => Delivered'
<1> SUFFICES ASSUME IInv, [Next]_vars PROVE Delivered'
  OBVIOUS
<1> USE SyncAssumption DEF IInv, TypeOK, Steps, Times, Never, history
<1>1. ASSUME NEW c \in Callers, Call(c) PROVE Delivered'
  BY <1>1 DEF Call, Go, poolVars, Delivered, Fresh, Owned
<1>2. ASSUME NEW c \in Callers, Lock(c) PROVE Delivered'
  BY <1>2 DEF Lock, Go, poolVars, Delivered, Fresh, Owned
<1>3. ASSUME NEW c \in Callers, SelectPool(c) PROVE Delivered'
  BY <1>3 DEF SelectPool, Go, poolVars, Delivered, Fresh, Owned
<1>4. ASSUME NEW c \in Callers, InsertPool(c) PROVE Delivered'
  <2>1. pool = FALSE /\ pc[c] = "insert"
    BY <1>4 DEF InsertPool, NoDuplicateInsert
  <2>2. pc' = [pc EXCEPT ![c] = "time"] /\ UNCHANGED <<force, now, feed, next>>
    BY <1>4, <2>1 DEF InsertPool, Go
  <2>3. pool' = TRUE /\ lock' = lock \ {c} /\ UNCHANGED <<clock, lastAttempt, lastSync, content>>
    BY <1>4 DEF InsertPool
  <2>4. UNCHANGED <<blocked, cached, own, admin, newest, waited, reported>>
    BY <1>4 DEF InsertPool
  <2> QED BY <2>1, <2>2, <2>3, <2>4 DEF Delivered, Fresh, Owned
<1>5. ASSUME NEW c \in Callers, ReadTime(c) PROVE Delivered'
  BY <1>5 DEF ReadTime, Go, poolVars, Delivered, Fresh, Owned
<1>6. ASSUME NEW c \in Callers, Claim(c) PROVE Delivered'
  <2>1. pc[c] = "claim" /\ UNCHANGED <<content, own>>
    BY <1>6 DEF Claim
  <2>2. pc' = [pc EXCEPT ![c] = "fetch"] \/ pc' = [pc EXCEPT ![c] = "idle"]
    BY <1>6 DEF Claim, End, Go
  <2>3. feed' = feed \/ feed' = [feed EXCEPT ![c] = <<>>]
    BY <1>6 DEF Claim, End
  <2>4. next' = next \/ next' = [next EXCEPT ![c] = 1]
    BY <1>6 DEF Claim, End
  <2> HIDE DEF Steps, Times
  <2> QED BY <2>1, <2>2, <2>3, <2>4 DEF Delivered, Fresh, Owned
<1>7. ASSUME NEW c \in Callers, Fetch(c) PROVE Delivered'
  <2>1. feed' = [feed EXCEPT ![c] = feed'[c]] /\ feed'[c] \in Seq(Items)
    BY <1>7 DEF Fetch
  <2>2. pc[c] = "fetch" /\ pc' = [pc EXCEPT ![c] = "merge"] /\ UNCHANGED <<content, own, next>>
    BY <1>7 DEF Fetch, Go, poolVars
  <2>3. next[c] = 1
    BY <2>2 DEF Fresh
  <2>4. Len(feed'[c]) \in Nat
    BY <2>1
  <2>5. \A i \in DOMAIN feed'[c] : ~ (i < 1)
    BY <2>1
  <2> HIDE DEF Steps, Times
  <2> QED BY <2>1, <2>2, <2>3, <2>4, <2>5 DEF Delivered
<1>8. ASSUME NEW c \in Callers, InsertItem(c) PROVE Delivered'
  BY <1>8 DEF InsertItem, More, Wanted, poolVars, Delivered, Fresh, Owned
<1>9. ASSUME NEW c \in Callers, CommitMerge(c) PROVE Delivered'
  BY <1>9 DEF CommitMerge, Go, More, poolVars, Delivered, Fresh, Owned
<1>10. ASSUME NEW c \in Callers, Invalidate(c) PROVE Delivered'
  BY <1>10 DEF Invalidate, Announce, Go, poolVars, Delivered, Fresh, Owned
<1>11. ASSUME NEW c \in Callers, BreakDeadlock(c) PROVE Delivered'
  BY <1>11 DEF BreakDeadlock, End, Go, Deadlocked, Waits, More, poolVars, Delivered, Fresh, Owned
<1>12. ASSUME NEW c \in Callers, Return(c) PROVE Delivered'
  BY <1>12 DEF Return, End, Go, poolVars, Delivered, Fresh, Owned
<1>13. ASSUME NEW c \in Callers, Fail(c) PROVE Delivered'
  BY <1>13 DEF Fail, End, Go, poolVars, Delivered, Fresh, Owned
<1>14. ASSUME NEW a \in Admins, SetBlocked(a) PROVE Delivered'
  BY <1>14 DEF SetBlocked, callVars, poolVars, Delivered, Fresh, Owned
<1>15. ASSUME NEW a \in Admins, InvalidateBlocked(a) PROVE Delivered'
  BY <1>15 DEF InvalidateBlocked, Announce, callVars, poolVars, Delivered, Fresh, Owned
<1>16. ASSUME Tick PROVE Delivered'
  BY <1>16 DEF Tick, callVars, poolVars, Delivered, Fresh, Owned
<1>17. CASE UNCHANGED vars
  BY <1>17 DEF vars, callVars, poolVars, Delivered, Fresh, Owned
<1> QED BY <1>1, <1>2, <1>3, <1>4, <1>5, <1>6, <1>7, <1>8, <1>9, <1>10, <1>11, <1>12, <1>13,
       <1>14, <1>15, <1>16, <1>17 DEF Next, CallStep

\* The pool appears only under the lock.
LEMMA NoDuplicateStep == IInv /\ [Next]_vars => NoDuplicateInsert'
<1> SUFFICES ASSUME IInv, [Next]_vars PROVE NoDuplicateInsert'
  OBVIOUS
<1> USE SyncAssumption DEF IInv, TypeOK, Steps, Times, Never, history
<1>1. ASSUME NEW c \in Callers, Call(c) PROVE NoDuplicateInsert'
  BY <1>1 DEF Call, Go, poolVars, NoDuplicateInsert, Locked
<1>2. ASSUME NEW c \in Callers, Lock(c) PROVE NoDuplicateInsert'
  BY <1>2 DEF Lock, Go, poolVars, NoDuplicateInsert, Locked
<1>3. ASSUME NEW c \in Callers, SelectPool(c) PROVE NoDuplicateInsert'
  BY <1>3 DEF SelectPool, Go, poolVars, NoDuplicateInsert, Locked
<1>4. ASSUME NEW c \in Callers, InsertPool(c) PROVE NoDuplicateInsert'
  <2>1. pool = FALSE /\ pc[c] = "insert"
    BY <1>4 DEF InsertPool, NoDuplicateInsert
  <2>2. pc' = [pc EXCEPT ![c] = "time"] /\ UNCHANGED <<force, now, feed, next>>
    BY <1>4, <2>1 DEF InsertPool, Go
  <2>3. pool' = TRUE /\ lock' = lock \ {c} /\ UNCHANGED <<clock, lastAttempt, lastSync, content>>
    BY <1>4 DEF InsertPool
  <2>4. UNCHANGED <<blocked, cached, own, admin, newest, waited, reported>>
    BY <1>4 DEF InsertPool
  <2> QED BY <2>1, <2>2, <2>3, <2>4 DEF NoDuplicateInsert, Locked
<1>5. ASSUME NEW c \in Callers, ReadTime(c) PROVE NoDuplicateInsert'
  BY <1>5 DEF ReadTime, Go, poolVars, NoDuplicateInsert, Locked
<1>6. ASSUME NEW c \in Callers, Claim(c) PROVE NoDuplicateInsert'
  BY <1>6 DEF Claim, End, Go, NoDuplicateInsert, Locked
<1>7. ASSUME NEW c \in Callers, Fetch(c) PROVE NoDuplicateInsert'
  BY <1>7 DEF Fetch, Go, poolVars, NoDuplicateInsert, Locked
<1>8. ASSUME NEW c \in Callers, InsertItem(c) PROVE NoDuplicateInsert'
  BY <1>8 DEF InsertItem, More, Wanted, poolVars, NoDuplicateInsert, Locked
<1>9. ASSUME NEW c \in Callers, CommitMerge(c) PROVE NoDuplicateInsert'
  BY <1>9 DEF CommitMerge, Go, More, poolVars, NoDuplicateInsert, Locked
<1>10. ASSUME NEW c \in Callers, Invalidate(c) PROVE NoDuplicateInsert'
  BY <1>10 DEF Invalidate, Announce, Go, poolVars, NoDuplicateInsert, Locked
<1>11. ASSUME NEW c \in Callers, BreakDeadlock(c) PROVE NoDuplicateInsert'
  BY <1>11 DEF BreakDeadlock, End, Go, Deadlocked, Waits, More, poolVars, NoDuplicateInsert, Locked
<1>12. ASSUME NEW c \in Callers, Return(c) PROVE NoDuplicateInsert'
  BY <1>12 DEF Return, End, Go, poolVars, NoDuplicateInsert, Locked
<1>13. ASSUME NEW c \in Callers, Fail(c) PROVE NoDuplicateInsert'
  BY <1>13 DEF Fail, End, Go, poolVars, NoDuplicateInsert, Locked
<1>14. ASSUME NEW a \in Admins, SetBlocked(a) PROVE NoDuplicateInsert'
  BY <1>14 DEF SetBlocked, callVars, poolVars, NoDuplicateInsert, Locked
<1>15. ASSUME NEW a \in Admins, InvalidateBlocked(a) PROVE NoDuplicateInsert'
  BY <1>15 DEF InvalidateBlocked, Announce, callVars, poolVars, NoDuplicateInsert, Locked
<1>16. ASSUME Tick PROVE NoDuplicateInsert'
  BY <1>16 DEF Tick, callVars, poolVars, NoDuplicateInsert, Locked
<1>17. CASE UNCHANGED vars
  BY <1>17 DEF vars, callVars, poolVars, NoDuplicateInsert, Locked
<1> QED BY <1>1, <1>2, <1>3, <1>4, <1>5, <1>6, <1>7, <1>8, <1>9, <1>10, <1>11, <1>12, <1>13,
       <1>14, <1>15, <1>16, <1>17 DEF Next, CallStep

\* A committed merge is at the end of its feed.
LEMMA SyncDeliversStep == IInv /\ [Next]_vars => SyncDelivers'
<1> SUFFICES ASSUME IInv, [Next]_vars PROVE SyncDelivers'
  OBVIOUS
<1> USE SyncAssumption DEF IInv, TypeOK, Steps, Times, Never, history
<1>1. ASSUME NEW c \in Callers, Call(c) PROVE SyncDelivers'
  BY <1>1 DEF Call, Go, poolVars, SyncDelivers, Delivered
<1>2. ASSUME NEW c \in Callers, Lock(c) PROVE SyncDelivers'
  BY <1>2 DEF Lock, Go, poolVars, SyncDelivers, Delivered
<1>3. ASSUME NEW c \in Callers, SelectPool(c) PROVE SyncDelivers'
  BY <1>3 DEF SelectPool, Go, poolVars, SyncDelivers, Delivered
<1>4. ASSUME NEW c \in Callers, InsertPool(c) PROVE SyncDelivers'
  <2>1. pool = FALSE /\ pc[c] = "insert"
    BY <1>4 DEF InsertPool, NoDuplicateInsert
  <2>2. pc' = [pc EXCEPT ![c] = "time"] /\ UNCHANGED <<force, now, feed, next>>
    BY <1>4, <2>1 DEF InsertPool, Go
  <2>3. pool' = TRUE /\ lock' = lock \ {c} /\ UNCHANGED <<clock, lastAttempt, lastSync, content>>
    BY <1>4 DEF InsertPool
  <2>4. UNCHANGED <<blocked, cached, own, admin, newest, waited, reported>>
    BY <1>4 DEF InsertPool
  <2> QED BY <2>1, <2>2, <2>3, <2>4 DEF SyncDelivers, Delivered
<1>5. ASSUME NEW c \in Callers, ReadTime(c) PROVE SyncDelivers'
  BY <1>5 DEF ReadTime, Go, poolVars, SyncDelivers, Delivered
<1>6. ASSUME NEW c \in Callers, Claim(c) PROVE SyncDelivers'
  <2>1. pc[c] = "claim" /\ UNCHANGED <<content, own>>
    BY <1>6 DEF Claim
  <2>2. pc' = [pc EXCEPT ![c] = "fetch"] \/ pc' = [pc EXCEPT ![c] = "idle"]
    BY <1>6 DEF Claim, End, Go
  <2>3. feed' = feed \/ feed' = [feed EXCEPT ![c] = <<>>]
    BY <1>6 DEF Claim, End
  <2>4. next' = next \/ next' = [next EXCEPT ![c] = 1]
    BY <1>6 DEF Claim, End
  <2> HIDE DEF Steps, Times
  <2> QED BY <2>1, <2>2, <2>3, <2>4 DEF SyncDelivers, Delivered
<1>7. ASSUME NEW c \in Callers, Fetch(c) PROVE SyncDelivers'
  BY <1>7 DEF Fetch, Go, poolVars, SyncDelivers, Delivered
<1>8. ASSUME NEW c \in Callers, InsertItem(c) PROVE SyncDelivers'
  BY <1>8 DEF InsertItem, More, Wanted, poolVars, SyncDelivers, Delivered
<1>9. ASSUME NEW c \in Callers, CommitMerge(c) PROVE SyncDelivers'
  BY <1>9 DEF CommitMerge, Go, More, poolVars, SyncDelivers, Delivered
<1>10. ASSUME NEW c \in Callers, Invalidate(c) PROVE SyncDelivers'
  BY <1>10 DEF Invalidate, Announce, Go, poolVars, SyncDelivers, Delivered
<1>11. ASSUME NEW c \in Callers, BreakDeadlock(c) PROVE SyncDelivers'
  BY <1>11 DEF BreakDeadlock, End, Go, Deadlocked, Waits, More, poolVars, SyncDelivers, Delivered
<1>12. ASSUME NEW c \in Callers, Return(c) PROVE SyncDelivers'
  BY <1>12 DEF Return, End, Go, poolVars, SyncDelivers, Delivered
<1>13. ASSUME NEW c \in Callers, Fail(c) PROVE SyncDelivers'
  BY <1>13 DEF Fail, End, Go, poolVars, SyncDelivers, Delivered
<1>14. ASSUME NEW a \in Admins, SetBlocked(a) PROVE SyncDelivers'
  BY <1>14 DEF SetBlocked, callVars, poolVars, SyncDelivers, Delivered
<1>15. ASSUME NEW a \in Admins, InvalidateBlocked(a) PROVE SyncDelivers'
  BY <1>15 DEF InvalidateBlocked, Announce, callVars, poolVars, SyncDelivers, Delivered
<1>16. ASSUME Tick PROVE SyncDelivers'
  BY <1>16 DEF Tick, callVars, poolVars, SyncDelivers, Delivered
<1>17. CASE UNCHANGED vars
  BY <1>17 DEF vars, callVars, poolVars, SyncDelivers, Delivered
<1> QED BY <1>1, <1>2, <1>3, <1>4, <1>5, <1>6, <1>7, <1>8, <1>9, <1>10, <1>11, <1>12, <1>13,
       <1>14, <1>15, <1>16, <1>17 DEF Next, CallStep

\* A commit counts the rows it brings in.
LEMMA CountsStep == IInv /\ [Next]_vars => CountsAddUp'
<1> SUFFICES ASSUME IInv, [Next]_vars PROVE CountsAddUp'
  OBVIOUS
<1> USE SyncAssumption DEF IInv, TypeOK, Steps, Times, Never, history
<1>1. ASSUME NEW c \in Callers, Call(c) PROVE CountsAddUp'
  BY <1>1 DEF Call, Go, poolVars, CountsAddUp, Owned
<1>2. ASSUME NEW c \in Callers, Lock(c) PROVE CountsAddUp'
  BY <1>2 DEF Lock, Go, poolVars, CountsAddUp, Owned
<1>3. ASSUME NEW c \in Callers, SelectPool(c) PROVE CountsAddUp'
  BY <1>3 DEF SelectPool, Go, poolVars, CountsAddUp, Owned
<1>4. ASSUME NEW c \in Callers, InsertPool(c) PROVE CountsAddUp'
  <2>1. pool = FALSE /\ pc[c] = "insert"
    BY <1>4 DEF InsertPool, NoDuplicateInsert
  <2>2. pc' = [pc EXCEPT ![c] = "time"] /\ UNCHANGED <<force, now, feed, next>>
    BY <1>4, <2>1 DEF InsertPool, Go
  <2>3. pool' = TRUE /\ lock' = lock \ {c} /\ UNCHANGED <<clock, lastAttempt, lastSync, content>>
    BY <1>4 DEF InsertPool
  <2>4. UNCHANGED <<blocked, cached, own, admin, newest, waited, reported>>
    BY <1>4 DEF InsertPool
  <2> QED BY <2>1, <2>2, <2>3, <2>4 DEF CountsAddUp, Owned
<1>5. ASSUME NEW c \in Callers, ReadTime(c) PROVE CountsAddUp'
  BY <1>5 DEF ReadTime, Go, poolVars, CountsAddUp, Owned
<1>6. ASSUME NEW c \in Callers, Claim(c) PROVE CountsAddUp'
  BY <1>6 DEF Claim, End, Go, CountsAddUp, Owned
<1>7. ASSUME NEW c \in Callers, Fetch(c) PROVE CountsAddUp'
  BY <1>7 DEF Fetch, Go, poolVars, CountsAddUp, Owned
<1>8. ASSUME NEW c \in Callers, InsertItem(c) PROVE CountsAddUp'
  BY <1>8 DEF InsertItem, More, Wanted, poolVars, CountsAddUp, Owned
<1>9. ASSUME NEW c \in Callers, CommitMerge(c) PROVE CountsAddUp'
  <2>1. IsFiniteSet(content) /\ IsFiniteSet(own[c]) /\ content \cap own[c] = {}
    BY DEF Owned
  <2>2. Cardinality({}) = 0 /\ Cardinality(content) \in Nat /\ Cardinality(own[c]) \in Nat
    BY <2>1, FS_EmptySet, FS_CardinalityType
  <2>3. Cardinality(content \cup own[c])
        = Cardinality(content) + Cardinality(own[c]) - Cardinality(content \cap own[c])
    BY <2>1, FS_Union
  <2>4. reported' = reported + Cardinality(own[c]) /\ content' = content \cup own[c]
    BY <1>9 DEF CommitMerge
  <2>5. Cardinality(content \cup own[c]) = Cardinality(content) + Cardinality(own[c])
    <3>1. Cardinality(content \cap own[c]) = 0
      BY <2>1, <2>2
    <3> HIDE DEF IInv, TypeOK
    <3> QED BY <2>2, <2>3, <3>1
  <2>6. reported = Cardinality(content)
    BY DEF CountsAddUp
  <2> HIDE DEF IInv, TypeOK
  <2> QED BY <2>4, <2>5, <2>6 DEF CountsAddUp
<1>10. ASSUME NEW c \in Callers, Invalidate(c) PROVE CountsAddUp'
  BY <1>10 DEF Invalidate, Announce, Go, poolVars, CountsAddUp, Owned
<1>11. ASSUME NEW c \in Callers, BreakDeadlock(c) PROVE CountsAddUp'
  BY <1>11 DEF BreakDeadlock, End, Go, Deadlocked, Waits, More, poolVars, CountsAddUp, Owned
<1>12. ASSUME NEW c \in Callers, Return(c) PROVE CountsAddUp'
  BY <1>12 DEF Return, End, Go, poolVars, CountsAddUp, Owned
<1>13. ASSUME NEW c \in Callers, Fail(c) PROVE CountsAddUp'
  BY <1>13 DEF Fail, End, Go, poolVars, CountsAddUp, Owned
<1>14. ASSUME NEW a \in Admins, SetBlocked(a) PROVE CountsAddUp'
  BY <1>14 DEF SetBlocked, callVars, poolVars, CountsAddUp, Owned
<1>15. ASSUME NEW a \in Admins, InvalidateBlocked(a) PROVE CountsAddUp'
  BY <1>15 DEF InvalidateBlocked, Announce, callVars, poolVars, CountsAddUp, Owned
<1>16. ASSUME Tick PROVE CountsAddUp'
  BY <1>16 DEF Tick, callVars, poolVars, CountsAddUp, Owned
<1>17. CASE UNCHANGED vars
  BY <1>17 DEF vars, callVars, poolVars, CountsAddUp, Owned
<1> QED BY <1>1, <1>2, <1>3, <1>4, <1>5, <1>6, <1>7, <1>8, <1>9, <1>10, <1>11, <1>12, <1>13,
       <1>14, <1>15, <1>16, <1>17 DEF Next, CallStep

\* Whoever changes what is answered invalidates it.
LEMMA StaleStep == IInv /\ [Next]_vars => StaleIsPending'
<1> SUFFICES ASSUME IInv, [Next]_vars PROVE StaleIsPending'
  OBVIOUS
<1> USE SyncAssumption DEF IInv, TypeOK, Steps, Times, Never, history
<1>1. ASSUME NEW c \in Callers, Call(c) PROVE StaleIsPending'
  BY <1>1 DEF Call, Go, poolVars, StaleIsPending
<1>2. ASSUME NEW c \in Callers, Lock(c) PROVE StaleIsPending'
  BY <1>2 DEF Lock, Go, poolVars, StaleIsPending
<1>3. ASSUME NEW c \in Callers, SelectPool(c) PROVE StaleIsPending'
  BY <1>3 DEF SelectPool, Go, poolVars, StaleIsPending
<1>4. ASSUME NEW c \in Callers, InsertPool(c) PROVE StaleIsPending'
  <2>1. pool = FALSE /\ pc[c] = "insert"
    BY <1>4 DEF InsertPool, NoDuplicateInsert
  <2>2. pc' = [pc EXCEPT ![c] = "time"] /\ UNCHANGED <<force, now, feed, next>>
    BY <1>4, <2>1 DEF InsertPool, Go
  <2>3. pool' = TRUE /\ lock' = lock \ {c} /\ UNCHANGED <<clock, lastAttempt, lastSync, content>>
    BY <1>4 DEF InsertPool
  <2>4. UNCHANGED <<blocked, cached, own, admin, newest, waited, reported>>
    BY <1>4 DEF InsertPool
  <2> QED BY <2>1, <2>2, <2>3, <2>4 DEF StaleIsPending
<1>5. ASSUME NEW c \in Callers, ReadTime(c) PROVE StaleIsPending'
  BY <1>5 DEF ReadTime, Go, poolVars, StaleIsPending
<1>6. ASSUME NEW c \in Callers, Claim(c) PROVE StaleIsPending'
  BY <1>6 DEF Claim, End, Go, StaleIsPending
<1>7. ASSUME NEW c \in Callers, Fetch(c) PROVE StaleIsPending'
  BY <1>7 DEF Fetch, Go, poolVars, StaleIsPending
<1>8. ASSUME NEW c \in Callers, InsertItem(c) PROVE StaleIsPending'
  BY <1>8 DEF InsertItem, More, Wanted, poolVars, StaleIsPending
<1>9. ASSUME NEW c \in Callers, CommitMerge(c) PROVE StaleIsPending'
  BY <1>9 DEF CommitMerge, Go, More, poolVars, StaleIsPending
<1>10. ASSUME NEW c \in Callers, Invalidate(c) PROVE StaleIsPending'
  BY <1>10 DEF Invalidate, Announce, Go, poolVars, StaleIsPending
<1>11. ASSUME NEW c \in Callers, BreakDeadlock(c) PROVE StaleIsPending'
  BY <1>11 DEF BreakDeadlock, End, Go, Deadlocked, Waits, More, poolVars, StaleIsPending
<1>12. ASSUME NEW c \in Callers, Return(c) PROVE StaleIsPending'
  BY <1>12 DEF Return, End, Go, poolVars, StaleIsPending
<1>13. ASSUME NEW c \in Callers, Fail(c) PROVE StaleIsPending'
  BY <1>13 DEF Fail, End, Go, poolVars, StaleIsPending
<1>14. ASSUME NEW a \in Admins, SetBlocked(a) PROVE StaleIsPending'
  BY <1>14 DEF SetBlocked, callVars, poolVars, StaleIsPending
<1>15. ASSUME NEW a \in Admins, InvalidateBlocked(a) PROVE StaleIsPending'
  BY <1>15 DEF InvalidateBlocked, Announce, callVars, poolVars, StaleIsPending
<1>16. ASSUME Tick PROVE StaleIsPending'
  BY <1>16 DEF Tick, callVars, poolVars, StaleIsPending
<1>17. CASE UNCHANGED vars
  BY <1>17 DEF vars, callVars, poolVars, StaleIsPending
<1> QED BY <1>1, <1>2, <1>3, <1>4, <1>5, <1>6, <1>7, <1>8, <1>9, <1>10, <1>11, <1>12, <1>13,
       <1>14, <1>15, <1>16, <1>17 DEF Next, CallStep

\* A claim that is executed d late sets the row back by at most d.
LEMMA AttemptsStep == IInv /\ [Next]_vars => Attempts'
<1> SUFFICES ASSUME IInv, [Next]_vars PROVE Attempts'
  OBVIOUS
<1> USE SyncAssumption DEF IInv, TypeOK, Steps, Times, Never, history
<1>1. ASSUME NEW c \in Callers, Call(c) PROVE Attempts'
  BY <1>1 DEF Call, Go, poolVars, Attempts
<1>2. ASSUME NEW c \in Callers, Lock(c) PROVE Attempts'
  BY <1>2 DEF Lock, Go, poolVars, Attempts
<1>3. ASSUME NEW c \in Callers, SelectPool(c) PROVE Attempts'
  BY <1>3 DEF SelectPool, Go, poolVars, Attempts
<1>4. ASSUME NEW c \in Callers, InsertPool(c) PROVE Attempts'
  <2>1. pool = FALSE /\ pc[c] = "insert"
    BY <1>4 DEF InsertPool, NoDuplicateInsert
  <2>2. pc' = [pc EXCEPT ![c] = "time"] /\ UNCHANGED <<force, now, feed, next>>
    BY <1>4, <2>1 DEF InsertPool, Go
  <2>3. pool' = TRUE /\ lock' = lock \ {c} /\ UNCHANGED <<clock, lastAttempt, lastSync, content>>
    BY <1>4 DEF InsertPool
  <2>4. UNCHANGED <<blocked, cached, own, admin, newest, waited, reported>>
    BY <1>4 DEF InsertPool
  <2> QED BY <2>1, <2>2, <2>3, <2>4 DEF Attempts
<1>5. ASSUME NEW c \in Callers, ReadTime(c) PROVE Attempts'
  BY <1>5 DEF ReadTime, Go, poolVars, Attempts
<1>6. ASSUME NEW c \in Callers, Claim(c) PROVE Attempts'
  <2>1. clock' = clock /\ \A d \in Callers : now'[d] <= clock
    <3>1. clock' = clock /\ (now' = now \/ now' = [now EXCEPT ![c] = 0])
      BY <1>6 DEF Claim, End
    <3>2. now \in [Callers -> Times] /\ clock \in 0 .. MaxClock
      OBVIOUS
    <3>3. \A d \in Callers : now[d] <= clock
      BY DEF Attempts
    <3> HIDE DEF IInv, TypeOK, Times
    <3> QED BY <3>1, <3>2, <3>3
  <2>2. /\ clock \in Nat /\ now[c] \in Nat /\ now[c] <= clock /\ Interval \in Nat
        /\ newest \in Int /\ lastAttempt \in Int /\ waited \in Nat
        /\ newest <= clock /\ lastAttempt <= newest /\ newest <= lastAttempt + waited
        /\ lastAttempt = -1 => newest = -1
    <3>1. clock \in 0 .. MaxClock /\ now[c] \in 0 .. MaxClock /\ waited \in 0 .. MaxClock
      OBVIOUS
    <3>2. newest \in (0 .. MaxClock) \cup {-1} /\ lastAttempt \in (0 .. MaxClock) \cup {-1}
      OBVIOUS
    <3>3. /\ now[c] <= clock /\ newest <= clock /\ lastAttempt <= newest
          /\ newest <= lastAttempt + waited /\ (lastAttempt = -1 => newest = -1)
      BY DEF Attempts
    <3> HIDE DEF IInv, TypeOK
    <3> QED BY <3>1, <3>2, <3>3
  <2>3. CASE ~ Claimable(c)
    BY <1>6, <2>1, <2>3 DEF Claim, Attempts
  <2>4. CASE Claimable(c)
    <3>1. /\ lastAttempt' = now[c]
          /\ newest' = IF newest < now[c] THEN now[c] ELSE newest
          /\ waited' = IF force[c] THEN (IF waited < clock - now[c] THEN clock - now[c] ELSE waited)
                       ELSE waited
      BY <1>6, <2>4 DEF Claim, Later
    <3>2. force[c] \/ lastAttempt = -1 \/ lastAttempt <= now[c] - Interval
      BY <2>4 DEF Claimable
    <3> HIDE DEF IInv, TypeOK
    <3>3. newest' <= clock /\ lastAttempt' <= newest' /\ lastAttempt' # -1
      BY <2>2, <3>1
    <3>4. newest' <= lastAttempt' + waited'
      BY <2>2, <3>1, <3>2
    <3> QED BY <2>1, <3>3, <3>4 DEF Attempts
  <2> QED BY <2>3, <2>4
<1>7. ASSUME NEW c \in Callers, Fetch(c) PROVE Attempts'
  BY <1>7 DEF Fetch, Go, poolVars, Attempts
<1>8. ASSUME NEW c \in Callers, InsertItem(c) PROVE Attempts'
  BY <1>8 DEF InsertItem, More, Wanted, poolVars, Attempts
<1>9. ASSUME NEW c \in Callers, CommitMerge(c) PROVE Attempts'
  BY <1>9 DEF CommitMerge, Go, More, poolVars, Attempts
<1>10. ASSUME NEW c \in Callers, Invalidate(c) PROVE Attempts'
  BY <1>10 DEF Invalidate, Announce, Go, poolVars, Attempts
<1>11. ASSUME NEW c \in Callers, BreakDeadlock(c) PROVE Attempts'
  BY <1>11 DEF BreakDeadlock, End, Go, Deadlocked, Waits, More, poolVars, Attempts
<1>12. ASSUME NEW c \in Callers, Return(c) PROVE Attempts'
  BY <1>12 DEF Return, End, Go, poolVars, Attempts
<1>13. ASSUME NEW c \in Callers, Fail(c) PROVE Attempts'
  BY <1>13 DEF Fail, End, Go, poolVars, Attempts
<1>14. ASSUME NEW a \in Admins, SetBlocked(a) PROVE Attempts'
  BY <1>14 DEF SetBlocked, callVars, poolVars, Attempts
<1>15. ASSUME NEW a \in Admins, InvalidateBlocked(a) PROVE Attempts'
  BY <1>15 DEF InvalidateBlocked, Announce, callVars, poolVars, Attempts
<1>16. ASSUME Tick PROVE Attempts'
  BY <1>16 DEF Tick, callVars, poolVars, Attempts
<1>17. CASE UNCHANGED vars
  BY <1>17 DEF vars, callVars, poolVars, Attempts
<1> QED BY <1>1, <1>2, <1>3, <1>4, <1>5, <1>6, <1>7, <1>8, <1>9, <1>10, <1>11, <1>12, <1>13,
       <1>14, <1>15, <1>16, <1>17 DEF Next, CallStep

--------------------------------------------------------------------------------
(* Theorems *)

\* The invariant holds of an empty pool.
LEMMA InitIInv == Init => IInv
<1> SUFFICES ASSUME Init PROVE IInv
  OBVIOUS
<1> USE SyncAssumption, FS_EmptySet DEF Init
<1>1. TypeOK
  <2>1. clock \in Times /\ lastAttempt \in Times \cup {Never} /\ lastSync \in Times \cup {Never}
    BY DEF Times
  <2>2. /\ now \in [Callers -> Times] /\ newest \in Times \cup {Never} /\ waited \in Times
        /\ reported \in Nat
    BY DEF Times
  <2>3. pc \in [Callers -> Steps] /\ admin \in [Admins -> {"idle", "invalidate"}]
    BY DEF Steps
  <2>4. /\ force \in [Callers -> BOOLEAN] /\ feed \in [Callers -> Feeds \cup {<<>>}]
        /\ next \in [Callers -> Nat \ {0}] /\ own \in [Callers -> SUBSET Items]
    OBVIOUS
  <2>5. /\ pool \in BOOLEAN /\ cached \in {"current", "outdated", "missed"} /\ lock = {}
        /\ content = {} /\ blocked = {}
    OBVIOUS
  <2> QED BY <2>1, <2>2, <2>3, <2>4, <2>5 DEF TypeOK
<1>2. Locked /\ Owned /\ Fresh /\ Delivered
  BY DEF Locked, Owned, Fresh, Delivered
<1>3. NoDuplicateInsert /\ SyncDelivers /\ CountsAddUp /\ StaleIsPending
  BY DEF NoDuplicateInsert, SyncDelivers, CountsAddUp, StaleIsPending
<1>4. Attempts
  BY DEF Attempts, Times, Never
<1> QED BY <1>1, <1>2, <1>3, <1>4 DEF IInv

\* Every step of a call, of the upstream or of an administrator keeps the invariant.
LEMMA Step == IInv /\ [Next]_vars => IInv'
BY TypeStep, LockedStep, OwnedStep, FreshStep, DeliveredStep, NoDuplicateStep, SyncDeliversStep,
   CountsStep, StaleStep, AttemptsStep DEF IInv

\* The inductive invariant of the pool and its calls.
THEOREM Inductive == Spec => []IInv
BY InitIInv, Step, PTL DEF Spec

\* Every variable of the pool and of the calls keeps its type.
THEOREM TypeCorrect == Spec => []TypeOK
BY Inductive, PTL DEF IInv

\* First calls of any number of processes never insert the same pool twice
\* (EnsureCatalogPool, the advisory lock).
THEOREM NoDuplicateInsertHolds == Spec => []NoDuplicateInsert
BY Inductive, PTL DEF IInv

\* A call that reports success has everything it fetched in the table, whatever
\* transactions ran beside its own (MergeCatalogDanmaku).
THEOREM SyncDeliversHolds == Spec => []SyncDelivers
BY Inductive, PTL DEF IInv

\* The counts that the merges report are, together, the rows of the pool.
THEOREM CountsAddUpHolds == Spec => []CountsAddUp
BY Inductive, PTL DEF IInv

\* Cached answers are out of date only while an invalidation is to come.
THEOREM StaleIsPendingHolds == Spec => []StaleIsPending
BY Inductive, PTL DEF IInv

\* Only an administrator unblocks a danmaku.
THEOREM BlockedStaysHolds == Spec => BlockedStays
<1>1. IInv /\ [Next]_vars
        => [\A x \in blocked : x \in blocked' \/ \E a \in Admins : admin'[a] # admin[a]]_vars
  <2> SUFFICES ASSUME IInv, [Next]_vars, NEW x \in blocked
               PROVE x \in blocked' \/ \E a \in Admins : admin'[a] # admin[a]
    OBVIOUS
  <2>1. ASSUME NEW a \in Admins, SetBlocked(a) PROVE admin'[a] # admin[a]
    BY <2>1 DEF SetBlocked, IInv, TypeOK
  <2>2. (\A a \in Admins : ~ SetBlocked(a)) => blocked' = blocked
    BY DEF Next, CallStep, Call, Lock, SelectPool, InsertPool, ReadTime, Claim, Fetch, InsertItem,
           CommitMerge, Invalidate, BreakDeadlock, Return, Fail, InvalidateBlocked, Tick, vars,
           poolVars
  <2> QED BY <2>1, <2>2
<1> QED BY <1>1, Inductive, PTL DEF Spec, BlockedStays

--------------------------------------------------------------------------------
(* The spacing of attempts *)

\* A passive call reaches the upstream only when the window of every attempt before it
\* is over, but for as much as some forced claim was executed after the time it wrote.
THEOREM SpacedButForWaitsHolds == Spec => SpacedButForWaits
<1>1. IInv /\ [Next]_vars => [\A c \in Callers : SpacedBy(Interval - waited, c)]_vars
  <2> SUFFICES ASSUME IInv, [Next]_vars, NEW c \in Callers,
                      pc[c] = "claim", pc'[c] = "fetch", ~force[c], newest # Never
               PROVE now[c] - newest >= Interval - waited
    BY DEF SpacedBy
  <2>1. Claim(c)
    <3> USE DEF IInv, TypeOK
    <3>1. \A d \in Callers : d # c =>
            ~ (Call(d) \/ Lock(d) \/ SelectPool(d) \/ InsertPool(d) \/ ReadTime(d) \/ Claim(d))
      BY DEF Call, Lock, SelectPool, InsertPool, ReadTime, Claim, End, Go
    <3>2. \A d \in Callers : d # c =>
            ~ (Fetch(d) \/ InsertItem(d) \/ CommitMerge(d) \/ Invalidate(d) \/ BreakDeadlock(d)
                 \/ Return(d) \/ Fail(d))
      BY DEF Fetch, InsertItem, CommitMerge, Invalidate, BreakDeadlock, Return, Fail, End, Go
    <3>3. ~ (Call(c) \/ Lock(c) \/ SelectPool(c) \/ InsertPool(c) \/ ReadTime(c) \/ Fetch(c)
               \/ InsertItem(c) \/ CommitMerge(c) \/ Invalidate(c) \/ Return(c))
      BY DEF Call, Lock, SelectPool, InsertPool, ReadTime, Fetch, InsertItem, More, CommitMerge,
             Invalidate, Return
    <3>4. ~ (Fail(c) \/ BreakDeadlock(c))
      BY DEF Fail, BreakDeadlock, End, Go
    <3>5. ~ (Tick \/ UNCHANGED vars \/ \E a \in Admins : SetBlocked(a) \/ InvalidateBlocked(a))
      BY DEF Tick, vars, callVars, SetBlocked, InvalidateBlocked
    <3> QED BY <3>1, <3>2, <3>3, <3>4, <3>5 DEF Next, CallStep
  <2>2. lastAttempt = Never \/ lastAttempt <= now[c] - Interval
    BY <2>1 DEF Claim, Claimable, End, Go, IInv, TypeOK
  <2>3. /\ now[c] \in Int /\ newest \in Int /\ lastAttempt \in Int /\ waited \in Int
        /\ Interval \in Int
    BY SyncAssumption DEF IInv, TypeOK, Times, Never
  <2>4. newest <= lastAttempt + waited /\ (lastAttempt = Never => newest = Never)
    BY DEF IInv, Attempts
  <2> QED BY <2>2, <2>3, <2>4
<1> QED BY <1>1, Inductive, PTL DEF Spec, SpacedButForWaits

================================================================================
