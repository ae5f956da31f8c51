-------------------------- MODULE NativeDanmakuProofs --------------------------
(***************************************************************************)
(* The properties of NativeDanmaku for any calls, posts, rules and window. *)
(*                                                                         *)
(* None of them is inductive alone.  What carries them is who holds which  *)
(* lock: between reading the rules and its commit a submission holds the   *)
(* rule lock, so the rules it read are those in force (RulesRead); between *)
(* finding its video and its commit it is the only one that holds the row, *)
(* so what it learned about duplicates and about the video still is true   *)
(* (VideoHeld, NothingNewer).                                              *)
(***************************************************************************)
EXTENDS NativeDanmaku, TLAPS

InTransaction == {"lock", "video", "check", "insert"}

\* Calls that have begun have their parameters.
Requests ==
    /\ \A s \in Senders : pc[s] # "idle" => post[s] \in Posts
    /\ \A w \in RuleCalls : rulePc[w] # "idle" =>
         /\ change[w] \in [rule : Rules, op : Ops]
         /\ change[w].op = "scan" => change[w].rule \in AuthorRules
    /\ \A e \in Edits : editPc[e] = "update" => edit[e] \in [id : Senders, row : StoredRows]

\* The rule lock is with the submissions in a transaction, or with one rule change.
RuleHeld ==
    /\ \A s \in Senders : s \in ruleLock <=> pc[s] \in InTransaction
    /\ \A w \in RuleCalls : w \in ruleLock <=> rulePc[w] = "write"
    /\ \A w \in RuleCalls : w \in ruleLock => ruleLock = {w}

PostHeld == \A s \in Senders : s \in postLock <=> pc[s] \in InTransaction \ {"lock"}

RulesRead ==
    \A s \in Senders : pc[s] \in InTransaction =>
        seen[s] = rules /\ ~ Denied(post[s], rules)

VideoHeld ==
    /\ \A s \in Senders : s \in videoLock <=> pc[s] \in {"check", "insert"}
    /\ \A s \in videoLock : video[post[s].vid] # "deleted"
    /\ \A s, t \in videoLock : s # t => post[s].vid # post[t].vid

\* What a submission has stored is what it sent, until an Edit writes it.
AsSent(s) ==
    /\ pc[s] \in {"invalidate", "done"}
    /\ row[s] \in StoredRows
    /\ s \notin touched => row[s].text = post[s].text

Stored ==
    /\ \A s \in Senders : row[s].stored => AsSent(s)
    /\ \A e \in Edits : editPc[e] = "update" => row[edit[e].id].stored

\* Whoever is about to insert has found no equal submission within its window.
NothingNewer ==
    \A s, t \in Senders :
        (pc[s] = "insert" /\ row[t].stored /\ t \notin touched /\ SameKey(post[s], post[t]))
            => row[t].time < now[s] - Window

IInv ==
    /\ TypeOK
    /\ Requests
    /\ RuleHeld
    /\ PostHeld
    /\ RulesRead
    /\ VideoHeld
    /\ Stored
    /\ NothingNewer
    /\ OnePerWindow
    /\ ScanIsComplete
    /\ StaleIsPending

\* The row that stands for none is a row, and not a stored one.
LEMMA NoRowType == NoRow \in Rows /\ ~ NoRow.stored
BY DEF Rows, NoRow

\* A row that is stored is a stored row.
LEMMA StoredType ==
    ASSUME NEW r \in Rows, r.stored
    PROVE  r \in StoredRows
BY DEF Rows, NoRow

\* Times are integers.
LEMMA TimesAreInts ==
    ASSUME IInv, NEW s \in Senders
    PROVE  /\ Window \in Int
           /\ now[s] \in Int
           /\ row[s].stored => row[s].time \in Int
<1>1. Window \in Int /\ Times \subseteq Int
  BY NativeAssumption DEF Times
<1>2. now[s] \in Times
  BY DEF IInv, TypeOK
<1>3. row[s].stored => row[s].time \in Times
  <2>1. row[s].stored => row[s] \in StoredRows
    BY StoredType DEF IInv, TypeOK
  <2> QED BY <2>1 DEF StoredRows
<1> QED BY <1>1, <1>2, <1>3

\* The invariant holds of whatever rules and videos there are at first.
LEMMA InitIInv == Init => IInv
<1> SUFFICES ASSUME Init PROVE IInv
  OBVIOUS
<1>1. TypeOK
  <2>1. 0 \in Times
    BY NativeAssumption DEF Times
  <2>2. ruleLock \in (SUBSET Senders) \cup {{w} : w \in RuleCalls}
    BY DEF Init
  <2>3. rules \subseteq Rules /\ scanned \subseteq rules \cap AuthorRules
    BY NativeAssumption DEF Init
  <2> QED BY <2>1, <2>2, <2>3, NoRowType DEF Init, TypeOK
<1>2. Requests /\ RuleHeld /\ PostHeld /\ RulesRead /\ VideoHeld
  BY DEF Init, Requests, RuleHeld, PostHeld, RulesRead, VideoHeld, InTransaction
<1>3. Stored /\ NothingNewer /\ OnePerWindow /\ ScanIsComplete /\ StaleIsPending
  BY NoRowType DEF Init, Stored, NothingNewer, OnePerWindow, ScanIsComplete, ByAuthor, StaleIsPending
<1> QED BY <1>1, <1>2, <1>3 DEF IInv

--------------------------------------------------------------------------------
(* Parameters and locks *)

\* What a call under way was made with keeps its type.
LEMMA RequestsStep == IInv /\ [Next]_vars => Requests'
<1> SUFFICES ASSUME IInv, [Next]_vars PROVE Requests'
  OBVIOUS
<1> USE NativeAssumption DEF IInv
<1>1. ASSUME NEW s \in Senders, Send(s) PROVE Requests'
  BY <1>1 DEF Send, Go, tables, sendVars, ruleVars, editVars, Requests, TypeOK
<1>2. ASSUME NEW s \in Senders, ReadRules(s) PROVE Requests'
  BY <1>2 DEF ReadRules, Go, tables, sendVars, ruleVars, editVars, Requests, TypeOK
<1>3. ASSUME NEW s \in Senders, LockPost(s) PROVE Requests'
  BY <1>3 DEF LockPost, Go, tables, sendVars, ruleVars, editVars, Requests, TypeOK
<1>4. ASSUME NEW s \in Senders, FindVideo(s) PROVE Requests'
  BY <1>4 DEF FindVideo, Go, Release, Free, tables, sendVars, ruleVars, editVars, Requests, TypeOK
<1>5. ASSUME NEW s \in Senders, CheckDuplicate(s) PROVE Requests'
  BY <1>5 DEF CheckDuplicate, Go, Release, tables, sendVars, ruleVars, editVars, Requests, TypeOK
<1>6. ASSUME NEW s \in Senders, Store(s) PROVE Requests'
  BY <1>6 DEF Store, Go, Release, tables, sendVars, ruleVars, editVars, Requests, TypeOK
<1>7. ASSUME NEW s \in Senders, InvalidateSent(s) PROVE Requests'
  BY <1>7 DEF InvalidateSent, Go, tables, sendVars, ruleVars, editVars, Requests, TypeOK
<1>8. ASSUME NEW s \in Senders, FailSend(s) PROVE Requests'
  BY <1>8 DEF FailSend, Go, Release, tables, sendVars, ruleVars, editVars, Requests, TypeOK
<1>9. ASSUME NEW w \in RuleCalls, CallRule(w) PROVE Requests'
  BY <1>9 DEF CallRule, GoRule, tables, sendVars, ruleVars, editVars, Requests, TypeOK
<1>10. ASSUME NEW w \in RuleCalls, LockRules(w) PROVE Requests'
  BY <1>10 DEF LockRules, GoRule, tables, sendVars, ruleVars, editVars, Requests, TypeOK
<1>11. ASSUME NEW w \in RuleCalls, Refuse(w) PROVE Requests'
  BY <1>11 DEF Refuse, GoRule, tables, sendVars, ruleVars, editVars, Requests, TypeOK
<1>12. ASSUME NEW w \in RuleCalls, Create(w) PROVE Requests'
  <2>1. rulePc[w] = "write" /\ UNCHANGED <<pc, post, change, editPc, edit>>
    BY <1>12, Zenon DEF Create, sendVars, editVars
  <2>2. rulePc' = [rulePc EXCEPT ![w] = "invalidate"] \/ rulePc' = [rulePc EXCEPT ![w] = "done"]
    BY <1>12, Zenon DEF Create, GoRule
  <2> QED BY <2>1, <2>2 DEF Requests, TypeOK
<1>13. ASSUME NEW w \in RuleCalls, Remove(w) PROVE Requests'
  BY <1>13 DEF Remove, GoRule, tables, sendVars, ruleVars, editVars, Requests, TypeOK
<1>14. ASSUME NEW w \in RuleCalls, InvalidateScanned(w) PROVE Requests'
  BY <1>14 DEF InvalidateScanned, GoRule, tables, sendVars, ruleVars, editVars, Requests, TypeOK
<1>15. ASSUME NEW w \in RuleCalls, FailRule(w) PROVE Requests'
  BY <1>15 DEF FailRule, GoRule, tables, sendVars, ruleVars, editVars, Requests, TypeOK
<1>16. ASSUME NEW e \in Edits, Get(e) PROVE Requests'
  <2>1. PICK s \in Senders : row[s].stored /\ edit' = [edit EXCEPT ![e] = [id |-> s, row |-> row[s]]]
    BY <1>16 DEF Get
  <2>2. row[s] \in StoredRows
    BY <2>1, StoredType DEF TypeOK
  <2> QED BY <1>16, <2>1, <2>2 DEF Get, GoEdit, tables, sendVars, ruleVars, Requests, TypeOK
<1>17. ASSUME NEW e \in Edits, Update(e) PROVE Requests'
  BY <1>17 DEF Update, GoEdit, tables, sendVars, ruleVars, editVars, Requests, TypeOK
<1>18. ASSUME NEW e \in Edits, Delete(e) PROVE Requests'
  BY <1>18 DEF Delete, GoEdit, tables, sendVars, ruleVars, editVars, Requests, TypeOK
<1>19. ASSUME NEW e \in Edits, InvalidateEdited(e) PROVE Requests'
  BY <1>19 DEF InvalidateEdited, GoEdit, tables, sendVars, ruleVars, editVars, Requests, TypeOK
<1>20. ASSUME NEW v \in Videos, EnsureVideo(v) PROVE Requests'
  BY <1>20 DEF EnsureVideo, Free, tables, sendVars, ruleVars, editVars, Requests, TypeOK
<1>21. ASSUME NEW v \in Videos, SetVideoDeleted(v) PROVE Requests'
  BY <1>21 DEF SetVideoDeleted, Free, tables, sendVars, ruleVars, editVars, Requests, TypeOK
<1>22. ASSUME Tick \/ UNCHANGED vars PROVE Requests'
  BY <1>22 DEF Tick, vars, tables, sendVars, ruleVars, editVars, Requests, TypeOK
<1> QED BY <1>1, <1>2, <1>3, <1>4, <1>5, <1>6, <1>7, <1>8, <1>9, <1>10, <1>11, <1>12, 
           <1>13, <1>14, <1>15, <1>16, <1>17, <1>18, <1>19, <1>20, <1>21, <1>22 DEF Next

\* Every step keeps the rule lock with submissions or with one rule change.
LEMMA RuleHeldStep == IInv /\ [Next]_vars => RuleHeld'
<1> SUFFICES ASSUME IInv, [Next]_vars PROVE RuleHeld'
  OBVIOUS
<1> USE NativeAssumption DEF IInv
<1>1. ASSUME NEW s \in Senders, Send(s) PROVE RuleHeld'
  BY <1>1 DEF Send, Go, tables, sendVars, ruleVars, editVars, RuleHeld, TypeOK, InTransaction
<1>2. ASSUME NEW s \in Senders, ReadRules(s) PROVE RuleHeld'
  BY <1>2 DEF ReadRules, Go, tables, sendVars, ruleVars, editVars, RuleHeld, TypeOK, InTransaction
<1>3. ASSUME NEW s \in Senders, LockPost(s) PROVE RuleHeld'
  BY <1>3 DEF LockPost, Go, tables, sendVars, ruleVars, editVars, RuleHeld, TypeOK, InTransaction
<1>4. ASSUME NEW s \in Senders, FindVideo(s) PROVE RuleHeld'
  BY <1>4 DEF FindVideo, Go, Release, Free, tables, sendVars, ruleVars, editVars, RuleHeld, TypeOK, InTransaction
<1>5. ASSUME NEW s \in Senders, CheckDuplicate(s) PROVE RuleHeld'
  BY <1>5 DEF CheckDuplicate, Go, Release, tables, sendVars, ruleVars, editVars, RuleHeld, TypeOK, InTransaction
<1>6. ASSUME NEW s \in Senders, Store(s) PROVE RuleHeld'
  BY <1>6 DEF Store, Go, Release, tables, sendVars, ruleVars, editVars, RuleHeld, TypeOK, InTransaction
<1>7. ASSUME NEW s \in Senders, InvalidateSent(s) PROVE RuleHeld'
  BY <1>7 DEF InvalidateSent, Go, tables, sendVars, ruleVars, editVars, RuleHeld, TypeOK, InTransaction
<1>8. ASSUME NEW s \in Senders, FailSend(s) PROVE RuleHeld'
  BY <1>8 DEF FailSend, Go, Release, tables, sendVars, ruleVars, editVars, RuleHeld, TypeOK, InTransaction
<1>9. ASSUME NEW w \in RuleCalls, CallRule(w) PROVE RuleHeld'
  BY <1>9 DEF CallRule, GoRule, tables, sendVars, ruleVars, editVars, RuleHeld, TypeOK, InTransaction
<1>10. ASSUME NEW w \in RuleCalls, LockRules(w) PROVE RuleHeld'
  BY <1>10 DEF LockRules, GoRule, tables, sendVars, ruleVars, editVars, RuleHeld, TypeOK, InTransaction
<1>11. ASSUME NEW w \in RuleCalls, Refuse(w) PROVE RuleHeld'
  BY <1>11 DEF Refuse, GoRule, tables, sendVars, ruleVars, editVars, RuleHeld, TypeOK, InTransaction
<1>12. ASSUME NEW w \in RuleCalls, Create(w) PROVE RuleHeld'
  <2>1. rulePc[w] = "write" /\ ruleLock' = {} /\ pc' = pc
    BY <1>12 DEF Create, sendVars
  <2>2. rulePc' = [rulePc EXCEPT ![w] = "invalidate"] \/ rulePc' = [rulePc EXCEPT ![w] = "done"]
    BY <1>12 DEF Create, GoRule
  <2> QED BY <2>1, <2>2 DEF RuleHeld, TypeOK, InTransaction
<1>13. ASSUME NEW w \in RuleCalls, Remove(w) PROVE RuleHeld'
  BY <1>13 DEF Remove, GoRule, tables, sendVars, ruleVars, editVars, RuleHeld, TypeOK, InTransaction
<1>14. ASSUME NEW w \in RuleCalls, InvalidateScanned(w) PROVE RuleHeld'
  BY <1>14 DEF InvalidateScanned, GoRule, tables, sendVars, ruleVars, editVars, RuleHeld, TypeOK, InTransaction
<1>15. ASSUME NEW w \in RuleCalls, FailRule(w) PROVE RuleHeld'
  BY <1>15 DEF FailRule, GoRule, tables, sendVars, ruleVars, editVars, RuleHeld, TypeOK, InTransaction
<1>16. ASSUME NEW e \in Edits, Get(e) PROVE RuleHeld'
  BY <1>16 DEF Get, GoEdit, tables, sendVars, ruleVars, editVars, RuleHeld, TypeOK, InTransaction
<1>17. ASSUME NEW e \in Edits, Update(e) PROVE RuleHeld'
  BY <1>17 DEF Update, GoEdit, tables, sendVars, ruleVars, editVars, RuleHeld, TypeOK, InTransaction
<1>18. ASSUME NEW e \in Edits, Delete(e) PROVE RuleHeld'
  BY <1>18 DEF Delete, GoEdit, tables, sendVars, ruleVars, editVars, RuleHeld, TypeOK, InTransaction
<1>19. ASSUME NEW e \in Edits, InvalidateEdited(e) PROVE RuleHeld'
  BY <1>19 DEF InvalidateEdited, GoEdit, tables, sendVars, ruleVars, editVars, RuleHeld, TypeOK, InTransaction
<1>20. ASSUME NEW v \in Videos, EnsureVideo(v) PROVE RuleHeld'
  BY <1>20 DEF EnsureVideo, Free, tables, sendVars, ruleVars, editVars, RuleHeld, TypeOK, InTransaction
<1>21. ASSUME NEW v \in Videos, SetVideoDeleted(v) PROVE RuleHeld'
  BY <1>21 DEF SetVideoDeleted, Free, tables, sendVars, ruleVars, editVars, RuleHeld, TypeOK, InTransaction
<1>22. ASSUME Tick \/ UNCHANGED vars PROVE RuleHeld'
  BY <1>22 DEF Tick, vars, tables, sendVars, ruleVars, editVars, RuleHeld, TypeOK, InTransaction
<1> QED BY <1>1, <1>2, <1>3, <1>4, <1>5, <1>6, <1>7, <1>8, <1>9, <1>10, <1>11, <1>12, 
           <1>13, <1>14, <1>15, <1>16, <1>17, <1>18, <1>19, <1>20, <1>21, <1>22 DEF Next

\* Every step keeps the lock of its text with a submission that is past it.
LEMMA PostHeldStep == IInv /\ [Next]_vars => PostHeld'
<1> SUFFICES ASSUME IInv, [Next]_vars PROVE PostHeld'
  OBVIOUS
<1> USE NativeAssumption DEF IInv
<1>1. ASSUME NEW s \in Senders, Send(s) PROVE PostHeld'
  BY <1>1 DEF Send, Go, tables, sendVars, ruleVars, editVars, PostHeld, TypeOK, InTransaction
<1>2. ASSUME NEW s \in Senders, ReadRules(s) PROVE PostHeld'
  BY <1>2 DEF ReadRules, Go, tables, sendVars, ruleVars, editVars, PostHeld, TypeOK, InTransaction
<1>3. ASSUME NEW s \in Senders, LockPost(s) PROVE PostHeld'
  BY <1>3 DEF LockPost, Go, tables, sendVars, ruleVars, editVars, PostHeld, TypeOK, InTransaction
<1>4. ASSUME NEW s \in Senders, FindVideo(s) PROVE PostHeld'
  BY <1>4 DEF FindVideo, Go, Release, Free, tables, sendVars, ruleVars, editVars, PostHeld, TypeOK, InTransaction
<1>5. ASSUME NEW s \in Senders, CheckDuplicate(s) PROVE PostHeld'
  BY <1>5 DEF CheckDuplicate, Go, Release, tables, sendVars, ruleVars, editVars, PostHeld, TypeOK, InTransaction
<1>6. ASSUME NEW s \in Senders, Store(s) PROVE PostHeld'
  BY <1>6 DEF Store, Go, Release, tables, sendVars, ruleVars, editVars, PostHeld, TypeOK, InTransaction
<1>7. ASSUME NEW s \in Senders, InvalidateSent(s) PROVE PostHeld'
  BY <1>7 DEF InvalidateSent, Go, tables, sendVars, ruleVars, editVars, PostHeld, TypeOK, InTransaction
<1>8. ASSUME NEW s \in Senders, FailSend(s) PROVE PostHeld'
  BY <1>8 DEF FailSend, Go, Release, tables, sendVars, ruleVars, editVars, PostHeld, TypeOK, InTransaction
<1>9. ASSUME NEW w \in RuleCalls, CallRule(w) PROVE PostHeld'
  BY <1>9 DEF CallRule, GoRule, tables, sendVars, ruleVars, editVars, PostHeld, TypeOK, InTransaction
<1>10. ASSUME NEW w \in RuleCalls, LockRules(w) PROVE PostHeld'
  BY <1>10 DEF LockRules, GoRule, tables, sendVars, ruleVars, editVars, PostHeld, TypeOK, InTransaction
<1>11. ASSUME NEW w \in RuleCalls, Refuse(w) PROVE PostHeld'
  BY <1>11 DEF Refuse, GoRule, tables, sendVars, ruleVars, editVars, PostHeld, TypeOK, InTransaction
<1>12. ASSUME NEW w \in RuleCalls, Create(w) PROVE PostHeld'
  BY <1>12 DEF Create, GoRule, tables, sendVars, ruleVars, editVars, PostHeld, TypeOK, InTransaction
<1>13. ASSUME NEW w \in RuleCalls, Remove(w) PROVE PostHeld'
  BY <1>13 DEF Remove, GoRule, tables, sendVars, ruleVars, editVars, PostHeld, TypeOK, InTransaction
<1>14. ASSUME NEW w \in RuleCalls, InvalidateScanned(w) PROVE PostHeld'
  BY <1>14 DEF InvalidateScanned, GoRule, tables, sendVars, ruleVars, editVars, PostHeld, TypeOK, InTransaction
<1>15. ASSUME NEW w \in RuleCalls, FailRule(w) PROVE PostHeld'
  BY <1>15 DEF FailRule, GoRule, tables, sendVars, ruleVars, editVars, PostHeld, TypeOK, InTransaction
<1>16. ASSUME NEW e \in Edits, Get(e) PROVE PostHeld'
  BY <1>16 DEF Get, GoEdit, tables, sendVars, ruleVars, editVars, PostHeld, TypeOK, InTransaction
<1>17. ASSUME NEW e \in Edits, Update(e) PROVE PostHeld'
  BY <1>17 DEF Update, GoEdit, tables, sendVars, ruleVars, editVars, PostHeld, TypeOK, InTransaction
<1>18. ASSUME NEW e \in Edits, Delete(e) PROVE PostHeld'
  BY <1>18 DEF Delete, GoEdit, tables, sendVars, ruleVars, editVars, PostHeld, TypeOK, InTransaction
<1>19. ASSUME NEW e \in Edits, InvalidateEdited(e) PROVE PostHeld'
  BY <1>19 DEF InvalidateEdited, GoEdit, tables, sendVars, ruleVars, editVars, PostHeld, TypeOK, InTransaction
<1>20. ASSUME NEW v \in Videos, EnsureVideo(v) PROVE PostHeld'
  BY <1>20 DEF EnsureVideo, Free, tables, sendVars, ruleVars, editVars, PostHeld, TypeOK, InTransaction
<1>21. ASSUME NEW v \in Videos, SetVideoDeleted(v) PROVE PostHeld'
  BY <1>21 DEF SetVideoDeleted, Free, tables, sendVars, ruleVars, editVars, PostHeld, TypeOK, InTransaction
<1>22. ASSUME Tick \/ UNCHANGED vars PROVE PostHeld'
  BY <1>22 DEF Tick, vars, tables, sendVars, ruleVars, editVars, PostHeld, TypeOK, InTransaction
<1> QED BY <1>1, <1>2, <1>3, <1>4, <1>5, <1>6, <1>7, <1>8, <1>9, <1>10, <1>11, <1>12, 
           <1>13, <1>14, <1>15, <1>16, <1>17, <1>18, <1>19, <1>20, <1>21, <1>22 DEF Next

\* The rules that were read under the rule lock stay as they were read.
LEMMA RulesReadStep == IInv /\ [Next]_vars => RulesRead'
<1> SUFFICES ASSUME IInv, [Next]_vars PROVE RulesRead'
  OBVIOUS
<1> USE NativeAssumption DEF IInv
<1>1. ASSUME NEW s \in Senders, Send(s) PROVE RulesRead'
  BY <1>1 DEF Send, Go, tables, sendVars, ruleVars, editVars, RulesRead, RuleHeld, TypeOK, InTransaction
<1>2. ASSUME NEW s \in Senders, ReadRules(s) PROVE RulesRead'
  BY <1>2 DEF ReadRules, Go, tables, sendVars, ruleVars, editVars, RulesRead, RuleHeld, TypeOK, InTransaction
<1>3. ASSUME NEW s \in Senders, LockPost(s) PROVE RulesRead'
  BY <1>3 DEF LockPost, Go, tables, sendVars, ruleVars, editVars, RulesRead, RuleHeld, TypeOK, InTransaction
<1>4. ASSUME NEW s \in Senders, FindVideo(s) PROVE RulesRead'
  BY <1>4 DEF FindVideo, Go, Release, Free, tables, sendVars, ruleVars, editVars, RulesRead, RuleHeld, TypeOK, InTransaction
<1>5. ASSUME NEW s \in Senders, CheckDuplicate(s) PROVE RulesRead'
  BY <1>5 DEF CheckDuplicate, Go, Release, tables, sendVars, ruleVars, editVars, RulesRead, RuleHeld, TypeOK, InTransaction
<1>6. ASSUME NEW s \in Senders, Store(s) PROVE RulesRead'
  BY <1>6 DEF Store, Go, Release, tables, sendVars, ruleVars, editVars, RulesRead, RuleHeld, TypeOK, InTransaction
<1>7. ASSUME NEW s \in Senders, InvalidateSent(s) PROVE RulesRead'
  BY <1>7 DEF InvalidateSent, Go, tables, sendVars, ruleVars, editVars, RulesRead, RuleHeld, TypeOK, InTransaction
<1>8. ASSUME NEW s \in Senders, FailSend(s) PROVE RulesRead'
  BY <1>8 DEF FailSend, Go, Release, tables, sendVars, ruleVars, editVars, RulesRead, RuleHeld, TypeOK, InTransaction
<1>9. ASSUME NEW w \in RuleCalls, CallRule(w) PROVE RulesRead'
  BY <1>9 DEF CallRule, GoRule, tables, sendVars, ruleVars, editVars, RulesRead, RuleHeld, TypeOK, InTransaction
<1>10. ASSUME NEW w \in RuleCalls, LockRules(w) PROVE RulesRead'
  BY <1>10 DEF LockRules, GoRule, tables, sendVars, ruleVars, editVars, RulesRead, RuleHeld, TypeOK, InTransaction
<1>11. ASSUME NEW w \in RuleCalls, Refuse(w) PROVE RulesRead'
  BY <1>11 DEF Refuse, GoRule, tables, sendVars, ruleVars, editVars, RulesRead, RuleHeld, TypeOK, InTransaction
<1>12. ASSUME NEW w \in RuleCalls, Create(w) PROVE RulesRead'
  BY <1>12 DEF Create, GoRule, tables, sendVars, ruleVars, editVars, RulesRead, RuleHeld, TypeOK, InTransaction
<1>13. ASSUME NEW w \in RuleCalls, Remove(w) PROVE RulesRead'
  BY <1>13 DEF Remove, GoRule, tables, sendVars, ruleVars, editVars, RulesRead, RuleHeld, TypeOK, InTransaction
<1>14. ASSUME NEW w \in RuleCalls, InvalidateScanned(w) PROVE RulesRead'
  BY <1>14 DEF InvalidateScanned, GoRule, tables, sendVars, ruleVars, editVars, RulesRead, RuleHeld, TypeOK, InTransaction
<1>15. ASSUME NEW w \in RuleCalls, FailRule(w) PROVE RulesRead'
  BY <1>15 DEF FailRule, GoRule, tables, sendVars, ruleVars, editVars, RulesRead, RuleHeld, TypeOK, InTransaction
<1>16. ASSUME NEW e \in Edits, Get(e) PROVE RulesRead'
  BY <1>16 DEF Get, GoEdit, tables, sendVars, ruleVars, editVars, RulesRead, RuleHeld, TypeOK, InTransaction
<1>17. ASSUME NEW e \in Edits, Update(e) PROVE RulesRead'
  BY <1>17 DEF Update, GoEdit, tables, sendVars, ruleVars, editVars, RulesRead, RuleHeld, TypeOK, InTransaction
<1>18. ASSUME NEW e \in Edits, Delete(e) PROVE RulesRead'
  BY <1>18 DEF Delete, GoEdit, tables, sendVars, ruleVars, editVars, RulesRead, RuleHeld, TypeOK, InTransaction
<1>19. ASSUME NEW e \in Edits, InvalidateEdited(e) PROVE RulesRead'
  BY <1>19 DEF InvalidateEdited, GoEdit, tables, sendVars, ruleVars, editVars, RulesRead, RuleHeld, TypeOK, InTransaction
<1>20. ASSUME NEW v \in Videos, EnsureVideo(v) PROVE RulesRead'
  BY <1>20 DEF EnsureVideo, Free, tables, sendVars, ruleVars, editVars, RulesRead, RuleHeld, TypeOK, InTransaction
<1>21. ASSUME NEW v \in Videos, SetVideoDeleted(v) PROVE RulesRead'
  BY <1>21 DEF SetVideoDeleted, Free, tables, sendVars, ruleVars, editVars, RulesRead, RuleHeld, TypeOK, InTransaction
<1>22. ASSUME Tick \/ UNCHANGED vars PROVE RulesRead'
  BY <1>22 DEF Tick, vars, tables, sendVars, ruleVars, editVars, RulesRead, RuleHeld, TypeOK, InTransaction
<1> QED BY <1>1, <1>2, <1>3, <1>4, <1>5, <1>6, <1>7, <1>8, <1>9, <1>10, <1>11, <1>12, 
           <1>13, <1>14, <1>15, <1>16, <1>17, <1>18, <1>19, <1>20, <1>21, <1>22 DEF Next

\* Every step keeps the row of a video with one submission, and undeleted meanwhile.
LEMMA VideoHeldStep == IInv /\ [Next]_vars => VideoHeld'
<1> SUFFICES ASSUME IInv, [Next]_vars PROVE VideoHeld'
  OBVIOUS
<1> USE NativeAssumption DEF IInv
<1>1. ASSUME NEW s \in Senders, Send(s) PROVE VideoHeld'
  BY <1>1 DEF Send, Go, tables, sendVars, ruleVars, editVars, VideoHeld, TypeOK, Requests
<1>2. ASSUME NEW s \in Senders, ReadRules(s) PROVE VideoHeld'
  BY <1>2 DEF ReadRules, Go, tables, sendVars, ruleVars, editVars, VideoHeld, TypeOK, Requests
<1>3. ASSUME NEW s \in Senders, LockPost(s) PROVE VideoHeld'
  BY <1>3 DEF LockPost, Go, tables, sendVars, ruleVars, editVars, VideoHeld, TypeOK, Requests
<1>4. ASSUME NEW s \in Senders, FindVideo(s) PROVE VideoHeld'
  BY <1>4 DEF FindVideo, Go, Release, Free, tables, sendVars, ruleVars, editVars, VideoHeld, TypeOK, Requests
<1>5. ASSUME NEW s \in Senders, CheckDuplicate(s) PROVE VideoHeld'
  BY <1>5 DEF CheckDuplicate, Go, Release, tables, sendVars, ruleVars, editVars, VideoHeld, TypeOK, Requests
<1>6. ASSUME NEW s \in Senders, Store(s) PROVE VideoHeld'
  BY <1>6 DEF Store, Go, Release, tables, sendVars, ruleVars, editVars, VideoHeld, TypeOK, Requests
<1>7. ASSUME NEW s \in Senders, InvalidateSent(s) PROVE VideoHeld'
  BY <1>7 DEF InvalidateSent, Go, tables, sendVars, ruleVars, editVars, VideoHeld, TypeOK, Requests
<1>8. ASSUME NEW s \in Senders, FailSend(s) PROVE VideoHeld'
  BY <1>8 DEF FailSend, Go, Release, tables, sendVars, ruleVars, editVars, VideoHeld, TypeOK, Requests
<1>9. ASSUME NEW w \in RuleCalls, CallRule(w) PROVE VideoHeld'
  BY <1>9 DEF CallRule, GoRule, tables, sendVars, ruleVars, editVars, VideoHeld, TypeOK, Requests
<1>10. ASSUME NEW w \in RuleCalls, LockRules(w) PROVE VideoHeld'
  BY <1>10 DEF LockRules, GoRule, tables, sendVars, ruleVars, editVars, VideoHeld, TypeOK, Requests
<1>11. ASSUME NEW w \in RuleCalls, Refuse(w) PROVE VideoHeld'
  BY <1>11 DEF Refuse, GoRule, tables, sendVars, ruleVars, editVars, VideoHeld, TypeOK, Requests
<1>12. ASSUME NEW w \in RuleCalls, Create(w) PROVE VideoHeld'
  BY <1>12 DEF Create, GoRule, tables, sendVars, ruleVars, editVars, VideoHeld, TypeOK, Requests
<1>13. ASSUME NEW w \in RuleCalls, Remove(w) PROVE VideoHeld'
  BY <1>13 DEF Remove, GoRule, tables, sendVars, ruleVars, editVars, VideoHeld, TypeOK, Requests
<1>14. ASSUME NEW w \in RuleCalls, InvalidateScanned(w) PROVE VideoHeld'
  BY <1>14 DEF InvalidateScanned, GoRule, tables, sendVars, ruleVars, editVars, VideoHeld, TypeOK, Requests
<1>15. ASSUME NEW w \in RuleCalls, FailRule(w) PROVE VideoHeld'
  BY <1>15 DEF FailRule, GoRule, tables, sendVars, ruleVars, editVars, VideoHeld, TypeOK, Requests
<1>16. ASSUME NEW e \in Edits, Get(e) PROVE VideoHeld'
  BY <1>16 DEF Get, GoEdit, tables, sendVars, ruleVars, editVars, VideoHeld, TypeOK, Requests
<1>17. ASSUME NEW e \in Edits, Update(e) PROVE VideoHeld'
  BY <1>17 DEF Update, GoEdit, tables, sendVars, ruleVars, editVars, VideoHeld, TypeOK, Requests
<1>18. ASSUME NEW e \in Edits, Delete(e) PROVE VideoHeld'
  BY <1>18 DEF Delete, GoEdit, tables, sendVars, ruleVars, editVars, VideoHeld, TypeOK, Requests
<1>19. ASSUME NEW e \in Edits, InvalidateEdited(e) PROVE VideoHeld'
  BY <1>19 DEF InvalidateEdited, GoEdit, tables, sendVars, ruleVars, editVars, VideoHeld, TypeOK, Requests
<1>20. ASSUME NEW v \in Videos, EnsureVideo(v) PROVE VideoHeld'
  BY <1>20 DEF EnsureVideo, Free, tables, sendVars, ruleVars, editVars, VideoHeld, TypeOK, Requests
<1>21. ASSUME NEW v \in Videos, SetVideoDeleted(v) PROVE VideoHeld'
  BY <1>21 DEF SetVideoDeleted, Free, tables, sendVars, ruleVars, editVars, VideoHeld, TypeOK, Requests
<1>22. ASSUME Tick \/ UNCHANGED vars PROVE VideoHeld'
  BY <1>22 DEF Tick, vars, tables, sendVars, ruleVars, editVars, VideoHeld, TypeOK, Requests
<1> QED BY <1>1, <1>2, <1>3, <1>4, <1>5, <1>6, <1>7, <1>8, <1>9, <1>10, <1>11, <1>12, 
           <1>13, <1>14, <1>15, <1>16, <1>17, <1>18, <1>19, <1>20, <1>21, <1>22 DEF Next

\* Every step that leaves cached answers out of date leaves an invalidation to come.
LEMMA StaleStep == IInv /\ [Next]_vars => StaleIsPending'
<1> SUFFICES ASSUME IInv, [Next]_vars PROVE StaleIsPending'
  OBVIOUS
<1> USE NativeAssumption DEF IInv
<1>1. ASSUME NEW s \in Senders, Send(s) PROVE StaleIsPending'
  BY <1>1 DEF Send, Go, tables, sendVars, ruleVars, editVars, StaleIsPending, TypeOK
<1>2. ASSUME NEW s \in Senders, ReadRules(s) PROVE StaleIsPending'
  BY <1>2 DEF ReadRules, Go, tables, sendVars, ruleVars, editVars, StaleIsPending, TypeOK
<1>3. ASSUME NEW s \in Senders, LockPost(s) PROVE StaleIsPending'
  BY <1>3 DEF LockPost, Go, tables, sendVars, ruleVars, editVars, StaleIsPending, TypeOK
<1>4. ASSUME NEW s \in Senders, FindVideo(s) PROVE StaleIsPending'
  BY <1>4 DEF FindVideo, Go, Release, Free, tables, sendVars, ruleVars, editVars, StaleIsPending, TypeOK
<1>5. ASSUME NEW s \in Senders, CheckDuplicate(s) PROVE StaleIsPending'
  BY <1>5 DEF CheckDuplicate, Go, Release, tables, sendVars, ruleVars, editVars, StaleIsPending, TypeOK
<1>6. ASSUME NEW s \in Senders, Store(s) PROVE StaleIsPending'
  BY <1>6 DEF Store, Go, Outdate, Release, tables, sendVars, ruleVars, editVars, StaleIsPending, TypeOK
<1>7. ASSUME NEW s \in Senders, InvalidateSent(s) PROVE StaleIsPending'
  BY <1>7 DEF InvalidateSent, Go, Announce, tables, sendVars, ruleVars, editVars, StaleIsPending, TypeOK
<1>8. ASSUME NEW s \in Senders, FailSend(s) PROVE StaleIsPending'
  BY <1>8 DEF FailSend, Go, Release, tables, sendVars, ruleVars, editVars, StaleIsPending, TypeOK
<1>9. ASSUME NEW w \in RuleCalls, CallRule(w) PROVE StaleIsPending'
  BY <1>9 DEF CallRule, GoRule, tables, sendVars, ruleVars, editVars, StaleIsPending, TypeOK
<1>10. ASSUME NEW w \in RuleCalls, LockRules(w) PROVE StaleIsPending'
  BY <1>10 DEF LockRules, GoRule, tables, sendVars, ruleVars, editVars, StaleIsPending, TypeOK
<1>11. ASSUME NEW w \in RuleCalls, Refuse(w) PROVE StaleIsPending'
  BY <1>11 DEF Refuse, GoRule, tables, sendVars, ruleVars, editVars, StaleIsPending, TypeOK
<1>12. ASSUME NEW w \in RuleCalls, Create(w) PROVE StaleIsPending'
  BY <1>12 DEF Create, GoRule, Outdate, tables, sendVars, ruleVars, editVars, StaleIsPending, TypeOK
<1>13. ASSUME NEW w \in RuleCalls, Remove(w) PROVE StaleIsPending'
  BY <1>13 DEF Remove, GoRule, tables, sendVars, ruleVars, editVars, StaleIsPending, TypeOK
<1>14. ASSUME NEW w \in RuleCalls, InvalidateScanned(w) PROVE StaleIsPending'
  BY <1>14 DEF InvalidateScanned, GoRule, Announce, tables, sendVars, ruleVars, editVars, StaleIsPending, TypeOK
<1>15. ASSUME NEW w \in RuleCalls, FailRule(w) PROVE StaleIsPending'
  BY <1>15 DEF FailRule, GoRule, tables, sendVars, ruleVars, editVars, StaleIsPending, TypeOK
<1>16. ASSUME NEW e \in Edits, Get(e) PROVE StaleIsPending'
  BY <1>16 DEF Get, GoEdit, tables, sendVars, ruleVars, editVars, StaleIsPending, TypeOK
<1>17. ASSUME NEW e \in Edits, Update(e) PROVE StaleIsPending'
  BY <1>17 DEF Update, GoEdit, Outdate, tables, sendVars, ruleVars, editVars, StaleIsPending, TypeOK
<1>18. ASSUME NEW e \in Edits, Delete(e) PROVE StaleIsPending'
  BY <1>18 DEF Delete, GoEdit, Outdate, tables, sendVars, ruleVars, editVars, StaleIsPending, TypeOK
<1>19. ASSUME NEW e \in Edits, InvalidateEdited(e) PROVE StaleIsPending'
  BY <1>19 DEF InvalidateEdited, GoEdit, Announce, tables, sendVars, ruleVars, editVars, StaleIsPending, TypeOK
<1>20. ASSUME NEW v \in Videos, EnsureVideo(v) PROVE StaleIsPending'
  BY <1>20 DEF EnsureVideo, Free, tables, sendVars, ruleVars, editVars, StaleIsPending, TypeOK
<1>21. ASSUME NEW v \in Videos, SetVideoDeleted(v) PROVE StaleIsPending'
  BY <1>21 DEF SetVideoDeleted, Free, tables, sendVars, ruleVars, editVars, StaleIsPending, TypeOK
<1>22. ASSUME Tick \/ UNCHANGED vars PROVE StaleIsPending'
  BY <1>22 DEF Tick, vars, tables, sendVars, ruleVars, editVars, StaleIsPending, TypeOK
<1> QED BY <1>1, <1>2, <1>3, <1>4, <1>5, <1>6, <1>7, <1>8, <1>9, <1>10, <1>11, <1>12, 
           <1>13, <1>14, <1>15, <1>16, <1>17, <1>18, <1>19, <1>20, <1>21, <1>22 DEF Next

--------------------------------------------------------------------------------
(* Who writes which row *)

\* Which steps write a danmaku's row.
LEMMA RowWriters ==
    [Next]_vars => \/ UNCHANGED <<row, touched, rewritten>> /\ scanned' \subseteq scanned
                   \/ \E s \in Senders : Store(s)
                   \/ \E w \in RuleCalls : Create(w)
                   \/ \E e \in Edits : Update(e) \/ Delete(e)
BY DEF Next, vars, tables, editVars, Send, ReadRules, LockPost, FindVideo, CheckDuplicate,
   InvalidateSent, FailSend, CallRule, LockRules, Refuse, Remove, InvalidateScanned, FailRule,
   Get, InvalidateEdited, EnsureVideo, SetVideoDeleted, Tick

SendMoves(s) ==
    \/ ReadRules(s) \/ LockPost(s) \/ FindVideo(s) \/ CheckDuplicate(s)
    \/ Store(s) \/ InvalidateSent(s) \/ FailSend(s)

\* Only a submission's own steps move it.
LEMMA SenderSteps ==
    [Next]_vars => \/ UNCHANGED <<pc, post, now>>
                   \/ \E s \in Senders : Send(s) \/ SendMoves(s)
BY DEF SendMoves, Next, vars, sendVars, CallRule, LockRules, Refuse, Create, Remove,
   InvalidateScanned, FailRule, Get, Update, Delete, InvalidateEdited, EnsureVideo,
   SetVideoDeleted, Tick

EditMoves(e) == Get(e) \/ Update(e) \/ Delete(e) \/ InvalidateEdited(e)

\* Only an edit's own steps move it.
LEMMA EditSteps ==
    [Next]_vars => UNCHANGED <<editPc, edit>> \/ \E e \in Edits : EditMoves(e)
BY DEF EditMoves, Next, vars, editVars, Send, ReadRules, LockPost, FindVideo, CheckDuplicate, Store,
   InvalidateSent, FailSend, CallRule, LockRules, Refuse, Create, Remove, InvalidateScanned,
   FailRule, EnsureVideo, SetVideoDeleted, Tick

\* A submission that has stored its danmaku keeps its post.
LEMMA PostKept ==
    ASSUME IInv, [Next]_vars, NEW s \in Senders, row[s].stored
    PROVE  post'[s] = post[s] /\ pc'[s] \in {"invalidate", "done"}
<1>1. pc[s] \in {"invalidate", "done"}
  BY DEF IInv, Stored, AsSent
<1>2. CASE UNCHANGED <<post, pc>>
  BY <1>1, <1>2
<1>3. ASSUME NEW t \in Senders, Send(t) PROVE post'[s] = post[s] /\ pc'[s] = pc[s]
  BY <1>1, <1>3 DEF Send, Go, IInv, TypeOK
<1>4. ASSUME NEW t \in Senders, SendMoves(t)
      PROVE  post' = post /\ pc'[s] \in {pc[s], "invalidate", "done"}
  BY <1>1, <1>4 DEF SendMoves, ReadRules, LockPost, FindVideo, CheckDuplicate, Store, InvalidateSent,
     FailSend, Go, IInv, TypeOK
<1> QED BY <1>1, <1>2, <1>3, <1>4, SenderSteps

\* A submission is stored as it was sent and as the rules in force say.
LEMMA StoreRow ==
    ASSUME IInv, NEW s \in Senders, Store(s)
    PROVE  /\ row'[s] \in StoredRows
           /\ row'[s].text = post[s].text
           /\ row'[s].time = now[s]
           /\ row'[s].author = Renamed(post[s], rules)
           /\ row'[s].deleted = Hidden(post[s], rules)
           /\ row' = [row EXCEPT ![s] = row'[s]]
           /\ pc[s] = "insert" /\ pc' = [pc EXCEPT ![s] = "invalidate"]
           /\ UNCHANGED <<touched, post, now, rules, scanned, edit, editPc>>
<1> DEFINE new == [stored |-> TRUE, text |-> post[s].text, author |-> Renamed(post[s], seen[s]),
                   deleted |-> Hidden(post[s], seen[s]), time |-> now[s]]
<1>1. /\ row' = [row EXCEPT ![s] = new]
      /\ pc[s] = "insert" /\ pc' = [pc EXCEPT ![s] = "invalidate"]
      /\ UNCHANGED <<touched, post, now, rules, scanned, edit, editPc>>
  BY DEF Store, editVars, Go
<1>2. row'[s] = new /\ row' = [row EXCEPT ![s] = row'[s]]
  BY <1>1 DEF IInv, TypeOK
<1>3. seen[s] = rules
  BY <1>1 DEF IInv, RulesRead, InTransaction
<1>4. post[s] \in Posts
  BY <1>1 DEF IInv, Requests
<1>5. Renamed(post[s], seen[s]) \in Authors
  BY <1>4 DEF Renamed, Authors
<1>6. Hidden(post[s], seen[s]) \in BOOLEAN
  BY DEF Hidden
<1>7. now[s] \in Times
  BY DEF IInv, TypeOK
<1>8. new \in StoredRows
  BY <1>4, <1>5, <1>6, <1>7 DEF StoredRows, Texts
<1>9. row'[s] \in StoredRows
  BY <1>2, <1>8
<1> HIDE DEF new
<1>10. /\ new.text = post[s].text /\ new.time = now[s]
       /\ new.author = Renamed(post[s], rules) /\ new.deleted = Hidden(post[s], rules)
  BY <1>3 DEF new
<1> QED BY <1>1, <1>2, <1>9, <1>10

\* A scan replaces authors and nothing else.
LEMMA CreateRow ==
    ASSUME IInv, NEW w \in RuleCalls, Create(w), NEW s \in Senders
    PROVE  /\ row[s].stored => /\ row'[s] \in StoredRows
                               /\ row'[s].text = row[s].text
                               /\ row'[s].time = row[s].time
           /\ ~ row[s].stored => row'[s] = row[s]
           /\ UNCHANGED <<touched, post, edit, editPc>>
<1> DEFINE r == change[w].rule
           new == [row[s] EXCEPT !.author = Replacement[r]]
<1>1. UNCHANGED <<touched, post, edit, editPc>>
  BY DEF Create, editVars, sendVars
<1>2. CASE row'[s] = row[s]
  BY <1>1, <1>2, StoredType DEF IInv, TypeOK
<1>3. CASE row'[s] = new /\ row[s].stored /\ change[w].op = "scan"
  <2>1. row[s] \in StoredRows
    BY <1>3, StoredType DEF IInv, TypeOK
  <2>2. r \in AuthorRules
    BY <1>3 DEF Create, IInv, Requests
  <2>3. Replacement[r] \in Authors
    BY <2>2 DEF Authors
  <2> QED BY <1>1, <1>3, <2>1, <2>3 DEF StoredRows
<1>4. row'[s] = row[s] \/ (row'[s] = new /\ row[s].stored /\ change[w].op = "scan")
  BY DEF Create, ByAuthor
<1> QED BY <1>2, <1>3, <1>4

\* An Edit writes one row, which was stored, and the row is touched from then on.
LEMMA UpdateRow ==
    ASSUME IInv, NEW e \in Edits, Update(e)
    PROVE  \E s \in Senders :
             /\ row[s].stored
             /\ row'[s] \in StoredRows
             /\ row' = [row EXCEPT ![s] = row'[s]]
             /\ touched' = touched \cup {s}
             /\ editPc' = [editPc EXCEPT ![e] = "invalidate"]
             /\ UNCHANGED <<post, scanned, rewritten, edit>>
<1> DEFINE s == edit[e].id
<1>1. edit[e] \in [id : Senders, row : StoredRows] /\ row[s].stored
  BY DEF Update, IInv, Requests, Stored
<1>2. PICK t \in Texts, d \in BOOLEAN :
         row' = [row EXCEPT ![s] = [edit[e].row EXCEPT !.text = t, !.deleted = d]]
  BY DEF Update
<1>3. [edit[e].row EXCEPT !.text = t, !.deleted = d] \in StoredRows
  BY <1>1 DEF StoredRows
<1>4. s \in Senders /\ row'[s] \in StoredRows /\ row' = [row EXCEPT ![s] = row'[s]]
  BY <1>1, <1>2, <1>3 DEF IInv, TypeOK
<1>5. /\ touched' = touched \cup {s}
      /\ editPc' = [editPc EXCEPT ![e] = "invalidate"]
      /\ UNCHANGED <<post, scanned, rewritten, edit>>
  BY DEF Update, sendVars, GoEdit
<1> HIDE DEF s
<1> QED BY <1>1, <1>4, <1>5

\* A deletion writes one row and leaves its text, time and author.
LEMMA DeleteRow ==
    ASSUME IInv, NEW e \in Edits, Delete(e)
    PROVE  \E s \in Senders :
             /\ row[s].stored
             /\ row'[s] \in StoredRows
             /\ row' = [row EXCEPT ![s] = row'[s]]
             /\ row'[s].text = row[s].text
             /\ row'[s].time = row[s].time
             /\ row'[s].author = row[s].author
             /\ editPc' = [editPc EXCEPT ![e] = "invalidate"]
             /\ UNCHANGED <<touched, rewritten, post, scanned, edit>>
<1>1. PICK s \in Senders : row[s].stored /\ row' = [row EXCEPT ![s].deleted = TRUE]
  BY DEF Delete
<1>2. row[s] \in StoredRows
  BY <1>1, StoredType DEF IInv, TypeOK
<1>3. row'[s] = [row[s] EXCEPT !.deleted = TRUE] /\ row' = [row EXCEPT ![s] = row'[s]]
  BY <1>1 DEF IInv, TypeOK
<1>4. /\ row'[s] \in StoredRows
      /\ row'[s].text = row[s].text
      /\ row'[s].time = row[s].time
      /\ row'[s].author = row[s].author
  BY ZenonT(40), <1>2, <1>3 DEF StoredRows
<1> QED BY <1>1, <1>3, <1>4 DEF Delete, sendVars, GoEdit

\* What is stored stays stored; only Store adds to it.
LEMMA RowsStay ==
    ASSUME IInv, [Next]_vars, NEW s \in Senders
    PROVE  /\ row[s].stored => row'[s].stored
           /\ row'[s].stored => row[s].stored \/ Store(s)
<1>1. CASE UNCHANGED <<row, touched>>
  BY <1>1
<1>2. ASSUME NEW t \in Senders, Store(t) PROVE (row[s].stored => row'[s].stored) /\ (row'[s].stored => row[s].stored \/ Store(s))
  <2>1. row'[t].stored
    BY <1>2, StoreRow DEF StoredRows
  <2>2. s # t => row'[s] = row[s]
    BY <1>2, StoreRow DEF IInv, TypeOK
  <2> QED BY <1>2, <2>1, <2>2
<1>3. ASSUME NEW w \in RuleCalls, Create(w) PROVE (row[s].stored => row'[s].stored) /\ (row'[s].stored => row[s].stored)
  BY <1>3, CreateRow DEF StoredRows
<1>4. ASSUME NEW e \in Edits, Update(e) PROVE (row[s].stored => row'[s].stored) /\ (row'[s].stored => row[s].stored)
  BY ZenonT(40), <1>4, UpdateRow DEF StoredRows, IInv, TypeOK
<1>5. ASSUME NEW e \in Edits, Delete(e) PROVE (row[s].stored => row'[s].stored) /\ (row'[s].stored => row[s].stored)
  BY ZenonT(40), <1>5, DeleteRow DEF StoredRows, IInv, TypeOK
<1> QED BY <1>1, <1>2, <1>3, <1>4, <1>5, RowWriters

\* A row no Edit has written is new, or it is what it was but for author and flag.
LEMMA UntouchedRows ==
    ASSUME IInv, [Next]_vars, NEW s \in Senders, row'[s].stored, s \notin touched'
    PROVE  \/ Store(s)
           \/ /\ row[s].stored
              /\ s \notin touched
              /\ row'[s].text = row[s].text
              /\ row'[s].time = row[s].time
<1> DEFINE Kept == s \notin touched /\ row'[s].text = row[s].text /\ row'[s].time = row[s].time
<1>1. CASE UNCHANGED <<row, touched>>
  BY <1>1
<1>2. ASSUME NEW t \in Senders, Store(t) PROVE Store(s) \/ (row[s].stored /\ Kept)
  BY <1>2, StoreRow DEF IInv, TypeOK
<1>3. ASSUME NEW w \in RuleCalls, Create(w), row[s].stored PROVE Kept
  BY <1>3, CreateRow
<1>4. ASSUME NEW e \in Edits, Update(e) PROVE Kept
  BY <1>4, UpdateRow DEF IInv, TypeOK
<1>5. ASSUME NEW e \in Edits, Delete(e) PROVE Kept
  BY <1>5, DeleteRow DEF IInv, TypeOK
<1> QED BY <1>1, <1>2, <1>3, <1>4, <1>5, RowWriters, RowsStay

\* What any step stores is a stored row.
LEMMA StoredRowsStay ==
    ASSUME IInv, [Next]_vars, NEW s \in Senders, row'[s].stored
    PROVE  row'[s] \in StoredRows
<1>1. CASE UNCHANGED <<row, touched>>
  BY <1>1, StoredType DEF IInv, TypeOK
<1>2. ASSUME NEW t \in Senders, Store(t) PROVE row'[s] \in StoredRows
  BY <1>2, StoreRow, StoredType DEF IInv, TypeOK
<1>3. ASSUME NEW w \in RuleCalls, Create(w) PROVE row'[s] \in StoredRows
  BY <1>3, CreateRow
<1>4. ASSUME NEW e \in Edits, Update(e) PROVE row'[s] \in StoredRows
  BY <1>4, UpdateRow, StoredType DEF IInv, TypeOK
<1>5. ASSUME NEW e \in Edits, Delete(e) PROVE row'[s] \in StoredRows
  BY <1>5, DeleteRow, StoredType DEF IInv, TypeOK
<1> QED BY <1>1, <1>2, <1>3, <1>4, <1>5, RowWriters

--------------------------------------------------------------------------------
(* Types *)

\* Every step keeps the types.
LEMMA TypeStep == IInv /\ [Next]_vars => TypeOK'
<1> SUFFICES ASSUME IInv, [Next]_vars PROVE TypeOK'
  OBVIOUS
<1> USE NativeAssumption DEF IInv
<1>1. ASSUME NEW s \in Senders, Send(s) PROVE TypeOK'
  BY <1>1 DEF Send, Go, tables, sendVars, ruleVars, editVars, TypeOK
<1>2. ASSUME NEW s \in Senders, ReadRules(s) PROVE TypeOK'
  BY <1>2 DEF ReadRules, Go, tables, sendVars, ruleVars, editVars, TypeOK
<1>3. ASSUME NEW s \in Senders, LockPost(s) PROVE TypeOK'
  BY <1>3 DEF LockPost, Go, tables, sendVars, ruleVars, editVars, TypeOK
<1>4. ASSUME NEW s \in Senders, FindVideo(s) PROVE TypeOK'
  BY <1>4 DEF FindVideo, Go, Release, Free, tables, sendVars, ruleVars, editVars, TypeOK
<1>5. ASSUME NEW s \in Senders, CheckDuplicate(s) PROVE TypeOK'
  BY <1>5 DEF CheckDuplicate, Go, Release, tables, sendVars, ruleVars, editVars, TypeOK
<1>6. ASSUME NEW s \in Senders, Store(s) PROVE TypeOK'
  <2>1. row' \in [Senders -> Rows]
    BY <1>6, StoreRow DEF TypeOK, Rows
  <2>2. ruleLock' \in (SUBSET Senders) \cup {{w} : w \in RuleCalls}
    BY <1>6 DEF Store, Release, TypeOK
  <2>3. video' \in [Videos -> {"absent", "live", "deleted"}]
    BY <1>6 DEF Store, TypeOK
  <2>4. cached' \in {"current", "outdated", "missed"} /\ rewritten' \subseteq Senders
    BY <1>6 DEF Store, Outdate, TypeOK
  <2> QED BY <1>6, <2>1, <2>2, <2>3, <2>4 DEF Store, Go, Release, ruleVars, editVars, TypeOK
<1>7. ASSUME NEW s \in Senders, InvalidateSent(s) PROVE TypeOK'
  BY <1>7 DEF InvalidateSent, Go, Announce, tables, sendVars, ruleVars, editVars, TypeOK
<1>8. ASSUME NEW s \in Senders, FailSend(s) PROVE TypeOK'
  BY <1>8 DEF FailSend, Go, Release, tables, sendVars, ruleVars, editVars, TypeOK
<1>9. ASSUME NEW w \in RuleCalls, CallRule(w) PROVE TypeOK'
  BY <1>9 DEF CallRule, GoRule, tables, sendVars, ruleVars, editVars, TypeOK
<1>10. ASSUME NEW w \in RuleCalls, LockRules(w) PROVE TypeOK'
  <2>1. ruleLock' \in (SUBSET Senders) \cup {{u} : u \in RuleCalls}
    <3>1. {w} \in {{u} : u \in RuleCalls}
      BY Zenon
    <3>2. ruleLock' = {w}
      BY <1>10 DEF LockRules
    <3> QED BY <3>1, <3>2, Zenon
  <2> QED BY <1>10, <2>1 DEF LockRules, GoRule, tables, sendVars, editVars, TypeOK
<1>11. ASSUME NEW w \in RuleCalls, Refuse(w) PROVE TypeOK'
  BY <1>11 DEF Refuse, GoRule, tables, sendVars, ruleVars, editVars, TypeOK
<1>12. ASSUME NEW w \in RuleCalls, Create(w) PROVE TypeOK'
  <2>1. row' \in [Senders -> Rows]
    <3>1. \A s \in Senders : row'[s] \in Rows
      BY <1>12, CreateRow DEF TypeOK, Rows
    <3>2. row' = [s \in Senders |-> row'[s]]
      BY <1>12 DEF Create, TypeOK
    <3> QED BY <3>1, <3>2
  <2>2. change[w].rule \in Rules /\ (change[w].op = "scan" => change[w].rule \in AuthorRules)
    BY <1>12 DEF Create, Requests
  <2>3. rules' \subseteq Rules /\ scanned' \subseteq rules' \cap AuthorRules
    <3>1. /\ rules' = rules \cup {change[w].rule}
          /\ \/ change[w].op = "scan" /\ scanned' = scanned \cup {change[w].rule}
             \/ scanned' = scanned
      BY <1>12 DEF Create
    <3> QED BY <2>2, <3>1 DEF TypeOK
  <2>4. cached' \in {"current", "outdated", "missed"} /\ rewritten' \subseteq Senders
    BY <1>12 DEF Create, ByAuthor, Outdate, TypeOK
  <2>5. ruleLock' \in SUBSET Senders
    BY <1>12 DEF Create
  <2>6. rulePc' = [rulePc EXCEPT ![w] = "invalidate"] \/ rulePc' = [rulePc EXCEPT ![w] = "done"]
    BY <1>12, Zenon DEF Create, GoRule
  <2>7. UNCHANGED <<clock, video, pc, post, now, seen, postLock, videoLock, change, editPc, edit, touched>>
    BY <1>12, Zenon DEF Create, sendVars, editVars
  <2> QED BY <2>1, <2>3, <2>4, <2>5, <2>6, <2>7 DEF TypeOK
<1>13. ASSUME NEW w \in RuleCalls, Remove(w) PROVE TypeOK'
  BY <1>13 DEF Remove, GoRule, tables, sendVars, ruleVars, editVars, TypeOK
<1>14. ASSUME NEW w \in RuleCalls, InvalidateScanned(w) PROVE TypeOK'
  BY <1>14 DEF InvalidateScanned, GoRule, Announce, tables, sendVars, ruleVars, editVars, TypeOK
<1>15. ASSUME NEW w \in RuleCalls, FailRule(w) PROVE TypeOK'
  BY <1>15 DEF FailRule, GoRule, tables, sendVars, ruleVars, editVars, TypeOK
<1>16. ASSUME NEW e \in Edits, Get(e) PROVE TypeOK'
  BY <1>16 DEF Get, GoEdit, tables, sendVars, ruleVars, editVars, TypeOK
<1>17. ASSUME NEW e \in Edits, Update(e) PROVE TypeOK'
  <2>1. row' \in [Senders -> Rows] /\ touched' \subseteq Senders
    BY <1>17, UpdateRow DEF TypeOK, Rows
  <2>2. cached' \in {"current", "outdated", "missed"}
    BY <1>17 DEF Update, Outdate, TypeOK
  <2> QED BY <1>17, <2>1, <2>2 DEF Update, GoEdit, sendVars, ruleVars, TypeOK
<1>18. ASSUME NEW e \in Edits, Delete(e) PROVE TypeOK'
  <2>1. row' \in [Senders -> Rows]
    BY <1>18, DeleteRow DEF TypeOK, Rows
  <2>2. cached' \in {"current", "outdated", "missed"}
    BY <1>18 DEF Delete, Outdate, TypeOK
  <2> QED BY <1>18, <2>1, <2>2 DEF Delete, GoEdit, sendVars, ruleVars, TypeOK
<1>19. ASSUME NEW e \in Edits, InvalidateEdited(e) PROVE TypeOK'
  BY <1>19 DEF InvalidateEdited, GoEdit, Announce, tables, sendVars, ruleVars, editVars, TypeOK
<1>20. ASSUME NEW v \in Videos, EnsureVideo(v) PROVE TypeOK'
  BY <1>20 DEF EnsureVideo, Free, tables, sendVars, ruleVars, editVars, TypeOK
<1>21. ASSUME NEW v \in Videos, SetVideoDeleted(v) PROVE TypeOK'
  BY <1>21 DEF SetVideoDeleted, Free, tables, sendVars, ruleVars, editVars, TypeOK
<1>22. ASSUME Tick \/ UNCHANGED vars PROVE TypeOK'
  <2>1. CASE Tick
    <3>1. clock' \in Times
      BY <2>1 DEF Tick, TypeOK, Times
    <3> QED BY <2>1, <3>1 DEF Tick, tables, sendVars, ruleVars, editVars, TypeOK
  <2>2. CASE UNCHANGED vars
    BY <2>2 DEF vars, tables, sendVars, ruleVars, editVars, TypeOK
  <2> QED BY <1>22, <2>1, <2>2
<1> QED BY <1>1, <1>2, <1>3, <1>4, <1>5, <1>6, <1>7, <1>8, <1>9, <1>10, <1>11, <1>12, 
           <1>13, <1>14, <1>15, <1>16, <1>17, <1>18, <1>19, <1>20, <1>21, <1>22 DEF Next

--------------------------------------------------------------------------------
(* What the rows say *)

\* Every step keeps a submission's row as it was sent, until an Edit writes it.
LEMMA StoredStep == IInv /\ [Next]_vars => Stored'
<1> SUFFICES ASSUME IInv, [Next]_vars PROVE Stored'
  OBVIOUS
<1>1. ASSUME NEW s \in Senders, row'[s].stored PROVE AsSent(s)'
  <2>1. row'[s] \in StoredRows
    BY <1>1, StoredRowsStay
  <2>2. CASE Store(s)
    BY <2>1, <2>2, StoreRow DEF AsSent, IInv, TypeOK
  <2>3. CASE row[s].stored
    <3>1. post'[s] = post[s] /\ pc'[s] \in {"invalidate", "done"}
      BY <2>3, PostKept
    <3>2. ASSUME s \notin touched' PROVE row'[s].text = post'[s].text
      <4>1. CASE Store(s)
        BY <4>1, StoreRow
      <4>2. CASE s \notin touched /\ row'[s].text = row[s].text
        BY <2>3, <3>1, <4>2 DEF IInv, Stored, AsSent
      <4> QED BY <1>1, <3>2, <4>1, <4>2, UntouchedRows
    <3> QED BY <2>1, <3>1, <3>2 DEF AsSent
  <2> QED BY <1>1, <2>2, <2>3, RowsStay
<1>2. ASSUME NEW e \in Edits, editPc'[e] = "update" PROVE row'[edit'[e].id].stored
  <2>1. CASE Get(e)
    BY <2>1 DEF Get, tables, IInv, TypeOK
  <2>2. CASE editPc[e] = "update" /\ edit'[e] = edit[e]
    <3>1. edit[e].id \in Senders /\ row[edit[e].id].stored
      BY <2>2 DEF IInv, Requests, Stored
    <3> QED BY <2>2, <3>1, RowsStay
  <2>3. Get(e) \/ (editPc[e] = "update" /\ edit'[e] = edit[e])
    <3>1. ASSUME NEW f \in Edits, EditMoves(f) PROVE f = e => Get(e)
      BY <1>2, <3>1 DEF EditMoves, Update, Delete, InvalidateEdited, GoEdit, IInv, TypeOK
    <3>2. ASSUME NEW f \in Edits, EditMoves(f), f # e
          PROVE  editPc'[e] = editPc[e] /\ edit'[e] = edit[e]
      BY <3>2 DEF EditMoves, Get, Update, Delete, InvalidateEdited, GoEdit, IInv, TypeOK
    <3> QED BY <1>2, <3>1, <3>2, EditSteps
  <2> QED BY <2>1, <2>2, <2>3
<1> QED BY <1>1, <1>2 DEF Stored

\* A submission comes to its INSERT through the check, and keeps what it sends.
LEMMA ReachesInsert ==
    ASSUME IInv, [Next]_vars, NEW s \in Senders, pc'[s] = "insert"
    PROVE  /\ post'[s] = post[s] /\ now'[s] = now[s]
           /\ pc[s] = "insert" \/ CheckDuplicate(s)
<1>1. CASE UNCHANGED <<pc, post, now>>
  BY <1>1
<1>2. ASSUME NEW t \in Senders, Send(t) PROVE s # t
  BY <1>2 DEF Send, Go, IInv, TypeOK
<1>3. ASSUME NEW t \in Senders, Send(t) PROVE post'[s] = post[s] /\ now'[s] = now[s] /\ pc'[s] = pc[s]
  BY <1>2, <1>3 DEF Send, Go, IInv, TypeOK
<1>4. ASSUME NEW t \in Senders, SendMoves(t)
      PROVE  post' = post /\ now' = now /\ (pc'[s] = pc[s] \/ CheckDuplicate(s))
  BY <1>4 DEF SendMoves, ReadRules, LockPost, FindVideo, CheckDuplicate, Store, InvalidateSent,
     FailSend, Go, IInv, TypeOK
<1> QED BY <1>1, <1>3, <1>4, SenderSteps

\* Two submissions of one video are never both about to insert.
LEMMA OneInserts ==
    ASSUME IInv, NEW s \in Senders, NEW t \in Senders, s # t, pc[s] = "insert", pc[t] = "insert"
    PROVE  post[s].vid # post[t].vid
BY DEF IInv, VideoHeld

\* What a submission found when it looked for duplicates stays true until it inserts.
LEMMA NothingNewerStep == IInv /\ [Next]_vars => NothingNewer'
<1> SUFFICES ASSUME IInv, [Next]_vars, NEW s \in Senders, NEW t \in Senders,
                    pc'[s] = "insert", row'[t].stored, t \notin touched',
                    SameKey(post'[s], post'[t])
             PROVE  row'[t].time < now'[s] - Window
  BY DEF NothingNewer
<1>1. post'[s] = post[s] /\ now'[s] = now[s]
  BY ReachesInsert
<1>2. CASE Store(t)
  <2>1. s # t /\ pc[s] = "insert" /\ pc[t] = "insert" /\ post'[t] = post[t]
    BY <1>2, StoreRow DEF IInv, TypeOK
  <2> QED BY <1>1, <2>1, OneInserts DEF SameKey
<1>3. CASE row[t].stored /\ t \notin touched /\ row'[t].text = row[t].text /\ row'[t].time = row[t].time
  <2>1. post'[t] = post[t] /\ row[t].text = post[t].text
    BY <1>3, PostKept DEF IInv, Stored, AsSent
  <2>2. CASE pc[s] = "insert"
    BY <1>1, <1>3, <2>1, <2>2 DEF IInv, NothingNewer
  <2>3. CASE CheckDuplicate(s)
    <3>1. ~ Duplicate(s)
      BY <2>3 DEF CheckDuplicate, Go, IInv, TypeOK
    <3>2. ~ (row[t].time >= now[s] - Window)
      BY <1>1, <1>3, <2>1, <3>1 DEF Duplicate, SameKey
    <3>3. row[t].time \in Int /\ now[s] \in Int /\ Window \in Int
      BY <1>3, TimesAreInts
    <3> QED BY <1>1, <1>3, <3>2, <3>3
  <2> QED BY <2>2, <2>3, ReachesInsert
<1> QED BY <1>2, <1>3, UntouchedRows

\* Every step keeps equal danmaku a window apart.
LEMMA OnePerWindowStep == IInv /\ [Next]_vars => OnePerWindow'
<1> DEFINE Apart(s, t) == row[s].time > row[t].time + Window \/ row[t].time > row[s].time + Window
           Old(s) == row[s].stored /\ s \notin touched /\ row'[s].time = row[s].time
<1> SUFFICES ASSUME IInv, [Next]_vars, NEW s \in Senders, NEW t \in Senders, s # t,
                    row'[s].stored, row'[t].stored, {s, t} \cap touched' = {},
                    SameKey(post'[s], post'[t])
             PROVE  Apart(s, t)'
  BY DEF OnePerWindow
<1>1. ASSUME NEW x \in Senders, NEW y \in Senders, x # y, Store(x), Old(y), SameKey(post'[x], post'[y])
      PROVE  row'[x].time > row'[y].time + Window
  <2>1. pc[x] = "insert" /\ post' = post /\ row'[x].time = now[x]
    BY <1>1, StoreRow
  <2>2. row[y].time < now[x] - Window
    BY <1>1, <2>1 DEF IInv, NothingNewer
  <2>3. row[y].time \in Int /\ now[x] \in Int /\ Window \in Int
    BY <1>1, TimesAreInts
  <2> QED BY <1>1, <2>1, <2>2, <2>3
<1>2. Store(s) \/ (Old(s) /\ post'[s] = post[s])
  BY UntouchedRows, PostKept
<1>3. Store(t) \/ (Old(t) /\ post'[t] = post[t])
  BY UntouchedRows, PostKept
<1>4. ~ (Store(s) /\ Store(t))
  <2> SUFFICES ASSUME Store(s), Store(t) PROVE FALSE
    OBVIOUS
  <2>1. pc[s] = "insert" /\ pc[t] = "insert" /\ post' = post
    BY StoreRow
  <2> QED BY <2>1, OneInserts DEF SameKey
<1>5. SameKey(post'[t], post'[s])
  BY DEF SameKey
<1>6. CASE Old(s) /\ Old(t) /\ post'[s] = post[s] /\ post'[t] = post[t]
  BY <1>6 DEF IInv, OnePerWindow
<1> QED BY <1>1, <1>2, <1>3, <1>4, <1>5, <1>6

\* What is stored under an author scanned for is stored by a rule that gives it.
LEMMA StoreGives ==
    ASSUME IInv, NEW s \in Senders, Store(s), row'[s].author \in scanned
    PROVE  s \in rewritten'
<1>1. row'[s].author = Renamed(post[s], rules)
  BY StoreRow
<1>2. row'[s].author \in rules \cap AuthorRules
  BY DEF IInv, TypeOK
<1>3. row'[s].author # post[s].author
  BY <1>1, <1>2, NativeAssumption DEF Renamed
<1> QED BY <1>3 DEF Store

\* After a scan, only an Edit or another rule brings the replaced author back.
LEMMA ScanStep == IInv /\ [Next]_vars => ScanIsComplete'
<1> SUFFICES ASSUME IInv, [Next]_vars, NEW a \in scanned', NEW s \in Senders,
                    row'[s].stored, row'[s].author = a, s \notin touched', s \notin rewritten'
             PROVE  FALSE
  BY DEF ScanIsComplete, ByAuthor
<1>1. ASSUME a \in scanned, row[s].stored, row[s].author = a, s \notin touched, s \notin rewritten
      PROVE  FALSE
  BY <1>1 DEF IInv, ScanIsComplete, ByAuthor
<1>2. CASE UNCHANGED <<row, touched, rewritten>> /\ scanned' \subseteq scanned
  BY <1>1, <1>2
<1>3. ASSUME NEW t \in Senders, Store(t) PROVE FALSE
  <2>1. CASE s = t
    BY <1>3, <2>1, StoreRow, StoreGives
  <2>2. CASE s # t
    <3>1. rewritten \subseteq rewritten'
      BY <1>3 DEF Store
    <3> QED BY <1>1, <1>3, <2>2, <3>1, StoreRow DEF IInv, TypeOK
  <2> QED BY <2>1, <2>2
<1>4. ASSUME NEW w \in RuleCalls, Create(w) PROVE FALSE
  <2> DEFINE r == change[w].rule
  <2>1. row[s].stored /\ s \notin touched
    BY <1>4, CreateRow
  <2>2. CASE change[w].op # "scan"
    BY <1>1, <1>4, <2>1, <2>2 DEF Create
  <2>3. CASE change[w].op = "scan"
    <3>1. r \in AuthorRules /\ a \in scanned \cup {r}
      BY <1>4, <2>3 DEF Create, IInv, Requests
    <3>2. row'[s] = IF row[s].author = r THEN [row[s] EXCEPT !.author = Replacement[r]] ELSE row[s]
      BY <1>4, <2>1, <2>3 DEF Create, ByAuthor
    <3>3. rewritten' = IF Replacement[r] \in scanned
                       THEN rewritten \cup ByAuthor(r) ELSE rewritten \ ByAuthor(r)
      BY <1>4, <2>3 DEF Create
    <3>4. row[s] \in StoredRows
      BY <2>1, StoredType DEF IInv, TypeOK
    <3>5. CASE row[s].author = r
      <4>1. a = Replacement[r]
        BY <3>2, <3>4, <3>5 DEF StoredRows
      <4>2. a \in scanned
        BY <3>1, <4>1, NativeAssumption
      <4>3. s \in ByAuthor(r)
        BY <2>1, <3>5 DEF ByAuthor
      <4> QED BY <3>3, <4>1, <4>2, <4>3
    <3>6. CASE row[s].author # r
      <4>1. s \notin ByAuthor(r)
        BY <3>6 DEF ByAuthor
      <4>2. s \notin rewritten
        BY <3>3, <4>1
      <4> QED BY <1>1, <2>1, <3>1, <3>2, <3>6, <4>2
    <3> QED BY <3>5, <3>6
  <2> QED BY <2>2, <2>3
<1>5. ASSUME NEW e \in Edits, Update(e) PROVE FALSE
  BY <1>1, <1>5, UpdateRow DEF IInv, TypeOK
<1>6. ASSUME NEW e \in Edits, Delete(e) PROVE FALSE
  BY <1>1, <1>6, DeleteRow DEF IInv, TypeOK
<1> QED BY <1>2, <1>3, <1>4, <1>5, <1>6, RowWriters

--------------------------------------------------------------------------------
(* The theorems *)

\* Who holds which lock and what is known meanwhile, in every reachable state.
THEOREM NativeInvariance == Spec => []IInv
<1>1. IInv /\ [Next]_vars => IInv'
  BY RequestsStep, RuleHeldStep, PostHeldStep, RulesReadStep, VideoHeldStep, StaleStep, TypeStep,
     StoredStep, NothingNewerStep, OnePerWindowStep, ScanStep DEF IInv
<1> QED BY InitIInv, <1>1, PTL DEF Spec

\* The variables keep their types; the rule lock is shared or exclusive.
THEOREM NativeTypeCorrect == Spec => []TypeOK
BY NativeInvariance, PTL DEF IInv

\* Of equal submissions within the window one is stored (Insert's duplicate check).
THEOREM NativeOnePerWindow == Spec => []OnePerWindow
BY NativeInvariance, PTL DEF IInv

\* A rule's scan of history misses no danmaku: whatever carries the author afterwards,
\* an Edit wrote back or another rule, chained or scanned for later, has given it.
THEOREM NativeScanIsComplete == Spec => []ScanIsComplete
BY NativeInvariance, PTL DEF IInv

\* No committed change of what is answered goes without an invalidation of its own:
\* answers are out of date while it is to come, and beyond that only if it is lost.
THEOREM NativeStaleIsPending == Spec => []StaleIsPending
BY NativeInvariance, PTL DEF IInv

\* A danmaku is stored as the rules say that are in force at its commit.
THEOREM NativeRulesInForce == Spec => RulesInForce
<1> DEFINE Step == \A s \in Senders :
                     (~ row[s].stored /\ row'[s].stored) =>
                        /\ ~ Denied(post[s], rules)
                        /\ row'[s].deleted = Hidden(post[s], rules)
                        /\ row'[s].author = Renamed(post[s], rules)
<1>1. IInv /\ [Next]_vars => Step
  <2> SUFFICES ASSUME IInv, [Next]_vars, NEW s \in Senders, ~ row[s].stored, row'[s].stored
               PROVE  /\ ~ Denied(post[s], rules)
                      /\ row'[s].deleted = Hidden(post[s], rules)
                      /\ row'[s].author = Renamed(post[s], rules)
    OBVIOUS
  <2>1. Store(s)
    BY RowsStay
  <2>2. ~ Denied(post[s], rules)
    BY <2>1, StoreRow DEF IInv, RulesRead, InTransaction
  <2> QED BY <2>1, <2>2, StoreRow
<1> HIDE DEF Step
<1>2. IInv /\ [Next]_vars => [Step]_vars
  BY <1>1
<1>3. Spec => [][Step]_vars
  BY <1>2, NativeInvariance, PTL DEF Spec
<1> QED BY <1>3 DEF RulesInForce, Step

\* Nothing is added to a deleted video.
THEOREM NativeLiveVideosOnly == Spec => LiveVideosOnly
<1> DEFINE Step == \A s \in Senders :
                     (~ row[s].stored /\ row'[s].stored) => video'[post[s].vid] = "live"
<1>1. IInv /\ [Next]_vars => Step
  <2> SUFFICES ASSUME IInv, [Next]_vars, NEW s \in Senders, ~ row[s].stored, row'[s].stored
               PROVE  video'[post[s].vid] = "live"
    OBVIOUS
  <2>1. Store(s)
    BY RowsStay
  <2>2. pc[s] = "insert" /\ post[s] \in Posts
    BY <2>1, StoreRow DEF IInv, Requests
  <2>3. post[s].vid \in Videos /\ video[post[s].vid] \in {"absent", "live"}
    BY <2>2 DEF Videos, IInv, VideoHeld, TypeOK
  <2> QED BY <2>1, <2>3 DEF Store, IInv, TypeOK
<1> HIDE DEF Step
<1>2. IInv /\ [Next]_vars => [Step]_vars
  BY <1>1
<1>3. Spec => [][Step]_vars
  BY <1>2, NativeInvariance, PTL DEF Spec
<1> QED BY <1>3 DEF LiveVideosOnly, Step

\* Of the calls under way one does not wait: the three locks never make a circle,
\* and no way out of Insert or CreateNativeRule keeps one.
THEOREM NativeNobodyStuck == Spec => []NobodyStuck
<1>1. IInv => NobodyStuck
  <2> SUFFICES ASSUME IInv, Sending # {} \/ Ruling # {},
                      \A s \in Sending : SendWaits(s), \A w \in Ruling : RuleWaits(w)
               PROVE  FALSE
    BY DEF NobodyStuck
  <2>1. \A w \in Ruling : rulePc[w] = "lock"
    BY DEF RuleWaits
  <2>2. \A w \in RuleCalls : w \notin ruleLock
    BY <2>1 DEF IInv, RuleHeld, Ruling
  <2>3. \A s \in Sending : pc[s] \in {"lock", "video"}
    BY <2>2 DEF SendWaits
  <2>4. videoLock = {}
    BY <2>3 DEF IInv, VideoHeld, TypeOK, Sending
  <2>5. \A s \in Sending : pc[s] = "lock"
    BY <2>3, <2>4 DEF SendWaits, Free
  <2>6. postLock = {}
    BY <2>5 DEF IInv, PostHeld, TypeOK, Sending, InTransaction
  <2>7. Sending = {}
    BY <2>5, <2>6 DEF SendWaits
  <2>8. ruleLock = {}
    <3>1. ruleLock \subseteq Senders \cup RuleCalls
      <4>1. ruleLock \in SUBSET Senders \/ \E w \in RuleCalls : ruleLock = {w}
        BY Zenon DEF IInv, TypeOK
      <4> QED BY <4>1
    <3>2. \A s \in Senders : s \notin ruleLock
      BY <2>7 DEF IInv, RuleHeld, Sending, InTransaction
    <3> QED BY <2>2, <3>1, <3>2
  <2> QED BY <2>7, <2>8 DEF RuleWaits
<1> QED BY <1>1, NativeInvariance, PTL

================================================================================
