-------------------------- MODULE PoolCreationProofs ---------------------------
(***************************************************************************)
(* PoolCreation for every number of submits, openings, bodies and videos.  *)
(*                                                                         *)
(* A visit of the dialog has at most one submit under way.  What the       *)
(* server made in the visit on screen is saved, or lost, or its answer is  *)
(* still under way: so a submit that finds nothing saved may create.       *)
(***************************************************************************)
EXTENDS PoolCreation, TLAPS

\* What is saved belongs to the open dialog, and is one pool.
SavedIsOne ==
  /\ \A p \in saved : open /\ p \in pools /\ p \notin lost /\ p.visit = visit
  /\ \A p, q \in saved : p = q

\* What a submit is about, by its state.
AttemptIsWhole ==
  \A a \in Attempts :
    LET s == attempt[a] IN
      /\ s.state = "none" => s = NoAttempt
      /\ Running(a) \/ s.state = "done" => s.visit <= visit /\ \E b \in Bodies : s.body = {b}
      /\ s.state \in {"none", "creating"} => s.pool = {} /\ \A p \in pools : p.by # a
      /\ s.state \in {"created", "binding", "bound", "done"} =>
           \E p \in pools : s.pool = {p} /\ s.body = {p.body} /\ s.visit = p.visit
      /\ s.state \in {"bound", "done"} => s.pool \X s.target.video \subseteq bound
      /\ s.pool \subseteq pools

\* A visit has one submit under way.
OneAtATime ==
  \A a, b \in Attempts :
    Running(a) /\ Running(b) /\ attempt[a].visit = attempt[b].visit => a = b

\* A pool that is saved has been reported as created, and not as bound.
SavedIsUndone ==
  \A a \in Attempts : attempt[a].state \in {"created", "done"} => attempt[a].pool \cap saved = {}

\* A pool that is lost will not be reported.
LostIsOver ==
  /\ lost \subseteq pools
  /\ \A a \in Attempts : attempt[a].state = "created" => attempt[a].pool \cap lost = {}

\* Two submits are about one pool only if one of them has failed.
PoolHasOneSubmit ==
  \A a, b \in Attempts :
    attempt[a].pool \cap attempt[b].pool # {} /\ a # b =>
      attempt[a].state = "failed" \/ attempt[b].state = "failed"

\* The pools of the visit on screen: saved, lost, or about to be reported.
VisitIsKnown ==
  \A p \in pools :
    /\ p.visit <= visit
    /\ open /\ p.visit = visit =>
         \/ p \in saved \cup lost
         \/ \E a \in Attempts : attempt[a].state = "created" /\ attempt[a].pool = {p}

\* A submit that creates finds no pool of its visit and body that is not lost.
CreatesNew ==
  \A a \in Attempts : attempt[a].state = "creating" =>
    \A p \in pools : p.visit = attempt[a].visit /\ p.body \in attempt[a].body => p \in lost

\* A binding belongs to the submit that reports it, or to one that reported a failure.
BoundIsKnown ==
  \A x \in bound :
    \/ x \in doubted
    \/ \E a \in Attempts :
         /\ attempt[a].state \in {"bound", "done"} /\ attempt[a].pool = {x[1]}
         /\ x[2] \in attempt[a].target.video

IInv ==
  /\ CreationTypeOK
  /\ SavedIsOne /\ AttemptIsWhole /\ OneAtATime /\ SavedIsUndone
  /\ LostIsOver /\ PoolHasOneSubmit
  /\ VisitIsKnown /\ CreatesNew /\ BoundIsKnown /\ CreatesOnce

-----------------------------------------------------------------------------
\* The invariant holds before the dialog is opened.
LEMMA InitStep == CreationInit => IInv
<1> SUFFICES ASSUME CreationInit PROVE IInv
  OBVIOUS
<1>1. \A a \in Attempts : attempt[a] = NoAttempt
  BY DEF CreationInit
<1>2. CreationTypeOK
  BY <1>1 DEF CreationInit, CreationTypeOK, NoAttempt, Nothing, States, Targets, Unbound
<1>3. AttemptIsWhole /\ OneAtATime /\ SavedIsUndone /\ LostIsOver
  BY <1>1 DEF CreationInit, AttemptIsWhole, OneAtATime, SavedIsUndone, LostIsOver, NoAttempt,
              Nothing, Running
<1>4. SavedIsOne /\ PoolHasOneSubmit /\ VisitIsKnown /\ CreatesNew /\ BoundIsKnown /\ CreatesOnce
  BY <1>1 DEF CreationInit, SavedIsOne, PoolHasOneSubmit, VisitIsKnown, CreatesNew, BoundIsKnown,
              CreatesOnce, NoAttempt, Nothing
<1> QED
  BY <1>2, <1>3, <1>4 DEF IInv

\* A dialog that opens has nothing of its visit yet.
LEMMA OpenStep ==
  ASSUME IInv, OpenDialog
  PROVE  IInv'
<1> USE DEF IInv, CreatedPools, Nothing
<1>1. CreationTypeOK'
  BY DEF OpenDialog, CreationTypeOK, NoAttempt, States, Become
<1>2. SavedIsOne'
  BY DEF OpenDialog, SavedIsOne, CreationTypeOK, Become, Here
<1>3. AttemptIsWhole'
  BY DEF OpenDialog, AttemptIsWhole, CreationTypeOK, SavedIsOne, Running, NoAttempt, Become
<1>4. OneAtATime'
  BY DEF OpenDialog, OneAtATime, CreationTypeOK, Running, Become
<1>5. SavedIsUndone'
  BY DEF OpenDialog, SavedIsUndone, SavedIsOne, CreationTypeOK, Become
<1>6. LostIsOver'
  BY DEF OpenDialog, LostIsOver, CreationTypeOK, Become
<1>7. PoolHasOneSubmit'
  BY DEF OpenDialog, PoolHasOneSubmit, CreationTypeOK, Become
<1>8. VisitIsKnown'
  BY DEF OpenDialog, VisitIsKnown, CreationTypeOK, SavedIsOne, Become
<1>9. CreatesNew'
  BY DEF OpenDialog, CreatesNew, CreationTypeOK, Become
<1>10. BoundIsKnown'
  BY DEF OpenDialog, BoundIsKnown, CreationTypeOK, Become
<1>11. CreatesOnce'
  BY DEF OpenDialog, CreatesOnce, CreationTypeOK, Become
<1> QED
  BY <1>1, <1>2, <1>3, <1>4, <1>5, <1>6, <1>7, <1>8, <1>9, <1>10, <1>11

\* Leaving forgets what was saved.
LEMMA LeaveStep ==
  ASSUME IInv, LeaveDialog
  PROVE  IInv'
<1> USE DEF IInv, CreatedPools, Nothing
<1>1. CreationTypeOK'
  BY DEF LeaveDialog, CreationTypeOK, NoAttempt, States, Become
<1>2. SavedIsOne'
  BY DEF LeaveDialog, SavedIsOne, CreationTypeOK, Become, Here
<1>3. AttemptIsWhole'
  BY DEF LeaveDialog, AttemptIsWhole, CreationTypeOK, SavedIsOne, Running, NoAttempt, Become
<1>4. OneAtATime'
  BY DEF LeaveDialog, OneAtATime, CreationTypeOK, Running, Become
<1>5. SavedIsUndone'
  BY DEF LeaveDialog, SavedIsUndone, SavedIsOne, CreationTypeOK, Become
<1>6. LostIsOver'
  BY DEF LeaveDialog, LostIsOver, CreationTypeOK, Become
<1>7. PoolHasOneSubmit'
  BY DEF LeaveDialog, PoolHasOneSubmit, CreationTypeOK, Become
<1>8. VisitIsKnown'
  BY DEF LeaveDialog, VisitIsKnown, CreationTypeOK, SavedIsOne, Become
<1>9. CreatesNew'
  BY DEF LeaveDialog, CreatesNew, CreationTypeOK, Become
<1>10. BoundIsKnown'
  BY DEF LeaveDialog, BoundIsKnown, CreationTypeOK, Become
<1>11. CreatesOnce'
  BY DEF LeaveDialog, CreatesOnce, CreationTypeOK, Become
<1> QED
  BY <1>1, <1>2, <1>3, <1>4, <1>5, <1>6, <1>7, <1>8, <1>9, <1>10, <1>11

\* A submit is the only one of its visit, and uses the saved pool if its body is the same.
LEMMA SubmitStep ==
  ASSUME IInv, NEW a \in Attempts, NEW body \in Bodies, NEW target \in Targets,
         Submit(a, body, target)
  PROVE  IInv'
<1> USE DEF IInv, CreatedPools, Nothing
<1>1. attempt[a] = NoAttempt /\ \A b \in Attempts : b # a => attempt'[b] = attempt[b]
  BY DEF Submit, CreationTypeOK, Attempts
<1>2. open /\ \A b \in Attempts : Running(b) => attempt[b].visit # visit
  BY DEF Submit, Busy, Here
<1>3. attempt'[a].visit = visit /\ attempt'[a].body = {body} /\ attempt'[a].target = target
  BY DEF Submit, CreationTypeOK
<1>4. \/ attempt'[a].state = "failed" /\ attempt'[a].pool = {}
      \/ attempt'[a].state = "creating" /\ attempt'[a].pool = {} /\ \A p \in saved : p.body # body
      \/ /\ attempt'[a].state \in {"binding", "bound"}
         /\ attempt'[a].state = "bound" => target.video = {}
         /\ \E p \in saved : p.body = body /\ attempt'[a].pool = {p}
  BY DEF Submit, CreationTypeOK, SavedIsOne, Unbound
<1>5. UNCHANGED <<visit, open, saved, pools, bound, lost, doubted>>
  BY DEF Submit
<1>6. CreationTypeOK'
  BY DEF Submit, CreationTypeOK, NoAttempt, States, Become
<1>7. SavedIsOne'
  BY DEF Submit, SavedIsOne, CreationTypeOK, Become, Here
<1>8. AttemptIsWhole'
  <2>1. ASSUME NEW p \in saved, attempt'[a].pool = {p}, p.body = body,
               attempt'[a].state = "bound" => target.video = {}
        PROVE  /\ p \in pools /\ attempt'[a].visit = p.visit /\ attempt'[a].body = {p.body}
               /\ attempt'[a].state = "bound" => attempt'[a].pool \X attempt'[a].target.video \subseteq bound
    BY <1>3, <2>1 DEF SavedIsOne
  <2>2. \A p \in pools : p.by # a
    BY <1>1 DEF AttemptIsWhole, NoAttempt
  <2>3. visit <= visit /\ body \in Bodies
    BY DEF CreationTypeOK
  <2>4. attempt'[a].pool \subseteq pools
    BY <1>4, <2>1 DEF SavedIsOne
  <2> QED
    BY <1>1, <1>3, <1>4, <1>5, <2>1, <2>2, <2>3, <2>4 DEF AttemptIsWhole, Running
<1>9. OneAtATime'
  BY <1>1, <1>2, <1>3, <1>5 DEF OneAtATime, Running
<1>10. SavedIsUndone'
  BY <1>1, <1>4, <1>5 DEF SavedIsUndone
<1>11. LostIsOver'
  BY <1>1, <1>4, <1>5 DEF LostIsOver
<1>12. PoolHasOneSubmit'
  <2>1. ASSUME NEW b \in Attempts, b # a, attempt[b].pool \cap attempt'[a].pool # {}
        PROVE  attempt[b].state = "failed"
    <3>1. PICK p \in saved : p \in attempt[b].pool
      BY <1>4, <2>1
    <3>2. attempt[b].state \in {"created", "binding", "bound", "done"} => attempt[b].visit = visit
      BY <3>1 DEF AttemptIsWhole, SavedIsOne
    <3>3. attempt[b].state \in States /\ attempt[b].state \notin {"none", "creating"}
      BY <3>1 DEF AttemptIsWhole, CreationTypeOK
    <3> QED
      BY <1>2, <3>1, <3>2, <3>3 DEF Running, SavedIsUndone, States
  <2> QED
    BY <1>1, <2>1 DEF PoolHasOneSubmit
<1>13. VisitIsKnown'
  BY <1>1, <1>5 DEF VisitIsKnown, NoAttempt
<1>14. CreatesNew'
  <2>1. ASSUME NEW p \in pools, p.visit = visit, p.body = body, attempt'[a].state = "creating"
        PROVE  p \in lost
    BY <1>2, <1>4, <2>1 DEF VisitIsKnown, Running, AttemptIsWhole
  <2> QED
    BY <1>1, <1>3, <1>5, <2>1 DEF CreatesNew
<1>15. BoundIsKnown'
  BY SMTT(30), <1>1, <1>5 DEF BoundIsKnown, NoAttempt
<1>16. CreatesOnce'
  BY <1>5 DEF CreatesOnce
<1> QED
  BY <1>6, <1>7, <1>8, <1>9, <1>10, <1>11, <1>12, <1>13, <1>14, <1>15, <1>16

\* The pool that is created is new, and those like it in its visit are lost.
LEMMA CreateStep ==
  ASSUME IInv, NEW a \in Attempts, CreatePool(a)
  PROVE  IInv'
<1> USE DEF IInv, CreatedPools, Nothing
<1>1. PICK c \in Bodies : attempt[a].body = {c}
  BY DEF CreatePool, AttemptIsWhole, Running
<1>2. PICK p \in CreatedPools :
             /\ p.by = a /\ p.visit = attempt[a].visit /\ p.body = c
             /\ pools' = pools \cup {p} /\ attempt'[a].pool = {p}
             /\ attempt' = [attempt EXCEPT ![a] = [@ EXCEPT !.state = "created", !.pool = {p}]]
  <2> DEFINE q == [by |-> a, visit |-> attempt[a].visit, body |-> c]
  <2>1. q \in CreatedPools
    BY DEF CreationTypeOK
  <2>2. /\ pools' = pools \cup {q}
        /\ attempt' = [attempt EXCEPT ![a] = [@ EXCEPT !.state = "created", !.pool = {q}]]
    BY <1>1 DEF CreatePool
  <2>3. attempt'[a].pool = {q}
    BY <2>2 DEF CreationTypeOK
  <2> QED
    BY <2>1, <2>2, <2>3
<1>3. /\ attempt'[a].state = "created"
      /\ attempt'[a].visit = attempt[a].visit /\ attempt'[a].body = attempt[a].body
      /\ attempt'[a].target = attempt[a].target
      /\ \A b \in Attempts : b # a => attempt'[b] = attempt[b]
  BY DEF CreatePool, CreationTypeOK, Become
<1>4. /\ p \notin pools /\ attempt[a].state = "creating"
      /\ UNCHANGED <<visit, open, saved, bound, lost, doubted>>
  BY <1>2 DEF CreatePool, AttemptIsWhole
<1>5. attempt[a].visit <= visit /\ attempt[a].visit \in Nat
  BY <1>4 DEF AttemptIsWhole, Running, CreationTypeOK
<1>6. CreationTypeOK'
  <2> DEFINE Record == [state : States, visit : Nat, body : SUBSET Bodies,
                        target : Targets, pool : SUBSET CreatedPools]
             old == attempt[a]
  <2>1. old \in Record
    BY DEF CreationTypeOK
  <2>2. [old EXCEPT !.state = "created", !.pool = {p}] \in Record
    <3> HIDE DEF old
    <3> QED
      BY <1>2, <2>1 DEF States
  <2>3. attempt'[a] = [old EXCEPT !.state = "created", !.pool = {p}]
    BY <1>2 DEF CreationTypeOK
  <2>4. attempt' \in [Attempts -> Record]
    BY <1>2, <2>2, <2>3 DEF CreationTypeOK
  <2> QED
    BY <1>2, <1>4, <2>4 DEF CreatePool, CreationTypeOK
<1>7. SavedIsOne'
  BY <1>2, <1>4 DEF SavedIsOne
<1>8. AttemptIsWhole'
  <2>1. ASSUME NEW b \in Attempts, b # a PROVE p.by # b
    BY <1>2, <2>1
  <2> QED
    BY <1>1, <1>2, <1>3, <1>4, <1>5, <2>1 DEF AttemptIsWhole, Running
<1>9. OneAtATime'
  BY <1>3, <1>4 DEF OneAtATime, Running
<1>10. SavedIsUndone'
  BY <1>2, <1>3, <1>4 DEF SavedIsUndone, SavedIsOne
<1>11. LostIsOver'
  BY <1>2, <1>3, <1>4 DEF LostIsOver
<1>12. PoolHasOneSubmit'
  BY <1>2, <1>3, <1>4 DEF PoolHasOneSubmit, AttemptIsWhole
<1>13. VisitIsKnown'
  <2>1. p.visit <= visit' /\ attempt'[a].state = "created" /\ attempt'[a].pool = {p}
    BY <1>2, <1>3, <1>4, <1>5
  <2>2. \A b \in Attempts : attempt[b].state = "created" => attempt'[b] = attempt[b]
    BY <1>3, <1>4
  <2> QED
    BY <1>2, <1>4, <2>1, <2>2 DEF VisitIsKnown
<1>14. CreatesNew'
  <2>1. ASSUME NEW b \in Attempts, attempt'[b].state = "creating",
               p.visit = attempt'[b].visit, p.body \in attempt'[b].body
        PROVE  FALSE
    <3>1. b # a /\ attempt[b].state = "creating" /\ attempt[b].visit = attempt[a].visit
      BY <1>2, <1>3, <2>1
    <3> QED
      BY <1>4, <3>1 DEF OneAtATime, Running
  <2> QED
    BY <1>2, <1>3, <1>4, <2>1 DEF CreatesNew
<1>15. BoundIsKnown'
  <2>1. \A b \in Attempts : attempt[b].state \in {"bound", "done"} => attempt'[b] = attempt[b]
    BY <1>3, <1>4
  <2> QED
    BY <1>4, <2>1 DEF BoundIsKnown
<1>16. CreatesOnce'
  <2>1. \A q \in pools : q.visit = p.visit /\ q.body = p.body => q \in lost
    BY <1>1, <1>2, <1>4 DEF CreatesNew
  <2> QED
    BY <1>2, <1>4, <2>1 DEF CreatesOnce
<1> QED
  BY <1>6, <1>7, <1>8, <1>9, <1>10, <1>11, <1>12, <1>13, <1>14, <1>15, <1>16

\* The pool that is reported is saved and replaces, which loses, the one before.
LEMMA CreatedStep ==
  ASSUME IInv, NEW a \in Attempts, Created(a)
  PROVE  IInv'
<1> USE DEF IInv, CreatedPools, Nothing
<1>1. /\ attempt'[a].state = (IF attempt[a].target = Unbound THEN "bound" ELSE "binding")
      /\ attempt'[a].visit = attempt[a].visit /\ attempt'[a].body = attempt[a].body
      /\ attempt'[a].target = attempt[a].target
      /\ \A b \in Attempts : b # a => attempt'[b] = attempt[b]
  BY DEF Created, CreationTypeOK, Become
<1>2. attempt'[a].pool = attempt[a].pool
  BY DEF Created, CreationTypeOK, Become
<1>3. attempt[a].state = "created" /\ UNCHANGED <<visit, open, pools, bound, doubted>>
  BY DEF Created
<1>4. PICK p \in pools :
        attempt[a].pool = {p} /\ attempt[a].body = {p.body} /\ attempt[a].visit = p.visit
  BY <1>3 DEF AttemptIsWhole
<1>5. \/ open /\ p.visit = visit /\ saved' = {p} /\ lost' = lost \cup saved
      \/ ~(open /\ p.visit = visit) /\ saved' = saved /\ lost' = lost
  BY <1>4 DEF Created, Here
<1>6. p \notin saved /\ p \notin lost
  <2>1. p \notin saved
    BY <1>3, <1>4 DEF SavedIsUndone
  <2> QED
    BY <1>3, <1>4, <2>1 DEF LostIsOver
<1>7. CreationTypeOK'
  BY DEF Created, CreationTypeOK, NoAttempt, States, Become
<1>8. SavedIsOne'
  BY <1>3, <1>4, <1>5, <1>6 DEF SavedIsOne
<1>9. AttemptIsWhole'
  <2>1. attempt[a].target = Unbound => attempt[a].target.video = {}
    BY DEF Unbound
  <2> QED
    BY <1>1, <1>2, <1>3, <1>4, <2>1 DEF AttemptIsWhole, Running
<1>10. OneAtATime'
  BY <1>1, <1>2, <1>3 DEF OneAtATime, Running
<1>11. SavedIsUndone'
  <2>1. ASSUME NEW b \in Attempts, b # a, attempt[b].state \in {"created", "done"}
        PROVE  attempt[b].pool \cap {p} = {}
    BY <1>3, <1>4, <2>1 DEF PoolHasOneSubmit
  <2> QED
    BY <1>1, <1>2, <1>3, <1>5, <2>1 DEF SavedIsUndone
<1>12. LostIsOver'
  BY <1>1, <1>2, <1>3, <1>5 DEF LostIsOver, SavedIsOne, SavedIsUndone
<1>13. PoolHasOneSubmit'
  BY <1>1, <1>2, <1>3 DEF PoolHasOneSubmit
<1>14. VisitIsKnown'
  <2>1. ASSUME NEW q \in pools, q # p, open, q.visit = visit
        PROVE  \/ q \in saved' \cup lost'
               \/ \E b \in Attempts : attempt'[b].state = "created" /\ attempt'[b].pool = {q}
    <3>1. CASE q \in saved \cup lost
      BY <1>5, <3>1
    <3>2. CASE \E b \in Attempts : attempt[b].state = "created" /\ attempt[b].pool = {q}
      BY <1>1, <1>4, <2>1, <3>2
    <3> QED
      BY <2>1, <3>1, <3>2 DEF VisitIsKnown
  <2> QED
    BY <1>3, <1>5, <2>1 DEF VisitIsKnown
<1>15. CreatesNew'
  BY <1>1, <1>3, <1>5 DEF CreatesNew
<1>16. BoundIsKnown'
  BY <1>1, <1>2, <1>3 DEF BoundIsKnown
<1>17. CreatesOnce'
  BY <1>3, <1>5 DEF CreatesOnce
<1> QED
  BY <1>7, <1>8, <1>9, <1>10, <1>11, <1>12, <1>13, <1>14, <1>15, <1>16, <1>17

\* A pool that is not reported is lost.
LEMMA CreateFailsStep ==
  ASSUME IInv, NEW a \in Attempts, CreateFails(a)
  PROVE  IInv'
<1> USE DEF IInv, CreatedPools, Nothing
<1>1. /\ attempt'[a].state = "failed"
      /\ attempt'[a].visit = attempt[a].visit /\ attempt'[a].body = attempt[a].body
      /\ attempt'[a].target = attempt[a].target
      /\ \A b \in Attempts : b # a => attempt'[b] = attempt[b]
  BY DEF CreateFails, CreationTypeOK, Become
<1>2. attempt'[a].pool = attempt[a].pool
  BY DEF CreateFails, CreationTypeOK, Become
<1>3. /\ attempt[a].state \in {"creating", "created"} /\ lost' = lost \cup attempt[a].pool
      /\ UNCHANGED <<visit, open, saved, pools, bound, doubted>>
  BY DEF CreateFails
<1>4. CreationTypeOK'
  BY DEF CreateFails, CreationTypeOK, NoAttempt, States, Become
<1>5. SavedIsOne'
  <2>1. attempt[a].pool \cap saved = {}
    BY <1>3 DEF AttemptIsWhole, SavedIsUndone
  <2> QED
    BY <1>3, <2>1 DEF SavedIsOne
<1>6. AttemptIsWhole'
  BY <1>1, <1>2, <1>3 DEF AttemptIsWhole, Running
<1>7. OneAtATime'
  BY <1>1, <1>2, <1>3 DEF OneAtATime, Running
<1>8. SavedIsUndone'
  BY <1>1, <1>2, <1>3 DEF SavedIsUndone
<1>9. LostIsOver'
  <2>1. attempt[a].pool \subseteq pools
    BY DEF AttemptIsWhole
  <2>2. ASSUME NEW b \in Attempts, b # a, attempt[b].state = "created"
        PROVE  attempt[b].pool \cap attempt[a].pool = {}
    BY <1>3, <2>2 DEF PoolHasOneSubmit
  <2> QED
    BY <1>1, <1>2, <1>3, <2>1, <2>2 DEF LostIsOver
<1>10. PoolHasOneSubmit'
  BY <1>1, <1>2, <1>3 DEF PoolHasOneSubmit
<1>11. VisitIsKnown'
  <2>1. ASSUME NEW q \in pools, open, q.visit = visit
        PROVE  \/ q \in saved \cup lost'
               \/ \E b \in Attempts : attempt'[b].state = "created" /\ attempt'[b].pool = {q}
    <3>1. CASE q \in saved \cup lost
      BY <1>3, <3>1
    <3>2. CASE \E b \in Attempts : attempt[b].state = "created" /\ attempt[b].pool = {q}
      BY <1>1, <1>3, <2>1, <3>2
    <3> QED
      BY <2>1, <3>1, <3>2 DEF VisitIsKnown
  <2> QED
    BY <1>3, <2>1 DEF VisitIsKnown
<1>12. CreatesNew'
  BY <1>1, <1>2, <1>3 DEF CreatesNew
<1>13. BoundIsKnown'
  BY <1>1, <1>2, <1>3 DEF BoundIsKnown
<1>14. CreatesOnce'
  BY <1>1, <1>2, <1>3 DEF CreatesOnce
<1> QED
  BY <1>4, <1>5, <1>6, <1>7, <1>8, <1>9, <1>10, <1>11, <1>12, <1>13, <1>14

\* The binding belongs to the submit.
LEMMA BindStep ==
  ASSUME IInv, NEW a \in Attempts, BindPool(a)
  PROVE  IInv'
<1> USE DEF IInv, CreatedPools, Nothing
<1>1. /\ attempt'[a].state = "bound"
      /\ attempt'[a].visit = attempt[a].visit /\ attempt'[a].body = attempt[a].body
      /\ attempt'[a].target = attempt[a].target
      /\ \A b \in Attempts : b # a => attempt'[b] = attempt[b]
  BY DEF BindPool, CreationTypeOK, Become
<1>2. attempt'[a].pool = attempt[a].pool
  BY DEF BindPool, CreationTypeOK, Become
<1>3. /\ attempt[a].state = "binding" /\ bound' = bound \cup (attempt[a].pool \X attempt[a].target.video)
      /\ UNCHANGED <<visit, open, saved, pools, lost, doubted>>
  BY DEF BindPool
<1>4. PICK p \in pools : attempt[a].pool = {p}
  BY <1>3 DEF AttemptIsWhole
<1>5. CreationTypeOK'
  <2>1. attempt[a].target.video \subseteq Videos
    BY DEF CreationTypeOK, Targets, Unbound, Invalid
  <2> QED
    BY <1>3, <2>1 DEF BindPool, CreationTypeOK, States, Become
<1>6. SavedIsOne'
  BY <1>1, <1>2, <1>3 DEF SavedIsOne
<1>7. AttemptIsWhole'
  BY <1>1, <1>2, <1>3 DEF AttemptIsWhole, Running
<1>8. OneAtATime'
  BY <1>1, <1>2, <1>3 DEF OneAtATime, Running
<1>9. SavedIsUndone'
  BY <1>1, <1>2, <1>3 DEF SavedIsUndone
<1>10. LostIsOver'
  BY <1>1, <1>2, <1>3 DEF LostIsOver
<1>11. PoolHasOneSubmit'
  BY <1>1, <1>2, <1>3 DEF PoolHasOneSubmit
<1>12. VisitIsKnown'
  BY <1>1, <1>2, <1>3 DEF VisitIsKnown
<1>13. CreatesNew'
  BY <1>1, <1>2, <1>3 DEF CreatesNew
<1>14. BoundIsKnown'
  <2>1. ASSUME NEW x \in attempt[a].pool \X attempt[a].target.video
        PROVE  attempt'[a].pool = {x[1]} /\ x[2] \in attempt'[a].target.video
    BY <1>1, <1>2, <1>4
  <2>2. ASSUME NEW x \in bound, x \notin doubted
        PROVE  \E b \in Attempts : /\ attempt'[b].state \in {"bound", "done"} /\ attempt'[b].pool = {x[1]}
                                    /\ x[2] \in attempt'[b].target.video
    BY <1>1, <1>3, <2>2 DEF BoundIsKnown
  <2> QED
    BY <1>1, <1>3, <2>1, <2>2 DEF BoundIsKnown
<1>15. CreatesOnce'
  BY <1>1, <1>2, <1>3 DEF CreatesOnce
<1> QED
  BY <1>5, <1>6, <1>7, <1>8, <1>9, <1>10, <1>11, <1>12, <1>13, <1>14, <1>15

\* A binding that is not reported is in doubt.
LEMMA BindFailsStep ==
  ASSUME IInv, NEW a \in Attempts, BindFails(a)
  PROVE  IInv'
<1> USE DEF IInv, CreatedPools, Nothing
<1>1. /\ attempt'[a].state = "failed"
      /\ attempt'[a].visit = attempt[a].visit /\ attempt'[a].body = attempt[a].body
      /\ attempt'[a].target = attempt[a].target
      /\ \A b \in Attempts : b # a => attempt'[b] = attempt[b]
  BY DEF BindFails, CreationTypeOK, Become
<1>2. attempt'[a].pool = attempt[a].pool
  BY DEF BindFails, CreationTypeOK, Become
<1>3. /\ attempt[a].state \in {"binding", "bound"}
      /\ doubted' = IF attempt[a].state = "bound"
                     THEN doubted \cup (attempt[a].pool \X attempt[a].target.video) ELSE doubted
      /\ UNCHANGED <<visit, open, saved, pools, bound, lost>>
  BY DEF BindFails
<1>4. PICK p \in pools : attempt[a].pool = {p}
  BY <1>3 DEF AttemptIsWhole
<1>5. CreationTypeOK'
  <2>1. attempt[a].target.video \subseteq Videos
    BY DEF CreationTypeOK, Targets, Unbound, Invalid
  <2> QED
    BY <1>3, <2>1 DEF BindFails, CreationTypeOK, States, Become
<1>6. SavedIsOne'
  BY <1>1, <1>2, <1>3 DEF SavedIsOne
<1>7. AttemptIsWhole'
  BY <1>1, <1>2, <1>3 DEF AttemptIsWhole, Running
<1>8. OneAtATime'
  BY <1>1, <1>2, <1>3 DEF OneAtATime, Running
<1>9. SavedIsUndone'
  BY <1>1, <1>2, <1>3 DEF SavedIsUndone
<1>10. LostIsOver'
  BY <1>1, <1>2, <1>3 DEF LostIsOver
<1>11. PoolHasOneSubmit'
  BY <1>1, <1>2, <1>3 DEF PoolHasOneSubmit
<1>12. VisitIsKnown'
  BY <1>1, <1>2, <1>3 DEF VisitIsKnown
<1>13. CreatesNew'
  BY <1>1, <1>2, <1>3 DEF CreatesNew
<1>14. BoundIsKnown'
  <2>1. ASSUME NEW x \in bound, x \notin doubted'
        PROVE  \E b \in Attempts : /\ attempt'[b].state \in {"bound", "done"} /\ attempt'[b].pool = {x[1]}
                                    /\ x[2] \in attempt'[b].target.video
    <3>1. PICK b \in Attempts : /\ attempt[b].state \in {"bound", "done"} /\ attempt[b].pool = {x[1]}
                                /\ x[2] \in attempt[b].target.video
      BY <1>3, <2>1 DEF BoundIsKnown
    <3>2. x = <<x[1], x[2]>>
      BY DEF CreationTypeOK
    <3>3. b # a
      BY <1>3, <2>1, <3>1, <3>2
    <3> QED
      BY <1>1, <3>1, <3>3
  <2> QED
    BY <1>3, <2>1 DEF BoundIsKnown
<1>15. CreatesOnce'
  BY <1>1, <1>2, <1>3 DEF CreatesOnce
<1> QED
  BY <1>5, <1>6, <1>7, <1>8, <1>9, <1>10, <1>11, <1>12, <1>13, <1>14, <1>15

\* The pool is reported and forgotten.
LEMMA SucceedStep ==
  ASSUME IInv, NEW a \in Attempts, Succeed(a)
  PROVE  IInv'
<1> USE DEF IInv, CreatedPools, Nothing
<1>1. /\ attempt'[a].state = "done"
      /\ attempt'[a].visit = attempt[a].visit /\ attempt'[a].body = attempt[a].body
      /\ attempt'[a].target = attempt[a].target
      /\ \A b \in Attempts : b # a => attempt'[b] = attempt[b]
  BY DEF Succeed, CreationTypeOK, Become
<1>2. attempt'[a].pool = attempt[a].pool
  BY DEF Succeed, CreationTypeOK, Become
<1>3. attempt[a].state = "bound" /\ UNCHANGED <<visit, pools, bound, lost, doubted>>
  BY DEF Succeed
<1>4. PICK p \in pools :
        attempt[a].pool = {p} /\ attempt[a].body = {p.body} /\ attempt[a].visit = p.visit
  BY <1>3 DEF AttemptIsWhole
<1>5. \/ open /\ p.visit = visit /\ saved' = {} /\ open' = FALSE
      \/ ~(open /\ p.visit = visit) /\ saved' = saved /\ open' = open
  BY <1>4 DEF Succeed, Here
<1>6. p \notin saved'
  BY <1>5 DEF SavedIsOne
<1>7. CreationTypeOK'
  BY ZenonT(40) DEF Succeed, CreationTypeOK, NoAttempt, States, Become
<1>8. SavedIsOne'
  BY <1>3, <1>5 DEF SavedIsOne
<1>9. AttemptIsWhole'
  BY <1>1, <1>2, <1>3, <1>4 DEF AttemptIsWhole, Running
<1>10. OneAtATime'
  BY <1>1, <1>2, <1>3 DEF OneAtATime, Running
<1>11. SavedIsUndone'
  BY <1>1, <1>2, <1>4, <1>5, <1>6 DEF SavedIsUndone
<1>12. LostIsOver'
  BY <1>1, <1>2, <1>3 DEF LostIsOver
<1>13. PoolHasOneSubmit'
  BY <1>1, <1>2, <1>3 DEF PoolHasOneSubmit
<1>14. VisitIsKnown'
  BY <1>1, <1>3, <1>5 DEF VisitIsKnown
<1>15. CreatesNew'
  BY <1>1, <1>2, <1>3 DEF CreatesNew
<1>16. BoundIsKnown'
  <2>1. \A b \in Attempts : attempt[b].state \in {"bound", "done"} =>
          attempt'[b].state \in {"bound", "done"}
    BY <1>1
  <2>2. \A b \in Attempts : attempt'[b].pool = attempt[b].pool /\ attempt'[b].target = attempt[b].target
    BY <1>1, <1>2
  <2> QED
    BY <1>3, <2>1, <2>2 DEF BoundIsKnown
<1>17. CreatesOnce'
  BY <1>1, <1>2, <1>3 DEF CreatesOnce
<1> QED
  BY <1>7, <1>8, <1>9, <1>10, <1>11, <1>12, <1>13, <1>14, <1>15, <1>16, <1>17

\* A stutter keeps the invariant.
LEMMA StutterStep == ASSUME IInv, UNCHANGED creationVars PROVE IInv'
<1> USE DEF creationVars, IInv
<1>1. CreationTypeOK' /\ SavedIsOne' /\ CreatesOnce' /\ LostIsOver'
  BY DEF CreationTypeOK, SavedIsOne, CreatesOnce, LostIsOver
<1>2. AttemptIsWhole' /\ OneAtATime'
  BY DEF AttemptIsWhole, OneAtATime, Running
<1>3. SavedIsUndone' /\ PoolHasOneSubmit' /\ VisitIsKnown' /\ CreatesNew' /\ BoundIsKnown'
  BY DEF SavedIsUndone, PoolHasOneSubmit, VisitIsKnown, CreatesNew, BoundIsKnown
<1> QED
  BY <1>1, <1>2, <1>3

-----------------------------------------------------------------------------
\* What is saved, lost, bound and under way agrees in every reachable state.
THEOREM Inductive == CreationSpec => []IInv
<1>1. IInv /\ [CreationNext]_creationVars => IInv'
  BY OpenStep, LeaveStep, SubmitStep, CreateStep, CreatedStep, CreateFailsStep, BindStep,
     BindFailsStep, SucceedStep, StutterStep DEF CreationNext
<1> QED
  BY InitStep, <1>1, PTL DEF CreationSpec

\* The variables of a creation keep their types.
THEOREM TypeCorrect == CreationSpec => []CreationTypeOK
<1>1. IInv => CreationTypeOK
  BY DEF IInv
<1> QED
  BY Inductive, <1>1, PTL

\* For any number of submits, a retry in the same visit creates again only what was lost.
THEOREM CreatesOnceHolds == CreationSpec => []CreatesOnce
<1>1. IInv => CreatesOnce
  BY DEF IInv
<1> QED
  BY Inductive, <1>1, PTL

\* A submit reported as a success has its pool, bound to the video chosen and no other but
\* those reported as failures.
THEOREM SucceedsAsAskedHolds == CreationSpec => []SucceedsAsAsked
<1>1. ASSUME IInv PROVE SucceedsAsAsked
  <2> SUFFICES ASSUME NEW a \in Attempts, attempt[a].state = "done"
               PROVE \E p \in pools :
                       /\ attempt[a].pool = {p} /\ attempt[a].body = {p.body}
                       /\ \A v \in attempt[a].target.video : <<p, v>> \in bound
                       /\ \A v \in Videos :
                            <<p, v>> \in bound => v \in attempt[a].target.video \/ <<p, v>> \in doubted
    BY DEF SucceedsAsAsked
  <2>1. PICK p \in pools : attempt[a].pool = {p} /\ attempt[a].body = {p.body}
    BY <1>1 DEF IInv, AttemptIsWhole
  <2>2. \A v \in attempt[a].target.video : <<p, v>> \in bound
    BY <1>1, <2>1 DEF IInv, AttemptIsWhole
  <2>3. ASSUME NEW v \in Videos, <<p, v>> \in bound, <<p, v>> \notin doubted
        PROVE  v \in attempt[a].target.video
    <3>1. PICK b \in Attempts : /\ attempt[b].state \in {"bound", "done"}
                                /\ attempt[b].pool = {p} /\ v \in attempt[b].target.video
      BY <1>1, <2>3 DEF IInv, BoundIsKnown
    <3>2. b = a
      BY <1>1, <2>1, <3>1 DEF IInv, PoolHasOneSubmit
    <3> QED
      BY <3>1, <3>2
  <2> QED
    BY <2>1, <2>2, <2>3
<1> QED
  BY Inductive, <1>1, PTL
=============================================================================
