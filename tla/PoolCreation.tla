----------------------------- MODULE PoolCreation ------------------------------
(***************************************************************************)
(* Creating a pool of danmaku and binding it to a video, as the dialogs of *)
(* the administration console do it: lib/pool-creation.ts keeps what was   *)
(* created until its optional binding has succeeded, so that submitting    *)
(* the same again only binds; hooks/use-pool-video-binding.ts forgets it   *)
(* when the dialog closes.                                                 *)
(*                                                                         *)
(* Either call can be answered, refused or lost, before or after the       *)
(* server did it.  The dialog cannot be closed while a submit is pending,  *)
(* but its page can be left: the submit goes on then, without a dialog.    *)
(***************************************************************************)
EXTENDS Naturals

CONSTANTS
  MaxAttempts,   \* bound on the submits
  Bodies,        \* what a pool can be created from
  Videos,        \* videos to bind it to
  MaxVisits      \* bound on the openings of the dialog

Attempts == 1..MaxAttempts

\* The chosen association: none, a video, or what is no video or has no number as offset.
Unbound == [video |-> {}, valid |-> TRUE]
Invalid == [video |-> {}, valid |-> FALSE]
Targets == {Unbound, Invalid} \cup {[video |-> {v}, valid |-> TRUE] : v \in Videos}

VARIABLES
  visit,     \* number of openings of the dialog so far
  open,      \* the dialog is open
  saved,     \* the workflow's pool: created in this visit, not bound yet
  attempt,   \* the submits
  pools,     \* the server's pools made by submits: the submit that made each, its visit and body
  bound,     \* the server's bindings: <<pool's submit, video>>
  lost,      \* history: pools the workflow does not know of: not reported, or replaced by another
  doubted    \* history: bindings that were done but not reported

creationVars == <<visit, open, saved, attempt, pools, bound, lost, doubted>>

Nothing      == {}
NoAttempt    == [state |-> "none", visit |-> 0, body |-> Nothing, target |-> Unbound, pool |-> Nothing]
CreatedPools == [by : Attempts, visit : Nat, body : Bodies]
States       == {"none", "creating", "created", "binding", "bound", "done", "failed"}

CreationTypeOK ==
  /\ visit \in Nat
  /\ open \in BOOLEAN
  /\ saved \subseteq CreatedPools
  /\ attempt \in [Attempts -> [state : States, visit : Nat, body : SUBSET Bodies,
                              target : Targets, pool : SUBSET CreatedPools]]
  /\ pools \subseteq CreatedPools
  /\ bound \subseteq CreatedPools \X Videos
  /\ lost \subseteq CreatedPools
  /\ doubted \subseteq CreatedPools \X Videos

CreationInit ==
  /\ visit = 0
  /\ open = FALSE
  /\ saved = Nothing
  /\ attempt = [a \in Attempts |-> NoAttempt]
  /\ pools = {}
  /\ bound = {}
  /\ lost = {}
  /\ doubted = {}

Running(a) == attempt[a].state \in {"creating", "created", "binding", "bound"}
\* The component that submitted is still there: it has one workflow and one dialog.
Here(a) == open /\ attempt[a].visit = visit
Busy == \E a \in Attempts : Here(a) /\ Running(a)

Become(a, state) == attempt' = [attempt EXCEPT ![a].state = state]

-----------------------------------------------------------------------------
(* The dialog. *)

OpenDialog ==
  /\ ~open /\ visit < MaxVisits
  /\ open' = TRUE /\ visit' = visit + 1
  /\ UNCHANGED <<saved, attempt, pools, bound, lost, doubted>>

\* Closed by its buttons, only between submits, or with its page, at any time: the
\* workflow is reset, or gone.
LeaveDialog ==
  /\ open /\ open' = FALSE
  /\ saved' = Nothing
  /\ UNCHANGED <<visit, attempt, pools, bound, lost, doubted>>

-----------------------------------------------------------------------------
(* A submit: poolCreationWorkflow.run. *)

Mut_Submit(a, body, target) ==
  /\ open /\ ~Busy
  /\ \A b \in Attempts : attempt[b] = NoAttempt <=> b >= a
  /\ attempt' = [attempt EXCEPT ![a] =
       [state  |-> IF ~target.valid THEN "failed"
                   ELSE IF saved = {} THEN "creating"
                   ELSE IF target = Unbound THEN "bound" ELSE "binding",
        visit  |-> visit, body |-> {body}, target |-> target,
        pool   |-> IF target.valid THEN saved ELSE Nothing]]
  /\ UNCHANGED <<visit, open, saved, pools, bound, lost, doubted>>

\* With the association that is chosen: an invalid one ends it, a pool created from the
\* same body is used again.
Submit(a, body, target) ==
  /\ open /\ ~Busy
  /\ \A b \in Attempts : attempt[b] = NoAttempt <=> b >= a
  /\ LET again == {p \in saved : p.body = body}
     IN attempt' = [attempt EXCEPT ![a] =
          [state  |-> IF ~target.valid THEN "failed"
                      ELSE IF again = {} THEN "creating"
                      ELSE IF target = Unbound THEN "bound" ELSE "binding",
           visit  |-> visit, body |-> {body}, target |-> target,
           pool   |-> IF target.valid THEN again ELSE Nothing]]
  /\ UNCHANGED <<visit, open, saved, pools, bound, lost, doubted>>

\* The server creates the pool.
CreatePool(a) ==
  /\ attempt[a].state = "creating"
  /\ \E b \in attempt[a].body :
       LET p == [by |-> a, visit |-> attempt[a].visit, body |-> b]
       IN /\ pools' = pools \cup {p}
          /\ attempt' = [attempt EXCEPT ![a] = [@ EXCEPT !.state = "created", !.pool = {p}]]
  /\ UNCHANGED <<visit, open, saved, bound, lost, doubted>>

\* The browser is told: the workflow saves it, in the place of one of another body, and
\* goes on to bind it.
Created(a) ==
  /\ attempt[a].state = "created"
  /\ IF Here(a) THEN saved' = attempt[a].pool /\ lost' = lost \cup saved
                ELSE UNCHANGED <<saved, lost>>
  /\ Become(a, IF attempt[a].target = Unbound THEN "bound" ELSE "binding")
  /\ UNCHANGED <<visit, open, pools, bound, doubted>>

\* The creation is refused, or its answer is lost.
CreateFails(a) ==
  /\ attempt[a].state \in {"creating", "created"}
  /\ lost' = lost \cup attempt[a].pool
  /\ Become(a, "failed")
  /\ UNCHANGED <<visit, open, saved, pools, bound, doubted>>

\* The server binds the pool.
BindPool(a) ==
  /\ attempt[a].state = "binding"
  /\ bound' = bound \cup (attempt[a].pool \X attempt[a].target.video)
  /\ Become(a, "bound")
  /\ UNCHANGED <<visit, open, saved, pools, lost, doubted>>

Mut_BindFails(a) ==
  /\ attempt[a].state \in {"binding", "bound"} /\ attempt[a].target # Unbound
  /\ doubted' = IF attempt[a].state = "bound"
                THEN doubted \cup (attempt[a].pool \X attempt[a].target.video) ELSE doubted
  /\ saved' = IF Here(a) THEN Nothing ELSE saved
  /\ Become(a, "failed")
  /\ UNCHANGED <<visit, open, pools, bound, lost>>

\* The binding is refused, or its answer is lost: what was created is kept.
BindFails(a) ==
  /\ attempt[a].state \in {"binding", "bound"} /\ attempt[a].target # Unbound
  /\ doubted' = IF attempt[a].state = "bound"
                THEN doubted \cup (attempt[a].pool \X attempt[a].target.video) ELSE doubted
  /\ Become(a, "failed")
  /\ UNCHANGED <<visit, open, saved, pools, bound, lost>>

\* The browser is told of the binding, or there was none to make: saved is cleared and the
\* dialog closes, if it is still there.
Succeed(a) ==
  /\ attempt[a].state = "bound"
  /\ IF Here(a) THEN saved' = Nothing /\ open' = FALSE ELSE UNCHANGED <<saved, open>>
  /\ Become(a, "done")
  /\ UNCHANGED <<visit, pools, bound, lost, doubted>>

CreationNext ==
  \/ OpenDialog \/ LeaveDialog
  \/ \E a \in Attempts :
       \/ \E body \in Bodies, target \in Targets : Submit(a, body, target)
       \/ CreatePool(a) \/ Created(a) \/ CreateFails(a) \/ BindPool(a) \/ BindFails(a) \/ Succeed(a)

CreationSpec == CreationInit /\ [][CreationNext]_creationVars

-----------------------------------------------------------------------------
(* Properties. *)

\* "A retry must not create a second external-import pool or fetch upstream danmaku
\* again": in one visit, the same body creates another pool only if the workflow lost one.
CreatesOnce ==
  \A p, q \in pools : p.visit = q.visit /\ p.body = q.body => p = q \/ p \in lost \/ q \in lost

\* A submit that succeeds has its pool, made from what was submitted, and bound to the
\* video that was chosen and to no other, but for bindings reported as failures before.
SucceedsAsAsked ==
  \A a \in Attempts : attempt[a].state = "done" =>
    \E p \in pools :
      /\ attempt[a].pool = {p} /\ attempt[a].body = {p.body}
      /\ \A v \in attempt[a].target.video : <<p, v>> \in bound
      /\ \A v \in Videos :
           <<p, v>> \in bound => v \in attempt[a].target.video \/ <<p, v>> \in doubted
=============================================================================
