------------------------------ MODULE FreshReads -------------------------------
(***************************************************************************)
(* What the danmaku caches promise to a read, without revisions or         *)
(* entries.  The content of a namespace is the number of changes committed *)
(* to it.  A read that begins after a change was completed (committed and  *)
(* invalidated) returns a content that includes it; different namespaces   *)
(* of one answer may be of different moments of the read.                  *)
(***************************************************************************)
EXTENDS Integers

CONSTANTS Namespaces, Readers

VARIABLES
    stored,     \* changes committed, per namespace
    completed,  \* the newest change known to be invalidated, per namespace
    phase,      \* "idle", "reading" or "answered"
    scope,      \* the namespaces a read answers for
    floor,      \* completed, when the read began
    got         \* the content a read returns

readVars == <<stored, completed, phase, scope, floor, got>>

Init ==
    /\ stored = [n \in Namespaces |-> 0]
    /\ completed = [n \in Namespaces |-> 0]
    /\ phase = [r \in Readers |-> "idle"]
    /\ scope = [r \in Readers |-> {}]
    /\ floor = [r \in Readers |-> [n \in Namespaces |-> 0]]
    /\ got = [r \in Readers |-> [n \in Namespaces |-> 0]]

Change(n) ==
    /\ stored' = [stored EXCEPT ![n] = @ + 1]
    /\ UNCHANGED <<completed, phase, scope, floor, got>>

Complete(n) ==
    /\ \E v \in completed[n] .. stored[n] : completed' = [completed EXCEPT ![n] = v]
    /\ UNCHANGED <<stored, phase, scope, floor, got>>

Begin(r) ==
    /\ phase[r] = "idle"
    /\ phase' = [phase EXCEPT ![r] = "reading"]
    /\ \E s \in SUBSET Namespaces : scope' = [scope EXCEPT ![r] = s]
    /\ floor' = [floor EXCEPT ![r] = completed]
    /\ UNCHANGED <<stored, completed, got>>

Answer(r) ==
    /\ phase[r] = "reading"
    /\ phase' = [phase EXCEPT ![r] = "answered"]
    /\ \A n \in scope[r] : got'[r][n] \in floor[r][n] .. stored[n]
    /\ \A q \in Readers \ {r} : got'[q] = got[q]
    /\ UNCHANGED <<stored, completed, scope, floor>>

\* The read is over, answered or failed.
Forget(r) ==
    /\ phase[r] # "idle"
    /\ phase' = [phase EXCEPT ![r] = "idle"]
    /\ scope' = [scope EXCEPT ![r] = {}]
    /\ floor' = [floor EXCEPT ![r] = [n \in Namespaces |-> 0]]
    /\ got' = [got EXCEPT ![r] = [n \in Namespaces |-> 0]]
    /\ UNCHANGED <<stored, completed>>

Next ==
    \/ \E n \in Namespaces : Change(n) \/ Complete(n)
    \/ \E r \in Readers : Begin(r) \/ Answer(r) \/ Forget(r)

Spec == Init /\ [][Next]_readVars

================================================================================
