--------------------------- MODULE RefreshContract -----------------------------
(***************************************************************************)
(* What the readers rely on of the passive refreshes, without goroutines,  *)
(* channels or a wait group: each key is idle, admitted or running, the    *)
(* two limits hold, nothing starts once the service stops, and the stop is *)
(* complete only when every key is idle again.                             *)
(***************************************************************************)
EXTENDS Integers, FiniteSets

CONSTANTS Keys, Slots, Capacity

VARIABLES
    job,   \* the state of each key
    stop   \* "serving", "stopping" (no admission any more) or "stopped"

contractVars == <<job, stop>>

Busy == {k \in Keys : job[k] # "idle"}
Active == {k \in Keys : job[k] = "running"}

Init ==
    /\ job = [k \in Keys |-> "idle"]
    /\ stop = "serving"

Admit(k) ==
    /\ stop = "serving"
    /\ job[k] = "idle"
    /\ Cardinality(Busy) < Capacity
    /\ job' = [job EXCEPT ![k] = "admitted"]
    /\ UNCHANGED stop

Start(k) ==
    /\ stop = "serving"
    /\ job[k] = "admitted"
    /\ Cardinality(Active) < Slots
    /\ job' = [job EXCEPT ![k] = "running"]
    /\ UNCHANGED stop

\* A running key goes back to admitted while its goroutine cleans up.
Finish(k) ==
    /\ job[k] = "running"
    /\ job' = [job EXCEPT ![k] = "admitted"]
    /\ UNCHANGED stop

Free(k) ==
    /\ job[k] = "admitted"
    /\ job' = [job EXCEPT ![k] = "idle"]
    /\ UNCHANGED stop

Stop ==
    /\ stop = "serving"
    /\ stop' = "stopping"
    /\ UNCHANGED job

Stopped ==
    /\ stop = "stopping"
    /\ Busy = {}
    /\ stop' = "stopped"
    /\ UNCHANGED job

Next ==
    \/ \E k \in Keys : Admit(k) \/ Start(k) \/ Finish(k) \/ Free(k)
    \/ Stop
    \/ Stopped

Spec == Init /\ [][Next]_contractVars

================================================================================
