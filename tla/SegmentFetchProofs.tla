--------------------------- MODULE SegmentFetchProofs ---------------------------
(***************************************************************************)
(* The segment fetchers for any number of goroutines and segments.         *)
(*                                                                         *)
(* A segment that has been taken is with one worker until its fate is      *)
(* known, and what became of it cannot be lost: it is among the data, or   *)
(* the error is on its way to first, or first is set (Fates, Causes).      *)
(* When every goroutine has gone nothing is on its way any more.           *)
(*                                                                         *)
(* The total is the sum of the sizes of what was loaded (Sized).  A sum is *)
(* counted as a set of items: the fold that defines it is the cardinality  *)
(* of that set, which the smallest counterexample would contradict.        *)
(*                                                                         *)
(* That a fetch returns is liveness.  What it rests on is safety: a number *)
(* that every step lowers (Left), and a step that somebody can take.       *)
(***************************************************************************)
EXTENDS SegmentFetch, FiniteSetTheorems, WellFoundedInduction, TLAPS

Busy(w) == worker[w] \in {"check", "load", "keep", "fail"}

\* A segment is with one worker at a time.
Taken ==
    /\ \A w \in Workers : Busy(w) => job[w] \in Segments /\ job[w] < next
    /\ \A u, w \in Workers : (Busy(u) /\ Busy(w) /\ u # w) => job[u] # job[w]

\* How far the calling goroutine is.
Phases ==
    /\ pc = "start" => next = 1 /\ \A w \in Workers : worker[w] = "off"
    /\ pc \in {"start", "send"} => ~ closed
    /\ pc = "wait" => next = count + 1 \/ (kind = "tolerant" /\ parent)
    /\ pc # "done" => answer = "none"
    /\ pc = "done" => AllGone
    /\ kind = "tolerant" => first = "none" /\ ~ stopped /\ total = 0
    /\ stopped => first # "none"

\* What is known of a segment, and of the segment a worker has.
FateOf(n) ==
    /\ n >= next => fate[n] = "none"
    /\ fate[n] = "none" /\ n < next =>
         \E w \in Workers : worker[w] \in {"check", "load"} /\ job[w] = n
    /\ fate[n] = "skipped" => kind = "strict" /\ (parent \/ first # "none")
    /\ fate[n] = "context" => parent \/ kind = "strict"
    /\ fate[n] \in {"upstream", "context"} =>
         \/ kind = "tolerant"
         \/ first # "none"
         \/ \E w \in Workers : worker[w] = "fail" /\ job[w] = n
    /\ fate[n] = "loaded" =>
         \/ n \in data
         \/ first # "none"
         \/ \E w \in Workers :
              /\ worker[w] = "keep" \/ (worker[w] = "fail" /\ kind = "strict")
              /\ job[w] = n
    /\ n \in data => fate[n] = "loaded"

FateWith(w) ==
    /\ worker[w] = "keep" => fate[job[w]] = "loaded"
    /\ worker[w] \in {"check", "load"} => fate[job[w]] = "none"
    /\ worker[w] = "check" => kind = "strict"
    /\ worker[w] = "fail" =>
         fate[job[w]] \in {"upstream", "context"} \/ (fate[job[w]] = "loaded" /\ kind = "strict")

Fates ==
    /\ \A n \in Segments : FateOf(n)
    /\ \A w \in Workers : FateWith(w)

\* What stands behind an error.
Causes ==
    /\ \A w \in Workers : worker[w] = "fail" =>
         /\ error[w] # "none"
         /\ error[w] = "upstream" => fate[job[w]] = "upstream"
         /\ error[w] = "context" => parent \/ first # "none"
    /\ first = "upstream" => \E n \in Segments : fate[n] = "upstream"
    /\ first = "context" => parent

IInv ==
    /\ TypeOK
    /\ Taken
    /\ Phases
    /\ Fates
    /\ Causes
    /\ StrictIsComplete
    /\ TolerantKeepsLoaded
    /\ CauseReported

\* A call starts with no segment taken and nothing on its way.
LEMMA InitIInv == Init => IInv
<1> SUFFICES ASSUME Init PROVE IInv
  OBVIOUS
<1>1. count \in Nat
  BY SegmentAssumption DEF Init
<1>2. TypeOK
  <2>1. 0 \in 0 .. count /\ 1 \in 1 .. count + 1 /\ 0 \in Nat
    BY <1>1
  <2> QED BY <2>1 DEF Init, TypeOK, Errors
<1>3. Taken /\ Phases /\ Causes
  BY DEF Init, Taken, Busy, Phases, Causes
<1>4. Fates
  BY <1>1 DEF Init, Fates, FateOf, FateWith, Segments
<1>5. StrictIsComplete /\ TolerantKeepsLoaded /\ CauseReported
  BY DEF Init, StrictIsComplete, TolerantKeepsLoaded, CauseReported
<1> QED BY <1>2, <1>3, <1>4, <1>5 DEF IInv

\* Types.
LEMMA TypeStep == IInv /\ [Next]_vars => TypeOK'
<1> SUFFICES ASSUME IInv, [Next]_vars PROVE TypeOK'
  OBVIOUS
<1> USE SegmentAssumption DEF IInv, TypeOK, call, Busy, Workers, Segments
<1>1. ASSUME Refuse PROVE TypeOK'
BY <1>1 DEF Refuse, Return, Kinds, Errors, Phases, Taken
<1>2. ASSUME NothingToDo PROVE TypeOK'
BY <1>2 DEF NothingToDo, Return, Kinds, Errors, Phases, Taken
<1>3. ASSUME Start PROVE TypeOK'
BY <1>3 DEF Start, Kinds, Errors, Phases, Taken
<1>4. ASSUME Skip PROVE TypeOK'
BY <1>4 DEF Skip, Cancelled, Kinds, Errors, Phases, Taken
<1>5. ASSUME Close PROVE TypeOK'
BY <1>5 DEF Close, Cancelled, Kinds, Errors, Phases, Taken
<1>6. ASSUME Judge PROVE TypeOK'
BY <1>6 DEF Judge, Return, Cancelled, AllGone, Kinds, Errors, Phases, Taken
<1>7. ASSUME NEW w \in Workers, Send(w) PROVE TypeOK'
BY <1>7 DEF Send, Kinds, Errors, Phases, Taken
<1>8. ASSUME NEW w \in Workers, Exit(w) PROVE TypeOK'
BY <1>8 DEF Exit, Go, Kinds, Errors, Phases, Taken
<1>9. ASSUME NEW w \in Workers, Check(w) PROVE TypeOK'
BY <1>9 DEF Check, Go, Cancelled, Kinds, Errors, Phases, Taken
<1>10. ASSUME NEW w \in Workers, Load(w) PROVE TypeOK'
  <2>1. total' \in Nat
    <3>1. size[job[w]] \in Sizes
      BY <1>10 DEF Load, Taken
    <3>2. size[job[w]] \in Nat /\ total \in Nat
      BY <3>1
    <3>3. total' = total + size[job[w]] \/ total' = total
      BY <1>10 DEF Load
    <3> QED BY <3>2, <3>3
  <2> QED BY SMTT(30), <1>10, <2>1 DEF Load, Go, Errors, Taken
<1>11. ASSUME NEW w \in Workers, LoadFails(w) PROVE TypeOK'
BY <1>11 DEF LoadFails, Go, Cancelled, Kinds, Errors, Phases, Taken
<1>12. ASSUME NEW w \in Workers, Keep(w) PROVE TypeOK'
BY <1>12 DEF Keep, Go, Kinds, Errors, Phases, Taken
<1>13. ASSUME NEW w \in Workers, Fail(w) PROVE TypeOK'
BY <1>13 DEF Fail, Go, Kinds, Errors, Phases, Taken
<1>14. ASSUME CancelParent PROVE TypeOK'
BY <1>14 DEF CancelParent, Kinds, Errors, Phases, Taken
<1>15. CASE UNCHANGED vars
BY <1>15 DEF vars, Kinds, Errors, Phases, Taken, AllGone
<1> QED BY <1>1, <1>2, <1>3, <1>4, <1>5, <1>6, <1>7, <1>8, <1>9, <1>10, <1>11, <1>12, <1>13,
       <1>14, <1>15 DEF Next

\* A segment is offered once and belongs to the worker that received it.
LEMMA TakenStep == IInv /\ [Next]_vars => Taken'
<1> SUFFICES ASSUME IInv, [Next]_vars PROVE Taken'
  OBVIOUS
<1> USE SegmentAssumption DEF IInv, TypeOK, call, Busy, Workers, Segments, Phases
<1>1. ASSUME Refuse PROVE Taken'
BY <1>1 DEF Refuse, Return, Taken
<1>2. ASSUME NothingToDo PROVE Taken'
BY <1>2 DEF NothingToDo, Return, Taken
<1>3. ASSUME Start PROVE Taken'
BY <1>3 DEF Start, Taken
<1>4. ASSUME Skip PROVE Taken'
BY <1>4 DEF Skip, Cancelled, Taken
<1>5. ASSUME Close PROVE Taken'
BY <1>5 DEF Close, Cancelled, Taken
<1>6. ASSUME Judge PROVE Taken'
BY <1>6 DEF Judge, Return, Cancelled, AllGone, Taken
<1>7. ASSUME NEW w \in Workers, Send(w) PROVE Taken'
BY <1>7 DEF Send, Taken
<1>8. ASSUME NEW w \in Workers, Exit(w) PROVE Taken'
BY <1>8 DEF Exit, Go, Taken
<1>9. ASSUME NEW w \in Workers, Check(w) PROVE Taken'
  <2>1. \A v \in Workers : Busy(v)' => Busy(v)
    BY <1>9 DEF Check, Go
  <2> QED BY <1>9, <2>1 DEF Check, Taken
<1>10. ASSUME NEW w \in Workers, Load(w) PROVE Taken'
  <2>1. \A v \in Workers : Busy(v)' => Busy(v)
    BY <1>10 DEF Load, Go
  <2> QED BY <1>10, <2>1 DEF Load, Taken
<1>11. ASSUME NEW w \in Workers, LoadFails(w) PROVE Taken'
BY <1>11 DEF LoadFails, Go, Cancelled, Taken
<1>12. ASSUME NEW w \in Workers, Keep(w) PROVE Taken'
BY <1>12 DEF Keep, Go, Taken
<1>13. ASSUME NEW w \in Workers, Fail(w) PROVE Taken'
BY <1>13 DEF Fail, Go, Taken
<1>14. ASSUME CancelParent PROVE Taken'
BY <1>14 DEF CancelParent, Taken
<1>15. CASE UNCHANGED vars
BY <1>15 DEF vars, Taken, AllGone
<1> QED BY <1>1, <1>2, <1>3, <1>4, <1>5, <1>6, <1>7, <1>8, <1>9, <1>10, <1>11, <1>12, <1>13,
       <1>14, <1>15 DEF Next

\* Only the calling goroutine moves on; it returns when the workers have gone.
LEMMA PhasesStep == IInv /\ [Next]_vars => Phases'
<1> SUFFICES ASSUME IInv, [Next]_vars PROVE Phases'
  OBVIOUS
<1> USE SegmentAssumption DEF IInv, TypeOK, call, Busy, Workers, Segments
<1>1. ASSUME Refuse PROVE Phases'
BY <1>1 DEF Refuse, Return, Phases, AllGone
<1>2. ASSUME NothingToDo PROVE Phases'
BY <1>2 DEF NothingToDo, Return, Phases, AllGone
<1>3. ASSUME Start PROVE Phases'
BY <1>3 DEF Start, Phases, AllGone
<1>4. ASSUME Skip PROVE Phases'
BY <1>4 DEF Skip, Cancelled, Phases, AllGone
<1>5. ASSUME Close PROVE Phases'
BY <1>5 DEF Close, Cancelled, Phases, AllGone
<1>6. ASSUME Judge PROVE Phases'
BY <1>6 DEF Judge, Return, Cancelled, AllGone, Phases, AllGone
<1>7. ASSUME NEW w \in Workers, Send(w) PROVE Phases'
BY <1>7 DEF Send, Phases, AllGone
<1>8. ASSUME NEW w \in Workers, Exit(w) PROVE Phases'
BY <1>8 DEF Exit, Go, Phases, AllGone
<1>9. ASSUME NEW w \in Workers, Check(w) PROVE Phases'
BY <1>9 DEF Check, Go, Cancelled, Phases, AllGone
<1>10. ASSUME NEW w \in Workers, Load(w) PROVE Phases'
BY <1>10 DEF Load, Go, Phases, AllGone
<1>11. ASSUME NEW w \in Workers, LoadFails(w) PROVE Phases'
BY <1>11 DEF LoadFails, Go, Cancelled, Phases, AllGone
<1>12. ASSUME NEW w \in Workers, Keep(w) PROVE Phases'
BY <1>12 DEF Keep, Go, Phases, AllGone
<1>13. ASSUME NEW w \in Workers, Fail(w) PROVE Phases'
  BY <1>13 DEF Fail, Go, Phases, AllGone, Causes
<1>14. ASSUME CancelParent PROVE Phases'
BY <1>14 DEF CancelParent, Phases, AllGone
<1>15. CASE UNCHANGED vars
BY <1>15 DEF vars, Phases, AllGone
<1> QED BY <1>1, <1>2, <1>3, <1>4, <1>5, <1>6, <1>7, <1>8, <1>9, <1>10, <1>11, <1>12, <1>13,
       <1>14, <1>15 DEF Next

\* A step of worker w leaves a segment alone that w does not have.
LEMMA Elsewhere ==
    ASSUME NEW w \in Workers, NEW n \in Segments, FateOf(n),
           Busy(w) => n # job[w],
           \A v \in Workers : v # w => worker'[v] = worker[v] /\ job'[v] = job[v],
           n >= next' => n >= next, n < next' => n < next,
           kind' = kind, fate'[n] = fate[n], n \in data' <=> n \in data,
           parent => parent', first # "none" => first' # "none"
    PROVE  FateOf(n)'
BY DEF FateOf, Busy

\* What its worker may make of a segment.
LEMMA Here ==
    ASSUME NEW w \in Workers, NEW n \in Segments, job'[w] = n, n < next', ~ n >= next',
           \/ fate'[n] = "none" /\ worker'[w] \in {"check", "load"} /\ n \notin data'
           \/ fate'[n] = "skipped" /\ kind' = "strict" /\ (parent' \/ first' # "none") /\ n \notin data'
           \/ /\ fate'[n] = "loaded"
              /\ n \in data' \/ worker'[w] = "keep" \/ (worker'[w] = "fail" /\ kind' = "strict")
           \/ /\ fate'[n] = "upstream" \/ (fate'[n] = "context" /\ (parent' \/ kind' = "strict"))
              /\ worker'[w] = "fail" /\ n \notin data'
    PROVE  FateOf(n)'
BY DEF FateOf

\* Nothing that becomes of a segment is forgotten.
LEMMA FatesStep == IInv /\ [Next]_vars => Fates'
<1> SUFFICES ASSUME IInv, [Next]_vars PROVE Fates'
  OBVIOUS
<1> USE SegmentAssumption DEF IInv, TypeOK, call, Busy, Segments, Phases, Taken
<1>1. ASSUME Refuse PROVE Fates'
BY <1>1 DEF Refuse, Return, Fates, FateOf, FateWith
<1>2. ASSUME NothingToDo PROVE Fates'
BY <1>2 DEF NothingToDo, Return, Fates, FateOf, FateWith
<1>3. ASSUME Start PROVE Fates'
BY <1>3 DEF Start, Fates, FateOf, FateWith
<1>4. ASSUME Skip PROVE Fates'
  <2>1. ASSUME NEW n \in Segments PROVE FateOf(n)'
    BY <1>4, <2>1 DEF Skip, Cancelled, Fates, FateOf
  <2>2. ASSUME NEW v \in Workers PROVE FateWith(v)'
    BY <1>4, <2>2 DEF Skip, Fates, FateWith
  <2> QED BY <1>4, <2>1, <2>2 DEF Skip, Fates
<1>5. ASSUME Close PROVE Fates'
BY <1>5 DEF Close, Cancelled, Fates, FateOf, FateWith
<1>6. ASSUME Judge PROVE Fates'
BY <1>6 DEF Judge, Return, Cancelled, AllGone, Fates, FateOf, FateWith
<1>7. ASSUME NEW w \in Workers, Send(w) PROVE Fates'
  <2>1. \A v \in Workers : v # w => worker'[v] = worker[v] /\ job'[v] = job[v]
    BY <1>7 DEF Send
  <2>2. worker[w] = "receive" /\ worker'[w] \in {"check", "load"} /\ job'[w] = next
    BY <1>7 DEF Send
  <2>3. /\ count' = count /\ kind' = kind /\ parent' = parent /\ first' = first
        /\ data' = data /\ fate' = fate /\ next' = next + 1 /\ next \in Segments
    BY <1>7 DEF Send
  <2>4. ASSUME NEW n \in Segments, n # next PROVE FateOf(n)'
    <3>1. (n >= next + 1 => n >= next) /\ (n < next + 1 => n < next)
      BY <2>4
    <3> QED BY <2>1, <2>2, <2>3, <3>1, Elsewhere DEF Fates
  <2>5. fate[next] = "none" /\ next \notin data
    BY <2>3 DEF Fates, FateOf
  <2>6. ASSUME NEW n \in Segments, n = next PROVE FateOf(n)'
    <3>1. ~ next >= next + 1 /\ next < next + 1
      OBVIOUS
    <3> QED BY <2>2, <2>3, <2>5, <2>6, <3>1, Here
  <2>7. ASSUME NEW v \in Workers PROVE FateWith(v)'
    <3>1. CASE v = w
      <4>1. worker'[w] = "check" => kind = "strict"
        BY <1>7 DEF Send
      <4> QED BY <2>2, <2>3, <2>5, <3>1, <4>1 DEF FateWith
    <3>2. CASE v # w
      BY <2>1, <2>3, <3>2 DEF Fates, FateWith
    <3> QED BY <3>1, <3>2
  <2> QED BY <2>3, <2>4, <2>6, <2>7 DEF Fates
<1>8. ASSUME NEW w \in Workers, Exit(w) PROVE Fates'
  <2>1. ASSUME NEW n \in Segments PROVE FateOf(n)'
    BY <1>8, <2>1 DEF Exit, Go, Fates, FateOf
  <2>2. ASSUME NEW v \in Workers PROVE FateWith(v)'
    BY <1>8, <2>2 DEF Exit, Go, Fates, FateWith
  <2> QED BY <1>8, <2>1, <2>2 DEF Exit, Fates
<1>9. ASSUME NEW w \in Workers, Check(w) PROVE Fates'
  <2>1. /\ job' = job /\ count' = count /\ kind' = kind /\ next' = next
        /\ \A v \in Workers : v # w => worker'[v] = worker[v]
        /\ \A n \in Segments : n # job[w] => fate'[n] = fate[n] /\ (n \in data' <=> n \in data)
        /\ parent => parent'
        /\ first # "none" => first' # "none"
    BY <1>9 DEF Check, Go, Cancelled
  <2>2. /\ job[w] \in Segments /\ job[w] < next /\ ~ job[w] >= next
        /\ FateOf(job[w]) /\ FateWith(w)
    BY <1>9 DEF Check, Go, Cancelled, Fates
  <2>3. \A v \in Workers : v # w /\ Busy(v) => job[v] # job[w]
    BY <1>9 DEF Check, Go, Cancelled
  <2>4. /\ job[w] \notin data'
        /\ \/ fate'[job[w]] = "none" /\ worker'[w] = "load"
           \/ /\ fate'[job[w]] = "skipped" /\ worker'[w] = "receive"
              /\ kind = "strict" /\ (parent' \/ first' # "none")
    BY <1>9, <2>2 DEF Check, Go, Cancelled, FateOf, FateWith
  <2>5. ASSUME NEW n \in Segments, n # job[w] PROVE FateOf(n)'
    BY <2>1, <2>5, Elsewhere DEF Fates
  <2>6. FateOf(job[w])'
    BY <2>1, <2>2, <2>4, Here
  <2>7. ASSUME NEW v \in Workers PROVE FateWith(v)'
    <3>1. CASE v = w
      BY <2>1, <2>4, <3>1 DEF FateWith
    <3>2. CASE v # w
      <4>1. FateWith(v)
        BY DEF Fates
      <4>2. worker[v] \in {"keep", "check", "load", "fail"} => fate'[job[v]] = fate[job[v]]
        BY <2>1, <2>3, <3>2
      <4> QED BY <2>1, <3>2, <4>1, <4>2 DEF FateWith
    <3> QED BY <3>1, <3>2
  <2> QED BY <2>1, <2>5, <2>6, <2>7 DEF Fates
<1>10. ASSUME NEW w \in Workers, Load(w) PROVE Fates'
  <2>1. /\ job' = job /\ count' = count /\ kind' = kind /\ next' = next
        /\ \A v \in Workers : v # w => worker'[v] = worker[v]
        /\ \A n \in Segments : n # job[w] => fate'[n] = fate[n] /\ (n \in data' <=> n \in data)
        /\ parent => parent'
        /\ first # "none" => first' # "none"
    BY <1>10 DEF Load, Go
  <2>2. /\ job[w] \in Segments /\ job[w] < next /\ ~ job[w] >= next
        /\ FateOf(job[w]) /\ FateWith(w)
    BY <1>10 DEF Load, Go, Fates
  <2>3. \A v \in Workers : v # w /\ Busy(v) => job[v] # job[w]
    BY <1>10 DEF Load, Go
  <2>4. fate'[job[w]] = "loaded" /\ (worker'[w] = "keep" \/ (worker'[w] = "fail" /\ kind = "strict"))
    <3>1. fate'[job[w]] = "loaded" /\ worker'[w] = IF total' > SizeLimit THEN "fail" ELSE "keep"
      BY <1>10, <2>2 DEF Load, Go
    <3>2. kind = "tolerant" => total' = 0
      BY <1>10 DEF Load, Go
    <3>3. ~ 0 > SizeLimit
      OBVIOUS
    <3> QED BY <3>1, <3>2, <3>3 DEF Kinds
  <2>5. ASSUME NEW n \in Segments, n # job[w] PROVE FateOf(n)'
    BY <2>1, <2>5, Elsewhere DEF Fates
  <2>6. FateOf(job[w])'
    BY <2>1, <2>2, <2>4, Here
  <2>7. ASSUME NEW v \in Workers PROVE FateWith(v)'
    <3>1. CASE v = w
      BY <2>1, <2>4, <3>1 DEF FateWith
    <3>2. CASE v # w
      <4>1. FateWith(v)
        BY DEF Fates
      <4>2. worker[v] \in {"keep", "check", "load", "fail"} => fate'[job[v]] = fate[job[v]]
        BY <2>1, <2>3, <3>2
      <4> QED BY <2>1, <3>2, <4>1, <4>2 DEF FateWith
    <3> QED BY <3>1, <3>2
  <2> QED BY <2>1, <2>5, <2>6, <2>7 DEF Fates
<1>11. ASSUME NEW w \in Workers, LoadFails(w) PROVE Fates'
  <2>1. /\ job' = job /\ count' = count /\ kind' = kind /\ next' = next
        /\ \A v \in Workers : v # w => worker'[v] = worker[v]
        /\ \A n \in Segments : n # job[w] => fate'[n] = fate[n] /\ (n \in data' <=> n \in data)
        /\ parent => parent'
        /\ first # "none" => first' # "none"
    BY <1>11 DEF LoadFails, Go, Cancelled
  <2>2. /\ job[w] \in Segments /\ job[w] < next /\ ~ job[w] >= next
        /\ FateOf(job[w]) /\ FateWith(w)
    BY <1>11 DEF LoadFails, Go, Cancelled, Fates
  <2>3. \A v \in Workers : v # w /\ Busy(v) => job[v] # job[w]
    BY <1>11 DEF LoadFails, Go, Cancelled
  <2>4. /\ job[w] \notin data'
        /\ worker'[w] = "fail"
        /\ fate'[job[w]] = "upstream" \/ (fate'[job[w]] = "context" /\ (parent' \/ kind = "strict"))
    <3>1. PICK e \in {"upstream", "context"} :
            (e = "context" => parent \/ stopped) /\ fate' = [fate EXCEPT ![job[w]] = e]
      BY <1>11 DEF LoadFails, Go, Cancelled
    <3>2. fate'[job[w]] = e
      BY <2>2, <3>1
    <3>3. job[w] \notin data' /\ worker'[w] = "fail" /\ parent' = parent
      BY <1>11, <2>2 DEF LoadFails, Go, Cancelled, FateOf, FateWith
    <3> QED BY <3>1, <3>2, <3>3 DEF Kinds
  <2>5. ASSUME NEW n \in Segments, n # job[w] PROVE FateOf(n)'
    BY <2>1, <2>5, Elsewhere DEF Fates
  <2>6. FateOf(job[w])'
    BY <2>1, <2>2, <2>4, Here
  <2>7. ASSUME NEW v \in Workers PROVE FateWith(v)'
    <3>1. CASE v = w
      BY <2>1, <2>4, <3>1 DEF FateWith
    <3>2. CASE v # w
      <4>1. FateWith(v)
        BY DEF Fates
      <4>2. worker[v] \in {"keep", "check", "load", "fail"} => fate'[job[v]] = fate[job[v]]
        BY <2>1, <2>3, <3>2
      <4> QED BY <2>1, <3>2, <4>1, <4>2 DEF FateWith
    <3> QED BY <3>1, <3>2
  <2> QED BY <2>1, <2>5, <2>6, <2>7 DEF Fates
<1>12. ASSUME NEW w \in Workers, Keep(w) PROVE Fates'
  <2>1. /\ job' = job /\ count' = count /\ kind' = kind /\ next' = next
        /\ \A v \in Workers : v # w => worker'[v] = worker[v]
        /\ \A n \in Segments : n # job[w] => fate'[n] = fate[n] /\ (n \in data' <=> n \in data)
        /\ parent => parent'
        /\ first # "none" => first' # "none"
    BY <1>12 DEF Keep, Go
  <2>2. /\ job[w] \in Segments /\ job[w] < next /\ ~ job[w] >= next
        /\ FateOf(job[w]) /\ FateWith(w)
    BY <1>12 DEF Keep, Go, Fates
  <2>3. \A v \in Workers : v # w /\ Busy(v) => job[v] # job[w]
    BY <1>12 DEF Keep, Go
  <2>4. worker'[w] = "receive" /\ fate'[job[w]] = "loaded" /\ job[w] \in data'
    BY <1>12, <2>2 DEF Keep, Go, FateWith
  <2>5. ASSUME NEW n \in Segments, n # job[w] PROVE FateOf(n)'
    BY <2>1, <2>5, Elsewhere DEF Fates
  <2>6. FateOf(job[w])'
    BY <2>1, <2>2, <2>4, Here
  <2>7. ASSUME NEW v \in Workers PROVE FateWith(v)'
    <3>1. CASE v = w
      BY <2>1, <2>4, <3>1 DEF FateWith
    <3>2. CASE v # w
      <4>1. FateWith(v)
        BY DEF Fates
      <4>2. worker[v] \in {"keep", "check", "load", "fail"} => fate'[job[v]] = fate[job[v]]
        BY <2>1, <2>3, <3>2
      <4> QED BY <2>1, <3>2, <4>1, <4>2 DEF FateWith
    <3> QED BY <3>1, <3>2
  <2> QED BY <2>1, <2>5, <2>6, <2>7 DEF Fates
<1>13. ASSUME NEW w \in Workers, Fail(w) PROVE Fates'
  <2>1. /\ job' = job /\ count' = count /\ kind' = kind /\ next' = next
        /\ \A v \in Workers : v # w => worker'[v] = worker[v]
        /\ \A n \in Segments : n # job[w] => fate'[n] = fate[n] /\ (n \in data' <=> n \in data)
        /\ parent => parent'
        /\ first # "none" => first' # "none"
    BY <1>13 DEF Fail, Go
  <2>2. /\ job[w] \in Segments /\ job[w] < next /\ ~ job[w] >= next
        /\ FateOf(job[w]) /\ FateWith(w)
    BY <1>13 DEF Fail, Go, Fates
  <2>3. \A v \in Workers : v # w /\ Busy(v) => job[v] # job[w]
    BY <1>13 DEF Fail, Go
  <2>4. /\ worker'[w] = "receive" /\ fate' = fate /\ data' = data /\ parent' = parent
        /\ kind = "tolerant" \/ first' # "none"
        /\ fate[job[w]] \in {"upstream", "context"} \/ (fate[job[w]] = "loaded" /\ kind = "strict")
    <3>1. kind = "strict" => first' # "none"
      BY <1>13 DEF Fail, Go, Causes
    <3> QED BY <1>13, <2>2, <3>1 DEF Fail, Go, FateWith, Kinds
  <2>5. ASSUME NEW n \in Segments, n # job[w] PROVE FateOf(n)'
    BY <2>1, <2>5, Elsewhere DEF Fates
  <2>6. FateOf(job[w])'
    BY <2>1, <2>2, <2>4 DEF FateOf
  <2>7. ASSUME NEW v \in Workers PROVE FateWith(v)'
    <3>1. CASE v = w
      BY <2>1, <2>4, <3>1 DEF FateWith
    <3>2. CASE v # w
      <4>1. FateWith(v)
        BY DEF Fates
      <4>2. worker[v] \in {"keep", "check", "load", "fail"} => fate'[job[v]] = fate[job[v]]
        BY <2>1, <2>3, <3>2
      <4> QED BY <2>1, <3>2, <4>1, <4>2 DEF FateWith
    <3> QED BY <3>1, <3>2
  <2> QED BY <2>1, <2>5, <2>6, <2>7 DEF Fates
<1>14. ASSUME CancelParent PROVE Fates'
BY <1>14 DEF CancelParent, Fates, FateOf, FateWith
<1>15. CASE UNCHANGED vars
BY <1>15 DEF vars, Fates, FateOf, FateWith, AllGone
<1> QED BY <1>1, <1>2, <1>3, <1>4, <1>5, <1>6, <1>7, <1>8, <1>9, <1>10, <1>11, <1>12, <1>13,
       <1>14, <1>15 DEF Next

\* An error has a cause.
LEMMA CausesStep == IInv /\ [Next]_vars => Causes'
<1> SUFFICES ASSUME IInv, [Next]_vars PROVE Causes'
  OBVIOUS
<1> USE SegmentAssumption DEF IInv, TypeOK, call, Busy, Workers, Segments, Phases, Taken, Fates, FateWith
<1>1. ASSUME Refuse PROVE Causes'
BY <1>1 DEF Refuse, Return, Causes
<1>2. ASSUME NothingToDo PROVE Causes'
BY <1>2 DEF NothingToDo, Return, Causes
<1>3. ASSUME Start PROVE Causes'
BY <1>3 DEF Start, Causes
<1>4. ASSUME Skip PROVE Causes'
  <2>1. next \in Segments /\ fate[next] = "none"
    BY <1>4 DEF Skip, FateOf
  <2>2. \A w \in Workers : worker[w] = "fail" => job[w] # next
    OBVIOUS
  <2> QED BY <1>4, <2>1, <2>2 DEF Skip, Causes
<1>5. ASSUME Close PROVE Causes'
BY <1>5 DEF Close, Cancelled, Causes
<1>6. ASSUME Judge PROVE Causes'
BY <1>6 DEF Judge, Return, Cancelled, AllGone, Causes
<1>7. ASSUME NEW w \in Workers, Send(w) PROVE Causes'
BY <1>7 DEF Send, Causes
<1>8. ASSUME NEW w \in Workers, Exit(w) PROVE Causes'
BY <1>8 DEF Exit, Go, Causes
<1>9. ASSUME NEW w \in Workers, Check(w) PROVE Causes'
BY SMTT(30), <1>9 DEF Check, Go, Cancelled, Causes
<1>10. ASSUME NEW w \in Workers, Load(w) PROVE Causes'
BY SMTT(30), <1>10 DEF Load, Go, Causes
<1>11. ASSUME NEW w \in Workers, LoadFails(w) PROVE Causes'
BY <1>11 DEF LoadFails, Go, Cancelled, Causes
<1>12. ASSUME NEW w \in Workers, Keep(w) PROVE Causes'
BY <1>12 DEF Keep, Go, Causes
<1>13. ASSUME NEW w \in Workers, Fail(w) PROVE Causes'
BY <1>13 DEF Fail, Go, Causes
<1>14. ASSUME CancelParent PROVE Causes'
BY <1>14 DEF CancelParent, Causes
<1>15. CASE UNCHANGED vars
BY <1>15 DEF vars, Causes, AllGone
<1> QED BY <1>1, <1>2, <1>3, <1>4, <1>5, <1>6, <1>7, <1>8, <1>9, <1>10, <1>11, <1>12, <1>13,
       <1>14, <1>15 DEF Next

\* Only Judge and the two early returns give an answer, and nothing moves after it.
LEMMA AnswerSteps ==
    ASSUME IInv, [Next]_vars
    PROVE  UNCHANGED vars \/ answer' = "none" \/ Refuse \/ NothingToDo \/ Judge
<1> USE DEF IInv, Phases, AllGone, call
<1>1. CASE pc = "done"
  <2>1. \A w \in Workers : worker[w] \in {"off", "gone"}
    BY <1>1
  <2> QED BY <1>1, <2>1 DEF Next, Refuse, NothingToDo, Start, Skip, Close, Judge, Send, Exit, Check, Load,
                    LoadFails, Keep, Fail, CancelParent
<1>2. CASE pc # "done"
  BY <1>2 DEF Next, vars, Start, Skip, Close, Send, Exit, Check, Load, LoadFails, Keep, Fail, CancelParent
<1> QED BY <1>1, <1>2

\* When all workers have gone, what is not among the data has left an error behind.
LEMMA NothingUnderWay ==
    ASSUME IInv, Judge, answer' = "data", NEW n \in Segments
    PROVE  /\ fate[n] = "loaded" => n \in data
           /\ kind = "strict" => fate[n] = "loaded"
           /\ kind = "tolerant" => fate[n] \in {"loaded", "upstream"}
<1>1. first = "none" /\ ~ parent
  BY DEF Judge, Return, Cancelled, IInv, TypeOK, Errors
<1>2. next = count + 1 /\ n < next
  BY <1>1, SegmentAssumption DEF Judge, IInv, Phases, TypeOK, Segments
<1>3. \A w \in Workers : worker[w] \in {"off", "gone"}
  BY DEF Judge, AllGone
<1>4. FateOf(n)
  BY DEF IInv, Fates
<1>5. fate[n] \in {"none", "skipped", "loaded", "upstream", "context"} /\ kind \in {"strict", "tolerant"}
  BY DEF IInv, TypeOK, Kinds
<1> QED BY <1>1, <1>2, <1>3, <1>4, <1>5 DEF FateOf

\* Nothing but Judge, Refuse and NothingToDo answers, and what they answer is right.
LEMMA AnswersStep ==
    IInv /\ [Next]_vars => (StrictIsComplete /\ TolerantKeepsLoaded /\ CauseReported)'
<1> SUFFICES ASSUME IInv, [Next]_vars
             PROVE  (StrictIsComplete /\ TolerantKeepsLoaded /\ CauseReported)'
  OBVIOUS
<1> USE DEF StrictIsComplete, TolerantKeepsLoaded, CauseReported
<1>1. CASE UNCHANGED vars
  BY <1>1 DEF vars, call, IInv, Segments
<1>2. CASE answer' = "none"
  BY <1>2
<1>3. CASE Refuse
  BY <1>3 DEF Refuse, Return
<1>4. CASE NothingToDo
  <2>1. Segments = {} /\ data = {}
    BY <1>4 DEF NothingToDo, Segments, IInv, TypeOK
  <2> QED BY <1>4, <2>1 DEF NothingToDo, Return, call, Segments
<1>5. CASE Judge
  <2>1. count' = count /\ kind' = kind /\ fate' = fate /\ data' = data /\ parent' = parent
    BY <1>5 DEF Judge, call
  <2>2. data \subseteq Segments /\ \A n \in data : fate[n] = "loaded"
    BY DEF IInv, TypeOK, Fates, FateOf
  <2>3. CASE answer' = "data"
    BY <1>5, <2>1, <2>2, <2>3, NothingUnderWay DEF Segments
  <2>4. CASE answer' # "data"
    <3>1. answer' = "context" => parent
      BY <1>5 DEF Judge, Return, Cancelled, IInv, Causes, Phases
    <3>2. answer' = "upstream" => first = "upstream"
      BY <1>5 DEF Judge, Return
    <3>3. first = "upstream" => kind = "strict" /\ \E n \in Segments : fate[n] = "upstream"
      BY DEF IInv, Causes, Phases, TypeOK, Kinds
    <3> QED BY <2>1, <2>4, <3>1, <3>2, <3>3 DEF Segments
  <2> QED BY <2>3, <2>4
<1> QED BY <1>1, <1>2, <1>3, <1>4, <1>5, AnswerSteps

\* The invariant holds in every reachable state.
THEOREM SegmentInvariance == Spec => []IInv
<1>1. IInv /\ [Next]_vars => IInv'
  <2> SUFFICES ASSUME IInv, [Next]_vars PROVE IInv'
    OBVIOUS
  <2>1. TypeOK' /\ Taken' /\ Phases' /\ Fates' /\ Causes'
    BY TypeStep, TakenStep, PhasesStep, FatesStep, CausesStep
  <2> QED BY <2>1, AnswersStep DEF IInv
<1> QED BY InitIInv, <1>1, PTL DEF Spec

\* The variables keep their types: no segment is offered that is none.
THEOREM SegmentTypeCorrect == Spec => []TypeOK
BY SegmentInvariance, PTL DEF IInv

\* "A failed segment fails the sync as a whole": an answer of a strict call has
\* every segment.
THEOREM SegmentStrictIsComplete == Spec => []StrictIsComplete
BY SegmentInvariance, PTL DEF IInv

\* A tolerant call returns whatever could be loaded, and no cancelled load
\* passes for an empty segment.
THEOREM SegmentTolerantKeepsLoaded == Spec => []TolerantKeepsLoaded
BY SegmentInvariance, PTL DEF IInv

\* A call that nobody has cancelled does not report a cancellation.
THEOREM SegmentCauseReported == Spec => []CauseReported
BY SegmentInvariance, PTL DEF IInv

\* When a call has returned, its goroutines have ended.
THEOREM SegmentJoined == Spec => []Joined
<1>1. IInv => Joined
  BY DEF IInv, Phases, AllGone, Joined
<1> QED BY <1>1, SegmentInvariance, PTL


--------------------------------------------------------------------------------
(* Sums *)

\* One item for each comment of the segments S, when segment n has f[n] of them.
Items(f, S) == UNION {{n} \X (1 .. f[n]) : n \in S}

\* The sum that SizeOf is, of any function.
SumOf(f, S) == MapThenSumSet(LAMBDA n : f[n], S)

\* A segment has as many items as comments.
LEMMA PairsCounted ==
  ASSUME NEW n, NEW k \in Nat
  PROVE  IsFiniteSet({n} \X (1 .. k)) /\ Cardinality({n} \X (1 .. k)) = k
<1> DEFINE b == [i \in 1 .. k |-> <<n, i>>]
<1>1. b \in Bijection(1 .. k, {n} \X (1 .. k))
  <2>1. b \in [1 .. k -> {n} \X (1 .. k)]
    OBVIOUS
  <2>2. \A i, j \in 1 .. k : b[i] = b[j] => i = j
    OBVIOUS
  <2>3. \A t \in {n} \X (1 .. k) : \E i \in 1 .. k : b[i] = t
    <3> TAKE t \in {n} \X (1 .. k)
    <3>1. PICK i \in 1 .. k : t = <<n, i>>
      OBVIOUS
    <3> QED
      BY <3>1
  <2> HIDE DEF b
  <2>4. DOMAIN b = 1 .. k
    BY <2>1
  <2> QED
    BY <2>1, <2>2, <2>3, <2>4 DEF Bijection, Injection, Surjection, IsInjective
<1>2. IsFiniteSet(1 .. k) /\ Cardinality(1 .. k) = k
  BY FS_Interval
<1> QED
  BY <1>1, <1>2, FS_Bijection DEF ExistsBijection

\* The items of one more segment are those of the others and its own.
LEMMA ItemsOfOneMore ==
  ASSUME NEW f, NEW S, NEW x, x \notin S, IsFiniteSet(Items(f, S)), f[x] \in Nat
  PROVE  /\ IsFiniteSet(Items(f, S \cup {x}))
         /\ Cardinality(Items(f, S \cup {x})) = Cardinality(Items(f, S)) + f[x]
<1> DEFINE new == {x} \X (1 .. f[x])
<1>1. IsFiniteSet(new) /\ Cardinality(new) = f[x]
  BY PairsCounted
<1>2. Items(f, S \cup {x}) = Items(f, S) \cup new
  BY DEF Items
<1>3. Items(f, S) \cap new = {}
  BY DEF Items
<1> HIDE DEF new
<1>4. Cardinality(Items(f, S)) \in Nat
  BY FS_CardinalityType
<1>5. /\ IsFiniteSet(Items(f, S) \cup new)
      /\ Cardinality(Items(f, S) \cup new)
           = Cardinality(Items(f, S)) + Cardinality(new) - Cardinality(Items(f, S) \cap new)
  BY <1>1, FS_Union
<1>6. Cardinality(Items(f, S) \cap new) = 0
  BY <1>3, FS_EmptySet
<1>7. Cardinality(Items(f, S) \cup new) = Cardinality(Items(f, S)) + f[x]
  BY <1>1, <1>4, <1>5, <1>6
<1> QED
  BY <1>2, <1>5, <1>7

\* A set of finite subsets with a property has a smallest member.
LEMMA Smallest ==
  ASSUME NEW S, IsFiniteSet(S), NEW T, T \subseteq SUBSET S, T # {}
  PROVE  \E x \in T : \A y \in T : y \subseteq x => y = x
<1>1. IsWellFoundedOn(StrictSubsetOrdering(S), SUBSET S)
  BY FS_StrictSubsetOrderingWellFounded, FS_FiniteSubsetsOfFinite
<1>2. PICK x \in T : \A y \in T : ~(<<y, x>> \in StrictSubsetOrdering(S))
  BY <1>1, WFMin
<1> QED
  BY <1>2 DEF StrictSubsetOrdering

\* The items of finitely many segments are finitely many.
LEMMA ItemsFinite ==
  ASSUME NEW S, IsFiniteSet(S), NEW f, \A n \in S : f[n] \in Nat
  PROVE  \A T \in SUBSET S : IsFiniteSet(Items(f, T))
<1> DEFINE Bad == {T \in SUBSET S : ~IsFiniteSet(Items(f, T))}
<1> SUFFICES ASSUME Bad # {} PROVE FALSE
  OBVIOUS
<1>1. PICK T \in Bad : \A U \in Bad : U \subseteq T => U = T
  <2>1. Bad \subseteq SUBSET S
    OBVIOUS
  <2> HIDE DEF Bad
  <2> QED
    BY <2>1, Smallest
<1>2. T # {}
  <2>1. Items(f, {}) = {}
    BY DEF Items
  <2> QED
    BY <1>1, <2>1, FS_EmptySet
<1>3. PICK x \in T : TRUE
  BY <1>2
<1>4. IsFiniteSet(Items(f, T \ {x}))
  BY <1>1
<1>5. T = (T \ {x}) \cup {x} /\ x \notin T \ {x} /\ f[x] \in Nat
  BY <1>1
<1> QED
  BY <1>1, <1>4, <1>5, ItemsOfOneMore

\* The sum of the values of a function is the number of its items.
LEMMA SumCountsItems ==
  ASSUME NEW S, IsFiniteSet(S), NEW f, \A n \in S : f[n] \in Nat
  PROVE  SumOf(f, S) = Cardinality(Items(f, S))
<1> DEFINE pick(s) == CHOOSE x \in s : TRUE
           step(g, s) == IF s = {} THEN 0 ELSE f[pick(s)] + g[s \ {pick(s)}]
           iter == CHOOSE g : g = [s \in SUBSET S |-> step(g, s)]
           tally(s) == Cardinality(Items(f, s))
<1>1. SumOf(f, S) = iter[S]
  BY DEF SumOf, MapThenSumSet, MapThenFoldSet
<1>2. \A s \in SUBSET S : tally(s) = IF s = {} THEN 0 ELSE f[pick(s)] + tally(s \ {pick(s)})
  <2> TAKE s \in SUBSET S
  <2>1. CASE s = {}
    <3>1. Items(f, {}) = {}
      BY DEF Items
    <3> QED
      BY <2>1, <3>1, FS_EmptySet
  <2>2. CASE s # {}
    <3> DEFINE x == pick(s)
    <3>1. x \in s
      BY <2>2
    <3> HIDE DEF x
    <3>2. s = (s \ {x}) \cup {x} /\ x \notin s \ {x} /\ f[x] \in Nat
      BY <3>1
    <3>3. IsFiniteSet(Items(f, s \ {x}))
      BY ItemsFinite
    <3>4. Cardinality(Items(f, s)) = Cardinality(Items(f, s \ {x})) + f[x]
      BY <3>2, <3>3, ItemsOfOneMore
    <3>5. Cardinality(Items(f, s \ {x})) \in Nat
      BY <3>3, FS_CardinalityType
    <3>6. tally(s) = f[x] + tally(s \ {x})
      BY <3>2, <3>4, <3>5
    <3> QED
      BY <2>2, <3>6 DEF x
  <2> QED
    BY <2>1, <2>2
<1>3. iter = [s \in SUBSET S |-> step(iter, s)]
  <2> DEFINE g == [s \in SUBSET S |-> tally(s)]
  <2>1. \A s \in SUBSET S : tally(s) = step(g, s)
    <3> TAKE s \in SUBSET S
    <3>1. s \ {pick(s)} \in SUBSET S
      OBVIOUS
    <3>2. g[s \ {pick(s)}] = tally(s \ {pick(s)})
      BY <3>1
    <3> HIDE DEF tally, pick
    <3> QED
      BY <1>2, <3>2
  <2> HIDE DEF tally, step
  <2>2. g = [s \in SUBSET S |-> step(g, s)]
    BY <2>1
  <2> HIDE DEF g
  <2> QED
    BY <2>2
<1> HIDE DEF iter
<1> DEFINE Bad == {s \in SUBSET S : iter[s] # tally(s)}
<1>4. Bad = {}
  <2> SUFFICES ASSUME Bad # {} PROVE FALSE
    OBVIOUS
  <2>1. PICK T \in Bad : \A U \in Bad : U \subseteq T => U = T
    <3>1. Bad \subseteq SUBSET S
      OBVIOUS
    <3> HIDE DEF Bad
    <3> QED
      BY <3>1, Smallest
  <2>2. iter[T] = step(iter, T) /\ T \in SUBSET S
    BY <1>3, <2>1
  <2>3. CASE T = {}
    <3>1. iter[T] = tally(T)
      BY <1>2, <2>2, <2>3
    <3> QED
      BY <2>1, <3>1
  <2>4. CASE T # {}
    <3> DEFINE x == pick(T)
    <3>1. x \in T
      BY <2>4
    <3>2. T \ {x} \notin Bad /\ T \ {x} \in SUBSET S
      BY <2>1, <2>2, <3>1
    <3>3. iter[T \ {x}] = tally(T \ {x})
      BY <3>2
    <3> HIDE DEF tally
    <3>4. iter[T] = tally(T)
      BY <1>2, <2>2, <2>4, <3>3
    <3> QED
      BY <2>1, <3>4
  <2> QED
    BY <2>3, <2>4
<1> QED
  BY <1>1, <1>4

\* A sum of numbers is a number.
LEMMA SumIsNat ==
  ASSUME NEW S, IsFiniteSet(S), NEW f, \A n \in S : f[n] \in Nat
  PROVE  SumOf(f, S) \in Nat
BY SumCountsItems, ItemsFinite, FS_CardinalityType

\* A sum grows by what is added.
LEMMA SumOfOneMore ==
  ASSUME NEW S, IsFiniteSet(S), NEW x, x \notin S, NEW f, \A n \in S \cup {x} : f[n] \in Nat
  PROVE  SumOf(f, S \cup {x}) = SumOf(f, S) + f[x]
<1>1. IsFiniteSet(S \cup {x})
  BY FS_AddElement
<1>2. SumOf(f, S \cup {x}) = Cardinality(Items(f, S \cup {x}))
  BY <1>1, SumCountsItems
<1>3. SumOf(f, S) = Cardinality(Items(f, S)) /\ IsFiniteSet(Items(f, S))
  BY SumCountsItems, ItemsFinite
<1>4. f[x] \in Nat
  OBVIOUS
<1>5. Cardinality(Items(f, S \cup {x})) = Cardinality(Items(f, S)) + f[x]
  BY <1>3, <1>4, ItemsOfOneMore
<1> QED
  BY <1>2, <1>3, <1>5

\* A sum is no less than the sum of a part of it.
LEMMA SumOfPart ==
  ASSUME NEW S, IsFiniteSet(S), NEW f, \A n \in S : f[n] \in Nat, NEW T \in SUBSET S
  PROVE  SumOf(f, T) <= SumOf(f, S)
<1>1. IsFiniteSet(T) /\ IsFiniteSet(Items(f, S))
  BY FS_Subset, ItemsFinite
<1>2. Items(f, T) \in SUBSET Items(f, S)
  BY DEF Items
<1>3. SumOf(f, T) = Cardinality(Items(f, T)) /\ SumOf(f, S) = Cardinality(Items(f, S))
  BY <1>1, SumCountsItems
<1> QED
  BY <1>1, <1>2, <1>3, FS_Subset

Loaded == {n \in Segments : fate[n] = "loaded"}

\* The total counts what was loaded, and an error for its size is right for good.
Sized ==
    kind = "strict" =>
        /\ total = SizeOf(Loaded)
        /\ \A w \in Workers : worker[w] = "fail" /\ error[w] = "size" => total > SizeLimit
        /\ first = "size" => total > SizeLimit

\* What is known of the sizes.
LEMMA SizesAreNumbers ==
  ASSUME TypeOK
  PROVE  /\ count \in Nat /\ IsFiniteSet(Segments) /\ \A n \in Segments : size[n] \in Nat
         /\ \A S \in SUBSET Segments : IsFiniteSet(S) /\ SizeOf(S) = SumOf(size, S) /\ SizeOf(S) \in Nat
                                       /\ SizeOf(S) <= SizeOf(Segments)
<1>1. count \in Nat /\ \A n \in Segments : size[n] \in Nat
  BY SegmentAssumption DEF TypeOK
<1>2. IsFiniteSet(Segments)
  BY <1>1, FS_Interval DEF Segments
<1>3. \A S : SizeOf(S) = SumOf(size, S)
  BY DEF SizeOf, SumOf
<1>4. \A S \in SUBSET Segments : IsFiniteSet(S)
  BY <1>2, FS_Subset
<1>5. \A S \in SUBSET Segments : SumOf(size, S) \in Nat
  BY <1>1, <1>4, SumIsNat
<1>6. \A S \in SUBSET Segments : SumOf(size, S) <= SumOf(size, Segments)
  BY <1>1, <1>2, SumOfPart
<1> QED
  BY <1>1, <1>2, <1>3, <1>4, <1>5, <1>6

SizesAreSums == SizeOf(Loaded) = SumOf(size, Loaded) /\ SizeOf(Segments) = SumOf(size, Segments)

\* What a step makes of the sizes, too, is a sum.
LEMMA SizesStaySums == SizesAreSums /\ SizesAreSums'
<1>1. SizesAreSums
  BY DEF SizesAreSums, SizeOf, SumOf
<1>2. SizesAreSums'
  BY <1>1, PTL
<1> QED
  BY <1>1, <1>2

\* A step that loads nothing keeps the total right.
LEMMA NothingLoaded ==
  ASSUME Sized, UNCHANGED <<call, total>>, Loaded' = Loaded,
         \A w \in Workers : worker'[w] = "fail" /\ error'[w] = "size" =>
                             worker[w] = "fail" /\ error[w] = "size",
         first' = "size" => first = "size" \/ \E w \in Workers : worker[w] = "fail" /\ error[w] = "size"
  PROVE  Sized'
<1>1. SizeOf(Loaded)' = SumOf(size', Loaded') /\ SizeOf(Loaded) = SumOf(size, Loaded)
  BY SizesStaySums DEF SizesAreSums
<1> QED
  BY <1>1 DEF Sized, call

\* Every step keeps the total right.
LEMMA SizedStep == IInv /\ Sized /\ [Next]_vars => Sized'
<1> SUFFICES ASSUME IInv, Sized, [Next]_vars PROVE Sized'
  OBVIOUS
<1> USE DEF call
<1>1. TypeOK /\ Taken /\ Fates
  BY DEF IInv
<1>2. CASE Refuse \/ NothingToDo \/ Close \/ Judge \/ CancelParent \/ UNCHANGED vars
  BY <1>2, NothingLoaded DEF Refuse, NothingToDo, Close, Judge, CancelParent, vars, Loaded, Segments
<1>3. CASE Start
  <2>1. \A w \in Workers : worker'[w] # "fail"
    BY <1>3 DEF Start
  <2> QED
    BY <1>3, <2>1, NothingLoaded DEF Start, Loaded, Segments
<1>4. CASE Skip
  <2>1. next \in Segments /\ fate[next] = "none"
    BY <1>1, <1>4, SizesAreNumbers DEF Skip, TypeOK, Segments, Fates, FateOf
  <2>2. Loaded' = Loaded
    BY <1>1, <1>4, <2>1 DEF Skip, Loaded, TypeOK, Segments
  <2> QED
    BY <1>4, <2>2, NothingLoaded DEF Skip
<1>5. ASSUME NEW w \in Workers, Send(w) PROVE Sized'
  <2>1. \A u \in Workers : worker'[u] = "fail" => worker[u] = "fail"
    BY <1>1, <1>5 DEF Send, TypeOK
  <2> QED
    BY <1>5, <2>1, NothingLoaded DEF Send, Loaded, Segments
<1>6. ASSUME NEW w \in Workers, Exit(w) \/ Keep(w) PROVE Sized'
  <2>1. \A u \in Workers : worker'[u] = "fail" => worker[u] = "fail"
    BY <1>1, <1>6 DEF Exit, Keep, Go, TypeOK
  <2> QED
    BY <1>6, <2>1, NothingLoaded DEF Exit, Keep, Loaded, Segments
<1>7. ASSUME NEW w \in Workers, Check(w) PROVE Sized'
  <2>1. \A u \in Workers : worker'[u] = "fail" => worker[u] = "fail"
    BY <1>1, <1>7 DEF Check, Go, TypeOK
  <2>2. job[w] \in Segments /\ fate[job[w]] = "none"
    BY <1>1, <1>7 DEF Check, Taken, Busy, Fates, FateWith
  <2>3. Loaded' = Loaded
    BY <1>1, <1>7, <2>2 DEF Check, Loaded, TypeOK, Segments
  <2> QED
    BY <1>7, <2>1, <2>3, NothingLoaded DEF Check
<1>8. ASSUME NEW w \in Workers, LoadFails(w) PROVE Sized'
  <2>1. PICK e \in {"upstream", "context"} :
          fate' = [fate EXCEPT ![job[w]] = e] /\ error' = [error EXCEPT ![w] = e]
    BY <1>8 DEF LoadFails
  <2>2. \A u \in Workers : worker'[u] = "fail" /\ error'[u] = "size" => worker[u] = "fail" /\ error[u] = "size"
    BY <1>1, <1>8, <2>1 DEF LoadFails, Go, TypeOK
  <2>3. job[w] \in Segments /\ fate[job[w]] = "none"
    BY <1>1, <1>8 DEF LoadFails, Taken, Busy, Fates, FateWith
  <2>4. Loaded' = Loaded
    BY <1>1, <1>8, <2>1, <2>3 DEF LoadFails, Loaded, TypeOK, Segments
  <2> QED
    BY <1>8, <2>2, <2>4, NothingLoaded DEF LoadFails
<1>9. ASSUME NEW w \in Workers, Fail(w) PROVE Sized'
  <2>1. \A u \in Workers : worker'[u] = "fail" => worker[u] = "fail"
    BY <1>1, <1>9 DEF Fail, Go, TypeOK
  <2>2. first' = "size" => first = "size" \/ (worker[w] = "fail" /\ error[w] = "size")
    BY <1>9 DEF Fail
  <2> QED
    BY <1>9, <2>1, <2>2, NothingLoaded DEF Fail, Loaded, Segments
<1>10. ASSUME NEW w \in Workers, Load(w) PROVE Sized'
  <2> SUFFICES ASSUME kind = "strict"
               PROVE  /\ total' = SizeOf(Loaded)'
                      /\ \A u \in Workers : worker'[u] = "fail" /\ error'[u] = "size" => total' > SizeLimit
                      /\ first' = "size" => total' > SizeLimit
    BY <1>10 DEF Sized, Load
  <2>1. job[w] \in Segments /\ job[w] \notin Loaded
    BY <1>1, <1>10 DEF Load, Taken, Busy, Fates, FateWith, Loaded
  <2>2. Loaded' = Loaded \cup {job[w]}
    BY <1>1, <1>10, <2>1 DEF Load, Loaded, TypeOK, Segments
  <2>3. total' = total + size[job[w]] /\ UNCHANGED <<kind, size, first>>
    BY <1>10 DEF Load
  <2>4. /\ SizeOf(Loaded)' = SumOf(size, Loaded \cup {job[w]})
        /\ total = SumOf(size, Loaded)
    <3>1. SizeOf(Loaded)' = SumOf(size', Loaded') /\ SizeOf(Loaded) = SumOf(size, Loaded)
      BY SizesStaySums DEF SizesAreSums
    <3> QED
      BY <2>2, <2>3, <3>1 DEF Sized
  <2>5. Loaded \in SUBSET Segments
    BY DEF Loaded
  <2>6. total' = SizeOf(Loaded)'
    <3>1. IsFiniteSet(Loaded) /\ \A n \in Loaded \cup {job[w]} : size[n] \in Nat
      BY <1>1, <2>1, <2>5, SizesAreNumbers
    <3>2. SumOf(size, Loaded \cup {job[w]}) = SumOf(size, Loaded) + size[job[w]]
      BY <2>1, <3>1, SumOfOneMore
    <3> QED
      BY <2>3, <2>4, <3>2
  <2>7. total \in Nat /\ total' \in Nat /\ total <= total' /\ SizeLimit \in Nat
    BY <1>1, <2>1, <2>3, SizesAreNumbers, SegmentAssumption DEF TypeOK
  <2>8. \A u \in Workers : worker'[u] = "fail" /\ error'[u] = "size" => total' > SizeLimit
    <3> TAKE u \in Workers
    <3>1. CASE u = w
      <4>1. total' > SizeLimit \/ worker'[w] = "keep"
        BY <1>1, <1>10 DEF Load, Go, TypeOK
      <4> QED
        BY <3>1, <4>1
    <3>2. CASE u # w
      <4>1. worker'[u] = worker[u] /\ error'[u] = error[u]
        BY <1>1, <1>10, <3>2 DEF Load, Go, TypeOK
      <4>2. worker[u] = "fail" /\ error[u] = "size" => total > SizeLimit
        BY DEF Sized
      <4> QED
        BY <2>7, <4>1, <4>2
    <3> QED
      BY <3>1, <3>2
  <2>9. first' = "size" => total' > SizeLimit
    BY <2>3, <2>7 DEF Sized
  <2> QED
    BY <2>6, <2>8, <2>9
<1> QED
  BY <1>2, <1>3, <1>4, <1>5, <1>6, <1>7, <1>8, <1>9, <1>10 DEF Next

\* An answer is right about the size.
LEMMA SizeJudged == IInv /\ Sized /\ SizeRespected /\ [Next]_vars => SizeRespected'
<1> SUFFICES ASSUME IInv, Sized, SizeRespected, [Next]_vars, kind' = "strict"
             PROVE  /\ answer' = "data" => SizeOf(Segments)' <= SizeLimit
                    /\ answer' = "size" => SizeOf(Segments)' > SizeLimit
  BY DEF SizeRespected
<1>1. UNCHANGED call
  BY DEF Next, Refuse, NothingToDo, Start, Skip, Close, Judge, Send, Exit, Check, Load, LoadFails, Keep, Fail,
         CancelParent, vars
<1>2. kind = "strict" /\ SizeOf(Segments)' = SizeOf(Segments)
  <2>1. SizeOf(Segments)' = SumOf(size', Segments') /\ SizeOf(Segments) = SumOf(size, Segments)
    BY SizesStaySums DEF SizesAreSums
  <2> QED
    BY <1>1, <2>1 DEF call, Segments
<1>3. CASE answer' = answer
  BY <1>2, <1>3 DEF SizeRespected
<1>4. CASE Refuse \/ NothingToDo
  BY <1>2, <1>4 DEF Refuse, NothingToDo, Return
<1>5. CASE Judge
  <2>1. TypeOK /\ SizeLimit \in Nat /\ data \in SUBSET Segments /\ Loaded \in SUBSET Segments
    BY SegmentAssumption DEF IInv, TypeOK, Loaded
  <2>2. /\ SizeOf(Segments) \in Nat /\ SizeOf(data) \in Nat /\ SizeOf(Loaded) \in Nat
        /\ SizeOf(data) <= SizeOf(Segments) /\ SizeOf(Loaded) <= SizeOf(Segments)
    BY <2>1, SizesAreNumbers
  <2>3. CASE answer' = "data"
    <3>1. data = Segments
      <4>1. StrictIsComplete'
        BY AnswersStep
      <4> QED
        BY <1>1, <1>5, <2>3, <4>1 DEF StrictIsComplete, Judge, call, Segments
    <3>2. ~(SizeOf(data) > SizeLimit)
      BY <1>2, <1>5, <2>1, <2>3 DEF Judge, Return, TypeOK, Errors
    <3> QED
      BY <1>2, <2>1, <2>2, <2>3, <3>1, <3>2
  <2>4. CASE answer' = "size"
    <3>1. first = "size" \/ SizeOf(data) > SizeLimit
      BY <1>5, <2>4 DEF Judge, Return
    <3>2. total = SizeOf(Loaded) /\ (first = "size" => total > SizeLimit)
      BY <1>2 DEF Sized
    <3>3. SizeOf(Segments) > SizeLimit
      BY <2>1, <2>2, <3>1, <3>2
    <3> QED
      BY <1>2, <2>4, <3>3
  <2> QED
    BY <2>3, <2>4
<1> QED
  BY <1>3, <1>4, <1>5 DEF Next, Start, Skip, Close, Send, Exit, Check, Load, LoadFails, Keep, Fail,
                          CancelParent, vars

\* The limit counts the comments of all segments, however many goroutines count at a time: what
\* exceeds it is refused and nothing else is.
THEOREM SegmentSizeRespected == Spec => []SizeRespected
<1>1. Init => Sized /\ SizeRespected
  <2> SUFFICES ASSUME Init PROVE Sized /\ SizeRespected
    OBVIOUS
  <2>1. SizeOf(Loaded) = 0
    <3>1. Loaded = {}
      BY DEF Init, Loaded
    <3>2. SizeOf(Loaded) = SumOf(size, {})
      BY <3>1 DEF SizeOf, SumOf
    <3>3. SumOf(size, {}) = Cardinality(Items(size, {}))
      BY SumCountsItems, FS_EmptySet
    <3>4. Items(size, {}) = {}
      BY DEF Items
    <3> QED
      BY <3>2, <3>3, <3>4, FS_EmptySet
  <2> QED
    BY <2>1 DEF Init, Sized, SizeRespected
<1>2. IInv /\ Sized /\ SizeRespected /\ [Next]_vars => (Sized /\ SizeRespected)'
  BY SizedStep, SizeJudged
<1> QED
  BY <1>1, <1>2, SegmentInvariance, PTL DEF Spec

-----------------------------------------------------------------------------
(* A fetch ends: every step lowers a number, and until the call has         *)
(* returned somebody can take one.                                          *)

\* Whom the calling goroutine may count on.
Crew ==
    /\ pc = "send" => \A w \in Workers : worker[w] # "gone" /\ (w <= count => worker[w] # "off")
    /\ pc = "wait" => closed

\* The guards of a step of the calling goroutine or of a worker.
CanMove ==
    \/ pc = "start"
    \/ pc = "send" /\ (next > count \/ \E w \in Workers : worker[w] = "receive")
    \/ pc = "wait" /\ AllGone
    \/ \E w \in Workers : Busy(w) \/ (worker[w] = "receive" /\ closed)

\* What is still to be done: by the calling goroutine, with the segments, by the workers, and
\* the one cancellation there can be.
Ahead     == IF pc = "start" THEN 3 ELSE IF pc = "send" THEN 2 ELSE IF pc = "wait" THEN 1 ELSE 0
InHand(n) == \E w \in Workers : Busy(w) /\ job[w] = n
Unchecked == {n \in Segments : n >= next \/ \E w \in Workers : worker[w] = "check" /\ job[w] = n}
Untried   == {n \in Segments : fate[n] = "none"}
Unsettled == {n \in Segments : n >= next \/ InHand(n)}
Staying   == {w \in Workers : worker[w] # "gone"}
Left ==
    Ahead + (count + 1 - next) + Cardinality(Unchecked) + Cardinality(Untried)
      + Cardinality(Unsettled) + Cardinality(Staying) + (IF parent THEN 0 ELSE 1)

\* Nothing that was done is undone.
NothingUndone ==
    /\ count' = count /\ next <= next' /\ Ahead' <= Ahead /\ (parent => parent')
    /\ Unchecked' \subseteq Unchecked /\ Untried' \subseteq Untried
    /\ Unsettled' \subseteq Unsettled /\ Staying' \subseteq Staying

\* Something is done.
SomethingDone ==
    \/ next < next' \/ Ahead' < Ahead \/ (parent' /\ ~parent)
    \/ Unchecked' # Unchecked \/ Untried' # Untried \/ Unsettled' # Unsettled \/ Staying' # Staying

\* Every step does something and undoes nothing.
LEMMA StepCounts == ASSUME IInv, Next PROVE NothingUndone /\ SomethingDone
<1> USE SegmentAssumption DEF IInv, TypeOK, call, Workers, Segments, Phases, Busy, InHand
<1>0. next \in Nat /\ next <= next /\ Ahead <= Ahead
  BY DEF Ahead
<1>1. CASE Refuse \/ NothingToDo \/ Start \/ Close \/ Judge
  <2>1. UNCHANGED <<count, next, parent, fate, job>>
    BY <1>1 DEF Refuse, NothingToDo, Start, Close, Judge
  <2>2. Ahead' < Ahead /\ Ahead \in Nat /\ Ahead' \in Nat
    BY ONLY <1>1 DEF Refuse, NothingToDo, Start, Close, Judge, Return, Ahead
  <2>3. CASE UNCHANGED worker
    BY <2>1, <2>2, <2>3 DEF NothingUndone, SomethingDone, Unchecked, Untried, Unsettled, Staying
  <2>4. CASE Start
    <3>1. \A w \in Workers : worker[w] = "off" /\ worker'[w] \in {"receive", "off"}
      BY <2>4 DEF Start
    <3> QED
      BY <2>1, <2>2, <3>1 DEF NothingUndone, SomethingDone, Unchecked, Untried, Unsettled, Staying
  <2> QED
    BY <1>1, <2>3, <2>4 DEF Refuse, NothingToDo, Close, Judge
<1>2. CASE Skip
  <2>1. /\ UNCHANGED <<count, parent, worker, job, pc>> /\ next' = next + 1
        /\ \A n \in Segments : fate'[n] = fate[n] \/ fate'[n] = "skipped"
    BY <1>2 DEF Skip
  <2> QED
    BY <2>1 DEF NothingUndone, SomethingDone, Ahead, Unchecked, Untried, Unsettled, Staying
<1>3. ASSUME NEW w \in Workers, Send(w) PROVE NothingUndone /\ SomethingDone
  <2>1. /\ UNCHANGED <<count, parent, fate, pc>> /\ next' = next + 1
        /\ \A v \in Workers \ {w} : worker'[v] = worker[v] /\ job'[v] = job[v]
        /\ job'[w] = next /\ worker'[w] \in {"check", "load"} /\ worker[w] = "receive"
    BY <1>3 DEF Send
  <2>2. next \in Nat
    OBVIOUS
  <2>3. Unchecked' \subseteq Unchecked /\ Unsettled' \subseteq Unsettled
    <3>1. ASSUME NEW n \in Segments PROVE n >= next' => n >= next
      BY <2>1, <2>2
    <3>2. next >= next
      BY <2>2
    <3> QED
      BY ONLY <2>1, <3>1, <3>2 DEF Unchecked, Unsettled, Segments, InHand, Busy
  <2>4. Staying' \subseteq Staying /\ Untried' = Untried /\ Ahead' = Ahead
    BY <2>1 DEF Staying, Untried, Ahead
  <2> QED
    BY <2>1, <2>2, <2>3, <2>4 DEF NothingUndone, SomethingDone, Ahead
<1>4. ASSUME NEW w \in Workers, Exit(w) PROVE NothingUndone /\ SomethingDone
  <2>1. /\ UNCHANGED <<count, next, parent, fate, pc, job>> /\ worker[w] = "receive" /\ worker'[w] = "gone"
        /\ \A v \in Workers \ {w} : worker'[v] = worker[v]
    BY <1>4 DEF Exit, Go
  <2> QED
    <3>1. Staying' \subseteq Staying /\ w \in Staying /\ w \notin Staying'
      BY <2>1 DEF Staying
    <3>2. Staying' # Staying
      BY <3>1
    <3>3. /\ Unchecked' \subseteq Unchecked /\ Unsettled' \subseteq Unsettled /\ Untried' = Untried
          /\ Ahead' = Ahead /\ Ahead <= Ahead /\ next <= next
      BY <2>1 DEF Unchecked, Unsettled, Untried, Ahead
    <3> QED
      BY ONLY <2>1, <3>1, <3>2, <3>3 DEF NothingUndone, SomethingDone
<1>5. ASSUME NEW w \in Workers, Busy(w), UNCHANGED <<count, next, parent, pc, job>>,
             \A v \in Workers \ {w} : worker'[v] = worker[v], worker'[w] # "gone"
      PROVE  /\ worker'[w] # "check" => Unchecked' \subseteq Unchecked
             /\ Unsettled' \subseteq Unsettled /\ Staying' = Staying /\ Ahead' = Ahead
             /\ worker[w] = "check" /\ worker'[w] # "check" => Unchecked' # Unchecked
             /\ ~Busy(w)' => Unsettled' # Unsettled
  <2>1. job[w] \in Segments /\ ~(job[w] >= next) /\ \A v \in Workers \ {w} : Busy(v) => job[v] # job[w]
    BY <1>5 DEF Taken
  <2>2. worker'[w] # "check" => Unchecked' \subseteq Unchecked
    BY <1>5 DEF Unchecked
  <2>3. Unsettled' \subseteq Unsettled /\ Staying' = Staying /\ Ahead' = Ahead
    BY <1>5 DEF Unsettled, Staying, Ahead
  <2>4. ASSUME worker[w] = "check", worker'[w] # "check" PROVE Unchecked' # Unchecked
    <3>1. job[w] \in Unchecked /\ job[w] \notin Unchecked'
      BY <1>5, <2>1, <2>4 DEF Unchecked
    <3> QED
      BY <3>1
  <2>5. ASSUME ~Busy(w)' PROVE Unsettled' # Unsettled
    <3>1. job[w] \in Unsettled /\ job[w] \notin Unsettled'
      BY <1>5, <2>1, <2>5 DEF Unsettled
    <3> QED
      BY <3>1
  <2> QED
    BY <2>2, <2>3, <2>4, <2>5
<1>6. ASSUME NEW w \in Workers, Check(w) PROVE NothingUndone /\ SomethingDone
  <2>1. /\ UNCHANGED <<count, next, parent, pc, job>> /\ worker[w] = "check" /\ worker'[w] \in {"load", "receive"}
        /\ \A v \in Workers \ {w} : worker'[v] = worker[v]
        /\ \A n \in Segments : fate'[n] = fate[n] \/ fate'[n] = "skipped"
    BY <1>6 DEF Check, Go
  <2>2. Untried' \subseteq Untried
    BY <2>1 DEF Untried
  <2>3. /\ Unchecked' \subseteq Unchecked /\ Unsettled' \subseteq Unsettled /\ Staying' = Staying
        /\ Ahead' = Ahead /\ Unchecked' # Unchecked
    BY <1>5, <2>1
  <2> QED
    BY <1>0, <2>1, <2>2, <2>3 DEF NothingUndone, SomethingDone
<1>7. ASSUME NEW w \in Workers, Load(w) \/ LoadFails(w) PROVE NothingUndone /\ SomethingDone
  <2>1. /\ UNCHANGED <<count, next, parent, pc, job>> /\ worker[w] = "load" /\ worker'[w] \in {"keep", "fail"}
        /\ \A v \in Workers \ {w} : worker'[v] = worker[v]
        /\ \E f \in {"loaded", "upstream", "context"} : fate' = [fate EXCEPT ![job[w]] = f]
    BY <1>7 DEF Load, LoadFails, Go
  <2>2. job[w] \in Segments /\ fate[job[w]] = "none"
    BY <2>1 DEF Taken, Fates, FateWith
  <2>3. Untried' \subseteq Untried /\ job[w] \in Untried /\ job[w] \notin Untried'
    BY <2>1, <2>2 DEF Untried
  <2>4. /\ Unchecked' \subseteq Unchecked /\ Unsettled' \subseteq Unsettled /\ Staying' = Staying
        /\ Ahead' = Ahead
    BY <1>5, <2>1
  <2> QED
    BY ONLY <1>0, <2>1, <2>3, <2>4 DEF NothingUndone, SomethingDone
<1>8. ASSUME NEW w \in Workers, Keep(w) \/ Fail(w) PROVE NothingUndone /\ SomethingDone
  <2>1. /\ UNCHANGED <<count, next, parent, pc, job, fate>> /\ worker[w] \in {"keep", "fail"} /\ worker'[w] = "receive"
        /\ \A v \in Workers \ {w} : worker'[v] = worker[v]
    BY <1>8 DEF Keep, Fail, Go
  <2>2. Untried' = Untried
    BY <2>1 DEF Untried
  <2>3. /\ Unchecked' \subseteq Unchecked /\ Unsettled' \subseteq Unsettled /\ Staying' = Staying
        /\ Ahead' = Ahead /\ Unsettled' # Unsettled
    BY <1>5, <2>1
  <2> QED
    BY ONLY <1>0, <2>1, <2>2, <2>3 DEF NothingUndone, SomethingDone
<1>9. CASE CancelParent
  BY <1>9 DEF CancelParent, NothingUndone, SomethingDone, Ahead, Unchecked, Untried, Unsettled, Staying
<1> QED
  BY <1>1, <1>2, <1>3, <1>4, <1>6, <1>7, <1>8, <1>9 DEF Next

\* The sets of what is left are finite.
LEMMA FewLeft ==
  ASSUME TypeOK
  PROVE  /\ IsFiniteSet(Unchecked) /\ IsFiniteSet(Untried) /\ IsFiniteSet(Unsettled) /\ IsFiniteSet(Staying)
         /\ {Cardinality(Unchecked), Cardinality(Untried), Cardinality(Unsettled), Cardinality(Staying)} \subseteq Nat
<1>1. IsFiniteSet(Segments) /\ IsFiniteSet(Workers)
  BY SegmentAssumption, FS_Interval DEF TypeOK, Segments, Workers
<1>2. /\ Unchecked \in SUBSET Segments /\ Untried \in SUBSET Segments /\ Unsettled \in SUBSET Segments
      /\ Staying \in SUBSET Workers
  BY DEF Unchecked, Untried, Unsettled, Staying
<1>3. IsFiniteSet(Unchecked) /\ IsFiniteSet(Untried) /\ IsFiniteSet(Unsettled) /\ IsFiniteSet(Staying)
  BY <1>1, <1>2, FS_Subset
<1> QED
  BY <1>3, FS_CardinalityType

\* A finite set that loses something is smaller.
LEMMA Fewer ==
  ASSUME NEW S, NEW T, IsFiniteSet(S), T \subseteq S
  PROVE  /\ Cardinality(T) <= Cardinality(S)
         /\ T # S => Cardinality(T) < Cardinality(S)
<1>1. T \in SUBSET S /\ IsFiniteSet(T)
  BY FS_Subset
<1>2. Cardinality(T) \in Nat /\ Cardinality(S) \in Nat
  BY <1>1, FS_CardinalityType
<1> QED
  BY <1>1, <1>2, FS_Subset

\* What is left is a number.
LEMMA LeftIsNat == TypeOK => Left \in Nat
<1> SUFFICES ASSUME TypeOK PROVE Left \in Nat
  OBVIOUS
<1>1. Ahead \in Nat /\ count + 1 - next \in Nat /\ (IF parent THEN 0 ELSE 1) \in Nat
  BY SegmentAssumption DEF TypeOK, Ahead
<1> QED
  BY <1>1, FewLeft DEF Left

\* Every step of a fetch, of its workers or of its caller's context lowers what is left, a
\* natural number: no fetch goes on for ever, for any number of goroutines and segments.
THEOREM SegmentFetchEnds == Spec => [](Left \in Nat) /\ [][Left' < Left]_vars
<1>1. IInv => Left \in Nat
  BY LeftIsNat DEF IInv
<1>2. ASSUME IInv, IInv', Next PROVE Left' < Left
  <2>1. TypeOK /\ TypeOK'
    BY <1>2 DEF IInv
  <2>2. /\ {Cardinality(Unchecked), Cardinality(Untried), Cardinality(Unsettled), Cardinality(Staying)} \subseteq Nat
        /\ {Cardinality(Unchecked'), Cardinality(Untried'), Cardinality(Unsettled'), Cardinality(Staying')} \subseteq Nat
    <3>1. /\ IsFiniteSet(Unchecked) /\ IsFiniteSet(Untried) /\ IsFiniteSet(Unsettled) /\ IsFiniteSet(Staying)
      BY <2>1, FewLeft
    <3>2. NothingUndone
      BY <1>2, StepCounts
    <3> QED
      BY <2>1, <3>1, <3>2, FewLeft, FS_Subset, FS_CardinalityType DEF NothingUndone
  <2>3. /\ Ahead \in Nat /\ Ahead' \in Nat /\ next \in Nat /\ next' \in Nat /\ count \in Nat
        /\ parent \in BOOLEAN /\ parent' \in BOOLEAN
    BY <2>1, SegmentAssumption DEF TypeOK, Ahead
  <2>4. NothingUndone /\ SomethingDone
    BY <1>2, StepCounts
  <2>5. /\ Cardinality(Unchecked') <= Cardinality(Unchecked)
        /\ Unchecked' # Unchecked => Cardinality(Unchecked') < Cardinality(Unchecked)
    BY <2>1, <2>4, FewLeft, Fewer DEF NothingUndone
  <2>6. /\ Cardinality(Untried') <= Cardinality(Untried)
        /\ Untried' # Untried => Cardinality(Untried') < Cardinality(Untried)
    BY <2>1, <2>4, FewLeft, Fewer DEF NothingUndone
  <2>7. /\ Cardinality(Unsettled') <= Cardinality(Unsettled)
        /\ Unsettled' # Unsettled => Cardinality(Unsettled') < Cardinality(Unsettled)
    BY <2>1, <2>4, FewLeft, Fewer DEF NothingUndone
  <2>8. /\ Cardinality(Staying') <= Cardinality(Staying)
        /\ Staying' # Staying => Cardinality(Staying') < Cardinality(Staying)
    BY <2>1, <2>4, FewLeft, Fewer DEF NothingUndone
  <2>9. Left' = Ahead' + (count' + 1 - next') + Cardinality(Unchecked') + Cardinality(Untried')
                  + Cardinality(Unsettled') + Cardinality(Staying') + (IF parent' THEN 0 ELSE 1)
    BY DEF Left
  <2> QED
    BY <2>2, <2>3, <2>4, <2>5, <2>6, <2>7, <2>8, <2>9 DEF NothingUndone, SomethingDone, Left
<1> QED
  BY <1>1, <1>2, SegmentInvariance, PTL DEF Spec

\* The goroutines that were started wait for segments until the channel is closed.
LEMMA CrewStays == IInv /\ Crew /\ [Next]_vars => Crew'
<1> SUFFICES ASSUME IInv, Crew, [Next]_vars PROVE Crew'
  OBVIOUS
<1> USE SegmentAssumption DEF IInv, TypeOK, call, Workers, Phases, Crew
<1>1. CASE Refuse \/ NothingToDo \/ Start \/ Skip \/ Close \/ Judge \/ CancelParent
  BY <1>1 DEF Refuse, NothingToDo, Start, Skip, Close, Judge, Return, CancelParent
<1>2. ASSUME NEW w \in Workers, Send(w) PROVE Crew'
  BY <1>2 DEF Send
<1>3. ASSUME NEW w \in Workers, Exit(w) PROVE Crew'
  BY <1>3 DEF Exit, Go
<1>4. ASSUME NEW w \in Workers, Check(w) \/ Load(w) \/ LoadFails(w) \/ Keep(w) \/ Fail(w) PROVE Crew'
  <2>1. /\ UNCHANGED <<pc, count, closed>> /\ worker'[w] \notin {"gone", "off"}
        /\ \A v \in Workers \ {w} : worker'[v] = worker[v]
    BY <1>4 DEF Check, Load, LoadFails, Keep, Fail, Go
  <2> QED
    BY <2>1
<1>5. CASE UNCHANGED vars
  BY <1>5 DEF vars
<1> QED
  BY <1>1, <1>2, <1>3, <1>4, <1>5 DEF Next

\* Until the call has returned, its goroutine or a worker can take a step whatever the caller's
\* context does: nobody waits for a channel that nobody serves.
THEOREM SegmentNeverStuck == Spec => [](pc # "done" => CanMove)
<1>1. Init => Crew
  BY DEF Init, Crew
<1>2. IInv /\ Crew => (pc # "done" => CanMove)
  <2> SUFFICES ASSUME IInv, Crew, pc # "done" PROVE CanMove
    OBVIOUS
  <2>1. CASE pc = "start"
    BY <2>1 DEF CanMove
  <2>2. CASE pc = "send" /\ next > count
    BY <2>2 DEF CanMove
  <2>3. CASE pc = "send" /\ ~(next > count)
    <3>1. 1 \in Workers /\ 1 <= count
      BY <2>3, SegmentAssumption DEF IInv, TypeOK, Workers
    <3>2. worker[1] \in {"receive", "check", "load", "keep", "fail"}
      BY <2>3, <3>1 DEF IInv, TypeOK, Crew
    <3> QED
      BY <2>3, <3>1, <3>2 DEF CanMove, Busy
  <2>4. CASE pc = "wait"
    BY <2>4 DEF IInv, TypeOK, Crew, CanMove, AllGone, Busy
  <2> QED
    BY <2>1, <2>2, <2>3, <2>4 DEF IInv, TypeOK
<1> QED
  BY <1>1, <1>2, CrewStays, SegmentInvariance, PTL DEF Spec

================================================================================
