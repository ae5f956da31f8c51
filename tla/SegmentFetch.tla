------------------------------ MODULE SegmentFetch ------------------------------
(***************************************************************************)
(* One upstream fetch that is cut into segments, by worker goroutines that *)
(* take segment numbers from an unbuffered channel.                        *)
(*                                                                         *)
(* kind "strict" is fetchCatalogSegments (catalog_upstream.go; Tencent and *)
(* Youku): the first error cancels the rest and is the answer.  "tolerant" *)
(* is fetchSegments of iqiyi.go: a segment that fails is left out.            *)
(***************************************************************************)
EXTENDS Integers, FiniteSetsExt

CONSTANTS
    MaxWorkers,   \* goroutines of a call: four, or iqiyiSegmentConcurrency
    Counts,       \* numbers of segments a call may be made with
    CountLimit,   \* most segments of a strict call
    Sizes,        \* how many comments a segment may have
    SizeLimit     \* most comments of a strict call

ASSUME SegmentAssumption ==
    /\ MaxWorkers \in Nat \ {0}
    /\ Counts \subseteq Nat
    /\ CountLimit \in Nat
    /\ Sizes \subseteq Nat
    /\ SizeLimit \in Nat

Workers == 1 .. MaxWorkers
Kinds == {"strict", "tolerant"}
Errors == {"count", "size", "upstream", "context"}

VARIABLES
    kind,      \* which of the two functions runs
    count,     \* it is called for segments 1 .. count
    size,      \* the comments upstream has for each
    pc,        \* the calling goroutine
    next,      \* the segment it offers on the channel
    closed,    \* the channel is closed
    parent,    \* the caller's context is cancelled
    stopped,   \* the call has cancelled its own context
    worker,    \* what each goroutine does
    job,       \* the segment it has taken
    error,     \* the error its load gave
    fate,      \* history: what became of each segment
    data,      \* segments whose comments are kept
    total,     \* comments counted so far
    first,     \* the error that stopped the call
    answer     \* what the call returned

call == <<kind, count, size>>
vars == <<call, pc, next, closed, parent, stopped, worker, job, error, fate, data, total, first, answer>>

Segments == 1 .. count

TypeOK ==
    /\ kind \in Kinds
    /\ count \in Counts
    /\ size \in [Segments -> Sizes]
    /\ pc \in {"start", "send", "wait", "done"}
    /\ next \in 1 .. count + 1
    /\ closed \in BOOLEAN
    /\ parent \in BOOLEAN
    /\ stopped \in BOOLEAN
    /\ worker \in [Workers -> {"off", "receive", "check", "load", "keep", "fail", "gone"}]
    /\ job \in [Workers -> 0 .. count]
    /\ error \in [Workers -> Errors \cup {"none"}]
    /\ fate \in [Segments -> {"none", "skipped", "loaded", "upstream", "context"}]
    /\ data \subseteq Segments
    /\ total \in Nat
    /\ first \in Errors \cup {"none"}
    /\ answer \in Errors \cup {"none", "data"}

Init ==
    /\ kind \in Kinds
    /\ count \in Counts
    /\ size \in [Segments -> Sizes]
    /\ pc = "start"
    /\ next = 1
    /\ closed = FALSE
    /\ parent = FALSE
    /\ stopped = FALSE
    /\ worker = [w \in Workers |-> "off"]
    /\ job = [w \in Workers |-> 0]
    /\ error = [w \in Workers |-> "none"]
    /\ fate = [n \in Segments |-> "none"]
    /\ data = {}
    /\ total = 0
    /\ first = "none"
    /\ answer = "none"

--------------------------------------------------------------------------------
(* The calling goroutine *)

Cancelled == parent \/ stopped

Return(a) == pc' = "done" /\ answer' = a

\* Too many segments, or none: no goroutine is started for either.
Refuse ==
    /\ pc = "start"
    /\ kind = "strict"
    /\ count > CountLimit
    /\ Return("count")
    /\ UNCHANGED <<call, next, closed, parent, stopped, worker, job, error, fate, data, total, first>>

NothingToDo ==
    /\ pc = "start"
    /\ kind = "tolerant"
    /\ count = 0
    /\ Return("data")
    /\ UNCHANGED <<call, next, closed, parent, stopped, worker, job, error, fate, data, total, first>>

Start ==
    /\ pc = "start"
    /\ kind = "strict" => count <= CountLimit
    /\ kind = "tolerant" => count > 0
    /\ worker' = [w \in Workers |-> IF w <= count THEN "receive" ELSE "off"]
    /\ pc' = "send"
    /\ UNCHANGED <<call, next, closed, parent, stopped, job, error, fate, data, total, first, answer>>

\* The channel is unbuffered: a segment is sent when a worker receives it.
Send(w) ==
    /\ pc = "send"
    /\ next <= count
    /\ worker[w] = "receive"
    /\ job' = [job EXCEPT ![w] = next]
    /\ worker' = [worker EXCEPT ![w] = IF kind = "strict" THEN "check" ELSE "load"]
    /\ next' = next + 1
    /\ UNCHANGED <<call, pc, closed, parent, stopped, error, fate, data, total, first, answer>>

\* A strict call goes through the segments that are left without sending them.
Skip ==
    /\ pc = "send"
    /\ kind = "strict"
    /\ next <= count
    /\ Cancelled
    /\ fate' = [fate EXCEPT ![next] = "skipped"]
    /\ next' = next + 1
    /\ UNCHANGED <<call, pc, closed, parent, stopped, worker, job, error, data, total, first, answer>>

\* close(jobs), after the last segment or, tolerant, when the context is done.
Close ==
    /\ pc = "send"
    /\ \/ next > count
       \/ kind = "tolerant" /\ Cancelled
    /\ closed' = TRUE
    /\ pc' = "wait"
    /\ UNCHANGED <<call, next, parent, stopped, worker, job, error, fate, data, total, first, answer>>

AllGone == \A w \in Workers : worker[w] \in {"off", "gone"}
SizeOf(S) == MapThenSumSet(LAMBDA n : size[n], S)

\* After wait: the first error, then the context, then the segments in order.
Mut_JudgeFirstOnly ==
    /\ pc = "wait"
    /\ AllGone
    /\ Return(IF first # "none" THEN first
              ELSE IF kind = "strict" /\ Cancelled THEN "context"
              ELSE "data")
    /\ UNCHANGED <<call, next, closed, parent, stopped, worker, job, error, fate, data, total, first>>

Mut_JudgeAtOnce ==
    /\ pc = "wait"
    /\ Return(IF first # "none" THEN first
              ELSE IF Cancelled THEN "context"
              ELSE IF kind = "strict" /\ SizeOf(data) > SizeLimit THEN "size"
              ELSE "data")
    /\ UNCHANGED <<call, next, closed, parent, stopped, worker, job, error, fate, data, total, first>>

Judge ==
    /\ pc = "wait"
    /\ AllGone
    /\ Return(IF first # "none" THEN first
              ELSE IF Cancelled THEN "context"
              ELSE IF kind = "strict" /\ SizeOf(data) > SizeLimit THEN "size"
              ELSE "data")
    /\ UNCHANGED <<call, next, closed, parent, stopped, worker, job, error, fate, data, total, first>>

--------------------------------------------------------------------------------
(* A worker *)

Go(w, l) == worker' = [worker EXCEPT ![w] = l]

Exit(w) ==
    /\ worker[w] = "receive"
    /\ closed
    /\ Go(w, "gone")
    /\ UNCHANGED <<call, pc, next, closed, parent, stopped, job, error, fate, data, total, first, answer>>

\* A strict worker looks at the context before it loads.
Check(w) ==
    /\ worker[w] = "check"
    /\ IF Cancelled
       THEN Go(w, "receive") /\ fate' = [fate EXCEPT ![job[w]] = "skipped"]
       ELSE Go(w, "load") /\ UNCHANGED fate
    /\ UNCHANGED <<call, pc, next, closed, parent, stopped, job, error, data, total, first, answer>>

\* What was loaded is added to the total, which may be too large then.
Mut_RefuseAtLimit(w) ==
    /\ worker[w] = "load"
    /\ fate' = [fate EXCEPT ![job[w]] = "loaded"]
    /\ total' = IF kind = "strict" THEN total + size[job[w]] ELSE total
    /\ IF total' >= SizeLimit
       THEN Go(w, "fail") /\ error' = [error EXCEPT ![w] = "size"]
       ELSE Go(w, "keep") /\ UNCHANGED error
    /\ UNCHANGED <<call, pc, next, closed, parent, stopped, job, data, first, answer>>

Load(w) ==
    /\ worker[w] = "load"
    /\ fate' = [fate EXCEPT ![job[w]] = "loaded"]
    /\ total' = IF kind = "strict" THEN total + size[job[w]] ELSE total
    /\ IF total' > SizeLimit
       THEN Go(w, "fail") /\ error' = [error EXCEPT ![w] = "size"]
       ELSE Go(w, "keep") /\ UNCHANGED error
    /\ UNCHANGED <<call, pc, next, closed, parent, stopped, job, data, first, answer>>

LoadFails(w) ==
    /\ worker[w] = "load"
    /\ \E e \in {"upstream", "context"} :
         /\ e = "context" => Cancelled
         /\ fate' = [fate EXCEPT ![job[w]] = e]
         /\ error' = [error EXCEPT ![w] = e]
    /\ Go(w, "fail")
    /\ UNCHANGED <<call, pc, next, closed, parent, stopped, job, data, total, first, answer>>

Keep(w) ==
    /\ worker[w] = "keep"
    /\ data' = data \cup {job[w]}
    /\ Go(w, "receive")
    /\ UNCHANGED <<call, pc, next, closed, parent, stopped, job, error, fate, total, first, answer>>

Mut_LastError(w) ==
    /\ worker[w] = "fail"
    /\ Go(w, "receive")
    /\ IF kind = "strict"
       THEN first' = error[w] /\ stopped' = TRUE
       ELSE UNCHANGED <<first, stopped>>
    /\ UNCHANGED <<call, pc, next, closed, parent, job, error, fate, data, total, answer>>

Mut_FailWithoutError(w) ==
    /\ worker[w] = "fail"
    /\ Go(w, "receive")
    /\ UNCHANGED <<call, pc, next, closed, parent, stopped, job, error, fate, data, total, first, answer>>

Mut_QuitOnError(w) ==
    /\ worker[w] = "fail"
    /\ Go(w, "gone")
    /\ IF kind = "strict" /\ first = "none"
       THEN first' = error[w] /\ stopped' = TRUE
       ELSE UNCHANGED <<first, stopped>>
    /\ UNCHANGED <<call, pc, next, closed, parent, job, error, fate, data, total, answer>>

\* once.Do: the first error is kept and cancels the rest.  A tolerant worker goes on.
Fail(w) ==
    /\ worker[w] = "fail"
    /\ Go(w, "receive")
    /\ IF kind = "strict" /\ first = "none"
       THEN first' = error[w] /\ stopped' = TRUE
       ELSE UNCHANGED <<first, stopped>>
    /\ UNCHANGED <<call, pc, next, closed, parent, job, error, fate, data, total, answer>>

--------------------------------------------------------------------------------

\* The caller's context: the job's deadline, or the shutdown of the server.
CancelParent ==
    /\ ~ parent
    /\ pc # "done"
    /\ parent' = TRUE
    /\ UNCHANGED <<call, pc, next, closed, stopped, worker, job, error, fate, data, total, first, answer>>

Caller == Refuse \/ NothingToDo \/ Start \/ (\E w \in Workers : Send(w)) \/ Skip \/ Close \/ Judge
Work(w) == Exit(w) \/ Check(w) \/ Load(w) \/ LoadFails(w) \/ Keep(w) \/ Fail(w)

Next ==
    \/ Refuse \/ NothingToDo \/ Start \/ Skip \/ Close \/ Judge
    \/ \E w \in Workers :
         Send(w) \/ Exit(w) \/ Check(w) \/ Load(w) \/ LoadFails(w) \/ Keep(w) \/ Fail(w)
    \/ CancelParent

Spec == Init /\ [][Next]_vars

\* Every goroutine is scheduled, and every load ends: the HTTP client has a timeout.
Fairness == WF_vars(Caller) /\ \A w \in Workers : WF_vars(Work(w))

FairSpec == Spec /\ Fairness

--------------------------------------------------------------------------------
(* Properties *)

\* "A failed segment fails the sync as a whole; it never marks an incomplete
\* fetch fresh" (catalog_upstream.go).
StrictIsComplete ==
    (answer = "data" /\ kind = "strict") =>
        /\ data = Segments
        /\ \A n \in Segments : fate[n] = "loaded"

\* docs/compatibility.md, 2.5.0: a failed segment does not discard the others.
\* Every segment has been tried, and a call that was cancelled is no answer.
TolerantKeepsLoaded ==
    (answer = "data" /\ kind = "tolerant") =>
        /\ data = {n \in Segments : fate[n] = "loaded"}
        /\ \A n \in Segments : fate[n] \in {"loaded", "upstream"}

\* The limit counts every segment, and only what exceeds it is refused.
SizeRespected ==
    kind = "strict" =>
        /\ answer = "data" => SizeOf(Segments) <= SizeLimit
        /\ answer = "size" => SizeOf(Segments) > SizeLimit

\* The cause is reported, never the cancellation that it brings about itself.
CauseReported ==
    /\ answer = "context" => parent
    /\ answer = "upstream" => kind = "strict" /\ \E n \in Segments : fate[n] = "upstream"

\* The call returns when its goroutines have ended, so that nobody writes to
\* what it has returned.
Joined == pc = "done" => \A w \in Workers : worker[w] \in {"off", "gone"}

\* The calling goroutine never blocks for ever on a channel nobody reads.
Returns == <>(pc = "done")

================================================================================
