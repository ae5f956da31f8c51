--------------------------- MODULE ServiceLifecycle ----------------------------
(***************************************************************************)
(* The life of the process, run() of cmd/danmaku/main.go, around the pool  *)
(* of passive refreshes: requests that read the repository and schedule a  *)
(* refresh when they are done, a signal or a failed listener that ends the *)
(* wait of run(), and the deferred calls, last one first: the listeners,   *)
(* Server.Close, which joins the refreshes, then the repository.           *)
(***************************************************************************)
EXTENDS BackgroundRefresh

CONSTANT Requests   \* concurrent HTTP requests (bound of the model)

VARIABLES
    main,        \* where run() is
    accepting,   \* the HTTP server still starts requests
    request,     \* what each request is doing
    repository,  \* Close() shuts the Redis client, then drains the pool
    graceful,    \* Shutdown returned because no request was left
    stale        \* a committed write could not switch the cache revision

lifeVars == <<main, accepting, request, repository, graceful, stale>>
vars == <<refreshVars, lifeVars>>

\* A request is "idle", "working", "querying", "writing" or "committed": the third
\* and the fourth hold a connection of the pool, the last has given it back and has
\* the invalidation of the caches still to do.
InFlight == {r \in Requests : request[r] # "idle"}
HoldsConnection(r) == request[r] \in {"querying", "writing"}

Init ==
    /\ RefreshInit
    /\ main = "serving"
    /\ accepting = TRUE
    /\ request = [r \in Requests |-> "idle"]
    /\ repository = "open"
    /\ graceful = FALSE
    /\ stale = FALSE

--------------------------------------------------------------------------------
(* Requests *)

Move(r, from, to) ==
    /\ main # "exited"
    /\ request[r] = from
    /\ request' = [request EXCEPT ![r] = to]
    /\ UNCHANGED <<main, accepting, repository, graceful>>

Arrive(r) == accepting /\ Move(r, "idle", "working") /\ UNCHANGED <<refreshVars, stale>>

\* A connection is acquired for a read or a transaction; a closed pool refuses.
Acquire(r) ==
    /\ repository \in {"open", "redisClosed"}
    /\ \E use \in {"querying", "writing"} : Move(r, "working", use)
    /\ UNCHANGED <<refreshVars, stale>>

QueryEnds(r) == Move(r, "querying", "working") /\ UNCHANGED <<refreshVars, stale>>

WriteEnds(r) ==
    /\ \E end \in {"working", "committed"} : Move(r, "writing", end)
    /\ UNCHANGED <<refreshVars, stale>>

\* invalidateDanmakuCache after the commit; the error of a closed client is dropped.
Invalidate(r) ==
    /\ Move(r, "committed", "working")
    /\ stale' = (stale \/ repository # "open")
    /\ UNCHANGED refreshVars

\* The deferred refreshPool of a read: admitted, or silently refused.
ScheduleRefresh(r) ==
    /\ main # "exited"
    /\ request[r] = "working"
    /\ \E k \in Keys : Schedule(k)
    /\ UNCHANGED lifeVars

Reply(r) == Move(r, "working", "idle") /\ UNCHANGED <<refreshVars, stale>>

\* A refresh goroutine, which dies with the process.
RefreshStep ==
    /\ main # "exited"
    /\ \E w \in Workers : Work(w) \/ Expire(w)
    /\ UNCHANGED lifeVars

--------------------------------------------------------------------------------
(* run() *)

\* SIGINT or SIGTERM: the signal context, parent of r.ctx, is done.
Signal == main = "serving" /\ CancelParent /\ UNCHANGED lifeVars

\* select, <-ctx.Done(): Shutdown stops accepting and waits for the requests.
BeginShutdown ==
    /\ main = "serving"
    /\ cancelled
    /\ main' = "shutdown"
    /\ accepting' = FALSE
    /\ UNCHANGED <<refreshVars, request, repository, graceful, stale>>

Mut_ShutdownReturnsAtOnce ==
    /\ main = "shutdown"
    /\ main' = "deferred"
    /\ graceful' = TRUE
    /\ UNCHANGED <<refreshVars, accepting, request, repository, stale>>

ShutdownReturns ==
    /\ main = "shutdown"
    /\ InFlight = {}
    /\ main' = "deferred"
    /\ graceful' = TRUE
    /\ UNCHANGED <<refreshVars, accepting, request, repository, stale>>

\* The fifteen seconds of Shutdown's own context run out.
ShutdownTimesOut ==
    /\ main = "shutdown"
    /\ main' = "deferred"
    /\ UNCHANGED <<refreshVars, accepting, request, repository, graceful, stale>>

\* select, <-errorsChannel: run() returns without Shutdown, so the server goes on
\* accepting (on its other listener, then on connections it keeps alive).
ListenerFails ==
    /\ main = "serving"
    /\ main' = "deferred"
    /\ UNCHANGED <<refreshVars, accepting, request, repository, graceful, stale>>

Mut_CloseRepositoryFirst ==
    /\ main = "deferred"
    /\ repository' = "closed"
    /\ CloseBegin
    /\ main' = "closing"
    /\ UNCHANGED <<accepting, request, graceful, stale>>

\* Deferred: handler.Close(), up to r.wg.Wait().
CloseHandler ==
    /\ main = "deferred"
    /\ CloseBegin
    /\ main' = "closing"
    /\ UNCHANGED <<accepting, request, repository, graceful, stale>>

JoinHandler == CloseJoin /\ UNCHANGED lifeVars

\* Deferred: repository.Close(), the Redis client first.
CloseRedis ==
    /\ main = "closing"
    /\ closer = "joined"
    /\ repository = "open"
    /\ repository' = "redisClosed"
    /\ UNCHANGED <<refreshVars, main, accepting, request, graceful, stale>>

\* The pool lends no connection any more.
ClosePool ==
    /\ repository = "redisClosed"
    /\ repository' = "draining"
    /\ UNCHANGED <<refreshVars, main, accepting, request, graceful, stale>>

Mut_PoolKeepsConnection ==
    /\ repository = "draining"
    /\ InFlight = {}
    /\ repository' = "closed"
    /\ UNCHANGED <<refreshVars, main, accepting, request, graceful, stale>>

\* It waits for the connections in use to come back.
PoolDrained ==
    /\ repository = "draining"
    /\ \A r \in Requests : ~HoldsConnection(r)
    /\ repository' = "closed"
    /\ UNCHANGED <<refreshVars, main, accepting, request, graceful, stale>>

\* run() returns and the process ends, with it every request still in flight.
Exit ==
    /\ main = "closing"
    /\ repository = "closed"
    /\ main' = "exited"
    /\ stale' = (stale \/ \E r \in Requests : request[r] = "committed")
    /\ UNCHANGED <<refreshVars, accepting, request, repository, graceful>>

Next ==
    \/ \E r \in Requests :
         \/ Arrive(r)
         \/ Acquire(r)
         \/ QueryEnds(r)
         \/ WriteEnds(r)
         \/ Invalidate(r)
         \/ ScheduleRefresh(r)
         \/ Reply(r)
    \/ RefreshStep
    \/ Signal
    \/ BeginShutdown
    \/ ShutdownReturns
    \/ ShutdownTimesOut
    \/ ListenerFails
    \/ CloseHandler
    \/ JoinHandler
    \/ CloseRedis
    \/ ClosePool
    \/ PoolDrained
    \/ Exit

Spec == Init /\ [][Next]_vars

\* run() is blocked by Shutdown, the join and the draining pool only, the timers
\* fire, and PostgreSQL answers; a request owes nothing else, which is what the
\* fifteen seconds are for.  The goroutines of the refreshes are fair as in
\* FairRefreshSpec while they live.
Live(A) == main # "exited" /\ A /\ UNCHANGED lifeVars
Fairness ==
    /\ WF_vars(BeginShutdown)
    /\ WF_vars(ShutdownTimesOut)
    /\ WF_vars(CloseHandler)
    /\ WF_vars(JoinHandler)
    /\ WF_vars(CloseRedis)
    /\ WF_vars(ClosePool)
    /\ WF_vars(PoolDrained)
    /\ WF_vars(Exit)
    /\ \A r \in Requests : WF_vars(QueryEnds(r)) /\ WF_vars(WriteEnds(r))
    /\ \A w \in Workers :
         /\ WF_vars(Live(GiveUp(w)))
         /\ WF_vars(Live(StartFetch(w)))
         /\ WF_vars(Live(Done(w) /\ FetchReturns(w)))
         /\ WF_vars(Live(ReleaseSlot(w)))
         /\ WF_vars(Live(ClearKey(w)))
         /\ WF_vars(Live(Leave(w)))

FairSpec == Spec /\ Fairness

--------------------------------------------------------------------------------
(* Properties *)

\* server.go: "Close cancels and joins upstream work before the repository is
\* closed".  A goroutine that may still use the repository finds it open, on
\* the path through Shutdown and on the one that skips it.
RepositoryOutlivesRefreshes == repository # "open" => Running = {}

\* A request meets a closing repository, and a write loses its invalidation,
\* only when Shutdown gave up on it or was skipped.
GracefulStopIsClean == graceful => InFlight = {} /\ ~stale

\* A signal or a failed listener ends the process, even when a request hangs
\* and every running fetch would wait for its upstream.
StopEndsTheProcess == (main # "serving" \/ cancelled) ~> main = "exited"

================================================================================
