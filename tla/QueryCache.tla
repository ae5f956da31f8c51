------------------------------ MODULE QueryCache ------------------------------
(***************************************************************************)
(* One entry of the console's query cache, the screen that watches it, and *)
(* the calls useApiMutation makes meanwhile.                               *)
(*                                                                         *)
(* The cache is TanStack Query's, modelled from how the console uses it:   *)
(* a watched entry is fetched when it is mounted or focused and not fresh; *)
(* invalidating an entry refetches it if it is watched, and replaces the   *)
(* fetch under way only if the entry has data; any answer that arrives     *)
(* makes the entry valid again.                                            *)
(*                                                                         *)
(* Data is abstracted to what it lacks: the calls the server applied after *)
(* it was read, among those that change a fact the entry shows.            *)
(***************************************************************************)
EXTENDS ConsoleScreens, Naturals

CONSTANT Calls   \* the calls of a session, each made at most once

VARIABLES
  role,       \* what each call's operation is to this entry
  watching,   \* the entry is on screen
  entry,      \* the entry in the cache
  flight,     \* the fetch of it
  client,     \* where each call is in useApiMutation
  server,     \* what the server made of it
  answer,     \* what the browser was told
  overtaken,  \* calls whose invalidation met an older fetch that it could not replace
  late        \* calls applied after the browser had given up on them

vars == <<role, watching, entry, flight, client, server, answer, overtaken, late>>

Empty    == [data |-> FALSE, lacks |-> {}, valid |-> FALSE, failed |-> FALSE]
NoFlight == [state |-> "none", lacks |-> {}, waiters |-> {}, tries |-> 0]
Sent(waiters) == [state |-> "sent", lacks |-> {}, waiters |-> waiters, tries |-> 0]

TypeOK ==
  /\ role \in [Calls -> [affects : BOOLEAN, offered : BOOLEAN, always : BOOLEAN,
                        invalidates : BOOLEAN, gap : BOOLEAN]]
  /\ watching \in BOOLEAN
  /\ entry \in [data : BOOLEAN, lacks : SUBSET Calls, valid : BOOLEAN, failed : BOOLEAN]
  /\ flight \in [state : {"none", "sent", "read"}, lacks : SUBSET Calls,
                 waiters : SUBSET Calls, tries : 0..1]
  /\ client \in [Calls -> {"idle", "waiting", "tidying", "refreshing", "done", "failed"}]
  /\ server \in [Calls -> {"idle", "running", "applied", "refused"}]
  /\ answer \in [Calls -> {"none", "success", "error"}]
  /\ overtaken \subseteq Calls
  /\ late \subseteq Calls

\* Any entry of the console and any operations that have to do with it.
Init ==
  /\ \E q \in Queries :
       role \in [Calls -> {Role(o, q) : o \in {o \in Ops : <<o, q>> \in Affects \cup Invalidates \cup Always}}]
  /\ watching = FALSE
  /\ entry = Empty
  /\ flight = NoFlight
  /\ client = [c \in Calls |-> "idle"]
  /\ server = [c \in Calls |-> "idle"]
  /\ answer = [c \in Calls |-> "none"]
  /\ overtaken = {}
  /\ late = {}

-----------------------------------------------------------------------------
(* The entry. *)

\* The user goes where the entry is shown.  Mounting an entry that is not valid, or no
\* longer fresh, fetches it; a fetch under way is joined.
Mount ==
  \E stale \in BOOLEAN :
    /\ ~watching /\ watching' = TRUE
    /\ flight' = IF flight.state = "none" /\ (stale \/ ~entry.valid) THEN Sent({}) ELSE flight
    /\ UNCHANGED <<role, entry, client, server, answer, overtaken, late>>

\* The user goes elsewhere: to another page, tab or dialog, or to other rows of the list.
Leave ==
  /\ watching /\ watching' = FALSE
  /\ UNCHANGED <<role, entry, flight, client, server, answer, overtaken, late>>

\* The window gets the focus and the entry is not fresh, or the user asks for another
\* try after an error.
Refetch ==
  /\ watching /\ flight.state = "none"
  /\ flight' = Sent({})
  /\ UNCHANGED <<role, watching, entry, client, server, answer, overtaken, late>>

\* The server reads the facts.
ServerReads ==
  /\ flight.state = "sent"
  /\ flight' = [flight EXCEPT !.state = "read"]
  /\ UNCHANGED <<role, watching, entry, client, server, answer, overtaken, late>>

Arrives ==
  /\ flight.state = "read"
  /\ entry' = [data |-> TRUE, lacks |-> flight.lacks, valid |-> TRUE, failed |-> FALSE]
  /\ flight' = NoFlight
  /\ UNCHANGED <<role, watching, client, server, answer, overtaken, late>>

\* A fetch that fails is tried once more, then the entry is in error.
Fails ==
  /\ flight.state # "none"
  /\ IF flight.tries = 0
     THEN /\ flight' = [flight EXCEPT !.state = "sent", !.lacks = {}, !.tries = 1]
          /\ UNCHANGED entry
     ELSE /\ flight' = NoFlight
          /\ entry' = [entry EXCEPT !.valid = FALSE, !.failed = TRUE]
  /\ UNCHANGED <<role, watching, client, server, answer, overtaken, late>>

\* Nobody has watched the entry for a while.
Forget ==
  /\ ~watching /\ flight.state = "none" /\ entry # Empty
  /\ entry' = Empty
  /\ UNCHANGED <<role, watching, flight, client, server, answer, overtaken, late>>

\* invalidateQueries, awaited by call c: an entry that is watched is refetched, in the
\* place of the fetch under way if it has data; without data that fetch is joined.
Invalidate(c) ==
  /\ entry' = [entry EXCEPT !.valid = FALSE]
  /\ flight' = IF ~watching THEN flight
               ELSE IF entry.data \/ flight.state = "none" THEN Sent({c})
               ELSE [flight EXCEPT !.waiters = @ \cup {c}]
  /\ overtaken' = IF c \in flight.lacks /\ ~(watching /\ entry.data)
                  THEN overtaken \cup {c} ELSE overtaken

InvalidateIf(c, told) ==
  IF told THEN Invalidate(c) ELSE UNCHANGED <<entry, flight, overtaken>>

-----------------------------------------------------------------------------
(* The calls. *)

\* The user calls the operation, from a screen that offers it.
Call(c) ==
  /\ client[c] = "idle"
  /\ watching => role[c].offered
  /\ client' = [client EXCEPT ![c] = "waiting"]
  /\ server' = [server EXCEPT ![c] = "running"]
  /\ UNCHANGED <<role, watching, entry, flight, answer, overtaken, late>>

\* The server commits it: what was read before lacks it.
Apply(c) ==
  /\ server[c] = "running"
  /\ server' = [server EXCEPT ![c] = "applied"]
  /\ IF role[c].affects
     THEN /\ entry' = IF entry.data THEN [entry EXCEPT !.lacks = @ \cup {c}] ELSE entry
          /\ flight' = IF flight.state = "read" THEN [flight EXCEPT !.lacks = @ \cup {c}] ELSE flight
     ELSE UNCHANGED <<entry, flight>>
  /\ late' = IF client[c] = "waiting" THEN late ELSE late \cup {c}
  /\ UNCHANGED <<role, watching, client, answer, overtaken>>

Refuse(c) ==
  /\ server[c] = "running"
  /\ server' = [server EXCEPT ![c] = "refused"]
  /\ UNCHANGED <<role, watching, entry, flight, client, answer, overtaken, late>>

Mut_Answer(c) ==
  /\ client[c] = "waiting"
  /\ \E a \in {"success", "error"} :
       /\ a = "success" => server[c] = "applied"
       /\ answer' = [answer EXCEPT ![c] = a]
       /\ InvalidateIf(c, role[c].always /\ a = "success")
  /\ client' = [client EXCEPT ![c] = "tidying"]
  /\ UNCHANGED <<role, watching, server, late>>

\* The answer, or the connection is lost: then the call may have been applied, half
\* applied (a creation whose binding failed), or be applied later.
Answer(c) ==
  /\ client[c] = "waiting"
  /\ \E a \in {"success", "error"} :
       /\ a = "success" => server[c] = "applied"
       /\ answer' = [answer EXCEPT ![c] = a]
  /\ client' = [client EXCEPT ![c] = "tidying"]
  /\ InvalidateIf(c, role[c].always)
  /\ UNCHANGED <<role, watching, server, late>>

\* What was invalidated in any case has been refetched; onSuccess of the hook follows a
\* success, an error ends the call.
Tidied(c) ==
  /\ client[c] = "tidying" /\ c \notin flight.waiters
  /\ IF answer[c] = "success"
     THEN /\ client' = [client EXCEPT ![c] = "refreshing"]
          /\ InvalidateIf(c, role[c].invalidates)
     ELSE /\ client' = [client EXCEPT ![c] = "failed"]
          /\ UNCHANGED <<entry, flight, overtaken>>
  /\ UNCHANGED <<role, watching, server, answer, late>>

\* isPending ends when the refetches have.
Refreshed(c) ==
  /\ client[c] = "refreshing" /\ c \notin flight.waiters
  /\ client' = [client EXCEPT ![c] = "done"]
  /\ UNCHANGED <<role, watching, entry, flight, server, answer, overtaken, late>>

Next ==
  \/ Mount \/ Leave \/ Refetch \/ ServerReads \/ Arrives \/ Fails \/ Forget
  \/ \E c \in Calls : Call(c) \/ Apply(c) \/ Refuse(c) \/ Answer(c) \/ Tidied(c) \/ Refreshed(c)

Spec == Init /\ [][Next]_vars

-----------------------------------------------------------------------------
(* Properties. *)

\* What is on screen, with nothing being fetched and no error shown.
OnScreen == watching /\ entry.data /\ flight.state = "none" /\ ~entry.failed

\* A call that is reported as a success is in what the screen shows from then on, on
\* every page the user goes to: but for the gaps, and for the calls whose invalidation
\* met an older fetch of an entry without data or without a watcher.
ReportedIsShown ==
  OnScreen =>
    \A c \in entry.lacks : client[c] = "done" => c \in overtaken \/ role[c].gap

\* A creation that ends in an error is shown as far as the server got with it before
\* the error was reported, wherever usePoolVideoBinding names the key.
CreatedIsShown ==
  OnScreen =>
    \A c \in entry.lacks :
      client[c] = "failed" /\ role[c].always => c \in overtaken \cup late
=============================================================================
