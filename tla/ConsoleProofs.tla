----------------------------- MODULE ConsoleProofs -----------------------------
(***************************************************************************)
(* Proofs about the parts of the console.                                  *)
(*   - The query cache, for every number of calls; and the tables, for     *)
(*     whatever sources share the catalog page: each component's reads and *)
(*     calls are held against where each fact is shown (TablesCovered).    *)
(*   - The lists, for every number of values and pages, and the forms, for *)
(*     every number of openings and versions: what the tables of           *)
(*     ConsoleLists and ConsoleForms say of each (ListsAreSound,           *)
(*     FormsAreSound), and with it an invariant of one list or form,       *)
(*     whichever it is.                                                    *)
(***************************************************************************)
EXTENDS Console, TLAPS

Roles == [affects : BOOLEAN, offered : BOOLEAN, always : BOOLEAN, invalidates : BOOLEAN, gap : BOOLEAN]

\* The entry has been told of the call.
Told(c) ==
  \/ client[c] \in {"tidying", "refreshing", "done", "failed"} /\ role[c].always
  \/ client[c] \in {"refreshing", "done"} /\ role[c].invalidates

\* What the answer to a call says of the server.
AnswerInv ==
  \A c \in Calls :
    /\ client[c] = "idle" => server[c] = "idle"
    /\ client[c] \in {"idle", "waiting"} => c \notin late
    /\ answer[c] = "success" => server[c] = "applied" /\ c \notin late
    /\ client[c] \in {"refreshing", "done"} => answer[c] = "success"

\* A call that the entry was told of is in what it shows or will show, or the entry is
\* known to be out of date.
LacksInv ==
  /\ \A c \in entry.lacks : role[c].affects /\ server[c] = "applied"
  /\ \A c \in flight.lacks : role[c].affects /\ server[c] = "applied"
  /\ \A c \in entry.lacks : Told(c) => ~entry.valid \/ c \in overtaken \cup late
  /\ \A c \in flight.lacks : Told(c) => c \in overtaken \cup late

\* An entry on screen that is out of date is being fetched, or shows an error.
WatchInv == watching /\ entry.data /\ ~entry.valid /\ flight.state = "none" => entry.failed

GapInv == \A c \in Calls : role[c].affects => role[c].always \/ role[c].invalidates \/ role[c].gap

IInv == TypeOK /\ AnswerInv /\ LacksInv /\ WatchInv

EntryType  == [data : BOOLEAN, lacks : SUBSET Calls, valid : BOOLEAN, failed : BOOLEAN]
FlightType == [state : {"none", "sent", "read"}, lacks : SUBSET Calls,
               waiters : SUBSET Calls, tries : 0..1]

-----------------------------------------------------------------------------
\* Invalidating keeps the types of what it changes.
LEMMA InvalidateType ==
  ASSUME TypeOK, NEW c \in Calls, NEW told \in BOOLEAN, InvalidateIf(c, told)
  PROVE  entry' \in EntryType /\ flight' \in FlightType /\ overtaken' \subseteq Calls
<1>1. entry \in EntryType /\ flight \in FlightType /\ overtaken \subseteq Calls
  BY DEF TypeOK, EntryType, FlightType
<1>2. CASE ~told
  BY <1>1, <1>2 DEF InvalidateIf
<1>3. CASE told
  <2>1. Invalidate(c)
    BY <1>3 DEF InvalidateIf
  <2>2. entry' \in EntryType
    BY <1>1, <2>1 DEF Invalidate, EntryType
  <2>3. Sent({c}) \in FlightType
    BY DEF Sent, FlightType
  <2>4. [flight EXCEPT !.waiters = @ \cup {c}] \in FlightType
    BY <1>1 DEF FlightType
  <2>5. flight' \in FlightType
    BY <1>1, <2>1, <2>3, <2>4 DEF Invalidate
  <2> QED
    BY <1>1, <2>1, <2>2, <2>5 DEF Invalidate
<1> QED
  BY <1>2, <1>3

\* The initial states have the type.
LEMMA InitType == Init => TypeOK
<1> SUFFICES ASSUME Init PROVE TypeOK
  OBVIOUS
<1>1. PICK q \in Queries :
        role \in [Calls -> {Role(o, q) : o \in {o \in Ops : <<o, q>> \in Affects \cup Invalidates \cup Always}}]
  BY DEF Init
<1>2. \A o \in Ops : Role(o, q) \in Roles
  BY DEF Role, Roles
<1>3. role \in [Calls -> Roles]
  BY <1>1, <1>2
<1>4. Empty \in EntryType /\ NoFlight \in FlightType
  BY DEF Empty, NoFlight, EntryType, FlightType
<1>5. overtaken \subseteq Calls /\ late \subseteq Calls
  BY DEF Init
<1>6. /\ client \in [Calls -> {"idle", "waiting", "tidying", "refreshing", "done", "failed"}]
      /\ server \in [Calls -> {"idle", "running", "applied", "refused"}]
      /\ answer \in [Calls -> {"none", "success", "error"}]
  BY DEF Init
<1> QED
  BY <1>3, <1>4, <1>5, <1>6 DEF Init, TypeOK, Roles, EntryType, FlightType

\* Every step keeps it.
LEMMA NextType == TypeOK /\ [Next]_vars => TypeOK'
<1> SUFFICES ASSUME TypeOK, [Next]_vars PROVE TypeOK'
  OBVIOUS
<1> USE DEF TypeOK, Sent, NoFlight, Empty
<1>1. CASE Mount
  BY <1>1 DEF Mount
<1>2. CASE Leave
  BY <1>2 DEF Leave
<1>3. CASE Refetch
  BY <1>3 DEF Refetch
<1>4. CASE ServerReads
  BY <1>4 DEF ServerReads
<1>5. CASE Arrives
  BY <1>5 DEF Arrives
<1>6. CASE Fails
  <2> entry \in EntryType /\ flight \in FlightType
    BY DEF EntryType, FlightType
  <2>1. CASE flight.tries = 0
    <3>1. flight' = [flight EXCEPT !.state = "sent", !.lacks = {}, !.tries = 1]
      BY <1>6, <2>1 DEF Fails
    <3>2. flight' = [state |-> "sent", lacks |-> {}, waiters |-> flight.waiters, tries |-> 1]
      BY <3>1 DEF FlightType
    <3>3. flight.waiters \in SUBSET Calls
      BY DEF FlightType
    <3>4. flight' \in FlightType
      BY <3>2, <3>3 DEF FlightType
    <3> QED
      BY <1>6, <2>1, <3>4 DEF Fails, FlightType
  <2>2. CASE flight.tries # 0
    <3>1. NoFlight \in FlightType
      BY DEF FlightType
    <3>2. [entry EXCEPT !.valid = FALSE, !.failed = TRUE] \in EntryType
      BY DEF EntryType
    <3> QED
      BY <1>6, <2>2, <3>1, <3>2 DEF Fails, EntryType, FlightType
  <2> QED
    BY <2>1, <2>2
<1>7. CASE Forget
  BY <1>7 DEF Forget
<1>8. ASSUME NEW c \in Calls, Call(c) PROVE TypeOK'
  BY <1>8 DEF Call
<1>9. ASSUME NEW c \in Calls, Apply(c) PROVE TypeOK'
  BY SMTT(30), <1>9 DEF Apply
<1>10. ASSUME NEW c \in Calls, Refuse(c) PROVE TypeOK'
  BY <1>10 DEF Refuse
<1>11. ASSUME NEW c \in Calls, Answer(c) PROVE TypeOK'
  <2>1. role[c].always \in BOOLEAN
    BY DEF TypeOK
  <2>2. entry' \in EntryType /\ flight' \in FlightType /\ overtaken' \subseteq Calls
    BY <1>11, <2>1, InvalidateType DEF Answer
  <2> QED
    BY <1>11, <2>2 DEF Answer, EntryType, FlightType
<1>12. ASSUME NEW c \in Calls, Tidied(c) PROVE TypeOK'
  <2>1. role[c].invalidates \in BOOLEAN
    BY DEF TypeOK
  <2>2. entry' \in EntryType /\ flight' \in FlightType /\ overtaken' \subseteq Calls
    BY <1>12, <2>1, InvalidateType DEF Tidied, EntryType, FlightType
  <2> QED
    BY <1>12, <2>2 DEF Tidied, EntryType, FlightType
<1>13. ASSUME NEW c \in Calls, Refreshed(c) PROVE TypeOK'
  BY <1>13 DEF Refreshed
<1>14. CASE UNCHANGED vars
  BY <1>14 DEF vars
<1> QED
  BY <1>1, <1>2, <1>3, <1>4, <1>5, <1>6, <1>7, <1>8, <1>9, <1>10, <1>11, <1>12, <1>13, <1>14 DEF Next

\* Every variable keeps its type.
THEOREM TypeCorrect == Spec => []TypeOK
  BY InitType, NextType, PTL DEF Spec

-----------------------------------------------------------------------------
\* What an answer says of the server, by the order of a call's steps.
LEMMA AnswerStep == TypeOK /\ AnswerInv /\ [Next]_vars => AnswerInv'
<1> SUFFICES ASSUME TypeOK, AnswerInv, [Next]_vars PROVE AnswerInv'
  OBVIOUS
<1>1. AnswerInv'
  <2>1. CASE Mount
    BY <2>1 DEF Mount, AnswerInv, TypeOK, Sent, NoFlight, Empty
  <2>2. CASE Leave
    BY <2>2 DEF Leave, AnswerInv, TypeOK, Sent, NoFlight, Empty
  <2>3. CASE Refetch
    BY <2>3 DEF Refetch, AnswerInv, TypeOK, Sent, NoFlight, Empty
  <2>4. CASE ServerReads
    BY <2>4 DEF ServerReads, AnswerInv, TypeOK, Sent, NoFlight, Empty
  <2>5. CASE Arrives
    BY <2>5 DEF Arrives, AnswerInv, TypeOK, Sent, NoFlight, Empty
  <2>6. CASE Fails
    BY <2>6 DEF Fails, AnswerInv, TypeOK, Sent, NoFlight, Empty
  <2>7. CASE Forget
    BY <2>7 DEF Forget, AnswerInv, TypeOK, Sent, NoFlight, Empty
  <2>8. CASE UNCHANGED vars
    BY <2>8 DEF vars, AnswerInv, TypeOK, Sent, NoFlight, Empty
  <2>9. ASSUME NEW c \in Calls, Call(c) PROVE AnswerInv'
    BY <2>9 DEF Call, AnswerInv, TypeOK, Sent, NoFlight, Empty
  <2>10. ASSUME NEW c \in Calls, Apply(c) PROVE AnswerInv'
    BY <2>10 DEF Apply, AnswerInv, TypeOK, Sent, NoFlight, Empty
  <2>11. ASSUME NEW c \in Calls, Refuse(c) PROVE AnswerInv'
    BY <2>11 DEF Refuse, AnswerInv, TypeOK, Sent, NoFlight, Empty
  <2>12. ASSUME NEW c \in Calls, Answer(c) PROVE AnswerInv'
    BY <2>12 DEF Answer, InvalidateIf, Invalidate, AnswerInv, TypeOK, Sent, NoFlight, Empty
  <2>13. ASSUME NEW c \in Calls, Tidied(c) PROVE AnswerInv'
    BY <2>13 DEF Tidied, InvalidateIf, Invalidate, AnswerInv, TypeOK, Sent, NoFlight, Empty
  <2>14. ASSUME NEW c \in Calls, Refreshed(c) PROVE AnswerInv'
    BY <2>14 DEF Refreshed, AnswerInv, TypeOK, Sent, NoFlight, Empty
  <2> QED
    BY <2>1, <2>2, <2>3, <2>4, <2>5, <2>6, <2>7, <2>8, <2>9, <2>10, <2>11, <2>12, <2>13, <2>14 DEF Next
<1> QED
  BY <1>1

\* The entry and the fetch under way lack only what they were not told of.
LEMMA LacksStep == TypeOK /\ AnswerInv /\ LacksInv /\ [Next]_vars => LacksInv'
<1> SUFFICES ASSUME TypeOK, AnswerInv, LacksInv, [Next]_vars PROVE LacksInv'
  OBVIOUS
<1>1. LacksInv'
  <2>1. CASE Mount
    BY <2>1 DEF Mount, AnswerInv, LacksInv, Told, TypeOK, Sent, NoFlight, Empty
  <2>2. CASE Leave
    BY <2>2 DEF Leave, AnswerInv, LacksInv, Told, TypeOK, Sent, NoFlight, Empty
  <2>3. CASE Refetch
    BY <2>3 DEF Refetch, AnswerInv, LacksInv, Told, TypeOK, Sent, NoFlight, Empty
  <2>4. CASE ServerReads
    BY <2>4 DEF ServerReads, AnswerInv, LacksInv, Told, TypeOK, Sent, NoFlight, Empty
  <2>5. CASE Arrives
    BY <2>5 DEF Arrives, AnswerInv, LacksInv, Told, TypeOK, Sent, NoFlight, Empty
  <2>6. CASE Fails
    <3>1. UNCHANGED <<role, client, server, overtaken, late>>
      BY <2>6 DEF Fails
    <3>2. CASE flight.tries = 0
      <4>1. flight' = [flight EXCEPT !.state = "sent", !.lacks = {}, !.tries = 1] /\ entry' = entry
        BY <2>6, <3>2 DEF Fails
      <4>2. flight'.lacks = {}
        BY <4>1 DEF TypeOK
      <4> QED
        BY <3>1, <4>1, <4>2 DEF LacksInv, Told
    <3>3. CASE flight.tries # 0
      <4>1. flight' = NoFlight /\ entry' = [entry EXCEPT !.valid = FALSE, !.failed = TRUE]
        BY <2>6, <3>3 DEF Fails
      <4>2. flight'.lacks = {} /\ entry'.lacks = entry.lacks /\ ~entry'.valid
        BY <4>1 DEF TypeOK, NoFlight
      <4> QED
        BY <3>1, <4>1, <4>2 DEF LacksInv, Told
    <3> QED
      BY <3>2, <3>3
  <2>7. CASE Forget
    BY <2>7 DEF Forget, AnswerInv, LacksInv, Told, TypeOK, Sent, NoFlight, Empty
  <2>8. CASE UNCHANGED vars
    BY <2>8 DEF vars, AnswerInv, LacksInv, Told, TypeOK, Sent, NoFlight, Empty
  <2>9. ASSUME NEW c \in Calls, Call(c) PROVE LacksInv'
    BY <2>9 DEF Call, AnswerInv, LacksInv, Told, TypeOK, Sent, NoFlight, Empty
  <2>10. ASSUME NEW c \in Calls, Apply(c) PROVE LacksInv'
    <3>1. UNCHANGED <<role, watching, client, answer, overtaken>>
      BY <2>10 DEF Apply
    <3>2. server[c] = "running" /\ server' = [server EXCEPT ![c] = "applied"]
      BY <2>10 DEF Apply
    <3>3. /\ entry'.lacks \subseteq entry.lacks \cup {c} /\ entry'.valid = entry.valid
          /\ entry'.data = entry.data
      BY <2>10 DEF Apply, TypeOK
    <3>4. /\ flight'.lacks \subseteq flight.lacks \cup {c} /\ flight'.state = flight.state
          /\ flight'.waiters = flight.waiters
      BY <2>10 DEF Apply, TypeOK
    <3>5. late' = IF client[c] = "waiting" THEN late ELSE late \cup {c}
      BY <2>10 DEF Apply
    <3>6. c \in entry'.lacks \cup flight'.lacks => role[c].affects \/ c \in entry.lacks \cup flight.lacks
      BY <2>10 DEF Apply
    <3> QED
      BY <3>1, <3>2, <3>3, <3>4, <3>5, <3>6 DEF AnswerInv, LacksInv, Told, TypeOK
  <2>11. ASSUME NEW c \in Calls, Refuse(c) PROVE LacksInv'
    BY <2>11 DEF Refuse, AnswerInv, LacksInv, Told, TypeOK, Sent, NoFlight, Empty
  <2>12. ASSUME NEW c \in Calls, Answer(c) PROVE LacksInv'
    BY SMTT(30), <2>12 DEF Answer, InvalidateIf, Invalidate, AnswerInv, LacksInv, Told, TypeOK, Sent, NoFlight, Empty
  <2>13. ASSUME NEW c \in Calls, Tidied(c) PROVE LacksInv'
    <3>1. CASE answer[c] = "success" /\ role[c].invalidates
      <4>1. /\ Invalidate(c)
            /\ client' = [client EXCEPT ![c] = "refreshing"]
            /\ UNCHANGED <<role, server, late>>
        BY <2>13, <3>1 DEF Tidied, InvalidateIf
      <4>2. entry'.lacks = entry.lacks /\ ~entry'.valid
        BY <4>1 DEF Invalidate, TypeOK
      <4>3. /\ flight'.lacks \subseteq flight.lacks
            /\ c \in flight'.lacks => c \in overtaken'
            /\ overtaken \subseteq overtaken'
        <5>1. CASE watching /\ (entry.data \/ flight.state = "none")
          <6>1. flight'.lacks = {}
            BY <4>1, <5>1 DEF Invalidate, Sent
          <6> QED
            BY <4>1, <6>1 DEF Invalidate
        <5>2. CASE ~(watching /\ (entry.data \/ flight.state = "none"))
          <6>1. flight'.lacks = flight.lacks
            BY <4>1, <5>2 DEF Invalidate, TypeOK
          <6> QED
            BY <4>1, <5>2, <6>1 DEF Invalidate
        <5> QED
          BY <5>1, <5>2
      <4>4. \A d \in Calls \ {c} : Told(d)' <=> Told(d)
        BY <4>1 DEF Told
      <4>5. flight.lacks \subseteq Calls
        BY DEF TypeOK
      <4> QED
        BY <4>1, <4>2, <4>3, <4>4, <4>5 DEF LacksInv
    <3>2. CASE answer[c] = "success" /\ ~role[c].invalidates
      BY <2>13, <3>2 DEF Tidied, InvalidateIf, AnswerInv, LacksInv, Told, TypeOK
    <3>3. CASE answer[c] # "success"
      BY <2>13, <3>3 DEF Tidied, AnswerInv, LacksInv, Told, TypeOK
    <3> QED
      BY <3>1, <3>2, <3>3
  <2>14. ASSUME NEW c \in Calls, Refreshed(c) PROVE LacksInv'
    BY <2>14 DEF Refreshed, AnswerInv, LacksInv, Told, TypeOK, Sent, NoFlight, Empty
  <2> QED
    BY <2>1, <2>2, <2>3, <2>4, <2>5, <2>6, <2>7, <2>8, <2>9, <2>10, <2>11, <2>12, <2>13, <2>14 DEF Next
<1> QED
  BY <1>1

\* Whatever makes an entry on screen out of date starts a fetch of it.
LEMMA WatchStep == TypeOK /\ WatchInv /\ [Next]_vars => WatchInv'
<1> SUFFICES ASSUME TypeOK, WatchInv, [Next]_vars PROVE WatchInv'
  OBVIOUS
<1>1. WatchInv'
  <2>1. CASE Mount
    BY <2>1 DEF Mount, WatchInv, TypeOK, Sent, NoFlight, Empty
  <2>2. CASE Leave
    BY <2>2 DEF Leave, WatchInv, TypeOK, Sent, NoFlight, Empty
  <2>3. CASE Refetch
    BY <2>3 DEF Refetch, WatchInv, TypeOK, Sent, NoFlight, Empty
  <2>4. CASE ServerReads
    BY <2>4 DEF ServerReads, WatchInv, TypeOK, Sent, NoFlight, Empty
  <2>5. CASE Arrives
    BY <2>5 DEF Arrives, WatchInv, TypeOK, Sent, NoFlight, Empty
  <2>6. CASE Fails
    BY <2>6 DEF Fails, WatchInv, TypeOK, Sent, NoFlight, Empty
  <2>7. CASE Forget
    BY <2>7 DEF Forget, WatchInv, TypeOK, Sent, NoFlight, Empty
  <2>8. CASE UNCHANGED vars
    BY <2>8 DEF vars, WatchInv, TypeOK, Sent, NoFlight, Empty
  <2>9. ASSUME NEW c \in Calls, Call(c) PROVE WatchInv'
    BY <2>9 DEF Call, WatchInv, TypeOK, Sent, NoFlight, Empty
  <2>10. ASSUME NEW c \in Calls, Apply(c) PROVE WatchInv'
    BY SMTT(30), <2>10 DEF Apply, WatchInv, TypeOK, Sent, NoFlight, Empty
  <2>11. ASSUME NEW c \in Calls, Refuse(c) PROVE WatchInv'
    BY <2>11 DEF Refuse, WatchInv, TypeOK, Sent, NoFlight, Empty
  <2>12. ASSUME NEW c \in Calls, Answer(c) PROVE WatchInv'
    BY <2>12 DEF Answer, InvalidateIf, Invalidate, WatchInv, TypeOK, Sent, NoFlight, Empty
  <2>13. ASSUME NEW c \in Calls, Tidied(c) PROVE WatchInv'
    BY <2>13 DEF Tidied, InvalidateIf, Invalidate, WatchInv, TypeOK, Sent, NoFlight, Empty
  <2>14. ASSUME NEW c \in Calls, Refreshed(c) PROVE WatchInv'
    BY <2>14 DEF Refreshed, WatchInv, TypeOK, Sent, NoFlight, Empty
  <2> QED
    BY <2>1, <2>2, <2>3, <2>4, <2>5, <2>6, <2>7, <2>8, <2>9, <2>10, <2>11, <2>12, <2>13, <2>14 DEF Next
<1> QED
  BY <1>1

-----------------------------------------------------------------------------
\* The inductive invariant holds initially and every step keeps it.
LEMMA Inductive == (Init => IInv) /\ (IInv /\ [Next]_vars => IInv')
<1>1. Init => IInv
  <2> SUFFICES ASSUME Init PROVE IInv
    OBVIOUS
  <2>1. TypeOK
    BY InitType
  <2>2. AnswerInv /\ LacksInv /\ WatchInv
    BY DEF Init, AnswerInv, LacksInv, WatchInv, Empty, NoFlight, Told
  <2> QED
    BY <2>1, <2>2 DEF IInv
<1>2. IInv /\ [Next]_vars => IInv'
  BY NextType, AnswerStep, LacksStep, WatchStep DEF IInv
<1> QED
  BY <1>1, <1>2

-----------------------------------------------------------------------------
(* The console's tables. *)

\* The lists of videos to choose from.
Choices == VideoChoices \cup {<<"site", "videos", "options">>}

\* The entries that show a fact of the site or of a source, of all screens.
SiteShows(f, q) ==
  \/ f \in {Catalogue, Names, Trash} /\ q \in Choices \cup {Site("videos")}
  \/ f \in {Added, Shown} /\ q \in VideoViews \cup {Site("danmaku")}
  \/ f \in {Names, Trash} /\ q = Site("video")
  \/ f = Trash /\ q = Site("video-heatmap")
  \/ f \in {Catalogue, Trash} /\ q = Site("danmaku-vids")
  \/ f = Native /\ q = Site("danmaku")
  \/ f \in {Native, Shown} /\ q = Site("danmaku-detail")
  \/ f = Rules /\ q = Site("native-rules")
  \/ f = Access /\ q = Site("users")
  \/ f = Accounts /\ q \in AccountViews

SourceShows(s, f, q) ==
  \/ f \in {Pool(s), Stored(s), Hidden(s), Bound(s)} /\ q = Pools(s)
  \/ f = Pool(s) /\ q = <<s, "pool-options">>
  \/ f = Pool(s) /\ q = Site("catalog-pool-options") /\ s \in CatalogSources
  \/ f \in {Stored(s), Hidden(s)} /\ q \in {Danmaku(s), Site("video-heatmap")}
  \/ f = Stored(s) /\ q = Site("videos")
  \/ f = Bound(s) /\ q \in VideoViews
  \/ f = Keyword(s) /\ q = Keywords(s)

\* The entry q of some screen may show the fact f.
Shows(f, q) == SiteShows(f, q) \/ \E s \in Sources : SourceShows(s, f, q)

\* Where the facts of a source are shown.
LEMMA SourceFacts ==
  ASSUME NEW s \in Sources, NEW q
  PROVE  /\ Shows(Pool(s), q) =>
              \/ q \in {Pools(s), <<s, "pool-options">>}
              \/ q = Site("catalog-pool-options") /\ s \in CatalogSources
         /\ Shows(Stored(s), q) => q \in {Pools(s), Danmaku(s), Site("video-heatmap"), Site("videos")}
         /\ Shows(Hidden(s), q) => q \in {Pools(s), Danmaku(s), Site("video-heatmap")}
         /\ Shows(Bound(s), q) => q \in {Pools(s), Site("video-heatmap"), Site("videos"), Site("video")}
         /\ Shows(Keyword(s), q) => q = Keywords(s)
BY DEF Shows, SiteShows, SourceShows, Catalogue, Names, Trash, Added, Shown, Native, Rules, Access, Accounts,
       Pool, Stored, Hidden, Bound, Keyword, VideoViews, VideoKeys

\* Where the facts of the site are shown.
LEMMA SiteFacts ==
  ASSUME NEW q
  PROVE  /\ Shows(Catalogue, q) => q \in Choices \cup {Site("videos"), Site("danmaku-vids")}
         /\ Shows(Names, q) => q \in Choices \cup VideoKeys
         /\ Shows(Trash, q) => q \in Choices \cup VideoViews \cup {Site("danmaku-vids")}
         /\ Shows(Added, q) => q \in VideoViews \cup {Site("danmaku")}
         /\ Shows(Shown, q) => q \in VideoViews \cup {Site("danmaku"), Site("danmaku-detail")}
         /\ Shows(Native, q) => q \in {Site("danmaku"), Site("danmaku-detail")}
         /\ Shows(Rules, q) => q = Site("native-rules")
         /\ Shows(Access, q) => q = Site("users")
         /\ Shows(Accounts, q) => q \in AccountViews
BY DEF Shows, SiteShows, SourceShows, Catalogue, Names, Trash, Added, Shown, Native, Rules, Access, Accounts,
       Pool, Stored, Hidden, Bound, Keyword, VideoViews, VideoKeys

\* What the call k changes of f is invalidated wherever it is shown, or the pair is a gap.
Covers(k, f) ==
  \A q : Shows(f, q) => Prefix(q) \in k.invalidate \cup k.always \/ <<k.op, q>> \in Gaps

ReadIsListed(r) == \A f \in r.shows : Shows(f, r.key)
CallIsCovered(k) == \A f \in k.changes : Covers(k, f)

\* A component is sound.
IsSound(c) == (\A r \in c.reads : ReadIsListed(r)) /\ (\A k \in c.calls : CallIsCovered(k))

\* The keys that invalidation takes for themselves.
LEMMA KeyOfKey ==
  /\ \A name : Prefix(Site(name)) = Site(name)
  /\ \A s : /\ Prefix(Pools(s)) = Pools(s) /\ Prefix(Danmaku(s)) = Danmaku(s)
            /\ Prefix(Keywords(s)) = Keywords(s) /\ Prefix(<<s, "pool-options">>) = <<s, "pool-options">>
  /\ \A q \in VideoViews : Prefix(q) = q
BY DEF Prefix, Site, Pools, Danmaku, Keywords, VideoViews, VideoKeys

\* The reads that the pages of the sources share show what is listed.
LEMMA ReadsListed ==
  /\ \A s \in Sources : /\ ReadIsListed(Read(Pools(s), PoolRow(s)))
                        /\ ReadIsListed(Read(Danmaku(s), DanmakuRow(s)))
                        /\ ReadIsListed(Read(Keywords(s), KeywordRow(s)))
                        /\ ReadIsListed(Read(<<s, "pool-options">>, {Pool(s)}))
                        /\ ReadIsListed(Read(<<s, "binding-video-options">>, VideoChoice))
  /\ ReadIsListed(Read(Site("pool-creation-video-options"), VideoChoice))
  /\ ReadIsListed(Read(<<"site", "videos", "options">>, VideoChoice))
<1>1. ASSUME NEW s \in Sources
      PROVE  /\ \A f \in {Pool(s), Stored(s), Hidden(s), Bound(s)} : Shows(f, Pools(s))
             /\ \A f \in {Stored(s), Hidden(s)} : Shows(f, Danmaku(s))
             /\ Shows(Keyword(s), Keywords(s)) /\ Shows(Pool(s), <<s, "pool-options">>)
             /\ <<s, "binding-video-options">> \in Choices
  BY <1>1 DEF Shows, SourceShows, Choices, VideoChoices
<1>2. {Site("pool-creation-video-options"), <<"site", "videos", "options">>} \subseteq Choices
  BY DEF Choices, VideoChoices
<1>3. \A f \in VideoChoice, q \in Choices : Shows(f, q)
  BY DEF Shows, SiteShows, VideoChoice
<1> QED
  BY <1>1, <1>2, <1>3 DEF ReadIsListed, Read, PoolRow, DanmakuRow, KeywordRow

\* The gaps, call by call.
LEMMA GapsOf ==
  /\ \A s \in Quiet : /\ \A op \in PoolCalls : <<<<s, op>>, Site("video-heatmap")>> \in Gaps
                      /\ <<<<s, "sync">>, Site("videos")>> \in Gaps
  /\ <<<<"external", "bind">>, Site("video-heatmap")>> \in Gaps
  /\ \A s \in CatalogSources : <<<<s, "sync">>, Site("catalog-pool-options")>> \in Gaps
  /\ \A op \in VideoCalls \cup {<<"native", "add">>} : \A q \in VideoChoices : <<op, q>> \in Gaps
  /\ <<<<"video", "create">>, Site("danmaku-vids")>> \in Gaps
  /\ \A q \in {Site("danmaku-vids"), Site("video-heatmap")} : <<<<"video", "status">>, q>> \in Gaps
  /\ \A q \in VideoViews : <<<<"native", "edit">>, q>> \in Gaps /\ <<<<"native", "delete">>, q>> \in Gaps
  /\ <<<<"native", "delete">>, Site("danmaku-detail")>> \in Gaps
  /\ \A q \in AccountViews \ {Site("users")} : <<<<"user", "save">>, q>> \in Gaps
  /\ \A q \in AccountViews \ {Site("profile")} : <<<<"profile", "save">>, q>> \in Gaps
<1>1. \A s \in Quiet, op \in PoolCalls : <<s, op>> \in (Quiet \X PoolCalls) \cup {<<"external", "bind">>}
  OBVIOUS
<1>2. \A s \in Quiet : <<s, "sync">> \in Quiet \X {"sync"}
  OBVIOUS
<1>3. \A s \in CatalogSources : <<s, "sync">> \in CatalogSources \X {"sync"}
  OBVIOUS
<1>4. <<"native", "edit">> \in NativeWrites /\ <<"native", "delete">> \in NativeWrites \ {<<"native", "edit">>}
  BY DEF NativeWrites
<1> QED
  BY <1>1, <1>2, <1>3, <1>4 DEF Gaps

\* A creation that was a sync leaves the danmaku of its pool; an edit whose editor was
\* left, what it leaves open and the detail of its row.
LEMMA LeftBehind ==
  /\ \A s \in Providers : <<<<s, "create">>, Danmaku(s)>> \in Gaps
  /\ \A q \in VideoViews \cup {Site("danmaku-detail")} : <<<<"native", "edit and leave">>, q>> \in Gaps
<1>1. <<"native", "edit and leave">> \in NativeWrites \ {<<"native", "edit">>}
  BY DEF NativeWrites
<1> QED
  BY <1>1 DEF Gaps

\* A call on a source's pools is covered when it invalidates these keys.
LEMMA PoolCallsCovered ==
  ASSUME NEW s \in Sources, NEW keys
  PROVE  /\ Danmaku(s) \in keys \/ s \in Providers => CallIsCovered(Creation(s, keys))
         /\ {Danmaku(s), Pools(s)} \subseteq keys /\ (Site("video-heatmap") \in keys \/ s \in Quiet)
              => CallIsCovered(Block(s, keys))
         /\ VideoKeys \cup {Pools(s)} \subseteq keys
              /\ (Site("video-heatmap") \in keys \/ s \in Quiet \cup {"external"})
              => CallIsCovered(Bind(s, keys))
         /\ {Danmaku(s), Pools(s), Keywords(s)} \subseteq keys /\ (Site("video-heatmap") \in keys \/ s \in Quiet)
              => \A k \in KeywordCalls(s, keys) : CallIsCovered(k)
         /\ {Danmaku(s), Pools(s), <<s, "pool-options">>} \subseteq keys /\ (VideoViews \subseteq keys \/ s \in Quiet)
              => CallIsCovered(Sync(s, keys))
<1> DEFINE map == Site("video-heatmap")
<1>0. /\ Prefix(map) = map /\ Prefix(Site("videos")) = Site("videos") /\ Prefix(Site("video")) = Site("video")
      /\ Prefix(Site("catalog-pool-options")) = Site("catalog-pool-options")
      /\ Prefix(<<s, "pool-options">>) = <<s, "pool-options">>
      /\ Prefix(Pools(s)) = Pools(s) /\ Prefix(Danmaku(s)) = Danmaku(s) /\ Prefix(Keywords(s)) = Keywords(s)
      /\ s \in Quiet => /\ <<<<s, "bind">>, map>> \in Gaps /\ <<<<s, "block">>, map>> \in Gaps
                        /\ <<<<s, "sync">>, map>> \in Gaps /\ <<<<s, "sync">>, Site("videos")>> \in Gaps
                        /\ \A op \in {"add keyword", "remove keyword"} : <<<<s, op>>, map>> \in Gaps
      /\ s = "external" => <<<<s, "bind">>, map>> \in Gaps
      /\ s \in CatalogSources => <<<<s, "sync">>, Site("catalog-pool-options")>> \in Gaps
      /\ s \in Providers => <<<<s, "create">>, Danmaku(s)>> \in Gaps
  BY KeyOfKey, GapsOf, LeftBehind DEF PoolCalls
<1>10. \A q : /\ Shows(Pool(s), q) =>
                   \/ q \in {Pools(s), <<s, "pool-options">>}
                   \/ q = Site("catalog-pool-options") /\ s \in CatalogSources
              /\ Shows(Stored(s), q) => q \in {Pools(s), Danmaku(s), map, Site("videos")}
              /\ Shows(Hidden(s), q) => q \in {Pools(s), Danmaku(s), map}
              /\ Shows(Bound(s), q) => q \in {Pools(s), map, Site("videos"), Site("video")}
              /\ Shows(Keyword(s), q) => q = Keywords(s)
  BY SourceFacts
<1> HIDE DEF map
<1> USE <1>10
<1>1. ASSUME Danmaku(s) \in keys \/ s \in Providers
      PROVE  CallIsCovered(Creation(s, keys))
  <2> DEFINE k == Creation(s, keys)
  <2>1. /\ k.changes = {Pool(s), Bound(s), Stored(s), Hidden(s)}
        /\ k.op = <<s, "create">> /\ k.invalidate = keys
        /\ k.always = {Site("videos"), Site("video"), map, Pools(s), <<s, "pool-options">>,
                       Site("catalog-pool-options")}
    BY DEF Creation, BindingHookKeys, VideoViews, VideoKeys, map
  <2> HIDE DEF k
  <2>2. Covers(k, Pool(s)) /\ Covers(k, Bound(s))
    BY <1>0, <2>1 DEF Covers
  <2>3. Covers(k, Stored(s)) /\ Covers(k, Hidden(s))
    BY <1>0, <1>1, <2>1 DEF Covers
  <2>4. CallIsCovered(k)
    BY <2>1, <2>2, <2>3 DEF CallIsCovered
  <2> QED
    BY <2>4 DEF k
<1>2. ASSUME {Danmaku(s), Pools(s)} \subseteq keys, Site("video-heatmap") \in keys \/ s \in Quiet
      PROVE  CallIsCovered(Block(s, keys))
  <2> DEFINE k == Block(s, keys)
  <2>1. k.changes = {Hidden(s)} /\ k.invalidate = keys /\ k.op = <<s, "block">>
    BY DEF Block, Mutation
  <2> HIDE DEF k
  <2>2. Covers(k, Hidden(s))
    BY <1>0, <1>2, <2>1 DEF Covers, map
  <2>3. CallIsCovered(k)
    BY <2>1, <2>2 DEF CallIsCovered
  <2> QED
    BY <2>3 DEF k
<1>3. ASSUME VideoKeys \cup {Pools(s)} \subseteq keys,
             Site("video-heatmap") \in keys \/ s \in Quiet \cup {"external"}
      PROVE  CallIsCovered(Bind(s, keys))
  <2> DEFINE k == Bind(s, keys)
  <2>1. k.changes = {Bound(s)} /\ k.invalidate = keys /\ k.op = <<s, "bind">>
    BY DEF Bind, Mutation
  <2> HIDE DEF k
  <2>2. Covers(k, Bound(s))
    BY <1>0, <1>3, <2>1 DEF Covers, VideoKeys, map
  <2>3. CallIsCovered(k)
    BY <2>1, <2>2 DEF CallIsCovered
  <2> QED
    BY <2>3 DEF k
<1>4. ASSUME {Danmaku(s), Pools(s), Keywords(s)} \subseteq keys, Site("video-heatmap") \in keys \/ s \in Quiet,
             NEW op \in {"add keyword", "remove keyword"}
      PROVE  CallIsCovered(Mutation(<<s, op>>, {Keyword(s), Hidden(s)}, keys))
  <2> DEFINE k == Mutation(<<s, op>>, {Keyword(s), Hidden(s)}, keys)
  <2>1. k.changes = {Keyword(s), Hidden(s)} /\ k.invalidate = keys /\ k.op = <<s, op>>
    BY DEF Mutation
  <2> HIDE DEF k
  <2>2. Covers(k, Keyword(s)) /\ Covers(k, Hidden(s))
    BY <1>0, <1>4, <2>1 DEF Covers, map
  <2>3. CallIsCovered(k)
    BY <2>1, <2>2 DEF CallIsCovered
  <2> QED
    BY <2>3 DEF k
<1>5. ASSUME {Danmaku(s), Pools(s), <<s, "pool-options">>} \subseteq keys, VideoViews \subseteq keys \/ s \in Quiet
      PROVE  CallIsCovered(Sync(s, keys))
  <2> DEFINE k == Sync(s, keys)
  <2>1. k.changes = {Pool(s), Stored(s), Hidden(s)} /\ k.invalidate = keys /\ k.op = <<s, "sync">>
    BY DEF Sync, Mutation
  <2> HIDE DEF k
  <2>2. Covers(k, Pool(s))
    BY <1>0, <1>5, <2>1 DEF Covers
  <2>3. Covers(k, Stored(s)) /\ Covers(k, Hidden(s))
    BY <1>0, <1>5, <2>1 DEF Covers, VideoViews, VideoKeys, map
  <2>4. CallIsCovered(k)
    BY <2>1, <2>2, <2>3 DEF CallIsCovered
  <2> QED
    BY <2>4 DEF k
<1> QED
  BY <1>1, <1>2, <1>3, <1>4, <1>5 DEF KeywordCalls

\* The keys of the site that invalidation takes for themselves, and the one it does not.
LEMMA SitePrefixes ==
  /\ \A q \in VideoViews : Prefix(q) = q
  /\ Prefix(<<"site", "videos", "options">>) = Site("videos")
  /\ \A name : Prefix(Site(name)) = Site(name)
BY KeyOfKey DEF Prefix, Site

\* The screens of a catalog source.
LEMMA CatalogSound ==
  ASSUME NEW s \in CatalogSources
  PROVE  /\ IsSound(CatalogContent(s)) /\ IsSound(CatalogBindingDialog(s)) /\ IsSound(CatalogPoolDanmakuDialog(s))
         /\ IsSound(CatalogPoolPanel(s)) /\ IsSound(CatalogKeywordPanel(s))
<1> s \in Sources /\ s \in Providers
  BY DEF Sources, Providers
<1> USE ReadsListed, PoolCallsCovered DEF IsSound, Component, VideoViews
<1>1. IsSound(CatalogContent(s)) /\ IsSound(CatalogBindingDialog(s))
  BY DEF CatalogContent, CatalogBindingDialog
<1>2. IsSound(CatalogPoolDanmakuDialog(s)) /\ IsSound(CatalogKeywordPanel(s))
  BY DEF CatalogPoolDanmakuDialog, CatalogKeywordPanel
<1>3. IsSound(CatalogPoolPanel(s))
  BY DEF CatalogPoolPanel
<1> QED
  BY <1>1, <1>2, <1>3

\* The screens of Animeko.
LEMMA AnimekoSound ==
  /\ IsSound(AnimekoPage) /\ IsSound(AnimekoBindingDialog) /\ IsSound(AnimekoPoolDanmakuDialog)
  /\ IsSound(AnimekoPoolPanel) /\ IsSound(AnimekoKeywordPanel)
<1> "animeko" \in Sources /\ "animeko" \in Providers
  BY DEF Sources, Providers, Quiet
<1> USE ReadsListed, PoolCallsCovered DEF IsSound, Component, VideoViews
<1>1. IsSound(AnimekoPage) /\ IsSound(AnimekoBindingDialog)
  BY DEF AnimekoPage, AnimekoBindingDialog
<1>2. IsSound(AnimekoPoolDanmakuDialog) /\ IsSound(AnimekoKeywordPanel)
  BY DEF AnimekoPoolDanmakuDialog, AnimekoKeywordPanel
<1>3. IsSound(AnimekoPoolPanel)
  BY DEF AnimekoPoolPanel, Options
<1> QED
  BY <1>1, <1>2, <1>3

\* The screens of Dandanplay.
LEMMA DandanplaySound ==
  /\ IsSound(DandanplayPage) /\ IsSound(DandanplayBindingDialog) /\ IsSound(DandanplayPoolDanmakuDialog)
  /\ IsSound(DandanplayPoolPanel) /\ IsSound(DandanplayKeywordPanel)
<1> "dandanplay" \in Sources /\ "dandanplay" \in Providers
  BY DEF Sources, Providers, Quiet
<1> USE ReadsListed, PoolCallsCovered DEF IsSound, Component, VideoViews
<1>1. IsSound(DandanplayPage) /\ IsSound(DandanplayBindingDialog)
  BY DEF DandanplayPage, DandanplayBindingDialog
<1>2. IsSound(DandanplayPoolDanmakuDialog) /\ IsSound(DandanplayKeywordPanel)
  BY DEF DandanplayPoolDanmakuDialog, DandanplayKeywordPanel
<1>3. IsSound(DandanplayPoolPanel)
  BY DEF DandanplayPoolPanel, Options
<1> QED
  BY <1>1, <1>2, <1>3

\* The screens of Iqiyi.
LEMMA IqiyiSound ==
  /\ IsSound(IqiyiPage) /\ IsSound(IqiyiBindingDialog) /\ IsSound(IqiyiPoolDanmakuDialog)
  /\ IsSound(IqiyiPoolPanel) /\ IsSound(IqiyiKeywordPanel)
<1> "iqiyi" \in Sources /\ "iqiyi" \in Providers /\ "iqiyi" \in Quiet
  BY DEF Sources, Providers, Quiet
<1> USE ReadsListed, PoolCallsCovered DEF IsSound, Component, VideoViews
<1>1. IsSound(IqiyiPage) /\ IsSound(IqiyiBindingDialog)
  BY DEF IqiyiPage, IqiyiBindingDialog
<1>2. IsSound(IqiyiPoolDanmakuDialog) /\ IsSound(IqiyiKeywordPanel)
  BY DEF IqiyiPoolDanmakuDialog, IqiyiKeywordPanel
<1>3. IsSound(IqiyiPoolPanel)
  BY DEF IqiyiPoolPanel, Options
<1> QED
  BY <1>1, <1>2, <1>3

\* The screens of Bilibili.
LEMMA BilibiliSound ==
  /\ IsSound(BilibiliPage) /\ IsSound(PoolVideoBindingDialog) /\ IsSound(BilibiliPoolDanmakuDialog)
  /\ IsSound(BilibiliPoolPanel) /\ IsSound(BilibiliKeywordPanel)
<1> "bilibili" \in Sources /\ "bilibili" \in Providers /\ "bilibili" \in Quiet
  BY DEF Sources, Providers, Quiet
<1> USE ReadsListed, PoolCallsCovered DEF IsSound, Component, VideoViews
<1>1. IsSound(BilibiliPage) /\ IsSound(PoolVideoBindingDialog)
  BY DEF BilibiliPage, PoolVideoBindingDialog
<1>2. IsSound(BilibiliPoolDanmakuDialog) /\ IsSound(BilibiliKeywordPanel)
  BY DEF BilibiliPoolDanmakuDialog, BilibiliKeywordPanel
<1>3. IsSound(BilibiliPoolPanel)
  BY DEF BilibiliPoolPanel, Options
<1> QED
  BY <1>1, <1>2, <1>3

\* The screens of the imported pools.
LEMMA ExternalSound ==
  /\ IsSound(ImportDialog) /\ IsSound(ExternalDetailDialog) /\ IsSound(ExternalBindingDialog)
  /\ IsSound(ExternalPage) /\ IsSound(ExternalKeywordPanel)
<1> "external" \in Sources
  BY DEF Sources
<1> USE ReadsListed, PoolCallsCovered DEF IsSound, Component
<1>1. IsSound(ExternalDetailDialog) /\ IsSound(ExternalBindingDialog) /\ IsSound(ExternalPage)
  BY DEF ExternalDetailDialog, ExternalBindingDialog, ExternalPage
<1>2. IsSound(ExternalKeywordPanel)
  BY DEF ExternalKeywordPanel
<1>3. CallIsCovered(Mutation(<<"external", "replace">>, {Pool("external"), Stored("external"), Hidden("external")},
                             ImportKeys))
  <2> DEFINE k == Mutation(<<"external", "replace">>, {Pool("external"), Stored("external"), Hidden("external")},
                           ImportKeys)
  <2>1. /\ k.changes = {Pool("external"), Stored("external"), Hidden("external")}
        /\ k.invalidate = ImportKeys
    BY DEF Mutation
  <2> HIDE DEF k
  <2>2. Covers(k, Pool("external")) /\ Covers(k, Stored("external")) /\ Covers(k, Hidden("external"))
    BY <2>1, SourceFacts, KeyOfKey, CatalogAssumption DEF Covers, ImportKeys, VideoViews, VideoKeys
  <2>3. CallIsCovered(k)
    BY <2>1, <2>2 DEF CallIsCovered
  <2> QED
    BY <2>3 DEF k
<1>4. IsSound(ImportDialog)
  <2>1. CallIsCovered(Creation("external", ImportKeys))
    BY DEF ImportKeys
  <2> QED
    BY <1>3, <2>1 DEF ImportDialog
<1> QED
  BY <1>1, <1>2, <1>4

\* The entries of the site's screens show what SiteShows says.
LEMMA SiteReadsListed ==
  /\ ReadIsListed(Read(Site("video"), {Names, Trash, Added, Shown} \cup OfAll(Bound)))
  /\ ReadIsListed(Read(Site("video-heatmap"),
                       {Trash, Added, Shown} \cup OfAll(Bound) \cup OfAll(Stored) \cup OfAll(Hidden)))
  /\ ReadIsListed(Read(Site("videos"), VideoRow))
  /\ \A r \in PoolChoices : ReadIsListed(r)
  /\ ReadIsListed(Read(Site("danmaku-detail"), {Native, Shown}))
  /\ ReadIsListed(Read(Site("native-rules"), {Rules}))
  /\ ReadIsListed(Read(Site("danmaku-vids"), {Catalogue, Trash}))
  /\ ReadIsListed(Read(Site("danmaku"), {Added, Native, Shown}))
  /\ ReadIsListed(Read(Site("users"), {Accounts, Access}))
  /\ \A name \in {"user", "profile", "session"} : ReadIsListed(Read(Site(name), {Accounts}))
<1> USE DEF Read
<1>1. \A s \in Sources : /\ \A q \in VideoViews : Shows(Bound(s), q)
                         /\ Shows(Stored(s), Site("videos"))
                         /\ Shows(Stored(s), Site("video-heatmap")) /\ Shows(Hidden(s), Site("video-heatmap"))
                         /\ Shows(Pool(s), <<s, "pool-options">>)
                         /\ s \in CatalogSources => Shows(Pool(s), Site("catalog-pool-options"))
  BY DEF Shows, SourceShows
<1>2. /\ Site("video") \in VideoViews /\ Site("videos") \in VideoViews /\ Site("video-heatmap") \in VideoViews
      /\ CatalogSources \subseteq Sources
  BY DEF VideoViews, VideoKeys, Sources, Providers
<1>3. /\ \A f \in {Added, Shown} : (\A q \in VideoViews : Shows(f, q)) /\ Shows(f, Site("danmaku"))
      /\ \A f \in {Names, Trash} : Shows(f, Site("video")) /\ Shows(f, Site("videos"))
      /\ Shows(Trash, Site("video-heatmap")) /\ Shows(Catalogue, Site("videos"))
      /\ \A f \in {Catalogue, Trash} : Shows(f, Site("danmaku-vids"))
      /\ Shows(Native, Site("danmaku")) /\ Shows(Rules, Site("native-rules")) /\ Shows(Access, Site("users"))
      /\ \A f \in {Native, Shown} : Shows(f, Site("danmaku-detail"))
  BY DEF Shows, SiteShows
<1>4. \A name \in {"users", "user", "profile", "session"} : Shows(Accounts, Site(name))
  BY DEF Shows, SiteShows, AccountViews
<1>5. ReadIsListed(Read(Site("video"), {Names, Trash, Added, Shown} \cup OfAll(Bound)))
  BY <1>1, <1>2, <1>3 DEF OfAll, ReadIsListed
<1>6. ReadIsListed(Read(Site("video-heatmap"),
                        {Trash, Added, Shown} \cup OfAll(Bound) \cup OfAll(Stored) \cup OfAll(Hidden)))
  BY <1>1, <1>2, <1>3 DEF OfAll, ReadIsListed
<1>7. ReadIsListed(Read(Site("videos"), VideoRow))
  BY <1>1, <1>2, <1>3 DEF OfAll, VideoRow, ReadIsListed
<1>8. \A r \in PoolChoices : ReadIsListed(r)
  <2>1. \A s \in Sources : ReadIsListed(Read(<<s, "pool-options">>, {Pool(s)}))
    BY ReadsListed
  <2>2. ReadIsListed(Read(Site("catalog-pool-options"), {Pool(s) : s \in CatalogSources}))
    BY <1>1, <1>2 DEF ReadIsListed
  <2> QED
    BY <2>1, <2>2 DEF PoolChoices
<1> QED
  BY <1>3, <1>4, <1>5, <1>6, <1>7, <1>8 DEF ReadIsListed

\* What the calls of the site's screens change is invalidated or a gap.
LEMMA SiteCallsCovered ==
  /\ CallIsCovered(Mutation(<<"video", "rename">>, {Names}, VideoKeys))
  /\ \A s \in Sources, op \in {"bind", "unbind"} :
       CallIsCovered(Mutation(<<"video", op, s>>, {Bound(s)}, BindingKeys))
  /\ CallIsCovered(Mutation(<<"native", "add">>, {Added, Catalogue},
                            VideoViews \cup {Site("danmaku"), Site("danmaku-vids")}))
  /\ CallIsCovered(Mutation(<<"video", "create">>, {Catalogue}, {Site("videos")}))
  /\ CallIsCovered(Mutation(<<"video", "status">>, {Trash}, VideoKeys))
  /\ CallIsCovered(Mutation(<<"native", "edit">>, {Native, Shown}, {Site("danmaku"), Site("danmaku-detail")}))
  /\ CallIsCovered(Mutation(<<"native", "edit and leave">>, {Native, Shown}, {Site("danmaku")}))
  /\ CallIsCovered(Mutation(<<"rule", "create">>, {Rules, Native},
       {Site("native-rules"), Site("danmaku"), Site("danmaku-detail"), Site("video-heatmap")}))
  /\ CallIsCovered(Mutation(<<"rule", "remove">>, {Rules}, {Site("native-rules")}))
  /\ CallIsCovered(Mutation(<<"native", "delete">>, {Shown}, {Site("danmaku")}))
  /\ CallIsCovered(Mutation(<<"user", "save">>, {Accounts}, {Site("users")}))
  /\ \A op \in {"status", "remove"} : CallIsCovered(Mutation(<<"user", op>>, {Access}, {Site("users")}))
  /\ CallIsCovered(Mutation(<<"profile", "save">>, {Accounts}, {Site("profile")}))
<1>1. ASSUME NEW op, NEW facts, NEW keys,
             \A f \in facts : \A q : Shows(f, q) => Prefix(q) \in keys \/ <<op, q>> \in Gaps
      PROVE  CallIsCovered(Mutation(op, facts, keys))
  BY <1>1 DEF CallIsCovered, Covers, Mutation
<1> USE SiteFacts, SitePrefixes, GapsOf
<1>2. CallIsCovered(Mutation(<<"video", "rename">>, {Names}, VideoKeys))
  <2>1. \A q : Shows(Names, q) => Prefix(q) \in VideoKeys \/ <<<<"video", "rename">>, q>> \in Gaps
    BY DEF Choices, VideoCalls, VideoKeys, VideoViews
  <2> QED
    BY <1>1, <2>1
<1>3. ASSUME NEW s \in Sources, NEW op \in {"bind", "unbind"}
      PROVE  CallIsCovered(Mutation(<<"video", op, s>>, {Bound(s)}, BindingKeys))
  <2>1. \A q : Shows(Bound(s), q) => Prefix(q) \in BindingKeys
    BY SourceFacts, KeyOfKey DEF BindingKeys, VideoViews, VideoKeys
  <2> QED
    BY <1>1, <2>1
<1>4. CallIsCovered(Mutation(<<"native", "add">>, {Added, Catalogue},
                             VideoViews \cup {Site("danmaku"), Site("danmaku-vids")}))
  <2> DEFINE keys == VideoViews \cup {Site("danmaku"), Site("danmaku-vids")}
  <2>1. \A q : Shows(Added, q) => Prefix(q) \in keys
    BY DEF VideoViews
  <2>2. \A q : Shows(Catalogue, q) => Prefix(q) \in keys \/ <<<<"native", "add">>, q>> \in Gaps
    BY DEF Choices, VideoViews, VideoKeys
  <2> HIDE DEF keys
  <2>3. \A f \in {Added, Catalogue} : \A q : Shows(f, q) => Prefix(q) \in keys \/ <<<<"native", "add">>, q>> \in Gaps
    BY <2>1, <2>2
  <2>4. CallIsCovered(Mutation(<<"native", "add">>, {Added, Catalogue}, keys))
    BY <1>1, <2>3
  <2> QED
    BY <2>4 DEF keys
<1>5. CallIsCovered(Mutation(<<"video", "create">>, {Catalogue}, {Site("videos")}))
  <2>1. \A q : Shows(Catalogue, q) => Prefix(q) \in {Site("videos")} \/ <<<<"video", "create">>, q>> \in Gaps
    BY DEF Choices, VideoCalls
  <2> QED
    BY <1>1, <2>1
<1>6. CallIsCovered(Mutation(<<"video", "status">>, {Trash}, VideoKeys))
  <2>1. \A q : Shows(Trash, q) => Prefix(q) \in VideoKeys \/ <<<<"video", "status">>, q>> \in Gaps
    BY DEF Choices, VideoCalls, VideoKeys, VideoViews
  <2> QED
    BY <1>1, <2>1
<1>7. CallIsCovered(Mutation(<<"native", "edit">>, {Native, Shown}, {Site("danmaku"), Site("danmaku-detail")}))
  <2>1. \A f \in {Native, Shown} : \A q : Shows(f, q) =>
          Prefix(q) \in {Site("danmaku"), Site("danmaku-detail")} \/ <<<<"native", "edit">>, q>> \in Gaps
    OBVIOUS
  <2> QED
    BY <1>1, <2>1
<1>8. CallIsCovered(Mutation(<<"rule", "create">>, {Rules, Native},
        {Site("native-rules"), Site("danmaku"), Site("danmaku-detail"), Site("video-heatmap")}))
  <2>1. \A f \in {Rules, Native} : \A q : Shows(f, q) =>
          Prefix(q) \in {Site("native-rules"), Site("danmaku"), Site("danmaku-detail"), Site("video-heatmap")}
    OBVIOUS
  <2> QED
    BY <1>1, <2>1
<1>9. CallIsCovered(Mutation(<<"rule", "remove">>, {Rules}, {Site("native-rules")}))
  <2>1. \A q : Shows(Rules, q) => Prefix(q) \in {Site("native-rules")}
    OBVIOUS
  <2> QED
    BY <1>1, <2>1
<1>10. CallIsCovered(Mutation(<<"native", "delete">>, {Shown}, {Site("danmaku")}))
  <2>1. \A q : Shows(Shown, q) => Prefix(q) \in {Site("danmaku")} \/ <<<<"native", "delete">>, q>> \in Gaps
    OBVIOUS
  <2> QED
    BY <1>1, <2>1
<1>11. CallIsCovered(Mutation(<<"user", "save">>, {Accounts}, {Site("users")}))
  <2>1. \A q : Shows(Accounts, q) => Prefix(q) \in {Site("users")} \/ <<<<"user", "save">>, q>> \in Gaps
    OBVIOUS
  <2> QED
    BY <1>1, <2>1
<1>12. ASSUME NEW op \in {"status", "remove"}
       PROVE  CallIsCovered(Mutation(<<"user", op>>, {Access}, {Site("users")}))
  <2>1. \A q : Shows(Access, q) => Prefix(q) \in {Site("users")}
    OBVIOUS
  <2> QED
    BY <1>1, <2>1
<1>13. CallIsCovered(Mutation(<<"profile", "save">>, {Accounts}, {Site("profile")}))
  <2>1. \A q : Shows(Accounts, q) => Prefix(q) \in {Site("profile")} \/ <<<<"profile", "save">>, q>> \in Gaps
    OBVIOUS
  <2> QED
    BY <1>1, <2>1
<1>14. CallIsCovered(Mutation(<<"native", "edit and leave">>, {Native, Shown}, {Site("danmaku")}))
  <2>1. \A f \in {Native, Shown} : \A q : Shows(f, q) =>
          Prefix(q) \in {Site("danmaku")} \/ <<<<"native", "edit and leave">>, q>> \in Gaps
    BY LeftBehind
  <2> QED
    BY <1>1, <2>1
<1> QED
  BY <1>2, <1>3, <1>4, <1>5, <1>6, <1>7, <1>8, <1>9, <1>10, <1>11, <1>12, <1>13, <1>14

\* The screens of the site.
LEMMA SiteSound ==
  /\ IsSound(PoolVideoBindingFields) /\ IsSound(AuthBoundary)
  /\ IsSound(VideoDialog) /\ IsSound(AddDanmakuForm) /\ IsSound(VideosPage)
  /\ IsSound(DanmakuEditor) /\ IsSound(NativeRulePanel) /\ IsSound(DanmakuPage)
  /\ IsSound(UserEditor) /\ IsSound(UsersPage) /\ IsSound(ProfileEditor) /\ IsSound(ProfilePage)
<1>0. /\ VideoDialog.reads =
           {Read(Site("video"), {Names, Trash, Added, Shown} \cup OfAll(Bound)),
            Read(Site("video-heatmap"),
                 {Trash, Added, Shown} \cup OfAll(Bound) \cup OfAll(Stored) \cup OfAll(Hidden))}
      /\ VideoDialog.calls =
           {Mutation(<<"video", "rename">>, {Names}, VideoKeys)}
             \cup {Mutation(<<"video", op, s>>, {Bound(s)}, BindingKeys) :
                     op \in {"bind", "unbind"}, s \in Sources}
  BY DEF VideoDialog, Component
<1> USE ReadsListed, SiteReadsListed, SiteCallsCovered DEF IsSound, Component
<1>1. IsSound(PoolVideoBindingFields) /\ IsSound(AuthBoundary)
  BY DEF PoolVideoBindingFields, AuthBoundary
<1>2. IsSound(VideoDialog)
  <2> DEFINE bind(op, s) == Mutation(<<"video", op, s>>, {Bound(s)}, BindingKeys)
             rename      == Mutation(<<"video", "rename">>, {Names}, VideoKeys)
             reads       == {Read(Site("video"), {Names, Trash, Added, Shown} \cup OfAll(Bound)),
                             Read(Site("video-heatmap"), {Trash, Added, Shown} \cup OfAll(Bound)
                                                           \cup OfAll(Stored) \cup OfAll(Hidden))}
  <2>1. VideoDialog.reads = reads
    BY ONLY <1>0
  <2>2. VideoDialog.calls = {rename} \cup {bind(op, s) : op \in {"bind", "unbind"}, s \in Sources}
    BY ONLY <1>0
  <2>3. CallIsCovered(rename) /\ \A s \in Sources, op \in {"bind", "unbind"} : CallIsCovered(bind(op, s))
    OBVIOUS
  <2>4. \A r \in reads : ReadIsListed(r)
    OBVIOUS
  <2> HIDE DEF bind, rename, reads, IsSound, Component
  <2>5. \A k \in VideoDialog.calls : CallIsCovered(k)
    BY ONLY <2>2, <2>3
  <2> QED
    BY ONLY <2>1, <2>4, <2>5 DEF IsSound
<1>3. IsSound(AddDanmakuForm) /\ IsSound(VideosPage)
  BY DEF AddDanmakuForm, VideosPage
<1>4. IsSound(DanmakuEditor) /\ IsSound(NativeRulePanel) /\ IsSound(DanmakuPage)
  BY DEF DanmakuEditor, NativeRulePanel, DanmakuPage
<1>5. IsSound(UserEditor) /\ IsSound(UsersPage) /\ IsSound(ProfileEditor) /\ IsSound(ProfilePage)
  BY DEF UserEditor, UsersPage, ProfileEditor, ProfilePage
<1> QED
  BY <1>1, <1>2, <1>3, <1>4, <1>5

\* Whatever is on screen together, each component of it is sound.
LEMMA ViewsSound == \A v \in Views : \A c \in v : IsSound(c)
<1>1. ASSUME NEW frame, NEW tabs,
             \A c \in frame : IsSound(c),
             \A tab \in tabs : IsSound(tab) /\ \A above \in tab.opens : \A c \in above : IsSound(c)
      PROVE  \A v \in ViewsOf(frame, tabs) : \A c \in v : IsSound(c)
  BY <1>1, SiteSound DEF ViewsOf
<1>2. ASSUME NEW s \in CatalogSources
      PROVE  \A v \in ViewsOf({CatalogContent(s)}, {CatalogPoolPanel(s), CatalogKeywordPanel(s)}) :
               \A c \in v : IsSound(c)
  <2>1. \A tab \in {CatalogPoolPanel(s), CatalogKeywordPanel(s)} :
          IsSound(tab) /\ \A above \in tab.opens : \A c \in above : IsSound(c)
    <3>1. CatalogPoolPanel(s).opens = {{PoolVideoBindingFields}, {CatalogBindingDialog(s)}, {CatalogPoolDanmakuDialog(s)}} /\ CatalogKeywordPanel(s).opens = {}
      BY DEF CatalogPoolPanel, CatalogKeywordPanel, Component
    <3> QED
      BY <3>1, CatalogSound, SiteSound
  <2> QED
    BY <1>1, <2>1, CatalogSound
<1>3. \A v \in ViewsOf({AnimekoPage}, {AnimekoPoolPanel, AnimekoKeywordPanel}) : \A c \in v : IsSound(c)
  <2>1. \A tab \in {AnimekoPoolPanel, AnimekoKeywordPanel} :
          IsSound(tab) /\ \A above \in tab.opens : \A c \in above : IsSound(c)
    <3>1. AnimekoPoolPanel.opens = {{PoolVideoBindingFields}, {AnimekoBindingDialog}, {AnimekoPoolDanmakuDialog}} /\ AnimekoKeywordPanel.opens = {}
      BY DEF AnimekoPoolPanel, AnimekoKeywordPanel, Component
    <3> QED
      BY <3>1, AnimekoSound, SiteSound
  <2> QED
    BY <1>1, <2>1, AnimekoSound
<1>4. \A v \in ViewsOf({DandanplayPage}, {DandanplayPoolPanel, DandanplayKeywordPanel}) : \A c \in v : IsSound(c)
  <2>1. \A tab \in {DandanplayPoolPanel, DandanplayKeywordPanel} :
          IsSound(tab) /\ \A above \in tab.opens : \A c \in above : IsSound(c)
    <3>1. DandanplayPoolPanel.opens = {{PoolVideoBindingFields}, {DandanplayBindingDialog}, {DandanplayPoolDanmakuDialog}} /\ DandanplayKeywordPanel.opens = {}
      BY DEF DandanplayPoolPanel, DandanplayKeywordPanel, Component
    <3> QED
      BY <3>1, DandanplaySound, SiteSound
  <2> QED
    BY <1>1, <2>1, DandanplaySound
<1>5. \A v \in ViewsOf({IqiyiPage}, {IqiyiPoolPanel, IqiyiKeywordPanel}) : \A c \in v : IsSound(c)
  <2>1. \A tab \in {IqiyiPoolPanel, IqiyiKeywordPanel} :
          IsSound(tab) /\ \A above \in tab.opens : \A c \in above : IsSound(c)
    <3>1. IqiyiPoolPanel.opens = {{PoolVideoBindingFields}, {IqiyiBindingDialog}, {IqiyiPoolDanmakuDialog}} /\ IqiyiKeywordPanel.opens = {}
      BY DEF IqiyiPoolPanel, IqiyiKeywordPanel, Component
    <3> QED
      BY <3>1, IqiyiSound, SiteSound
  <2> QED
    BY <1>1, <2>1, IqiyiSound
<1>6. \A v \in ViewsOf({BilibiliPage}, {BilibiliPoolPanel, BilibiliKeywordPanel}) : \A c \in v : IsSound(c)
  <2>1. \A tab \in {BilibiliPoolPanel, BilibiliKeywordPanel} :
          IsSound(tab) /\ \A above \in tab.opens : \A c \in above : IsSound(c)
    <3>1. BilibiliPoolPanel.opens = {{PoolVideoBindingFields}, {PoolVideoBindingDialog}, {BilibiliPoolDanmakuDialog}} /\ BilibiliKeywordPanel.opens = {}
      BY DEF BilibiliPoolPanel, BilibiliKeywordPanel, Component
    <3> QED
      BY <3>1, BilibiliSound, SiteSound
  <2> QED
    BY <1>1, <2>1, BilibiliSound
<1>7. \A v \in ViewsOf({}, {ExternalPage}) \cup ViewsOf({ExternalPage}, {ExternalKeywordPanel}) :
        \A c \in v : IsSound(c)
  <2>1. \A tab \in {ExternalPage, ExternalKeywordPanel} :
          IsSound(tab) /\ \A above \in tab.opens : \A c \in above : IsSound(c)
    <3>1. ExternalPage.opens = {{ImportDialog, PoolVideoBindingFields}, {ExternalBindingDialog}, {ExternalDetailDialog}} /\ ExternalKeywordPanel.opens = {}
      BY DEF ExternalPage, ExternalKeywordPanel, Component
    <3> QED
      BY <3>1, ExternalSound, SiteSound
  <2> QED
    BY <1>1, <2>1, ExternalSound
<1>8. \A v \in ViewsOf({}, {VideosPage, DanmakuPage, UsersPage, ProfilePage}) : \A c \in v : IsSound(c)
  <2>1. \A tab \in {VideosPage, DanmakuPage, UsersPage, ProfilePage} :
          IsSound(tab) /\ \A above \in tab.opens : \A c \in above : IsSound(c)
    <3>1. /\ VideosPage.opens = {{VideoDialog, AddDanmakuForm}}
          /\ DanmakuPage.opens = {{DanmakuEditor}, {AddDanmakuForm}, {NativeRulePanel}}
          /\ UsersPage.opens = {{UserEditor}} /\ ProfilePage.opens = {{ProfileEditor}}
      BY DEF VideosPage, DanmakuPage, UsersPage, ProfilePage, Component
    <3> QED
      BY <3>1, SiteSound
  <2> QED
    BY <1>1, <2>1
<1> QED
  BY <1>2, <1>3, <1>4, <1>5, <1>6, <1>7, <1>8 DEF Views

\* The console's tables are complete, for whatever sources share the catalog page: what a
\* call changes and a screen shows is invalidated, or the pair is listed as a gap.
THEOREM TablesCovered == Covered
<1>1. \A r \in AllReads : ReadIsListed(r)
  BY ViewsSound DEF AllReads, ReadsOn, IsSound
<1>2. \A k \in AllCalls : CallIsCovered(k)
  BY ViewsSound DEF AllCalls, CallsOn, IsSound
<1>3. ASSUME NEW k \in AllCalls, NEW r \in AllReads, k.changes \cap r.shows # {}
      PROVE  \/ Prefix(r.key) \in k.invalidate \/ Prefix(r.key) \in k.always
             \/ <<k.op, r.key>> \in Gaps
  BY <1>1, <1>2, <1>3 DEF ReadIsListed, CallIsCovered, Covers
<1> QED
  BY <1>3 DEF Covered, Affects, Invalidates, Always, Pairs

-----------------------------------------------------------------------------
(* What the screens show of the calls. *)

\* Whatever a call's operation is to the entry, it is told of it or the pair is a gap.
LEMMA RolesCovered == (Init => GapInv) /\ (GapInv /\ [Next]_vars => GapInv')
<1>1. Init => GapInv
  <2> SUFFICES ASSUME Init PROVE GapInv
    OBVIOUS
  <2>1. PICK q \in Queries :
          role \in [Calls -> {Role(o, q) : o \in {o \in Ops : <<o, q>> \in Affects \cup Invalidates \cup Always}}]
    BY DEF Init
  <2>2. \A o \in Ops : LET r == Role(o, q) IN r.affects => r.always \/ r.invalidates \/ r.gap
    BY TablesCovered DEF Role, Covered
  <2> QED
    BY <2>1, <2>2 DEF GapInv
<1>2. GapInv /\ [Next]_vars => GapInv'
  <2> SUFFICES ASSUME GapInv, [Next]_vars PROVE GapInv'
    OBVIOUS
  <2>1. UNCHANGED role
    BY DEF Next, vars, Mount, Leave, Refetch, ServerReads, Arrives, Fails, Forget,
           Call, Apply, Refuse, Answer, Tidied, Refreshed
  <2> QED
    BY <2>1 DEF GapInv
<1> QED
  BY <1>1, <1>2

\* A behaviour about an entry keeps the invariants of the cache; the others have no entry on screen.
CacheInv == IF part = "cache" THEN IInv /\ GapInv ELSE watching = FALSE

\* The invariants of the cache hold of the console.
LEMMA CacheInvariance == ConsoleSpec => []CacheInv
<1>1. ConsoleInit => CacheInv
  BY Inductive, RolesCovered DEF ConsoleInit, CacheInv, NoCache
<1>2. CacheInv /\ [ConsoleNext]_<<part, vars, formVars, listVars, creationVars>> => CacheInv'
  <2> SUFFICES ASSUME CacheInv, [ConsoleNext]_<<part, vars, formVars, listVars, creationVars>>
               PROVE  CacheInv'
    OBVIOUS
  <2>1. UNCHANGED part /\ [Next]_vars /\ (part # "cache" => UNCHANGED watching)
    BY DEF ConsoleNext, vars
  <2>2. CASE part = "cache"
    BY <2>1, <2>2, Inductive, RolesCovered DEF CacheInv
  <2>3. CASE part # "cache"
    BY <2>1, <2>3 DEF CacheInv
  <2> QED
    BY <2>2, <2>3
<1> QED
  BY <1>1, <1>2, PTL DEF ConsoleSpec

\* A call reported as a success is in what the screen shows, on every page, but for the gaps:
\* useApiMutation's invalidations.
THEOREM ReportedShown == ConsoleSpec => []ReportedIsShown
<1>1. IInv /\ GapInv => ReportedIsShown
  BY DEF IInv, TypeOK, AnswerInv, LacksInv, WatchInv, GapInv, ReportedIsShown, OnScreen, Told
<1>2. watching = FALSE => ReportedIsShown
  BY DEF ReportedIsShown, OnScreen
<1>3. CacheInv => ReportedIsShown
  BY <1>1, <1>2 DEF CacheInv
<1> QED
  BY <1>3, CacheInvariance, PTL

\* A creation that failed is shown as far as the server got: usePoolVideoBinding's
\* invalidations in any case.
THEOREM CreatedShown == ConsoleSpec => []CreatedIsShown
<1>1. IInv => CreatedIsShown
  BY DEF IInv, TypeOK, LacksInv, WatchInv, CreatedIsShown, OnScreen, Told
<1>2. watching = FALSE => CreatedIsShown
  BY DEF CreatedIsShown, OnScreen
<1>3. CacheInv => CreatedIsShown
  BY <1>1, <1>2 DEF CacheInv
<1> QED
  BY <1>3, CacheInvariance, PTL

-----------------------------------------------------------------------------
(* The lists. *)

\* What the tables of the lists have in common.
ListIsSound(l) ==
  /\ l.key = l.fetch
  /\ l.fetch \ (l.resets \cup l.after) \subseteq {"page", "subject"}
  /\ l.fetch \subseteq List!Parameters
  /\ l.resets \subseteq {"subject", "query", "filter"}

\* Every list is keyed by all it fetches with and returns to the first page, or keeps its page
\* for another subject.
LEMMA ListsAreSound == \A l \in List!Lists : ListIsSound(l)
<1> USE DEF ListIsSound, List!PagedList, List!Parameters
<1>1. ListIsSound(List!PagedList({"query"}))
  OBVIOUS
<1>2. ListIsSound(List!PagedList({"query", "filter"}))
  OBVIOUS
<1>3. ListIsSound(List!PoolDanmaku)
  BY DEF List!PoolDanmaku
<1>4. ListIsSound(List!BilibiliPoolDanmaku)
  BY DEF List!BilibiliPoolDanmaku, List!PoolDanmaku
<1>5. ListIsSound(List!ExternalDetail)
  BY DEF List!ExternalDetail
<1> QED
  BY <1>1, <1>2, <1>3, <1>4, <1>5
  DEF List!Lists, List!CatalogPools, List!AnimekoPools, List!DandanplayPools, List!IqiyiPools,
      List!BilibiliPools, List!ExternalPools, List!CatalogPoolDanmaku, List!AnimekoPoolDanmaku,
      List!DandanplayPoolDanmaku, List!IqiyiPoolDanmaku, List!VideoList, List!NativeDanmaku, List!Users

\* A list begins on its first page.
LEMMA ListInitInv == List!Init => List!TypeOK /\ List!PageIsOffered
<1> SUFFICES ASSUME List!Init PROVE List!TypeOK /\ List!PageIsOffered
  OBVIOUS
<1>1. 1 \in List!Pages
  BY ConsoleBounds DEF List!Pages
<1>2. asked \in List!Asked /\ asked.page = 1
  BY <1>1 DEF List!Init, List!Asked
<1>3. ~(asked.page > 1)
  BY <1>2
<1>4. List!TypeOK
  BY <1>2 DEF List!Init, List!TypeOK
<1> QED
  BY <1>3, <1>4 DEF List!PageIsOffered

\* A result is not the absence of one.
LEMMA NoneIsNoResult ==
  \A x \in List!Results : x # List!None /\ x.of \in List!Asked /\ x.pages \in List!Pages
<1> TAKE x \in List!Results
<1>1. PICK a \in List!Asked, p \in List!Pages : x = [of |-> a, pages |-> p]
  BY DEF List!Results
<1>2. x.of = a /\ x.pages = p /\ p # 0
  BY <1>1 DEF List!Pages
<1>3. x.pages # List!None.pages
  BY <1>2 DEF List!None
<1> QED BY <1>1, <1>2, <1>3

\* Turning the page changes nothing but the page.
LEMMA OnlyThePage ==
  ASSUME NEW a \in List!Asked, NEW p \in List!Pages, NEW b, b = [a EXCEPT !.page = p]
  PROVE  b \in List!Asked /\ b.page = p /\ List!Rest(b) = List!Rest(a)
BY DEF List!Asked, List!Rest, List!Part, List!Parameters

\* Every step of a list keeps its page among those that were offered.
LEMMA ListStepInv ==
  ASSUME List!TypeOK, List!PageIsOffered, List!Next
  PROVE  List!TypeOK' /\ List!PageIsOffered'
<1>1. /\ ListIsSound(list) /\ list' = list /\ list \in List!Lists
      /\ \A a : List!Rest(a)' = List!Rest(a)
      /\ List!Keeps' <=> List!Keeps
  <2>1. list' = list
    BY DEF List!Next, List!StartOver, List!Change, List!PreviousPage, List!NextPage, List!Fetch, List!Answer, List!Fail
  <2> QED BY <2>1, ListsAreSound DEF List!TypeOK, List!Rest, List!Part, List!Keeps
<1>2. /\ \A p \in List!Pages : p \in Nat /\ 1 <= p /\ p <= MaxPages
      /\ asked \in List!Asked /\ asked.page \in List!Pages
      /\ 1 \in List!Pages
  BY ConsoleBounds DEF List!Pages, List!TypeOK, List!Asked
<1>3. ASSUME NEW p \in List!Parameters, NEW v \in Values, List!Change(p, v)
      PROVE  List!TypeOK' /\ List!PageIsOffered'
  <2>1. p \in {"subject", "query", "filter"} /\ p \in list.fetch /\ ~due
    BY <1>3 DEF List!Change, List!Parameters
  <2>2. asked' \in List!Asked /\ (asked'.page = asked.page \/ asked'.page = 1)
        /\ (p \in list.resets => asked'.page = 1)
    BY <1>2, <1>3, <2>1 DEF List!Change, List!Asked
  <2>3. List!TypeOK'
    <3>1. due' = (p \in list.after) /\ UNCHANGED <<list, rows, fetch, offer>>
      BY <1>3, Zenon DEF List!Change
    <3>2. due' \in BOOLEAN
      BY <3>1
    <3> QED
      BY <2>2, <3>1, <3>2 DEF List!TypeOK
  <2>4. CASE p \in list.resets
    BY <2>2, <2>3, <2>4 DEF List!PageIsOffered
  <2>5. CASE p \notin list.resets /\ p \in list.after
    BY <1>3, <2>3, <2>5 DEF List!Change, List!PageIsOffered
  <2>6. CASE p \notin list.resets /\ p \notin list.after
    <3>1. p = "subject" /\ List!Keeps
      BY <1>1, <2>1, <2>6 DEF ListIsSound, List!Keeps
    <3>2. asked'.page = asked.page /\ offer' = offer
      BY <1>2, <1>3, <2>1, <2>6 DEF List!Change, List!Asked
    <3> QED BY <1>1, <2>1, <2>3, <3>1, <3>2 DEF List!PageIsOffered
  <2> QED BY <2>4, <2>5, <2>6
<1>4. ASSUME NEW v \in Values, List!StartOver(v)
      PROVE  List!TypeOK' /\ List!PageIsOffered'
  <2>1. asked' \in List!Asked /\ asked'.page = 1
    BY <1>2, <1>4 DEF List!StartOver, List!Asked
  <2>2. due' = FALSE /\ UNCHANGED <<list, rows, fetch, offer>>
    BY <1>4 DEF List!StartOver
  <2>3. List!TypeOK'
    BY <2>1, <2>2 DEF List!TypeOK
  <2>4. ~(asked'.page > 1)
    BY <2>1
  <2> QED
    BY <2>3, <2>4 DEF List!PageIsOffered
<1>5. ASSUME List!PreviousPage PROVE List!TypeOK' /\ List!PageIsOffered'
  <2>1. ~due /\ asked.page > 1 /\ UNCHANGED <<list, due, rows, fetch, offer>>
    BY <1>5 DEF List!PreviousPage
  <2>2. asked' \in List!Asked /\ asked'.page = asked.page - 1 /\ List!Rest(asked)' = List!Rest(asked)
    <3>1. asked' = [asked EXCEPT !.page = asked.page - 1]
      BY <1>5 DEF List!PreviousPage
    <3>2. asked.page - 1 \in List!Pages
      BY <1>2, <2>1, ConsoleBounds DEF List!Pages
    <3> QED
      BY <1>2, <3>1, <3>2, OnlyThePage
  <2>3. List!TypeOK'
    BY <2>1, <2>2 DEF List!TypeOK
  <2>4. /\ offer # List!None /\ asked.page <= offer.pages
        /\ List!Keeps \/ List!Rest(offer.of) = List!Rest(asked)
    BY <2>1 DEF List!PageIsOffered
  <2>5. offer \in List!Results /\ offer.pages \in Nat
    BY <1>2, <2>4, NoneIsNoResult DEF List!TypeOK
  <2>6. asked'.page <= offer.pages
    BY <1>2, <2>2, <2>4, <2>5
  <2> QED
    BY <1>1, <2>1, <2>2, <2>3, <2>4, <2>6 DEF List!PageIsOffered
<1>6. ASSUME List!NextPage PROVE List!TypeOK' /\ List!PageIsOffered'
  <2>1. /\ ~due /\ rows # List!None /\ asked.page < rows.pages
        /\ UNCHANGED <<list, due, rows, fetch>>
        /\ offer' = [of |-> asked, pages |-> rows.pages]
        /\ asked' = [asked EXCEPT !.page = asked.page + 1]
    BY <1>6 DEF List!NextPage, List!OnScreen
  <2>2. rows.pages \in List!Pages
    BY <2>1, NoneIsNoResult DEF List!TypeOK
  <2>3. asked.page + 1 \in List!Pages /\ asked.page + 1 <= rows.pages
    BY <1>2, <2>1, <2>2, ConsoleBounds DEF List!Pages
  <2>4. asked' \in List!Asked /\ asked'.page = asked.page + 1 /\ List!Rest(asked)' = List!Rest(asked)
    BY <1>2, <2>1, <2>3, OnlyThePage
  <2>5. offer' \in List!Results
    BY <1>2, <2>1, <2>2 DEF List!Results
  <2>6. offer' # List!None /\ asked'.page <= offer'.pages /\ offer'.of = asked
    BY <2>1, <2>3, <2>4, <2>5, NoneIsNoResult
  <2>7. List!Rest(offer'.of) = List!Rest(asked)'
    BY <2>4, <2>6
  <2>8. List!TypeOK'
    BY <2>1, <2>4, <2>5 DEF List!TypeOK
  <2> QED
    BY <2>6, <2>7, <2>8 DEF List!PageIsOffered
<1>7. ASSUME List!Fetch \/ List!Answer \/ List!Fail PROVE List!TypeOK' /\ List!PageIsOffered'
  <2>1. UNCHANGED <<asked, due, offer>>
    BY <1>7 DEF List!Fetch, List!Answer, List!Fail
  <2>2. List!PageIsOffered'
    BY <1>1, <2>1 DEF List!PageIsOffered
  <2>3. List!TypeOK'
    BY <1>1, <1>7 DEF List!Fetch, List!Answer, List!Fail, List!TypeOK, List!Results
  <2> QED BY <2>2, <2>3
<1> QED BY <1>3, <1>4, <1>5, <1>6, <1>7 DEF List!Next

ListInv == part = "list" => List!TypeOK /\ List!PageIsOffered

\* A behaviour about a list keeps the list's invariant.
LEMMA ListInvariance == ConsoleSpec => []ListInv
<1>1. ConsoleInit => ListInv
  BY ListInitInv DEF ConsoleInit, ListInv
<1>2. ListInv /\ [ConsoleNext]_<<part, vars, formVars, listVars, creationVars>> => ListInv'
  <2> SUFFICES ASSUME ListInv, [ConsoleNext]_<<part, vars, formVars, listVars, creationVars>>,
                      part' = "list"
               PROVE  List!TypeOK' /\ List!PageIsOffered'
    BY DEF ListInv
  <2>1. part = "list" /\ List!TypeOK /\ List!PageIsOffered
    BY DEF ConsoleNext, ListInv
  <2>2. List!Next \/ UNCHANGED listVars
    BY <2>1 DEF ConsoleNext
  <2>3. CASE List!Next
    BY <2>1, <2>3, ListStepInv
  <2>4. CASE UNCHANGED listVars
    BY <2>1, <2>4 DEF listVars, List!TypeOK, List!PageIsOffered, List!Rest, List!Part, List!Keeps
  <2> QED
    BY <2>2, <2>3, <2>4
<1> QED
  BY <1>1, <1>2, PTL DEF ConsoleSpec

\* The rows on screen are those of the parameters on screen, for every number of values and
\* pages: the key of each list's query names all the query fetches with.
THEOREM RowsShown == ConsoleSpec => []RowsAreAskedFor
<1>1. ListInv => RowsAreAskedFor
  <2> SUFFICES ASSUME ListInv, part = "list", List!OnScreen
               PROVE  List!Part(rows.of, list.fetch) = List!Part(asked, list.fetch)
    BY DEF RowsAreAskedFor, List!RowsAreAskedFor
  <2>1. list.key = list.fetch
    BY ListsAreSound DEF ListInv, List!TypeOK, ListIsSound
  <2> QED
    BY <2>1 DEF List!OnScreen, List!Key
<1> QED
  BY <1>1, ListInvariance, PTL

\* No list asks for a page it never offered for the search and filter on screen, for every
\* number of values and pages: a change of parameter returns to the first page.
THEOREM PageOffered == ConsoleSpec => []PageIsOffered
<1>1. ListInv => PageIsOffered
  BY DEF ListInv, PageIsOffered
<1> QED
  BY <1>1, ListInvariance, PTL

-----------------------------------------------------------------------------
(* The forms. *)

\* What the tables of the forms have in common.
FormIsSound(f) ==
  /\ 1 \in f.subjects /\ f.subjects \subseteq Form!Subjects
  /\ f.closes => f.lock \/ f.unmounts \/ "late answer" \in f.allows
  /\ f.clears => f.fixed \/ "typed meanwhile" \in f.allows
  /\ f.start \in {"kept", "blank", "row", "detail", "detail or row"}
  /\ f.start = "kept" => ~f.dialog \/ "carried" \in f.allows
  /\ f.start = "detail or row" => "stale base" \in f.allows
  /\ f.start \in {"row", "detail"} => f.dialog /\ f.start \in f.tells /\ ~f.clears /\ ~f.empties /\ ~f.unmounts

\* Each form guards against what it does not allow.
LEMMA FormsAreSound == \A f \in Form!Forms : FormIsSound(f)
<1> USE DEF FormIsSound, Form!Dialog, Form!Page, Form!Subjects
<1>1. FormIsSound(Form!CatalogPoolForm) /\ FormIsSound(Form!IqiyiPoolForm)
  BY DEF Form!CatalogPoolForm, Form!IqiyiPoolForm, Form!PoolForm
<1>2. FormIsSound(Form!ImportForm)
  BY DEF Form!ImportForm, Form!PoolForm
<1>3. FormIsSound(Form!BindingForm) /\ FormIsSound(Form!BilibiliBindingForm)
  BY DEF Form!BindingForm, Form!BilibiliBindingForm
<1>4. FormIsSound(Form!KeywordForm) /\ FormIsSound(Form!NativeRuleForm)
  BY DEF Form!KeywordForm, Form!NativeRuleForm
<1>5. FormIsSound(Form!NewVideoForm) /\ FormIsSound(Form!VideoNameForm) /\ FormIsSound(Form!VideoBindingForm)
  BY DEF Form!NewVideoForm, Form!VideoNameForm, Form!VideoBindingForm
<1>6. FormIsSound(Form!AddDanmakuForm) /\ FormIsSound(Form!NewDanmakuForm) /\ FormIsSound(Form!DanmakuEditor)
  BY DEF Form!AddDanmakuForm, Form!NewDanmakuForm, Form!DanmakuEditor
<1>7. FormIsSound(Form!UserEditor) /\ FormIsSound(Form!NewUser)
  BY DEF Form!UserEditor, Form!NewUser, Form!Editor
<1>8. FormIsSound(Form!ProfileEditor) /\ FormIsSound(Form!PasswordEditor)
  BY DEF Form!ProfileEditor, Form!PasswordEditor, Form!Editor
<1> HIDE DEF FormIsSound, Form!Dialog, Form!Page
<1> QED
  BY <1>1, <1>2, <1>3, <1>4, <1>5, <1>6, <1>7, <1>8
  DEF Form!Forms, Form!CatalogPoolForm, Form!AnimekoPoolForm, Form!DandanplayPoolForm, Form!IqiyiPoolForm, Form!BilibiliPoolForm,
      Form!CatalogBindingForm, Form!AnimekoBindingForm, Form!DandanplayBindingForm, Form!IqiyiBindingForm,
      Form!ExternalBindingForm, Form!CatalogKeywordForm, Form!AnimekoKeywordForm, Form!DandanplayKeywordForm,
      Form!IqiyiKeywordForm, Form!BilibiliKeywordForm, Form!ExternalKeywordForm

\* Whom the pending call was submitted for, and that a form that cannot be left while it is
\* pending is still on screen.
CallInv ==
  Form!Pending =>
    /\ call.opening <= opening
    /\ call.opening = opening /\ shown # 0 => call.subject = shown
    /\ form.lock \/ form.unmounts => shown # 0 /\ call.opening = opening

\* Nothing is typed into disabled inputs.
TypedInv == form.fixed => ~call.typed

\* The text of a form that carries none over was begun in this opening.
TextInv == "carried" \notin form.allows /\ shown # 0 => text = Form!Blank \/ text.from = opening

\* A form with one source shows what that view has, and the view has what was saved from here.
View == IF form.start = "row" THEN row ELSE detail
BaseInv ==
  form.start \in {"row", "detail"} =>
    /\ \A s \in Form!Subjects : own[s] <= View[s] /\ View[s] <= stored[s]
    /\ form.start = "row" => \A s \in Form!Subjects : row[s] # 0
    /\ shown # 0 /\ View[shown] # 0 => text.base = View[shown]

CallType == [state : {"none", "sent", "applied"}, opening : 0..MaxOpenings,
             subject : {0} \cup Form!Subjects, version : Form!Versions, typed : BOOLEAN]
TextType == [from : 0..MaxOpenings, base : Form!Versions]

\* The bounds are numbers, and no call and no text are what their types allow.
LEMMA FormConstants ==
  /\ MaxOpenings \in Nat /\ MaxOpenings >= 1 /\ MaxVersion \in Nat /\ MaxVersion >= 1
  /\ Form!NoCall \in CallType /\ Form!Blank \in TextType
  /\ Form!NoCall.state = "none" /\ ~Form!NoCall.typed
<1>1. MaxOpenings \in Nat /\ MaxOpenings >= 1 /\ MaxVersion \in Nat /\ MaxVersion >= 1
  BY ConsoleBounds
<1>2. Form!NoCall \in CallType /\ Form!NoCall.state = "none" /\ ~Form!NoCall.typed
  BY <1>1 DEF Form!NoCall, CallType, Form!Versions
<1>3. Form!Blank \in TextType
  BY <1>1 DEF Form!Blank, TextType, Form!Versions
<1> QED
  BY <1>1, <1>2, <1>3

\* A form is filled with a version of what it edits.
LEMMA FilledType ==
  ASSUME NEW o \in 0..MaxOpenings, NEW r \in Form!Versions, NEW d \in Form!Versions
  PROVE  /\ Form!Filled(o, r, d) \in TextType
         /\ Form!Filled(o, r, d) = Form!Blank \/ Form!Filled(o, r, d).from = o
         /\ form.start = "row" /\ r # 0 => Form!Filled(o, r, d).base = r
         /\ form.start = "detail" /\ d # 0 => Form!Filled(o, r, d).base = d
BY FormConstants DEF Form!Filled, Form!Source, TextType

FormParts == Form!TypeOK /\ CallInv /\ TypedInv /\ TextInv /\ BaseInv

\* A form begins closed, or a page with nothing in it.
LEMMA FormInitInv == Form!Init => FormParts
<1> SUFFICES ASSUME Form!Init PROVE FormParts
  OBVIOUS
<1>1. /\ FormIsSound(form) /\ form \in Form!Forms
      /\ 0 \in Form!Versions /\ 1 \in Form!Versions
  BY FormsAreSound, FormConstants DEF Form!Init, Form!Versions
<1>2. Form!TypeOK
  <2>1. text \in TextType /\ call \in CallType
    BY FormConstants DEF Form!Init
  <2>2. {stored, row, detail, own} \subseteq [Form!Subjects -> Form!Versions]
    BY <1>1 DEF Form!Init
  <2>3. shown \in {0} \cup form.subjects /\ opening \in 0..MaxOpenings
    <3>1. shown \in {0, 1} /\ opening \in {0, 1}
      BY DEF Form!Init
    <3>2. 1 \in form.subjects
      BY <1>1 DEF FormIsSound
    <3>3. {0, 1} \subseteq 0..MaxOpenings
      BY FormConstants
    <3> QED
      BY <3>1, <3>2, <3>3
  <2> QED
    BY <1>1, <2>1, <2>2, <2>3 DEF Form!TypeOK, TextType, CallType
<1>3. CallInv /\ TypedInv /\ TextInv
  BY FormConstants DEF Form!Init, Form!Pending, CallInv, TypedInv, TextInv
<1>4. BaseInv
  <2> SUFFICES ASSUME form.start \in {"row", "detail"}
               PROVE  /\ \A s \in Form!Subjects : own[s] <= View[s] /\ View[s] <= stored[s]
                      /\ form.start = "row" => \A s \in Form!Subjects : row[s] # 0
                      /\ shown # 0 /\ View[shown] # 0 => text.base = View[shown]
    BY DEF BaseInv
  <2>1. form.dialog /\ shown = 0
    BY <1>1 DEF Form!Init, FormIsSound
  <2> QED
    BY <2>1 DEF Form!Init, View
<1> QED
  BY <1>2, <1>3, <1>4 DEF FormParts

-----------------------------------------------------------------------------
\* What the types of a form's state say of its parts.
LEMMA FormTypes ==
  ASSUME Form!TypeOK
  PROVE  /\ FormIsSound(form) /\ shown \in {0, 1, 2} /\ (shown # 0 => shown \in Form!Subjects)
         /\ opening \in 0..MaxOpenings /\ text \in TextType /\ call \in CallType
         /\ stored \in [Form!Subjects -> Form!Versions] /\ row \in [Form!Subjects -> Form!Versions]
         /\ detail \in [Form!Subjects -> Form!Versions] /\ own \in [Form!Subjects -> Form!Versions]
<1>1. FormIsSound(form)
  BY FormsAreSound DEF Form!TypeOK
<1> QED
  BY <1>1 DEF Form!TypeOK, FormIsSound, Form!Subjects, TextType, CallType

\* Opening keeps the form's invariant.
LEMMA OpenKeeps == ASSUME FormParts, NEW s \in Form!Subjects, Form!Open(s) PROVE FormParts'
<1>1. /\ form' = form /\ call' = call /\ stored' = stored /\ row' = row /\ detail' = detail /\ own' = own
      /\ form.dialog /\ shown = 0 /\ opening < MaxOpenings /\ s \in form.subjects
      /\ shown' = s /\ opening' = opening + 1
      /\ text' = IF Form!Edits THEN Form!Filled(opening + 1, row[s], detail[s])
                 ELSE IF form.start = "blank" THEN Form!Blank ELSE text
  BY DEF Form!Open
<1> DEFINE fill == Form!Filled(opening + 1, row[s], detail[s])
<1>2. /\ opening + 1 \in 0..MaxOpenings /\ fill \in TextType
      /\ fill = Form!Blank \/ fill.from = opening + 1
      /\ form.start = "row" /\ row[s] # 0 => fill.base = row[s]
      /\ form.start = "detail" /\ detail[s] # 0 => fill.base = detail[s]
  <2>1. opening + 1 \in 0..MaxOpenings
    BY <1>1, FormTypes, FormConstants DEF FormParts
  <2>2. row[s] \in Form!Versions /\ detail[s] \in Form!Versions
    BY FormTypes DEF FormParts
  <2> QED
    BY <2>1, <2>2, FilledType
<1> HIDE DEF fill
<1>3. Form!TypeOK'
  <2>1. text' \in TextType
    BY <1>1, <1>2, FormConstants, FormTypes DEF FormParts, fill
  <2> QED
    BY <1>1, <1>2, <2>1, FormTypes DEF FormParts, Form!TypeOK, TextType, CallType
<1>4. CallInv' /\ TypedInv'
  BY <1>1, FormTypes DEF FormParts, CallInv, TypedInv, Form!Pending, CallType
<1>5. TextInv'
  BY <1>1, <1>2, FormTypes DEF FormParts, TextInv, FormIsSound, Form!Edits, fill
<1>6. BaseInv'
  BY <1>1, <1>2, FormTypes DEF FormParts, BaseInv, View, Form!Edits, fill
<1> QED
  BY <1>3, <1>4, <1>5, <1>6 DEF FormParts

\* Closing keeps the form's invariant.
LEMMA CloseKeeps == ASSUME FormParts, Form!Close PROVE FormParts'
<1>1. /\ UNCHANGED <<form, opening, stored, row, detail, own>>
      /\ form.dialog /\ shown # 0 /\ shown' = 0 /\ (form.lock => ~Form!Pending)
      /\ text' \in {text, Form!Blank}
      /\ call' = IF form.unmounts THEN Form!NoCall ELSE call
  BY DEF Form!Close
<1>2. Form!TypeOK'
  <2>1. text' \in TextType /\ call' \in CallType
    BY <1>1, FormTypes, FormConstants DEF FormParts
  <2> QED
    BY <1>1, <2>1 DEF FormParts, Form!TypeOK, TextType, CallType
<1>3. CallInv' /\ TypedInv'
  BY <1>1, FormTypes, FormConstants DEF FormParts, CallInv, TypedInv, Form!Pending
<1>4. TextInv' /\ BaseInv'
  BY <1>1 DEF FormParts, TextInv, BaseInv, View
<1> QED
  BY <1>2, <1>3, <1>4 DEF FormParts

\* Typing keeps the form's invariant.
LEMMA TypeKeeps == ASSUME FormParts, Form!Type PROVE FormParts'
<1>1. /\ UNCHANGED <<form, shown, opening, stored, row, detail, own>>
      /\ shown # 0 /\ (form.fixed => ~Form!Pending)
      /\ text' = IF text = Form!Blank THEN [text EXCEPT !.from = opening] ELSE text
      /\ call' = IF Form!Pending THEN [call EXCEPT !.typed = TRUE] ELSE call
  BY DEF Form!Type, Form!HasInputs
<1>2. /\ text' \in TextType /\ text'.base = text.base
      /\ text' = text \/ text'.from = opening
  BY <1>1, FormTypes DEF FormParts, TextType
<1>3. /\ call' \in CallType
      /\ ~Form!Pending => call' = call
      /\ call'.opening = call.opening /\ call'.subject = call.subject
  BY <1>1, FormTypes DEF FormParts, CallType
<1>4. Form!TypeOK'
  BY <1>1, <1>2, <1>3 DEF FormParts, Form!TypeOK, TextType, CallType
<1>5. CallInv' /\ TypedInv'
  BY <1>1, <1>3 DEF FormParts, CallInv, TypedInv, Form!Pending
<1>6. TextInv'
  BY <1>1, <1>2 DEF FormParts, TextInv
<1>7. BaseInv'
  BY <1>1, <1>2 DEF FormParts, BaseInv, View
<1> QED
  BY <1>4, <1>5, <1>6, <1>7 DEF FormParts

\* Submitting keeps the form's invariant.
LEMMA SubmitKeeps == ASSUME FormParts, Form!Submit PROVE FormParts'
<1>1. /\ UNCHANGED <<form, shown, opening, text, stored, row, detail, own>>
      /\ shown # 0
      /\ call' = [Form!NoCall EXCEPT !.state = "sent", !.opening = opening, !.subject = shown]
  BY DEF Form!Submit
<1>2. /\ call' = [state |-> "sent", opening |-> opening, subject |-> shown, version |-> 0, typed |-> FALSE]
  BY <1>1 DEF Form!NoCall
<1>3. Form!TypeOK'
  <2>1. call' \in CallType
    BY <1>1, <1>2, FormTypes, FormConstants DEF FormParts, CallType, Form!Versions, Form!Subjects
  <2> QED
    BY <1>1, <2>1 DEF FormParts, Form!TypeOK, CallType
<1>4. CallInv' /\ TypedInv'
  <2>1. opening <= opening
    BY FormTypes, FormConstants DEF FormParts
  <2>2. call'.opening = opening /\ call'.subject = shown /\ ~call'.typed
    BY <1>2
  <2> QED
    BY <1>1, <2>1, <2>2 DEF CallInv, TypedInv
<1>5. TextInv' /\ BaseInv'
  BY <1>1 DEF FormParts, TextInv, BaseInv, View
<1> QED
  BY <1>3, <1>4, <1>5 DEF FormParts

\* What the server does keeps the form's invariant.
LEMMA ApplyKeeps == ASSUME FormParts, Form!Apply PROVE FormParts'
<1>1. /\ UNCHANGED <<form, shown, opening, text, row, detail, own>>
      /\ call.state = "sent"
  BY DEF Form!Apply
<1>2. /\ call' \in CallType /\ stored' \in [Form!Subjects -> Form!Versions]
      /\ call'.opening = call.opening /\ call'.subject = call.subject /\ call'.typed = call.typed
      /\ \A s \in Form!Subjects : stored[s] <= stored'[s]
  <2>1. CASE Form!Edits
    <3> DEFINE v == stored[call.subject] + 1
    <3>1. /\ v \in Form!Versions
          /\ stored' = [stored EXCEPT ![call.subject] = v]
          /\ call' = [call EXCEPT !.state = "applied", !.version = v]
      BY <2>1 DEF Form!Apply
    <3>2. /\ call' \in CallType
          /\ call'.opening = call.opening /\ call'.subject = call.subject /\ call'.typed = call.typed
      BY <3>1, FormTypes DEF FormParts, CallType
    <3>3. stored' \in [Form!Subjects -> Form!Versions]
      BY <3>1, FormTypes DEF FormParts
    <3>4. \A s \in Form!Subjects : stored[s] <= stored'[s]
      BY <3>1, FormTypes, FormConstants DEF FormParts, Form!Versions
    <3> QED
      BY <3>2, <3>3, <3>4
  <2>2. CASE ~Form!Edits
    <3>1. call' = [call EXCEPT !.state = "applied"] /\ stored' = stored
      BY <2>2 DEF Form!Apply
    <3> QED
      BY <3>1, FormTypes, FormConstants DEF FormParts, CallType, Form!Versions
  <2> QED
    BY <2>1, <2>2
<1>3. Form!TypeOK'
  BY <1>1, <1>2 DEF FormParts, Form!TypeOK, CallType
<1>4. CallInv' /\ TypedInv'
  BY <1>1, <1>2, FormConstants DEF FormParts, CallInv, TypedInv, Form!Pending
<1>5. TextInv'
  BY <1>1 DEF FormParts, TextInv
<1>6. BaseInv'
  BY <1>1, <1>2, FormTypes, FormConstants DEF FormParts, BaseInv, View, Form!Versions
<1> QED
  BY <1>3, <1>4, <1>5, <1>6 DEF FormParts

\* A call that fails keeps the form's invariant.
LEMMA FailKeeps == ASSUME FormParts, Form!Fail PROVE FormParts'
<1>1. /\ UNCHANGED <<form, shown, opening, text, stored, row, detail, own>>
      /\ call' = Form!NoCall
  BY DEF Form!Fail
<1>2. Form!TypeOK'
  BY <1>1, FormConstants DEF FormParts, Form!TypeOK, CallType
<1>3. CallInv' /\ TypedInv'
  BY <1>1, FormConstants DEF CallInv, TypedInv, Form!Pending
<1>4. TextInv' /\ BaseInv'
  BY <1>1 DEF FormParts, TextInv, BaseInv, View
<1> QED
  BY <1>2, <1>3, <1>4 DEF FormParts

\* The list fetched anew keeps the form's invariant.
LEMMA RowKeeps == ASSUME FormParts, NEW s \in Form!Subjects, Form!RowArrives(s) PROVE FormParts'
<1> DEFINE fill == Form!Filled(opening, stored[s], detail[s])
<1>1. /\ UNCHANGED <<form, shown, opening, call, stored, detail, own>>
      /\ row' = [row EXCEPT ![s] = stored[s]]
      /\ text' = IF shown = s /\ form.start \in {"row", "detail or row"} THEN fill ELSE text
  BY DEF Form!RowArrives
<1>2. stored[s] \in Form!Versions /\ detail[s] \in Form!Versions
  BY FormTypes DEF FormParts
<1>3. /\ fill \in TextType
      /\ fill = Form!Blank \/ fill.from = opening
      /\ form.start = "row" /\ stored[s] # 0 => fill.base = stored[s]
  BY <1>2, FilledType, FormTypes DEF FormParts
<1> HIDE DEF fill
<1>4. Form!TypeOK'
  <2>1. text' \in TextType /\ row' \in [Form!Subjects -> Form!Versions]
    BY <1>1, <1>2, <1>3, FormTypes DEF FormParts
  <2> QED
    BY ZenonT(40), <1>1, <2>1 DEF FormParts, Form!TypeOK, TextType
<1>5. CallInv' /\ TypedInv'
  BY <1>1 DEF FormParts, CallInv, TypedInv, Form!Pending
<1>6. TextInv'
  BY <1>1, <1>3 DEF FormParts, TextInv
<1>7. BaseInv'
  <2>1. CASE form.start = "row"
    <3>1. /\ row'[s] = stored[s]
          /\ \A t \in Form!Subjects : t # s => row'[t] = row[t]
      BY <1>1, FormTypes DEF FormParts
    <3>2. /\ \A t \in Form!Subjects : own[t] <= row[t] /\ row[t] <= stored[t] /\ row[t] # 0
          /\ shown # 0 => text.base = row[shown]
      BY <2>1, FormTypes DEF FormParts, BaseInv, View
    <3>3. \A t \in Form!Subjects : own[t] \in Nat /\ row[t] \in Nat /\ stored[t] \in Nat
      BY FormTypes, FormConstants DEF FormParts, Form!Versions
    <3>4. \A t \in Form!Subjects : own[t] <= row'[t] /\ row'[t] <= stored[t] /\ row'[t] # 0
      BY <3>1, <3>2, <3>3
    <3>5. shown # 0 => text'.base = row'[shown]
      BY <1>1, <1>3, <2>1, <3>1, <3>2, <3>4, FormTypes DEF FormParts
    <3> QED
      BY <1>1, <2>1, <3>4, <3>5 DEF BaseInv, View
  <2>2. CASE form.start # "row"
    BY <1>1, <2>2 DEF FormParts, BaseInv, View
  <2> QED
    BY <2>1, <2>2
<1> QED
  BY <1>4, <1>5, <1>6, <1>7 DEF FormParts

\* The detail fetched anew keeps the form's invariant.
LEMMA DetailKeeps == ASSUME FormParts, Form!DetailArrives PROVE FormParts'
<1> DEFINE fill == Form!Filled(opening, row[shown], stored[shown])
<1>1. /\ UNCHANGED <<form, shown, opening, call, stored, row, own>>
      /\ shown # 0 /\ form.start \in {"detail", "detail or row"}
      /\ detail' = [detail EXCEPT ![shown] = stored[shown]]
      /\ text' = fill
  BY DEF Form!DetailArrives
<1>2. shown \in Form!Subjects /\ stored[shown] \in Form!Versions /\ row[shown] \in Form!Versions
  BY <1>1, FormTypes DEF FormParts
<1>3. /\ fill \in TextType
      /\ fill = Form!Blank \/ fill.from = opening
      /\ form.start = "detail" /\ stored[shown] # 0 => fill.base = stored[shown]
  BY <1>2, FilledType, FormTypes DEF FormParts
<1> HIDE DEF fill
<1>4. Form!TypeOK'
  <2>1. detail' \in [Form!Subjects -> Form!Versions]
    BY <1>1, <1>2, FormTypes DEF FormParts
  <2> QED
    BY <1>1, <1>3, <2>1 DEF FormParts, Form!TypeOK, TextType
<1>5. CallInv' /\ TypedInv'
  BY <1>1 DEF FormParts, CallInv, TypedInv, Form!Pending
<1>6. TextInv'
  BY <1>1, <1>3 DEF FormParts, TextInv
<1>7. BaseInv'
  <2> SUFFICES ASSUME form.start = "detail"
               PROVE  /\ \A t \in Form!Subjects : own[t] <= detail'[t] /\ detail'[t] <= stored[t]
                      /\ detail'[shown] # 0 => text'.base = detail'[shown]
    BY <1>1 DEF BaseInv, View
  <2>1. /\ detail'[shown] = stored[shown]
        /\ \A t \in Form!Subjects : t # shown => detail'[t] = detail[t]
    BY <1>1, <1>2, FormTypes DEF FormParts
  <2>2. \A t \in Form!Subjects : own[t] <= detail[t] /\ detail[t] <= stored[t]
    BY DEF FormParts, BaseInv, View
  <2>3. \A t \in Form!Subjects : own[t] \in Nat /\ detail[t] \in Nat /\ stored[t] \in Nat
    BY FormTypes, FormConstants DEF FormParts, Form!Versions
  <2>4. \A t \in Form!Subjects : own[t] <= detail'[t] /\ detail'[t] <= stored[t]
    BY <2>1, <2>2, <2>3
  <2> QED
    BY <1>1, <1>3, <2>1, <2>4
<1> QED
  BY <1>4, <1>5, <1>6, <1>7 DEF FormParts

\* An answer keeps the form's invariant: what it says was saved is in the view it refetched.
LEMMA DoneKeeps == ASSUME FormParts, Form!Done PROVE FormParts'
<1>1. /\ UNCHANGED <<form, opening, stored, row, detail>>
      /\ call.state = "applied" /\ Form!Told
      /\ shown' = IF form.closes THEN 0 ELSE shown
      /\ text' = IF form.clears THEN Form!Blank ELSE text
      /\ own' = IF shown # 0 /\ opening = call.opening
                THEN [own EXCEPT ![shown] = call.version] ELSE own
      /\ call' = Form!NoCall
  BY DEF Form!Done
<1>2. call.version \in Form!Versions /\ Form!Pending
  BY <1>1, FormTypes, FormConstants DEF FormParts, CallType, Form!Pending
<1>3. Form!TypeOK'
  <2>1. text' \in TextType /\ own' \in [Form!Subjects -> Form!Versions]
    BY <1>1, <1>2, FormTypes, FormConstants DEF FormParts
  <2> QED
    BY <1>1, <2>1, FormConstants DEF FormParts, Form!TypeOK, TextType, CallType
<1>4. CallInv' /\ TypedInv'
  BY <1>1, FormConstants DEF CallInv, TypedInv, Form!Pending
<1>5. TextInv'
  BY <1>1 DEF FormParts, TextInv
<1>6. ASSUME form.start \in {"row", "detail"} PROVE \A s \in Form!Subjects : own'[s] <= View[s]
  <2>1. \A s \in Form!Subjects : own[s] <= View[s]
    BY <1>6 DEF FormParts, BaseInv
  <2>2. CASE shown # 0 /\ opening = call.opening
    <3>1. call.subject = shown /\ shown \in Form!Subjects
      BY <1>2, <2>2, FormTypes DEF FormParts, CallInv
    <3>2. View[shown] >= call.version
      BY <1>1, <1>6, <3>1, FormTypes DEF FormParts, FormIsSound, Form!Told, View
    <3>3. own' = [own EXCEPT ![shown] = call.version]
      BY <1>1, <2>2
    <3>4. View \in [Form!Subjects -> Form!Versions] /\ own \in [Form!Subjects -> Form!Versions]
      BY FormTypes DEF FormParts, View
    <3>5. \A v \in Form!Versions : v \in Nat
      BY FormConstants DEF Form!Versions
    <3> QED
      BY <1>2, <2>1, <3>1, <3>2, <3>3, <3>4, <3>5
  <2> QED
    BY <1>1, <2>1, <2>2
<1>7. BaseInv'
  BY <1>1, <1>6, FormTypes DEF FormParts, BaseInv, View, FormIsSound
<1> QED
  BY <1>3, <1>4, <1>5, <1>7 DEF FormParts

\* Every step of a form keeps the form's invariant.
LEMMA FormStepInv == ASSUME FormParts, Form!Next PROVE FormParts'
BY OpenKeeps, CloseKeeps, TypeKeeps, SubmitKeeps, ApplyKeeps, FailKeeps, RowKeeps, DetailKeeps, DoneKeeps
DEF Form!Next

FormInv == part = "form" => FormParts

\* A behaviour about a form keeps the form's invariant.
LEMMA FormInvariance == ConsoleSpec => []FormInv
<1>1. ConsoleInit => FormInv
  BY FormInitInv DEF ConsoleInit, FormInv
<1>2. FormInv /\ [ConsoleNext]_<<part, vars, formVars, listVars, creationVars>> => FormInv'
  <2> SUFFICES ASSUME FormInv, [ConsoleNext]_<<part, vars, formVars, listVars, creationVars>>,
                      part' = "form"
               PROVE  FormParts'
    BY DEF FormInv
  <2>1. part = "form" /\ FormParts
    BY DEF ConsoleNext, FormInv
  <2>2. Form!Next \/ UNCHANGED formVars
    BY <2>1 DEF ConsoleNext
  <2>3. CASE Form!Next
    BY <2>1, <2>3, FormStepInv
  <2>4. CASE UNCHANGED formVars
    BY <2>1, <2>4 DEF formVars, FormParts, Form!TypeOK, CallInv, TypedInv, TextInv, BaseInv, View, Form!Pending
  <2> QED
    BY <2>2, <2>3, <2>4
<1> QED
  BY <1>1, <1>2, PTL DEF ConsoleSpec

\* An answer closes only the opening it was submitted from and clears only what was submitted,
\* but for the forms that say otherwise, for every number of openings and versions.
THEOREM AnswersOwnOnly == ConsoleSpec => AnswerEndsOwn
<1>1. FormParts => Form!AnswerStep
  <2> SUFFICES ASSUME FormParts, Form!Done
               PROVE  /\ shown # 0 /\ shown' = 0 => call.opening = opening \/ "late answer" \in form.allows
                      /\ text # Form!Blank /\ text' = Form!Blank =>
                           ~call.typed \/ "typed meanwhile" \in form.allows
    BY DEF Form!AnswerStep
  <2>1. /\ call.state = "applied"
        /\ shown' = IF form.closes THEN 0 ELSE shown
        /\ text' = IF form.clears THEN Form!Blank ELSE text
    BY DEF Form!Done
  <2>2. Form!Pending /\ FormIsSound(form)
    BY <2>1, FormTypes, FormConstants DEF FormParts, Form!Pending
  <2> QED
    BY <2>1, <2>2 DEF FormParts, FormIsSound, CallInv, TypedInv
<1>2. FormInv /\ [ConsoleNext]_<<part, vars, formVars, listVars, creationVars>>
        => [part = "form" => Form!AnswerStep]_<<part, formVars>>
  BY <1>1 DEF FormInv
<1> QED
  BY <1>2, FormInvariance, PTL DEF ConsoleSpec, AnswerEndsOwn

\* What a form submits was begun in the opening it is submitted from, but for the forms that
\* carry their text over, for every number of openings and versions.
THEOREM OwnTextOnly == ConsoleSpec => SubmitsOwn
<1>1. FormParts => Form!OwnStep
  BY DEF FormParts, TextInv, Form!OwnStep, Form!Submit
<1>2. FormInv /\ [ConsoleNext]_<<part, vars, formVars, listVars, creationVars>>
        => [part = "form" => Form!OwnStep]_<<part, formVars>>
  BY <1>1 DEF FormInv
<1> QED
  BY <1>2, FormInvariance, PTL DEF ConsoleSpec, SubmitsOwn

\* A form that edits is filled with at least what was last saved through it, but for UserEditor,
\* for every number of openings and versions: its save waits for the view it is filled from.
THEOREM SavesOwnBase == ConsoleSpec => SavesOnOwn
<1>1. FormParts => Form!BaseStep
  <2> SUFFICES ASSUME FormParts, Form!Submit, Form!Edits
               PROVE  text.base >= own[shown] \/ "stale base" \in form.allows
    BY DEF Form!BaseStep
  <2>1. shown # 0 /\ (form.start = "detail" => detail[shown] # 0)
    BY DEF Form!Submit, Form!HasInputs
  <2>2. CASE form.start \in {"row", "detail"}
    <3>1. text.base = View[shown] /\ own[shown] <= View[shown]
      BY <2>1, <2>2, FormTypes DEF FormParts, BaseInv, View
    <3>2. own[shown] \in Nat /\ View[shown] \in Nat
      BY <2>1, FormTypes, FormConstants DEF FormParts, View, Form!Versions
    <3> QED
      BY <3>1, <3>2
  <2>3. CASE form.start = "detail or row"
    BY <2>3, FormTypes DEF FormParts, FormIsSound
  <2> QED
    BY <2>2, <2>3 DEF Form!Edits
<1>2. FormInv /\ [ConsoleNext]_<<part, vars, formVars, listVars, creationVars>>
        => [part = "form" => Form!BaseStep]_<<part, formVars>>
  BY <1>1 DEF FormInv
<1> QED
  BY <1>2, FormInvariance, PTL DEF ConsoleSpec, SavesOnOwn
=============================================================================
