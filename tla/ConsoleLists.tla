----------------------------- MODULE ConsoleLists ------------------------------
(***************************************************************************)
(* One paged list of the administration console: the parameters its user   *)
(* sets, the query that fetches its rows and the buttons that turn pages.  *)
(*                                                                         *)
(* Every list is a component with a page, most with a search and a filter, *)
(* and the lists in dialogs with the row of another list they were opened  *)
(* for, their subject.  The rows are cached under a key made of parameters *)
(* and fetched with parameters; both are written out in each component,    *)
(* and so is the return to the first page when a parameter changes.  One   *)
(* record per list says what its component does.                           *)
(***************************************************************************)
EXTENDS Naturals

CONSTANTS
  Values,    \* values of the search, of the filter and of the subject
  MaxPages   \* bound on the pages of a list

-----------------------------------------------------------------------------
(* What a list's component says. *)

PagedList(parameters) ==
  [fetch  |-> parameters \cup {"page"},   \* the parameters of the request
   key    |-> parameters \cup {"page"},   \* the parameters in the key of the query
   resets |-> parameters,                 \* those whose change returns to the first page
   after  |-> {}]                         \* those that return to it in an effect, after a render

(* Lists of pools. *)
CatalogPools    == PagedList({"query"})
AnimekoPools    == PagedList({"query"})
DandanplayPools == PagedList({"query"})
IqiyiPools      == PagedList({"query"})
BilibiliPools   == PagedList({"query"})
ExternalPools   == PagedList({"query"})

Mut_PoolDanmaku ==
  [PagedList({"subject", "query", "filter"}) EXCEPT !.resets = {"query", "filter"},
                                                    !.key = {"subject", "page", "query"}]

(* Danmaku of one pool: opened for another pool, the dialog keeps its page, its search *)
(* and its filter; only bilibili's starts over.                                        *)
PoolDanmaku == [PagedList({"subject", "query", "filter"}) EXCEPT !.resets = {"query", "filter"}]

CatalogPoolDanmaku    == PoolDanmaku
AnimekoPoolDanmaku    == PoolDanmaku
DandanplayPoolDanmaku == PoolDanmaku
IqiyiPoolDanmaku      == PoolDanmaku
BilibiliPoolDanmaku   == [PoolDanmaku EXCEPT !.after = {"subject"}]
ExternalDetail        == [PagedList({"subject"}) EXCEPT !.resets = {}]

Mut_VideoList == [PagedList({"query", "filter"}) EXCEPT !.resets = {"query"}]

(* The site's lists; the filters of danmaku are submitted with the search. *)
VideoList     == PagedList({"query", "filter"})
NativeDanmaku == PagedList({"query"})
Users         == PagedList({"query", "filter"})

Lists ==
  {CatalogPools, AnimekoPools, DandanplayPools, IqiyiPools, BilibiliPools, ExternalPools,
   CatalogPoolDanmaku, AnimekoPoolDanmaku, DandanplayPoolDanmaku, IqiyiPoolDanmaku,
   BilibiliPoolDanmaku, ExternalDetail, VideoList, NativeDanmaku, Users}

-----------------------------------------------------------------------------
VARIABLES
  list,    \* the list this is about
  asked,   \* the parameters on screen
  due,     \* an effect will return to the first page
  rows,    \* an entry of the cache: the parameters it was fetched with and the pages there are
  fetch,   \* a fetch under way
  offer    \* history: when the user last went to a next page, the parameters and the pages

vars == <<list, asked, due, rows, fetch, offer>>

Parameters == {"subject", "page", "query", "filter"}
Pages      == 1..MaxPages
Asked      == [subject : Values, page : Pages, query : Values, filter : Values]
None       == [pages |-> 0]
Results    == {[of |-> a, pages |-> p] : a \in Asked, p \in Pages}

Part(a, parameters) == [p \in parameters |-> a[p]]
Key(a)   == Part(a, list.key)
Rest(a)  == Part(a, Parameters \ {"page"})

TypeOK ==
  /\ list \in Lists
  /\ asked \in Asked
  /\ due \in BOOLEAN
  /\ rows \in Results \cup {None}
  /\ fetch \in Asked \cup {None}
  /\ offer \in Results \cup {None}

Init ==
  /\ list \in Lists
  /\ \E v \in Values : asked = [subject |-> v, page |-> 1, query |-> v, filter |-> v]
  /\ due = FALSE
  /\ rows = None
  /\ fetch = None
  /\ offer = None

\* The rows on screen: the data of the entry under the key of the parameters.
OnScreen == rows # None /\ Key(rows.of) = Key(asked)

\* The user submits the search, picks in the filter, or opens the dialog for another row.
Change(parameter, v) ==
  /\ ~due
  /\ parameter \in list.fetch \ {"page"} /\ v # asked[parameter]
  /\ asked' = IF parameter \in list.resets THEN [asked EXCEPT ![parameter] = v, !.page = 1]
                                           ELSE [asked EXCEPT ![parameter] = v]
  /\ due' = (parameter \in list.after)
  /\ UNCHANGED <<list, rows, fetch, offer>>

\* useEffect on the subject: page, search and filter start over.
StartOver(v) ==
  /\ due /\ due' = FALSE
  /\ asked' = [asked EXCEPT !.page = 1, !.query = v, !.filter = v]
  /\ UNCHANGED <<list, rows, fetch, offer>>

\* ListPagination, below the rows and not without them.
PreviousPage ==
  /\ ~due /\ OnScreen /\ asked.page > 1
  /\ asked' = [asked EXCEPT !.page = @ - 1]
  /\ UNCHANGED <<list, due, rows, fetch, offer>>

NextPage ==
  /\ ~due /\ OnScreen /\ asked.page < rows.pages
  /\ asked' = [asked EXCEPT !.page = @ + 1]
  /\ offer' = [of |-> asked, pages |-> rows.pages]
  /\ UNCHANGED <<list, due, rows, fetch>>

\* The query fetches what is on screen: there is nothing under its key, or it is fetched
\* anew.  The request of another key goes on meanwhile; this is one of them.
Fetch ==
  /\ fetch' = asked
  /\ UNCHANGED <<list, asked, due, rows, offer>>

Answer ==
  /\ fetch # None
  /\ rows' \in {[of |-> fetch, pages |-> p] : p \in Pages}
  /\ fetch' = None
  /\ UNCHANGED <<list, asked, due, offer>>

Fail ==
  /\ fetch # None /\ fetch' = None
  /\ UNCHANGED <<list, asked, due, rows, offer>>

Next ==
  \/ \E v \in Values : StartOver(v) \/ \E p \in Parameters : Change(p, v)
  \/ PreviousPage \/ NextPage \/ Fetch \/ Answer \/ Fail

Spec == Init /\ [][Next]_vars

-----------------------------------------------------------------------------
(* Properties. *)

\* The rows on screen were fetched with the parameters on screen, however the user went
\* back and forth between them and whatever was answered meanwhile.
RowsAreAskedFor == OnScreen => Part(rows.of, list.fetch) = Part(asked, list.fetch)

\* Any page but the first is one the list offered for the search, the filter and the
\* subject on screen, but for the dialogs that keep their page for another subject.
Keeps == "subject" \in list.fetch \ (list.resets \cup list.after)
PageIsOffered ==
  asked.page > 1 /\ ~due =>
    /\ offer # None /\ asked.page <= offer.pages
    /\ Keeps \/ Rest(offer.of) = Rest(asked)
=============================================================================
