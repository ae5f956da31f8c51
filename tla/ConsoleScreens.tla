---------------------------- MODULE ConsoleScreens ----------------------------
(***************************************************************************)
(* The administration console, as tables: one record per React component   *)
(* that reads or changes something.  A component reads queries (a key of   *)
(* the query cache and the facts of the server its rendering depends on),  *)
(* makes calls (the facts a call changes, and the keys its useApiMutation  *)
(* invalidates) and opens other components above itself, one set of them   *)
(* at a time (dialogs are modal).                                          *)
(*                                                                         *)
(* A key is <<source, name>>: <<"iqiyi", "pools">> is the code's           *)
(* ["iqiyi-pools", ...]; keys of no source are the site's.  Invalidation   *)
(* goes by prefix, so page numbers and filters are left out of a key.      *)
(***************************************************************************)
EXTENDS FiniteSets

CONSTANT CatalogSources   \* the sources of catalog-page.tsx, one page for all of them

Providers == CatalogSources \cup {"bilibili", "iqiyi", "dandanplay", "animeko"}
Sources   == Providers \cup {"external"}

\* No name of a source is another's, or the one that stands for the site.
ASSUME CatalogAssumption ==
  CatalogSources \cap {"bilibili", "iqiyi", "dandanplay", "animeko", "external", "site"} = {}

-----------------------------------------------------------------------------
(* Facts of the server that a screen can show. *)
Catalogue  == <<"site", "videos">>
Names      == <<"site", "names of videos">>
Trash      == <<"site", "which videos are deleted">>
Added      == <<"site", "which native danmaku there are">>
Native     == <<"site", "text and author of native danmaku">>
Shown      == <<"site", "which native danmaku are shown when">>
Rules      == <<"site", "rules for native danmaku">>
Accounts   == <<"site", "names, addresses and roles of accounts">>
Access     == <<"site", "which accounts exist and may log in">>
Pool(s)    == <<s, "pools and their last sync">>
Stored(s)  == <<s, "danmaku of pools">>
Hidden(s)  == <<s, "blocked danmaku">>
Keyword(s) == <<s, "keywords">>
Bound(s)   == <<s, "bindings to videos">>

OfAll(Fact(_)) == {Fact(s) : s \in Sources}

-----------------------------------------------------------------------------
(* Keys. *)
Site(name) == <<"site", name>>
VideoKeys  == {Site("videos"), Site("video")}
VideoViews      == VideoKeys \cup {Site("video-heatmap")}
Pools(s)   == <<s, "pools">>
Options(s) == IF s \in CatalogSources THEN {<<s, "pool-options">>, Site("catalog-pool-options")}
                                      ELSE {<<s, "pool-options">>}
Danmaku(s)  == <<s, "pool-danmaku">>
Keywords(s) == <<s, "keywords">>

-----------------------------------------------------------------------------
(* What a component is made of. *)
Component(reads, calls, opens) == [reads |-> reads, calls |-> calls, opens |-> opens]

Read(key, shows) == [key |-> key, shows |-> shows]

Mutation(op, changes, invalidate) ==
  [op |-> op, changes |-> changes, always |-> {}, invalidate |-> invalidate]

\* usePoolVideoBinding: whatever became of the creation and the binding, these keys
\* are invalidated before the answer is passed on.
BindingHookKeys(s) == VideoViews \cup {Pools(s), <<s, "pool-options">>, Site("catalog-pool-options")}

\* A creation may name a pool that is there: then it is a forced sync of it.
Creation(s, invalidate) ==
  [op |-> <<s, "create">>, always |-> BindingHookKeys(s), invalidate |-> invalidate,
   changes |-> {Pool(s), Bound(s), Stored(s), Hidden(s)}]

Sync(s, invalidate)  == Mutation(<<s, "sync">>, {Pool(s), Stored(s), Hidden(s)}, invalidate)
Bind(s, invalidate)  == Mutation(<<s, "bind">>, {Bound(s)}, invalidate)
Block(s, invalidate) == Mutation(<<s, "block">>, {Hidden(s)}, invalidate)
KeywordCalls(s, invalidate) ==
  {Mutation(<<s, op>>, {Keyword(s), Hidden(s)}, invalidate) : op \in {"add keyword", "remove keyword"}}

\* What a row of a list of pools, of danmaku of a pool, of keywords shows.
PoolRow(s)    == {Pool(s), Stored(s), Hidden(s), Bound(s)}
DanmakuRow(s) == {Stored(s), Hidden(s)}
KeywordRow(s) == {Keyword(s)}

\* What a choice of videos that are not deleted shows.
VideoChoice == {Catalogue, Names, Trash}

-----------------------------------------------------------------------------
(* pool-video-binding-fields.tsx, inside every dialog that creates a pool. *)
PoolVideoBindingFields ==
  Component({Read(Site("pool-creation-video-options"), VideoChoice)}, {}, {})

(* catalog-page.tsx: one page for every catalog source. *)
CatalogContent(s) == Component({Read(<<s, "pool-options">>, {Pool(s)})}, {}, {})
CatalogBindingDialog(s) ==
  Component({Read(<<s, "binding-video-options">>, VideoChoice)},
            {Bind(s, VideoViews \cup {Pools(s)})}, {})
CatalogPoolDanmakuDialog(s) ==
  Component({Read(Danmaku(s), DanmakuRow(s))},
            {Block(s, VideoViews \cup {Danmaku(s), Pools(s)})}, {})
CatalogPoolPanel(s) ==
  Component({Read(Pools(s), PoolRow(s))},
            {Creation(s, VideoViews \cup Options(s) \cup {Pools(s)}),
             Sync(s, VideoViews \cup {Pools(s), <<s, "pool-options">>, Danmaku(s)})},
            {{PoolVideoBindingFields}, {CatalogBindingDialog(s)}, {CatalogPoolDanmakuDialog(s)}})
CatalogKeywordPanel(s) ==
  Component({Read(Keywords(s), KeywordRow(s))},
            KeywordCalls(s, VideoViews \cup {Keywords(s), Pools(s), Danmaku(s)}), {})

(* animeko-page.tsx *)
AnimekoPage == Component({Read(<<"animeko", "pool-options">>, {Pool("animeko")})}, {}, {})
AnimekoBindingDialog ==
  Component({Read(<<"animeko", "binding-video-options">>, VideoChoice)},
            {Bind("animeko", VideoViews \cup {Pools("animeko")})}, {})
Mut_AnimekoPoolDanmakuDialog ==
  Component({Read(Danmaku("animeko"), DanmakuRow("animeko"))},
            {Block("animeko", VideoViews \cup {Danmaku("animeko")})}, {})

AnimekoPoolDanmakuDialog ==
  Component({Read(Danmaku("animeko"), DanmakuRow("animeko"))},
            {Block("animeko", VideoViews \cup {Danmaku("animeko"), Pools("animeko")})}, {})
AnimekoPoolPanel ==
  Component({Read(Pools("animeko"), PoolRow("animeko"))},
            {Creation("animeko", VideoViews \cup Options("animeko") \cup {Pools("animeko")}),
             Sync("animeko", VideoViews \cup Options("animeko") \cup {Pools("animeko"), Danmaku("animeko")})},
            {{PoolVideoBindingFields}, {AnimekoBindingDialog}, {AnimekoPoolDanmakuDialog}})
AnimekoKeywordPanel ==
  Component({Read(Keywords("animeko"), KeywordRow("animeko"))},
            KeywordCalls("animeko", VideoViews \cup {Keywords("animeko"), Pools("animeko"), Danmaku("animeko")}), {})

(* dandanplay-page.tsx *)
DandanplayPage == Component({Read(<<"dandanplay", "pool-options">>, {Pool("dandanplay")})}, {}, {})
DandanplayBindingDialog ==
  Component({Read(<<"dandanplay", "binding-video-options">>, VideoChoice)},
            {Bind("dandanplay", VideoViews \cup {Pools("dandanplay")})}, {})
DandanplayPoolDanmakuDialog ==
  Component({Read(Danmaku("dandanplay"), DanmakuRow("dandanplay"))},
            {Block("dandanplay", VideoViews \cup {Danmaku("dandanplay"), Pools("dandanplay")})}, {})
DandanplayPoolPanel ==
  Component({Read(Pools("dandanplay"), PoolRow("dandanplay"))},
            {Creation("dandanplay", VideoViews \cup Options("dandanplay") \cup {Pools("dandanplay")}),
             Sync("dandanplay", VideoViews \cup Options("dandanplay") \cup {Pools("dandanplay"), Danmaku("dandanplay")})},
            {{PoolVideoBindingFields}, {DandanplayBindingDialog}, {DandanplayPoolDanmakuDialog}})
DandanplayKeywordPanel ==
  Component({Read(Keywords("dandanplay"), KeywordRow("dandanplay"))},
            KeywordCalls("dandanplay",
              VideoViews \cup {Keywords("dandanplay"), Pools("dandanplay"), Danmaku("dandanplay")}), {})

(* iqiyi-page.tsx *)
IqiyiPage == Component({Read(<<"iqiyi", "pool-options">>, {Pool("iqiyi")})}, {}, {})
IqiyiBindingDialog ==
  Component({Read(<<"iqiyi", "binding-video-options">>, VideoChoice)},
            {Bind("iqiyi", VideoKeys \cup {Pools("iqiyi")})}, {})
IqiyiPoolDanmakuDialog ==
  Component({Read(Danmaku("iqiyi"), DanmakuRow("iqiyi"))},
            {Block("iqiyi", {Danmaku("iqiyi"), Pools("iqiyi")})}, {})
IqiyiPoolPanel ==
  Component({Read(Pools("iqiyi"), PoolRow("iqiyi"))},
            {Creation("iqiyi", Options("iqiyi") \cup {Pools("iqiyi")}),
             Sync("iqiyi", Options("iqiyi") \cup {Pools("iqiyi"), Danmaku("iqiyi")})},
            {{PoolVideoBindingFields}, {IqiyiBindingDialog}, {IqiyiPoolDanmakuDialog}})
IqiyiKeywordPanel ==
  Component({Read(Keywords("iqiyi"), KeywordRow("iqiyi"))},
            KeywordCalls("iqiyi", {Keywords("iqiyi"), Pools("iqiyi"), Danmaku("iqiyi")}), {})

(* bilibili-page.tsx: its list of videos to bind is an entry under "videos". *)
BilibiliPage == Component({Read(<<"bilibili", "pool-options">>, {Pool("bilibili")})}, {}, {})
PoolVideoBindingDialog ==
  Component({Read(<<"site", "videos", "options">>, VideoChoice)},
            {Bind("bilibili", VideoKeys \cup {Pools("bilibili")})}, {})
BilibiliPoolDanmakuDialog ==
  Component({Read(Danmaku("bilibili"), DanmakuRow("bilibili"))},
            {Block("bilibili", {Danmaku("bilibili"), Pools("bilibili")})}, {})
BilibiliPoolPanel ==
  Component({Read(Pools("bilibili"), PoolRow("bilibili"))},
            {Creation("bilibili", Options("bilibili") \cup {Pools("bilibili")}),
             Sync("bilibili", Options("bilibili") \cup {Pools("bilibili"), Danmaku("bilibili")})},
            {{PoolVideoBindingFields}, {PoolVideoBindingDialog}, {BilibiliPoolDanmakuDialog}})
BilibiliKeywordPanel ==
  Component({Read(Keywords("bilibili"), KeywordRow("bilibili"))},
            KeywordCalls("bilibili", {Keywords("bilibili"), Pools("bilibili"), Danmaku("bilibili")}), {})

-----------------------------------------------------------------------------
(* external-page.tsx and external-keyword-panel.tsx *)

ImportKeys == VideoViews \cup {Pools("external"), <<"external", "pool-options">>,
                          Danmaku("external"), Keywords("external")}
\* One dialog for both: a new pool goes through usePoolVideoBinding, an existing
\* one is replaced.
ImportDialog ==
  Component({},
            {Creation("external", ImportKeys),
             Mutation(<<"external", "replace">>, {Pool("external"), Stored("external"), Hidden("external")},
                  ImportKeys)}, {})
ExternalDetailDialog  == Component({Read(Danmaku("external"), DanmakuRow("external"))}, {}, {})
ExternalBindingDialog ==
  Component({Read(<<"external", "binding-video-options">>, VideoChoice)},
            {Bind("external", VideoKeys \cup {Pools("external")})}, {})
ExternalPage ==
  Component({Read(<<"external", "pool-options">>, {Pool("external")}),
             Read(Pools("external"), PoolRow("external"))}, {},
            {{ImportDialog, PoolVideoBindingFields}, {ExternalBindingDialog}, {ExternalDetailDialog}})
ExternalKeywordPanel ==
  Component({Read(Keywords("external"), KeywordRow("external"))},
            KeywordCalls("external", {Keywords("external"), Pools("external"), Danmaku("external"),
                                      Site("video-heatmap")}), {})

(* videos-page.tsx *)
VideoRow == {Catalogue, Names, Trash, Added, Shown} \cup OfAll(Bound) \cup OfAll(Stored)
PoolChoices ==
  {Read(<<s, "pool-options">>, {Pool(s)}) : s \in Sources \ CatalogSources}
    \cup {Read(Site("catalog-pool-options"), {Pool(s) : s \in CatalogSources})}

BindingKeys == VideoViews \cup {Pools(s) : s \in Sources} \cup {Site("catalog-pool-options")}
VideoDialog ==
  Component({Read(Site("video"), {Names, Trash, Added, Shown} \cup OfAll(Bound)),
             Read(Site("video-heatmap"),
                  {Trash, Added, Shown} \cup OfAll(Bound) \cup OfAll(Stored) \cup OfAll(Hidden))},
            {Mutation(<<"video", "rename">>, {Names}, VideoKeys)}
              \cup {Mutation(<<"video", op, s>>, {Bound(s)}, BindingKeys) : op \in {"bind", "unbind"}, s \in Sources},
            {})
AddDanmakuForm ==
  Component({}, {Mutation(<<"native", "add">>, {Added, Catalogue},
                      VideoViews \cup {Site("danmaku"), Site("danmaku-vids")})}, {})
VideosPage ==
  Component({Read(Site("videos"), VideoRow)} \cup PoolChoices,
            {Mutation(<<"video", "create">>, {Catalogue}, {Site("videos")}),
             Mutation(<<"video", "status">>, {Trash}, VideoKeys)},
            {{VideoDialog, AddDanmakuForm}})

(* danmaku-page.tsx and native-rule-panel.tsx *)
\* The detail it invalidates is that of the row it shows when the answer comes: of the
\* row it has edited only if the editor was not left, or opened for another, meanwhile.
DanmakuEditor ==
  Component({Read(Site("danmaku-detail"), {Native, Shown})},
            {Mutation(<<"native", "edit">>, {Native, Shown}, {Site("danmaku"), Site("danmaku-detail")}),
             Mutation(<<"native", "edit and leave">>, {Native, Shown}, {Site("danmaku")})}, {})
NativeRulePanel ==
  Component({Read(Site("native-rules"), {Rules})},
            {Mutation(<<"rule", "create">>, {Rules, Native},
                  {Site("native-rules"), Site("danmaku"), Site("danmaku-detail"), Site("video-heatmap")}),
             Mutation(<<"rule", "remove">>, {Rules}, {Site("native-rules")})}, {})
DanmakuPage ==
  Component({Read(Site("danmaku-vids"), {Catalogue, Trash}), Read(Site("danmaku"), {Added, Native, Shown})},
            {Mutation(<<"native", "delete">>, {Shown}, {Site("danmaku")})},
            {{DanmakuEditor}, {AddDanmakuForm}, {NativeRulePanel}})

(* users-page.tsx and profile-page.tsx *)
UserEditor ==
  Component({Read(Site("user"), {Accounts})},
            {Mutation(<<"user", "save">>, {Accounts}, {Site("users")})}, {})
UsersPage ==
  Component({Read(Site("users"), {Accounts, Access})},
            {Mutation(<<"user", op>>, {Access}, {Site("users")}) : op \in {"status", "remove"}},
            {{UserEditor}})
ProfileEditor == Component({}, {Mutation(<<"profile", "save">>, {Accounts}, {Site("profile")})}, {})
ProfilePage   == Component({Read(Site("profile"), {Accounts})}, {}, {{ProfileEditor}})

(* session.tsx, around every page *)
AuthBoundary == Component({Read(Site("session"), {Accounts})}, {}, {})

-----------------------------------------------------------------------------
(* What is on screen together: a frame, one tab, and what the tab has open. *)
ViewsOf(frame, tabs) ==
  UNION {{{AuthBoundary, tab} \cup frame \cup above : above \in {{}} \cup tab.opens} : tab \in tabs}

Views ==
  (UNION {ViewsOf({CatalogContent(s)}, {CatalogPoolPanel(s), CatalogKeywordPanel(s)}) : s \in CatalogSources})
    \cup ViewsOf({AnimekoPage}, {AnimekoPoolPanel, AnimekoKeywordPanel})
    \cup ViewsOf({DandanplayPage}, {DandanplayPoolPanel, DandanplayKeywordPanel})
    \cup ViewsOf({IqiyiPage}, {IqiyiPoolPanel, IqiyiKeywordPanel})
    \cup ViewsOf({BilibiliPage}, {BilibiliPoolPanel, BilibiliKeywordPanel})
    \cup ViewsOf({}, {ExternalPage}) \cup ViewsOf({ExternalPage}, {ExternalKeywordPanel})
    \cup ViewsOf({}, {VideosPage, DanmakuPage, UsersPage, ProfilePage})

ReadsOn(view) == UNION {c.reads : c \in view}
CallsOn(view) == UNION {c.calls : c \in view}

-----------------------------------------------------------------------------
(* The console as tables of operations and entries of the cache. *)

AllReads == UNION {ReadsOn(v) : v \in Views}
AllCalls == UNION {CallsOn(v) : v \in Views}

\* <<operation, key>> for the calls and the reads of which Linked holds.
Pairs(Linked(_, _)) ==
  {<<x[1].op, x[2].key>> : x \in {x \in AllCalls \X AllReads : Linked(x[1], x[2])}}

Prefix(key) == <<key[1], key[2]>>

Ops     == {k.op : k \in AllCalls}
Queries == {r.key : r \in AllReads}

Affects     == Pairs(LAMBDA call, read : call.changes \cap read.shows # {})
Invalidates == Pairs(LAMBDA call, read : Prefix(read.key) \in call.invalidate)
Always      == Pairs(LAMBDA call, read : Prefix(read.key) \in call.always)

\* A screen offers the operation and shows the entry.
Together == UNION {{<<k.op, r.key>> : k \in CallsOn(v), r \in ReadsOn(v)} : v \in Views}

(* What the console does not invalidate, though it shows what was changed. *)
Quiet         == {"bilibili", "iqiyi"}   \* sources whose pages leave the views of videos alone
VideoChoices  == {Site("pool-creation-video-options")}
                   \cup {<<s, "binding-video-options">> : s \in Sources}
PoolCalls     == {"bind", "block", "sync", "add keyword", "remove keyword"}
VideoCalls    == {<<"video", op>> : op \in {"create", "rename", "status"}}
NativeWrites  == {<<"native", op>> : op \in {"edit", "edit and leave", "delete"}}
AccountViews  == {Site(name) : name \in {"users", "user", "profile", "session"}}

Gaps ==
  ((Quiet \X PoolCalls) \cup {<<"external", "bind">>}) \X {Site("video-heatmap")}
    \cup (Quiet \X {"sync"}) \X {Site("videos")}
    \cup (CatalogSources \X {"sync"}) \X {Site("catalog-pool-options")}
    \cup (VideoCalls \cup {<<"native", "add">>}) \X VideoChoices
    \cup {<<"video", "create">>, <<"video", "status">>} \X {Site("danmaku-vids")}
    \cup {<<"video", "status">>} \X {Site("video-heatmap")}
    \cup NativeWrites \X VideoViews
    \cup (NativeWrites \ {<<"native", "edit">>}) \X {Site("danmaku-detail")}
    \cup {<<<<s, "create">>, Danmaku(s)>> : s \in Providers}
    \cup {<<"user", "save">>} \X (AccountViews \ {Site("users")})
    \cup {<<"profile", "save">>} \X (AccountViews \ {Site("profile")})

\* The list is complete.
Covered == Affects \subseteq Invalidates \cup Always \cup Gaps

\* What an operation is to an entry.
Role(o, q) ==
  [affects |-> <<o, q>> \in Affects, offered |-> <<o, q>> \in Together,
   always |-> <<o, q>> \in Always, invalidates |-> <<o, q>> \in Invalidates, gap |-> <<o, q>> \in Gaps]
=============================================================================
