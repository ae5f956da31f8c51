----------------------------- MODULE NativeDanmaku -----------------------------
(***************************************************************************)
(* The danmaku users send: Insert, Edit and Delete of internal/store/      *)
(* postgres.go, the rules for submissions of native_rules.go and the video *)
(* rows of video.go they depend on.                                        *)
(*                                                                         *)
(* A submission is one PostgreSQL transaction that takes three locks in    *)
(* turn: the rule lock (shared; a rule change takes it exclusively), the   *)
(* lock of its (address, video, text), and the row of its video.  Edit and *)
(* Delete take none.  A transaction's effects appear with its commit, and  *)
(* what it holds is free then; a scan of history and the commit that ends  *)
(* it are one step, because a writer that meets a scanned row waits for    *)
(* the commit and a reader still sees the old version.                     *)
(***************************************************************************)
EXTENDS Integers, FiniteSets

CONSTANTS
    Senders,      \* calls of Insert; a danmaku is named by the call that stored it
    RuleCalls,    \* calls of CreateNativeRule and DeleteNativeRule
    Edits,        \* calls of Edit and Delete
    Posts,        \* what may be sent: records with vid, ip, text and author
    Covers,       \* <<rule, address or text>>: the prefix contains, the text has the word
    AuthorRules,  \* authors that have a rule
    RuleTables,   \* the rules an earlier run of the server may have left
    Replacement,  \* what the rule of an author replaces it by
    Window,       \* duplicateDanmakuWindow, in seconds
    MaxClock      \* bound on the clock

Videos == {p.vid : p \in Posts}
Texts == {p.text : p \in Posts}
Authors == {p.author : p \in Posts} \cup {Replacement[a] : a \in AuthorRules}
Rules == {c[1] : c \in Covers} \cup AuthorRules
Times == 0 .. MaxClock

\* normalizeNativeRule refuses a replacement that is the author itself; it may be an
\* author with a rule of its own.
ASSUME NativeAssumption ==
    /\ Window \in Nat
    /\ MaxClock \in Nat
    /\ RuleTables \subseteq SUBSET Rules
    /\ Replacement \in [AuthorRules -> Authors]
    /\ \A a \in AuthorRules : Replacement[a] # a
    /\ Senders \cap RuleCalls = {}

NoRow == [stored |-> FALSE]
StoredRows == [stored : {TRUE}, text : Texts, author : Authors, deleted : BOOLEAN, time : Times]
Rows == {NoRow} \cup StoredRows

VARIABLES
    clock,
    rules,      \* NativeDanmakuRule
    scanned,    \* author rules whose creation replaced the history
    video,      \* Video.IsDelete of each video, or "absent"
    row,        \* Danmaku: what each submission stored
    cached,     \* what readers are answered from the caches: "current",
                \* "outdated", or "missed" when nobody will say so
    pc,         \* where each submission is
    post,       \* what it sends
    now,        \* the time it read first
    seen,       \* the rules it read
    ruleLock,   \* holders of the rule lock: submissions, or one rule change
    postLock,   \* submissions that hold the lock of their (address, video, text)
    videoLock,  \* submissions that hold the row of their video
    rulePc,     \* where each rule change is
    change,     \* what it does: [rule, op]
    editPc,     \* where each edit is
    edit,       \* what it has read: [id, row]
    touched,    \* history: danmaku an Edit has written
    rewritten   \* history: danmaku a rule gave an author that was scanned for before

tables == <<rules, scanned, video, row, rewritten>>
sendVars == <<pc, post, now, seen, postLock, videoLock>>
ruleVars == <<rulePc, change>>
editVars == <<editPc, edit, touched>>
vars == <<clock, tables, cached, sendVars, ruleLock, ruleVars, editVars>>

Ops == {"create", "scan", "delete"}
NoPost == [none |-> TRUE]

TypeOK ==
    /\ clock \in Times
    /\ rules \subseteq Rules
    /\ scanned \subseteq rules \cap AuthorRules
    /\ video \in [Videos -> {"absent", "live", "deleted"}]
    /\ row \in [Senders -> Rows]
    /\ cached \in {"current", "outdated", "missed"}
    /\ pc \in [Senders -> {"idle", "rules", "lock", "video", "check", "insert", "invalidate", "done"}]
    /\ post \in [Senders -> Posts \cup {NoPost}]
    /\ now \in [Senders -> Times]
    /\ seen \in [Senders -> SUBSET Rules]
    /\ ruleLock \in (SUBSET Senders) \cup {{w} : w \in RuleCalls}
    /\ postLock \subseteq Senders
    /\ videoLock \subseteq Senders
    /\ rulePc \in [RuleCalls -> {"idle", "lock", "write", "invalidate", "done"}]
    /\ change \in [RuleCalls -> [rule : Rules, op : Ops] \cup {NoPost}]
    /\ editPc \in [Edits -> {"idle", "update", "invalidate", "done"}]
    /\ edit \in [Edits -> [id : Senders, row : Rows] \cup {NoPost}]
    /\ touched \subseteq Senders
    /\ rewritten \subseteq Senders

Init ==
    /\ clock = 0
    /\ rules \in RuleTables
    /\ scanned = {}
    /\ video = [v \in Videos |-> "absent"]
    /\ row = [s \in Senders |-> NoRow]
    /\ cached = "current"
    /\ pc = [s \in Senders |-> "idle"]
    /\ post = [s \in Senders |-> NoPost]
    /\ now = [s \in Senders |-> 0]
    /\ seen = [s \in Senders |-> {}]
    /\ ruleLock = {}
    /\ postLock = {}
    /\ videoLock = {}
    /\ rulePc = [w \in RuleCalls |-> "idle"]
    /\ change = [w \in RuleCalls |-> NoPost]
    /\ editPc = [e \in Edits |-> "idle"]
    /\ edit = [e \in Edits |-> NoPost]
    /\ touched = {}
    /\ rewritten = {}

--------------------------------------------------------------------------------
(* applyNativeRules *)

Denied(p, R) == \E r \in R : <<r, p.ip>> \in Covers
Hidden(p, R) == \E r \in R : <<r, p.text>> \in Covers
Renamed(p, R) == IF p.author \in R \cap AuthorRules THEN Replacement[p.author] ELSE p.author

--------------------------------------------------------------------------------
(* Insert *)

SameKey(p, q) == p.vid = q.vid /\ p.ip = q.ip /\ p.text = q.text

Go(s, l) == pc' = [pc EXCEPT ![s] = l]

\* What readers are answered has changed.
Outdate(changed) == cached' = IF changed THEN "outdated" ELSE cached

\* invalidateDanmakuCache ignores the error of its INCRs; a process that ends before
\* them leaves the same behind.
Announce ==
    \/ cached' = "current"
    \/ cached' = IF cached = "current" THEN "current" ELSE "missed"

\* The end of s's transaction gives its locks back.
Release(s) ==
    /\ ruleLock' = ruleLock \ {s}
    /\ postLock' = postLock \ {s}
    /\ videoLock' = videoLock \ {s}

\* time.Now, ahead of every lock.
Send(s) ==
    /\ pc[s] = "idle"
    /\ \E p \in Posts : post' = [post EXCEPT ![s] = p]
    /\ now' = [now EXCEPT ![s] = clock]
    /\ Go(s, "rules")
    /\ UNCHANGED <<clock, tables, cached, seen, ruleLock, postLock, videoLock, ruleVars, editVars>>

Mut_RulesUnlocked(s) ==
    /\ pc[s] = "rules"
    /\ seen' = [seen EXCEPT ![s] = rules]
    /\ Go(s, IF Denied(post[s], rules) THEN "done" ELSE "lock")
    /\ UNCHANGED <<clock, tables, cached, post, now, ruleLock, postLock, videoLock, ruleVars, editVars>>

Mut_KeepLockWhenDenied(s) ==
    /\ pc[s] = "rules"
    /\ ruleLock \cap RuleCalls = {}
    /\ seen' = [seen EXCEPT ![s] = rules]
    /\ ruleLock' = ruleLock \cup {s}
    /\ Go(s, IF Denied(post[s], rules) THEN "done" ELSE "lock")
    /\ UNCHANGED <<clock, tables, cached, post, now, postLock, videoLock, ruleVars, editVars>>

\* submissionRules waits for a rule change; a denied submission rolls back.
ReadRules(s) ==
    /\ pc[s] = "rules"
    /\ ruleLock \cap RuleCalls = {}
    /\ seen' = [seen EXCEPT ![s] = rules]
    /\ IF Denied(post[s], rules)
       THEN Go(s, "done") /\ UNCHANGED ruleLock
       ELSE Go(s, "lock") /\ ruleLock' = ruleLock \cup {s}
    /\ UNCHANGED <<clock, tables, cached, post, now, postLock, videoLock, ruleVars, editVars>>

\* pg_advisory_xact_lock of duplicateDanmakuAdvisoryKey.
LockPost(s) ==
    /\ pc[s] = "lock"
    /\ \A t \in postLock : ~ SameKey(post[s], post[t])
    /\ postLock' = postLock \cup {s}
    /\ Go(s, "video")
    /\ UNCHANGED <<clock, tables, cached, post, now, seen, ruleLock, videoLock, ruleVars, editVars>>

Free(v) == \A t \in videoLock : post[t].vid # v

\* findOrInsertVideo: waits for whoever inserts or holds the row, then holds it.
Mut_FindWithoutHold(s) ==
    /\ pc[s] = "video"
    /\ Free(post[s].vid)
    /\ IF video[post[s].vid] = "deleted"
       THEN Go(s, "done") /\ Release(s)
       ELSE Go(s, "check") /\ UNCHANGED <<ruleLock, postLock, videoLock>>
    /\ UNCHANGED <<clock, tables, cached, post, now, seen, ruleVars, editVars>>

FindVideo(s) ==
    /\ pc[s] = "video"
    /\ Free(post[s].vid)
    /\ IF video[post[s].vid] = "deleted"
       THEN Go(s, "done") /\ Release(s)
       ELSE /\ Go(s, "check")
            /\ videoLock' = videoLock \cup {s}
            /\ UNCHANGED <<ruleLock, postLock>>
    /\ UNCHANGED <<clock, tables, cached, post, now, seen, ruleVars, editVars>>

\* duplicateDanmakuQuery: deleted danmaku count, an edited text counts as it is.
Mut_DuplicateOfVisible(s) ==
    \E t \in Senders :
        /\ row[t].stored
        /\ ~ row[t].deleted
        /\ post[t].vid = post[s].vid
        /\ post[t].ip = post[s].ip
        /\ row[t].text = post[s].text
        /\ row[t].time >= now[s] - Window

Duplicate(s) ==
    \E t \in Senders :
        /\ row[t].stored
        /\ post[t].vid = post[s].vid
        /\ post[t].ip = post[s].ip
        /\ row[t].text = post[s].text
        /\ row[t].time >= now[s] - Window

\* A duplicate commits nothing, for its video is there.
CheckDuplicate(s) ==
    /\ pc[s] = "check"
    /\ IF Duplicate(s)
       THEN Go(s, "done") /\ Release(s)
       ELSE Go(s, "insert") /\ UNCHANGED <<ruleLock, postLock, videoLock>>
    /\ UNCHANGED <<clock, tables, cached, post, now, seen, ruleVars, editVars>>

\* The INSERT and the commit, which may also create the video.
Store(s) ==
    /\ pc[s] = "insert"
    /\ row' = [row EXCEPT ![s] =
                 [stored |-> TRUE, text |-> post[s].text, author |-> Renamed(post[s], seen[s]),
                  deleted |-> Hidden(post[s], seen[s]), time |-> now[s]]]
    /\ video' = [video EXCEPT ![post[s].vid] = IF @ = "absent" THEN "live" ELSE @]
    /\ rewritten' = IF row'[s].author # post[s].author /\ row'[s].author \in scanned
                    THEN rewritten \cup {s} ELSE rewritten
    /\ Outdate(~ row'[s].deleted)
    /\ Release(s)
    /\ Go(s, "invalidate")
    /\ UNCHANGED <<clock, rules, scanned, post, now, seen, ruleVars, editVars>>

InvalidateSent(s) ==
    /\ pc[s] = "invalidate"
    /\ Announce
    /\ Go(s, "done")
    /\ UNCHANGED <<clock, tables, post, now, seen, ruleLock, postLock, videoLock, ruleVars, editVars>>

\* A cancelled context or a failed statement rolls back.
FailSend(s) ==
    /\ pc[s] \in {"rules", "lock", "video", "check", "insert"}
    /\ Release(s)
    /\ Go(s, "done")
    /\ UNCHANGED <<clock, tables, cached, post, now, seen, ruleVars, editVars>>

--------------------------------------------------------------------------------
(* CreateNativeRule and DeleteNativeRule *)

GoRule(w, l) == rulePc' = [rulePc EXCEPT ![w] = l]

CallRule(w) ==
    /\ rulePc[w] = "idle"
    /\ \E r \in Rules, op \in Ops :
         /\ op = "scan" => r \in AuthorRules
         /\ change' = [change EXCEPT ![w] = [rule |-> r, op |-> op]]
    /\ GoRule(w, "lock")
    /\ UNCHANGED <<clock, tables, cached, sendVars, ruleLock, editVars>>

\* Exclusive: waits for every submission that has read the rules.
LockRules(w) ==
    /\ rulePc[w] = "lock"
    /\ ruleLock = {}
    /\ ruleLock' = {w}
    /\ GoRule(w, "write")
    /\ UNCHANGED <<clock, tables, cached, sendVars, change, editVars>>

\* A rule that exists is refused.
Refuse(w) ==
    /\ rulePc[w] = "write"
    /\ change[w].op # "delete"
    /\ change[w].rule \in rules
    /\ ruleLock' = {}
    /\ GoRule(w, "done")
    /\ UNCHANGED <<clock, tables, cached, sendVars, change, editVars>>

ByAuthor(a) == {s \in Senders : row[s].stored /\ row[s].author = a}

\* The scan replaces in deleted danmaku, too.
Mut_ScanVisible(w) ==
    LET r == change[w].rule
        found == {s \in ByAuthor(r) : ~ row[s].deleted}
    IN  /\ rulePc[w] = "write"
        /\ change[w].op # "delete"
        /\ r \notin rules
        /\ rules' = rules \cup {r}
        /\ IF change[w].op = "scan"
           THEN /\ scanned' = scanned \cup {r}
                /\ row' = [s \in Senders |-> IF s \in found
                             THEN [row[s] EXCEPT !.author = Replacement[r]] ELSE row[s]]
                /\ rewritten' = IF Replacement[r] \in scanned
                                THEN rewritten \cup found ELSE rewritten \ found
                /\ Outdate(\E s \in found : ~ row[s].deleted)
                /\ GoRule(w, "invalidate")
           ELSE GoRule(w, "done") /\ UNCHANGED <<scanned, row, rewritten, cached>>
        /\ ruleLock' = {}
        /\ UNCHANGED <<clock, video, sendVars, change, editVars>>

Create(w) ==
    LET r == change[w].rule
    IN  /\ rulePc[w] = "write"
        /\ change[w].op # "delete"
        /\ r \notin rules
        /\ rules' = rules \cup {r}
        /\ IF change[w].op = "scan"
           THEN /\ scanned' = scanned \cup {r}
                /\ row' = [s \in Senders |-> IF s \in ByAuthor(r)
                             THEN [row[s] EXCEPT !.author = Replacement[r]] ELSE row[s]]
                /\ rewritten' = IF Replacement[r] \in scanned
                                THEN rewritten \cup ByAuthor(r) ELSE rewritten \ ByAuthor(r)
                /\ Outdate(\E s \in ByAuthor(r) : ~ row[s].deleted)
                /\ GoRule(w, "invalidate")
           ELSE GoRule(w, "done") /\ UNCHANGED <<scanned, row, rewritten, cached>>
        /\ ruleLock' = {}
        /\ UNCHANGED <<clock, video, sendVars, change, editVars>>

Remove(w) ==
    /\ rulePc[w] = "write"
    /\ change[w].op = "delete"
    /\ rules' = rules \ {change[w].rule}
    /\ scanned' = scanned \ {change[w].rule}
    /\ ruleLock' = {}
    /\ GoRule(w, "done")
    /\ UNCHANGED <<clock, video, row, rewritten, cached, sendVars, change, editVars>>

InvalidateScanned(w) ==
    /\ rulePc[w] = "invalidate"
    /\ Announce
    /\ GoRule(w, "done")
    /\ UNCHANGED <<clock, tables, sendVars, ruleLock, change, editVars>>

FailRule(w) ==
    /\ rulePc[w] \in {"lock", "write"}
    /\ ruleLock' = ruleLock \ {w}
    /\ GoRule(w, "done")
    /\ UNCHANGED <<clock, tables, cached, sendVars, change, editVars>>

--------------------------------------------------------------------------------
(* Edit and Delete *)

GoEdit(e, l) == editPc' = [editPc EXCEPT ![e] = l]

\* Get: the whole danmaku is read, outside of any transaction.
Get(e) ==
    /\ editPc[e] = "idle"
    /\ \E s \in Senders :
         /\ row[s].stored
         /\ edit' = [edit EXCEPT ![e] = [id |-> s, row |-> row[s]]]
    /\ GoEdit(e, "update")
    /\ UNCHANGED <<clock, tables, cached, sendVars, ruleLock, ruleVars, touched>>

\* The UPDATE writes back what was read, with the text and the flag of the request.
Mut_UpdateAndFinish(e) ==
    LET s == edit[e].id
    IN  /\ editPc[e] = "update"
        /\ \E t \in Texts, d \in BOOLEAN :
             /\ row' = [row EXCEPT ![s] = [edit[e].row EXCEPT !.text = t, !.deleted = d]]
             /\ Outdate(row'[s] # row[s] /\ ~ (d /\ row[s].deleted))
        /\ touched' = touched \cup {s}
        /\ GoEdit(e, "done")
        /\ UNCHANGED <<clock, rules, scanned, video, rewritten, sendVars, ruleLock, ruleVars, edit>>

Update(e) ==
    LET s == edit[e].id
    IN  /\ editPc[e] = "update"
        /\ \E t \in Texts, d \in BOOLEAN :
             /\ row' = [row EXCEPT ![s] = [edit[e].row EXCEPT !.text = t, !.deleted = d]]
             /\ Outdate(row'[s] # row[s] /\ ~ (d /\ row[s].deleted))
        /\ touched' = touched \cup {s}
        /\ GoEdit(e, "invalidate")
        /\ UNCHANGED <<clock, rules, scanned, video, rewritten, sendVars, ruleLock, ruleVars, edit>>

\* Delete: one UPDATE.
Delete(e) ==
    /\ editPc[e] = "idle"
    /\ \E s \in Senders :
         /\ row[s].stored
         /\ row' = [row EXCEPT ![s].deleted = TRUE]
         /\ Outdate(~ row[s].deleted)
    /\ GoEdit(e, "invalidate")
    /\ UNCHANGED <<clock, rules, scanned, video, rewritten, sendVars, ruleLock, ruleVars, edit, touched>>

InvalidateEdited(e) ==
    /\ editPc[e] = "invalidate"
    /\ Announce
    /\ GoEdit(e, "done")
    /\ UNCHANGED <<clock, tables, sendVars, ruleLock, ruleVars, edit, touched>>

--------------------------------------------------------------------------------
(* The other writers of Video, and time *)

\* EnsureVideo and CreateVideo.
EnsureVideo(v) ==
    /\ video[v] = "absent"
    /\ Free(v)
    /\ video' = [video EXCEPT ![v] = "live"]
    /\ UNCHANGED <<clock, rules, scanned, row, rewritten, cached, sendVars, ruleLock, ruleVars, editVars>>

\* SetVideoDeleted shows or hides all danmaku of the video and invalidates nothing.
SetVideoDeleted(v) ==
    /\ video[v] # "absent"
    /\ Free(v)
    /\ video' = [video EXCEPT ![v] = IF @ = "live" THEN "deleted" ELSE "live"]
    /\ cached' = IF \E s \in Senders : row[s].stored /\ ~ row[s].deleted /\ post[s].vid = v
                 THEN "missed" ELSE cached
    /\ UNCHANGED <<clock, rules, scanned, row, rewritten, sendVars, ruleLock, ruleVars, editVars>>

Tick ==
    /\ clock < MaxClock
    /\ clock' = clock + 1
    /\ UNCHANGED <<tables, cached, sendVars, ruleLock, ruleVars, editVars>>

Next ==
    \/ \E s \in Senders :
         \/ Send(s) \/ ReadRules(s) \/ LockPost(s) \/ FindVideo(s)
         \/ CheckDuplicate(s) \/ Store(s) \/ InvalidateSent(s) \/ FailSend(s)
    \/ \E w \in RuleCalls :
         \/ CallRule(w) \/ LockRules(w) \/ Refuse(w) \/ Create(w) \/ Remove(w)
         \/ InvalidateScanned(w) \/ FailRule(w)
    \/ \E e \in Edits : Get(e) \/ Update(e) \/ Delete(e) \/ InvalidateEdited(e)
    \/ \E v \in Videos : EnsureVideo(v) \/ SetVideoDeleted(v)
    \/ Tick

Spec == Init /\ [][Next]_vars

--------------------------------------------------------------------------------
(* Properties *)

\* docs/compatibility.md, 2.1.5: of equal submissions within the window one is
\* stored, whatever the order in which they take their times and their locks.
OnePerWindow ==
    \A s, t \in Senders :
        /\ s # t
        /\ row[s].stored
        /\ row[t].stored
        /\ {s, t} \cap touched = {}
        /\ SameKey(post[s], post[t])
        => row[s].time > row[t].time + Window \/ row[t].time > row[s].time + Window

\* A danmaku is stored as the rules say that are in force when it is committed.
RulesInForce ==
    [][\A s \in Senders :
         (~ row[s].stored /\ row'[s].stored) =>
            /\ ~ Denied(post[s], rules)
            /\ row'[s].deleted = Hidden(post[s], rules)
            /\ row'[s].author = Renamed(post[s], rules)]_vars

\* findOrInsertVideo holds the row: nothing is added to a video that is deleted.
LiveVideosOnly ==
    [][\A s \in Senders :
         (~ row[s].stored /\ row'[s].stored) => video'[post[s].vid] = "live"]_vars

\* native_rules.go: "historical replacement cannot miss an in-flight old author".
\* Once an author has been scanned for, no danmaku carries it but those that another
\* rule, or a later scan, has given it since.
ScanIsComplete ==
    \A a \in scanned : ByAuthor(a) \subseteq touched \cup rewritten

\* The same for every danmaku, those an Edit has written included.
ScanReplaces == \A a \in scanned : ByAuthor(a) \subseteq rewritten

\* Every write that changes what readers are answered is followed by an invalidation
\* of its own: answers are out of date only while one is to come, or since one was
\* lost after the last such write, or the video was deleted or restored.
StaleIsPending ==
    cached = "outdated" =>
        \/ \E s \in Senders : pc[s] = "invalidate"
        \/ \E w \in RuleCalls : rulePc[w] = "invalidate"
        \/ \E e \in Edits : editPc[e] = "invalidate"

\* Calls in the middle of a transaction, and those of them that wait for a lock.
Sending == {s \in Senders : pc[s] \notin {"idle", "done"}}
Ruling == {w \in RuleCalls : rulePc[w] \notin {"idle", "done"}}
SendWaits(s) ==
    \/ pc[s] = "rules" /\ ruleLock \cap RuleCalls # {}
    \/ pc[s] = "lock" /\ \E t \in postLock : SameKey(post[s], post[t])
    \/ pc[s] = "video" /\ ~ Free(post[s].vid)
RuleWaits(w) == rulePc[w] = "lock" /\ ruleLock # {}

\* Three locks, taken one by one and given back on every way out: of the calls
\* that are under way some call does not wait, so that none waits for ever.
NobodyStuck ==
    Sending # {} \/ Ruling # {} =>
        (\E s \in Sending : ~ SendWaits(s)) \/ (\E w \in Ruling : ~ RuleWaits(w))

================================================================================
