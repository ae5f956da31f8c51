----------------------------- MODULE ConsoleForms ------------------------------
(***************************************************************************)
(* One form of the administration console, from opening to the answer of   *)
(* what was submitted.  The console has some thirty of them, written alike *)
(* but not quite: they differ in whether the dialog can be closed while    *)
(* the call is pending, whether the inputs are disabled meanwhile, where   *)
(* the text comes from when the dialog opens and what a success does.  One *)
(* record per form says what its component does, the rest is the same.     *)
(*                                                                         *)
(* The text of a form is abstracted to the opening it was begun in and,    *)
(* when it edits something stored, the version it was filled from.         *)
(***************************************************************************)
EXTENDS Naturals

CONSTANTS
  MaxOpenings,   \* bound on the openings of the dialog
  MaxVersion     \* bound on the versions of what is edited

-----------------------------------------------------------------------------
(* What a form's component says. *)

\* A dialog that keeps its text and can be closed at any time.
Dialog ==
  [dialog   |-> TRUE,     \* else the form is always on screen
   subjects |-> {1, 2},   \* one component opened for one row or another
   start    |-> "kept",   \* what the text is when the dialog opens
   lock     |-> FALSE,    \* it cannot be closed while a call is pending
   fixed    |-> FALSE,    \* its inputs are disabled while a call is pending
   closes   |-> TRUE,     \* a success closes it
   clears   |-> FALSE,    \* a success clears the text
   empties  |-> FALSE,    \* dismissing it clears the text, its button does not
   unmounts |-> FALSE,    \* closing it unmounts the form, and its callbacks with it
   tells    |-> {},       \* the views of the edited thing a success refetches
   allows   |-> {}]       \* what it does not guard against

Page == [Dialog EXCEPT !.dialog = FALSE, !.subjects = {1}, !.closes = FALSE, !.clears = TRUE]

Mut_PoolForm == [Dialog EXCEPT !.subjects = {1}, !.clears = TRUE, !.allows = {"carried"}]

(* Creating a pool: the dialog stays while the call is pending. *)
PoolForm ==
  [Dialog EXCEPT !.subjects = {1}, !.lock = TRUE, !.clears = TRUE, !.allows = {"carried"}]

CatalogPoolForm    == [PoolForm EXCEPT !.fixed = TRUE]
AnimekoPoolForm    == [PoolForm EXCEPT !.fixed = TRUE]
DandanplayPoolForm == [PoolForm EXCEPT !.fixed = TRUE]
IqiyiPoolForm      == [PoolForm EXCEPT !.allows = @ \cup {"typed meanwhile"}]
BilibiliPoolForm   == [PoolForm EXCEPT !.allows = @ \cup {"typed meanwhile"}]

\* Also the reimport of a pool; name, format and file stay enabled.
ImportForm ==
  [PoolForm EXCEPT !.subjects = {1, 2}, !.start = "blank", !.allows = {"typed meanwhile"}]

(* Binding a pool to a video: one dialog for all rows of the list. *)
BindingForm == [Dialog EXCEPT !.allows = {"carried", "late answer"}]

CatalogBindingForm    == BindingForm
AnimekoBindingForm    == BindingForm
DandanplayBindingForm == BindingForm
IqiyiBindingForm      == BindingForm
ExternalBindingForm   == BindingForm

Mut_BilibiliBindingForm == [BindingForm EXCEPT !.allows = {"late answer"}]

BilibiliBindingForm   == [BindingForm EXCEPT !.start = "blank", !.allows = {"late answer"}]

(* Keywords. *)
KeywordForm == [Page EXCEPT !.allows = {"typed meanwhile"}]

CatalogKeywordForm    == KeywordForm
AnimekoKeywordForm    == KeywordForm
DandanplayKeywordForm == KeywordForm
IqiyiKeywordForm      == KeywordForm
BilibiliKeywordForm   == KeywordForm
ExternalKeywordForm   == KeywordForm

(* Videos. *)
NewVideoForm ==
  [Dialog EXCEPT !.subjects = {1}, !.clears = TRUE,
                 !.allows = {"carried", "late answer", "typed meanwhile"}]

Mut_VideoNameForm == [Dialog EXCEPT !.start = "detail", !.closes = FALSE, !.tells = {"row"}]

VideoNameForm == [Dialog EXCEPT !.start = "detail", !.closes = FALSE, !.tells = {"row", "detail"}]
VideoBindingForm ==
  [Dialog EXCEPT !.closes = FALSE, !.clears = TRUE, !.allows = {"carried", "typed meanwhile"}]

(* Native danmaku. *)
AddDanmakuForm ==
  [Dialog EXCEPT !.start = "blank", !.closes = FALSE, !.clears = TRUE, !.unmounts = TRUE,
                 !.allows = {"typed meanwhile"}]
NewDanmakuForm == [AddDanmakuForm EXCEPT !.closes = TRUE]
DanmakuEditor ==
  [Dialog EXCEPT !.start = "detail", !.tells = {"row", "detail"}, !.allows = {"late answer"}]
NativeRuleForm == [Page EXCEPT !.fixed = TRUE]

(* Accounts: each row of the list has an editor of its own. *)
Editor     == [Dialog EXCEPT !.subjects = {1}, !.tells = {"row"}, !.allows = {"late answer"}]
UserEditor == [Editor EXCEPT !.start = "detail or row", !.allows = @ \cup {"stale base"}]
NewUser    == [Editor EXCEPT !.start = "blank", !.tells = {}]
ProfileEditor  == [Editor EXCEPT !.start = "row"]
PasswordEditor == [Editor EXCEPT !.empties = TRUE, !.tells = {}, !.allows = @ \cup {"carried"}]

Forms ==
  {CatalogPoolForm, AnimekoPoolForm, DandanplayPoolForm, IqiyiPoolForm, BilibiliPoolForm, ImportForm,
   CatalogBindingForm, AnimekoBindingForm, DandanplayBindingForm, IqiyiBindingForm, ExternalBindingForm,
   BilibiliBindingForm,
   CatalogKeywordForm, AnimekoKeywordForm, DandanplayKeywordForm, IqiyiKeywordForm, BilibiliKeywordForm,
   ExternalKeywordForm,
   NewVideoForm, VideoNameForm, VideoBindingForm, AddDanmakuForm, NewDanmakuForm, DanmakuEditor, NativeRuleForm,
   UserEditor, NewUser, ProfileEditor, PasswordEditor}

-----------------------------------------------------------------------------
VARIABLES
  form,     \* the form this is about
  shown,    \* the subject on screen, 0 while the dialog is closed
  opening,  \* the number of openings so far
  text,     \* what is in the inputs
  call,     \* the call that is pending
  stored,   \* the version of each subject on the server
  row,      \* the version the list shows
  detail,   \* the version the detail query has, 0 without data
  own       \* the last version saved from here and answered while its dialog was open

vars == <<form, shown, opening, text, call, stored, row, detail, own>>

Subjects == {1, 2}
Versions == 0..MaxVersion
Blank    == [from |-> 0, base |-> 0]
NoCall   == [state |-> "none", opening |-> 0, subject |-> 0, version |-> 0, typed |-> FALSE]
Pending  == call # NoCall
Edits    == form.start \in {"row", "detail", "detail or row"}

TypeOK ==
  /\ form \in Forms
  /\ shown \in {0} \cup form.subjects
  /\ opening \in 0..MaxOpenings
  /\ text \in [from : 0..MaxOpenings, base : Versions]
  /\ call \in [state : {"none", "sent", "applied"}, opening : 0..MaxOpenings,
               subject : {0} \cup Subjects, version : Versions, typed : BOOLEAN]
  /\ {stored, row, detail, own} \subseteq [Subjects -> Versions]

Init ==
  /\ form \in Forms
  /\ shown = IF form.dialog THEN 0 ELSE 1
  /\ opening = IF form.dialog THEN 0 ELSE 1
  /\ text = Blank
  /\ call = NoCall
  /\ stored = [s \in Subjects |-> 1]
  /\ row = [s \in Subjects |-> 1]
  /\ detail = [s \in Subjects |-> 0]
  /\ own = [s \in Subjects |-> 0]

\* The version a form is filled from, given what the list and the detail query have.
Source(r, d) == IF form.start = "row" \/ (form.start = "detail or row" /\ d = 0) THEN r ELSE d
Filled(o, r, d) == IF Source(r, d) = 0 THEN Blank ELSE [from |-> o, base |-> Source(r, d)]

Open(s) ==
  /\ form.dialog /\ shown = 0 /\ opening < MaxOpenings
  /\ s \in form.subjects
  /\ shown' = s
  /\ opening' = opening + 1
  /\ text' = IF Edits THEN Filled(opening + 1, row[s], detail[s])
             ELSE IF form.start = "blank" THEN Blank ELSE text
  /\ UNCHANGED <<form, call, stored, row, detail, own>>

\* By its button, the cross, the key or a click beside it.
Close ==
  /\ form.dialog /\ shown # 0
  /\ form.lock => ~Pending
  /\ shown' = 0
  /\ text' \in {t \in {text, Blank} : t = text \/ form.empties \/ form.unmounts}
  /\ call' = IF form.unmounts THEN NoCall ELSE call
  /\ form.unmounts => text' = Blank
  /\ UNCHANGED <<form, opening, stored, row, detail, own>>

\* Inputs that wait for the detail query are not there before.
HasInputs == shown # 0 /\ (form.start \in {"detail", "detail or row"} => detail[shown] # 0)

Type ==
  /\ HasInputs
  /\ form.fixed => ~Pending
  /\ text' = IF text = Blank THEN [text EXCEPT !.from = opening] ELSE text
  /\ call' = IF Pending THEN [call EXCEPT !.typed = TRUE] ELSE call
  /\ UNCHANGED <<form, shown, opening, stored, row, detail, own>>

\* The button is disabled while a call is pending, and inputs are required.  It waits for
\* the detail query, but for the button of UserEditor.
Submit ==
  /\ shown # 0 /\ ~Pending /\ text # Blank
  /\ form.start = "detail" => HasInputs
  /\ call' = [NoCall EXCEPT !.state = "sent", !.opening = opening, !.subject = shown]
  /\ UNCHANGED <<form, shown, opening, text, stored, row, detail, own>>

\* The server does it.
Apply ==
  /\ call.state = "sent"
  /\ LET s == call.subject
         v == stored[s] + 1
     IN IF Edits
        THEN /\ v \in Versions
             /\ stored' = [stored EXCEPT ![s] = v]
             /\ call' = [call EXCEPT !.state = "applied", !.version = v]
        ELSE /\ call' = [call EXCEPT !.state = "applied"]
             /\ UNCHANGED stored
  /\ UNCHANGED <<form, shown, opening, text, row, detail, own>>

\* It refuses, or the connection is lost before or after it did.
Fail ==
  /\ Pending
  /\ call' = NoCall
  /\ UNCHANGED <<form, shown, opening, text, stored, row, detail, own>>

\* The list is fetched again, at any time; a form filled from the row is filled anew
\* when the row has changed.
RowArrives(s) ==
  /\ row[s] # stored[s]
  /\ row' = [row EXCEPT ![s] = stored[s]]
  /\ text' = IF shown = s /\ form.start \in {"row", "detail or row"}
             THEN Filled(opening, stored[s], detail[s]) ELSE text
  /\ UNCHANGED <<form, shown, opening, call, stored, detail, own>>

\* The detail is fetched while its dialog is open, if there is such a query.
DetailArrives ==
  /\ shown # 0 /\ form.start \in {"detail", "detail or row"}
  /\ detail[shown] # stored[shown]
  /\ detail' = [detail EXCEPT ![shown] = stored[shown]]
  /\ text' = Filled(opening, row[shown], stored[shown])
  /\ UNCHANGED <<form, shown, opening, call, stored, row, own>>

\* The views a success invalidates have been refetched, as far as they are on screen.
Told ==
  /\ "row" \in form.tells => row[call.subject] >= call.version
  /\ "detail" \in form.tells /\ shown = call.subject => detail[shown] >= call.version

\* onSuccess of the submit, after that of the hook.
Done ==
  /\ call.state = "applied" /\ Told
  /\ shown' = IF form.closes THEN 0 ELSE shown
  /\ text' = IF form.clears THEN Blank ELSE text
  /\ own' = IF shown # 0 /\ opening = call.opening
            THEN [own EXCEPT ![shown] = call.version] ELSE own
  /\ call' = NoCall
  /\ UNCHANGED <<form, opening, stored, row, detail>>

Next ==
  \/ \E s \in Subjects : Open(s) \/ RowArrives(s)
  \/ Close \/ Type \/ Submit \/ Apply \/ Fail \/ DetailArrives \/ Done

Spec == Init /\ [][Next]_vars

-----------------------------------------------------------------------------
(* Properties; a form is held to each but for what "allows" says of it. *)

\* An answer closes only the dialog it was submitted from, in that opening, and clears
\* only what was submitted.
AnswerStep ==
  Done =>
    /\ shown # 0 /\ shown' = 0 => call.opening = opening \/ "late answer" \in form.allows
    /\ text # Blank /\ text' = Blank => ~call.typed \/ "typed meanwhile" \in form.allows

AnswerEndsOwn == [][AnswerStep]_vars

\* What is submitted was begun in this opening of the dialog, so for the subject it is
\* submitted for.
OwnStep == Submit => text.from = opening \/ "carried" \in form.allows

SubmitsOwn == [][OwnStep]_vars

\* A form that edits is filled with at least what was last saved through it: saving one
\* field does not undo what another save of the same form did before.
BaseStep == Submit /\ Edits => text.base >= own[shown] \/ "stale base" \in form.allows

SavesOnOwn == [][BaseStep]_vars
=============================================================================
