-------------------------------- MODULE Console --------------------------------
(***************************************************************************)
(* The parts of the administration console side by side: a behaviour is    *)
(* about an entry of the query cache, a form, a list or a creation.  They  *)
(* share no state: what passes between them, a call and what it            *)
(* invalidates, is in each of them.                                        *)
(***************************************************************************)
EXTENDS QueryCache, PoolCreation

CONSTANTS MaxOpenings, MaxVersion, Values, MaxPages

ASSUME ConsoleBounds == {MaxOpenings, MaxVersion, MaxPages} \subseteq Nat \ {0}

VARIABLES
  part,                                                         \* what it is about
  form, shown, opening, text, call, stored, row, detail, own,   \* ConsoleForms
  list, asked, due, rows, fetch, offer                          \* ConsoleLists

formVars == <<form, shown, opening, text, call, stored, row, detail, own>>
listVars == <<list, asked, due, rows, fetch, offer>>

Form == INSTANCE ConsoleForms
List == INSTANCE ConsoleLists

\* A part that the behaviour is not about; a creation is not begun then.
NoCache == /\ role = 0 /\ watching = FALSE /\ entry = 0 /\ flight = 0 /\ client = 0
           /\ server = 0 /\ answer = 0 /\ overtaken = 0 /\ late = 0
NoForm  == /\ form = 0 /\ shown = 0 /\ opening = 0 /\ text = 0 /\ call = 0
           /\ stored = 0 /\ row = 0 /\ detail = 0 /\ own = 0
NoList  == list = 0 /\ asked = 0 /\ due = 0 /\ rows = 0 /\ fetch = 0 /\ offer = 0

ConsoleInit ==
  \/ part = "cache" /\ Init /\ NoForm /\ NoList /\ CreationInit
  \/ part = "form" /\ Form!Init /\ NoCache /\ NoList /\ CreationInit
  \/ part = "list" /\ List!Init /\ NoCache /\ NoForm /\ CreationInit
  \/ part = "creation" /\ CreationInit /\ NoCache /\ NoForm /\ NoList

ConsoleNext ==
  /\ UNCHANGED part
  /\ \/ part = "cache" /\ Next /\ UNCHANGED <<formVars, listVars, creationVars>>
     \/ part = "form" /\ Form!Next /\ UNCHANGED <<vars, listVars, creationVars>>
     \/ part = "list" /\ List!Next /\ UNCHANGED <<vars, formVars, creationVars>>
     \/ part = "creation" /\ CreationNext /\ UNCHANGED <<vars, formVars, listVars>>

ConsoleSpec == ConsoleInit /\ [][ConsoleNext]_<<part, vars, formVars, listVars, creationVars>>

-----------------------------------------------------------------------------
(* The properties of the parts; those of QueryCache and PoolCreation are their own. *)

\* The rows of a list are those of the search, filter, page and subject on screen.
RowsAreAskedFor == part = "list" => List!RowsAreAskedFor

\* A page was offered for the search, filter and subject on screen.
PageIsOffered == part = "list" => List!PageIsOffered

\* An answer closes and clears only the form it answers.
AnswerEndsOwn == [][part = "form" => Form!AnswerStep]_<<part, formVars>>

\* A form submits only what was begun for its subject.
SubmitsOwn == [][part = "form" => Form!OwnStep]_<<part, formVars>>

\* A form does not undo its own last save.
SavesOnOwn == [][part = "form" => Form!BaseStep]_<<part, formVars>>
=============================================================================
