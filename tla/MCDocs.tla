-------------------------------- MODULE MCDocs ------------------------------
(***************************************************************************)
(* The scripts that hold the documents against the code and the history:   *)
(* the citation gate and its repair, the release notes and their           *)
(* boundaries, and the links between releases. Each is started on its own  *)
(* and shares no state with the others: a behaviour is a run of one of     *)
(* them, `program`, and the variables of the rest stay as they are.        *)
(***************************************************************************)
EXTENDS ReleaseLinks, Citations, ReleaseNotes

VARIABLE program

(* Citations: one tracked file and the documents that cite it. *)
Cited(anchors, gloss) == [anchors |-> anchors, gloss |-> gloss]
At(n) == Cited(<< <<n, 0>> >>, "")

\* A file of five lines: the third restates what the fourth pins.
MCBaseFile == <<"a", "b", "note 1", "pin 1", "c">>
MCPinValue == [c \in {"pin 1", "pin 2"} |-> IF c = "pin 1" THEN "1" ELSE "2"]
MCNoteValue == [c \in {"note 1", "note 2"} |-> IF c = "note 1" THEN "1" ELSE "2"]

\* As it was, edited, with the pin raised with and without its note, cut, grown on both sides.
MCNowFiles ==
  { MCBaseFile, <<"a", "new", "note 1", "pin 1", "c">>, <<"a", "b", "note 2", "pin 2", "c">>,
    <<"a", "b", "note 1", "pin 2", "c">>, <<"b", "a2", "note 1", "pin 1", "c">>,
    <<"new", "a", "note 1", "pin 1", "b", "c">> }

\* Watched by a gloss of its own document.
Watch(v) == Cited(<< <<3, 4>> >>, v)
MCBaseDocs ==
  { <<At(1), At(2)>>,
    << Cited(<< <<1, 2>> >>, ""), Watch("1")>>, <<Cited(<< <<1, 0>>, <<5, 0>> >>, ""), At(2)>> }

Replaced(s, i, c) == [s EXCEPT ![i] = c]
MCNowDocs == [base \in MCBaseDocs |->
  {base} \cup {Replaced(base, 1, At(n)) : n \in {1, 2}} \cup {Replaced(base, 2, Watch("2"))}
  \cup {Append(base, At(2)), <<base[2]>>}]

MCDeclarations ==
  { {}, {[doc |-> "d1", from |-> << <<1, 0>> >>, to |-> << <<2, 0>> >>, expect |-> "b"]} }
MCDocOrder == <<"d1", "d2">>

(* ReleaseNotes: the lines a changelog is made of. *)
Quote(lead) == [lead |-> lead, kind |-> "quote", width |-> 1]
Item(lead, width) == [lead |-> lead, kind |-> "item", width |-> width]
Row(marks, lead, body) == [marks |-> marks, lead |-> lead, body |-> body]
Prose == [kind |-> "text"]
Tick(w, i) == [kind |-> "fence", char |-> "backtick", width |-> w, info |-> i]
Tilde(w, i) == [kind |-> "fence", char |-> "tilde", width |-> w, info |-> i]
Heading(level, is, v) == [kind |-> "heading", level |-> level, text |-> [is |-> is, version |-> v]]
MCCategories == <<"Added", "Fixed">>
MCDocumentLines == {
  Row(<<>>, 0, [kind |-> "blank"]), Row(<<Quote(0)>>, 0, [kind |-> "blank"]),
  Row(<<>>, 0, Prose), Row(<<Item(0, 1)>>, 1, Prose), Row(<<Quote(0), Item(1, 1)>>, 3, Prose),
  Row(<<>>, 0, Tick(3, "blank")), Row(<<>>, 0, Tick(4, "blank")), Row(<<>>, 0, Tick(3, "tick")),
  Row(<<>>, 2, Tilde(3, "text")),
  Row(<<>>, 2, Tick(3, "blank")),
  Row(<<>>, 0, Tilde(3, "blank")),
  Row(<<Quote(0)>>, 1, Tick(3, "blank")), Row(<<Item(0, 1)>>, 1, Tick(3, "text")),
  Row(<<Quote(0), Item(1, 1)>>, 1, Tick(3, "blank")),
  Row(<<Item(0, 1), Quote(1)>>, 1, Tick(3, "blank")),
  Row(<<>>, 0, [kind |-> "rule"]),
  Row(<<>>, 0, Heading(2, "entry", 2)), Row(<<>>, 0, Heading(2, "entry", 1)),
  Row(<<>>, 2, Heading(2, "entry", 1)), Row(<<>>, 4, Heading(2, "entry", 1)),
  Row(<<Quote(0)>>, 1, Heading(2, "entry", 1)), Row(<<>>, 0, Heading(2, "bare", 1)),
  Row(<<>>, 0, Heading(2, "other", 0)), Row(<<>>, 0, Heading(3, "Added", 0)) }

(* ReleaseLinks: where the check may run. *)
Checkout(r, m, s) == [remotes |-> r, mainFetched |-> m, shallow |-> s]
MCCheckouts == {Checkout({"canonical", "fork"}, TRUE, FALSE),
                Checkout({"canonical"}, FALSE, FALSE),
                Checkout({"fork", "mirror"}, TRUE, FALSE), Checkout({"origin"}, TRUE, TRUE)}

-----------------------------------------------------------------------------
\* Documents that cite nothing.
OffCit ==
  /\ docs = [d \in Docs |-> <<>>] /\ baseDocs = docs
  /\ nowFile = "off" /\ declared = "off"
  /\ mode = "off" /\ phase = "off" /\ visited = "off" /\ misaimed = "off"
  /\ badGlosses = "off" /\ drifted = "off" /\ unmappable = "off" /\ fixable = "off"
  /\ withheld = "off" /\ unchecked = "off" /\ exit = "off" /\ runs = "off" /\ repaired = "off"

\* A changelog that has a finding, and is read no further.
OffNotes ==
  /\ chain = <<>> /\ fence = None /\ deepFence = None /\ coding = FALSE
  /\ blankBefore = FALSE /\ listBefore = FALSE /\ subject = None /\ entries = <<>>
  /\ categories = <<>> /\ dirty = TRUE /\ block = None /\ wanted = "off" /\ on = FALSE
  /\ cut = FALSE

\* A history of one commit and no tag, which stays.
OffLinks == LinksInit /\ Present = {}

Init ==
  \/ program = "citations" /\ CitInit /\ OffNotes /\ OffLinks
  \/ program = "notes" /\ NotesInit /\ OffCit /\ OffLinks
  \/ program = "links" /\ LinksInit /\ OffCit /\ OffNotes

Next ==
  \/ program = "citations" /\ CitNext /\ UNCHANGED <<program, noteVars, linkVars>>
  \/ program = "notes" /\ NotesNext /\ UNCHANGED <<program, CitVars, linkVars>>
  \/ program = "links" /\ LinksNext /\ UNCHANGED <<program, CitVars, noteVars>>

vars == <<program, CitVars, noteVars, linkVars>>

Spec == Init /\ [][Next]_vars
=============================================================================
