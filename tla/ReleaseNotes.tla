---------------------------- MODULE ReleaseNotes ----------------------------
(***************************************************************************)
(* CHANGELOG.md read by two programs: scripts/check-docs.py, which passes  *)
(* or fails the push, and scripts/changelog-section.awk, which cuts one    *)
(* release's published notes out of it.  Both keep the list items a line   *)
(* sits in and the fenced block that is open, in two implementations; only *)
(* the extractor's sees what is published.                                 *)
(*                                                                         *)
(* A line is what the grammar tells apart: container marks with the spaces *)
(* before each (in columns: tabs are expanded first), the spaces before    *)
(* the body, and the body.  One action reads one line in both programs;    *)
(* the document has any length.  A file with a finding is not published,   *)
(* so the first finding ends a behavior.                                   *)
(***************************************************************************)
EXTENDS Integers, Sequences, FiniteSets, SequencesExt, FiniteSetsExt

CONSTANTS
  Documents,     \* the lines a document is made of: [marks, lead, body]
  Wanted,        \* the versions the extractor may be asked for
  Categories     \* KAC_CATEGORIES, in order

\* A line: marks of a kind, each with its width, and a body; a heading has a level and a text.
Marks == Seq([kind : {"quote", "item"}, lead : Nat, width : Nat \ {0}])
IsLine(l) ==
  /\ l.marks \in Marks /\ l.lead \in Nat
  /\ l.body.kind = "heading" => l.body.level \in Nat /\ l.body.text.version \in Nat
ASSUME NotesAssumption == \A l \in Documents : IsLine(l)

VARIABLES
  chain, fence, deepFence,         \* the checker: containers, open fence, fence of the deep pass
  coding, blankBefore, listBefore, \* indented_code_mask: in a run, previous line blank, list context
  subject,                         \* what a setext underline here would underline
  entries, categories, dirty,      \* entries in order, categories of the last one, a finding
  block,                           \* the extractor: its open fence
  wanted, on, cut                  \* the version asked for, printing, has stopped

checkVars == <<chain, fence, deepFence, coding, blankBefore, listBefore, subject,
               entries, categories, dirty>>
noteVars == <<checkVars, block, wanted, on, cut>>

None == [kind |-> "none"]
AnyMin(a, b) == IF a < b THEN a ELSE b

----------------------------------------------------------------------------
(* One line, after its container marks.                                     *)

Indented(l) == IF l.marks = <<>> THEN l.lead ELSE l.marks[1].lead
Spaces(l, i) == IF i < Len(l.marks) THEN l.marks[i + 1].lead ELSE l.lead
BlankLine(l) == l.marks = <<>> /\ l.body.kind = "blank"

\* The walk over the marks: quote depth, content column in the innermost quote, the items met,
\* the spaces of the next gap that belong to the last mark.
NoMarks == [depth |-> 0, col |-> 0, items |-> <<>>, eaten |-> 0]
Walked(l, w, i) ==
  LET m == l.marks[i]
      gap == Spaces(l, i)
      pad == IF gap >= 5 \/ (i = Len(l.marks) /\ l.body.kind = "blank") THEN 1 ELSE gap
      col == w.col + (m.lead - w.eaten) + m.width + pad
  IN  IF m.kind = "quote"
      THEN [w EXCEPT !.depth = @ + 1, !.col = 0, !.eaten = AnyMin(1, gap)]
      ELSE [w EXCEPT !.col = col, !.items = Append(@, <<w.depth, col>>), !.eaten = pad]
\* After each of its marks.
Prefix(l) ==
  LET at_[i \in 0..Len(l.marks)] == IF i = 0 THEN NoMarks ELSE Walked(l, at_[i - 1], i)
  IN  at_
strip_containers(l) ==
  LET w == Prefix(l)[Len(l.marks)]
  IN  [depth |-> w.depth, col |-> w.col, items |-> w.items, lead |-> l.lead - w.eaten]

\* The line after exactly k quote marks, if it has them.
quote_rest(l, k) ==
  IF k > Len(l.marks) \/ \E i \in 1..k : l.marks[i].kind # "quote" THEN None
  ELSE [kind |-> "rest", indent |-> Spaces(l, k) - Prefix(l)[k].eaten,
        bare |-> k = Len(l.marks), blank |-> k = Len(l.marks) /\ l.body.kind = "blank"]

Reaches(l, item) ==
  LET rest == quote_rest(l, item[1]) IN rest # None /\ rest.indent >= item[2]
\* Trim the carried items to those this line still reaches, then add its own.
container_chains(items, l) ==
  IF BlankLine(l) THEN items
  ELSE LET keep == Max({k \in 0..Len(items) : \A i \in 1..k : Reaches(l, items[i])})
       IN  SubSeq(items, 1, keep) \o strip_containers(l).items
chain_column(items, depth) ==
  IF items # <<>> /\ Last(items)[1] = depth THEN Last(items)[2] ELSE 0

IsFence(l) == l.body.kind = "fence"
opens_fence(l) == IsFence(l) /\ ~(l.body.char = "backtick" /\ l.body.info = "tick")
\* Columns before the delimiter, counted from the content column of what contains the line.
OpenIndent(l, items) ==
  LET w == strip_containers(l)
  IN  IF w.items # <<>> THEN w.lead ELSE quote_rest(l, w.depth).indent - chain_column(items, w.depth)
Opened(l, items) ==
  LET depth == strip_containers(l).depth
  IN  [kind |-> "fence", char |-> l.body.char, width |-> l.body.width, depth |-> depth,
       items |-> items, col |-> chain_column(items, depth)]

----------------------------------------------------------------------------
(* fence_mask: the checker's fences.                                        *)

\* Does the line leave the quote, or any of the items, the fence was opened in? A blank
\* line, in an item's own frame, does not.
HasLeft(l, f) ==
  \/ strip_containers(l).depth < f.depth
  \/ \E i \in DOMAIN f.items :
       LET rest == quote_rest(l, f.items[i][1])
       IN  rest = None \/ (~rest.blank /\ rest.indent < f.items[i][2])
Closes(l, f) ==
  LET rest == quote_rest(l, f.depth)
  IN  /\ rest # None /\ rest.bare /\ IsFence(l)
      /\ rest.indent - f.col <= 3
      /\ l.body.char = f.char /\ l.body.width >= f.width /\ l.body.info = "blank"
\* As if a backtick in the info string did not matter.
MayOpenOnAnyRun(l, items) ==
  /\ l.marks = <<>> \/ Indented(l) <= chain_column(items, 0) + 3
  /\ IsFence(l) /\ OpenIndent(l, items) <= 3
MayOpen(l, items) ==
  /\ l.marks = <<>> \/ Indented(l) <= chain_column(items, 0) + 3
  /\ opens_fence(l) /\ OpenIndent(l, items) <= 3

InFence(l) == fence # None /\ ~HasLeft(l, fence)
\* The fence after the line, "items" being those the line sits in.
fence_mask(l, items) ==
  IF InFence(l) THEN IF Closes(l, fence) THEN None ELSE fence
  ELSE IF MayOpen(l, items) THEN Opened(l, items) ELSE None
Masked(l, items) == InFence(l) \/ fence_mask(l, items) # None

\* Four columns after a blank line, outside a list, are code until a shallower line.
indented_code_mask(l, masked) ==
  \/ coding /\ (BlankLine(l) \/ Indented(l) >= 4)
  \/ ~masked /\ ~BlankLine(l) /\ Indented(l) >= 4 /\ blankBefore /\ ~listBefore

----------------------------------------------------------------------------
(* Headings.                                                                *)

IsHeading(l) == l.body.kind = "heading"
classify_heading(l, items) ==
  LET w == strip_containers(l)
      column == chain_column(items, w.depth)
  IN  IF ~IsHeading(l) THEN "no"
      ELSE IF l.marks = <<>>
      THEN IF l.lead = 0 THEN "column0" ELSE IF l.lead <= 3 THEN "indented" ELSE "deep"
      ELSE IF \/ w.lead <= 3
              \/ w.items = <<>> /\ column > 0 /\ w.lead >= column /\ w.lead - column <= 3
           THEN "container"
           ELSE "no"

\* A heading's text: [is, version]; "entry" is a valid version heading, "undated" lacks its
\* date, "bare" its brackets, "wide" has a second space after the "##".
Bracketed == {"entry", "undated", "wide", "unreleased", "reconstructed"}
release_like(t) == t.is \in Bracketed \cup {"bare"}
\* A reconstructed heading is here that of 0.6.x, which names no version.
names_a_release(t) == t.is \in {"entry", "undated", "wide", "unreleased", "bare"}
KindOf(t) == IF t.is = "wide" THEN "entry"
             ELSE IF t.is \in {"undated", "bare"} THEN "malformed" ELSE t.is

SetextHeading(l) ==
  LET w == strip_containers(l)
  IN  /\ subject # None
      /\ l.body.kind = "rule" /\ w.items = <<>>
      /\ subject.depth = w.depth
      /\ w.lead \in subject.col..subject.col + 3
SubjectOf(l, items, skip) ==
  LET w == strip_containers(l)
  IN  IF ~skip /\ l.body.kind = "text"
      THEN [kind |-> "subject", depth |-> w.depth,
            col |-> IF w.items # <<>> THEN w.col ELSE chain_column(items, w.depth)]
      ELSE None

\* The deep pass of parse_changelog: between two delimiters four columns in, a line at least
\* as deep as the opener is a sample.
DeepRun(l) == l.marks = <<>> /\ l.lead >= 4 /\ IsFence(l)
DeepSample(l) == l.lead >= 4 /\ deepFence # None /\ l.lead >= deepFence.indent
DeepFence(l, skip) ==
  IF skip \/ ~DeepRun(l) THEN deepFence
  ELSE IF deepFence = None
  THEN IF opens_fence(l)
       THEN [kind |-> "deep", char |-> l.body.char, width |-> l.body.width, indent |-> l.lead]
       ELSE None
  ELSE IF l.body.char = deepFence.char /\ l.body.width >= deepFence.width /\ l.body.info = "blank"
       THEN None ELSE deepFence

\* check_changelog_headings, of the entry that follows those already there.
OutOfOrder(e) ==
  LET before(kind) == {i \in DOMAIN entries : entries[i].kind = kind}
      previous == before("entry")
      ranks == {entries[i].version : i \in before("reconstructed")}
  IN  \/ e.kind = "unreleased" /\ entries # <<>>
      \/ e.kind = "reconstructed" /\ \E r \in ranks : e.version <= r
      \/ e.kind = "entry" /\ \/ ranks # {}
                             \/ previous # {} /\ e.version >= entries[Max(previous)].version
\* check_changelog_categories, likewise: one of the six, once, in their order.
Misfiled(c) ==
  \/ ~Contains(Categories, c)
  \/ \E i, j \in DOMAIN Categories : i <= j /\ Categories[i] = c /\ Contains(categories, Categories[j])

\* check_changelog_notes_boundary: below the first entry, a level-1 or -2 heading that
\* begins no entry is published inside one.
NotesBoundary(level, place) == level <= 2 /\ place \in {"column0", "indented"} /\ entries # <<>>

----------------------------------------------------------------------------

\* The rules for a line that is not skipped: those of parse_changelog and of the three
\* checks that read its result.
ReadHeading(l, place) ==
  LET t == l.body.text
      level == l.body.level
      entry == [kind |-> KindOf(t), version |-> t.version]
      filed == /\ level = 3 /\ entries # <<>>
               /\ ~(place \in {"deep", "container"} /\ ~Contains(Categories, t.is))
  IN  IF level = 2 /\ release_like(t)
      THEN /\ entries' = Append(entries, entry)
           /\ categories' = <<>>
           /\ dirty' = (place # "column0" \/ t.is \in {"bare", "wide", "undated"} \/ OutOfOrder(entry))
      ELSE IF names_a_release(t)
      THEN dirty' = TRUE /\ UNCHANGED <<entries, categories>>
      ELSE /\ categories' = IF filed THEN Append(categories, t.is) ELSE categories
           /\ dirty' = \/ filed /\ (place # "column0" \/ Misfiled(t.is))
                       \/ NotesBoundary(level, place)
           /\ UNCHANGED entries

Check(l) ==
  LET items == container_chains(chain, l)
      masked == Masked(l, items)
      code == indented_code_mask(l, masked)
      skip == masked \/ (code /\ ~BlankLine(l))
      sample == DeepRun(l) \/ DeepSample(l)
      place == IF skip \/ sample THEN "no" ELSE classify_heading(l, items)
  IN  /\ chain' = items
      /\ fence' = fence_mask(l, items)
      /\ deepFence' = DeepFence(l, skip)
      /\ coding' = code
      /\ blankBefore' = BlankLine(l)
      /\ listBefore' = IF BlankLine(l) THEN listBefore
                       ELSE Indented(l) > 0 \/ (l.marks # <<>> /\ l.marks[1].kind = "item")
      /\ subject' = SubjectOf(l, items, skip)
      /\ IF place # "no" THEN ReadHeading(l, place)
         ELSE /\ dirty' = (~skip /\ ~sample /\ SetextHeading(l))
              /\ UNCHANGED <<entries, categories>>

----------------------------------------------------------------------------
(* changelog-section.awk: its own containers and fences, then three rules.  *)

AwkLeft(l, f) ==
  \/ strip_containers(l).depth < f.depth
  \/ \E i \in DOMAIN f.items :
       LET rest == quote_rest(l, f.items[i][1])
       IN  rest = None \/ (~rest.blank /\ rest.indent < f.items[i][2])
AwkCloses(l, f) ==
  LET rest == quote_rest(l, f.depth)
  IN  /\ rest # None /\ rest.bare /\ IsFence(l) /\ rest.indent - f.col <= 3
      /\ l.body.char = f.char /\ l.body.width >= f.width /\ l.body.info = "blank"
AwkOpens(l, items) == opens_fence(l) /\ OpenIndent(l, items) <= 3

Boundary(l) ==
  /\ l.marks = <<>> /\ l.lead = 0 /\ IsHeading(l) /\ l.body.level = 2
  /\ l.body.text.is \in Bracketed \ {"wide"}
Extract(l) ==
  LET items == container_chains(chain, l)
      inside == block # None /\ ~AwkLeft(l, block)
      opens == ~inside /\ AwkOpens(l, items)
      boundary == ~inside /\ ~opens /\ Boundary(l)
      own == boundary /\ l.body.text.version = wanted /\ l.body.text.is \in {"entry", "undated"}
  IN  /\ block' = IF inside THEN IF AwkCloses(l, block) THEN None ELSE block
                  ELSE IF opens THEN Opened(l, items) ELSE None
      /\ cut' = (cut \/ (boundary /\ ~own /\ on))
      /\ on' = ((on \/ own) /\ ~cut')
      /\ UNCHANGED wanted

Line(l) == ~dirty /\ Check(l) /\ Extract(l)

NotesInit ==
  /\ chain = <<>> /\ fence = None /\ deepFence = None
  /\ coding = FALSE /\ blankBefore = FALSE /\ listBefore = FALSE /\ subject = None
  /\ entries = <<>> /\ categories = <<>> /\ dirty = FALSE
  /\ block = None /\ wanted \in Wanted /\ on = FALSE /\ cut = FALSE

NotesNext == \E l \in Documents : Line(l)
NotesSpec == NotesInit /\ [][NotesNext]_noteVars

----------------------------------------------------------------------------

\* Of every document the checker passes, the extractor prints exactly the entry the checker
\* charged the lines to: no release runs into the next, no sample in a fence starts or ends
\* one. A document may end after any line; one that ends with a fence open is a finding.
NotesAreTheEntry ==
  ~dirty /\ fence = None
    => (on <=> entries # <<>> /\ Last(entries) = [kind |-> "entry", version |-> wanted])
=============================================================================
