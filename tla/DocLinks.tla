------------------------------ MODULE DocLinks ------------------------------
(***************************************************************************)
(* The prose checks of scripts/check-docs.py over one page of the tree it  *)
(* scans: whether the page is read, which of its text is inline code, and  *)
(* what the table, link and blockquote checks find in the rest.  A page is *)
(* a run of PIECES, a blank line after each; a piece says what a renderer  *)
(* makes of it: the lines with a dead link, where a torn table begins, the *)
(* lines a quote swallows.  One misread piece takes the next one along,    *)
(* and a check that lost a page prints what a clean tree prints.           *)
(*                                                                         *)
(* Which lines are in a code block is the subject of ReleaseNotes: a piece *)
(* that is one is skipped.                                                 *)
(***************************************************************************)
EXTENDS Integers, Sequences, FiniteSets, SequencesExt, FiniteSetsExt

CONSTANTS
  Pieces,      \* [text: characters, "\n" last; skip; dead, torn, lazy: line numbers]
  MaxPieces,
  Pages,       \* the destinations that exist
  Clones,      \* the directories the checkout stands in: sequences of names
  Places       \* where the page stands below it: [path: names, governed: is it a page of the project]

VARIABLES
  place, clone, asked,     \* where the page and the checkout stand, and what the run is asked to read
  page,                    \* its pieces
  check,                   \* the check that comes next
  text, findings, exit     \* the page's characters as the checks read them; [line, is]; exit status
docVars == <<place, clone, asked, page, check, text, findings, exit>>

LineEnd(k, t) == IF k = 0 THEN TRUE ELSE t[k] = "\n"
\* The lines of a text, each with its newline.
LinesOf(t) ==
  LET begins == {k \in DOMAIN t : LineEnd(k - 1, t)}
      end(k) == Min({j \in k..Len(t) : t[j] = "\n"})
  IN  [i \in 1..Cardinality(begins) |->
         LET k == CHOOSE b \in begins : Cardinality({a \in begins : a < b}) = i - 1
         IN  SubSeq(t, k, end(k))]
Written(p) == Append(p.text, "\n")
Source == FlattenSeq([k \in DOMAIN page |-> Written(page[k])])
Skips == FlattenSeq([k \in DOMAIN page |-> [i \in DOMAIN LinesOf(Written(page[k])) |-> page[k].skip]])

White == {" ", "\n"}
Stripped(line) ==
  LET ink == {j \in DOMAIN line : line[j] \notin White}
  IN  IF ink = {} THEN <<>> ELSE SubSeq(line, Min(ink), Max(ink))
Starts(line, S) == Stripped(line) # <<>> /\ Stripped(line)[1] \in S
\* The first position from k on, one past the end if there is none.
FirstAt(t, k, P(_)) == Min({j \in k..Len(t) : P(t[j])} \cup {Len(t) + 1})

----------------------------------------------------------------------------
(* Inline code.                                                             *)

RunEnd(t, k) == FirstAt(t, k, LAMBDA c : c # "tick")
\* Where the paragraph of position k ends.
WholePage(t, k) == Len(t)
ParagraphEnd(t, k) == Min({j \in k..Len(t) : t[j] = "\n" /\ (j = Len(t) \/ t[j + 1] = "\n")})
\* The next run of exactly the width: it closes, and an unclosed run is text.
Closers(t, k, width) ==
  {j \in k..ParagraphEnd(t, k) : t[j] = "tick" /\ t[j - 1] # "tick" /\ RunEnd(t, j) - j = width}
blank_code_spans(t, code) ==
  LET coded[k \in 1..Len(t) + 1] ==
        IF k > Len(t) THEN {}
        ELSE IF t[k] # "tick" \/ k \in code THEN coded[k + 1]
        ELSE LET open == RunEnd(t, k)
                 closers == Closers(t, open, open - k)
             IN  IF closers = {} THEN coded[open]
                 ELSE LET end == RunEnd(t, Min(closers)) IN (k..end - 1) \cup coded[end]
  IN  [k \in DOMAIN t |-> IF t[k] # "\n" /\ k \in coded[1] THEN " " ELSE t[k]]
\* Spans are matched over a paragraph and never over a line that is skipped.
blanked_lines(t) ==
  blank_code_spans(t, {k \in DOMAIN t : Skips[1 + Cardinality({j \in 1..k - 1 : t[j] = "\n"})]})

----------------------------------------------------------------------------
(* The three checks.                                                        *)

TableRow(line) == Starts(line, {"|"})
Separator(line) ==
  LET s == Stripped(line)
  IN  ToSet(s) \subseteq {"|", ":", "-", " "} /\ "-" \in ToSet(s) /\ s[1] = "|"
\* Every run of table rows begins with a header and a separator.
check_tables(ls, skip) ==
  LET row == {i \in DOMAIN ls : ~skip[i] /\ TableRow(ls[i])}
  IN  {[line |-> i, is |-> "torn"] :
         i \in {j \in row : j - 1 \notin row /\ ~(j + 1 \in row /\ Separator(ls[j + 1]))}}

\* The positions after "[...](".
LinkOpen(line) ==
  {k + 1 : k \in {j \in 3..Len(line) : /\ line[j] = "(" /\ line[j - 1] = "]"
                                       /\ \E o \in 1..j - 2 : line[o] = "[" /\ \A m \in o..j - 2 : line[m] # "]"}}
\* Parentheses are counted, those in a quoted title or in <...> are not.
inline_link_targets(line) ==
  LET from(k) == IF line[k] = "<" THEN FirstAt(line, k, LAMBDA c : c = ">") + 1 ELSE k
      Step(s, c) == IF s.quote # "" THEN IF c = s.quote THEN [s EXCEPT !.quote = ""] ELSE s
                    ELSE IF c \in {"'", "\""} THEN [s EXCEPT !.quote = c]
                    ELSE [s EXCEPT !.depth = @ + (IF c = "(" THEN 1 ELSE IF c = ")" THEN -1 ELSE 0)]
      open == [depth |-> 1, quote |-> ""]
      closed(k) == {j \in from(k)..Len(line) : FoldLeft(Step, open, SubSeq(line, from(k), j)).depth = 0}
  IN  {SubSeq(line, k, Min(closed(k)) - 1) : k \in {j \in LinkOpen(line) : closed(j) # {}}}
\* The destination before a title, out of its angle brackets.
link_destination(raw) ==
  LET s == Stripped(raw)
      space == FirstAt(s, 1, LAMBDA c : c = " ")
      titled == \E j \in 2..Len(s) : s[j] \in {"\"", "'", "("} /\ s[j - 1] = " "
  IN  IF s = <<>> THEN <<>>
      ELSE IF s[1] = "<" THEN SubSeq(s, 2, FirstAt(s, 1, LAMBDA c : c = ">") - 1)
      ELSE IF titled THEN SubSeq(s, 1, space - 1) ELSE s
\* "http:" is one character here; what follows a "#" is not looked up.
Broken(raw) ==
  LET dest == link_destination(raw)
      target == SubSeq(dest, 1, FirstAt(dest, 1, LAMBDA c : c = "#") - 1)
  IN  target # <<>> /\ target[1] # "http:" /\ target \notin Pages
check_links(ls, skip) ==
  {[line |-> i, is |-> "dead"] :
     i \in {j \in DOMAIN ls : ~skip[j] /\ \E raw \in inline_link_targets(ls[j]) : Broken(raw)}}

\* Blocks a paragraph is not continued by; a list item and a heading need their space.
interrupts_paragraph(line) ==
  LET s == Stripped(line)
  IN  \/ Starts(line, {">", "|", "<"})
      \/ Starts(line, {"-", "#"}) /\ (Len(s) = 1 \/ s[2] = " ")
      \/ Starts(line, {"tick"}) /\ RunEnd(s, 1) > 3
check_lazy_continuation(ls, skip) ==
  LET quoted(i) == Starts(ls[i], {">"}) /\ \E c \in ToSet(Stripped(ls[i])) : c \notin {">", " "}
  IN  {[line |-> i + 1, is |-> "lazy"] :
         i \in {j \in 1..Len(ls) - 1 : /\ ~skip[j] /\ ~skip[j + 1] /\ quoted(j)
                                       /\ Stripped(ls[j + 1]) # <<>> /\ ~interrupts_paragraph(ls[j + 1])}}

----------------------------------------------------------------------------
(* The run.                                                                 *)

SKIP_DIRS == {".git", "node_modules", "JUCE", "_deps"}
is_build_dir(name) == name \in {"build", "build-san", "cmake-build-debug"}
\* Whether the scan below its root reads the page.
Reads(path) == \A d \in ToSet(path) : d \notin SKIP_DIRS /\ ~is_build_dir(d)
markdown_files == asked = "page" \/ (asked = "repository" /\ Reads(place.path))

Refuse == exit' = 1 /\ check' = "done" /\ UNCHANGED <<place, clone, asked, page, text, findings>>
\* An argument that is no directory and no page, and a scan of nothing: no clean run.
Scan ==
  /\ check = "scan"
  /\ \/ ~markdown_files /\ Refuse
     \/ /\ markdown_files
        /\ text' = Source /\ check' = "code"
        /\ UNCHANGED <<place, clone, asked, page, findings, exit>>

BlankCode ==
  /\ check = "code"
  /\ text' = blanked_lines(text)
  /\ check' = "tables"
  /\ UNCHANGED <<place, clone, asked, page, findings, exit>>

Found(at, F(_, _), next) ==
  /\ check = at
  /\ findings' = findings \cup F(LinesOf(text), Skips)
  /\ check' = next
  /\ UNCHANGED <<place, clone, asked, page, text, exit>>
CheckTables == Found("tables", check_tables, "links")
CheckLinks == Found("links", check_links, "quotes")
CheckQuotes == Found("quotes", check_lazy_continuation, "end")

Conclude ==
  /\ check = "end"
  /\ exit' = IF findings = {} THEN 0 ELSE 1
  /\ check' = "done"
  /\ UNCHANGED <<place, clone, asked, page, text, findings>>

DocInit ==
  /\ place \in Places /\ clone \in Clones
  /\ asked \in {"repository", "page", "other file", "no such path"}
  /\ page \in SeqOf(Pieces, MaxPieces)
  /\ check = "scan" /\ text = <<>> /\ findings = {} /\ exit = -1
DocNext == Scan \/ BlankCode \/ CheckTables \/ CheckLinks \/ CheckQuotes \/ Conclude
DocSpec == DocInit /\ [][DocNext]_docVars

----------------------------------------------------------------------------
\* What is wrong with the page, by its pieces.
Defects ==
  LET before(k) == FoldLeft(LAMBDA m, j : m + Len(LinesOf(Written(page[j]))), 0, [j \in 1..k - 1 |-> j])
      at(k, lines_, what) == {[line |-> before(k) + i, is |-> what] : i \in lines_}
  IN  UNION {at(k, page[k].dead, "dead") \cup at(k, page[k].torn, "torn")
               \cup at(k, page[k].lazy, "lazy") :
               k \in DOMAIN page}

(***************************************************************************)
(* A run that reads a page reports each of its defects on its line and     *)
(* nothing else: no backtick of one paragraph hides what stands in the     *)
(* next, no title or parenthesis cuts a link short, no code is read as     *)
(* text. And exit status 0 means that a page of the project was read and   *)
(* has none, wherever the checkout stands. Given pages on which no quote's *)
(* line, and no line directly after one, begins with a code span, which    *)
(* the check takes for blanks (check-docs.py:883, :886).                   *)
(***************************************************************************)
DefectsAreFound ==
  /\ check = "done" /\ markdown_files => findings = Defects
  /\ check = "done" =>
       (exit = 0 <=> Defects = {} /\ (asked = "page" \/ (asked = "repository" /\ place.governed)))
=============================================================================
