------------------------------ MODULE LintText ------------------------------
(***************************************************************************)
(* What the source lints read of a file: scripts/check-realtime.py,        *)
(* check-dispatch.py, check-state-coverage.py and check-portability.py     *)
(* each carry a stripper of C++ comments and literals, check-docs.py one   *)
(* of awk's.  A text is a run of FRAGMENTS whose characters say whether a  *)
(* compiler reads them as code: a fragment a stripper misreads takes the   *)
(* code after it along, and a lint that lost code prints what a clean tree *)
(* prints.                                                                 *)
(*                                                                         *)
(* One action is one turn of the stripper's loop, with the whole construct *)
(* it consumes.  A blanked and a deleted character are the same here: what *)
(* counts is which positions are still read, and on which line.            *)
(***************************************************************************)
EXTENDS Integers, Sequences, FiniteSets, SequencesExt, FiniteSetsExt

CONSTANTS
  Lints,         \* the strippers under test
  Fragments,     \* [text: sequence of <<character, read as code>>, lints: who claims to read it]
  MaxFragments

Digits == {"0", "1", "5", "8"}
Alnum == Digits \cup {"a", "u", "R", "x"}

VARIABLES
  lint, text,
  at, kept,      \* where the loop stands, and the positions it left in place
  prev           \* awk: the last code character, which tells a regex from a division
textVars == <<lint, text, at, kept, prev>>

n == Len(text)
Char(k) == IF k \in 1..n THEN text[k][1] ELSE ""
\* The first position from k on with the property, n + 1 if there is none.
FirstFrom(k, P(_)) == Min({j \in k..n : P(j)} \cup {n + 1})
NextNewline(k) == FirstFrom(k, LAMBDA j : Char(j) = "\n")

\* The closing quote of the literal opened at k, an escape hiding the
\* character after it; "stop" ends the search at a bare newline.
EndOfLiteral(k, stop) ==
  LET end[j \in k..n + 2] ==
        IF j > n THEN n + 1
        ELSE IF Char(j) = "\\" /\ j < n THEN end[j + 2]
        ELSE IF Char(j) = Char(k) \/ (stop /\ Char(j) = "\n") THEN j
        ELSE end[j + 1]
  IN  end[k + 1]
ClosesOnThisLine(k) == Char(EndOfLiteral(k, TRUE)) = Char(k)

\* A quote inside one numeric token: what stands left of it begins a number.
TokenStart(k) == Min({s \in 1..k : \A j \in s..k - 1 : Char(j) \in Alnum \cup {"'", "."}})
NeighboursOnly(k) == Char(k - 1) \in Alnum /\ Char(k + 1) \in Alnum
IsDigitSeparator(k) ==
  LET s == TokenStart(k)
  IN  /\ Char(k + 1) \in Alnum
      /\ s < k
      /\ Char(s) \in Digits \/ (Char(s) = "." /\ s + 1 < k /\ Char(s + 1) \in Digits)

\* The token already emitted left of k, as check-portability.py reads it back.
LeftToken(k) ==
  LET s == Min({j \in 1..k : \A i \in j..k - 1 : i \in kept /\ Char(i) \in Alnum})
  IN  [j \in 1..k - s |-> Char(s + j - 1)]
CharPrefixes == {<<>>, <<"u">>, <<"u", "8">>}
RawPrefixes == {<<"R">>, <<"u", "R">>, <<"u", "8", "R">>}

NotALiteral(k) ==
  /\ Char(k) = "'"
  /\ IF lint = "portability" THEN LeftToken(k) \notin CharPrefixes
     ELSE IsDigitSeparator(k) \/ ~ClosesOnThisLine(k)

\* The end of a raw string whose quote stands at k: ")", its delimiter and a quote.
RawEnd(k) ==
  LET open == FirstFrom(k, LAMBDA j : Char(j) = "(")
      delimiter == [j \in 1..open - k - 1 |-> Char(k + j)]
      Closes(j) == /\ Char(j) = ")"
                   /\ Char(j + open - k) = "\""
                   /\ \A i \in DOMAIN delimiter : Char(j + i) = delimiter[i]
  IN  Min({n, FirstFrom(open + 1, Closes) + open - k})
\* check-realtime.py meets the R, check-portability.py the quote after it; the other two
\* know no raw strings.
OpensRaw(k) ==
  /\ FirstFrom(k, LAMBDA j : Char(j) = "(") <= n
  /\ \/ lint = "realtime" /\ Char(k) = "R" /\ Char(k + 1) = "\""
     \/ lint = "portability" /\ Char(k) = "\"" /\ LeftToken(k) \in RawPrefixes

OpensLineComment(k) == Char(k) = "/" /\ Char(k + 1) = "/"
OpensBlockComment(k) == Char(k) = "/" /\ Char(k + 1) = "*"
EndOfBlockComment(k) == Min({n, FirstFrom(k + 2, LAMBDA j : Char(j) = "*" /\ Char(j + 1) = "/") + 1})
OpensLiteral(k) == Char(k) \in {"'", "\""} /\ ~NotALiteral(k) /\ ~OpensRaw(k)

Newlines(S) == {k \in S : Char(k) = "\n"}
\* Consumes up to "last", leaving the newlines.
Blank(last) ==
  /\ kept' = kept \cup Newlines(at..last)
  /\ at' = last + 1
  /\ UNCHANGED <<lint, text, prev>>

Here(P(_)) == lint # "awk" /\ at <= n /\ P(at)

SkipLineComment == Here(OpensLineComment) /\ Blank(NextNewline(at) - 1)

SkipBlockComment == Here(OpensBlockComment) /\ Blank(EndOfBlockComment(at))

SkipRawString == Here(OpensRaw) /\ Blank(RawEnd(IF Char(at) = "R" THEN at + 1 ELSE at))

\* An unclosed literal ends before a bare newline in check-realtime.py, with
\* the text in the others; a spliced one is taken along by the escape there
\* and left in the others.
SkipLiteral ==
  LET end == EndOfLiteral(at, lint = "realtime")
      last == IF Char(end) = "\n" THEN end - 1 ELSE Min({n, end})
  IN  /\ Here(OpensLiteral)
      /\ kept' = IF lint = "realtime" THEN kept ELSE kept \cup Newlines(at..last)
      /\ at' = last + 1
      /\ UNCHANGED <<lint, text, prev>>

\* Everything else is code, an apostrophe that opens nothing included.
Keep ==
  /\ lint # "awk" /\ at <= n
  /\ ~OpensLineComment(at) /\ ~OpensBlockComment(at) /\ ~OpensRaw(at) /\ ~OpensLiteral(at)
  /\ kept' = kept \cup {at}
  /\ at' = at + 1
  /\ UNCHANGED <<lint, text, prev>>

----------------------------------------------------------------------------
(* awk_code_text of check-docs.py.                                          *)

\* A "/" after an operand divides; so does one with no code before it.
OpensAwkLiteral(k) ==
  Char(k) = "\"" \/ (Char(k) = "/" /\ prev \notin Alnum \cup {"_", ")", "]", ""})
EndOfAwkLiteral(k) ==
  LET end[j \in k..n + 2] ==
        IF j > n THEN n
        ELSE IF Char(j) = "\\" /\ j < n /\ Char(j + 1) # "\n" THEN end[j + 2]
        ELSE IF Char(j) = Char(k) THEN j
        ELSE IF Char(j) = "\n" THEN j - 1
        ELSE end[j + 1]
  IN  end[k + 1]
SkipAwkComment ==
  /\ Char(at) = "#"
  /\ Blank(NextNewline(at) - 1)
\* A literal is an operand.
SkipAwkLiteral ==
  /\ OpensAwkLiteral(at)
  /\ at' = EndOfAwkLiteral(at) + 1
  /\ prev' = ")"
  /\ UNCHANGED <<lint, text, kept>>
KeepAwk ==
  /\ Char(at) # "#" /\ ~OpensAwkLiteral(at)
  /\ kept' = kept \cup {at}
  /\ prev' = IF Char(at) \in {" ", "\n"} THEN prev ELSE Char(at)
  /\ at' = at + 1
  /\ UNCHANGED <<lint, text>>
AwkNext == lint = "awk" /\ at <= n /\ (SkipAwkComment \/ SkipAwkLiteral \/ KeepAwk)

----------------------------------------------------------------------------

Piece(l) == {f.text : f \in {g \in Fragments : l \in g.lints}}
\* Fragments apart from each other, and one more piece of code at the end of the last line.
TextInit ==
  /\ lint \in Lints
  /\ \E p \in SeqOf(Piece(lint), MaxFragments) :
       text = FlattenSeq([k \in DOMAIN p |-> Append(p[k], <<" ", FALSE>>)]) \o << <<"x", TRUE>> >>
  /\ at = 1
  /\ kept = {} /\ prev = ""

TextNext ==
  \/ SkipLineComment \/ SkipBlockComment \/ SkipRawString \/ SkipLiteral \/ Keep
  \/ AwkNext
TextSpec == TextInit /\ [][TextNext]_textVars

LineOf(k, newlines) == 1 + Cardinality({j \in newlines : j < k})

(***************************************************************************)
(* Of the constructs it claims to handle, a lint reads the program's code, *)
(* all of it and nothing else, each piece on the line it stands on: none   *)
(* of them (a quote, a prefix, a separator, a prose apostrophe, a comment) *)
(* hides the rest of a file or puts a comment into it. A raw string is     *)
(* such a construct of the two lints that know one, check-realtime.py and  *)
(* check-portability.py. A literal continued over lines is one of all but  *)
(* check-realtime.py, which loses its newline (:391-395).                  *)
(***************************************************************************)
CodeIsSeen ==
  at > n => { <<k, LineOf(k, Newlines(kept))>> : k \in {j \in kept : Char(j) \notin {" ", "\n"}} }
            = { <<k, LineOf(k, Newlines(1..n))>> : k \in {j \in 1..n : text[j][2]} }
=============================================================================
