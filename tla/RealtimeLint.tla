---------------------------- MODULE RealtimeLint ----------------------------
(***************************************************************************)
(* The realtime lint, scripts/check-realtime.py: it finds the definitions  *)
(* in the stripped text of one file (LintText models the stripper), walks  *)
(* from those the realtime policy names to every body of the same file     *)
(* they can enter, and scans those bodies and no others.                   *)
(*                                                                         *)
(* A file is a sequence of tokens, with what a compiler makes of it: the   *)
(* functions it really defines, what each calls, and the forbidden         *)
(* constructs of each, every one a token of its own.                       *)
(***************************************************************************)
EXTENDS Integers, Sequences, FiniteSets, SequencesExt, FiniteSetsExt

CONSTANTS
  Files,        \* [tokens, defs: set of [name, calls, bad, weak]]
  Names,        \* the identifier tokens, keywords included
  Keywords,     \* those that are followed by "(" and are no call (NOT_A_CALL)
  AudioNames,   \* the functions the policy binds (AUDIO_FN)
  NeverFollow,  \* where allocation is required
  OrderedNames, \* the bodies whose loads must be acquire or stronger (ORDERED_FN)
  Forbidden, WeakLoads  \* the tokens FORBIDDEN and WEAK_ORDER match

VARIABLES file, seen, queue, findings, ordered
rtVars == <<file, seen, queue, findings, ordered>>

Tok(k) == IF k \in DOMAIN file.tokens THEN file.tokens[k] ELSE ""
Size == Len(file.tokens)
FirstTok(k, t) == Min({j \in k..Size : Tok(j) = t} \cup {Size + 1})
\* The bracket that closes the one at k.
Closer(k, open, close) ==
  LET from[j \in k..Size + 1, depth \in 0..Size] ==
        IF j > Size THEN j
        ELSE IF Tok(j) = open THEN from[j + 1, depth + 1]
        ELSE IF Tok(j) # close THEN from[j + 1, depth]
        ELSE IF depth = 1 THEN j ELSE from[j + 1, depth - 1]
  IN  from[k, 0]

Openers == {"(", "[", "{"}
Closers == {")", "]", "}"}

\* The tokens of a..b inside balanced template arguments: opened after a name, closed at the
\* depth they were opened at.
TemplateArgs(a, b) ==
  LET Step(s, k) ==
        CASE Tok(k) \in Openers -> [s EXCEPT !.depth = @ + 1]
          [] Tok(k) \in Closers -> [s EXCEPT !.depth = @ - 1,
                                             !.open = SelectSeq(@, LAMBDA o : o[2] < s.depth)]
          [] Tok(k) = "<" /\ k > a /\ Tok(k - 1) \in Names -> [s EXCEPT !.open = Append(@, <<k, s.depth>>)]
          [] Tok(k) = ">" /\ s.open # <<>> /\ Last(s.open)[2] = s.depth ->
               [s EXCEPT !.blank = @ \cup (Last(s.open)[1]..k), !.open = Front(@)]
          [] OTHER -> s
  IN  FoldLeft(Step, [depth |-> 0, open |-> <<>>, blank |-> {}],
               [i \in 1..b - a + 1 |-> a + i - 1]).blank

IsDeclaratorTail(a, b) ==
  LET blank == TemplateArgs(a, b)
      left == (a..b) \ blank
      Depth(k) == Cardinality({j \in left : j <= k /\ Tok(j) \in Openers})
                  - Cardinality({j \in left : j <= k /\ Tok(j) \in Closers})
  IN  \/ left # {} /\ Tok(Min(left)) = ":"
      \/ \A k \in left : Depth(k) >= 0 /\ (Tok(k) = "," => Depth(k) # 0)

\* Does the name at k head a definition: does a qualifier or the end of a return type stand
\* before it?
HeadsADefinition(k) ==
  LET window == Max({j \in 0..k - 2 : j = 0 \/ Tok(j) \in {";", "{", "}"}}) + 1
  IN  CASE k = 1 -> FALSE
        [] Tok(k - 1) = "::" -> TRUE
        [] Tok(k - 1) = "&" -> Tok(k - 2) \in Names \cup {">"}
        [] Tok(k - 1) = ">" -> k - 1 \in TemplateArgs(window, k - 1)
        [] OTHER -> Tok(k - 1) \in Names \ Keywords

\* The body that goes with the name at k: "{" before any ";" after the parameter list.
Body(k) ==
  LET brace == FirstTok(Closer(k + 1, "(", ")") + 1, "{")
  IN  [name |-> Tok(k), start |-> brace, stop |-> Closer(brace, "{", "}")]
Defines(k) ==
  /\ Tok(k + 1) = "("
  /\ Tok(k - 1) \notin {".", "->"}
  /\ HeadsADefinition(k)
  /\ LET close == Closer(k + 1, "(", ")")
         brace == FirstTok(close + 1, "{")
     IN  /\ brace <= Size
         /\ FirstTok(close + 1, ";") > brace
         /\ IsDeclaratorTail(close + 1, brace - 1)
Bodies(S) == {Body(k) : k \in {j \in 1..Size : Tok(j) \in S /\ Defines(j)}}

\* What the body calls: by name only, std:: and juce:: not followed.
Callees(b) ==
  {Tok(k) : k \in {j \in b.start..b.stop : /\ Tok(j) \in Names \ (Keywords \cup NeverFollow)
                                           /\ Tok(j + 1) = "("
                                           /\ Tok(j - 1) # "::"}}
Hits(b, S) == {Tok(k) : k \in b.start..b.stop} \cap S

RtInit ==
  /\ file \in Files
  /\ seen = Bodies(AudioNames)
  /\ queue = {[body |-> b, path |-> <<b.name>>] : b \in seen}
  /\ findings = {}
  /\ ordered = FALSE

\* Takes a queued body, scans it and queues what it calls and was not yet seen. A set for
\* the queue: callees come out of one.
VisitOnly(e) ==
  /\ findings' = findings \cup {[at |-> t, path |-> e.path] : t \in Hits(e.body, Forbidden)}
  /\ queue' = queue \ {e}
  /\ UNCHANGED <<file, seen, ordered>>
Visit(e) ==
  LET found == {b \in Bodies(Callees(e.body)) : b \notin seen}
  IN  /\ findings' = findings \cup {[at |-> t, path |-> e.path] : t \in Hits(e.body, Forbidden)}
      /\ seen' = seen \cup found
      /\ queue' = (queue \ {e}) \cup {[body |-> b, path |-> Append(e.path, b.name)] : b \in found}
      /\ UNCHANGED <<file, ordered>>

\* The second scan, over the bodies of its own list and only theirs.
CheckOrder ==
  /\ queue = {}
  /\ ~ordered
  /\ findings' = findings \cup
       UNION {{[at |-> t, path |-> <<b.name>>] : t \in Hits(b, WeakLoads)} : b \in Bodies(OrderedNames)}
  /\ ordered' = TRUE
  /\ UNCHANGED <<file, seen, queue>>

RtNext == (\E e \in queue : Visit(e)) \/ CheckOrder
RtSpec == RtInit /\ [][RtNext]_rtVars

-----------------------------------------------------------------------------
Follows(d, e) == e.name \in d.calls \ NeverFollow
Entered ==
  LET grow[k \in 0..Cardinality(file.defs)] ==
        IF k = 0 THEN {d \in file.defs : d.name \in AudioNames}
        ELSE grow[k - 1] \cup {e \in file.defs : \E d \in grow[k - 1] : Follows(d, e)}
  IN  grow[Cardinality(file.defs)]

(***************************************************************************)
(* What the lint reports is what the audio thread can reach in the file:   *)
(* every forbidden construct of a function a policy-bound one enters, of   *)
(* no other, and each by a chain of calls that is really there.  A call    *)
(* read as a definition, or a definition as a call, loses a whole subtree. *)
(***************************************************************************)
FindingsAreReached ==
  ordered =>
    /\ {f.at : f \in findings} = UNION ({d.bad : d \in Entered}
                                        \cup {d.weak : d \in {e \in file.defs : e.name \in OrderedNames}})
    /\ \A f \in findings :
         /\ f.path[1] \in AudioNames \cup OrderedNames
         /\ \A k \in 1..Len(f.path) - 1 :
              \E d \in file.defs : d.name = f.path[k] /\ f.path[k + 1] \in d.calls
         /\ \E d \in file.defs : d.name = Last(f.path) /\ f.at \in d.bad \cup d.weak
=============================================================================
