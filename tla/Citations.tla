------------------------------- MODULE Citations -------------------------------
(***************************************************************************)
(* scripts/check-citations.py: documents cite lines of a tracked file; the *)
(* tool compares each citation with what it showed at a base revision,     *)
(* reports those that drifted (--check) or re-anchors them (--fix), and    *)
(* holds three sets of declarations against the current tree.  It is run   *)
(* again and again on what it wrote itself, and a repairing run may be     *)
(* killed between two documents.                                           *)
(*                                                                         *)
(* Abstracted: a line is its content, no two of a file the same; a         *)
(* document is the sequence of its citations; citations are paired per     *)
(* tracked file, and one tracked file stands for them all.  A document     *)
(* that is itself a tracked source is left out.                            *)
(***************************************************************************)
EXTENDS Integers, Sequences, FiniteSets

CONSTANTS
  BaseFile,         \* the tracked file at the base: its lines
  NowFiles,         \* what it may read now
  BaseDocs,         \* what a document may read at the base: sequences of citations, each of
                    \* anchors <<lo, hi>>, hi = 0 for a single line, and a gloss or ""
  NowDocs,          \* what it may read now, for each of those
  DocOrder,         \* the documents, as they are visited
  GlossChecked,     \* those whose glosses are held against the file
  PinLine, NoteLine,   \* the versioned line whose value glosses watch, the line that restates it
  PinValue, NoteValue, \* contents that carry the pin and the note, and their values
  Declarations,     \* sets of declared re-aims
  MaxRuns           \* bound: runs of the tool

Docs == {DocOrder[i] : i \in DOMAIN DocOrder}
Citation == [anchors : Seq((Nat \ {0}) \X Nat), gloss : STRING]

ASSUME CitationsAssumption ==
  /\ PinLine \in DOMAIN BaseFile /\ NoteLine \in DOMAIN BaseFile
  /\ MaxRuns \in Nat
  /\ \A f \in NowFiles \cup {BaseFile} :
       f \in Seq(STRING) /\ \A i, j \in DOMAIN f : f[i] = f[j] => i = j
  /\ DocOrder \in Seq(Docs) /\ GlossChecked \subseteq Docs
  /\ BaseDocs \subseteq Seq(Citation)
  /\ \A d \in BaseDocs : NowDocs[d] \subseteq Seq(Citation)

VARIABLES
  nowFile, baseDocs, docs, declared,
  mode, phase, visited,      \* this run: "check" or "fix", where, documents done
  misaimed, badGlosses,      \* this run: documents owning a misaimed declaration, glosses not met
  drifted, unmappable, fixable, withheld, unchecked,
  exit, runs,
  repaired      \* history: the last run that ended was a repair that reported success

CitVars == <<nowFile, baseDocs, docs, declared, mode, phase, visited, misaimed, badGlosses,
             drifted, unmappable, fixable, withheld, unchecked, exit, runs, repaired>>

CitInit ==
  /\ nowFile \in NowFiles /\ declared \in Declarations
  /\ baseDocs \in [Docs -> BaseDocs]
  /\ docs \in {f \in [Docs -> UNION {NowDocs[d] : d \in BaseDocs}] :
                 \A d \in Docs : f[d] \in NowDocs[baseDocs[d]]}
  /\ mode = "check" /\ phase = "idle" /\ visited = 0
  /\ misaimed = {} /\ badGlosses = FALSE
  /\ drifted = 0 /\ unmappable = 0 /\ fixable = 0 /\ withheld = 0 /\ unchecked = 0
  /\ exit = -1 /\ runs = 0 /\ repaired = FALSE

world    == <<nowFile, baseDocs, declared>>
counters == <<drifted, unmappable, fixable, withheld, unchecked>>

-----------------------------------------------------------------------------
(* Lines. *)

LineOf(file, n) == IF n \in DOMAIN file THEN file[n] ELSE "no line"

Lines(anchor) == anchor[1]..(IF anchor[2] = 0 THEN anchor[1] ELSE anchor[2])

\* The contents a reader of the anchors finds.
TargetText(anchors) ==
  {LineOf(nowFile, n) : n \in UNION {Lines(anchors[i]) : i \in DOMAIN anchors}} \ {"no line"}

\* build_line_map(): where a line of the base is now, or zero if it was itself edited.  By its
\* content: the code gives up one that was removed and inserted again, too.
MapLine(n) ==
  LET at == {k \in DOMAIN nowFile : nowFile[k] = LineOf(BaseFile, n)}
  IN IF at = {} THEN 0 ELSE CHOOSE k \in at : TRUE

HasToken(line, content) ==
  content \in DOMAIN (IF line = PinLine THEN PinValue ELSE NoteValue)

EndStillRight(lo, hi) ==
  IF lo = hi /\ lo \in {PinLine, NoteLine}
  THEN HasToken(lo, LineOf(nowFile, hi))
  ELSE LineOf(BaseFile, lo) = LineOf(nowFile, hi)

\* Mutant: the first line of a range is all that is compared.
FirstLineStillRight(old, new) == (old[2] = 0) = (new[2] = 0) /\ EndStillRight(old[1], new[1])

AnchorStillRight(old, new) ==
  /\ (old[2] = 0) = (new[2] = 0)
  /\ EndStillRight(old[1], new[1])
  /\ old[2] # 0 => EndStillRight(old[2], new[2])

StillRight(old, new) == \A i \in DOMAIN old.anchors : AnchorStillRight(old.anchors[i], new.anchors[i])

-----------------------------------------------------------------------------
(* The three sets of declarations. *)

\* One document's re-aim, from a spelling to another, and what the latter should show.
Misaimed == {r \in declared : r.expect \notin TargetText(r.to)}

SourceValue == IF HasToken(PinLine, LineOf(nowFile, PinLine))
               THEN PinValue[nowFile[PinLine]] ELSE "none"

CoversPin(c) == \E i \in DOMAIN c.anchors : PinLine \in Lines(c.anchors[i])

Glossed ==
  UNION {{<<d, i>> : i \in {j \in DOMAIN docs[d] : docs[d][j].gloss # ""}} : d \in GlossChecked}

\* A gloss on the guarded line is held against its value, any other against the text.
GlossMet(c) == IF CoversPin(c) THEN c.gloss = SourceValue ELSE c.gloss \in TargetText(c.anchors)

VersionedProblem ==
  \/ ~HasToken(PinLine, LineOf(nowFile, PinLine)) \/ ~HasToken(NoteLine, LineOf(nowFile, NoteLine))
  \/ NoteValue[nowFile[NoteLine]] # SourceValue
  \/ ~\E g \in Glossed : LET c == docs[g[1]][g[2]] IN CoversPin(c) /\ c.gloss = SourceValue

-----------------------------------------------------------------------------
(* One document. *)

Occurrences(c, doc) == {j \in DOMAIN doc : doc[j].anchors = c.anchors}

Mappable(c) ==
  \A i \in DOMAIN c.anchors :
    MapLine(c.anchors[i][1]) # 0 /\ (c.anchors[i][2] # 0 => MapLine(c.anchors[i][2]) # 0)

Rebuilt(c) ==
  [i \in DOMAIN c.anchors |->
     << MapLine(c.anchors[i][1]), IF c.anchors[i][2] = 0 THEN 0 ELSE MapLine(c.anchors[i][2]) >>]

DeclaredReaim(d, old, new) ==
  /\ old.anchors # new.anchors
  /\ \E r \in declared : r.doc = d /\ r.from = old.anchors /\ r.to = new.anchors

\* What is found of the i-th citation of the base, and which citations of now it moves.
Paired(d) == Len(docs[d]) = Len(baseDocs[d])

VerdictPaired(d, i) ==
  LET old == baseDocs[d][i]  new == docs[d][i]
  IN IF Len(old.anchors) # Len(new.anchors) THEN "count"
     ELSE IF StillRight(old, new) THEN "right"
     ELSE IF DeclaredReaim(d, old, new) THEN "declared"
     ELSE IF Mappable(old) THEN "drifted" ELSE "unmappable"

\* Once citations were added or removed, those whose spelling is still there are judged.
VerdictSpelled(d, i) ==
  LET old == baseDocs[d][i]
  IN IF Occurrences(old, docs[d]) = {} THEN "unchecked"
     ELSE IF StillRight(old, old) THEN "right"
     ELSE IF \E k \in 1..(i - 1) : baseDocs[d][k].anchors = old.anchors THEN "again"
     ELSE IF Mappable(old) THEN "drifted" ELSE "unmappable"

Verdict(d, i) == IF Paired(d) THEN VerdictPaired(d, i) ELSE VerdictSpelled(d, i)

\* Mutant: a citation is looked for by its old spelling in a paired document too.
MovesBySpelling(d, i) == Occurrences(baseDocs[d][i], docs[d])

Moves(d, i) == IF Paired(d) THEN {i} ELSE Occurrences(baseDocs[d][i], docs[d])

With(d, verdicts) == {i \in DOMAIN baseDocs[d] : Verdict(d, i) \in verdicts}

Rewritten(d) ==
  [j \in DOMAIN docs[d] |->
     LET by == {i \in With(d, {"drifted"}) : j \in Moves(d, i)}
     IN IF by = {} THEN docs[d][j]
        ELSE [docs[d][j] EXCEPT !.anchors = Rebuilt(baseDocs[d][CHOOSE i \in by : TRUE])]]

-----------------------------------------------------------------------------
(* A run, main(). *)

Ends(code) ==
  /\ phase' = "idle" /\ exit' = code /\ runs' = runs + 1
  /\ repaired' = (mode = "fix" /\ code = 0)

Begin(m) ==
  /\ phase = "idle" /\ runs < MaxRuns
  /\ mode' = m /\ phase' = "reaims" /\ visited' = 0 /\ exit' = -1
  /\ misaimed' = {} /\ badGlosses' = FALSE
  /\ drifted' = 0 /\ unmappable' = 0 /\ fixable' = 0 /\ withheld' = 0 /\ unchecked' = 0
  /\ UNCHANGED <<world, docs, runs, repaired>>

\* A misaimed declaration stops a check, and is carried past by a repair.
VerifyReaims ==
  /\ phase = "reaims"
  /\ misaimed' = {r.doc : r \in Misaimed}
  /\ IF Misaimed # {} /\ mode = "check" THEN Ends(2)
     ELSE phase' = "glosses" /\ UNCHANGED <<exit, runs, repaired>>
  /\ UNCHANGED <<world, docs, mode, visited, badGlosses, counters>>

VerifyGlosses ==
  /\ phase = "glosses"
  /\ badGlosses' = \E g \in Glossed : ~GlossMet(docs[g[1]][g[2]])
  /\ IF badGlosses' /\ mode = "check" THEN Ends(2)
     ELSE phase' = "versioned" /\ UNCHANGED <<exit, runs, repaired>>
  /\ UNCHANGED <<world, docs, mode, visited, misaimed, counters>>

VerifyVersioned ==
  /\ phase = "versioned"
  /\ IF VersionedProblem THEN Ends(2) ELSE phase' = "docs" /\ UNCHANGED <<exit, runs, repaired>>
  /\ UNCHANGED <<world, docs, mode, visited, misaimed, badGlosses, counters>>

\* A document that owns a misaimed declaration is not rewritten.
CheckDoc ==
  /\ phase = "docs" /\ visited < Len(DocOrder)
  /\ LET d == DocOrder[visited + 1]
         moving == Cardinality(With(d, {"drifted"}))
         stuck == Cardinality(With(d, {"unmappable", "count"}))
         writes == mode = "fix" /\ moving > 0 /\ d \notin misaimed
         holds  == mode = "fix" /\ moving > 0 /\ d \in misaimed
     IN /\ drifted' = drifted + moving + stuck
        /\ unmappable' = unmappable + stuck
        /\ fixable' = fixable + (IF holds THEN 0 ELSE moving)
        /\ withheld' = withheld + (IF holds THEN moving ELSE 0)
        /\ unchecked' = unchecked + Cardinality(With(d, {"unchecked"}))
        /\ docs' = IF writes THEN [docs EXCEPT ![d] = Rewritten(d)] ELSE docs
  /\ visited' = visited + 1
  /\ UNCHANGED <<world, mode, phase, misaimed, badGlosses, exit, runs, repaired>>

Report ==
  /\ phase = "docs" /\ visited = Len(DocOrder)
  /\ Ends(IF mode = "fix" THEN (IF unmappable > 0 \/ misaimed # {} \/ badGlosses THEN 2 ELSE 0)
          ELSE IF drifted > 0 THEN 1 ELSE 0)
  /\ UNCHANGED <<world, docs, mode, visited, misaimed, badGlosses, counters>>

Killed ==
  /\ phase # "idle"
  /\ Ends(9)
  /\ UNCHANGED <<world, docs, mode, visited, misaimed, badGlosses, counters>>

CitNext ==
  \/ \E m \in {"check", "fix"} : Begin(m)
  \/ VerifyReaims \/ VerifyGlosses \/ VerifyVersioned \/ CheckDoc \/ Report \/ Killed

CitSpec == CitInit /\ [][CitNext]_CitVars

-----------------------------------------------------------------------------
(* Properties. *)

\* What a reader who follows both citations finds is the same, line by line of their ends.
ShowsWhatItDid(old, new) ==
  /\ Len(old.anchors) = Len(new.anchors)
  /\ \A i \in DOMAIN old.anchors : \A e \in {1, 2} :
       /\ old.anchors[i][e] = 0 <=> new.anchors[i][e] = 0
       /\ \/ old.anchors[i][e] = 0
          \/ LineOf(BaseFile, old.anchors[i][e]) = LineOf(nowFile, new.anchors[i][e])
          \/ new.anchors[i][e] = old.anchors[i][e] /\ new.anchors[i][e] \in {PinLine, NoteLine}

\* What the citations of now, the declarations and the glosses have to be.
DocumentsHold ==
  /\ \A d \in Docs : Paired(d) => \A i \in DOMAIN docs[d] :
       \/ ShowsWhatItDid(baseDocs[d][i], docs[d][i])
       \/ \E r \in declared : /\ r.doc = d /\ r.from = baseDocs[d][i].anchors
                              /\ r.to = docs[d][i].anchors /\ r.expect \in TargetText(r.to)
  /\ \A g \in Glossed : CoversPin(docs[g[1]][g[2]]) => docs[g[1]][g[2]].gloss = SourceValue
  /\ \E g \in Glossed : CoversPin(docs[g[1]][g[2]])
  /\ NoteValue[nowFile[NoteLine]] = SourceValue

(***************************************************************************)
(* When a check is green every citation that has a counterpart at the base *)
(* shows what it showed there, or was declared re-aimed from that very     *)
(* spelling to this one and shows what the declaration names; and every    *)
(* gloss on the pinned line, in whichever document, says the value that    *)
(* line has now, one of them at least, as does the note (main, --check).   *)
(***************************************************************************)
CheckIsTrue == phase = "idle" /\ mode = "check" /\ exit = 0 => DocumentsHold

\* No check would find anything to say about the documents as they are.
NothingDrifted(d) == With(d, {"drifted", "unmappable", "count"}) = {}

(***************************************************************************)
(* A repair that reports success leaves nothing for the next check in the  *)
(* documents whose citations can be paired, also when earlier repairs were *)
(* killed between two documents.                                           *)
(***************************************************************************)
RepairHolds == phase = "idle" /\ repaired => \A d \in Docs : Paired(d) => NothingDrifted(d)

(***************************************************************************)
(* What is green is true: of a check, and of a repair that says it is done *)
(* (check-citations.py main, fix_exit_code).                               *)
(***************************************************************************)
GreenIsTrue == CheckIsTrue /\ RepairHolds

(***************************************************************************)
(* No repair touches a citation that still shows what its counterpart at   *)
(* the base showed: whatever moves was wrong before (apply_edits).         *)
(***************************************************************************)
LeavesRight ==
  \A d \in Docs : Paired(d) => \A i \in DOMAIN docs[d] :
    ShowsWhatItDid(baseDocs[d][i], docs[d][i]) => docs'[d][i] = docs[d][i]
RightIsLeftAlone == [][LeavesRight]_CitVars

(***************************************************************************)
(* What the script says of itself at lines 3318-3326: that --fix saying 0  *)
(* means the very next --check is green.                                   *)
(***************************************************************************)
FixedIsGreen == phase = "idle" /\ repaired => \A d \in Docs : NothingDrifted(d)
=============================================================================
