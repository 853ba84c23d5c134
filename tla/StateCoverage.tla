---------------------------- MODULE StateCoverage ----------------------------
(***************************************************************************)
(* The coverage lint, scripts/check-state-coverage.py, over commits that   *)
(* change the engine's lists and the lint's own tables.  The lists decide  *)
(* what a parameter change does: sameParameters drops it, discreteDiffers  *)
(* makes it duck, copyContinuous adopts it at once, processingDiffers and  *)
(* measurementInputsDiffer re-arm the Level Match; AnamorphEngine::reset   *)
(* clears the modules.  Each is a set of terms here, as the lint reads     *)
(* them, and the property runs them on parameter snapshots.                *)
(*                                                                         *)
(* A restore from another field's saved value and a reset inside an `if`   *)
(* that is not on the scope look right to the lint; no commit here makes   *)
(* one.  The lint says the same of itself (it claims agreement with the    *)
(* declared answers and no more).                                          *)
(***************************************************************************)
EXTENDS Integers, Sequences, FiniteSets

CONSTANTS
  Fields,      \* of EngineParameters, "algorithm" among them
  NewField,    \* one of them, not in the struct at first
  Modules,     \* the engine's members, or to be, with their types: [name, type]
  Tree,        \* the commit the lint is known to pass
  MaxEdits,
  MaxForgotten \* bound: answers that a commit which adds a field leaves out

Guards == {"", "algorithm"}      \* "": unconditional
Forms == {"exact", "tol"}
Lists == {"discreteDiffers", "processingDiffers"}
Branches == {"always", "then", "else"}
Scopes == {"both", "everything", "tails", "never"}
Calls == {"reset", "softReset", "resetLive"}

\* An engine and the lint's tables: the four lists as the functions have them, the fifth, the
\* reset body, and what was declared.
EngineTree ==
  [ fields : SUBSET Fields, same : SUBSET [left : Fields, right : Fields],
    saved : SUBSET Fields, restored : SUBSET Fields, predict : SUBSET Fields,
    select : [Lists -> SUBSET [field : Fields, guard : Guards]],
    measured : SUBSET [field : Fields, form : Forms, guard : Guards],
    discrete : SUBSET Fields, excluded : [Lists -> SUBSET Fields], divergent : SUBSET Fields,
    inputs : SUBSET [field : Fields, form : Forms, guard : Guards], notInputs : SUBSET Fields,
    members : SUBSET Modules,
    reset : SUBSET [member : {m.name : m \in Modules}, place : Branches, call : Calls],
    scopes : SUBSET [member : {m.name : m \in Modules}, scope : Scopes] ]

VARIABLES tree, merged, edits
covVars == <<tree, merged, edits>>

-----------------------------------------------------------------------------
\* What the lint finds.
Compared(t, list) == {x.field : x \in t.select[list]}
GuardsOf(t, list, f) == {x.guard : x \in {y \in t.select[list] : y.field = f}}

\* The four lists against the struct and the DISCRETE table.
SameProblems(t) == {f \in t.fields : [left |-> f, right |-> f] \notin t.same}
Preserved(t) == t.saved \cap t.restored
CopyProblems(t) ==
  ((t.saved \cup t.restored) \ Preserved(t)) \cup (t.discrete \ Preserved(t))
  \cup (Preserved(t) \ t.discrete)
SelectionProblems(t, list) ==
  LET named == Compared(t, list)  excluded == t.excluded[list]
  IN  (named \ t.discrete) \cup (t.discrete \ (named \cup excluded))
      \cup (excluded \cap named) \cup (excluded \ t.discrete)
\* Mutant: the two selection lists need not agree on when a term counts.
NoParity(t) == t.divergent \ t.fields
GuardProblems(t) ==
  {f \in Compared(t, "discreteDiffers") \cap Compared(t, "processingDiffers") :
     GuardsOf(t, "discreteDiffers", f) # GuardsOf(t, "processingDiffers", f) /\ f \notin t.divergent}
  \cup (t.divergent \ t.fields)
check_engine_params(t) ==
  (t.discrete \ t.fields) \cup SameProblems(t) \cup CopyProblems(t)
  \cup (UNION {SelectionProblems(t, l) : l \in Lists}) \cup GuardProblems(t)

\* The fifth list: total over the struct, each term in its declared form under its declared guard.
Inputs(t) == {x.field : x \in t.inputs}
TermProblem(t, i) ==
  \/ \E x \in t.measured : x.field = i.field /\ x.form # i.form
  \/ ~ \E x \in t.measured : x.field = i.field
  \/ \E x \in t.measured : x.field = i.field /\ x.guard # i.guard
check_measurement_inputs(t) ==
  (t.fields \ (Inputs(t) \cup t.notInputs)) \cup (Inputs(t) \cap t.notInputs)
  \cup ((Inputs(t) \cup t.notInputs) \ t.fields)
  \cup {i.field : i \in {j \in t.inputs : TermProblem(t, j)}}
  \cup {f \in t.notInputs : \E x \in t.measured : x.field = f}
  \cup {f \in t.predict : [field |-> f, form |-> "exact", guard |-> ""] \notin t.inputs}
  \cup {f \in t.fields \cap Compared(t, "processingDiffers") : f \notin Inputs(t)}

\* The members a reset can reach: by their own type, or by a type declared resettable; a
\* type nobody declared is a problem.
reset_subject(t) == {m.name : m \in {x \in t.members : x.type \in {"own reset", "declared resettable"}}}
Unclassified(t) == {m.name : m \in {x \in t.members : x.type = "undeclared"}}

\* The reset body cut by scope.  Only reset() and softReset() count: a partial reset is none.
FullReset(s) == s.call \in {"reset", "softReset"}
split_by_reset_scope(t, place) == {s.member : s \in {x \in t.reset : x.place = place /\ FullReset(x)}}
ScopeOf(t, m) ==
  LET always == m \in split_by_reset_scope(t, "always")
      ever == always \/ m \in split_by_reset_scope(t, "then")
      tails == always \/ m \in split_by_reset_scope(t, "else")
  IN  IF ever /\ tails THEN "both" ELSE IF ever THEN "everything"
      ELSE IF tails THEN "tails" ELSE "never"
check_engine_reset(t) ==
  Unclassified(t)
  \cup {m \in reset_subject(t) : [member |-> m, scope |-> ScopeOf(t, m)] \notin t.scopes}
  \cup ({r.member : r \in t.scopes} \ reset_subject(t))

lint_tree(t) == check_engine_params(t) \cup check_measurement_inputs(t) \cup check_engine_reset(t)

\* The functions compile: they read fields of the struct; the scopes are a dictionary.
Compiles(t) ==
  /\ "algorithm" \in t.fields
  /\ \A x \in t.same : x.left \in t.fields
  /\ \A l \in Lists : Compared(t, l) \subseteq t.fields
  /\ \A x \in t.measured : x.field \in t.fields
  /\ \A r, q \in t.scopes : r.member = q.member => r = q

ASSUME CoverageAssumption ==
  /\ NewField \in Fields /\ MaxEdits \in Nat /\ MaxForgotten \in Nat
  /\ Tree \in EngineTree /\ Compiles(Tree) /\ lint_tree(Tree) = {}

-----------------------------------------------------------------------------
\* Commits.  A field of the struct, with any of the answers it needs.
Toggled(S, x) == IF x \in S THEN S \ {x} ELSE S \cup {x}

Answers == {"same", "save", "restore", "discrete", "select", "input", "measured"}
AddField(answers) ==
  LET In(a, S, x) == IF a \in answers THEN S \cup {x} ELSE S
  IN  /\ NewField \notin tree.fields
      /\ tree' = [tree EXCEPT
           !.fields = @ \cup {NewField},
           !.same = In("same", @, [left |-> NewField, right |-> NewField]),
           !.saved = In("save", @, NewField), !.restored = In("restore", @, NewField),
           !.discrete = In("discrete", @, NewField),
           !.select = [l \in Lists |-> In("select", @[l], [field |-> NewField, guard |-> ""])],
           !.inputs = In("input", @, [field |-> NewField, form |-> "exact", guard |-> ""]),
           !.measured = In("measured", @, [field |-> NewField, form |-> "exact", guard |-> ""])]

EditComparison(f) ==
  \/ \E g \in {f, NewField} : tree' = [tree EXCEPT !.same = Toggled(@, [left |-> f, right |-> g])]
  \/ tree' = [tree EXCEPT !.saved = Toggled(@, f)]
  \/ tree' = [tree EXCEPT !.restored = Toggled(@, f)]
  \/ \E l \in Lists, g \in Guards :
       tree' = [tree EXCEPT !.select[l] = Toggled(@, [field |-> f, guard |-> g])]
  \/ \E o \in Forms, g \in Guards :
       tree' = [tree EXCEPT !.measured = Toggled(@, [field |-> f, form |-> o, guard |-> g])]

EditTables(f) ==
  \/ tree' = [tree EXCEPT !.discrete = Toggled(@, f)]
  \/ \E l \in Lists : tree' = [tree EXCEPT !.excluded[l] = Toggled(@, f)]
  \/ tree' = [tree EXCEPT !.divergent = Toggled(@, f)]
  \/ tree' = [tree EXCEPT !.notInputs = Toggled(@, f)]
  \/ \E o \in Forms, g \in Guards :
       tree' = [tree EXCEPT !.inputs = Toggled(@, [field |-> f, form |-> o, guard |-> g])]

EditReset(m) ==
  \/ tree' = [tree EXCEPT !.members = @ \cup {m}]
  \/ \E p \in Branches, c \in Calls :
       tree' = [tree EXCEPT !.reset = Toggled(@, [member |-> m.name, place |-> p, call |-> c])]
  \/ \E s \in Scopes :
       tree' = [tree EXCEPT !.scopes = {r \in @ : r.member # m.name} \cup {[member |-> m.name, scope |-> s]}]

Edit ==
  /\ edits < MaxEdits
  /\ edits' = edits + 1
  /\ UNCHANGED merged
  /\ \/ \E forgotten \in {f \in SUBSET Answers : Cardinality(f) <= MaxForgotten} :
          AddField(Answers \ forgotten)
     \/ \E f \in tree.fields : EditComparison(f)
     \/ \E f \in Fields : EditTables(f)
     \/ \E m \in Modules : EditReset(m)

\* A commit lands when the lint has nothing to say of it.
Merge ==
  /\ tree # merged
  /\ lint_tree(tree) = {}
  /\ merged' = tree
  /\ UNCHANGED <<tree, edits>>

CovInit == tree = Tree /\ merged = Tree /\ edits = 0
CovNext == Edit \/ Merge
CovSpec == CovInit /\ [][CovNext]_covVars

-----------------------------------------------------------------------------
\* The lists as the engine runs them, on two snapshots that differ in f alone.
Changes(t) == {c \in [field : t.fields, algorithm : 0..1, from : 0..1, to : 1..2] : c.from < c.to}
Before(t, c) ==
  [f \in t.fields |-> IF f = c.field THEN c.from ELSE IF f = "algorithm" THEN c.algorithm ELSE 0]
After(t, c) == [Before(t, c) EXCEPT ![c.field] = c.to]

Holds(g, a, b) == g = "algorithm" => a["algorithm"] = 1 \/ b["algorithm"] = 1
sameParameters(t, a, b) == \A x \in t.same : x.right \in t.fields => a[x.left] = b[x.right]
Differs(terms, a, b) == \E x \in terms : a[x.field] # b[x.field] /\ Holds(x.guard, a, b)
copyContinuous(t, dst, src) == [f \in t.fields |-> IF f \in Preserved(t) THEN dst[f] ELSE src[f]]
Near(form, u, v) == IF form = "exact" THEN u = v ELSE u - v \in -1..1
measurementInputsDiffer(t, a, b) ==
  \E x \in t.measured : ~Near(x.form, a[x.field], b[x.field]) /\ Holds(x.guard, a, b)
Heard(t, a, b) ==
  IF Differs(t.select["discreteDiffers"], a, b) THEN b ELSE copyContinuous(t, a, b)
Cleared(t, places) == {s.member : s \in {x \in t.reset : x.place \in places /\ x.call # "resetLive"}}

Relevant(t, f, a, b) == \A x \in t.select["discreteDiffers"] : x.field = f => Holds(x.guard, a, b)

(***************************************************************************)
(* Whatever the lint lets through: no edit of a parameter is ignored, and  *)
(* it reaches the engine unless a written reason excludes it or it is      *)
(* irrelevant; both selection lists answer a change alike unless told      *)
(* apart in writing; a change of what the Level-Match prediction reads is  *)
(* always noticed; and a host reset and a re-prepare clear just the        *)
(* modules that were declared for them.                                    *)
(***************************************************************************)
ChangeIsAnswered(t, c) ==
  LET a == Before(t, c)  b == After(t, c)  f == c.field
      reasoned(l) == f \in t.excluded[l]
  IN  /\ ~sameParameters(t, a, b)
      /\ Heard(t, a, b) = b \/ reasoned("discreteDiffers") \/ ~Relevant(t, f, a, b)
      /\ \/ Differs(t.select["discreteDiffers"], a, b) = Differs(t.select["processingDiffers"], a, b)
         \/ f \in t.divergent \/ \E l \in Lists : reasoned(l)
      /\ f \in t.predict => measurementInputsDiffer(t, a, b)
      /\ measurementInputsDiffer(t, a, b) => f \notin t.notInputs
Declared(t, scopes) == {r.member : r \in {x \in t.scopes : x.scope \in scopes}}
MergedIsAnswered ==
  /\ \A c \in Changes(merged) : ChangeIsAnswered(merged, c)
  /\ Declared(merged, {"both", "tails"}) = Cleared(merged, {"always", "else"}) \cap reset_subject(merged)
  /\ Declared(merged, {"both", "everything"}) = Cleared(merged, {"always", "then"}) \cap reset_subject(merged)
  /\ \A m \in merged.members : m.type \in {"own reset", "declared resettable"} =>
       \E r \in merged.scopes : r.member = m.name
=============================================================================
