----------------------------- MODULE WarningGate -----------------------------
(***************************************************************************)
(* The two warning gates, scripts/check-gcc-warnings.py and                *)
(* check-clang-warnings.py, between pushes: warnings come and go, lines    *)
(* and spellings of paths move, the compiler is bumped, the baseline is    *)
(* regenerated, deleted or damaged by hand.  A gate resolves each printed  *)
(* path, counts the distinct first-party sites of each (file, flag), and   *)
(* compares with a baseline that describes one compiler.                   *)
(*                                                                         *)
(* A path is its components; the log is a set of lines, as the gates       *)
(* dedupe; a push compiles everything, a local rewrite perhaps only part.  *)
(***************************************************************************)
EXTENDS Integers, Sequences, FiniteSets, SequencesExt

CONSTANTS
  Gates,        \* {"gcc", "clang"}
  Sites,        \* possible warnings: [file, flag, line]
  Spellings,    \* file -> the ways a compile prints it: <<absolute?, components>>
  Root, Build,  \* components of the checkout and of the directory the compiler ran in
  GatedFlags,   \* what check-gcc-warnings.py counts
  Emits,        \* compiler major -> the sites it can see
  MaxChanges

Majors == DOMAIN Emits
Absent == [major |-> "none", counts |-> <<>>]

VARIABLES gate, sites, styles, major, baseline, damaged, accepted, verdict, calm, changes
warnVars == <<gate, sites, styles, major, baseline, damaged, accepted, verdict, calm, changes>>

\* Path.resolve, os.path.realpath: ".." takes its parent away.
resolve(s) ==
  LET Up(p, c) == IF c = ".." THEN IF p = <<>> THEN p ELSE Front(p) ELSE Append(p, c)
  IN  FoldLeft(Up, <<>>, IF s[1] THEN s[2] ELSE Build \o s[2])

FirstPartyDirs == {"src", "tests"}
AllFiles == {w.file : w \in Sites}

\* Each file has an absolute and a relative spelling, and all of them lead to it; nothing
\* vendored lies below the first-party directories.
ASSUME WarningAssumption ==
  /\ IsFiniteSet(Sites) /\ \A w \in Sites : w = [file |-> w.file, flag |-> w.flag, line |-> w.line]
  /\ \A m \in Majors : Emits[m] \subseteq Sites
  /\ "none" \notin Majors
  /\ Root \in Seq(STRING) /\ AllFiles \subseteq Seq(STRING) \ {<<>>}
  /\ \A f \in AllFiles :
       /\ f[1] \in FirstPartyDirs => "_deps" \notin ToSet(Root \o f)
       /\ {s[1] : s \in Spellings[f]} = BOOLEAN
       /\ \A s \in Spellings[f] : resolve(s) = Root \o f

\* The path below the checkout when it is first party, <<>> otherwise.
SpellingAsPrinted(s) == IF resolve(s)[Len(Root) + 1] \in FirstPartyDirs THEN s[2] ELSE <<>>
classify(s) ==
  LET real == resolve(s)
  IN  IF /\ IsStrictPrefix(Root, real)
         /\ "_deps" \notin ToSet(real)
         /\ real[Len(Root) + 1] \in FirstPartyDirs
      THEN SubSeq(real, Len(Root) + 1, Len(real)) ELSE <<>>

\* What a compile of these files prints.
Log(files) ==
  {[spelling |-> p[2], flag |-> p[1].flag, line |-> p[1].line] :
     p \in {q \in (sites \cap Emits[major]) \X UNION {Spellings[f] : f \in files} :
             q[1].file \in files /\ q[2] \in Spellings[q[1].file] /\ q[2][1] \in styles}}

Counted(l) == classify(l.spelling) # <<>> /\ (gate = "gcc" => l.flag \in GatedFlags)
Keys(log) == {<<classify(l.spelling), l.flag>> : l \in {k \in log : Counted(k)}}
scan(log) ==
  [key \in Keys(log) |->
     Cardinality({l.line : l \in {k \in log : Counted(k) /\ <<classify(k.spelling), k.flag>> = key}})]

At(counts, key) == IF key \in DOMAIN counts THEN counts[key] ELSE 0
Regressions(counts, b) == {key \in DOMAIN counts : counts[key] > At(b, key)}

\* The job: an unreadable baseline, one of no compiler or of another: 2; a regression: 1.
Push ==
  /\ verdict = "none"
  /\ verdict' = IF damaged \/ baseline.major # major THEN "2"
                ELSE IF Regressions(scan(Log(AllFiles)), baseline.counts) # {} THEN "1" ELSE "0"
  /\ calm' = (calm \/ verdict' = "0")
  /\ UNCHANGED <<gate, sites, styles, major, baseline, damaged, accepted, changes>>

Change ==
  /\ changes < MaxChanges
  /\ changes' = changes + 1
  /\ verdict' = "none"
  /\ UNCHANGED gate

Introduce ==
  /\ \E w \in Sites \ sites : sites' = sites \cup {w}
  /\ calm' = FALSE
  /\ UNCHANGED <<styles, major, baseline, damaged, accepted>>

Fix ==
  /\ \E w \in sites : sites' = sites \ {w}
  /\ UNCHANGED <<styles, major, baseline, damaged, accepted, calm>>

\* Lines move below an edit: the warning of a file that stood on one line stands on another.
Shift ==
  /\ \E w \in sites : \E v \in Sites \ sites :
       /\ v.file = w.file /\ v.flag = w.flag
       /\ \A m \in Majors : v \in Emits[m] <=> w \in Emits[m]
       /\ sites' = (sites \ {w}) \cup {v}
  /\ UNCHANGED <<styles, major, baseline, damaged, accepted, calm>>

\* Another generator prints other spellings, or both at once.
Respell ==
  /\ \E s \in {{TRUE}, {FALSE}, {TRUE, FALSE}} \ {styles} : styles' = s
  /\ UNCHANGED <<sites, major, baseline, damaged, accepted, calm>>

Bump ==
  /\ \E m \in Majors \ {major} : major' = m
  /\ calm' = FALSE
  /\ UNCHANGED <<sites, styles, baseline, damaged, accepted>>

\* --write-baseline, reviewed, over a log that holds these files; refused without a major.
write_baseline(files) ==
  /\ baseline' = [major |-> major, counts |-> scan(Log(files))]
  /\ accepted' = [major |-> major, sites |-> {w \in sites \cap Emits[major] : w.file \in files}]
  /\ damaged' = FALSE
  /\ calm' = FALSE
  /\ UNCHANGED <<sites, styles, major>>

\* A baseline deleted, one line of it made unreadable, its compiler line lost.
HandEdit ==
  /\ \/ baseline' = Absent /\ damaged' = FALSE
     \/ damaged' = TRUE /\ UNCHANGED baseline
     \/ baseline' = [baseline EXCEPT !.major = "none"] /\ UNCHANGED damaged
  /\ calm' = FALSE
  /\ UNCHANGED <<sites, styles, major, accepted>>

WarnInit ==
  /\ gate \in Gates
  /\ sites = {} /\ styles = {TRUE} /\ major \in Majors
  /\ baseline = Absent /\ damaged = FALSE
  /\ accepted = [major |-> "none", sites |-> {}]
  /\ verdict = "none" /\ calm = FALSE /\ changes = 0

WarnNext ==
  \/ Push
  \/ Change /\ (Introduce \/ Fix \/ Shift \/ Respell \/ Bump \/ HandEdit)
  \/ Change /\ \E files \in SUBSET AllFiles : write_baseline(files)
WarnSpec == WarnInit /\ [][WarnNext]_warnVars

-----------------------------------------------------------------------------
InScope(w) == w.file[1] \in FirstPartyDirs /\ (gate = "gcc" => w.flag \in GatedFlags)
OfKey(S, w) == {v \in S : v.file = w.file /\ v.flag = w.flag}

(***************************************************************************)
(* A green push has, of each first-party file and flag, no more warnings   *)
(* than a reviewer of a baseline for this very compiler accepted; and when *)
(* all that happened since a green push is that warnings were fixed, lines *)
(* moved or paths were spelled otherwise, the next push is green again. It *)
(* is a claim about counts, which is all a baseline keeps: a new warning   *)
(* can take the place of a fixed one of its file and flag until the        *)
(* baseline is rewritten.                                                  *)
(***************************************************************************)
RatchetHolds ==
  /\ verdict = "0" =>
       /\ accepted.major = major
       /\ \A w \in {v \in sites \cap Emits[major] : InScope(v)} :
            Cardinality(OfKey(sites \cap Emits[major], w)) <= Cardinality(OfKey(accepted.sites, w))
  /\ calm /\ verdict # "none" => verdict = "0"
=============================================================================
