------------------------------ MODULE GatesProofs -----------------------------
(***************************************************************************)
(* Proofs about the gates.  Those whose verdict stands on what earlier     *)
(* pushes, builds, checks and commits left behind: the warning ratchet,    *)
(* for any sites, compilers and number of changes; the icon check, for any *)
(* icons and number of changes between checks; the coverage lint, for any  *)
(* engine and any commits it passes.                                       *)
(* And the gates over what a build left, for any dumps, binaries, floors   *)
(* and packaging scripts.                                                  *)
(***************************************************************************)
EXTENDS WarningGate, IconGate, StateCoverage, ArtifactGates,
        FiniteSetTheorems, SequenceTheorems, WellFoundedInduction, TLAPS

-----------------------------------------------------------------------------
(* The warning gates: what a scan counts. *)

\* What the compiler sees of the warnings there are.
Seen == sites \cap Emits[major]
Key(w) == <<w.file, w.flag>>

LEMMA ClassifyIs ==
  ASSUME NEW w \in Sites, NEW s \in Spellings[w.file]
  PROVE  classify(s) = IF w.file[1] \in FirstPartyDirs THEN w.file ELSE <<>>
<1> DEFINE f == w.file
<1>1. /\ f \in AllFiles /\ f \in Seq(STRING) /\ f # <<>> /\ Root \in Seq(STRING)
      /\ resolve(s) = Root \o f
      /\ f[1] \in FirstPartyDirs => "_deps" \notin ToSet(Root \o f)
  BY WarningAssumption DEF AllFiles
<1>2. PICK n \in Nat, k \in Nat : n = Len(Root) /\ k = Len(f) /\ k > 0
  BY <1>1
<1> HIDE DEF f
<1>3. Len(Root \o f) = n + k /\ Root \o f \in Seq(STRING)
  BY <1>1, <1>2, ConcatProperties
<1>4. (Root \o f)[n + 1] = f[1]
  BY <1>1, <1>2, ConcatProperties
<1>5. SubSeq(Root \o f, n + 1, n + k) = f
  <2>1. SubSeq(Root \o f, n + 1, n + k) = SubSeq(f, (n + 1) - n, (n + k) - n)
    BY <1>1, <1>2, SubSeqOfConcat2
  <2>2. (n + 1) - n = 1 /\ (n + k) - n = k
    OBVIOUS
  <2>3. SubSeq(f, 1, k) = f
    BY <1>1, <1>2, SubSeqFull
  <2> QED
    BY <2>1, <2>2, <2>3
<1>6. IsStrictPrefix(Root, Root \o f)
  <2>1. SubSeq(Root \o f, 1, n) = SubSeq(Root, 1, n)
    BY <1>1, <1>2, SubSeqOfConcat1
  <2>2. Root # Root \o f
    BY <1>2, <1>3
  <2> QED
    BY <1>2, <1>3, <2>1, <2>2 DEF IsStrictPrefix, IsPrefix
<1>7. classify(s) = IF /\ IsStrictPrefix(Root, Root \o f)
                       /\ "_deps" \notin ToSet(Root \o f)
                       /\ (Root \o f)[n + 1] \in FirstPartyDirs
                    THEN SubSeq(Root \o f, n + 1, n + k) ELSE <<>>
  BY <1>1, <1>2, <1>3 DEF classify
<1> QED
  BY <1>1, <1>4, <1>5, <1>6, <1>7 DEF f

\* What was typed so far.
WarnTyped ==
  /\ sites \subseteq Sites /\ major \in Majors
  /\ styles \in {{TRUE}, {FALSE}, {TRUE, FALSE}}
  /\ calm \in BOOLEAN /\ damaged \in BOOLEAN

LEMMA OfKeyCounts ==
  ASSUME NEW S, S \subseteq Sites, NEW w
  PROVE  /\ IsFiniteSet(OfKey(S, w)) /\ Cardinality(OfKey(S, w)) \in Nat
         /\ OfKey(S, w) = {} => Cardinality(OfKey(S, w)) = 0
         /\ Cardinality({v.line : v \in OfKey(S, w)}) = Cardinality(OfKey(S, w))
<1> DEFINE T == OfKey(S, w)
           L == {v.line : v \in T}
           g == [v \in T |-> v.line]
<1>1. T \subseteq Sites /\ IsFiniteSet(Sites)
  BY WarningAssumption DEF OfKey
<1>2. IsFiniteSet(T)
  BY <1>1, FS_Subset
<1>3. g \in Bijection(T, L)
  <2>1. ASSUME NEW u \in T, NEW v \in T, u.line = v.line PROVE u = v
    <3>1. u.file = v.file /\ u.flag = v.flag
      BY DEF OfKey
    <3>2. u = [file |-> u.file, flag |-> u.flag, line |-> u.line]
      BY <1>1, WarningAssumption
    <3>3. v = [file |-> v.file, flag |-> v.flag, line |-> v.line]
      BY <1>1, WarningAssumption
    <3> QED
      BY <2>1, <3>1, <3>2, <3>3
  <2> HIDE DEF T
  <2>2. g \in Surjection(T, L)
    BY DEF Surjection
  <2>3. g \in Injection(T, L)
    BY <2>1 DEF Injection, IsInjective
  <2> QED
    BY <2>2, <2>3 DEF Bijection
<1>4. Cardinality(L) = Cardinality(T)
  BY <1>2, <1>3, FS_Bijection DEF ExistsBijection
<1> QED
  BY <1>2, <1>4, FS_CardinalityType, FS_EmptySet

\* The gate counts, of each first-party key, the sites the compiler sees.
LEMMA ScanIs ==
  ASSUME WarnTyped, NEW fs, fs \subseteq AllFiles
  PROVE  /\ DOMAIN scan(Log(fs)) = {Key(w) : w \in {v \in Seen : v.file \in fs /\ InScope(v)}}
         /\ \A w \in Sites : w.file \in fs /\ InScope(w) /\ Key(w) \in DOMAIN scan(Log(fs)) =>
              scan(Log(fs))[Key(w)] = Cardinality(OfKey(Seen, w))
<1> DEFINE log == Log(fs)
<1>1. Seen \subseteq Sites
  BY DEF WarnTyped, Seen
\* A line of the log is a site the compiler sees, spelled somehow.
<1>2. ASSUME NEW l \in log
      PROVE  \E w \in Seen : /\ w.file \in fs /\ l.flag = w.flag /\ l.line = w.line
                             /\ l.spelling \in Spellings[w.file]
  BY <1>2 DEF Log, Seen
<1>3. ASSUME NEW w \in Seen, w.file \in fs
      PROVE  \E l \in log : /\ l.flag = w.flag /\ l.line = w.line /\ l.spelling \in Spellings[w.file]
  <2>1. w.file \in AllFiles
    BY <1>3
  <2>2. \E b \in BOOLEAN : b \in styles
    BY DEF WarnTyped
  <2>3. PICK s \in Spellings[w.file] : s[1] \in styles
    <3>1. {s[1] : s \in Spellings[w.file]} = BOOLEAN
      BY <2>1, WarningAssumption
    <3> QED
      BY <2>2, <3>1
  <2> DEFINE q == <<w, s>>
  <2>4. [spelling |-> s, flag |-> w.flag, line |-> w.line] \in log
    <3>1. q[1] = w /\ q[2] = s
      OBVIOUS
    <3>2. s \in UNION {Spellings[f] : f \in fs}
      BY <1>3
    <3>3. q \in Seen \X UNION {Spellings[f] : f \in fs}
      BY <3>2
    <3> HIDE DEF q
    <3> QED
      BY <1>3, <2>3, <3>1, <3>3 DEF Log, Seen
  <2> QED
    BY <2>3, <2>4
\* Counted and filed by what it is.
<1>4. ASSUME NEW w \in Seen, NEW l, l.flag = w.flag, l.spelling \in Spellings[w.file]
      PROVE  /\ Counted(l) <=> InScope(w)
             /\ Counted(l) => <<classify(l.spelling), l.flag>> = Key(w)
  <2>1. classify(l.spelling) = IF w.file[1] \in FirstPartyDirs THEN w.file ELSE <<>>
    BY <1>1, <1>4, ClassifyIs
  <2>2. w.file # <<>>
    BY <1>1, WarningAssumption DEF AllFiles
  <2> QED
    BY <1>4, <2>1, <2>2 DEF Counted, InScope, Key
<1> HIDE DEF log
<1>5. Keys(log) = {Key(w) : w \in {v \in Seen : v.file \in fs /\ InScope(v)}}
  <2>1. ASSUME NEW key \in Keys(log)
        PROVE  \E w \in Seen : w.file \in fs /\ InScope(w) /\ key = Key(w)
    <3>1. PICK l \in log : Counted(l) /\ key = <<classify(l.spelling), l.flag>>
      BY DEF Keys
    <3>2. PICK w \in Seen : /\ w.file \in fs /\ l.flag = w.flag
                            /\ l.spelling \in Spellings[w.file]
      BY <1>2
    <3> QED
      BY <1>4, <3>1, <3>2
  <2>2. ASSUME NEW w \in Seen, w.file \in fs, InScope(w) PROVE Key(w) \in Keys(log)
    <3>1. PICK l \in log : l.flag = w.flag /\ l.spelling \in Spellings[w.file]
      BY <1>3, <2>2
    <3>2. Counted(l) /\ <<classify(l.spelling), l.flag>> = Key(w)
      BY <1>4, <2>2, <3>1
    <3> QED
      BY <3>1, <3>2 DEF Keys
  <2> QED
    BY <2>1, <2>2
<1>6. ASSUME NEW w \in Sites, w.file \in fs, InScope(w), Key(w) \in Keys(log)
      PROVE  scan(log)[Key(w)] = Cardinality(OfKey(Seen, w))
  <2> DEFINE lines == {l.line : l \in {k \in log : Counted(k) /\ <<classify(k.spelling), k.flag>> = Key(w)}}
  <2>1. scan(log)[Key(w)] = Cardinality(lines)
    BY <1>6 DEF scan
  <2>2. lines = {v.line : v \in OfKey(Seen, w)}
    <3>1. ASSUME NEW l \in log, Counted(l), <<classify(l.spelling), l.flag>> = Key(w)
          PROVE  \E v \in OfKey(Seen, w) : v.line = l.line
      <4>1. PICK v \in Seen : /\ v.file \in fs /\ l.flag = v.flag /\ l.line = v.line
                              /\ l.spelling \in Spellings[v.file]
        BY <1>2
      <4>2. Key(v) = Key(w)
        BY <1>4, <3>1, <4>1
      <4> QED
        BY <4>1, <4>2 DEF OfKey, Key
    <3>2. ASSUME NEW v \in OfKey(Seen, w)
          PROVE  \E l \in log : Counted(l) /\ <<classify(l.spelling), l.flag>> = Key(w) /\ l.line = v.line
      <4>1. v \in Seen /\ v.file = w.file /\ v.flag = w.flag
        BY DEF OfKey
      <4>2. InScope(v) /\ Key(v) = Key(w)
        BY <1>6, <4>1 DEF InScope, Key
      <4>3. PICK l \in log : l.flag = v.flag /\ l.line = v.line /\ l.spelling \in Spellings[v.file]
        BY <1>3, <1>6, <4>1
      <4> QED
        BY <1>4, <4>1, <4>2, <4>3
    <3> QED
      BY <3>1, <3>2
  <2>3. Cardinality({v.line : v \in OfKey(Seen, w)}) = Cardinality(OfKey(Seen, w))
    BY <1>1, OfKeyCounts
  <2> QED
    BY <2>1, <2>2, <2>3
<1> QED
  BY <1>5, <1>6 DEF scan, log

-----------------------------------------------------------------------------
(* The warning gates: the inductive invariant. *)

\* Of each file and flag, no more than the baseline allows.
Fine == \A w \in Seen : InScope(w) => Cardinality(OfKey(Seen, w)) <= At(baseline.counts, Key(w))

\* A baseline of a compiler counts what was accepted for that compiler.
Describes ==
  /\ accepted.major = baseline.major
  /\ accepted.sites \subseteq Sites
  /\ \A w \in Sites : InScope(w) =>
       At(baseline.counts, Key(w)) = Cardinality(OfKey(accepted.sites, w))

Green == ~damaged /\ baseline.major = major /\ Fine

WarnInv ==
  /\ WarnTyped
  /\ baseline = [major |-> baseline.major, counts |-> baseline.counts]
  /\ baseline.major \in Majors \cup {"none"}
  /\ baseline.major # "none" => Describes
  /\ calm \/ verdict = "0" => Green
  /\ calm /\ verdict # "none" => verdict = "0"

\* Nothing regresses just when what is seen is within the baseline.
LEMMA RegressionsAre ==
  ASSUME WarnInv, baseline.major # "none"
  PROVE  Regressions(scan(Log(AllFiles)), baseline.counts) = {} <=> Fine
<1> DEFINE counts == scan(Log(AllFiles))
<1>1. WarnTyped /\ Seen \subseteq Sites
  BY DEF WarnInv, WarnTyped, Seen
<1>2. /\ DOMAIN counts = {Key(w) : w \in {v \in Seen : v.file \in AllFiles /\ InScope(v)}}
      /\ \A w \in Sites : w.file \in AllFiles /\ InScope(w) /\ Key(w) \in DOMAIN counts =>
           counts[Key(w)] = Cardinality(OfKey(Seen, w))
  BY <1>1, ScanIs
<1>3. \A w \in Sites : w.file \in AllFiles
  BY DEF AllFiles
<1> HIDE DEF counts
<1>4. \A w \in Sites : InScope(w) => At(baseline.counts, Key(w)) \in Nat
  BY OfKeyCounts DEF WarnInv, Describes
<1>5. \A w \in Seen : InScope(w) =>
        /\ Key(w) \in DOMAIN counts
        /\ counts[Key(w)] = Cardinality(OfKey(Seen, w))
        /\ counts[Key(w)] \in Nat /\ At(baseline.counts, Key(w)) \in Nat
  BY <1>1, <1>2, <1>3, <1>4, OfKeyCounts
<1>6. ASSUME Fine, NEW key \in DOMAIN counts PROVE ~(counts[key] > At(baseline.counts, key))
  <2>1. PICK w \in Seen : InScope(w) /\ key = Key(w)
    BY <1>2, <1>6
  <2> QED
    BY <1>5, <1>6, <2>1 DEF Fine
<1>7. ASSUME Regressions(counts, baseline.counts) = {} PROVE Fine
  <2>1. SUFFICES ASSUME NEW w \in Seen, InScope(w)
                 PROVE  Cardinality(OfKey(Seen, w)) <= At(baseline.counts, Key(w))
    BY DEF Fine
  <2>2. ~(counts[Key(w)] > At(baseline.counts, Key(w)))
    BY <1>5, <1>7, <2>1 DEF Regressions
  <2> QED
    BY <1>5, <2>1, <2>2
<1> QED
  BY <1>6, <1>7 DEF counts, Regressions

LEMMA PushKeeps ==
  ASSUME WarnInv, Push
  PROVE  WarnInv'
<1>1. /\ UNCHANGED <<gate, sites, styles, major, baseline, damaged, accepted, changes>>
      /\ verdict' = IF damaged \/ baseline.major # major THEN "2"
                    ELSE IF Regressions(scan(Log(AllFiles)), baseline.counts) # {} THEN "1" ELSE "0"
      /\ calm' = (calm \/ verdict' = "0")
  BY DEF Push
<1>2. verdict' = "0" <=> Green
  <2>1. major # "none"
    BY WarningAssumption DEF WarnInv, WarnTyped
  <2>2. ~damaged /\ baseline.major = major =>
          (Regressions(scan(Log(AllFiles)), baseline.counts) = {} <=> Fine)
    BY <2>1, RegressionsAre
  <2> QED
    BY <1>1, <2>2 DEF Green
<1>3. Green' <=> Green
  BY <1>1 DEF Green, Fine, Seen, InScope
<1>4. Describes' <=> Describes
  BY <1>1 DEF Describes, InScope
<1>5. WarnTyped'
  BY <1>1 DEF WarnInv, WarnTyped
<1> QED
  BY <1>1, <1>2, <1>3, <1>4, <1>5 DEF WarnInv

\* A step that leaves the baseline alone may leave it calm only if no key grew.
LEMMA TreeKeeps ==
  ASSUME WarnInv, Change, UNCHANGED <<baseline, damaged, accepted>>, WarnTyped',
         calm' => calm /\ major' = major /\ (Fine => Fine')
  PROVE  WarnInv'
<1>1. verdict' = "none" /\ gate' = gate
  BY DEF Change
<1>2. Describes' <=> Describes
  BY <1>1 DEF Describes, InScope
<1>3. calm' => Green'
  BY DEF WarnInv, Green
<1> QED
  BY <1>1, <1>2, <1>3 DEF WarnInv

LEMMA LooseKeeps ==
  ASSUME WarnInv, Change, Introduce \/ Respell \/ Bump
  PROVE  WarnInv'
<1>1. CASE Introduce
  <2>1. WarnTyped' /\ ~calm'
    BY <1>1 DEF Introduce, WarnInv, WarnTyped
  <2> QED
    BY <1>1, <2>1, TreeKeeps DEF Introduce
<1>2. CASE Bump
  <2>1. WarnTyped' /\ ~calm'
    BY <1>2 DEF Bump, WarnInv, WarnTyped
  <2> QED
    BY <1>2, <2>1, TreeKeeps DEF Bump
<1>3. CASE Respell
  <2>1. WarnTyped' /\ UNCHANGED <<sites, major, baseline, damaged, accepted, calm, gate>>
    BY <1>3 DEF Respell, WarnInv, WarnTyped, Change
  <2>2. Fine => Fine'
    BY <2>1 DEF Fine, Seen, InScope
  <2> QED
    BY <2>1, <2>2, TreeKeeps
<1> QED
  BY <1>1, <1>2, <1>3

\* Fewer are fixed, and a moved one is still one of its file and flag.
LEMMA FixKeeps ==
  ASSUME WarnInv, Change, Fix
  PROVE  WarnInv'
<1>1. PICK w \in sites : sites' = sites \ {w}
  BY DEF Fix
<1>2. UNCHANGED <<styles, major, baseline, damaged, accepted, calm, gate>>
  BY DEF Fix, Change
<1>3. WarnTyped' /\ Seen \subseteq Sites
  BY <1>1, <1>2 DEF WarnInv, WarnTyped, Seen
<1>4. ASSUME Fine, calm PROVE Fine'
  <2>1. SUFFICES ASSUME NEW v \in Seen', InScope(v)
                 PROVE  Cardinality(OfKey(Seen', v)) <= At(baseline.counts, Key(v))
    BY <1>2 DEF Fine, InScope, OfKey, Key
  <2>2. v \in Seen /\ OfKey(Seen', v) \subseteq OfKey(Seen, v)
    BY <1>1, <1>2, <2>1 DEF Seen, OfKey
  <2>3. /\ Cardinality(OfKey(Seen, v)) \in Nat /\ Cardinality(OfKey(Seen', v)) \in Nat
        /\ Cardinality(OfKey(Seen', v)) <= Cardinality(OfKey(Seen, v))
    BY <1>3, <2>2, OfKeyCounts, FS_Subset, FS_CardinalityType
  <2>4. Cardinality(OfKey(Seen, v)) <= At(baseline.counts, Key(v))
    BY <1>4, <2>1, <2>2 DEF Fine
  <2>5. At(baseline.counts, Key(v)) \in Nat
    <3>1. Green /\ baseline.major # "none"
      BY <1>4, WarningAssumption DEF WarnInv, Green, WarnTyped
    <3>2. v \in Sites
      BY <1>3, <2>2
    <3> QED
      BY <2>1, <3>1, <3>2, OfKeyCounts DEF WarnInv, Describes
  <2> QED
    BY <2>3, <2>4, <2>5
<1>5. calm' => Fine
  BY <1>2 DEF WarnInv, Green
<1> QED
  BY <1>2, <1>3, <1>4, TreeKeeps

LEMMA ShiftKeeps ==
  ASSUME WarnInv, Change, Shift
  PROVE  WarnInv'
<1>1. PICK w \in sites, v \in Sites \ sites :
        /\ v.file = w.file /\ v.flag = w.flag
        /\ \A m \in Majors : v \in Emits[m] <=> w \in Emits[m]
        /\ sites' = (sites \ {w}) \cup {v}
  BY DEF Shift
<1>2. UNCHANGED <<styles, major, baseline, damaged, accepted, calm, gate>>
  BY DEF Shift, Change
<1>3. WarnTyped' /\ Seen \subseteq Sites /\ major \in Majors
  BY <1>1, <1>2 DEF WarnInv, WarnTyped, Seen
<1>4. \/ Seen' = Seen
      \/ w \in Seen /\ v \notin Seen /\ Seen' = (Seen \ {w}) \cup {v}
  BY <1>1, <1>2, <1>3 DEF Seen
<1>5. ASSUME Fine PROVE Fine'
  <2>1. SUFFICES ASSUME NEW u \in Seen', InScope(u)
                 PROVE  Cardinality(OfKey(Seen', u)) <= At(baseline.counts, Key(u))
    BY <1>2 DEF Fine, InScope, OfKey, Key
  <2>2. CASE Seen' = Seen
    BY <1>5, <2>1, <2>2 DEF Fine
  <2>3. CASE w \in Seen /\ v \notin Seen /\ Seen' = (Seen \ {w}) \cup {v}
    <3>1. CASE Key(u) = Key(w)
      <4>1. u.file = w.file /\ u.flag = w.flag
        BY <3>1 DEF Key
      <4>2. /\ OfKey(Seen', u) = (OfKey(Seen, w) \ {w}) \cup {v}
            /\ w \in OfKey(Seen, w) /\ v \notin OfKey(Seen, w)
        BY <1>1, <2>3, <4>1 DEF OfKey
      <4>3. IsFiniteSet(OfKey(Seen, w)) /\ Cardinality(OfKey(Seen, w)) \in Nat
        BY <1>3, OfKeyCounts
      <4>4. Cardinality(OfKey(Seen', u)) = Cardinality(OfKey(Seen, w))
        <5> DEFINE T == OfKey(Seen, w)
        <5>1. IsFiniteSet(T \ {w}) /\ Cardinality(T \ {w}) = Cardinality(T) - 1
          BY <4>2, <4>3, FS_RemoveElement
        <5>2. Cardinality((T \ {w}) \cup {v}) = Cardinality(T \ {w}) + 1
          <6>1. v \notin T \ {w}
            BY <4>2
          <6> HIDE DEF T
          <6> QED
            BY <5>1, <6>1, FS_AddElement
        <5> HIDE DEF T
        <5>3. Cardinality((T \ {w}) \cup {v}) = Cardinality(T)
          <6>1. Cardinality(T) \in Nat
            BY <4>3 DEF T
          <6> QED
            BY <5>1, <5>2, <6>1
        <5> QED
          BY <4>2, <5>3 DEF T
      <4>5. InScope(w)
        BY <2>1, <4>1 DEF InScope
      <4> QED
        BY <1>5, <2>3, <3>1, <4>4, <4>5 DEF Fine
    <3>2. CASE Key(u) # Key(w)
      <4>1. u \in Seen /\ OfKey(Seen', u) = OfKey(Seen, u)
        BY <1>1, <2>1, <2>3, <3>2 DEF OfKey, Key
      <4> QED
        BY <1>5, <2>1, <4>1 DEF Fine
    <3> QED
      BY <3>1, <3>2
  <2> QED
    BY <1>4, <2>2, <2>3
<1> QED
  BY <1>2, <1>3, <1>5, TreeKeeps

LEMMA BaselineKeeps ==
  ASSUME WarnInv, Change, HandEdit \/ \E fs \in SUBSET AllFiles : write_baseline(fs)
  PROVE  WarnInv'
<1>1. verdict' = "none" /\ gate' = gate /\ calm' = FALSE /\ UNCHANGED <<sites, styles, major>>
  BY DEF Change, HandEdit, write_baseline
<1>2. CASE HandEdit
  <2>1. accepted' = accepted /\ damaged' \in BOOLEAN
    BY <1>2 DEF HandEdit, WarnInv, WarnTyped
  <2>2. WarnTyped'
    BY <1>1, <2>1 DEF WarnInv, WarnTyped
  <2>3. CASE baseline' = baseline
    <3>1. Describes' <=> Describes
      BY <1>1, <2>1, <2>3 DEF Describes, InScope
    <3> QED
      BY <1>1, <2>2, <2>3, <3>1 DEF WarnInv
  <2>4. CASE baseline' = Absent
    BY <1>1, <2>2, <2>4 DEF WarnInv, Absent
  <2>5. CASE baseline' = [baseline EXCEPT !.major = "none"]
    <3>1. PICK m, c : baseline = [major |-> m, counts |-> c]
      BY DEF WarnInv
    <3>2. baseline' = [major |-> "none", counts |-> c]
      BY <2>5, <3>1
    <3> QED
      BY <1>1, <2>2, <3>2 DEF WarnInv
  <2> QED
    BY <1>2, <2>3, <2>4, <2>5 DEF HandEdit
<1>3. ASSUME NEW fs \in SUBSET AllFiles, write_baseline(fs) PROVE WarnInv'
  <2>1. /\ baseline' = [major |-> major, counts |-> scan(Log(fs))]
        /\ accepted' = [major |-> major, sites |-> {w \in Seen : w.file \in fs}]
        /\ damaged' = FALSE
    BY <1>3 DEF write_baseline, Seen
  <2>2. WarnTyped /\ WarnTyped' /\ Seen \subseteq Sites
    BY <1>1, <2>1 DEF WarnInv, WarnTyped, Seen
  <2> DEFINE A == {w \in Seen : w.file \in fs}
             counts == scan(Log(fs))
  <2>3. ASSUME NEW w \in Sites, InScope(w) PROVE At(counts, Key(w)) = Cardinality(OfKey(A, w))
    <3>1. /\ DOMAIN counts = {Key(u) : u \in {v \in Seen : v.file \in fs /\ InScope(v)}}
          /\ w.file \in fs /\ Key(w) \in DOMAIN counts =>
               counts[Key(w)] = Cardinality(OfKey(Seen, w))
      BY <2>2, <2>3, ScanIs
    <3> HIDE DEF counts
    <3>2. CASE Key(w) \in DOMAIN counts
      <4>1. w.file \in fs
        BY <3>1, <3>2 DEF Key
      <4>2. OfKey(A, w) = OfKey(Seen, w)
        BY <4>1 DEF OfKey
      <4> QED
        BY <3>1, <3>2, <4>1, <4>2 DEF At
    <3>3. CASE Key(w) \notin DOMAIN counts
      <4>1. OfKey(A, w) = {}
        <5>1. ASSUME NEW v \in OfKey(A, w) PROVE FALSE
          <6>1. v \in Seen /\ v.file \in fs /\ v.file = w.file /\ v.flag = w.flag
            BY <5>1 DEF OfKey
          <6>2. InScope(v) /\ Key(v) = Key(w)
            BY <2>3, <6>1 DEF InScope, Key
          <6> QED
            BY <3>1, <3>3, <6>1, <6>2
        <5> QED
          BY <5>1
      <4>2. A \subseteq Sites
        BY <2>2
      <4> QED
        BY <3>3, <4>1, <4>2, OfKeyCounts DEF At
    <3> QED
      BY <3>2, <3>3
  <2> HIDE DEF A, counts
  <2>4. accepted'.sites = A /\ accepted'.major = major /\ baseline'.counts = counts
        /\ baseline'.major = major
        /\ baseline' = [major |-> baseline'.major, counts |-> baseline'.counts]
    BY <2>1 DEF A, counts
  <2>5. A \subseteq Sites
    BY <2>2 DEF A
  <2>6. Describes'
    BY <1>1, <2>3, <2>4, <2>5 DEF Describes, InScope, OfKey, At, Key
  <2> QED
    BY <1>1, <2>2, <2>4, <2>6 DEF WarnInv, WarnTyped
<1> QED
  BY <1>2, <1>3

(***************************************************************************)
(* For any sites, spellings that lead to their files, compilers and number *)
(* of changes: a baseline counts what was accepted for its compiler, and   *)
(* after a green push nothing exceeds it as long as all is calm.           *)
(***************************************************************************)
THEOREM WarningInvariant == WarnSpec => []WarnInv
<1>1. WarnInit => WarnInv
  <2>1. SUFFICES ASSUME WarnInit PROVE WarnInv
    OBVIOUS
  <2>2. baseline = [major |-> "none", counts |-> <<>>]
    BY <2>1 DEF WarnInit, Absent
  <2>3. WarnTyped
    BY <2>1 DEF WarnInit, WarnTyped
  <2>4. calm = FALSE /\ verdict = "none"
    BY <2>1 DEF WarnInit
  <2> QED
    BY <2>2, <2>3, <2>4 DEF WarnInv
<1>2. WarnInv /\ [WarnNext]_warnVars => WarnInv'
  <2>1. SUFFICES ASSUME WarnInv, [WarnNext]_warnVars PROVE WarnInv'
    OBVIOUS
  <2>2. CASE WarnNext
    BY <2>1, <2>2, PushKeeps, LooseKeeps, FixKeeps, ShiftKeeps, BaselineKeeps DEF WarnNext
  <2>3. CASE UNCHANGED warnVars
    <3>1. UNCHANGED <<gate, sites, styles, major, baseline, damaged, accepted, verdict, calm>>
      BY <2>3 DEF warnVars
    <3>2. (Describes' <=> Describes) /\ (Green' <=> Green) /\ (WarnTyped' <=> WarnTyped)
      BY <3>1 DEF Describes, Green, Fine, Seen, InScope, WarnTyped
    <3> QED
      BY <2>1, <3>1, <3>2 DEF WarnInv
  <2> QED
    BY <2>1, <2>2, <2>3
<1> QED
  BY <1>1, <1>2, PTL DEF WarnSpec

(***************************************************************************)
(* For the same: a green push has no more warnings of a first-party file   *)
(* and flag than were accepted for this very compiler, and nothing but a   *)
(* new warning, a new compiler or a new baseline makes it red.             *)
(***************************************************************************)
THEOREM RatchetAlwaysHolds == WarnSpec => []RatchetHolds
<1>1. WarnInv => RatchetHolds
  <2>1. SUFFICES ASSUME WarnInv PROVE RatchetHolds
    OBVIOUS
  <2>2. ASSUME verdict = "0"
        PROVE  /\ accepted.major = major
               /\ \A w \in {v \in sites \cap Emits[major] : InScope(v)} :
                    Cardinality(OfKey(sites \cap Emits[major], w)) <= Cardinality(OfKey(accepted.sites, w))
    <3>1. Green /\ baseline.major # "none" /\ Seen \subseteq Sites
      BY <2>1, <2>2, WarningAssumption DEF WarnInv, WarnTyped, Green, Seen
    <3>2. Describes
      BY <2>1, <3>1 DEF WarnInv
    <3> QED
      BY <3>1, <3>2 DEF Green, Fine, Describes, Seen
  <2> QED
    BY <2>1, <2>2 DEF RatchetHolds, WarnInv
<1> QED
  BY <1>1, WarningInvariant, PTL

-----------------------------------------------------------------------------
(* The icon check: a container it accepts has an image for whatever macOS draws. *)

LEMMA DrawnBy ==
  ASSUME NEW es, icns_images(es), NEW kind \in KindsOf(es) \cap DOMAIN PixelsOf,
         NEW points, NEW scale, PixelsOf[kind] = points * scale,
         kind \in Retina <=> scale = 2
  PROVE  DrawnAs(es, points, scale) # {}
<1>1. PICK n \in DOMAIN es : es[n].kind = kind
  BY DEF KindsOf
<1>2. \A m \in DOMAIN es : es[m].ok
  BY DEF icns_images
<1>3. ASSUME kind \in DOMAIN MaskOf
      PROVE  \E m \in DOMAIN es : es[m].ok /\ es[m].kind = MaskOf[kind]
  <2>1. MaskOf[kind] \in KindsOf(es)
    BY <1>3 DEF icns_images
  <2> QED
    BY <1>2, <2>1 DEF KindsOf
<1> QED
  BY <1>1, <1>2, <1>3 DEF DrawnAs

LEMMA AcceptedIsDrawable ==
  ASSUME NEW es, icns_images(es), icns_coverage(KindsOf(es))
  PROVE  Drawable(es)
<1> DEFINE has == KindsOf(es)
<1>1. /\ "ic04" \in has \/ "is32" \in has
      /\ "ic05" \in has \/ "il32" \in has
      /\ "ic07" \in has \/ "it32" \in has
      /\ "ic11" \in has /\ "ic12" \in has /\ "ic13" \in has /\ "ic08" \in has
      /\ "ic14" \in has /\ "ic09" \in has /\ "ic10" \in has
  BY DEF icns_coverage
<1>2. /\ {"ic04", "is32", "ic05", "il32", "ic07", "it32", "ic11", "ic12", "ic13", "ic08", "ic14",
          "ic09", "ic10"} \subseteq DOMAIN PixelsOf
      /\ PixelsOf["ic04"] = 16 /\ PixelsOf["is32"] = 16 /\ PixelsOf["ic05"] = 32
      /\ PixelsOf["il32"] = 32 /\ PixelsOf["ic07"] = 128 /\ PixelsOf["it32"] = 128
      /\ PixelsOf["ic11"] = 32 /\ PixelsOf["ic12"] = 64 /\ PixelsOf["ic13"] = 256
      /\ PixelsOf["ic08"] = 256 /\ PixelsOf["ic14"] = 512 /\ PixelsOf["ic09"] = 512
      /\ PixelsOf["ic10"] = 1024
  BY DEF PixelsOf
<1>3. /\ {"ic11", "ic12", "ic13", "ic14", "ic10"} \subseteq Retina
      /\ {"ic04", "is32", "ic05", "il32", "ic07", "it32", "ic08", "ic09"} \cap Retina = {}
  BY DEF Retina
<1> HIDE DEF has
<1>4. ASSUME NEW kind \in has, kind \in DOMAIN PixelsOf, NEW points \in Nat, PixelsOf[kind] = points,
             kind \notin Retina
      PROVE  DrawnAs(es, points, 1) # {}
  <2>1. points * 1 = points /\ ~(1 = 2)
    OBVIOUS
  <2> QED
    BY <1>4, <2>1, DrawnBy DEF has
<1>5. ASSUME NEW kind \in has, kind \in DOMAIN PixelsOf, NEW points \in Nat, PixelsOf[kind] = 2 * points,
             kind \in Retina
      PROVE  DrawnAs(es, points, 2) # {}
  <2>1. points * 2 = 2 * points
    OBVIOUS
  <2> QED
    BY <1>5, <2>1, DrawnBy DEF has
<1>6. DrawnAs(es, 16, 1) # {}
  <2>1. PICK kind \in {"ic04", "is32"} : kind \in has
    BY <1>1
  <2>2. kind \in DOMAIN PixelsOf /\ PixelsOf[kind] = 16 /\ kind \notin Retina
    BY <1>2, <1>3, <2>1
  <2> QED
    BY <1>4, <2>1, <2>2
<1>7. DrawnAs(es, 32, 1) # {}
  <2>1. PICK kind \in {"ic05", "il32"} : kind \in has
    BY <1>1
  <2>2. kind \in DOMAIN PixelsOf /\ PixelsOf[kind] = 32 /\ kind \notin Retina
    BY <1>2, <1>3, <2>1
  <2> QED
    BY <1>4, <2>1, <2>2
<1>8. DrawnAs(es, 128, 1) # {}
  <2>1. PICK kind \in {"ic07", "it32"} : kind \in has
    BY <1>1
  <2>2. kind \in DOMAIN PixelsOf /\ PixelsOf[kind] = 128 /\ kind \notin Retina
    BY <1>2, <1>3, <2>1
  <2> QED
    BY <1>4, <2>1, <2>2
<1>9. DrawnAs(es, 256, 1) # {}
  BY <1>1, <1>2, <1>3, <1>4
<1>10. DrawnAs(es, 512, 1) # {}
  BY <1>1, <1>2, <1>3, <1>4
<1>11. DrawnAs(es, 16, 2) # {}
  BY <1>1, <1>2, <1>3, <1>5
<1>12. DrawnAs(es, 32, 2) # {}
  BY <1>1, <1>2, <1>3, <1>5
<1>13. DrawnAs(es, 128, 2) # {}
  BY <1>1, <1>2, <1>3, <1>5
<1>14. DrawnAs(es, 256, 2) # {}
  BY <1>1, <1>2, <1>3, <1>5
<1>15. DrawnAs(es, 512, 2) # {}
  BY <1>1, <1>2, <1>3, <1>5
<1> QED
  BY <1>6, <1>7, <1>8, <1>9, <1>10, <1>11, <1>12, <1>13, <1>14, <1>15 DEF Drawable

-----------------------------------------------------------------------------
(* The icon check: the inductive invariant. *)

IconTyped ==
  /\ ipc \in {"idle", "compile", "render", "judge", "rle"}
  /\ ipc # "rle" => /\ platform \in {"macos", "windows", "linux"} /\ standalone \in BOOLEAN
                    /\ where \in Subjects /\ swift \in Nat
                    /\ renderer \in [Subjects -> [time : Nat, whole : BOOLEAN]]
                    /\ DOMAIN evidence = Subjects

\* No program claims to be newer than its source.
ProgramInv == ipc # "rle" => \A w \in Subjects : renderer[w].time <= swift

\* What was asked of the tree still stands, since nothing else runs during a check.
FirstChecks == check_sources /\ check_native(Products)

StageInv ==
  /\ ipc \in {"compile", "render", "judge"} => FirstChecks /\ platform = "macos"
  /\ ipc = "render" => renderer[where].time = swift
  /\ ipc = "judge" => evidence[where] = [of |-> Shown, by |-> swift]
  /\ ipc # "idle" => iconExit = "none"

GreenInv ==
  iconExit = "green" =>
    /\ FirstChecks
    /\ platform = "macos" => Icons[Shown].near /\ evidence[where] = [of |-> Shown, by |-> swift]

IconInv == IconTyped /\ ProgramInv /\ StageInv /\ GreenInv

\* Nothing of the tree moves while the check is at work on it.
LEMMA TreeStands ==
  ASSUME UNCHANGED <<platform, standalone, treeVars>>, where' = where
  PROVE  (FirstChecks' <=> FirstChecks) /\ Shown' = Shown
BY DEF treeVars, FirstChecks, check_sources, check_native, Products, Parts, Matches, Shown, Carries

LEMMA AlteringKeeps ==
  ASSUME IconInv, Altering, swift' = swift \/ swift' = swift + 1
  PROVE  IconInv'
<1>1. /\ ipc = "idle" /\ iconExit' = "none"
      /\ UNCHANGED <<platform, standalone, renderer, evidence, ipc, where>>
  BY DEF Altering, keptVars
<1>2. swift \in Nat /\ \A w \in Subjects : renderer[w].time \in Nat /\ renderer[w].time <= swift
  BY <1>1 DEF IconInv, IconTyped, ProgramInv
<1>3. PICK t \in Nat : t = swift' /\ swift <= t
  BY <1>2
<1>4. IconTyped'
  BY <1>1, <1>3 DEF IconInv, IconTyped
<1>5. ProgramInv'
  BY <1>1, <1>2, <1>3 DEF ProgramInv
<1> QED
  BY <1>1, <1>4, <1>5 DEF IconInv, StageInv, GreenInv

LEMMA StartKeeps ==
  ASSUME IconInv, NEW how, NEW w \in Subjects, Start(how, w)
  PROVE  IconInv'
<1>1. /\ ipc = "idle" /\ where' = w
      /\ UNCHANGED <<platform, standalone, inputs, generated, built, staged, swift, renderer, evidence>>
  BY DEF Start, treeVars, keptVars
<1>2. (check_sources <=> check_sources')
  BY <1>1 DEF check_sources
<1>3. check_native(IF w = "staged" THEN staged ELSE built) <=> check_native(Products)'
  BY <1>1 DEF check_native, Parts, Matches, Products, Carries
<1>4. /\ \/ ipc' = "idle" /\ iconExit' \in {"red", "skipped"}
         \/ ipc' = "compile" /\ iconExit' = "none" /\ FirstChecks' /\ platform = "macos"
         \/ ipc' = "idle" /\ iconExit' = "green" /\ FirstChecks' /\ platform # "macos"
  BY <1>2, <1>3 DEF Start, Answer, FirstChecks
<1>5. IconTyped' /\ ProgramInv'
  BY <1>1, <1>4 DEF IconInv, IconTyped, ProgramInv
<1> QED
  BY <1>1, <1>4, <1>5 DEF IconInv, StageInv, GreenInv

LEMMA CompileKeeps ==
  ASSUME IconInv, NEW ok \in BOOLEAN, Compile(ok)
  PROVE  IconInv'
<1>1. /\ ipc = "compile" /\ UNCHANGED <<platform, standalone, treeVars, evidence, where>>
      /\ swift' = swift
  BY DEF Compile, treeVars
<1>2. /\ swift \in Nat /\ where \in Subjects /\ iconExit = "none" /\ FirstChecks /\ platform = "macos"
      /\ renderer \in [Subjects -> [time : Nat, whole : BOOLEAN]]
      /\ \A w \in Subjects : renderer[w].time <= swift
  BY <1>1 DEF IconInv, IconTyped, ProgramInv, StageInv
<1>3. /\ renderer' \in [Subjects -> [time : Nat, whole : BOOLEAN]]
      /\ \A w \in Subjects : renderer'[w].time <= swift
      /\ \/ ipc' = "render" /\ iconExit' = "none" /\ renderer'[where].time = swift
         \/ ipc' = "idle" /\ iconExit' = "red"
  <2>1. CASE renderer[where].time >= swift
    <3>1. renderer' = renderer /\ ipc' = "render" /\ iconExit' = iconExit
      BY <2>1 DEF Compile
    <3>2. renderer[where].time \in Nat /\ renderer[where].time <= swift
      BY <1>2
    <3>3. renderer[where].time = swift
      BY <1>2, <2>1, <3>2
    <3> QED
      BY <1>2, <3>1, <3>3
  <2>2. CASE ~(renderer[where].time >= swift) /\ ok
    <3>1. renderer' = [renderer EXCEPT ![where] = [time |-> swift, whole |-> TRUE]]
          /\ ipc' = "render" /\ iconExit' = iconExit
      BY <2>2 DEF Compile
    <3>2. renderer'[where].time = swift /\ \A w \in Subjects : w # where => renderer'[w] = renderer[w]
      BY <1>2, <3>1
    <3>3. swift <= swift
      BY <1>2
    <3> QED
      BY <1>2, <3>1, <3>2, <3>3
  <2>3. CASE ~(renderer[where].time >= swift) /\ ~ok
    BY <1>2, <2>3 DEF Compile, Answer
  <2> QED
    BY <2>1, <2>2, <2>3
<1>4. FirstChecks' /\ IconTyped' /\ ProgramInv'
  BY <1>1, <1>2, <1>3, TreeStands DEF IconInv, IconTyped, ProgramInv
<1> QED
  BY <1>1, <1>2, <1>3, <1>4 DEF IconInv, StageInv, GreenInv

LEMMA RenderKeeps ==
  ASSUME IconInv, NEW ok \in BOOLEAN, Render(ok)
  PROVE  IconInv'
<1>1. /\ ipc = "render" /\ UNCHANGED <<platform, standalone, treeVars, renderer, where>>
      /\ swift' = swift
  BY DEF Render, treeVars
<1>2. /\ where \in Subjects /\ iconExit = "none" /\ FirstChecks /\ platform = "macos"
      /\ renderer[where].time = swift /\ DOMAIN evidence = Subjects
  BY <1>1 DEF IconInv, IconTyped, StageInv
<1>3. /\ DOMAIN evidence' = Subjects
      /\ \/ ipc' = "judge" /\ iconExit' = "none" /\ evidence'[where] = [of |-> Shown, by |-> swift]
         \/ ipc' = "idle" /\ iconExit' = "red"
  BY <1>2 DEF Render, Answer, Measured
<1>4. FirstChecks' /\ Shown' = Shown /\ IconTyped' /\ ProgramInv'
  BY <1>1, <1>2, <1>3, TreeStands DEF IconInv, IconTyped, ProgramInv
<1> QED
  BY <1>1, <1>2, <1>3, <1>4 DEF IconInv, StageInv, GreenInv

LEMMA JudgeKeeps ==
  ASSUME IconInv, Judge
  PROVE  IconInv'
<1>1. /\ ipc = "judge" /\ UNCHANGED <<platform, standalone, treeVars, renderer, evidence, where>>
      /\ swift' = swift /\ ipc' = "idle"
      /\ iconExit' = IF evidence[where].of # 0 /\ Icons[evidence[where].of].near THEN "green" ELSE "red"
  BY DEF Judge, Answer, treeVars, keptVars
<1>2. FirstChecks /\ platform = "macos" /\ evidence[where] = [of |-> Shown, by |-> swift]
  BY <1>1 DEF IconInv, StageInv
<1>3. FirstChecks' /\ Shown' = Shown /\ IconTyped' /\ ProgramInv'
  BY <1>1, <1>2, TreeStands DEF IconInv, IconTyped, ProgramInv
<1>4. iconExit' = "green" => Icons[Shown].near
  BY <1>1, <1>2
<1> QED
  BY <1>1, <1>2, <1>3, <1>4 DEF IconInv, StageInv, GreenInv

LEMMA KillKeeps ==
  ASSUME IconInv, Kill
  PROVE  IconInv'
<1>1. /\ ipc \in {"compile", "render", "judge"} /\ ipc' = "idle" /\ iconExit' = "none"
      /\ UNCHANGED <<platform, standalone, where, swift>>
  BY DEF Kill, Answer, treeVars
<1>2. /\ swift \in Nat /\ where \in Subjects /\ DOMAIN evidence = Subjects
      /\ renderer \in [Subjects -> [time : Nat, whole : BOOLEAN]]
      /\ \A w \in Subjects : renderer[w].time <= swift
  BY <1>1 DEF IconInv, IconTyped, ProgramInv
<1>3. \/ renderer' = renderer
      \/ renderer' = [renderer EXCEPT ![where] = [time |-> swift, whole |-> FALSE]]
  BY DEF Kill
<1>4. /\ renderer' \in [Subjects -> [time : Nat, whole : BOOLEAN]]
      /\ \A w \in Subjects : renderer'[w].time <= swift
  <2>1. swift <= swift
    BY <1>2
  <2>2. CASE renderer' = renderer
    BY <1>2, <2>2
  <2>3. CASE renderer' = [renderer EXCEPT ![where] = [time |-> swift, whole |-> FALSE]]
    <3>1. renderer'[where].time = swift /\ \A w \in Subjects : w # where => renderer'[w] = renderer[w]
      BY <1>2, <2>3
    <3> QED
      BY <1>2, <2>1, <2>3, <3>1
  <2> QED
    BY <1>3, <2>2, <2>3
<1>5. DOMAIN evidence' = Subjects
  BY <1>2 DEF Kill
<1>6. IconTyped' /\ ProgramInv'
  BY <1>1, <1>2, <1>4, <1>5 DEF IconInv, IconTyped, ProgramInv
<1> QED
  BY <1>1, <1>6 DEF IconInv, StageInv, GreenInv

(***************************************************************************)
(* For any icons and any number of changes between checks: no renderer     *)
(* is newer than its source, and what a check has asked of the tree, and   *)
(* measured, still stands when it answers.                                 *)
(***************************************************************************)
THEOREM IconInvariant == IconSpec => []IconInv
<1>1. IconInit \/ RleInit => IconInv
  <2>1. CASE IconInit
    <3>1. ipc = "idle" /\ iconExit = "none" /\ swift = 1 /\ where = "built"
          /\ platform \in {"macos", "windows", "linux"} /\ standalone \in BOOLEAN
          /\ renderer = [w \in Subjects |-> [time |-> 0, whole |-> FALSE]]
          /\ evidence = [w \in Subjects |-> Torn]
      BY <2>1 DEF IconInit, NoProgram
    <3>2. IconTyped /\ ProgramInv
      BY <3>1 DEF IconTyped, ProgramInv, Subjects
    <3> QED
      BY <3>1, <3>2 DEF IconInv, StageInv, GreenInv
  <2>2. CASE RleInit
    BY <2>2 DEF RleInit, IconInv, IconTyped, ProgramInv, StageInv, GreenInv
  <2> QED
    BY <2>1, <2>2
<1>2. IconInv /\ [IconNext]_iconVars => IconInv'
  <2>1. SUFFICES ASSUME IconInv, [IconNext]_iconVars PROVE IconInv'
    OBVIOUS
  <2>2. CASE UNCHANGED iconVars
    <3>1. UNCHANGED <<platform, standalone, treeVars, renderer, evidence, ipc, where, iconExit>>
      BY <2>2 DEF iconVars, keptVars
    <3>2. (FirstChecks' <=> FirstChecks) /\ Shown' = Shown /\ swift' = swift
      BY <3>1, TreeStands DEF treeVars
    <3> QED
      BY <2>1, <3>1, <3>2 DEF IconInv, IconTyped, ProgramInv, StageInv, GreenInv
  <2>3. CASE \E i \in DOMAIN Icons : Generate(i)
    BY <2>1, <2>3, AlteringKeeps DEF Generate
  <2>4. CASE \E formats \in SUBSET Formats(platform) : Rebuild(formats) \/ Stage(formats)
    BY <2>1, <2>4, AlteringKeeps DEF Rebuild, Stage
  <2>5. CASE (\E recorded \in {"approved", "other"} : EditInputs(recorded)) \/ EditRenderer
    BY <2>1, <2>5, AlteringKeeps DEF EditInputs, EditRenderer
  <2>6. CASE (\E w \in Subjects : Start("platform", w)) \/ Start("preflight", "built")
    BY <2>1, <2>6, StartKeeps DEF Subjects
  <2>7. CASE \E ok \in BOOLEAN : Compile(ok) \/ Render(ok)
    BY <2>1, <2>7, CompileKeeps, RenderKeeps
  <2>8. CASE Judge \/ Kill
    BY <2>1, <2>8, JudgeKeeps, KillKeeps
  <2> QED
    BY <2>1, <2>2, <2>3, <2>4, <2>5, <2>6, <2>7, <2>8 DEF IconNext
<1> QED
  BY <1>1, <1>2, PTL DEF IconSpec

(***************************************************************************)
(* For the same: a green check was of approved inputs and of products that *)
(* all carry the generated container, which on macOS has an image for all  *)
(* that is drawn and was measured as it is now, and found near.            *)
(***************************************************************************)
THEOREM GreenIsAlwaysMeasured == IconSpec => []GreenIsMeasured
<1>1. IconInv => GreenIsMeasured
  <2>1. SUFFICES ASSUME IconInv, iconExit = "green"
                 PROVE  /\ inputs.actual = "approved"
                        /\ \A q \in Parts : IF Carries(q) THEN Products[q] = generated ELSE Products[q] # 0
                        /\ platform = "linux" <=> generated = 0
                        /\ platform = "macos" => /\ Drawable(Icons[generated].entries)
                                                 /\ Icons[Shown].near
                                                 /\ evidence[where] = [of |-> Shown, by |-> swift]
    BY DEF GreenIsMeasured
  <2>2. /\ check_sources /\ check_native(Products)
        /\ platform \in {"macos", "windows", "linux"}
        /\ platform = "macos" => Icons[Shown].near /\ evidence[where] = [of |-> Shown, by |-> swift]
    BY <2>1 DEF IconInv, IconTyped, StageInv, GreenInv, FirstChecks
  <2>3. inputs.actual = "approved"
    BY <2>2 DEF check_sources
  <2>4. \A q \in Parts : IF Carries(q) THEN Products[q] = generated ELSE Products[q] # 0
    BY <2>2 DEF check_native, Matches
  <2>5. platform = "linux" <=> generated = 0
    BY <2>2 DEF check_native
  <2>6. platform = "macos" => Drawable(Icons[generated].entries)
    BY <2>2, AcceptedIsDrawable DEF check_native
  <2> QED
    BY <2>2, <2>3, <2>4, <2>5, <2>6
<1> QED
  BY <1>1, IconInvariant, PTL

-----------------------------------------------------------------------------
(* The coverage lint. *)

\* Both the commit being written and the one that landed compile; what landed, the lint passed.
CovInv ==
  /\ tree \in EngineTree /\ Compiles(tree)
  /\ merged \in EngineTree /\ Compiles(merged) /\ lint_tree(merged) = {}
  /\ edits \in Nat

-----------------------------------------------------------------------------
\* Two snapshots that differ in one field, and what the engine's functions see of them.
LEMMA SnapshotsAre ==
  ASSUME NEW t \in EngineTree, "algorithm" \in t.fields, NEW c \in Changes(t)
  PROVE  /\ c.field \in t.fields
         /\ Before(t, c) \in [t.fields -> Int] /\ After(t, c) \in [t.fields -> Int]
         /\ Before(t, c)[c.field] # After(t, c)[c.field]
         /\ \A f \in t.fields : f # c.field => Before(t, c)[f] = After(t, c)[f]
<1>1. /\ c.field \in t.fields /\ c.from \in 0..1 /\ c.to \in 1..2 /\ c.algorithm \in 0..1
      /\ c.from < c.to
  BY DEF Changes
<1>2. c.from \in Int /\ c.to \in Int /\ c.algorithm \in Int /\ c.from # c.to
  BY <1>1
<1>3. /\ Before(t, c) \in [t.fields -> Int]
      /\ Before(t, c)[c.field] = c.from
  BY <1>1, <1>2 DEF Before
<1>4. /\ After(t, c) \in [t.fields -> Int]
      /\ After(t, c)[c.field] = c.to
      /\ \A f \in t.fields : f # c.field => Before(t, c)[f] = After(t, c)[f]
  BY <1>1, <1>2, <1>3 DEF After
<1> QED
  BY <1>1, <1>2, <1>3, <1>4

\* A selection list notices the change when it names the field under a guard that holds.
LEMMA DiffersIs ==
  ASSUME NEW t \in EngineTree, Compiles(t), NEW c \in Changes(t), NEW l \in Lists
  PROVE  Differs(t.select[l], Before(t, c), After(t, c)) <=>
           \E g \in GuardsOf(t, l, c.field) : Holds(g, Before(t, c), After(t, c))
<1> DEFINE a == Before(t, c)
           b == After(t, c)
<1>1. /\ a[c.field] # b[c.field]
      /\ \A f \in t.fields : f # c.field => a[f] = b[f]
  BY SnapshotsAre DEF Compiles
<1>2. \A x \in t.select[l] : x.field \in t.fields
  BY DEF Compiles, Compared
<1> HIDE DEF a, b
<1>3. Differs(t.select[l], a, b) <=> \E x \in t.select[l] : x.field = c.field /\ Holds(x.guard, a, b)
  BY <1>1, <1>2 DEF Differs
<1>4. (\E g \in GuardsOf(t, l, c.field) : Holds(g, a, b))
        <=> \E x \in t.select[l] : x.field = c.field /\ Holds(x.guard, a, b)
  BY DEF GuardsOf
<1> QED
  BY <1>3, <1>4 DEF a, b

\* What the lint says of the selection lists, of a tree it passes.
LEMMA ListsAgree ==
  ASSUME NEW t \in EngineTree, lint_tree(t) = {}
  PROVE  /\ \A f \in t.fields : [left |-> f, right |-> f] \in t.same
         /\ Preserved(t) = t.discrete
         /\ \A l \in Lists : /\ Compared(t, l) \subseteq t.discrete
                             /\ t.discrete \subseteq Compared(t, l) \cup t.excluded[l]
         /\ \A f \in Compared(t, "discreteDiffers") \cap Compared(t, "processingDiffers") :
              f \in t.divergent \/ GuardsOf(t, "discreteDiffers", f) = GuardsOf(t, "processingDiffers", f)
<1>1. /\ SameProblems(t) = {} /\ CopyProblems(t) = {} /\ GuardProblems(t) = {}
      /\ \A l \in Lists : SelectionProblems(t, l) = {}
  <2>1. check_engine_params(t) = {}
    BY DEF lint_tree
  <2>2. /\ SameProblems(t) = {} /\ CopyProblems(t) = {} /\ GuardProblems(t) = {}
        /\ UNION {SelectionProblems(t, l) : l \in Lists} = {}
    BY <2>1 DEF check_engine_params
  <2> QED
    BY <2>2
<1>2. \A f \in t.fields : [left |-> f, right |-> f] \in t.same
  BY <1>1 DEF SameProblems
<1>3. Preserved(t) = t.discrete
  BY <1>1 DEF CopyProblems
<1>4. \A l \in Lists : /\ Compared(t, l) \subseteq t.discrete
                       /\ t.discrete \subseteq Compared(t, l) \cup t.excluded[l]
  BY <1>1 DEF SelectionProblems
<1>5. \A f \in Compared(t, "discreteDiffers") \cap Compared(t, "processingDiffers") :
        f \in t.divergent \/ GuardsOf(t, "discreteDiffers", f) = GuardsOf(t, "processingDiffers", f)
  BY <1>1 DEF GuardProblems
<1> QED
  BY <1>2, <1>3, <1>4, <1>5

\* And of the measurement list.
LEMMA MeasuresAgree ==
  ASSUME NEW t \in EngineTree, lint_tree(t) = {}
  PROVE  /\ \A f \in t.predict :
              \E x \in t.measured : x.field = f /\ x.form = "exact" /\ x.guard = ""
         /\ \A x \in t.measured : x.field \notin t.notInputs
<1>1. check_measurement_inputs(t) = {}
  BY DEF lint_tree
<1>2. /\ \A i \in t.inputs : ~TermProblem(t, i)
      /\ \A f \in t.notInputs : ~ \E x \in t.measured : x.field = f
      /\ \A f \in t.predict : [field |-> f, form |-> "exact", guard |-> ""] \in t.inputs
  BY <1>1 DEF check_measurement_inputs
<1>3. ASSUME NEW f \in t.predict
      PROVE  \E x \in t.measured : x.field = f /\ x.form = "exact" /\ x.guard = ""
  <2> DEFINE i == [field |-> f, form |-> "exact", guard |-> ""]
  <2>1. ~TermProblem(t, i)
    BY <1>2
  <2>2. i.field = f /\ i.form = "exact" /\ i.guard = ""
    OBVIOUS
  <2> HIDE DEF i
  <2> QED
    BY <2>1, <2>2 DEF TermProblem
<1> QED
  BY <1>2, <1>3

LEMMA AnsweredIs ==
  ASSUME NEW t \in EngineTree, Compiles(t), lint_tree(t) = {}, NEW c \in Changes(t)
  PROVE  ChangeIsAnswered(t, c)
<1> DEFINE a == Before(t, c)
           b == After(t, c)
           f == c.field
<1>1. /\ f \in t.fields /\ a \in [t.fields -> Int] /\ b \in [t.fields -> Int]
      /\ a[f] # b[f] /\ \A e \in t.fields : e # f => a[e] = b[e]
  BY SnapshotsAre DEF Compiles
<1>2. \A l \in Lists : Differs(t.select[l], a, b) <=> \E g \in GuardsOf(t, l, f) : Holds(g, a, b)
  BY DiffersIs
<1>3. "discreteDiffers" \in Lists /\ "processingDiffers" \in Lists
  BY DEF Lists
<1>4. \A l \in Lists : f \in Compared(t, l) <=> GuardsOf(t, l, f) # {}
  BY DEF Compared, GuardsOf
<1> HIDE DEF a, b, f
<1>5. ~sameParameters(t, a, b)
  <2>1. [left |-> f, right |-> f] \in t.same
    BY <1>1, ListsAgree
  <2> QED
    BY <1>1, <2>1 DEF sameParameters
<1>6. Heard(t, a, b) = b \/ f \in t.excluded["discreteDiffers"] \/ ~Relevant(t, f, a, b)
  <2>1. CASE f \in t.discrete
    <3>1. f \in t.excluded["discreteDiffers"] \/ f \in Compared(t, "discreteDiffers")
      BY <1>3, <2>1, ListsAgree
    <3>2. ASSUME f \in Compared(t, "discreteDiffers"), Relevant(t, f, a, b)
          PROVE  Differs(t.select["discreteDiffers"], a, b)
      <4>1. PICK x \in t.select["discreteDiffers"] : x.field = f
        BY <3>2 DEF Compared
      <4>2. Holds(x.guard, a, b)
        BY <3>2, <4>1 DEF Relevant
      <4> QED
        BY <1>1, <4>1, <4>2 DEF Differs
    <3> QED
      BY <3>1, <3>2 DEF Heard
  <2>2. CASE f \notin t.discrete
    <3>1. f \notin Preserved(t)
      BY <2>2, ListsAgree
    <3>2. copyContinuous(t, a, b) = b
      BY <1>1, <3>1 DEF copyContinuous
    <3> QED
      BY <3>2 DEF Heard
  <2> QED
    BY <2>1, <2>2
<1>7. \/ Differs(t.select["discreteDiffers"], a, b) = Differs(t.select["processingDiffers"], a, b)
      \/ f \in t.divergent \/ \E l \in Lists : f \in t.excluded[l]
  <2>1. CASE f \in t.discrete /\ \A l \in Lists : f \notin t.excluded[l]
    <3>1. f \in Compared(t, "discreteDiffers") \cap Compared(t, "processingDiffers")
      BY <1>3, <2>1, ListsAgree
    <3>2. f \in t.divergent \/ GuardsOf(t, "discreteDiffers", f) = GuardsOf(t, "processingDiffers", f)
      BY <3>1, ListsAgree
    <3> QED
      BY <1>2, <1>3, <3>2 DEF Differs
  <2>2. CASE f \notin t.discrete
    <3>1. \A l \in Lists : GuardsOf(t, l, f) = {}
      BY <1>4, <2>2, ListsAgree
    <3>2. ~Differs(t.select["discreteDiffers"], a, b) /\ ~Differs(t.select["processingDiffers"], a, b)
      BY <1>2, <1>3, <3>1
    <3> QED
      BY <3>2 DEF Differs
  <2> QED
    BY <2>1, <2>2
<1>8. f \in t.predict => measurementInputsDiffer(t, a, b)
  <2> SUFFICES ASSUME f \in t.predict PROVE measurementInputsDiffer(t, a, b)
    OBVIOUS
  <2>1. PICK x \in t.measured : x.field = f /\ x.form = "exact" /\ x.guard = ""
    BY MeasuresAgree
  <2>2. ~Near(x.form, a[x.field], b[x.field]) /\ Holds(x.guard, a, b)
    BY <1>1, <2>1 DEF Near, Holds
  <2> QED
    BY <2>2 DEF measurementInputsDiffer
<1>9. measurementInputsDiffer(t, a, b) => f \notin t.notInputs
  <2> SUFFICES ASSUME NEW x \in t.measured, ~Near(x.form, a[x.field], b[x.field])
               PROVE  f \notin t.notInputs
    BY DEF measurementInputsDiffer
  <2>1. x.field \in t.fields
    BY DEF Compiles
  <2>2. \A u \in Int : Near(x.form, u, u)
    <3>1. \A u \in Int : u - u = 0
      OBVIOUS
    <3>2. 0 \in -1..1
      OBVIOUS
    <3> QED
      BY <3>1, <3>2 DEF Near
  <2>3. x.field = f
    BY <1>1, <2>1, <2>2
  <2> QED
    BY <2>3, MeasuresAgree
<1> QED
  BY <1>5, <1>6, <1>7, <1>8, <1>9 DEF ChangeIsAnswered, a, b, f

-----------------------------------------------------------------------------
\* The resets: each subject's declared scope is the one the body gives it.
LEMMA ScopesAre ==
  ASSUME NEW t \in EngineTree, Compiles(t), lint_tree(t) = {}
  PROVE  /\ \A m \in reset_subject(t) : [member |-> m, scope |-> ScopeOf(t, m)] \in t.scopes
         /\ \A r \in t.scopes : r.member \in reset_subject(t) /\ r.scope = ScopeOf(t, r.member)
<1>1. check_engine_reset(t) = {}
  BY DEF lint_tree
<1>2. \A m \in reset_subject(t) : [member |-> m, scope |-> ScopeOf(t, m)] \in t.scopes
  BY <1>1 DEF check_engine_reset
<1>3. \A r \in t.scopes : r.member \in reset_subject(t)
  BY <1>1 DEF check_engine_reset
<1>4. ASSUME NEW r \in t.scopes PROVE r.scope = ScopeOf(t, r.member)
  <2> DEFINE q == [member |-> r.member, scope |-> ScopeOf(t, r.member)]
  <2>1. q \in t.scopes
    BY <1>2, <1>3
  <2>2. q.member = r.member /\ q.scope = ScopeOf(t, r.member)
    OBVIOUS
  <2> HIDE DEF q
  <2>3. q = r
    BY <2>1, <2>2 DEF Compiles
  <2> QED
    BY <2>2, <2>3
<1> QED
  BY <1>2, <1>3, <1>4

LEMMA ClearedIs ==
  ASSUME NEW t \in EngineTree, NEW place
  PROVE  Cleared(t, {"always", place}) =
           split_by_reset_scope(t, "always") \cup split_by_reset_scope(t, place)
<1>1. \A s \in t.reset : FullReset(s) <=> s.call # "resetLive"
  BY DEF EngineTree, Calls, FullReset
<1>2. Cleared(t, {"always", place}) =
        {s.member : s \in {x \in t.reset : x.place \in {"always", place} /\ FullReset(x)}}
  BY <1>1 DEF Cleared
<1> QED
  BY <1>2 DEF split_by_reset_scope

LEMMA ResetsAgree ==
  ASSUME NEW t \in EngineTree, Compiles(t), lint_tree(t) = {}
  PROVE  /\ Declared(t, {"both", "tails"}) = Cleared(t, {"always", "else"}) \cap reset_subject(t)
         /\ Declared(t, {"both", "everything"}) = Cleared(t, {"always", "then"}) \cap reset_subject(t)
<1>1. \A m : ScopeOf(t, m) \in {"both", "tails"} <=>
               m \in split_by_reset_scope(t, "always") \cup split_by_reset_scope(t, "else")
  BY DEF ScopeOf
<1>2. \A m : ScopeOf(t, m) \in {"both", "everything"} <=>
               m \in split_by_reset_scope(t, "always") \cup split_by_reset_scope(t, "then")
  BY DEF ScopeOf
<1>3. \A scopes : Declared(t, scopes) = {m \in reset_subject(t) : ScopeOf(t, m) \in scopes}
  <2> TAKE scopes
  <2>1. ASSUME NEW m \in Declared(t, scopes)
        PROVE  m \in reset_subject(t) /\ ScopeOf(t, m) \in scopes
    BY ScopesAre DEF Declared
  <2>2. ASSUME NEW m \in reset_subject(t), ScopeOf(t, m) \in scopes
        PROVE  m \in Declared(t, scopes)
    <3> DEFINE q == [member |-> m, scope |-> ScopeOf(t, m)]
    <3>1. q \in t.scopes /\ q.member = m /\ q.scope \in scopes
      BY <2>2, ScopesAre
    <3> HIDE DEF q
    <3> QED
      BY <3>1 DEF Declared
  <2> QED
    BY <2>1, <2>2
<1>4. /\ Cleared(t, {"always", "else"}) =
           split_by_reset_scope(t, "always") \cup split_by_reset_scope(t, "else")
      /\ Cleared(t, {"always", "then"}) =
           split_by_reset_scope(t, "always") \cup split_by_reset_scope(t, "then")
  BY ClearedIs
<1> QED
  BY <1>1, <1>2, <1>3, <1>4

LEMMA PassedIsAnswered ==
  ASSUME CovInv
  PROVE  MergedIsAnswered
<1>1. merged \in EngineTree /\ Compiles(merged) /\ lint_tree(merged) = {}
  BY DEF CovInv
<1>2. \A c \in Changes(merged) : ChangeIsAnswered(merged, c)
  BY <1>1, AnsweredIs
<1>3. ASSUME NEW m \in merged.members, m.type \in {"own reset", "declared resettable"}
      PROVE  \E r \in merged.scopes : r.member = m.name
  <2>1. m.name \in reset_subject(merged)
    BY <1>3 DEF reset_subject
  <2> QED
    BY <1>1, <2>1, ScopesAre
<1> QED
  BY <1>1, <1>2, <1>3, ResetsAgree DEF MergedIsAnswered

-----------------------------------------------------------------------------
(* The commits. *)

LEMMA AddFieldKeeps ==
  ASSUME tree \in EngineTree, Compiles(tree), NEW answers, AddField(answers)
  PROVE  tree' \in EngineTree /\ Compiles(tree')
<1> DEFINE F == NewField
           Unc == [field |-> F, guard |-> ""]
           Inp == [field |-> F, form |-> "exact", guard |-> ""]
           Plus(a, S, x) == IF a \in answers THEN S \cup {x} ELSE S
<1>1. tree' = [tree EXCEPT
           !.fields = @ \cup {F},
           !.same = Plus("same", @, [left |-> F, right |-> F]),
           !.saved = Plus("save", @, F), !.restored = Plus("restore", @, F),
           !.discrete = Plus("discrete", @, F),
           !.select = [l \in Lists |-> Plus("select", @[l], Unc)],
           !.inputs = Plus("input", @, Inp),
           !.measured = Plus("measured", @, Inp)]
  BY DEF AddField
<1>2. /\ F \in Fields /\ Unc \in [field : Fields, guard : Guards]
      /\ Inp \in [field : Fields, form : Forms, guard : Guards]
      /\ [left |-> F, right |-> F] \in [left : Fields, right : Fields]
      /\ Unc.field = F /\ Inp.field = F /\ [left |-> F, right |-> F].left = F
  BY CoverageAssumption DEF Guards, Forms
<1>3. /\ tree'.fields = tree.fields \cup {F}
      /\ tree'.same \subseteq tree.same \cup {[left |-> F, right |-> F]}
      /\ tree'.saved \subseteq tree.saved \cup {F} /\ tree'.restored \subseteq tree.restored \cup {F}
      /\ tree'.discrete \subseteq tree.discrete \cup {F}
      /\ DOMAIN tree'.select = Lists
      /\ \A l \in Lists : tree'.select[l] \subseteq tree.select[l] \cup {Unc}
      /\ tree'.inputs \subseteq tree.inputs \cup {Inp}
      /\ tree'.measured \subseteq tree.measured \cup {Inp}
  BY <1>1 DEF EngineTree
<1>4. /\ tree'.fields \in SUBSET Fields /\ tree'.same \in SUBSET [left : Fields, right : Fields]
      /\ tree'.saved \in SUBSET Fields /\ tree'.restored \in SUBSET Fields
      /\ tree'.discrete \in SUBSET Fields
      /\ tree'.select \in [Lists -> SUBSET [field : Fields, guard : Guards]]
      /\ tree'.inputs \in SUBSET [field : Fields, form : Forms, guard : Guards]
      /\ tree'.measured \in SUBSET [field : Fields, form : Forms, guard : Guards]
  <2>1. tree'.fields \in SUBSET Fields /\ tree'.same \in SUBSET [left : Fields, right : Fields]
    BY <1>2, <1>3 DEF EngineTree
  <2>2. /\ tree'.saved \in SUBSET Fields /\ tree'.restored \in SUBSET Fields
        /\ tree'.discrete \in SUBSET Fields
    BY <1>2, <1>3 DEF EngineTree
  <2>3. \A l \in Lists : tree'.select[l] \in SUBSET [field : Fields, guard : Guards]
    BY <1>2, <1>3 DEF EngineTree
  <2>4. tree'.select = [l \in Lists |-> tree'.select[l]]
    BY <1>1 DEF EngineTree
  <2>5. /\ tree'.inputs \in SUBSET [field : Fields, form : Forms, guard : Guards]
        /\ tree'.measured \in SUBSET [field : Fields, form : Forms, guard : Guards]
    BY <1>2, <1>3 DEF EngineTree
  <2> QED
    BY <2>1, <2>2, <2>3, <2>4, <2>5
<1>5. tree' \in EngineTree
  <2>1. tree' = [tree EXCEPT !.fields = tree'.fields, !.same = tree'.same, !.saved = tree'.saved,
                   !.restored = tree'.restored, !.discrete = tree'.discrete, !.select = tree'.select,
                   !.inputs = tree'.inputs, !.measured = tree'.measured]
    BY <1>1 DEF EngineTree
  <2> QED
    BY <1>4, <2>1 DEF EngineTree
<1>6. tree'.scopes = tree.scopes
  BY <1>1 DEF EngineTree
<1>7. Compiles(tree')
  <2>1. "algorithm" \in tree'.fields
    BY <1>3 DEF Compiles
  <2>2. \A x \in tree'.same : x.left \in tree'.fields
    BY <1>2, <1>3 DEF Compiles
  <2>3. ASSUME NEW l \in Lists, NEW x \in tree'.select[l] PROVE x.field \in tree'.fields
    <3>1. x \in tree.select[l] \/ x = Unc
      BY <1>3
    <3>2. x \in tree.select[l] => x.field \in tree.fields
      BY DEF Compiles, Compared
    <3> QED
      BY <1>2, <1>3, <3>1, <3>2
  <2>5. \A l \in Lists : Compared(tree', l) \subseteq tree'.fields
    BY <2>3 DEF Compared
  <2>4. \A x \in tree'.measured : x.field \in tree'.fields
    BY <1>2, <1>3 DEF Compiles
  <2> QED
    BY <1>6, <2>1, <2>2, <2>4, <2>5 DEF Compiles
<1> QED
  BY <1>5, <1>7

LEMMA EditComparisonKeeps ==
  ASSUME tree \in EngineTree, Compiles(tree), NEW f \in tree.fields, EditComparison(f)
  PROVE  tree' \in EngineTree /\ Compiles(tree')
<1>1. f \in Fields /\ NewField \in Fields
  BY CoverageAssumption DEF EngineTree
<1>2. ASSUME NEW g \in {f, NewField},
             tree' = [tree EXCEPT !.same = Toggled(@, [left |-> f, right |-> g])]
      PROVE  tree' \in EngineTree /\ Compiles(tree')
  <2>1. [left |-> f, right |-> g] \in [left : Fields, right : Fields]
    BY <1>1
  <2>2. PICK S : /\ S \in SUBSET [left : Fields, right : Fields]
                 /\ \A x \in S : x.left \in tree.fields
                 /\ tree' = [tree EXCEPT !.same = S]
    <3> DEFINE T == Toggled(tree.same, [left |-> f, right |-> g])
    <3>1. T \in SUBSET [left : Fields, right : Fields]
      BY <2>1 DEF Toggled, EngineTree
    <3>2. \A x \in T : x.left \in tree.fields
      BY DEF Toggled, Compiles
    <3>3. tree' = [tree EXCEPT !.same = T]
      BY <1>2 DEF EngineTree
    <3> HIDE DEF T
    <3> QED
      BY <3>1, <3>2, <3>3
  <2> QED
    BY <2>2 DEF EngineTree, Compiles, Compared
<1>3. ASSUME tree' = [tree EXCEPT !.saved = Toggled(@, f)] \/ tree' = [tree EXCEPT !.restored = Toggled(@, f)]
      PROVE  tree' \in EngineTree /\ Compiles(tree')
  <2>1. Toggled(tree.saved, f) \in SUBSET Fields /\ Toggled(tree.restored, f) \in SUBSET Fields
    BY <1>1 DEF Toggled, EngineTree
  <2> QED
    BY <1>3, <2>1 DEF EngineTree, Compiles, Compared
<1>4. ASSUME NEW l \in Lists, NEW g \in Guards,
             tree' = [tree EXCEPT !.select[l] = Toggled(@, [field |-> f, guard |-> g])]
      PROVE  tree' \in EngineTree /\ Compiles(tree')
  <2> DEFINE T == Toggled(tree.select[l], [field |-> f, guard |-> g])
  <2>1. T \in SUBSET [field : Fields, guard : Guards]
    BY <1>1 DEF Toggled, EngineTree
  <2>2. \A x \in T : x.field \in tree.fields
    BY DEF Toggled, Compiles, Compared
  <2>3. tree' = [tree EXCEPT !.select[l] = T]
    BY <1>4 DEF EngineTree
  <2> HIDE DEF T
  <2>4. tree' \in EngineTree
    BY <2>1, <2>3 DEF EngineTree
  <2>5. \A k \in Lists : Compared(tree', k) \subseteq tree'.fields
    <3>1. tree'.fields = tree.fields /\ tree'.select = [tree.select EXCEPT ![l] = T]
      BY <2>3 DEF EngineTree
    <3>2. \A k \in Lists : tree'.select[k] = IF k = l THEN T ELSE tree.select[k]
      BY <3>1 DEF EngineTree
    <3> QED
      BY <2>2, <3>1, <3>2 DEF Compiles, Compared
  <2>6. tree'.fields = tree.fields /\ tree'.same = tree.same /\ tree'.measured = tree.measured
        /\ tree'.scopes = tree.scopes
    BY <2>3 DEF EngineTree
  <2> QED
    BY <2>4, <2>5, <2>6 DEF Compiles
<1>5. ASSUME NEW o \in Forms, NEW g \in Guards,
             tree' = [tree EXCEPT !.measured = Toggled(@, [field |-> f, form |-> o, guard |-> g])]
      PROVE  tree' \in EngineTree /\ Compiles(tree')
  <2> DEFINE T == Toggled(tree.measured, [field |-> f, form |-> o, guard |-> g])
  <2>1. T \in SUBSET [field : Fields, form : Forms, guard : Guards]
    BY <1>1 DEF Toggled, EngineTree
  <2>2. \A x \in T : x.field \in tree.fields
    BY DEF Toggled, Compiles
  <2>3. tree' = [tree EXCEPT !.measured = T]
    BY <1>5 DEF EngineTree
  <2> HIDE DEF T
  <2> QED
    BY <2>1, <2>2, <2>3 DEF EngineTree, Compiles, Compared
<1> QED
  BY <1>2, <1>3, <1>4, <1>5 DEF EditComparison

LEMMA EditTablesKeeps ==
  ASSUME tree \in EngineTree, Compiles(tree), NEW f \in Fields, EditTables(f)
  PROVE  tree' \in EngineTree /\ Compiles(tree')
<1>1. ASSUME tree' = [tree EXCEPT !.discrete = Toggled(@, f)]
      PROVE  tree' \in EngineTree /\ Compiles(tree')
  <2>1. Toggled(tree.discrete, f) \in SUBSET Fields
    BY DEF Toggled, EngineTree
  <2> QED
    BY <1>1, <2>1 DEF EngineTree, Compiles, Compared
<1>2. ASSUME NEW l \in Lists, tree' = [tree EXCEPT !.excluded[l] = Toggled(@, f)]
      PROVE  tree' \in EngineTree /\ Compiles(tree')
  <2>1. Toggled(tree.excluded[l], f) \in SUBSET Fields
    BY DEF Toggled, EngineTree
  <2> QED
    BY <1>2, <2>1 DEF EngineTree, Compiles, Compared
<1>3. ASSUME tree' = [tree EXCEPT !.divergent = Toggled(@, f)]
      PROVE  tree' \in EngineTree /\ Compiles(tree')
  <2>1. Toggled(tree.divergent, f) \in SUBSET Fields
    BY DEF Toggled, EngineTree
  <2> QED
    BY <1>3, <2>1 DEF EngineTree, Compiles, Compared
<1>4. ASSUME tree' = [tree EXCEPT !.notInputs = Toggled(@, f)]
      PROVE  tree' \in EngineTree /\ Compiles(tree')
  <2>1. Toggled(tree.notInputs, f) \in SUBSET Fields
    BY DEF Toggled, EngineTree
  <2> QED
    BY <1>4, <2>1 DEF EngineTree, Compiles, Compared
<1>5. ASSUME NEW o \in Forms, NEW g \in Guards,
             tree' = [tree EXCEPT !.inputs = Toggled(@, [field |-> f, form |-> o, guard |-> g])]
      PROVE  tree' \in EngineTree /\ Compiles(tree')
  <2>1. Toggled(tree.inputs, [field |-> f, form |-> o, guard |-> g])
          \in SUBSET [field : Fields, form : Forms, guard : Guards]
    BY DEF Toggled, EngineTree
  <2> QED
    BY <1>5, <2>1 DEF EngineTree, Compiles, Compared
<1> QED
  BY <1>1, <1>2, <1>3, <1>4, <1>5 DEF EditTables

LEMMA EditResetKeeps ==
  ASSUME tree \in EngineTree, Compiles(tree), NEW m \in Modules, EditReset(m)
  PROVE  tree' \in EngineTree /\ Compiles(tree')
<1>1. ASSUME tree' = [tree EXCEPT !.members = @ \cup {m}]
      PROVE  tree' \in EngineTree /\ Compiles(tree')
  BY <1>1 DEF EngineTree, Compiles, Compared
<1>2. ASSUME NEW p \in Branches, NEW c \in Calls,
             tree' = [tree EXCEPT !.reset = Toggled(@, [member |-> m.name, place |-> p, call |-> c])]
      PROVE  tree' \in EngineTree /\ Compiles(tree')
  <2>1. Toggled(tree.reset, [member |-> m.name, place |-> p, call |-> c])
          \in SUBSET [member : {k.name : k \in Modules}, place : Branches, call : Calls]
    BY DEF Toggled, EngineTree
  <2> QED
    BY <1>2, <2>1 DEF EngineTree, Compiles, Compared
<1>3. ASSUME NEW s \in Scopes,
             tree' = [tree EXCEPT !.scopes = {r \in @ : r.member # m.name}
                                               \cup {[member |-> m.name, scope |-> s]}]
      PROVE  tree' \in EngineTree /\ Compiles(tree')
  <2> DEFINE D == {r \in tree.scopes : r.member # m.name} \cup {[member |-> m.name, scope |-> s]}
  <2>1. D \in SUBSET [member : {k.name : k \in Modules}, scope : Scopes]
    BY DEF EngineTree
  <2>2. \A r, q \in D : r.member = q.member => r = q
    BY DEF Compiles
  <2>3. tree' = [tree EXCEPT !.scopes = D]
    BY <1>3 DEF EngineTree
  <2> HIDE DEF D
  <2> QED
    BY <2>1, <2>2, <2>3 DEF EngineTree, Compiles, Compared
<1> QED
  BY <1>1, <1>2, <1>3 DEF EditReset

LEMMA CovStep ==
  ASSUME CovInv, [CovNext]_covVars
  PROVE  CovInv'
<1>1. ASSUME Edit PROVE CovInv'
  <2>1. merged' = merged /\ edits' = edits + 1
    BY <1>1 DEF Edit
  <2>2. tree \in EngineTree /\ Compiles(tree)
    BY DEF CovInv
  <2>3. ASSUME NEW answers, AddField(answers) PROVE tree' \in EngineTree /\ Compiles(tree')
    BY <2>2, <2>3, AddFieldKeeps
  <2>4. ASSUME NEW f \in tree.fields, EditComparison(f) PROVE tree' \in EngineTree /\ Compiles(tree')
    BY <2>2, <2>4, EditComparisonKeeps
  <2>5. ASSUME NEW f \in Fields, EditTables(f) PROVE tree' \in EngineTree /\ Compiles(tree')
    BY <2>2, <2>5, EditTablesKeeps
  <2>6. ASSUME NEW m \in Modules, EditReset(m) PROVE tree' \in EngineTree /\ Compiles(tree')
    BY <2>2, <2>6, EditResetKeeps
  <2>7. tree' \in EngineTree /\ Compiles(tree')
    BY <1>1, <2>3, <2>4, <2>5, <2>6 DEF Edit
  <2> QED
    BY <2>1, <2>7 DEF CovInv
<1>2. ASSUME Merge PROVE CovInv'
  BY <1>2 DEF Merge, CovInv
<1>3. ASSUME UNCHANGED covVars PROVE CovInv'
  BY <1>3 DEF covVars, CovInv
<1> QED
  BY <1>1, <1>2, <1>3 DEF CovNext

(***************************************************************************)
(* For any struct, members and edits of them, from a commit the lint       *)
(* passes: what lands compiles and has nothing the lint would report       *)
(* (check-state-coverage.py main).                                         *)
(***************************************************************************)
THEOREM CoverageInvariant == CovSpec => []CovInv
<1>1. CovInit => CovInv
  BY CoverageAssumption DEF CovInit, CovInv
<1>2. CovInv /\ [CovNext]_covVars => CovInv'
  BY CovStep
<1> QED
  BY <1>1, <1>2, PTL DEF CovSpec

(***************************************************************************)
(* And so each change of a parameter is answered by the engine that        *)
(* landed, and each reset clears what was declared for it                  *)
(* (AnamorphEngine.cpp process, reset).                                    *)
(***************************************************************************)
THEOREM MergedIsAlwaysAnswered == CovSpec => []MergedIsAnswered
<1>1. CovInv => MergedIsAnswered
  BY PassedIsAnswered
<1> QED
  BY <1>1, CoverageInvariant, PTL

-----------------------------------------------------------------------------
(* Versions are in a total order. *)

LEMMA LeastExists ==
  ASSUME NEW T, T \subseteq Nat, T # {}
  PROVE  \E i \in T : \A j \in T : i <= j
<1>1. IsWellFoundedOn(OpToRel(<, Nat), Nat)
  BY NatLessThanWellFounded
<1>2. PICK i \in T : \A j \in T : ~(<<j, i>> \in OpToRel(<, Nat))
  BY <1>1, WFMin
<1>3. \A j \in T : ~(j < i)
  BY <1>2 DEF OpToRel
<1> QED
  BY <1>3

LEMMA AboveOrders ==
  ASSUME NEW u \in Seq(Nat), NEW v \in Seq(Nat), NEW w \in Seq(Nat)
  PROVE  /\ ~Above(v, v)
         /\ Above(u, v) /\ Above(v, w) => Above(u, w)
<1>1. ~Above(v, v)
  <2>1. \A i \in 1..Len(v) : v[i] \in Nat /\ i <= Len(v) /\ ~(v[i] > v[i])
    OBVIOUS
  <2> QED
    BY <2>1 DEF Above
<1>2. ASSUME Above(u, v), Above(v, w) PROVE Above(u, w)
  <2>1. PICK i \in 1..Len(u) : /\ \A j \in 1..i - 1 : j <= Len(v) /\ u[j] = v[j]
                               /\ i > Len(v) \/ u[i] > v[i]
    BY <1>2 DEF Above
  <2>2. PICK k \in 1..Len(v) : /\ \A j \in 1..k - 1 : j <= Len(w) /\ v[j] = w[j]
                               /\ k > Len(w) \/ v[k] > w[k]
    BY <1>2 DEF Above
  <2>3. i \in Nat /\ k \in Nat /\ Len(u) \in Nat /\ Len(v) \in Nat /\ Len(w) \in Nat
    OBVIOUS
  <2>4. CASE i <= k
    <3>1. i <= Len(v) /\ u[i] > v[i]
      BY <2>1, <2>2, <2>3, <2>4
    <3>2. \A j \in 1..i - 1 : j <= Len(w) /\ u[j] = w[j]
      BY <2>1, <2>2, <2>3, <2>4
    <3>3. u[i] \in Nat /\ v[i] \in Nat /\ (i <= Len(w) => w[i] \in Nat)
      <4>1. i \in 1..Len(u) /\ i \in 1..Len(v)
        BY <2>3, <3>1
      <4>2. u[i] \in Nat /\ v[i] \in Nat
        BY <4>1, ElementOfSeq
      <4>3. ASSUME i <= Len(w) PROVE w[i] \in Nat
        <5>1. i \in 1..Len(w)
          BY <2>3, <4>1, <4>3
        <5> QED
          BY <5>1, ElementOfSeq
      <4> QED
        BY <4>2, <4>3
    <3>4. i > Len(w) \/ u[i] > w[i]
      <4>1. CASE i = k
        <5>1. SUFFICES ASSUME i <= Len(w) PROVE u[i] > w[i]
          BY <2>3
        <5>2. v[i] > w[i] /\ u[i] > v[i]
          <6>1. ~(k > Len(w))
            BY <2>3, <4>1, <5>1
          <6> QED
            BY <2>2, <3>1, <4>1, <6>1
        <5>3. PICK x \in Nat, y \in Nat, z \in Nat : x = u[i] /\ y = v[i] /\ z = w[i]
          BY <3>3, <5>1
        <5>4. x > y /\ y > z
          BY <5>2, <5>3
        <5>5. x > z
          BY <5>4
        <5> QED
          BY <5>3, <5>5
      <4>2. CASE i < k
        <5>1. i <= Len(w) /\ v[i] = w[i]
          BY <2>2, <2>3, <4>2
        <5> QED
          BY <3>1, <5>1
      <4> QED
        BY <2>3, <2>4, <4>1, <4>2
    <3> QED
      BY <3>2, <3>4 DEF Above
  <2>5. CASE k < i
    <3>1. k \in 1..Len(u) /\ u[k] = v[k]
      BY <2>1, <2>2, <2>3, <2>5
    <3>2. \A j \in 1..k - 1 : j <= Len(w) /\ u[j] = w[j]
      BY <2>1, <2>2, <2>3, <2>5
    <3>3. k > Len(w) \/ u[k] > w[k]
      BY <2>2, <3>1
    <3> QED
      BY <3>1, <3>2, <3>3 DEF Above
  <2> QED
    BY <2>3, <2>4, <2>5
<1> QED
  BY <1>1, <1>2

\* Two versions are the same, or differ first at a place that orders them.
LEMMA AboveIsTotal ==
  ASSUME NEW v \in Seq(Nat), NEW w \in Seq(Nat)
  PROVE  v = w \/ Above(v, w) \/ Above(w, v)
<1> DEFINE D == {i \in 1..Len(v) : i > Len(w) \/ v[i] # w[i]}
<1>1. Len(v) \in Nat /\ Len(w) \in Nat
  OBVIOUS
<1>2. CASE D = {}
  <2>1. \A i \in 1..Len(v) : i <= Len(w) /\ v[i] = w[i]
    BY <1>1, <1>2
  <2>2. Len(v) <= Len(w)
    <3>1. CASE Len(v) = 0
      BY <1>1, <3>1
    <3>2. CASE Len(v) # 0
      <4>1. Len(v) \in 1..Len(v)
        BY <1>1, <3>2
      <4> QED
        BY <2>1, <4>1
    <3> QED
      BY <3>1, <3>2
  <2>3. CASE Len(v) = Len(w)
    <3>1. v = w
      BY <2>1, <2>3, SeqEqual
    <3> QED
      BY <3>1
  <2>4. CASE Len(v) < Len(w)
    <3> DEFINE i == Len(v) + 1
    <3>1. i \in 1..Len(w) /\ i > Len(v)
      BY <1>1, <2>4
    <3>2. \A j \in 1..i - 1 : j <= Len(v) /\ w[j] = v[j]
      BY <1>1, <2>1
    <3> HIDE DEF i
    <3> QED
      BY <3>1, <3>2 DEF Above
  <2> QED
    BY <1>1, <2>2, <2>3, <2>4
<1>3. CASE D # {}
  <2>1. D \subseteq Nat
    OBVIOUS
  <2>2. PICK i \in D : \A j \in D : i <= j
    <3> HIDE DEF D
    <3> QED
      BY <1>3, <2>1, LeastExists
  <2>3. i \in 1..Len(v) /\ (i > Len(w) \/ v[i] # w[i]) /\ i \in Nat
    OBVIOUS
  <2>4. ASSUME NEW j \in 1..i - 1 PROVE j <= Len(w) /\ v[j] = w[j] /\ j <= Len(v)
    <3>1. j \in 1..Len(v) /\ ~(i <= j) /\ j \in Nat
      BY <1>1, <2>3
    <3>2. j \notin D
      BY <2>2, <3>1
    <3> QED
      BY <1>1, <3>1, <3>2
  <2>5. CASE i > Len(w)
    BY <2>3, <2>4, <2>5 DEF Above
  <2>6. CASE i <= Len(w)
    <3>1. v[i] \in Nat /\ w[i] \in Nat /\ v[i] # w[i] /\ i \in 1..Len(w)
      BY <1>1, <2>3, <2>6
    <3>2. v[i] > w[i] \/ w[i] > v[i]
      BY <3>1
    <3> QED
      BY <2>3, <2>4, <3>1, <3>2 DEF Above
  <2> QED
    BY <1>1, <2>3, <2>5, <2>6
<1> QED
  BY <1>2, <1>3

\* One that is not above another is at most that one, a missing number being zero.
LEMMA NotAboveIsAtMost ==
  ASSUME NEW v \in Seq(Nat), NEW w \in Seq(Nat), ~Above(v, w)
  PROVE  AtMost(v, w)
<1> DEFINE at(s, i) == IF i <= Len(s) THEN s[i] ELSE 0
           longest == IF Len(v) > Len(w) THEN Len(v) ELSE Len(w)
<1>1. /\ Len(v) \in Nat /\ Len(w) \in Nat /\ longest \in Nat
      /\ Len(v) <= longest /\ Len(w) <= longest
  OBVIOUS
<1>2. AtMost(v, w) <=> \/ \A i \in 1..longest : at(v, i) = at(w, i)
                      \/ \E i \in 1..longest : /\ at(v, i) < at(w, i)
                                                /\ \A j \in 1..i - 1 : at(v, j) = at(w, j)
  BY DEF AtMost
<1>3. CASE v = w
  BY <1>2, <1>3
<1>4. CASE Above(w, v)
  <2>1. PICK i \in 1..Len(w) : /\ \A j \in 1..i - 1 : j <= Len(v) /\ w[j] = v[j]
                               /\ i > Len(v) \/ w[i] > v[i]
    BY <1>4 DEF Above
  <2>2. i \in 1..longest /\ \A j \in 1..i - 1 : j <= Len(w) /\ at(v, j) = at(w, j)
    BY <1>1, <2>1
  <2>3. CASE i <= Len(v)
    <3>1. at(v, i) < at(w, i)
      BY <1>1, <2>1, <2>3
    <3> HIDE DEF at, longest
    <3> QED
      BY <1>2, <2>2, <3>1
  <2>4. CASE i > Len(v)
    <3> DEFINE T == {k \in 1..longest : at(v, k) # at(w, k)}
    <3>1. CASE T = {}
      <4>1. \A k \in 1..longest : at(v, k) = at(w, k)
        BY <3>1
      <4> HIDE DEF at, longest, T
      <4> QED
        BY <1>2, <4>1
    <3>2. CASE T # {}
      <4>1. T \subseteq Nat
        BY <1>1
      <4>2. PICK k \in T : \A m \in T : k <= m
        <5> HIDE DEF T
        <5> QED
          BY <3>2, <4>1, LeastExists
      <4>3. k \in 1..longest /\ at(v, k) # at(w, k) /\ k \in Nat
        BY <1>1
      <4>4. ASSUME NEW j \in 1..k - 1 PROVE at(v, j) = at(w, j)
        <5>1. j \in 1..longest /\ ~(k <= j)
          BY <1>1, <4>3
        <5>2. j \notin T
          BY <4>2, <5>1
        <5> HIDE DEF at, longest
        <5> QED
          BY <5>1, <5>2
      <4>5. k > Len(v)
        <5>1. ~(k < i)
          <6>1. k < i => k \in 1..i - 1
            BY <4>3, <2>1
          <6> HIDE DEF at, longest
          <6> QED
            BY <2>2, <4>3, <6>1
        <5> QED
          BY <1>1, <2>1, <2>4, <4>3, <5>1
      <4>6. at(v, k) = 0 /\ at(w, k) \in Nat
        BY <1>1, <4>3, <4>5
      <4>7. at(v, k) < at(w, k)
        <5> HIDE DEF at
        <5> QED
          BY <4>3, <4>6
      <4> HIDE DEF at, longest, T
      <4> QED
        BY <1>2, <4>3, <4>4, <4>7
    <3> QED
      BY <3>1, <3>2
  <2> QED
    BY <1>1, <2>1, <2>3, <2>4
<1> QED
  BY <1>3, <1>4, AboveIsTotal

\* Not being above carries over.
LEMMA NotAboveOrders ==
  ASSUME NEW u \in Seq(Nat), NEW t \in Seq(Nat), NEW w \in Seq(Nat), ~Above(u, t), ~Above(t, w)
  PROVE  ~Above(u, w)
<1> SUFFICES ASSUME Above(u, w) PROVE FALSE
  OBVIOUS
<1>1. u = t \/ Above(t, u)
  BY AboveIsTotal
<1>2. Above(t, u) => Above(t, w)
  BY AboveOrders
<1> QED
  BY <1>1, <1>2

\* A family's highest reference is one of them, and none is above it.
LEMMA HighestIs ==
  ASSUME NEW refs, IsFiniteSet(refs), refs \subseteq STRING \X Seq(Nat), NEW f \in Families(refs)
  PROVE  /\ Highest(refs)[f] \in Seq(Nat)
         /\ \A r \in refs : r[1] = f => ~Above(r[2], Highest(refs)[f])
<1> DEFINE R == {r \in refs : r[1] = f}
           U(r) == {x \in R : Above(x[2], r[2])}
           C == {Cardinality(U(r)) : r \in R}
<1>1. R # {} /\ \A r \in R : r \in refs /\ r[1] = f /\ r[2] \in Seq(Nat) /\ r = <<f, r[2]>>
  BY DEF Families
<1>2. \A r \in R : U(r) \in SUBSET refs /\ IsFiniteSet(U(r)) /\ Cardinality(U(r)) \in Nat
  <2> TAKE r \in R
  <2>1. U(r) \in SUBSET refs
    OBVIOUS
  <2> HIDE DEF U
  <2>2. IsFiniteSet(U(r))
    BY <2>1, FS_Subset
  <2> QED
    BY <2>1, <2>2, FS_CardinalityType
<1>3. PICK n \in C : \A m \in C : n <= m
  <2>1. C \subseteq Nat /\ C # {}
    <3> HIDE DEF U, R
    <3> QED
      BY <1>1, <1>2
  <2> HIDE DEF C
  <2> QED
    BY <2>1, LeastExists
<1>4. PICK top \in R : n = Cardinality(U(top))
  OBVIOUS
<1>5. ASSUME NEW x \in R, Above(x[2], top[2]) PROVE FALSE
  <2>1. x \in U(top)
    BY <1>5
  <2>2. U(x) \in SUBSET U(top)
    <3> SUFFICES ASSUME NEW y \in R, Above(y[2], x[2]) PROVE Above(y[2], top[2])
      OBVIOUS
    <3>1. y[2] \in Seq(Nat) /\ x[2] \in Seq(Nat) /\ top[2] \in Seq(Nat)
      BY <1>1
    <3> QED
      BY <1>5, <3>1, AboveOrders
  <2>3. x \notin U(x)
    <3>1. x[2] \in Seq(Nat)
      BY <1>1
    <3> QED
      BY <3>1, AboveOrders
  <2>4. Cardinality(U(x)) \in C /\ Cardinality(U(top)) <= Cardinality(U(x))
    BY <1>3, <1>4
  <2>5. /\ Cardinality(U(x)) \in Nat /\ Cardinality(U(top)) \in Nat /\ IsFiniteSet(U(top))
    <3> HIDE DEF U, R
    <3> QED
      BY <1>2
  <2> HIDE DEF U, C
  <2>6. Cardinality(U(x)) <= Cardinality(U(top)) /\ (Cardinality(U(top)) = Cardinality(U(x)) => U(top) = U(x))
    BY <2>2, <2>5, FS_Subset
  <2>7. U(top) = U(x)
    BY <2>4, <2>5, <2>6
  <2> QED
    BY <2>1, <2>3, <2>7
<1> DEFINE Tops == {v \in {r[2] : r \in refs} :
                     <<f, v>> \in refs /\ \A r \in refs : r[1] = f => ~Above(r[2], v)}
<1>6. top[2] \in Tops
  <2>1. top[2] \in {r[2] : r \in refs} /\ <<f, top[2]>> \in refs
    BY <1>1
  <2>2. \A r \in refs : r[1] = f => ~Above(r[2], top[2])
    BY <1>5
  <2> QED
    BY <2>1, <2>2
<1>7. Highest(refs)[f] = CHOOSE v \in {r[2] : r \in refs} :
        <<f, v>> \in refs /\ \A r \in refs : r[1] = f => ~Above(r[2], v)
  BY DEF Highest
<1>8. Highest(refs)[f] \in Tops
  <2> HIDE DEF R, U, C
  <2> QED
    BY <1>6, <1>7
<1> QED
  BY <1>8

\* What the ABI gate passes it has measured, over every binary.
LEMMA AbiZeroIsMeasured ==
  ASSUME NEW binaries \in Binaries, AbiExit(binaries) = 0
  PROVE  /\ binaries # <<>>
         /\ \A i \in DOMAIN binaries : \A f \in DOMAIN Floors :
              /\ \E r \in binaries[i].refs : r[1] = f
              /\ \A r \in binaries[i].refs : r[1] = f => AtMost(r[2], Floors[f])
<1> DEFINE all == {binaries[i] : i \in DOMAIN binaries}
<1>1. /\ all # {}
      /\ \A b \in all : ~Missing(b.refs) /\ ~Over(b.refs)
  <2>1. AbiExit(binaries) = IF all = {} \/ \E b \in all : ~b.read \/ b.refs = {} THEN 2
                           ELSE IF \E b \in all : Missing(b.refs) THEN 2
                           ELSE IF \E b \in all : Over(b.refs) THEN 1 ELSE 0
    BY DEF AbiExit
  <2> HIDE DEF all
  <2> QED
    BY <2>1
<1>2. binaries # <<>>
  BY <1>1
<1>3. ASSUME NEW i \in DOMAIN binaries, NEW f \in DOMAIN Floors
      PROVE  /\ \E r \in binaries[i].refs : r[1] = f
             /\ \A r \in binaries[i].refs : r[1] = f => AtMost(r[2], Floors[f])
  <2>1. PICK refs : refs = binaries[i].refs
    OBVIOUS
  <2>2. /\ IsFiniteSet(refs) /\ refs \subseteq STRING \X Seq(Nat) /\ Floors[f] \in Seq(Nat)
        /\ ~Missing(refs) /\ ~Over(refs)
    BY <1>1, <2>1, ArtifactsAssumption
  <2>3. f \in Families(refs)
    BY <2>2 DEF Missing
  <2>4. ~Above(Highest(refs)[f], Floors[f])
    BY <2>2, <2>3 DEF Over
  <2>5. ASSUME NEW r \in refs, r[1] = f PROVE AtMost(r[2], Floors[f])
    <3>1. /\ r[2] \in Seq(Nat) /\ Highest(refs)[f] \in Seq(Nat)
          /\ ~Above(r[2], Highest(refs)[f])
      BY <2>2, <2>3, <2>5, HighestIs
    <3>2. ~Above(r[2], Floors[f])
      BY <2>2, <2>4, <3>1, NotAboveOrders
    <3> QED
      BY <2>2, <3>1, <3>2, NotAboveIsAtMost
  <2>6. \E r \in refs : r[1] = f
    BY <2>3 DEF Families
  <2> QED
    BY <2>1, <2>5, <2>6
<1> QED
  BY <1>2, <1>3

\* A dump that was read names each scenario on one line.
LEMMA ReadNamesOnce ==
  ASSUME NEW d, NEW suite, read_dump(d, suite).valid, NEW s \in Scenarios
  PROVE  /\ d.read
         /\ \E i \in DOMAIN d.lines : /\ LinesOf(d, s) = {i}
                                      /\ d.lines[i] \in read_dump(d, suite).records
                                      /\ d.lines[i].name = s
<1>1. d.read /\ read_dump(d, suite) = parse_dump(d.lines, suite)
  BY DEF read_dump
<1> DEFINE named == {i \in DOMAIN d.lines : d.lines[i].name # "header"}
<1>2. /\ read_dump(d, suite).records = {d.lines[i] : i \in named}
      /\ \A i, j \in named : d.lines[i].name = d.lines[j].name => i = j
      /\ Scenarios \subseteq {d.lines[i].name : i \in named}
  BY <1>1 DEF parse_dump
<1>3. PICK i \in named : d.lines[i].name = s
  BY <1>2
<1>4. LinesOf(d, s) = {i}
  <2>1. s # "header"
    BY ArtifactsAssumption
  <2>2. \A j \in DOMAIN d.lines : d.lines[j].name = s => j \in named /\ j = i
    BY <1>2, <1>3, <2>1
  <2> QED
    BY <1>3, <2>2 DEF LinesOf
<1> QED
  BY <1>1, <1>2, <1>3, <1>4

\* What a comparison answers, and when it answers that the dumps are the same.
LEMMA AssessIs ==
  ASSUME NEW asked \in {"ab", "c"}, NEW left, NEW right, NEW suite
  PROVE  LET a == assess(asked, left, right, suite)
         IN  /\ a.exit \in {0, 1, 2} /\ (asked = "c" => a.exit = 0)
             /\ asked = "ab" /\ a.exit = 0 =>
                  /\ read_dump(left, suite).valid /\ read_dump(right, suite).valid
                  /\ \A f \in ScenarioFields(suite) :
                       \A r \in read_dump(left, suite).records, q \in read_dump(right, suite).records :
                         r.name = q.name => r[f] = q[f]
<1>1. PICK a, b : a = read_dump(left, suite) /\ b = read_dump(right, suite)
  OBVIOUS
<1> DEFINE Same == \A f \in ScenarioFields(suite) : \A r \in a.records, q \in b.records :
                     r.name = q.name => r[f] = q[f]
<1>2. assess(asked, left, right, suite) =
        IF ~a.valid \/ ~b.valid
        THEN [class |-> "nothing", exit |-> IF asked = "ab" THEN 2 ELSE 0]
        ELSE IF \E f \in ScenarioFields(suite) : \E r \in a.records, q \in b.records :
                  r.name = q.name /\ r[f] # q[f]
        THEN [class |-> "different", exit |-> IF asked = "ab" THEN 1 ELSE 0]
        ELSE [class |-> "identical", exit |-> 0]
  BY <1>1 DEF assess
<1>3. CASE ~a.valid \/ ~b.valid
  BY <1>2, <1>3
<1>4. CASE a.valid /\ b.valid /\ ~Same
  BY <1>2, <1>4
<1>5. CASE a.valid /\ b.valid /\ Same
  <2>1. assess(asked, left, right, suite) = [class |-> "identical", exit |-> 0]
    BY <1>2, <1>5
  <2> QED
    BY <1>1, <1>5, <2>1
<1> QED
  BY <1>3, <1>4, <1>5

-----------------------------------------------------------------------------
(* One call of one gate. *)

\* What the gates without evidence answer.
JudgedExit ==
  CASE question.gate = "abi" -> AbiExit(question.binaries)
    [] question.gate = "lint" -> LintExit(question.scanned, question.violations, question.package)
    [] question.gate = "canary" -> CanaryExit(question.modules, question.baseline,
                                              question.deduced, question.explicit)

\* The dumps are never written, and an answer of the comparison itself has left its evidence.
GatesInv ==
  /\ question \in Asked
  /\ apc \in {"paths", "report", "summary", "rewrite", "judge", "returned"}
  /\ apc # "returned" => gateExit = -1
  /\ apc \in {"paths", "report", "summary", "rewrite"} => question.gate = "dump"
  /\ apc = "judge" => question.gate # "dump"
  /\ apc \in {"report", "summary", "rewrite"} => ~UnsafePaths(question.paths)
  /\ DOMAIN files = {"left", "right", "report", "summary"}
  /\ files.left = Holding("raw") /\ files.right = Holding("raw")
  /\ apc = "summary" => SummaryOn(question.paths) /\ files.report = Assessment
  /\ apc = "returned" /\ question.gate # "dump" => gateExit = JudgedExit
  /\ apc = "returned" /\ question.gate = "dump" =>
       \/ gateExit = Unavailable(question.mode).exit
       \/ /\ gateExit = Assessment.exit /\ files.report = Assessment
          /\ SummaryOn(question.paths) => files.summary = Assessment

LEMMA DumpQuestionIs ==
  ASSUME NEW q \in Asked, q.gate = "dump"
  PROVE  /\ q.mode \in {"ab", "c"}
         /\ ~UnsafePaths(q.paths) =>
              /\ q.paths.report = "report"
              /\ SummaryOn(q.paths) => q.paths.summary = "summary"
BY DEF Asked, UnsafePaths, SummaryOn

LEMMA JudgedQuestionIs ==
  ASSUME NEW q \in Asked, q.gate # "dump"
  PROVE  q.gate \in {"abi", "lint", "canary"} /\ (q.gate = "abi" => q.binaries \in Binaries)
BY DEF Asked

LEMMA GatesStep ==
  ASSUME GatesInv, [GatesNext]_gateVars
  PROVE  GatesInv'
<1>1. ASSUME CheckPaths PROVE GatesInv'
  BY <1>1 DEF CheckPaths, Return, GatesInv, Assessment, JudgedExit
<1>2. ASSUME NEW ok \in BOOLEAN, WriteReport(ok) PROVE GatesInv'
  <2>1. /\ apc = "report" /\ question' = question /\ question \in Asked
        /\ question.gate = "dump" /\ ~UnsafePaths(question.paths) /\ gateExit = -1
    BY <1>2 DEF WriteReport, GatesInv
  <2>2. question.paths.report = "report"
    BY <2>1, DumpQuestionIs
  <2>3. /\ files' = [files EXCEPT !["report"] = Assessment] \/ ~ok
        /\ files' \in {files, [files EXCEPT !["report"] = Holding("torn")]} \/ ok
    BY <1>2, <2>2 DEF WriteReport, Put
  <2>4. /\ DOMAIN files' = {"left", "right", "report", "summary"}
        /\ files'.left = Holding("raw") /\ files'.right = Holding("raw")
        /\ ok => files'.report = Assessment
    BY <2>3 DEF GatesInv
  <2>5. Assessment' = Assessment
    BY <2>1 DEF Assessment
  <2>6. \/ ~ok /\ apc' = "rewrite" /\ gateExit' = gateExit
        \/ ok /\ SummaryOn(question.paths) /\ apc' = "summary" /\ gateExit' = gateExit
        \/ ok /\ ~SummaryOn(question.paths) /\ apc' = "returned" /\ gateExit' = Assessment.exit
    BY <1>2 DEF WriteReport, Return
  <2> QED
    BY <2>1, <2>4, <2>5, <2>6 DEF GatesInv
<1>3. ASSUME NEW ok \in BOOLEAN, AppendSummary(ok) PROVE GatesInv'
  <2>1. /\ apc = "summary" /\ question' = question /\ question \in Asked
        /\ question.gate = "dump" /\ ~UnsafePaths(question.paths) /\ gateExit = -1
        /\ SummaryOn(question.paths) /\ files.report = Assessment
    BY <1>3 DEF AppendSummary, GatesInv
  <2>2. question.paths.summary = "summary"
    BY <2>1, DumpQuestionIs
  <2>3. /\ files' = [files EXCEPT !["summary"] = Assessment] \/ ~ok
        /\ files' \in {files, [files EXCEPT !["summary"] = Holding("torn")]} \/ ok
    BY <1>3, <2>2 DEF AppendSummary, Put
  <2>4. /\ DOMAIN files' = {"left", "right", "report", "summary"}
        /\ files'.left = Holding("raw") /\ files'.right = Holding("raw")
        /\ files'.report = Assessment /\ (ok => files'.summary = Assessment)
    BY <2>1, <2>3 DEF GatesInv
  <2>5. Assessment' = Assessment
    BY <2>1 DEF Assessment
  <2>6. \/ ~ok /\ apc' = "rewrite" /\ gateExit' = gateExit
        \/ ok /\ apc' = "returned" /\ gateExit' = Assessment.exit
    BY <1>3 DEF AppendSummary, Return
  <2> QED
    BY <2>1, <2>4, <2>5, <2>6 DEF GatesInv
<1>4. ASSUME NEW ok \in BOOLEAN, RewriteReport(ok) PROVE GatesInv'
  <2>1. /\ apc = "rewrite" /\ question' = question /\ question \in Asked
        /\ question.gate = "dump" /\ ~UnsafePaths(question.paths)
        /\ apc' = "returned" /\ gateExit' = Unavailable(question.mode).exit
    BY <1>4 DEF RewriteReport, Return, GatesInv
  <2>2. question.paths.report = "report"
    BY <2>1, DumpQuestionIs
  <2>3. \E value : files' = files \/ files' = [files EXCEPT !["report"] = value]
    BY <1>4, <2>2 DEF RewriteReport, Put
  <2>4. /\ DOMAIN files' = {"left", "right", "report", "summary"}
        /\ files'.left = Holding("raw") /\ files'.right = Holding("raw")
    BY <2>3 DEF GatesInv
  <2> QED
    BY <2>1, <2>4 DEF GatesInv
<1>5. ASSUME JudgeInputs PROVE GatesInv'
  <2>1. /\ apc = "judge" /\ UNCHANGED <<question, files>>
        /\ apc' = "returned" /\ gateExit' = JudgedExit
    BY <1>5 DEF JudgeInputs, Return, JudgedExit
  <2>2. JudgedExit' = JudgedExit
    BY <2>1 DEF JudgedExit
  <2> QED
    BY <2>1, <2>2 DEF GatesInv
<1>6. ASSUME UNCHANGED gateVars PROVE GatesInv'
  BY <1>6 DEF gateVars, GatesInv, Assessment, JudgedExit
<1> QED
  BY <1>1, <1>2, <1>3, <1>4, <1>5, <1>6 DEF GatesNext

(***************************************************************************)
(* For any scenarios, dumps, binaries, floors and packaging scripts: what  *)
(* a gate returned is what it found, or "nothing learned", and the two     *)
(* dumps are as they were handed in (check-dsp-dump.py main).              *)
(***************************************************************************)
THEOREM GatesInvariant == GatesSpec => []GatesInv
<1>1. GatesInit => GatesInv
  <2> SUFFICES ASSUME GatesInit PROVE GatesInv
    OBVIOUS
  <2>1. DOMAIN files = {"left", "right", "report", "summary"} /\ files.left = Holding("raw")
        /\ files.right = Holding("raw")
    BY DEF GatesInit, Untouched
  <2> QED
    BY <2>1 DEF GatesInit, GatesInv
<1>2. GatesInv /\ [GatesNext]_gateVars => GatesInv'
  BY GatesStep
<1> QED
  BY <1>1, <1>2, PTL DEF GatesSpec

LEMMA ExitWasMeasured ==
  ASSUME GatesInv
  PROVE  ExitIsMeasured
<1> SUFFICES ASSUME gateExit = 0
    PROVE  CASE question.gate = "dump" ->
             question.mode = "ab" => /\ question.left.read /\ question.right.read
                                     /\ SaysTheSame(question)
        [] question.gate = "abi" ->
             /\ question.binaries # <<>>
             /\ \A i \in DOMAIN question.binaries : \A f \in DOMAIN Floors :
                    /\ \E r \in question.binaries[i].refs : r[1] = f
                    /\ \A r \in question.binaries[i].refs : r[1] = f => AtMost(r[2], Floors[f])
        [] question.gate = "lint" ->
             \A l \in question.package[1] \cup question.package[2] :
                 ~l.comment => \A k \in {1, 2} : \E o \in question.package[k] :
                                    o.name = l.name /\ ~o.comment
        [] OTHER -> /\ question.baseline = "ok" /\ question.deduced = "ok"
                    /\ question.explicit = "simd"
  BY DEF ExitIsMeasured
<1>1. apc = "returned" /\ question \in Asked
  BY DEF GatesInv
<1>2. CASE question.gate = "dump"
  <2> SUFFICES ASSUME question.mode = "ab"
               PROVE  question.left.read /\ question.right.read /\ SaysTheSame(question)
    BY <1>2
  <2>1. Assessment.exit = 0
    BY <1>1, <1>2 DEF GatesInv, Unavailable
  <2> DEFINE a == read_dump(question.left, question.suite)
             b == read_dump(question.right, question.suite)
  <2>2. /\ a.valid /\ b.valid
        /\ \A f \in ScenarioFields(question.suite) : \A r \in a.records, q \in b.records :
             r.name = q.name => r[f] = q[f]
    BY <2>1, AssessIs DEF Assessment
  <2>3. SaysTheSame(question)
    <3> SUFFICES ASSUME NEW s \in Scenarios
        PROVE  \E i \in LinesOf(question.left, s), j \in LinesOf(question.right, s) :
                 /\ LinesOf(question.left, s) = {i} /\ LinesOf(question.right, s) = {j}
                 /\ \A f \in ScenarioFields(question.suite) :
                      question.left.lines[i][f] = question.right.lines[j][f]
      BY DEF SaysTheSame
    <3>1. PICK i \in DOMAIN question.left.lines :
            /\ LinesOf(question.left, s) = {i} /\ question.left.lines[i] \in a.records
            /\ question.left.lines[i].name = s
      BY <2>2, ReadNamesOnce
    <3>2. PICK j \in DOMAIN question.right.lines :
            /\ LinesOf(question.right, s) = {j} /\ question.right.lines[j] \in b.records
            /\ question.right.lines[j].name = s
      BY <2>2, ReadNamesOnce
    <3> HIDE DEF a, b
    <3> QED
      BY <2>2, <3>1, <3>2
  <2>4. question.left.read /\ question.right.read
    BY <2>2 DEF read_dump
  <2> QED
    BY <2>3, <2>4
<1>3. CASE question.gate = "abi"
  <2>1. AbiExit(question.binaries) = 0 /\ question.binaries \in Binaries
    BY <1>1, <1>3, JudgedQuestionIs DEF GatesInv, JudgedExit
  <2> QED
    BY <1>3, <2>1, AbiZeroIsMeasured
<1>4. CASE question.gate = "lint"
  <2>1. scratch_names_agree(question.package[1], question.package[2])
    BY <1>1, <1>4 DEF GatesInv, JudgedExit, LintExit
  <2>2. ScratchNames(question.package[1]) = ScratchNames(question.package[2])
    BY <2>1 DEF scratch_names_agree
  <2>3. ASSUME NEW l \in question.package[1] \cup question.package[2], ~l.comment, NEW k \in {1, 2}
        PROVE  \E o \in question.package[k] : o.name = l.name /\ ~o.comment
    <3>1. l.name \in ScratchNames(question.package[1])
      BY <2>2, <2>3 DEF ScratchNames
    <3>2. l.name \in ScratchNames(question.package[k])
      BY <2>2, <3>1
    <3> QED
      BY <3>2 DEF ScratchNames
  <2> QED
    BY <1>4, <2>3
<1>5. CASE question.gate = "canary"
  <2>1. CanaryExit(question.modules, question.baseline, question.deduced, question.explicit) = 0
    BY <1>1, <1>5 DEF GatesInv, JudgedExit
  <2>2. question.baseline = "ok" /\ question.deduced = "ok" /\ question.explicit \notin {"ok", "other"}
    BY <2>1 DEF CanaryExit
  <2>3. question.explicit \in {"ok", "simd", "other"}
    BY <1>1, <1>5 DEF Asked
  <2> QED
    BY <1>5, <2>2, <2>3
<1> QED
  BY <1>1, <1>2, <1>3, <1>4, <1>5, JudgedQuestionIs

LEMMA EvidenceWasKept ==
  ASSUME GatesInv
  PROVE  EvidenceIsKept
<1> SUFFICES ASSUME question.gate = "dump"
    PROVE  /\ files.left = Holding("raw") /\ files.right = Holding("raw")
           /\ question.mode = "c" => gateExit \in {-1, 0}
           /\ question.mode = "ab" /\ gateExit \in {0, 1} =>
                /\ files.report = Assessment /\ Assessment.exit = gateExit
                /\ SummaryOn(question.paths) => files.summary = Assessment
  BY DEF EvidenceIsKept
<1>1. question \in Asked /\ question.mode \in {"ab", "c"}
  BY DumpQuestionIs DEF GatesInv
<1>2. Assessment.exit \in {0, 1, 2} /\ (question.mode = "c" => Assessment.exit = 0)
  BY <1>1, AssessIs DEF Assessment
<1>3. Unavailable(question.mode).exit = IF question.mode = "ab" THEN 2 ELSE 0
  BY DEF Unavailable
<1> QED
  BY <1>1, <1>2, <1>3 DEF GatesInv

(***************************************************************************)
(* For the same: exit 0 was measured, and the evidence of a comparison was *)
(* kept (check-dsp-dump.py, check-linux-abi.py, check-portability.py).     *)
(***************************************************************************)
THEOREM ZeroIsAlwaysMeasured == GatesSpec => []ZeroIsMeasured
<1>1. GatesInv => ZeroIsMeasured
  BY ExitWasMeasured, EvidenceWasKept DEF ZeroIsMeasured
<1> QED
  BY <1>1, GatesInvariant, PTL

=============================================================================
