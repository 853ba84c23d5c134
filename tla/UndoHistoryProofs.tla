-------------------------- MODULE UndoHistoryProofs --------------------------
(***************************************************************************)
(* Proofs about UndoHistory for every set of parameters, every depth and   *)
(* every number of gestures, stores, commands and automation: no slot's    *)
(* history outgrows its depth, the end a step goes forward to is the       *)
(* user's, a closed batch always leaves its edits in a step, and one       *)
(* action of the user's, or one scroll of the wheel, is one step.          *)
(*                                                                         *)
(* The sound, the batch and the steps are typed over the values written so *)
(* far, so that a new one is newer than all there is. A step of the system *)
(* changes the history of at most one slot; what it puts there and takes   *)
(* from there is said once (Becomes, Committing, Taking, WholePushed), and *)
(* serves the types, the room, the ends and the batch alike.               *)
(*                                                                         *)
(* That a step is an action needs an invariant of its own (StepInv), over  *)
(* the names: what the pending batch, the last step and the scroll in      *)
(* progress have in common, and what a poll, a close or a jump may then    *)
(* conclude from a name alone.                                             *)
(***************************************************************************)
EXTENDS UndoHistory, FiniteSetTheorems, SequenceTheorems, TLAPS

-----------------------------------------------------------------------------
(* The inductive invariant. *)

\* What has its values among the first n that were written.
Levels(n)  == [Params -> 0..n]
EndsOf(n)  == [before : 0..n, after : 0..n]
Owns(n)    == UNION {[D -> EndsOf(n)] : D \in SUBSET Params}
SoundsOf(n) == [params : Levels(n), preset : Values]
SidesOf(n) == [params : Levels(n) \cup {Nothing}, preset : Values]
StepsOf(n) ==
  {e \in [owned : Owns(n), made : SUBSET Nat, polls : Nat, before : SidesOf(n), after : SidesOf(n)] :
     e.before.params = Nothing <=> e.after.params = Nothing}

Histories(n) == [Slots -> [undo : Seq(StepsOf(n)), redo : Seq(StepsOf(n))]]

Keys   == Params \cup {NoKey}
Writes == [by : {"user", "host", "session", "preset"}, param : Keys, key : Keys, chain : Nat,
           action : Nat]
Scrolls == [id : Nat, key : Keys, shared : {"no", "poll", "yes"}]
Jobs   == {"tick", "undo", "redo", "switch", "load", "save"}

\* Where the message thread can be, and what it has in hand there.
Points(n) ==
       [pc : {"idle", "undo", "redo", "switch", "load", "save", "baseline", "adopted", "loaded"}]
  \cup [pc : {"poll"}, job : Jobs, sig : Levels(n)]
  \cup [pc : {"captured"}, job : Jobs, sig : Levels(n), fresh : SoundsOf(n)]
  \cup [pc : {"install"}, from : {"undo", "redo"}, entry : StepsOf(n), target : SoundsOf(n)]
  \cup [pc : {"sync"}, of : {"baseline", "adopted"}]
  \cup [pc : {"rebase"}, sig : Levels(n)]

\* The sound and everything made of it.
SoundsTyped(n) ==
  /\ live \in Levels(n) /\ preset \in Values
  /\ owned \in Owns(n)
  /\ committed \in SoundsOf(n) /\ committedSig \in Levels(n)
  /\ abSlot \in [Slots -> SoundsOf(n)]
  /\ abUndo \in Histories(n)
  /\ m \in Points(n)

\* The rest.
FlagsTyped ==
  /\ marks \subseteq {"polled", "open", "edge"} /\ automating \subseteq Params
  /\ {restored, userTransaction, foreignSinceEdge, pendingGestureCommit, pendingStepNamed,
      committedNeedsResync} \subseteq BOOLEAN
  /\ held \subseteq Params /\ IsFiniteSet(held) /\ openGestures \in Nat
  /\ {wheelStepKey, pendingStepWheelKey, lastStepWheelKey} \subseteq Keys
  /\ episode \in [Params -> SUBSET {"gesture", "declared", "refused"}]
  /\ abActive \in Slots
  /\ scroll \in Scrolls

LogTyped ==
  /\ log \in Seq(Writes) /\ {opened, acted} \subseteq Nat
  /\ Len(log) + opened + acted <= MaxInputs + 1
  /\ made \subseteq DOMAIN log

\* A preset is loaded within the bound on what is written.
LoadInv ==
  m.pc = "load" \/ (m.pc \in {"poll", "captured"} /\ m.job = "load") => Inputs <= MaxInputs

TypesHold == LogTyped /\ LoadInv /\ FlagsTyped /\ SoundsTyped(Len(log))

\* The control that holds a gesture is counted, unless a jump cut it short, and one
\* that closed has said its end or that it has none.
GestureInv ==
  /\ openGestures = 0 \/ openGestures = Cardinality(held)
  /\ wheelStepKey # NoKey => held = {wheelStepKey} /\ m = Idle
  /\ userTransaction => m = Idle
  /\ m.pc \in {"poll", "captured"} => openGestures = 0
  /\ \A p \in Params : "gesture" \in episode[p]
       => p \in held \/ "declared" \in episode[p] \/ "refused" \in episode[p]

\* The history has room, also for the step that an undo has in hand.
RoomInv ==
  /\ \A s \in Slots : Len(abUndo[s].undo) + Len(abUndo[s].redo) <= Depth
  /\ m.pc = "install" => Len(abUndo[abActive].undo) + Len(abUndo[abActive].redo) < Depth

\* The steps there are, with the one in hand.
HeldBy(s) == Range(abUndo[s].undo) \cup Range(abUndo[s].redo)
Taken     == IF m.pc = "install" THEN {m.entry} ELSE {}
Stored    == UNION {HeldBy(s) : s \in Slots}
InHistory == Stored \cup Taken

\* A value that the user gave this parameter.
Given(p, v) == v \in DOMAIN log /\ log[v].by = "user" /\ log[v].param = p

StepEnds  == \A e \in InHistory : \A p \in DOMAIN e.owned : Given(p, e.owned[p].after)
BatchEnds == \A p \in DOMAIN owned : owned[p].after = owned[p].before \/ Given(p, owned[p].after)
EndInv    == StepEnds /\ BatchEnds

\* The writes of the pending batch: each is between the ends of its parameter, newer
\* than what was last committed, and waits for a poll that will see it; a command
\* that jumps has polled first.
Polled == \/ m.pc \in {"undo", "redo", "switch", "load", "save", "install", "baseline", "loaded",
                       "rebase"}
          \/ m.pc = "sync" /\ m.of = "baseline"
Steady == {"idle", "undo", "redo", "poll", "captured"}
Between(v) ==
  LET p == log[v].param
  IN  log[v].by = "user" /\ p \in DOMAIN owned /\ owned[p].before < v /\ v <= owned[p].after
Unseen(v) == LET p == log[v].param IN committedSig[p] < v /\ v <= live[p]
MadeIs    == \A v \in made : Between(v) /\ (m.pc \in Steady => Unseen(v))
MadeWaits == made # {} /\ openGestures = 0 => pendingGestureCommit /\ ~Polled
MadeInv   == MadeIs /\ MadeWaits

IInv == TypesHold /\ GestureInv /\ RoomInv /\ EndInv /\ MadeInv

-----------------------------------------------------------------------------
(* The operators. *)

LEMMA OwnsIs ==
  ASSUME NEW n \in Nat, NEW f
  PROVE  /\ f \in Owns(n) => DOMAIN f \subseteq Params /\ f \in [DOMAIN f -> EndsOf(n)]
         /\ DOMAIN f \subseteq Params /\ f \in [DOMAIN f -> EndsOf(n)] => f \in Owns(n)
BY DEF Owns

LEMMA NothingIs ==
  ASSUME NEW n \in Nat
  PROVE  /\ Nothing \in Owns(n) /\ DOMAIN Nothing = {} /\ Nothing \notin Levels(n)
         /\ \A f \in Owns(n) : f # Nothing <=> DOMAIN f # {}
<1>1. DOMAIN Nothing = {} /\ Nothing \in [{} -> EndsOf(n)]
  BY DEF Nothing
<1>2. Nothing \in Owns(n)
  BY <1>1, OwnsIs
<1>3. Nothing \notin Levels(n)
  BY <1>1, UndoAssumption DEF Levels
<1>4. ASSUME NEW f \in Owns(n), DOMAIN f = {} PROVE f = Nothing
  <2>1. f \in [{} -> EndsOf(n)]
    BY <1>4, OwnsIs
  <2> QED
    BY <2>1, <1>1
<1> QED
  BY <1>1, <1>2, <1>3, <1>4

LEMMA WithIs ==
  ASSUME NEW n \in Nat, NEW f \in Owns(n), NEW p \in Params, NEW x \in EndsOf(n)
  PROVE  /\ With(f, p, x) \in Owns(n) /\ DOMAIN With(f, p, x) = DOMAIN f \cup {p}
         /\ With(f, p, x)[p] = x /\ \A q \in DOMAIN f : q # p => With(f, p, x)[q] = f[q]
<1>1. DOMAIN f \subseteq Params /\ f \in [DOMAIN f -> EndsOf(n)]
  BY OwnsIs
<1>2. /\ DOMAIN With(f, p, x) = DOMAIN f \cup {p}
      /\ With(f, p, x) \in [DOMAIN f \cup {p} -> EndsOf(n)]
      /\ With(f, p, x)[p] = x /\ \A q \in DOMAIN f : q # p => With(f, p, x)[q] = f[q]
  BY <1>1 DEF With
<1> QED
  BY <1>1, <1>2, OwnsIs

LEMMA Grow ==
  ASSUME NEW n \in Nat, NEW k \in Nat, n <= k
  PROVE  /\ Levels(n) \subseteq Levels(k) /\ EndsOf(n) \subseteq EndsOf(k) /\ Owns(n) \subseteq Owns(k)
         /\ SoundsOf(n) \subseteq SoundsOf(k) /\ SidesOf(n) \subseteq SidesOf(k)
         /\ StepsOf(n) \subseteq StepsOf(k) /\ Seq(StepsOf(n)) \subseteq Seq(StepsOf(k))
         /\ Points(n) \subseteq Points(k)
<1>1. 0..n \subseteq 0..k
  OBVIOUS
<1>2. Levels(n) \subseteq Levels(k)
  BY <1>1 DEF Levels
<1>3. EndsOf(n) \subseteq EndsOf(k)
  BY <1>1 DEF EndsOf
<1>4. Owns(n) \subseteq Owns(k)
  <2>1. ASSUME NEW f \in Owns(n) PROVE f \in Owns(k)
    <3>1. DOMAIN f \subseteq Params /\ f \in [DOMAIN f -> EndsOf(n)]
      BY OwnsIs
    <3>2. f \in [DOMAIN f -> EndsOf(k)]
      BY <1>3, <3>1
    <3> QED
      BY <3>1, <3>2, OwnsIs
  <2> QED
    BY <2>1
<1>5. SoundsOf(n) \subseteq SoundsOf(k) /\ SidesOf(n) \subseteq SidesOf(k)
  BY <1>2 DEF SoundsOf, SidesOf
<1>6. StepsOf(n) \subseteq StepsOf(k)
  BY <1>4, <1>5 DEF StepsOf
<1>7. Points(n) \subseteq Points(k)
  BY <1>2, <1>5, <1>6 DEF Points
<1>8. Seq(StepsOf(n)) \subseteq Seq(StepsOf(k))
  BY <1>6
<1> QED
  BY <1>2, <1>3, <1>4, <1>5, <1>6, <1>7, <1>8

LEMMA WholeIs ==
  ASSUME NEW n \in Nat, NEW from \in SoundsOf(n), NEW to \in SoundsOf(n)
  PROVE  /\ Whole(from, to) \in StepsOf(n) /\ Whole(from, to).owned = Nothing
         /\ Whole(from, to).made = {} /\ Whole(from, to).polls = 1
<1>1. Nothing \in Owns(n) /\ Nothing \notin Levels(n)
  BY NothingIs
<1>2. from \in SidesOf(n) /\ to \in SidesOf(n) /\ from.params # Nothing /\ to.params # Nothing
  BY <1>1 DEF SoundsOf, SidesOf
<1> QED
  BY <1>1, <1>2 DEF Whole, StepsOf

LEMMA ScopedIs ==
  ASSUME NEW n \in Nat, NEW edits \in Owns(n), NEW from \in Values, NEW to \in Values,
         NEW writes \in SUBSET Nat
  PROVE  /\ Scoped(edits, from, to, writes) \in StepsOf(n)
         /\ Scoped(edits, from, to, writes).owned = edits
         /\ Scoped(edits, from, to, writes).made = writes
         /\ Scoped(edits, from, to, writes).polls = 1 /\ ~IsWhole(Scoped(edits, from, to, writes))
BY DEF Scoped, StepsOf, SidesOf, IsWhole

LEMMA RangeIs ==
  ASSUME NEW s, NEW e
  PROVE  e \in Range(s) <=> \E i \in DOMAIN s : s[i] = e
BY DEF Range

LEMMA Joined ==
  ASSUME NEW S, NEW s \in Seq(S), NEW t \in Seq(S)
  PROVE  \A e \in Range(s \o t) : e \in Range(s) \cup Range(t)
<1>1. /\ Len(s \o t) = Len(s) + Len(t) /\ DOMAIN (s \o t) = 1..Len(s) + Len(t)
      /\ DOMAIN s = 1..Len(s) /\ DOMAIN t = 1..Len(t) /\ {Len(s), Len(t)} \subseteq Nat
      /\ \A i \in 1..Len(s) : (s \o t)[i] = s[i]
      /\ \A i \in Len(s) + 1..Len(s) + Len(t) : (s \o t)[i] = t[i - Len(s)]
  OBVIOUS
<1>2. ASSUME NEW i \in DOMAIN (s \o t) PROVE (s \o t)[i] \in Range(s) \cup Range(t)
  <2>1. CASE i <= Len(s)
    BY <1>1, <2>1 DEF Range
  <2>2. CASE i > Len(s)
    <3>1. i - Len(s) \in DOMAIN t /\ (s \o t)[i] = t[i - Len(s)]
      BY <1>1, <2>2
    <3> QED
      BY <3>1 DEF Range
  <2> QED
    BY <1>1, <2>1, <2>2
<1> QED
  BY <1>2, Zenon DEF Range

\* The step e on top of what is left of the first n of s: all of them, or all but the
\* oldest.
OnTop(t, s, n, e) ==
  /\ t # <<>> /\ t[Len(t)] = e
  /\ \E d \in {0, 1} : \A i \in 1..Len(t) - 1 : i + d \in 1..n /\ t[i] = s[i + d]

LEMMA Pushed ==
  ASSUME NEW S, NEW s \in Seq(S), NEW e \in S, Len(s) <= Depth
  PROVE  /\ PushCapped(s, e) \in Seq(S) /\ Len(PushCapped(s, e)) <= Depth
         /\ \A f \in Range(PushCapped(s, e)) : f \in Range(s) \cup {e}
         /\ e \in Range(PushCapped(s, e)) /\ OnTop(PushCapped(s, e), s, Len(s), e)
<1> DEFINE g == Append(s, e)
<1>1. /\ g \in Seq(S) /\ Len(g) = Len(s) + 1 /\ DOMAIN g = 1..Len(s) + 1 /\ DOMAIN s = 1..Len(s)
      /\ g[Len(s) + 1] = e /\ \A i \in 1..Len(s) : g[i] = s[i]
  OBVIOUS
<1>2. Len(s) \in Nat /\ Depth \in Nat /\ Depth > 0
  BY UndoAssumption
<1>3. \A i \in DOMAIN g : g[i] \in Range(s) \cup {e}
  BY <1>1, <1>2 DEF Range
<1> HIDE DEF g
<1>4. CASE Len(g) > Depth
  <2>1. PushCapped(s, e) = Tail(g)
    BY <1>4 DEF PushCapped, g
  <2>2. /\ Tail(g) \in Seq(S) /\ Len(Tail(g)) = Len(s) /\ DOMAIN Tail(g) = 1..Len(s)
        /\ \A i \in 1..Len(s) : Tail(g)[i] = g[i + 1]
    BY <1>1, <1>2
  <2>3. Len(s) \in DOMAIN Tail(g) /\ Tail(g)[Len(s)] = e
    BY <1>1, <1>2, <1>4, <2>2
  <2>4. \A i \in DOMAIN Tail(g) : i + 1 \in DOMAIN g /\ Tail(g)[i] = g[i + 1]
    BY <1>1, <1>2, <2>2
  <2>5. \A i \in DOMAIN Tail(g) : Tail(g)[i] \in Range(s) \cup {e}
    BY <1>3, <2>4
  <2>6. \A f \in Range(Tail(g)) : f \in Range(s) \cup {e}
    BY <2>5 DEF Range
  <2>7. e \in Range(Tail(g))
    BY <2>3, RangeIs
  <2>8. OnTop(Tail(g), s, Len(s), e)
    <3>1. PICK t \in Seq(S) : t = Tail(g)
      BY <2>2
    <3>2. \A i \in 1..Len(t) - 1 : i + 1 \in 1..Len(s) /\ t[i] = s[i + 1]
      BY <1>1, <1>2, <2>2, <3>1
    <3>3. t # <<>> /\ t[Len(t)] = e
      BY <2>2, <2>3, <3>1
    <3> QED
      BY <3>1, <3>2, <3>3 DEF OnTop
  <2> QED
    BY <2>1, <2>2, <2>6, <2>7, <2>8
<1>5. CASE ~(Len(g) > Depth)
  <2>1. PushCapped(s, e) = g
    BY <1>5 DEF PushCapped, g
  <2>2. \A f \in Range(g) : f \in Range(s) \cup {e}
    BY <1>3 DEF Range
  <2>3. e \in Range(g)
    BY <1>1, <1>2, RangeIs
  <2>4. OnTop(g, s, Len(s), e)
    <3>1. \A i \in 1..Len(g) - 1 : i + 0 \in 1..Len(s) /\ g[i] = s[i + 0]
      BY <1>1, <1>2
    <3>2. g # <<>> /\ g[Len(g)] = e
      BY <1>1, <1>2
    <3> QED
      BY <3>1, <3>2 DEF OnTop
  <2> QED
    BY <1>1, <1>2, <1>5, <2>1, <2>2, <2>3, <2>4
<1> QED
  BY <1>4, <1>5

LEMMA Popped ==
  ASSUME NEW S, NEW s \in Seq(S), s # <<>>
  PROVE  /\ Front(s) \in Seq(S) /\ Len(Front(s)) + 1 = Len(s) /\ Len(Front(s)) \in Nat
         /\ \A f \in Range(Front(s)) : f \in Range(s)
         /\ s[Len(s)] \in S /\ s[Len(s)] \in Range(s) /\ Len(s) \in DOMAIN s
<1>1. Len(s) \in Nat /\ Len(s) > 0 /\ DOMAIN s = 1..Len(s)
  BY EmptySeq
<1>2. /\ Front(s) \in Seq(S) /\ Len(Front(s)) = Len(s) - 1
      /\ \A i \in 1..Len(s) - 1 : Front(s)[i] = s[i]
  <2>1. \A i \in 1..Len(s) - 1 : s[i] \in S
    BY <1>1
  <2>2. /\ SubSeq(s, 1, Len(s) - 1) \in Seq(S)
        /\ Len(SubSeq(s, 1, Len(s) - 1)) = IF 1 <= Len(s) - 1 THEN Len(s) - 1 - 1 + 1 ELSE 0
        /\ \A i \in 1..Len(s) - 1 - 1 + 1 : SubSeq(s, 1, Len(s) - 1)[i] = s[1 + i - 1]
    BY <1>1, <2>1, SubSeqProperties
  <2> QED
    BY <1>1, <2>2 DEF Front
<1>3. DOMAIN Front(s) = 1..Len(s) - 1
  BY <1>1, <1>2
<1>4. \A i \in DOMAIN Front(s) : i \in DOMAIN s /\ Front(s)[i] = s[i]
  BY <1>1, <1>2, <1>3
<1>5. \A f \in Range(Front(s)) : f \in Range(s)
  BY <1>4, RangeIs
<1>6. Len(s) \in DOMAIN s /\ s[Len(s)] \in S
  BY <1>1
<1> QED
  BY <1>1, <1>2, <1>5, <1>6, RangeIs

-----------------------------------------------------------------------------
(* The log, and the flags. *)

\* What was written stays, but for the scroll it is counted to.
LogKept ==
  /\ Len(log) <= Len(log')
  /\ \A v \in DOMAIN log : /\ v \in DOMAIN log'
                           /\ log'[v].by = log[v].by /\ log'[v].param = log[v].param
                           /\ log'[v].key = log[v].key /\ log'[v].action = log[v].action

LEMMA OfNoScrollIs ==
  ASSUME NEW l \in Seq(Writes)
  PROVE  /\ OfNoScroll(l) \in Seq(Writes) /\ Len(OfNoScroll(l)) = Len(l)
         /\ \A v \in DOMAIN l :
              /\ OfNoScroll(l)[v].by = l[v].by /\ OfNoScroll(l)[v].param = l[v].param
              /\ OfNoScroll(l)[v].key = l[v].key /\ OfNoScroll(l)[v].action = l[v].action
<1>1. DOMAIN l = 1..Len(l) /\ Len(l) \in Nat /\ \A v \in 1..Len(l) : l[v] \in Writes
  OBVIOUS
<1>2. ASSUME NEW w \in Writes
      PROVE  /\ [w EXCEPT !.chain = 0] \in Writes /\ [w EXCEPT !.chain = 0].by = w.by
             /\ [w EXCEPT !.chain = 0].param = w.param /\ [w EXCEPT !.chain = 0].key = w.key
             /\ [w EXCEPT !.chain = 0].action = w.action
  BY DEF Writes
<1>3. DOMAIN OfNoScroll(l) = 1..Len(l)
      /\ \A v \in 1..Len(l) : OfNoScroll(l)[v] = IF v \in made THEN [l[v] EXCEPT !.chain = 0] ELSE l[v]
  BY <1>1 DEF OfNoScroll
<1>4. OfNoScroll(l) \in [1..Len(l) -> Writes]
  BY <1>1, <1>2, <1>3 DEF OfNoScroll
<1>5. OfNoScroll(l) \in Seq(Writes) /\ Len(OfNoScroll(l)) = Len(l)
  BY <1>1, <1>4
<1> QED
  BY <1>1, <1>2, <1>3, <1>5

LEMMA WriteIs ==
  ASSUME LogTyped, NEW by \in {"user", "host", "session", "preset"}, NEW p \in Keys, NEW key \in Keys,
         NEW chain \in Nat
  PROVE  /\ Write(by, p, key, chain) \in Writes /\ Write(by, p, key, chain).by = by
         /\ Write(by, p, key, chain).param = p /\ Write(by, p, key, chain).key = key
BY DEF Write, Writes, LogTyped

\* One more write at the end of the log, or two.
LEMMA Logged ==
  ASSUME NEW l \in Seq(Writes), NEW w \in Writes
  PROVE  /\ Append(l, w) \in Seq(Writes) /\ Len(Append(l, w)) = Len(l) + 1
         /\ Append(l, w)[Len(l) + 1] = w /\ \A v \in DOMAIN l : v \in DOMAIN Append(l, w) /\ Append(l, w)[v] = l[v]
         /\ Len(l) + 1 \in DOMAIN Append(l, w)
OBVIOUS

LEMMA LoggedTwice ==
  ASSUME NEW l \in Seq(Writes), NEW w \in Writes, NEW x \in Writes
  PROVE  /\ l \o <<w, x>> \in Seq(Writes) /\ Len(l \o <<w, x>>) = Len(l) + 2
         /\ (l \o <<w, x>>)[Len(l) + 1] = w
         /\ \A v \in DOMAIN l : v \in DOMAIN (l \o <<w, x>>) /\ (l \o <<w, x>>)[v] = l[v]
         /\ Len(l) + 1 \in DOMAIN (l \o <<w, x>>)
OBVIOUS

LEMMA KeysAre == ASSUME FlagsTyped, NEW p \in Params PROVE {p, NoKey, wheelStepKey} \subseteq Keys
BY DEF FlagsTyped, Keys

LEMMA ChainIs == ASSUME FlagsTyped, NEW p PROVE Chain(p) \in Nat
BY DEF FlagsTyped, Chain, Scrolls


\* A longer log that keeps what was written, and what is still pending of it.
LEMMA Lengthened ==
  ASSUME LogTyped, NEW l \in Seq(Writes), NEW k \in Seq(Writes), Len(l) = Len(log), Len(k) >= Len(l),
         \A v \in DOMAIN log : /\ l[v].by = log[v].by /\ l[v].param = log[v].param
                               /\ l[v].key = log[v].key /\ l[v].action = log[v].action,
         \A v \in DOMAIN l : v \in DOMAIN k /\ k[v] = l[v],
         log' = k
  PROVE  LogKept /\ made \subseteq DOMAIN log' /\ (Len(log) + 1 <= Len(k) => NewValue \in DOMAIN log')
<1>1. DOMAIN l = 1..Len(log) /\ DOMAIN log = 1..Len(log) /\ Len(log) \in Nat
  BY DEF LogTyped
<1>2. ASSUME NEW v \in DOMAIN log
      PROVE  /\ v \in DOMAIN log' /\ log'[v].by = log[v].by /\ log'[v].param = log[v].param
             /\ log'[v].key = log[v].key /\ log'[v].action = log[v].action
  <2>1. v \in DOMAIN l
    BY <1>1
  <2>2. v \in DOMAIN k /\ k[v] = l[v]
    BY <2>1
  <2> QED
    BY <2>2
<1>3. made \subseteq DOMAIN log'
  BY <1>2 DEF LogTyped
<1>4. LogKept
  BY <1>2 DEF LogKept
<1>5. DOMAIN k = 1..Len(k) /\ Len(k) \in Nat
  OBVIOUS
<1> QED
  BY <1>1, <1>3, <1>4, <1>5 DEF NewValue

LEMMA AutomateLogs ==
  ASSUME LogTyped, FlagsTyped, NEW p \in Params, Automate(p)
  PROVE  LogTyped' /\ LogKept /\ Len(log') = NewValue /\ made' = made
<1>1. PICK l, w : l = OfNoScroll(log) /\ w = Write("host", p, NoKey, 0)
  OBVIOUS
<1>2. /\ l \in Seq(Writes) /\ Len(l) = Len(log) /\ w \in Writes
      /\ \A v \in DOMAIN log : /\ l[v].by = log[v].by /\ l[v].param = log[v].param
                               /\ l[v].key = log[v].key /\ l[v].action = log[v].action
  <2>1. w \in Writes
    BY <1>1, KeysAre, WriteIs
  <2> QED
    BY <1>1, <2>1, OfNoScrollIs DEF LogTyped
<1>3. log' = Append(l, w) /\ made' = made /\ opened' = opened /\ acted' = acted /\ Inputs < MaxInputs
  BY <1>1 DEF Automate, MayWrite
<1>4. PICK k : k = Append(l, w)
  OBVIOUS
<1>5. k \in Seq(Writes) /\ Len(k) = Len(l) + 1 /\ \A v \in DOMAIN l : v \in DOMAIN k /\ k[v] = l[v]
  BY <1>2, <1>4, Logged
<1>6. Len(k) >= Len(l) /\ log' = k /\ Len(log') = NewValue
  BY <1>2, <1>3, <1>4, <1>5 DEF NewValue
<1>7. LogKept /\ made \subseteq DOMAIN log'
  BY <1>2, <1>5, <1>6, Lengthened
<1> QED
  BY <1>3, <1>4, <1>5, <1>6, <1>7, UndoAssumption DEF LogTyped, Inputs, NewValue

LEMMA AnnouncedLogs ==
  ASSUME LogTyped, FlagsTyped, parameterValueChanged
  PROVE  LogTyped' /\ LogKept /\ Len(log') = Len(log) /\ made' = made
<1>1. log' = OfNoScroll(log) /\ made' = made /\ opened' = opened /\ acted' = acted
  BY DEF parameterValueChanged
<1>2. /\ log' \in Seq(Writes) /\ Len(log') = Len(log) /\ DOMAIN log = 1..Len(log)
      /\ \A v \in DOMAIN log : /\ log'[v].by = log[v].by /\ log'[v].param = log[v].param
                               /\ log'[v].key = log[v].key /\ log'[v].action = log[v].action
  BY <1>1, OfNoScrollIs DEF LogTyped
<1>3. DOMAIN log' = DOMAIN log
  BY <1>2
<1> QED
  BY <1>1, <1>2, <1>3 DEF LogTyped, LogKept

LEMMA RestoreLogs ==
  ASSUME LogTyped, FlagsTyped, Restore
  PROVE  LogTyped' /\ LogKept /\ Len(log') = NewValue /\ made' = made
<1>1. PICK l, w : l = OfNoScroll(log) /\ w = Write("session", NoKey, NoKey, 0)
  OBVIOUS
<1>2. /\ l \in Seq(Writes) /\ Len(l) = Len(log) /\ w \in Writes
      /\ \A v \in DOMAIN log : /\ l[v].by = log[v].by /\ l[v].param = log[v].param
                               /\ l[v].key = log[v].key /\ l[v].action = log[v].action
  <2>1. w \in Writes
    BY <1>1, WriteIs DEF Keys
  <2> QED
    BY <1>1, <2>1, OfNoScrollIs DEF LogTyped
<1>3. log' = Append(l, w) /\ made' = made /\ opened' = opened /\ acted' = acted + 1 /\ Inputs < MaxInputs
  BY <1>1 DEF Restore, MayAsk
<1>4. PICK k : k = Append(l, w)
  OBVIOUS
<1>5. k \in Seq(Writes) /\ Len(k) = Len(l) + 1 /\ \A v \in DOMAIN l : v \in DOMAIN k /\ k[v] = l[v]
  BY <1>2, <1>4, Logged
<1>6. Len(k) >= Len(l) /\ log' = k /\ Len(log') = NewValue
  BY <1>2, <1>3, <1>4, <1>5 DEF NewValue
<1>7. LogKept /\ made \subseteq DOMAIN log'
  BY <1>2, <1>5, <1>6, Lengthened
<1>8. LogTyped'
  <2>1. PICK n \in Nat, o \in Nat, a \in Nat : n = Len(log) /\ o = opened /\ a = acted
    BY DEF LogTyped
  <2>2. n + o + a < MaxInputs /\ MaxInputs \in Nat
    BY <1>3, <2>1, UndoAssumption DEF Inputs
  <2>3. Len(log') = n + 1 /\ opened' = o /\ acted' = a + 1
    BY <1>3, <1>6, <2>1 DEF NewValue
  <2>4. Len(log') + opened' + acted' <= MaxInputs + 1 /\ {opened', acted'} \subseteq Nat
    BY <2>2, <2>3
  <2>5. log' \in Seq(Writes)
    BY <1>5, <1>6
  <2> QED
    BY <1>3, <1>7, <2>4, <2>5 DEF LogTyped
<1> QED
  BY <1>3, <1>6, <1>7, <1>8

\* The preset's sound is new, and of the newest value, or the one that plays.
LEMMA LoadLogs ==
  ASSUME LogTyped, LoadInv, FlagsTyped, LoadPreset
  PROVE  /\ LogTyped' /\ LogKept /\ made' = made
         /\ \/ Len(log') = NewValue /\ live' = [p \in Params |-> NewValue]
            \/ log' = log /\ live' = live
<1>0. made' = made /\ opened' = opened /\ acted' = acted /\ Len(log) + opened + acted <= MaxInputs
  BY DEF LoadPreset, LoadInv, Inputs
<1>1. CASE log' = log /\ live' = live
  BY <1>0, <1>1 DEF LogTyped, LogKept
<1>2. CASE log' = Append(log, Write("preset", NoKey, NoKey, 0)) /\ live' = [p \in Params |-> NewValue]
  <2>1. PICK w, k : w = Write("preset", NoKey, NoKey, 0) /\ k = Append(log, w)
    OBVIOUS
  <2>2. w \in Writes /\ log \in Seq(Writes)
    BY <2>1, WriteIs DEF Keys, LogTyped
  <2>3. k \in Seq(Writes) /\ Len(k) = Len(log) + 1 /\ \A v \in DOMAIN log : v \in DOMAIN k /\ k[v] = log[v]
    BY <2>1, <2>2, Logged
  <2>4. Len(k) >= Len(log) /\ log' = k /\ Len(log') = NewValue
    BY <1>2, <2>1, <2>2, <2>3 DEF NewValue
  <2>5. LogKept /\ made \subseteq DOMAIN log'
    BY <2>2, <2>3, <2>4, Lengthened
  <2> QED
    BY <1>0, <1>2, <2>3, <2>4, <2>5, UndoAssumption DEF LogTyped, Inputs, NewValue
<1> QED
  BY <1>1, <1>2 DEF LoadPreset, Install

\* A store of the user's is the newest value, given that very parameter.
UserStores(p, v) ==
  /\ LogTyped' /\ LogKept /\ v <= Len(log') /\ Given(p, v)'
  /\ made' \subseteq made \cup {v} /\ made \subseteq made'

LEMMA StoreLogs ==
  ASSUME LogTyped, FlagsTyped, NEW p \in Params, Store(p), NEW v, v = NewValue
  PROVE  UserStores(p, v) /\ Len(log') = NewValue
<1>1. PICK l, w : /\ l = IF Alone THEN log ELSE OfNoScroll(log)
                  /\ w = Write("user", p, wheelStepKey, Chain(p))
  OBVIOUS
<1>2. /\ l \in Seq(Writes) /\ Len(l) = Len(log)
      /\ \A i \in DOMAIN log : /\ l[i].by = log[i].by /\ l[i].param = log[i].param
                               /\ l[i].key = log[i].key /\ l[i].action = log[i].action
  BY <1>1, OfNoScrollIs DEF LogTyped
<1>3. w \in Writes /\ w.by = "user" /\ w.param = p
  <2>1. Chain(p) \in Nat
    BY ChainIs
  <2> QED
    BY <1>1, <2>1, KeysAre, WriteIs
<1>4. /\ log' = Append(l, w) /\ opened' = opened /\ acted' = acted /\ Inputs < MaxInputs
      /\ made' \subseteq made \cup {NewValue} /\ made \subseteq made'
  BY <1>1 DEF Store, MayWrite
<1>5. PICK k : k = Append(l, w)
  OBVIOUS
<1>6. k \in Seq(Writes) /\ Len(k) = Len(l) + 1 /\ k[Len(l) + 1] = w
      /\ \A i \in DOMAIN l : i \in DOMAIN k /\ k[i] = l[i]
  BY <1>2, <1>3, <1>5, Logged
<1>7. Len(k) >= Len(l) /\ log' = k /\ Len(log') = NewValue /\ Len(log) + 1 <= Len(k) /\ Len(log) \in Nat
  BY <1>2, <1>4, <1>5, <1>6 DEF NewValue
<1>8. LogKept /\ made \subseteq DOMAIN log' /\ NewValue \in DOMAIN log'
  BY <1>2, <1>6, <1>7, Lengthened
<1>9. log'[NewValue] = w
  BY <1>2, <1>6, <1>7 DEF NewValue
<1>10. LogTyped'
  <2>1. PICK n \in Nat, o \in Nat, a \in Nat : n = Len(log) /\ o = opened /\ a = acted
    BY DEF LogTyped
  <2>2. n + o + a < MaxInputs /\ MaxInputs \in Nat
    BY <1>4, <2>1, UndoAssumption DEF Inputs
  <2>3. Len(log') = n + 1 /\ opened' = o /\ acted' = a
    BY <1>4, <1>7, <2>1 DEF NewValue
  <2>4. Len(log') + opened' + acted' <= MaxInputs + 1 /\ {opened', acted'} \subseteq Nat
    BY <2>2, <2>3
  <2>5. log' \in Seq(Writes) /\ made' \subseteq DOMAIN log'
    BY <1>4, <1>6, <1>7, <1>8
  <2> QED
    BY <2>4, <2>5 DEF LogTyped
<1>11. NewValue <= Len(log')
  BY <1>7 DEF NewValue
<1> QED
  BY <1>3, <1>4, <1>7, <1>8, <1>9, <1>10, <1>11 DEF UserStores, Given

LEMMA StoreAnsweredLogs ==
  ASSUME LogTyped, FlagsTyped, NEW p \in Params, StoreAnswered(p), NEW v, v = NewValue
  PROVE  UserStores(p, v) /\ Len(log') = NewValue + 1
<1>1. PICK l, w, x : /\ l = OfNoScroll(log)
                     /\ w = Write("user", p, wheelStepKey, 0) /\ x = Write("host", p, NoKey, 0)
  OBVIOUS
<1>2. /\ l \in Seq(Writes) /\ Len(l) = Len(log)
      /\ \A i \in DOMAIN log : /\ l[i].by = log[i].by /\ l[i].param = log[i].param
                               /\ l[i].key = log[i].key /\ l[i].action = log[i].action
  BY <1>1, OfNoScrollIs DEF LogTyped
<1>3. w \in Writes /\ w.by = "user" /\ w.param = p /\ x \in Writes
  BY <1>1, KeysAre, WriteIs
<1>4. /\ log' = l \o <<w, x>> /\ opened' = opened /\ acted' = acted /\ Inputs < MaxInputs
      /\ made' \subseteq made \cup {NewValue} /\ made \subseteq made'
  BY <1>1 DEF StoreAnswered, MayWrite
<1>5. PICK k : k = l \o <<w, x>>
  OBVIOUS
<1>6. k \in Seq(Writes) /\ Len(k) = Len(l) + 2 /\ k[Len(l) + 1] = w
      /\ \A i \in DOMAIN l : i \in DOMAIN k /\ k[i] = l[i]
  BY <1>2, <1>3, <1>5, LoggedTwice
<1>7. Len(k) >= Len(l) /\ log' = k /\ Len(log') = NewValue + 1 /\ Len(log) + 1 <= Len(k) /\ Len(log) \in Nat
  BY <1>2, <1>4, <1>5, <1>6 DEF NewValue
<1>8. LogKept /\ made \subseteq DOMAIN log' /\ NewValue \in DOMAIN log'
  BY <1>2, <1>6, <1>7, Lengthened
<1>9. log'[NewValue] = w
  BY <1>2, <1>6, <1>7 DEF NewValue
<1>10. LogTyped'
  <2>1. PICK n \in Nat, o \in Nat, a \in Nat : n = Len(log) /\ o = opened /\ a = acted
    BY DEF LogTyped
  <2>2. n + o + a < MaxInputs /\ MaxInputs \in Nat
    BY <1>4, <2>1, UndoAssumption DEF Inputs
  <2>3. Len(log') = n + 2 /\ opened' = o /\ acted' = a
    BY <1>4, <1>7, <2>1 DEF NewValue
  <2>4. Len(log') + opened' + acted' <= MaxInputs + 1 /\ {opened', acted'} \subseteq Nat
    BY <2>2, <2>3
  <2>5. log' \in Seq(Writes) /\ made' \subseteq DOMAIN log'
    BY <1>4, <1>6, <1>7, <1>8
  <2> QED
    BY <2>4, <2>5 DEF LogTyped
<1>11. NewValue <= Len(log')
  BY <1>7 DEF NewValue
<1> QED
  BY <1>3, <1>4, <1>7, <1>8, <1>9, <1>10, <1>11 DEF UserStores, Given

\* The steps that write nothing.
LEMMA OthersLog ==
  ASSUME LogTyped, LoadInv, FlagsTyped,
         \/ \E p \in Params : (\E wheel \in BOOLEAN : Open(p, wheel)) \/ Close(p)
         \/ BeginUserTransaction \/ EndUserTransaction \/ TimerTick \/ PollCapture \/ PollFold \/ PollCommit
         \/ \E job \in {"undo", "redo", "switch", "load", "save"} : StateCommand(job)
         \/ undo \/ redo \/ ApplyUndoEntry \/ abSwitchTo \/ Saved \/ Baseline \/ Sync
         \/ Loaded \/ CommitPresetSwitchUndoStep \/ abCopyToOther \/ Adopt
  PROVE  LogTyped' /\ LogKept /\ log' = log /\ made' \subseteq made
<1>1. LogTyped /\ log' = log => LogKept
  BY DEF LogTyped, LogKept
<1>2. ASSUME log' = log, made' \subseteq made,
             \/ opened' = opened /\ acted' = acted
             \/ opened' = opened + 1 /\ acted' = acted /\ Inputs < MaxInputs
             \/ opened' = opened /\ acted' = acted + 1 /\ Inputs < MaxInputs
      PROVE  LogTyped' /\ LogKept /\ log' = log /\ made' \subseteq made
  <2>1. PICK n \in Nat : n = Len(log) /\ n = Len(log')
    BY <1>2 DEF LogTyped
  <2>2. opened \in Nat /\ acted \in Nat /\ MaxInputs \in Nat /\ n + opened + acted <= MaxInputs + 1
    BY <2>1, UndoAssumption DEF LogTyped
  <2>3. opened' \in Nat /\ acted' \in Nat /\ n + opened' + acted' <= MaxInputs + 1
    <3>1. Inputs < MaxInputs => n + opened + acted < MaxInputs
      BY <2>1 DEF Inputs
    <3> QED
      BY <1>2, <2>2, <3>1
  <2>4. LogTyped'
    BY <1>2, <2>1, <2>3 DEF LogTyped
  <2> QED
    BY <1>1, <1>2, <2>4
<1>3. CASE \E p \in Params : (\E wheel \in BOOLEAN : Open(p, wheel)) \/ Close(p)
  BY <1>2, <1>3 DEF Open, Close, MayOpen, history
<1>4. CASE BeginUserTransaction \/ EndUserTransaction
  BY <1>2, <1>4 DEF BeginUserTransaction, EndUserTransaction, MayAsk, history
<1>5. CASE TimerTick
  BY <1>2, <1>5 DEF TimerTick, Poll
<1>6. CASE PollCapture \/ PollFold \/ PollCommit
  BY <1>2, <1>6 DEF PollCapture, PollFold, PollCommit, history
<1>7. CASE \E job \in {"undo", "redo", "switch", "load", "save"} : StateCommand(job)
  BY <1>2, <1>7 DEF StateCommand, Poll, MayAct, MayAsk
<1>8. CASE undo \/ redo \/ ApplyUndoEntry \/ abSwitchTo \/ Saved \/ Baseline \/ Loaded \/ Adopt
  BY <1>2, <1>8 DEF undo, redo, TakeEntry, ApplyUndoEntry, abSwitchTo, Saved, Baseline, Loaded, Adopt, history
<1>9. CASE Sync \/ CommitPresetSwitchUndoStep
  BY <1>2, <1>9 DEF Sync, CommitPresetSwitchUndoStep, DropGestures, ResetBatchOwnership
<1>10. CASE abCopyToOther
  BY <1>2, <1>10 DEF abCopyToOther, MayAct, MayAsk
<1> QED
  BY <1>3, <1>4, <1>5, <1>6, <1>7, <1>8, <1>9, <1>10

LEMMA LogHolds ==
  ASSUME LogTyped, LoadInv, FlagsTyped, UndoNext
  PROVE  LogTyped' /\ LogKept
<1>1. CASE \E p \in Params : Automate(p)
  BY <1>1, AutomateLogs
<1>2. CASE parameterValueChanged \/ Restore \/ LoadPreset
  BY <1>2, AnnouncedLogs, RestoreLogs, LoadLogs
<1>3. CASE \E p \in Params : Store(p) \/ StoreAnswered(p)
  <2>1. PICK v : v = NewValue
    OBVIOUS
  <2> QED
    BY <1>3, <2>1, StoreLogs, StoreAnsweredLogs DEF UserStores
<1> QED
  BY <1>1, <1>2, <1>3, OthersLog DEF UndoNext, Host, Controls, Message

LEMMA PointsIs ==
  ASSUME NEW n \in Nat, m \in Points(n)
  PROVE  /\ m.pc = "poll" => m.job \in Jobs /\ m.sig \in Levels(n)
         /\ m.pc = "captured" => m.job \in Jobs /\ m.sig \in Levels(n) /\ m.fresh \in SoundsOf(n)
         /\ m.pc = "install" => m.from \in {"undo", "redo"} /\ m.entry \in StepsOf(n)
                                 /\ m.target \in SoundsOf(n)
         /\ m.pc = "rebase" => m.sig \in Levels(n)
         /\ m.pc = "sync" => m.of \in {"baseline", "adopted"}
         /\ m.pc = "idle" => m = Idle
         /\ m.pc \in {"idle", "undo", "redo", "switch", "load", "save", "baseline", "adopted", "loaded",
                       "poll", "captured", "install", "sync", "rebase"}
BY DEF Points, Idle

\* undo() and redo() take a step in hand, or there is none and they are done.
LEMMA TakenOrDone ==
  ASSUME undo \/ redo
  PROVE  m'.pc \in {"idle", "install"} /\ (m'.pc = "install" \/ abUndo' = abUndo)
<1>1. ASSUME NEW from, NEW end, TakeEntry(from, end)
      PROVE  m'.pc \in {"idle", "install"} /\ (m'.pc = "install" \/ abUndo' = abUndo)
  <2>1. CASE abUndo[abActive][from] = <<>>
    <3>1. m' = Idle /\ abUndo' = abUndo
      BY <1>1, <2>1 DEF TakeEntry
    <3> QED
      BY <3>1 DEF Idle
  <2>2. CASE abUndo[abActive][from] # <<>>
    BY <1>1, <2>2 DEF TakeEntry
  <2> QED
    BY <2>1, <2>2
<1> QED
  BY <1>1 DEF undo, redo

LEMMA LoadHolds ==
  ASSUME TypesHold, UndoNext
  PROVE  LoadInv'
<1> USE DEF TypesHold
<1>0. /\ Len(log) \in Nat /\ opened \in Nat /\ acted \in Nat /\ MaxInputs \in Nat
      /\ Idle.pc = "idle"
  BY UndoAssumption DEF LogTyped, Idle
<1>1. CASE \E p \in Params : Automate(p)
  <2>1. Len(log') = Len(log) + 1
    BY <1>1, AutomateLogs DEF NewValue
  <2> QED
    BY <1>0, <1>1, <2>1 DEF LoadInv, Automate, MayWrite, Inputs
<1>2. CASE parameterValueChanged
  <2>1. Len(log') = Len(log)
    BY <1>2, AnnouncedLogs
  <2> QED
    BY <1>2, <2>1 DEF LoadInv, parameterValueChanged, Inputs
<1>3. CASE Restore \/ (\E p \in Params : Store(p) \/ StoreAnswered(p))
           \/ (\E p \in Params : (\E wheel \in BOOLEAN : Open(p, wheel)) \/ Close(p))
           \/ BeginUserTransaction \/ EndUserTransaction \/ abCopyToOther
  BY <1>0, <1>3 DEF LoadInv, Restore, Store, StoreAnswered, Open, Close, BeginUserTransaction,
                    EndUserTransaction, abCopyToOther, MayAct
<1>4. CASE LoadPreset \/ undo \/ redo \/ ApplyUndoEntry \/ abSwitchTo \/ Saved \/ Baseline \/ Loaded \/ Adopt
           \/ Sync \/ CommitPresetSwitchUndoStep
  <2>1. CASE LoadPreset \/ Loaded \/ Saved \/ Baseline \/ Adopt
    BY <1>0, <2>1 DEF LoadInv, LoadPreset, Loaded, Saved, Baseline, Adopt, Idle
  <2>2. CASE undo \/ redo \/ ApplyUndoEntry
    <3>1. ApplyUndoEntry => m'.pc = "baseline"
      BY DEF ApplyUndoEntry
    <3> QED
      BY <2>2, <3>1, TakenOrDone DEF LoadInv
  <2>3. CASE abSwitchTo \/ Sync \/ CommitPresetSwitchUndoStep
    BY <1>0, <2>3 DEF LoadInv, abSwitchTo, Sync, CommitPresetSwitchUndoStep, Idle
  <2> QED
    BY <1>4, <2>1, <2>2, <2>3
<1>5. CASE PollCapture
  BY <1>0, <1>5 DEF LoadInv, PollCapture, Inputs, history
<1>8. CASE PollFold \/ PollCommit
  <2>1. m.job \in Jobs
    BY <1>8, <1>0, PointsIs DEF SoundsTyped, PollFold, PollCommit
  <2>2. m' = After(m.job) /\ m.pc = "captured" /\ UNCHANGED <<log, opened, acted>>
    BY <1>8 DEF PollFold, PollCommit
  <2>3. m'.pc \notin {"poll", "captured"} /\ (m'.pc = "load" => m.job = "load")
    BY <1>0, <2>1, <2>2 DEF Jobs, After
  <2> QED
    BY <2>2, <2>3 DEF LoadInv, Inputs
<1>6. CASE TimerTick
  BY <1>0, <1>6 DEF LoadInv, TimerTick, Poll, After, Idle
<1>7. CASE \E job \in {"undo", "redo", "switch", "load", "save"} : StateCommand(job)
  <2>1. log' = log /\ acted' = acted + 1 /\ opened' = opened /\ Inputs < MaxInputs
    BY <1>7 DEF StateCommand, Poll, MayAct, MayAsk
  <2> QED
    BY <1>0, <2>1 DEF LoadInv, Inputs
<1> QED
  BY <1>1, <1>2, <1>3, <1>4, <1>5, <1>6, <1>7, <1>8 DEF UndoNext, Host, Controls, Message

LEMMA ScrollIs ==
  ASSUME FlagsTyped, NEW p \in Params
  PROVE  ScrollShared \/ ScrollEnds \/ ScrollPolled \/ ScrollGoesOn(p) => scroll' \in Scrolls
<1>1. scroll \in Scrolls /\ NoKey \in Keys /\ p \in Keys /\ Chain(p) \in Nat
  BY ChainIs DEF FlagsTyped, Keys
<1>2. ScrollEnds => scroll' \in Scrolls
  BY <1>1 DEF ScrollEnds, Scrolls
<1>3. ScrollShared => scroll' \in Scrolls
  BY <1>1 DEF ScrollShared, Scrolls
<1>4. ScrollPolled => scroll' \in Scrolls
  BY <1>1 DEF ScrollPolled, Scrolls
<1>5. [scroll EXCEPT !.key = p, !.id = Chain(p)] \in Scrolls
  BY <1>1 DEF Scrolls
<1> QED
  BY <1>2, <1>3, <1>4, <1>5 DEF ScrollGoesOn

\* The flags of the gestures, the poll and the host.
LEMMA FlagsHold ==
  ASSUME TypesHold, UndoNext
  PROVE  FlagsTyped'
<1>0. FlagsTyped
  BY DEF TypesHold
<1>1. ASSUME NEW p \in Params, Automate(p) PROVE FlagsTyped'
  <2>1. scroll' \in Scrolls
    BY <1>0, <1>1, ScrollIs DEF Automate
  <2> QED
    BY <1>0, <1>1, <2>1 DEF FlagsTyped, Automate, ui, edges, batch, request, base, ab
<1>2. CASE parameterValueChanged \/ Restore \/ LoadPreset
  <2>1. scroll' \in Scrolls
    BY <1>0, <1>2, ScrollIs, UndoAssumption DEF parameterValueChanged, Restore, LoadPreset, FlagsTyped
  <2>2. marks' = {} /\ automating' \subseteq Params /\ restored' \in BOOLEAN
    BY <1>0, <1>2 DEF FlagsTyped, parameterValueChanged, Restore, LoadPreset, Install, Count
  <2> QED
    BY <1>0, <1>2, <2>1, <2>2 DEF FlagsTyped, parameterValueChanged, Restore, LoadPreset,
                    ui, edges, batch, request, base, ab
<1>3. ASSUME NEW p \in Params, Store(p) \/ StoreAnswered(p) PROVE FlagsTyped'
  <2>1. episode' \in [Params -> SUBSET {"gesture", "declared", "refused"}]
    BY <1>0, <1>3 DEF FlagsTyped, Store, StoreAnswered, DeclareWrite, DeclareEndpoint, DeclareRefused, batch
  <2>2. scroll' \in Scrolls
    BY <1>0, <1>3, ScrollIs DEF Store, StoreAnswered
  <2>3. marks' = {}
    BY <1>3 DEF Store, StoreAnswered, Count
  <2> QED
    BY <1>0, <1>3, <2>1, <2>2, <2>3 DEF FlagsTyped, Store, StoreAnswered, ui, edges, request, base, ab
<1>4. ASSUME NEW p \in Params, NEW wheel \in BOOLEAN, Open(p, wheel) PROVE FlagsTyped'
  <2>1. episode' \in [Params -> SUBSET {"gesture", "declared", "refused"}]
    BY <1>0, <1>4 DEF FlagsTyped, Open
  <2>2. held' \subseteq Params /\ IsFiniteSet(held') /\ openGestures' \in Nat
    BY <1>0, <1>4, FS_AddElement DEF FlagsTyped, Open
  <2>3. marks' \subseteq {"polled", "open", "edge"} /\ foreignSinceEdge' \in BOOLEAN /\ wheelStepKey' \in Keys
    BY <1>0, <1>4 DEF FlagsTyped, Open, Mark, Keys
  <2> QED
    BY <1>0, <1>4, <2>1, <2>2, <2>3 DEF FlagsTyped, Open, request, base, ab
<1>5. ASSUME NEW p \in Params, Close(p) PROVE FlagsTyped'
  <2>1. episode' \in [Params -> SUBSET {"gesture", "declared", "refused"}]
    BY <1>0, <1>5 DEF FlagsTyped, Close
  <2>2. held' \subseteq Params /\ IsFiniteSet(held')
    BY <1>0, <1>5, FS_RemoveElement DEF FlagsTyped, Close
  <2>3. openGestures' \in Nat
    BY <1>0, <1>5 DEF FlagsTyped, Close
  <2>4. /\ marks' \subseteq {"polled", "open", "edge"} /\ wheelStepKey' \in Keys
        /\ {pendingStepWheelKey', lastStepWheelKey'} \subseteq Keys
    BY <1>0, <1>5 DEF FlagsTyped, Close, Mark, Keys, request
  <2>5. {pendingGestureCommit', pendingStepNamed'} \subseteq BOOLEAN
    BY <1>0, <1>5 DEF FlagsTyped, Close, request
  <2> QED
    BY <1>0, <1>5, <2>1, <2>2, <2>3, <2>4, <2>5 DEF FlagsTyped, Close, base, ab, history
<1>6. CASE BeginUserTransaction \/ EndUserTransaction
  BY <1>0, <1>6 DEF FlagsTyped, BeginUserTransaction, EndUserTransaction, sound, edges, batch, request, base, ab,
                    history
<1>7. ASSUME NEW job \in Jobs, Poll(job) PROVE FlagsTyped'
  BY <1>0, <1>7 DEF Scrolls, FlagsTyped, Poll, Mark, ui, batch, ab, request, Keys
<1>8. CASE PollCapture \/ PollFold
  BY <1>0, <1>8, ScrollIs, UndoAssumption DEF FlagsTyped, PollCapture, PollFold, Mark, sound, ui, edges, batch, request, base,
                    ab, history, Keys
<1>9. CASE PollCommit
  BY <1>0, <1>9, ScrollIs, UndoAssumption DEF FlagsTyped, PollCommit, Mark, ui, batch, Keys
<1>10. CASE undo \/ redo \/ Saved \/ Loaded \/ Baseline
  BY <1>0, <1>10 DEF FlagsTyped, undo, redo, TakeEntry, Saved, Loaded, Baseline, sound, ui, edges, batch, request,
                    base, ab, history
<1>11. CASE ApplyUndoEntry \/ abSwitchTo
  BY <1>0, <1>11 DEF FlagsTyped, ApplyUndoEntry, abSwitchTo, Install, Count, ui, edges, batch, request, base, history,
                    Slots
<1>12. CASE Adopt \/ abCopyToOther
  BY <1>0, <1>12 DEF FlagsTyped, Adopt, abCopyToOther, sound, ui, edges, batch, request, base, history, Slots
<1>13. CASE Sync \/ CommitPresetSwitchUndoStep
  <2>1. DropGestures /\ scroll' \in Scrolls
    BY <1>0, <1>13, ScrollIs, UndoAssumption DEF Sync, CommitPresetSwitchUndoStep
  <2>2. /\ openGestures' \in Nat /\ marks' \subseteq {"polled", "open", "edge"}
        /\ {foreignSinceEdge', pendingGestureCommit', pendingStepNamed'} \subseteq BOOLEAN
        /\ {pendingStepWheelKey', lastStepWheelKey'} \subseteq Keys
        /\ episode' \in [Params -> SUBSET {"gesture", "declared", "refused"}]
    BY <1>0, <2>1 DEF FlagsTyped, DropGestures, ResetBatchOwnership, Mark, Keys
  <2> QED
    BY <1>0, <1>13, <2>1, <2>2 DEF FlagsTyped, Sync, CommitPresetSwitchUndoStep, ui, ab
<1> QED
  BY <1>1, <1>2, <1>3, <1>4, <1>5, <1>6, <1>7, <1>8, <1>9, <1>10, <1>11, <1>12, <1>13
  DEF UndoNext, Host, Controls, Message, TimerTick, StateCommand, Jobs

-----------------------------------------------------------------------------
(* The sound, and what is made of it. *)

LEMMA PointIn ==
  ASSUME NEW n \in Nat
  PROVE  /\ Idle \in Points(n) /\ \A job \in Jobs : After(job) \in Points(n)
         /\ \A pc \in {"undo", "redo", "switch", "load", "save", "baseline", "adopted", "loaded"} :
              [pc |-> pc] \in Points(n)
         /\ \A job \in Jobs, sig \in Levels(n) : [pc |-> "poll", job |-> job, sig |-> sig] \in Points(n)
         /\ \A job \in Jobs, sig \in Levels(n), fresh \in SoundsOf(n) :
              [pc |-> "captured", job |-> job, sig |-> sig, fresh |-> fresh] \in Points(n)
         /\ \A from \in {"undo", "redo"}, e \in StepsOf(n), target \in SoundsOf(n) :
              [pc |-> "install", from |-> from, entry |-> e, target |-> target] \in Points(n)
         /\ \A of \in {"baseline", "adopted"} : [pc |-> "sync", of |-> of] \in Points(n)
         /\ \A sig \in Levels(n) : [pc |-> "rebase", sig |-> sig] \in Points(n)
<1>1. Idle \in Points(n) /\ \A job \in Jobs : After(job) \in Points(n)
  BY DEF Points, Idle, After, Jobs
<1>2. \A pc \in {"undo", "redo", "switch", "load", "save", "baseline", "adopted", "loaded"} :
        [pc |-> pc] \in Points(n)
  BY DEF Points
<1>3. \A job \in Jobs, sig \in Levels(n) : [pc |-> "poll", job |-> job, sig |-> sig] \in Points(n)
  BY DEF Points
<1>4. \A job \in Jobs, sig \in Levels(n), fresh \in SoundsOf(n) :
        [pc |-> "captured", job |-> job, sig |-> sig, fresh |-> fresh] \in Points(n)
  BY DEF Points
<1>5. \A from \in {"undo", "redo"}, e \in StepsOf(n), target \in SoundsOf(n) :
        [pc |-> "install", from |-> from, entry |-> e, target |-> target] \in Points(n)
  BY DEF Points
<1>6. \A of \in {"baseline", "adopted"} : [pc |-> "sync", of |-> of] \in Points(n)
  BY DEF Points
<1>7. \A sig \in Levels(n) : [pc |-> "rebase", sig |-> sig] \in Points(n)
  BY DEF Points
<1> QED
  BY <1>1, <1>2, <1>3, <1>4, <1>5, <1>6, <1>7

LEMMA SoundsGrown ==
  ASSUME TypesHold, NEW k \in Nat, Len(log) <= k
  PROVE  SoundsTyped(k)
<1>1. Len(log) \in Nat /\ SoundsTyped(Len(log))
  BY DEF TypesHold, LogTyped
<1>2. PICK n \in Nat : n = Len(log)
  BY <1>1
<1>3. /\ Levels(n) \subseteq Levels(k) /\ Owns(n) \subseteq Owns(k)
      /\ SoundsOf(n) \subseteq SoundsOf(k) /\ Seq(StepsOf(n)) \subseteq Seq(StepsOf(k))
      /\ Points(n) \subseteq Points(k)
  BY <1>2, Grow
<1>4. SoundsTyped(n)
  BY <1>1, <1>2
<1>5. abSlot \in [Slots -> SoundsOf(k)] /\ abUndo \in Histories(k)
  BY <1>3, <1>4 DEF SoundsTyped, Histories
<1> QED
  BY <1>3, <1>4, <1>5 DEF SoundsTyped

LEMMA CurrentIs ==
  ASSUME NEW n \in Nat, SoundsTyped(n)
  PROVE  /\ Current \in SoundsOf(n) /\ \A x \in Values : [Current EXCEPT !.preset = x] \in SoundsOf(n)
         /\ Current.params = live /\ \A x : [Current EXCEPT !.preset = x].params = live
BY DEF SoundsTyped, Current, SoundsOf

\* What the other steps leave alone.
LEMMA SoundsSame ==
  ASSUME NEW k \in Nat, SoundsTyped(k), UNCHANGED <<live, preset, owned, committed, committedSig, abSlot, abUndo, m>>
  PROVE  SoundsTyped(k)'
BY DEF SoundsTyped

LEMMA HostSounds ==
  ASSUME NEW k \in Nat, SoundsTyped(k), NewValue \in 0..k,
         parameterValueChanged \/ Restore \/ \E p \in Params : Automate(p)
  PROVE  SoundsTyped(k)'
<1>1. live' \in Levels(k)
  BY DEF SoundsTyped, Levels, Automate, parameterValueChanged, Restore
<1> QED
  BY <1>1 DEF SoundsTyped, Automate, parameterValueChanged, Restore, batch, base, ab

LEMMA OpenSounds ==
  ASSUME NEW k \in Nat, SoundsTyped(k), NEW p \in Params, NEW wheel, Open(p, wheel)
  PROVE  SoundsTyped(k)'
<1>1. PICK mine : /\ mine = IF openGestures = 0 /\ ~pendingGestureCommit THEN Nothing ELSE owned
                  /\ owned' = IF p \in DOMAIN mine THEN mine
                              ELSE With(mine, p, [before |-> live[p], after |-> live[p]])
  BY DEF Open
<1>2. mine \in Owns(k) /\ [before |-> live[p], after |-> live[p]] \in EndsOf(k)
  BY <1>1, NothingIs DEF SoundsTyped, Levels, EndsOf
<1>3. owned' \in Owns(k)
  BY <1>1, <1>2, WithIs
<1> QED
  BY <1>3 DEF SoundsTyped, Open, base, ab

LEMMA OwnedPair ==
  ASSUME NEW n \in Nat, NEW f \in Owns(n), NEW p \in DOMAIN f
  PROVE  p \in Params /\ f[p] \in EndsOf(n) /\ f[p].before \in 0..n /\ f[p].after \in 0..n
<1>1. p \in Params /\ f[p] \in EndsOf(n)
  BY OwnsIs
<1> QED
  BY <1>1 DEF EndsOf

\* A declared end, of a parameter that is owned already.
Endpoint(f, p, v) == [f EXCEPT ![p].after = v]

LEMMA EndpointIs ==
  ASSUME NEW n \in Nat, NEW f \in Owns(n), NEW p \in DOMAIN f, NEW v \in 0..n,
         NEW g, g = Endpoint(f, p, v)
  PROVE  /\ g \in Owns(n) /\ DOMAIN g = DOMAIN f /\ g[p].before = f[p].before /\ g[p].after = v
         /\ \A q \in DOMAIN f : q # p => g[q] = f[q]
<1>1. DOMAIN f \subseteq Params /\ f \in [DOMAIN f -> EndsOf(n)]
  BY OwnsIs
<1>2. f[p] \in EndsOf(n) /\ [f[p] EXCEPT !.after = v] \in EndsOf(n)
      /\ [f[p] EXCEPT !.after = v].before = f[p].before /\ [f[p] EXCEPT !.after = v].after = v
  BY <1>1 DEF EndsOf
<1>3. g \in [DOMAIN f -> EndsOf(n)] /\ DOMAIN g = DOMAIN f /\ g[p] = [f[p] EXCEPT !.after = v]
      /\ \A q \in DOMAIN f : q # p => g[q] = f[q]
  BY <1>1, <1>2 DEF Endpoint
<1>4. g \in Owns(n)
  BY <1>1, <1>3, OwnsIs
<1> QED
  BY <1>2, <1>3, <1>4

\* What a store does to the batch: the parameter it states the end of, if any.
LEMMA DeclaredIs ==
  ASSUME NEW k \in Nat, SoundsTyped(k), NEW p \in Params, NEW v \in 0..k,
         DeclareWrite(p, v) \/ DeclareEndpoint(p, v) \/ DeclareRefused(p)
  PROVE  /\ owned' \in Owns(k) /\ DOMAIN owned \subseteq DOMAIN owned' /\ DOMAIN owned' \subseteq DOMAIN owned \cup {p}
         /\ \A q \in DOMAIN owned : owned'[q].before = owned[q].before /\ (q # p => owned'[q] = owned[q])
         /\ p \in DOMAIN owned' \ DOMAIN owned => owned'[p].before = live[p] /\ owned'[p].after = v
         /\ p \in DOMAIN owned => owned'[p].after \in {owned[p].after, v}
         /\ DeclareWrite(p, v) => p \in DOMAIN owned'
         /\ (DeclareWrite(p, v) \/ DeclareEndpoint(p, v)) /\ p \in DOMAIN owned' => owned'[p].after = v
<1>1. owned \in Owns(k) /\ live[p] \in 0..k
  BY DEF SoundsTyped, Levels
<1>2. CASE DeclareWrite(p, v)
  <2>1. PICK x : /\ x = [before |-> IF p \in DOMAIN owned THEN owned[p].before ELSE live[p], after |-> v]
                 /\ owned' = With(owned, p, x)
    BY <1>2 DEF DeclareWrite
  <2>2. x \in EndsOf(k) /\ x.after = v /\ x.before = IF p \in DOMAIN owned THEN owned[p].before ELSE live[p]
    BY <1>1, <2>1, OwnedPair DEF EndsOf
  <2>3. /\ owned' \in Owns(k) /\ DOMAIN owned' = DOMAIN owned \cup {p} /\ owned'[p] = x
        /\ \A q \in DOMAIN owned : q # p => owned'[q] = owned[q]
    <3>1. PICK g : g = With(owned, p, x)
      OBVIOUS
    <3>2. /\ g \in Owns(k) /\ DOMAIN g = DOMAIN owned \cup {p} /\ g[p] = x
          /\ \A q \in DOMAIN owned : q # p => g[q] = owned[q]
      BY <1>1, <2>2, <3>1, WithIs
    <3>3. owned' = g
      BY <2>1, <3>1
    <3> QED
      BY <3>2, <3>3
  <2> QED
    BY <2>2, <2>3
<1>3. CASE DeclareEndpoint(p, v)
  <2>1. CASE p \in DOMAIN owned
    <3>1. owned' = [owned EXCEPT ![p].after = v]
      BY <1>3, <2>1 DEF DeclareEndpoint
    <3>2. /\ owned' \in Owns(k) /\ DOMAIN owned' = DOMAIN owned /\ owned'[p].before = owned[p].before
          /\ owned'[p].after = v /\ \A q \in DOMAIN owned : q # p => owned'[q] = owned[q]
      <4>1. PICK g : g = Endpoint(owned, p, v)
        OBVIOUS
      <4>2. /\ g \in Owns(k) /\ DOMAIN g = DOMAIN owned /\ g[p].before = owned[p].before
            /\ g[p].after = v /\ \A q \in DOMAIN owned : q # p => g[q] = owned[q]
        <5>1. owned \in Owns(k) /\ p \in DOMAIN owned /\ v \in 0..k
          BY <1>1, <2>1
        <5> QED
          BY <5>1, <4>1, EndpointIs
      <4>3. owned' = g
        BY <3>1, <4>1 DEF Endpoint
      <4> QED
        BY <4>2, <4>3
    <3> QED
      BY <2>1, <3>2
  <2>2. CASE p \notin DOMAIN owned
    <3>1. owned' = owned
      BY <1>3, <2>2 DEF DeclareEndpoint, batch
    <3>2. p \notin DOMAIN owned'
      BY <2>2, <3>1
    <3>3. CASE DeclareWrite(p, v)
      BY <1>2, <3>3
    <3> QED
      BY <1>1, <2>2, <3>1, <3>2, <3>3
  <2> QED
    BY <2>1, <2>2
<1>4. CASE DeclareRefused(p) /\ ~DeclareWrite(p, v) /\ ~DeclareEndpoint(p, v)
  BY <1>1, <1>4 DEF DeclareRefused
<1> QED
  BY <1>2, <1>3, <1>4

LEMMA StoreSounds ==
  ASSUME NEW k \in Nat, SoundsTyped(k), NEW p \in Params,
         \/ Store(p) /\ NewValue \in 0..k
         \/ StoreAnswered(p) /\ {NewValue, NewValue + 1} \subseteq 0..k
  PROVE  SoundsTyped(k)'
<1>1. live' \in Levels(k)
  BY DEF SoundsTyped, Levels, Store, StoreAnswered
<1>2. PICK v \in 0..k : v = NewValue
  OBVIOUS
<1>3. DeclareWrite(p, v) \/ DeclareEndpoint(p, v) \/ DeclareRefused(p)
  BY <1>2 DEF Store, StoreAnswered
<1>4. owned' \in Owns(k)
  BY <1>3, DeclaredIs
<1> QED
  BY <1>1, <1>4 DEF SoundsTyped, Store, StoreAnswered, base, ab

LEMMA CloseSounds ==
  ASSUME NEW k \in Nat, SoundsTyped(k), NEW p \in Params, Close(p)
  PROVE  SoundsTyped(k)'
<1>1. owned \in Owns(k) /\ live \in Levels(k)
  BY DEF SoundsTyped
<1>2. CASE owned' = owned
  BY <1>2 DEF SoundsTyped, Close, base, ab
<1>3. CASE owned' # owned
  <2>1. PICK said : said = IF "declared" \in episode[p] THEN episode
                          ELSE [episode EXCEPT ![p] = @ \cup {"refused"}]
    OBVIOUS
  <2>7. owned' = [q \in DOMAIN owned |-> IF said[q] = {"gesture"}
                                        THEN [owned[q] EXCEPT !.after = live[q]] ELSE owned[q]]
    BY <1>3, <2>1, Zenon DEF Close
  <2>2. DOMAIN owned \subseteq Params /\ owned \in [DOMAIN owned -> EndsOf(k)]
    BY <1>1, OwnsIs
  <2>3. \A q \in DOMAIN owned : live[q] \in 0..k
    BY <1>1, <2>2 DEF Levels
  <2>4. \A q \in DOMAIN owned : owned[q] \in EndsOf(k) /\ [owned[q] EXCEPT !.after = live[q]] \in EndsOf(k)
    BY <2>2, <2>3 DEF EndsOf
  <2>5. owned' \in [DOMAIN owned -> EndsOf(k)] /\ DOMAIN owned' = DOMAIN owned
    BY <2>7, <2>4
  <2>6. owned' \in Owns(k)
    BY <2>2, <2>5, OwnsIs
  <2> QED
    BY <2>6 DEF SoundsTyped, Close, base, ab
<1> QED
  BY <1>2, <1>3

LEMMA PollSounds ==
  ASSUME NEW k \in Nat, SoundsTyped(k), NEW job \in Jobs, Poll(job), preset' \in Values
  PROVE  SoundsTyped(k)'
<1>1. committed' \in SoundsOf(k)
  BY CurrentIs DEF SoundsTyped, Poll
<1>2. live \in Levels(k)
  BY DEF SoundsTyped
<1>3. After(job) \in Points(k) /\ [pc |-> "poll", job |-> job, sig |-> live] \in Points(k)
  BY <1>2, PointIn
<1>4. m' \in Points(k)
  BY <1>3 DEF Poll
<1> QED
  BY <1>1, <1>4 DEF SoundsTyped, Poll, batch, ab

\* What a batch moved; and a step with another stretch of its scroll.
EditsOf(f) == [p \in {q \in DOMAIN f : f[q].before # f[q].after} |-> f[p]]
Merged(f, edits) == [p \in DOMAIN edits \cup DOMAIN f |->
                       IF p \notin DOMAIN f THEN edits[p]
                       ELSE IF p \notin DOMAIN edits THEN f[p]
                       ELSE [f[p] EXCEPT !.after = edits[p].after]]
Stretched(e, edits, to, writes) ==
  [e EXCEPT !.owned = Merged(@, edits), !.after.preset = to, !.made = @ \cup writes, !.polls = @ + 1]

LEMMA EditsAre ==
  ASSUME NEW n \in Nat, NEW f \in Owns(n)
  PROVE  /\ EditsOf(f) \in Owns(n) /\ DOMAIN EditsOf(f) = {q \in DOMAIN f : f[q].before # f[q].after}
         /\ \A p \in DOMAIN EditsOf(f) : EditsOf(f)[p] = f[p]
<1>1. DOMAIN f \subseteq Params /\ f \in [DOMAIN f -> EndsOf(n)]
  BY OwnsIs
<1>2. /\ DOMAIN EditsOf(f) = {q \in DOMAIN f : f[q].before # f[q].after}
      /\ \A p \in DOMAIN EditsOf(f) : EditsOf(f)[p] = f[p]
      /\ EditsOf(f) \in [DOMAIN EditsOf(f) -> EndsOf(n)]
  BY <1>1 DEF EditsOf
<1> QED
  BY <1>1, <1>2, OwnsIs

\* An end of the one that comes last, of every parameter that either owns.
LastEnds(g, f, edits) ==
  /\ DOMAIN g = DOMAIN edits \cup DOMAIN f
  /\ \A p \in DOMAIN edits : g[p].after = edits[p].after
  /\ \A p \in DOMAIN f \ DOMAIN edits : g[p] = f[p]

LEMMA MergedIs ==
  ASSUME NEW n \in Nat, NEW f \in Owns(n), NEW edits \in Owns(n), NEW g, g = Merged(f, edits)
  PROVE  g \in Owns(n) /\ LastEnds(g, f, edits)
<1>1. /\ DOMAIN f \subseteq Params /\ f \in [DOMAIN f -> EndsOf(n)]
      /\ DOMAIN edits \subseteq Params /\ edits \in [DOMAIN edits -> EndsOf(n)]
  BY OwnsIs
<1>2. DOMAIN g = DOMAIN edits \cup DOMAIN f
  BY DEF Merged
<1>3. ASSUME NEW p \in DOMAIN edits \cup DOMAIN f
      PROVE  /\ g[p] \in EndsOf(n)
             /\ p \in DOMAIN edits => g[p].after = edits[p].after
             /\ p \notin DOMAIN edits => g[p] = f[p]
  <2>1. CASE p \notin DOMAIN f
    BY <1>1, <1>3, <2>1 DEF Merged
  <2>2. CASE p \in DOMAIN f /\ p \notin DOMAIN edits
    BY <1>1, <2>2 DEF Merged
  <2>3. CASE p \in DOMAIN f /\ p \in DOMAIN edits
    <3>1. f[p] \in EndsOf(n) /\ edits[p].after \in 0..n
      BY <1>1, <2>3 DEF EndsOf
    <3>2. g[p] = [f[p] EXCEPT !.after = edits[p].after]
      BY <2>3 DEF Merged
    <3> QED
      BY <3>1, <3>2, <2>3 DEF EndsOf
  <2> QED
    BY <2>1, <2>2, <2>3
<1>4. g \in [DOMAIN g -> EndsOf(n)]
  BY <1>2, <1>3 DEF Merged
<1> QED
  BY <1>1, <1>2, <1>3, <1>4, OwnsIs DEF LastEnds

LEMMA StretchedIs ==
  ASSUME NEW n \in Nat, NEW e \in StepsOf(n), NEW edits \in Owns(n), NEW to \in Values, NEW writes \in SUBSET Nat,
         NEW g, g = Stretched(e, edits, to, writes)
  PROVE  /\ g \in StepsOf(n) /\ g.owned = Merged(e.owned, edits) /\ g.made = e.made \cup writes
         /\ IsWhole(g) <=> IsWhole(e)
<1>1. PICK o, a : o = Merged(e.owned, edits) /\ a = [e.after EXCEPT !.preset = to]
  OBVIOUS
<1>2. /\ e.owned \in Owns(n) /\ e.made \in SUBSET Nat /\ e.polls \in Nat
      /\ e.before \in SidesOf(n) /\ e.after \in SidesOf(n)
      /\ e.before.params = Nothing <=> e.after.params = Nothing
  BY DEF StepsOf
<1>3. o \in Owns(n)
  BY <1>1, <1>2, MergedIs
<1>4. a \in SidesOf(n) /\ a.params = e.after.params
  BY <1>1, <1>2 DEF SidesOf
<1>5. g = [owned |-> o, made |-> e.made \cup writes, polls |-> e.polls + 1, before |-> e.before, after |-> a]
  BY <1>1 DEF Stretched, StepsOf
<1>6. g.owned = o /\ g.made = e.made \cup writes /\ g.before = e.before /\ g.after = a
  BY <1>5
<1>7. e.made \cup writes \in SUBSET Nat /\ e.polls + 1 \in Nat
  <2>1. e.made \cup writes \in SUBSET Nat
    BY <1>2
  <2>2. e.polls \in Nat
    BY <1>2
  <2> QED
    BY <2>1, <2>2
<1>8. g \in [owned : Owns(n), made : SUBSET Nat, polls : Nat, before : SidesOf(n), after : SidesOf(n)]
  BY <1>2, <1>3, <1>4, <1>5, <1>7
<1> QED
  BY <1>1, <1>2, <1>4, <1>6, <1>8 DEF StepsOf, IsWhole

\* The last step replaced.
ReplaceLast(s, e) == [s EXCEPT ![Len(s)] = e]

LEMMA Replaced ==
  ASSUME NEW S, NEW s \in Seq(S), s # <<>>, NEW e \in S, NEW t, t = ReplaceLast(s, e)
  PROVE  /\ t \in Seq(S) /\ Len(t) = Len(s)
         /\ \A f \in Range(t) : f \in Range(s) \cup {e}
         /\ e \in Range(t) /\ OnTop(t, s, Len(s) - 1, e)
<1>1. Len(s) \in Nat /\ Len(s) > 0 /\ DOMAIN s = 1..Len(s) /\ Len(s) \in 1..Len(s)
  BY EmptySeq
<1>2. /\ t \in Seq(S) /\ Len(t) = Len(s)
      /\ \A j \in 1..Len(s) : t[j] = IF j = Len(s) THEN e ELSE s[j]
  BY <1>1, ExceptSeq DEF ReplaceLast
<1>3. DOMAIN t = 1..Len(s)
  <2>1. DOMAIN t = 1..Len(t)
    BY <1>2, LenProperties
  <2> QED
    BY <1>2, <2>1
<1>4. ASSUME NEW j \in DOMAIN t PROVE t[j] \in Range(s) \cup {e}
  BY <1>1, <1>2, <1>3, RangeIs
<1>5. Len(s) \in DOMAIN t /\ t[Len(s)] = e
  BY <1>1, <1>2, <1>3
<1>6. \A f \in Range(t) : f \in Range(s) \cup {e}
  BY <1>4, RangeIs
<1>7. e \in Range(t)
  BY <1>5, RangeIs
<1>8. OnTop(t, s, Len(s) - 1, e)
  <2>1. PICK n \in Nat : n = Len(s) /\ n = Len(t) /\ n > 0
    BY <1>1, <1>2
  <2>2. \A i \in 1..n - 1 : i + 0 = i /\ i \in 1..n /\ i # n
    BY <2>1
  <2>3. \A i \in 1..n - 1 : i + 0 \in 1..n - 1 /\ t[i] = s[i + 0]
    BY <1>2, <2>1, <2>2
  <2>4. t # <<>> /\ t[Len(t)] = e
    BY <1>2, <1>5, <2>1, EmptySeq
  <2> QED
    BY <2>1, <2>3, <2>4 DEF OnTop
<1> QED
  BY <1>2, <1>6, <1>7, <1>8

\* Something that was not the user's moved the sound since the batch began.
Foreign == foreignSinceEdge \/ "edge" \notin marks

\* The batch as the next stretch of the last step's scroll, or as a step of its own.
Stretch(s, t, e) ==
  /\ s # <<>> /\ OnTop(t, s, Len(s) - 1, e) /\ e.made = s[Len(s)].made \cup made
Bare(s, t, e) == OnTop(t, s, Len(s), e) /\ e.made = made /\ e.polls = 1

\* What a poll that commits leaves in the history.
Committing(t, e) ==
  /\ ~IsWhole(e) /\ lastStepWheelKey' = IF Foreign THEN NoKey ELSE pendingStepWheelKey
  /\ IF Extends(Foreign) THEN Stretch(abUndo[abActive].undo, t, e) ELSE Bare(abUndo[abActive].undo, t, e)
  /\ abUndo' = [abUndo EXCEPT ![abActive] = [undo |-> t, redo |-> <<>>]]
  /\ Len(t) <= Depth /\ e \in Range(t) /\ made \subseteq e.made
  /\ \A f \in Range(t) : f \in Range(abUndo[abActive].undo) \cup {e}
  /\ \A p \in DOMAIN e.owned :
       \/ \E f \in Range(abUndo[abActive].undo) : p \in DOMAIN f.owned /\ e.owned[p].after = f.owned[p].after
       \/ p \in DOMAIN owned /\ owned[p].before # owned[p].after /\ e.owned[p].after = owned[p].after

LEMMA CommitIs ==
  ASSUME NEW k \in Nat, SoundsTyped(k), LogTyped, FlagsTyped, RoomInv, PollCommit
  PROVE  \/ /\ abUndo' = abUndo /\ \A p \in DOMAIN owned : owned[p].before = owned[p].after
            /\ lastStepWheelKey' = IF Foreign THEN NoKey ELSE lastStepWheelKey
         \/ \E e \in StepsOf(k), t \in Seq(StepsOf(k)) : Committing(t, e)
<1>1. PICK steps, edits, now : steps = abUndo[abActive].undo /\ edits = EditsOf(owned) /\ now = m.fresh.preset
  OBVIOUS
<1>2. /\ steps \in Seq(StepsOf(k)) /\ owned \in Owns(k) /\ now \in Values /\ committed.preset \in Values
      /\ made \in SUBSET Nat /\ Len(steps) <= Depth
  <2>1. /\ abActive \in Slots /\ abUndo \in [Slots -> [undo : Seq(StepsOf(k)), redo : Seq(StepsOf(k))]]
        /\ committed \in SoundsOf(k) /\ owned \in Owns(k) /\ m.pc = "captured"
    BY DEF SoundsTyped, FlagsTyped, PollCommit, Histories
  <2>2. m.fresh \in SoundsOf(k)
    BY <2>1, PointsIs DEF SoundsTyped
  <2>3. abUndo[abActive].undo \in Seq(StepsOf(k)) /\ abUndo[abActive].redo \in Seq(StepsOf(k))
    BY <2>1
  <2>4. Len(abUndo[abActive].undo) \in Nat /\ Len(abUndo[abActive].redo) \in Nat /\ Depth \in Nat
    BY <2>3, UndoAssumption
  <2>5. Len(abUndo[abActive].undo) <= Depth
    <3>1. Len(abUndo[abActive].undo) + Len(abUndo[abActive].redo) <= Depth
      BY <2>1 DEF RoomInv
    <3>2. PICK a \in Nat, b \in Nat : a = Len(abUndo[abActive].undo) /\ b = Len(abUndo[abActive].redo)
      BY <2>4
    <3>3. a + b <= Depth
      BY <3>1, <3>2
    <3>4. a <= Depth
      BY <3>3, UndoAssumption
    <3> QED
      BY <3>2, <3>4
  <2>6. made \in SUBSET Nat
    BY DEF LogTyped
  <2> QED
    BY <1>1, <2>1, <2>2, <2>3, <2>5, <2>6 DEF SoundsOf
<1>3. /\ edits \in Owns(k) /\ DOMAIN edits = {q \in DOMAIN owned : owned[q].before # owned[q].after}
      /\ \A p \in DOMAIN edits : edits[p] = owned[p]
  BY <1>1, <1>2, EditsAre
<1>4. CASE edits = Nothing
  <2>1. abUndo' = abUndo /\ lastStepWheelKey' = IF Foreign THEN NoKey ELSE lastStepWheelKey
    BY <1>1, <1>4 DEF PollCommit, EditsOf, Foreign
  <2>2. DOMAIN edits = {}
    BY <1>4, NothingIs
  <2> QED
    BY <1>3, <2>1, <2>2
<1>5. CASE edits # Nothing
  <2>1. PICK t : /\ abUndo' = [abUndo EXCEPT ![abActive] = [undo |-> t, redo |-> <<>>]]
                 /\ lastStepWheelKey' = IF Foreign THEN NoKey ELSE pendingStepWheelKey
                 /\ \/ /\ steps # <<>> /\ Extends(Foreign) /\ ~IsWhole(steps[Len(steps)])
                       /\ t = ReplaceLast(steps, Stretched(steps[Len(steps)], edits, now, made))
                    \/ ~Extends(Foreign) /\ t = PushCapped(steps, Scoped(edits, committed.preset, now, made))
    <3>1. PICK t : t = IF Extends(Foreign)
                       THEN ReplaceLast(steps, Stretched(steps[Len(steps)], edits, now, made))
                       ELSE PushCapped(steps, Scoped(edits, committed.preset, now, made))
      OBVIOUS
    <3>2. abUndo' = [abUndo EXCEPT ![abActive] = [undo |-> t, redo |-> <<>>]]
      BY <1>1, <1>5, <3>1, ZenonT(60) DEF PollCommit, EditsOf, Stretched, Merged, ReplaceLast, Foreign
    <3>3. Extends(Foreign) => steps # <<>> /\ ~IsWhole(steps[Len(steps)])
      BY <1>1 DEF Extends
    <3>4. lastStepWheelKey' = IF Foreign THEN NoKey ELSE pendingStepWheelKey
      BY <1>1, <1>5, Zenon DEF PollCommit, EditsOf, Foreign
    <3> QED
      BY <3>1, <3>2, <3>3, <3>4
  <2>2. CASE /\ steps # <<>> /\ Extends(Foreign) /\ ~IsWhole(steps[Len(steps)])
             /\ t = ReplaceLast(steps, Stretched(steps[Len(steps)], edits, now, made))
    <3>1. PICK last, e : last = steps[Len(steps)] /\ e = Stretched(last, edits, now, made)
      OBVIOUS
    <3>2. last \in StepsOf(k) /\ last \in Range(steps)
      BY <1>2, <2>2, <3>1, Popped
    <3>3. e \in StepsOf(k) /\ e.owned = Merged(last.owned, edits) /\ e.made = last.made \cup made /\ ~IsWhole(e)
      BY <1>2, <1>3, <2>2, <3>1, <3>2, StretchedIs
    <3>4. PICK old \in Owns(k) : old = last.owned
      BY <3>2 DEF StepsOf
    <3>5. PICK g : g = Merged(old, edits)
      OBVIOUS
    <3>6. LastEnds(g, old, edits)
      BY <1>3, <3>4, <3>5, MergedIs
    <3>7. t = ReplaceLast(steps, e)
      BY <2>2, <3>1
    <3>8. /\ t \in Seq(StepsOf(k)) /\ Len(t) = Len(steps) /\ e \in Range(t)
          /\ \A f \in Range(t) : f \in Range(steps) \cup {e}
          /\ OnTop(t, steps, Len(steps) - 1, e)
      BY <1>2, <2>2, <3>3, <3>7, Replaced
    <3>9. ASSUME NEW p \in DOMAIN e.owned
          PROVE  \/ \E f \in Range(abUndo[abActive].undo) : p \in DOMAIN f.owned /\ e.owned[p].after = f.owned[p].after
                 \/ p \in DOMAIN owned /\ owned[p].before # owned[p].after /\ e.owned[p].after = owned[p].after
      BY <1>1, <1>3, <3>2, <3>3, <3>4, <3>5, <3>6, <3>9 DEF LastEnds
    <3>10. made \subseteq e.made
      BY <3>3
    <3>11. Stretch(steps, t, e)
      BY <2>2, <3>1, <3>3, <3>8 DEF Stretch
    <3>12. Committing(t, e)
      BY <1>1, <1>2, <2>1, <2>2, <3>3, <3>8, <3>9, <3>10, <3>11 DEF Committing
    <3> QED
      BY <3>3, <3>8, <3>12
  <2>3. CASE ~Extends(Foreign) /\ t = PushCapped(steps, Scoped(edits, committed.preset, now, made))
    <3>1. PICK e : e = Scoped(edits, committed.preset, now, made)
      OBVIOUS
    <3>2. e \in StepsOf(k) /\ e.owned = edits /\ e.made = made /\ e.polls = 1 /\ ~IsWhole(e)
      BY <1>2, <1>3, <3>1, ScopedIs
    <3>3. /\ t \in Seq(StepsOf(k)) /\ Len(t) <= Depth /\ e \in Range(t)
          /\ \A f \in Range(t) : f \in Range(steps) \cup {e}
          /\ OnTop(t, steps, Len(steps), e)
      BY <1>2, <2>3, <3>1, <3>2, Pushed
    <3>4. Bare(steps, t, e)
      BY <3>2, <3>3 DEF Bare
    <3>5. ASSUME NEW p \in DOMAIN e.owned
          PROVE  p \in DOMAIN owned /\ owned[p].before # owned[p].after /\ e.owned[p].after = owned[p].after
      BY <1>3, <3>2
    <3>6. Committing(t, e)
      BY <1>1, <2>1, <2>3, <3>2, <3>3, <3>4, <3>5 DEF Committing
    <3> QED
      BY <3>2, <3>3, <3>6
  <2> QED
    BY <2>1, <2>2, <2>3
<1> QED
  BY <1>4, <1>5

\* What a step does to one slot's history: the other's stays.
Becomes(a, x, y) ==
  /\ \A s \in Slots : s # a => abUndo'[s] = abUndo[s]
  /\ abUndo'[a].undo = x /\ abUndo'[a].redo = y

LEMMA StacksAre ==
  ASSUME NEW k \in Nat, SoundsTyped(k), NEW s \in Slots
  PROVE  /\ abUndo[s].undo \in Seq(StepsOf(k)) /\ abUndo[s].redo \in Seq(StepsOf(k))
         /\ Len(abUndo[s].undo) \in Nat /\ Len(abUndo[s].redo) \in Nat
<1>1. abUndo[s].undo \in Seq(StepsOf(k)) /\ abUndo[s].redo \in Seq(StepsOf(k))
  BY DEF SoundsTyped, Histories
<1> QED
  BY <1>1

LEMMA BecomesIs ==
  ASSUME NEW k \in Nat, SoundsTyped(k), NEW a \in Slots, NEW x \in Seq(StepsOf(k)), NEW y \in Seq(StepsOf(k))
  PROVE  /\ abUndo' = [abUndo EXCEPT ![a] = [undo |-> x, redo |-> y]]
              => abUndo' \in Histories(k) /\ Becomes(a, x, y)
         /\ abUndo' = [abUndo EXCEPT ![a].undo = x]
              => abUndo' \in Histories(k) /\ Becomes(a, x, abUndo[a].redo)
         /\ abUndo' = [abUndo EXCEPT ![a].redo = y]
              => abUndo' \in Histories(k) /\ Becomes(a, abUndo[a].undo, y)
<1>1. PICK Q : Q = Seq(StepsOf(k))
  OBVIOUS
<1>2. abUndo \in [Slots -> [undo : Q, redo : Q]] /\ x \in Q /\ y \in Q
  BY <1>1 DEF SoundsTyped, Histories
<1>3. ASSUME abUndo' = [abUndo EXCEPT ![a] = [undo |-> x, redo |-> y]]
      PROVE  abUndo' \in [Slots -> [undo : Q, redo : Q]] /\ Becomes(a, x, y)
  BY <1>2, <1>3 DEF Becomes
<1>4. ASSUME abUndo' = [abUndo EXCEPT ![a].undo = x]
      PROVE  abUndo' \in [Slots -> [undo : Q, redo : Q]] /\ Becomes(a, x, abUndo[a].redo)
  BY <1>2, <1>4 DEF Becomes
<1>5. ASSUME abUndo' = [abUndo EXCEPT ![a].redo = y]
      PROVE  abUndo' \in [Slots -> [undo : Q, redo : Q]] /\ Becomes(a, abUndo[a].undo, y)
  BY <1>2, <1>5 DEF Becomes
<1> QED
  BY <1>1, <1>3, <1>4, <1>5 DEF Histories

\* The entry that undo or redo takes, and the sound it is to install.
Taking(from, e, target) ==
  /\ abUndo[abActive][from] # <<>> /\ e = abUndo[abActive][from][Len(abUndo[abActive][from])]
  /\ m' = [pc |-> "install", from |-> from, entry |-> e, target |-> target]
  /\ abUndo' = [abUndo EXCEPT ![abActive][from] = Front(abUndo[abActive][from])]

LEMMA TakenIs ==
  ASSUME NEW k \in Nat, SoundsTyped(k), FlagsTyped, NEW from \in {"undo", "redo"}, NEW end \in {"before", "after"},
         TakeEntry(from, end)
  PROVE  \/ m' = Idle /\ abUndo' = abUndo
         \/ \E e \in StepsOf(k), target \in SoundsOf(k) : Taking(from, e, target)
<1>1. PICK stack, e, to : stack = abUndo[abActive][from] /\ e = stack[Len(stack)] /\ to = e[end]
  OBVIOUS
<1>2. PICK Ends : Ends = [p \in Params |-> IF p \in DOMAIN e.owned THEN e.owned[p][end] ELSE live[p]]
  OBVIOUS
<1>3. PICK target : target = IF IsWhole(e) THEN to ELSE [to EXCEPT !.params = Ends]
  OBVIOUS
<1>4. CASE stack = <<>>
  BY <1>1, <1>4 DEF TakeEntry
<1>5. CASE stack # <<>>
  <2>1. /\ m' = [pc |-> "install", from |-> from, entry |-> e, target |-> target]
        /\ abUndo' = [abUndo EXCEPT ![abActive][from] = Front(stack)]
    BY <1>1, <1>2, <1>3, <1>5, Zenon DEF TakeEntry
  <2>2. abActive \in Slots /\ stack \in Seq(StepsOf(k))
    BY <1>1, StacksAre DEF FlagsTyped
  <2>3. e \in StepsOf(k)
    BY <1>1, <1>5, <2>2, Popped
  <2>4. /\ e.owned \in Owns(k) /\ e.before \in SidesOf(k) /\ e.after \in SidesOf(k)
        /\ e.before.params = Nothing <=> e.after.params = Nothing
    BY <2>3 DEF StepsOf
  <2>5. Ends \in Levels(k)
    <3>1. PICK f \in Owns(k) : f = e.owned
      BY <2>4
    <3>2. \A p \in DOMAIN f : f[p].before \in 0..k /\ f[p].after \in 0..k
      BY OwnedPair
    <3>3. \A p \in DOMAIN f : f[p][end] \in 0..k
      BY <3>2
    <3>4. \A p \in Params : live[p] \in 0..k
      BY DEF SoundsTyped, Levels
    <3> QED
      BY <1>2, <3>1, <3>3, <3>4 DEF Levels
  <2>6. to \in SidesOf(k) /\ (IsWhole(e) => to.params # Nothing)
    BY <1>1, <2>4 DEF IsWhole
  <2>7. target \in SoundsOf(k)
    BY <1>3, <2>5, <2>6 DEF SidesOf, SoundsOf
  <2>8. Taking(from, e, target)
    BY <1>1, <1>5, <2>1, Zenon DEF Taking
  <2> QED
    BY <2>3, <2>7, <2>8
<1> QED
  BY <1>4, <1>5

\* ... of the active slot's history.
LEMMA TakenMoves ==
  ASSUME NEW k \in Nat, SoundsTyped(k), FlagsTyped, NEW from \in {"undo", "redo"}, NEW e, NEW target,
         Taking(from, e, target)
  PROVE  /\ abUndo' \in Histories(k)
         /\ from = "undo" => /\ abUndo[abActive].undo # <<>> /\ e \in Range(abUndo[abActive].undo)
                             /\ Becomes(abActive, Front(abUndo[abActive].undo), abUndo[abActive].redo)
         /\ from = "redo" => /\ abUndo[abActive].redo # <<>> /\ e \in Range(abUndo[abActive].redo)
                             /\ Becomes(abActive, abUndo[abActive].undo, Front(abUndo[abActive].redo))
<1>1. abActive \in Slots
  BY DEF FlagsTyped
<1>2. abUndo[abActive].undo \in Seq(StepsOf(k)) /\ abUndo[abActive].redo \in Seq(StepsOf(k))
  BY <1>1, StacksAre
<1>3. CASE from = "undo"
  <2>5. PICK s \in Seq(StepsOf(k)) : s = abUndo[abActive].undo
    BY <1>2
  <2>6. PICK x : x = Front(s)
    OBVIOUS
  <2>1. s = abUndo[abActive].undo /\ x = Front(s)
    BY <2>5, <2>6
  <2>2. s # <<>> /\ e = s[Len(s)] /\ abUndo' = [abUndo EXCEPT ![abActive].undo = x]
    BY <1>3, <2>1 DEF Taking
  <2>3. x \in Seq(StepsOf(k)) /\ e \in Range(s)
    BY <2>1, <2>2, Popped
  <2>4. abUndo' \in Histories(k) /\ Becomes(abActive, x, abUndo[abActive].redo)
    BY <1>1, <1>2, <2>2, <2>3, BecomesIs
  <2> QED
    BY <1>3, <2>1, <2>2, <2>3, <2>4
<1>4. CASE from = "redo"
  <2>5. PICK s \in Seq(StepsOf(k)) : s = abUndo[abActive].redo
    BY <1>2
  <2>6. PICK x : x = Front(s)
    OBVIOUS
  <2>1. s = abUndo[abActive].redo /\ x = Front(s)
    BY <2>5, <2>6
  <2>2. s # <<>> /\ e = s[Len(s)] /\ abUndo' = [abUndo EXCEPT ![abActive].redo = x]
    BY <1>4, <2>1 DEF Taking
  <2>3. x \in Seq(StepsOf(k)) /\ e \in Range(s)
    BY <2>1, <2>2, Popped
  <2>4. abUndo' \in Histories(k) /\ Becomes(abActive, abUndo[abActive].undo, x)
    BY <1>1, <1>2, <2>2, <2>3, BecomesIs
  <2> QED
    BY <1>4, <2>1, <2>2, <2>3, <2>4
<1> QED
  BY <1>3, <1>4

LEMMA AppliedMoves ==
  ASSUME NEW k \in Nat, SoundsTyped(k), FlagsTyped, ApplyUndoEntry
  PROVE  /\ abUndo' \in Histories(k) /\ m.entry \in StepsOf(k) /\ m.target \in SoundsOf(k)
         /\ m.from = "undo" => Becomes(abActive, abUndo[abActive].undo, Append(abUndo[abActive].redo, m.entry))
         /\ m.from = "redo" => Becomes(abActive, Append(abUndo[abActive].undo, m.entry), abUndo[abActive].redo)
         /\ m.from \in {"undo", "redo"}
<1>1. abActive \in Slots /\ m.pc = "install"
  BY DEF FlagsTyped, ApplyUndoEntry
<1>2. m.from \in {"undo", "redo"} /\ m.entry \in StepsOf(k) /\ m.target \in SoundsOf(k)
  BY <1>1, PointsIs DEF SoundsTyped
<1>3. abUndo[abActive].undo \in Seq(StepsOf(k)) /\ abUndo[abActive].redo \in Seq(StepsOf(k))
  BY <1>1, StacksAre
<1>4. PICK x \in Seq(StepsOf(k)), y \in Seq(StepsOf(k)) :
        x = Append(abUndo[abActive].undo, m.entry) /\ y = Append(abUndo[abActive].redo, m.entry)
  <2>1. PICK s \in Seq(StepsOf(k)), t \in Seq(StepsOf(k)), e \in StepsOf(k) :
          s = abUndo[abActive].undo /\ t = abUndo[abActive].redo /\ e = m.entry
    BY <1>2, <1>3
  <2>2. Append(s, e) \in Seq(StepsOf(k)) /\ Append(t, e) \in Seq(StepsOf(k))
    BY AppendProperties
  <2> QED
    BY <2>1, <2>2
<1>5. /\ m.from = "undo" => abUndo' = [abUndo EXCEPT ![abActive].redo = y]
      /\ m.from = "redo" => abUndo' = [abUndo EXCEPT ![abActive].undo = x]
  BY <1>2, <1>4 DEF ApplyUndoEntry
<1>6. /\ m.from = "undo" => abUndo' \in Histories(k) /\ Becomes(abActive, abUndo[abActive].undo, y)
      /\ m.from = "redo" => abUndo' \in Histories(k) /\ Becomes(abActive, x, abUndo[abActive].redo)
  BY <1>1, <1>3, <1>5, BecomesIs
<1> QED
  BY <1>2, <1>4, <1>6

\* The room that the active history has for one more step, and the other's.
LEMMA RoomIs ==
  ASSUME NEW k \in Nat, SoundsTyped(k), RoomInv, NEW s \in Slots
  PROVE  Len(abUndo[s].undo) <= Depth /\ Len(abUndo[s].redo) <= Depth
<1>1. PICK a \in Nat, b \in Nat : a = Len(abUndo[s].undo) /\ b = Len(abUndo[s].redo)
  BY StacksAre
<1>2. a + b <= Depth
  BY <1>1 DEF RoomInv
<1>3. a <= Depth /\ b <= Depth
  BY <1>2, UndoAssumption
<1> QED
  BY <1>1, <1>3

\* A step of the whole sound on top of a slot's history, and nothing to redo.
WholePushed(a, t, e) ==
  /\ Len(t) <= Depth /\ e.owned = Nothing /\ e \in Range(t)
  /\ e.made = {} /\ e.polls = 1 /\ OnTop(t, abUndo[a].undo, Len(abUndo[a].undo), e)
  /\ \A f \in Range(t) : f \in Range(abUndo[a].undo) \cup {e}
  /\ Becomes(a, t, <<>>)

LEMMA WholeMoves ==
  ASSUME NEW k \in Nat, SoundsTyped(k), RoomInv, NEW a \in Slots,
         NEW from \in SoundsOf(k), NEW to \in SoundsOf(k),
         abUndo' = [abUndo EXCEPT ![a] = [undo |-> PushCapped(abUndo[a].undo, Whole(from, to)), redo |-> <<>>]]
  PROVE  /\ abUndo' \in Histories(k)
         /\ \E t \in Seq(StepsOf(k)), e \in StepsOf(k) : WholePushed(a, t, e)
<1>1. PICK e \in StepsOf(k) : e = Whole(from, to) /\ e.owned = Nothing /\ e.made = {} /\ e.polls = 1
  BY WholeIs
<1>2. PICK s \in Seq(StepsOf(k)) : s = abUndo[a].undo
  BY StacksAre
<1>3. Len(s) <= Depth
  BY <1>2, RoomIs
<1>4. PICK t : t = PushCapped(s, e)
  OBVIOUS
<1>5. /\ t \in Seq(StepsOf(k)) /\ Len(t) <= Depth /\ e \in Range(t)
      /\ \A f \in Range(t) : f \in Range(s) \cup {e}
      /\ OnTop(t, s, Len(s), e)
  BY <1>3, <1>4, Pushed
<1>6. abUndo' = [abUndo EXCEPT ![a] = [undo |-> t, redo |-> <<>>]] /\ <<>> \in Seq(StepsOf(k))
  BY <1>1, <1>2, <1>4
<1>7. abUndo' \in Histories(k) /\ Becomes(a, t, <<>>)
  BY <1>5, <1>6, BecomesIs
<1>8. WholePushed(a, t, e)
  BY <1>1, <1>2, <1>5, <1>7 DEF WholePushed
<1> QED
  BY <1>5, <1>7, <1>8

LEMMA PresetMoves ==
  ASSUME NEW k \in Nat, SoundsTyped(k), FlagsTyped, RoomInv, CommitPresetSwitchUndoStep
  PROVE  /\ abUndo' \in Histories(k)
         /\ \/ abUndo' = abUndo
            \/ Becomes(abActive, abUndo[abActive].undo, <<>>)
            \/ \E t \in Seq(StepsOf(k)), e \in StepsOf(k) : WholePushed(abActive, t, e)
<1>1. abActive \in Slots /\ committed \in SoundsOf(k) /\ Current \in SoundsOf(k) /\ abUndo \in Histories(k)
      /\ <<>> \in Seq(StepsOf(k))
  BY CurrentIs DEF SoundsTyped, FlagsTyped
<1>2. CASE m.sig # committedSig
  <2>1. abUndo' = [abUndo EXCEPT ![abActive] =
                     [undo |-> PushCapped(abUndo[abActive].undo, Whole(committed, Current)), redo |-> <<>>]]
    BY <1>2, Zenon DEF CommitPresetSwitchUndoStep
  <2> QED
    BY <1>1, <2>1, WholeMoves
<1>3. CASE m.sig = committedSig
  <2>1. abUndo' = abUndo \/ abUndo' = [abUndo EXCEPT ![abActive].redo = <<>>]
    BY <1>3 DEF CommitPresetSwitchUndoStep
  <2>2. abUndo[abActive].undo \in Seq(StepsOf(k))
    BY <1>1, StacksAre
  <2> QED
    BY <1>1, <2>1, <2>2, BecomesIs
<1> QED
  BY <1>2, <1>3

LEMMA CopyMoves ==
  ASSUME NEW k \in Nat, SoundsTyped(k), FlagsTyped, RoomInv, abCopyToOther
  PROVE  /\ abUndo' \in Histories(k) /\ 1 - abActive \in Slots
         /\ \E t \in Seq(StepsOf(k)), e \in StepsOf(k) : WholePushed(1 - abActive, t, e)
<1>1. PICK other \in Slots : other = 1 - abActive
  BY DEF FlagsTyped, Slots
<1>2. abSlot[other] \in SoundsOf(k) /\ Current \in SoundsOf(k)
  BY CurrentIs DEF SoundsTyped
<1>3. abUndo' = [abUndo EXCEPT ![other] =
                   [undo |-> PushCapped(abUndo[other].undo, Whole(abSlot[other], Current)), redo |-> <<>>]]
  BY <1>1, Zenon DEF abCopyToOther
<1> QED
  BY <1>1, <1>2, <1>3, WholeMoves

LEMMA CommitMoves ==
  ASSUME NEW k \in Nat, SoundsTyped(k), FlagsTyped, NEW e \in StepsOf(k), NEW t \in Seq(StepsOf(k)),
         Committing(t, e)
  PROVE  abUndo' \in Histories(k) /\ Becomes(abActive, t, <<>>)
<1>1. abActive \in Slots /\ <<>> \in Seq(StepsOf(k))
  BY DEF FlagsTyped
<1>2. abUndo' = [abUndo EXCEPT ![abActive] = [undo |-> t, redo |-> <<>>]]
  BY DEF Committing
<1> QED
  BY <1>1, <1>2, BecomesIs

\* Every step but these leaves the history as it is.
LEMMA HistorySame ==
  ASSUME UndoNext, ~PollCommit, ~undo, ~redo, ~ApplyUndoEntry, ~CommitPresetSwitchUndoStep, ~abCopyToOther, ~Adopt
  PROVE  abUndo' = abUndo
<1>1. CASE Host \/ Controls
  BY <1>1 DEF Host, Controls, Automate, parameterValueChanged, Restore, Open, Store, StoreAnswered, Close,
              BeginUserTransaction, EndUserTransaction, ab
<1>2. CASE TimerTick \/ PollCapture \/ PollFold \/ \E job \in {"undo", "redo", "switch", "load", "save"} : StateCommand(job)
  BY <1>2 DEF TimerTick, Poll, PollCapture, PollFold, StateCommand, ab
<1>3. CASE abSwitchTo \/ Saved \/ Baseline \/ Sync \/ LoadPreset \/ Loaded
  BY <1>3 DEF abSwitchTo, Saved, Baseline, Sync, LoadPreset, Loaded, ab
<1> QED
  BY <1>1, <1>2, <1>3 DEF UndoNext, Message

LEMMA CommitSounds ==
  ASSUME NEW k \in Nat, SoundsTyped(k), LogTyped, FlagsTyped, RoomInv, PollCapture \/ PollFold \/ PollCommit
  PROVE  SoundsTyped(k)'
<1>1. /\ m.pc = "poll" => m.job \in Jobs /\ m.sig \in Levels(k)
      /\ m.pc = "captured" => m.job \in Jobs /\ m.sig \in Levels(k) /\ m.fresh \in SoundsOf(k)
      /\ Current \in SoundsOf(k)
  BY PointsIs, CurrentIs DEF SoundsTyped
<1>2. CASE PollCapture
  <2>1. m' \in Points(k)
    BY <1>1, <1>2, PointIn DEF PollCapture
  <2> QED
    BY <1>2, <2>1 DEF SoundsTyped, PollCapture, sound, batch, base, ab
<1>3. CASE PollFold
  <2>1. m' \in Points(k) /\ committed' \in SoundsOf(k) /\ committedSig' \in Levels(k)
    BY <1>1, <1>3, PointIn DEF PollFold
  <2> QED
    BY <1>3, <2>1 DEF SoundsTyped, PollFold, batch, ab
<1>4. CASE PollCommit
  <2>1. m' \in Points(k) /\ committed' \in SoundsOf(k) /\ committedSig' \in Levels(k)
    BY <1>1, <1>4, PointIn DEF PollCommit
  <2>2. abUndo' \in Histories(k)
    BY <1>4, CommitIs, CommitMoves DEF SoundsTyped
  <2> QED
    BY <1>4, <2>1, <2>2 DEF SoundsTyped, PollCommit, batch
<1> QED
  BY <1>2, <1>3, <1>4

LEMMA UndoSounds ==
  ASSUME NEW k \in Nat, SoundsTyped(k), FlagsTyped, undo \/ redo \/ ApplyUndoEntry
  PROVE  SoundsTyped(k)'
<1>1. ASSUME NEW from \in {"undo", "redo"}, NEW end \in {"before", "after"}, TakeEntry(from, end)
      PROVE  SoundsTyped(k)'
  <2>1. CASE m' = Idle /\ abUndo' = abUndo
    <3>1. m' \in Points(k)
      BY <2>1, PointIn
    <3> QED
      BY <1>1, <2>1, <3>1 DEF SoundsTyped, TakeEntry, sound, batch, base
  <2>2. CASE \E e \in StepsOf(k), target \in SoundsOf(k) : Taking(from, e, target)
    <3>1. PICK e \in StepsOf(k), target \in SoundsOf(k) : Taking(from, e, target)
      BY <2>2
    <3>2. abUndo' \in Histories(k)
      BY <1>1, <3>1, TakenMoves
    <3>3. m' \in Points(k)
      BY <1>1, <3>1, PointIn DEF Taking
    <3> QED
      BY <1>1, <3>2, <3>3 DEF SoundsTyped, TakeEntry, sound, batch, base
  <2> QED
    BY <1>1, <2>1, <2>2, TakenIs
<1>2. CASE ApplyUndoEntry
  <2>1. abUndo' \in Histories(k) /\ m.target \in SoundsOf(k)
    BY <1>2, AppliedMoves
  <2>2. live' \in Levels(k) /\ preset' \in Values
    BY <1>2, <2>1 DEF ApplyUndoEntry, Install, SoundsOf
  <2>3. m' \in Points(k)
    BY <1>2, PointIn DEF ApplyUndoEntry
  <2> QED
    BY <1>2, <2>1, <2>2, <2>3 DEF SoundsTyped, ApplyUndoEntry, batch, base
<1> QED
  BY <1>1, <1>2 DEF undo, redo

LEMMA OtherSounds ==
  ASSUME NEW k \in Nat, SoundsTyped(k), FlagsTyped, RoomInv, acted \in Values,
         \/ abSwitchTo \/ Saved \/ Baseline \/ Sync \/ Loaded \/ CommitPresetSwitchUndoStep
         \/ abCopyToOther \/ Adopt
         \/ LoadPreset /\ (live' = live \/ (NewValue \in 0..k /\ live' = [p \in Params |-> NewValue]))
  PROVE  SoundsTyped(k)'
<1>1. /\ abActive \in Slots /\ Current \in SoundsOf(k) /\ live \in Levels(k) /\ preset \in Values
      /\ abSlot \in [Slots -> SoundsOf(k)] /\ Nothing \in Owns(k)
  BY CurrentIs, NothingIs DEF SoundsTyped, FlagsTyped
<1>2. CASE abSwitchTo
  <2>1. 1 - abActive \in Slots
    BY <1>1 DEF Slots
  <2>2. abSlot[1 - abActive] \in SoundsOf(k)
    BY <1>1, <2>1
  <2>3. live' \in Levels(k) /\ preset' \in Values
    BY <1>2, <2>2 DEF abSwitchTo, Install, SoundsOf
  <2>4. abSlot' \in [Slots -> SoundsOf(k)]
    BY <1>1, <1>2 DEF abSwitchTo
  <2>5. m' \in Points(k)
    BY <1>2, PointIn DEF abSwitchTo
  <2> QED
    BY <1>2, <2>3, <2>4, <2>5 DEF SoundsTyped, abSwitchTo, batch, base
<1>3. CASE Saved \/ Loaded
  <2>1. m' \in Points(k)
    BY <1>1, <1>3, PointIn DEF Saved, Loaded
  <2> QED
    BY <1>3, <2>1 DEF SoundsTyped, Saved, Loaded, sound, batch, base, ab
<1>4. CASE Baseline
  <2>1. m' \in Points(k)
    BY <1>4, PointIn DEF Baseline
  <2>2. committed' \in SoundsOf(k)
    BY <1>1, <1>4 DEF Baseline, SoundsTyped
  <2> QED
    BY <1>4, <2>1, <2>2 DEF SoundsTyped, Baseline, sound, batch, ab
<1>5. CASE Sync
  <2>1. m' \in Points(k) /\ owned' \in Owns(k)
    BY <1>1, <1>5, PointIn DEF Sync, DropGestures, ResetBatchOwnership
  <2> QED
    BY <1>1, <1>5, <2>1 DEF SoundsTyped, Sync, ab
<1>6. CASE CommitPresetSwitchUndoStep
  <2>1. m' \in Points(k) /\ owned' \in Owns(k)
    BY <1>1, <1>6, PointIn DEF CommitPresetSwitchUndoStep, DropGestures, ResetBatchOwnership
  <2>2. m.sig \in Levels(k)
    BY <1>6, PointsIs DEF CommitPresetSwitchUndoStep, SoundsTyped
  <2>3. committedSig' \in Levels(k) /\ committed' \in SoundsOf(k)
    BY <1>1, <1>6, <2>2 DEF CommitPresetSwitchUndoStep, SoundsTyped
  <2>4. abUndo' \in Histories(k)
    BY <1>6, PresetMoves
  <2> QED
    BY <1>1, <1>6, <2>1, <2>3, <2>4 DEF SoundsTyped, CommitPresetSwitchUndoStep
<1>7. CASE abCopyToOther
  <2>1. abUndo' \in Histories(k)
    BY <1>7, CopyMoves
  <2>2. abSlot' \in [Slots -> SoundsOf(k)]
    BY <1>1, <1>7 DEF abCopyToOther
  <2> QED
    BY <1>7, <2>1, <2>2 DEF SoundsTyped, abCopyToOther, sound, batch, base
<1>8. CASE Adopt
  <2>1. [params |-> live, preset |-> acted] \in SoundsOf(k)
    BY <1>1 DEF SoundsOf
  <2>2. abSlot' \in [Slots -> SoundsOf(k)] /\ preset' \in Values
    BY <1>8, <2>1 DEF Adopt
  <2>3. abUndo' \in Histories(k)
    BY <1>8 DEF Adopt, Histories
  <2>4. m' \in Points(k)
    BY <1>8, PointIn DEF Adopt
  <2> QED
    BY <1>8, <2>2, <2>3, <2>4 DEF SoundsTyped, Adopt, batch, base
<1>9. CASE LoadPreset /\ (live' = live \/ (NewValue \in 0..k /\ live' = [p \in Params |-> NewValue]))
  <2>1. live' \in Levels(k) /\ preset' \in Values
    BY <1>1, <1>9 DEF LoadPreset, Install, Levels
  <2>2. m' \in Points(k)
    BY <1>9, PointIn DEF LoadPreset
  <2> QED
    BY <1>9, <2>1, <2>2 DEF SoundsTyped, LoadPreset, batch, base, ab
<1> QED
  BY <1>2, <1>3, <1>4, <1>5, <1>6, <1>7, <1>8, <1>9

LEMMA SoundsHold ==
  ASSUME TypesHold, RoomInv, UndoNext
  PROVE  SoundsTyped(Len(log))'
<1>1. LogTyped /\ FlagsTyped /\ LoadInv /\ LogTyped' /\ LogKept
  BY LogHolds DEF TypesHold
<1>2. PICK k \in Nat : k = Len(log')
  BY <1>1 DEF LogTyped
<1>3. Len(log) <= k /\ SoundsTyped(k)
  BY <1>1, <1>2, SoundsGrown DEF LogKept
<1>4. acted \in Values /\ acted' \in Values /\ Len(log) \in Nat
  <2>1. PICK j \in Nat : j = Len(log)
    BY <1>1 DEF LogTyped
  <2>2. /\ {opened, acted, opened', acted', MaxInputs} \subseteq Nat
        /\ j + opened + acted <= MaxInputs + 1 /\ k + opened' + acted' <= MaxInputs + 1
    BY <1>1, <1>2, <2>1, UndoAssumption DEF LogTyped
  <2>3. acted \in 0..MaxInputs + 1 /\ acted' \in 0..MaxInputs + 1
    BY <2>2
  <2> QED
    BY <2>1, <2>3 DEF Values
<1>12. SUFFICES SoundsTyped(k)'
  BY <1>2 DEF SoundsTyped
<1>5. CASE Host
  <2>1. NewValue \in 0..k \/ parameterValueChanged
    BY <1>1, <1>2, <1>4, <1>5, AutomateLogs, RestoreLogs DEF Host, NewValue
  <2>2. CASE parameterValueChanged
    BY <1>3, <2>2, SoundsSame DEF parameterValueChanged, batch, base, ab
  <2>3. CASE NewValue \in 0..k
    BY <1>3, <1>5, <2>3, HostSounds DEF Host
  <2> QED
    BY <2>1, <2>2, <2>3
<1>6. CASE Controls
  <2>1. CASE \E p \in Params : Store(p) \/ StoreAnswered(p)
    <3>1. PICK p \in Params : Store(p) \/ StoreAnswered(p)
      BY <2>1
    <3>2. PICK v : v = NewValue
      OBVIOUS
    <3>3. Store(p) => NewValue \in 0..k
      BY <1>1, <1>2, <1>4, <3>2, StoreLogs DEF NewValue
    <3>4. StoreAnswered(p) => {NewValue, NewValue + 1} \subseteq 0..k
      BY <1>1, <1>2, <1>4, <3>2, StoreAnsweredLogs DEF NewValue
    <3> QED
      BY <1>3, <3>1, <3>3, <3>4, StoreSounds
  <2>2. CASE BeginUserTransaction \/ EndUserTransaction
    BY <1>3, <2>2, SoundsSame DEF BeginUserTransaction, EndUserTransaction, sound, batch, base, ab
  <2> QED
    BY <1>3, <1>6, <2>1, <2>2, OpenSounds, CloseSounds DEF Controls
<1>7. CASE TimerTick \/ \E job \in {"undo", "redo", "switch", "load", "save"} : StateCommand(job)
  <2>1. preset' \in Values
    BY <1>3, <1>4, <1>7 DEF TimerTick, StateCommand, SoundsTyped
  <2> QED
    BY <1>3, <1>7, <2>1, PollSounds DEF TimerTick, StateCommand, Jobs
<1>8. CASE PollCapture \/ PollFold \/ PollCommit
  BY <1>1, <1>3, <1>8, CommitSounds
<1>9. CASE undo \/ redo \/ ApplyUndoEntry
  BY <1>1, <1>3, <1>9, UndoSounds
<1>10. CASE LoadPreset
  <2>1. live' = live \/ (NewValue \in 0..k /\ live' = [p \in Params |-> NewValue])
    BY <1>1, <1>2, <1>4, <1>10, LoadLogs DEF NewValue
  <2> QED
    BY <1>1, <1>3, <1>4, <1>10, <2>1, OtherSounds
<1>11. CASE abSwitchTo \/ Saved \/ Baseline \/ Sync \/ Loaded \/ CommitPresetSwitchUndoStep \/ abCopyToOther \/ Adopt
  BY <1>1, <1>3, <1>4, <1>11, OtherSounds
<1> QED
  BY <1>5, <1>6, <1>7, <1>8, <1>9, <1>10, <1>11 DEF UndoNext, Message

-----------------------------------------------------------------------------
(* The gestures. *)

LEMMA OpenCounts ==
  ASSUME FlagsTyped, GestureInv, NEW p \in Params, NEW wheel \in BOOLEAN, Open(p, wheel)
  PROVE  openGestures' = Cardinality(held') /\ openGestures' > 0
<1>1. held' = held \cup {p} /\ openGestures' = openGestures + 1 /\ p \notin held /\ IsFiniteSet(held)
      /\ openGestures \in Nat
  BY DEF Open, FlagsTyped
<1>2. openGestures = Cardinality(held)
  <2>1. CASE held = {}
    BY <2>1, FS_EmptySet DEF GestureInv
  <2>2. CASE held # {}
    BY <2>2 DEF GestureInv, Open
  <2> QED
    BY <2>1, <2>2
<1>3. Cardinality(held \cup {p}) = Cardinality(held) + 1
  BY <1>1, FS_AddElement
<1> QED
  BY <1>1, <1>2, <1>3

\* The last control to close was the only one that held a gesture.
LEMMA CloseCounts ==
  ASSUME FlagsTyped, GestureInv, NEW p \in Params, Close(p)
  PROVE  /\ openGestures' = 0 \/ openGestures' = Cardinality(held')
         /\ openGestures = 1 => held = {p}
         /\ openGestures = 0 => openGestures' = 0
         /\ openGestures # 1 /\ openGestures' = 0 => openGestures = 0
<1>1. held' = held \ {p} /\ p \in held /\ IsFiniteSet(held) /\ openGestures \in Nat
  BY DEF Close, FlagsTyped
<1>2. /\ openGestures = 1 => openGestures' = 0
      /\ openGestures # 1 => openGestures' = IF openGestures > 0 THEN openGestures - 1 ELSE 0
  BY DEF Close
<1>3. Cardinality(held \ {p}) = Cardinality(held) - 1 /\ Cardinality(held) \in Nat
  BY <1>1, FS_RemoveElement, FS_CardinalityType
<1>4. openGestures = 0 \/ openGestures = Cardinality(held)
  BY DEF GestureInv
<1>5. openGestures = 1 => held = {p}
  <2>1. ASSUME openGestures = 1 PROVE held = {p}
    <3>1. Cardinality(held) = 1
      BY <1>4, <2>1
    <3>2. PICK x : held = {x}
      BY <1>1, <3>1, FS_Singleton
    <3> QED
      BY <1>1, <3>2
  <2> QED
    BY <2>1
<1> QED
  BY <1>1, <1>2, <1>3, <1>4, <1>5

\* So no end is read from the sound as the batch closes.
LEMMA CloseKeepsEnds ==
  ASSUME NEW k \in Nat, SoundsTyped(k), FlagsTyped, GestureInv, NEW p \in Params, Close(p)
  PROVE  owned' = owned
<1>1. CASE openGestures # 1
  BY <1>1 DEF Close
<1>2. CASE openGestures = 1
  <2>1. PICK said : said = IF "declared" \in episode[p] THEN episode
                          ELSE [episode EXCEPT ![p] = @ \cup {"refused"}]
    OBVIOUS
  <2>2. owned' = [q \in DOMAIN owned |-> IF said[q] = {"gesture"}
                                        THEN [owned[q] EXCEPT !.after = live[q]] ELSE owned[q]]
    BY <1>2, <2>1, Zenon DEF Close
  <2>3. held = {p} /\ episode \in [Params -> SUBSET {"gesture", "declared", "refused"}]
    BY <1>2, CloseCounts DEF FlagsTyped
  <2>4. ASSUME NEW q \in Params PROVE said[q] # {"gesture"}
    <3>1. CASE q = p
      BY <2>1, <2>3, <3>1
    <3>2. CASE q # p
      <4>1. said[q] = episode[q] /\ q \notin held
        BY <2>1, <2>3, <3>2
      <4>2. "gesture" \in episode[q] => "declared" \in episode[q] \/ "refused" \in episode[q]
        BY <4>1 DEF GestureInv
      <4> QED
        BY <4>1, <4>2
    <3> QED
      BY <3>1, <3>2
  <2>5. DOMAIN owned \subseteq Params /\ owned \in [DOMAIN owned -> EndsOf(k)]
    BY OwnsIs DEF SoundsTyped
  <2>6. owned' = [q \in DOMAIN owned |-> owned[q]]
    BY <2>2, <2>4, <2>5
  <2> QED
    BY <2>5, <2>6
<1> QED
  BY <1>1, <1>2

LEMMA OpenGesture ==
  ASSUME FlagsTyped, GestureInv, NEW p \in Params, NEW wheel \in BOOLEAN, Open(p, wheel)
  PROVE  GestureInv'
<1>1. m' = Idle /\ m = Idle /\ Idle.pc = "idle" /\ openGestures' = Cardinality(held')
  BY OpenCounts DEF Open, Idle
<1>2. wheelStepKey' # NoKey => held' = {wheelStepKey'}
  <2>1. wheelStepKey' = IF wheel THEN p ELSE NoKey
    BY DEF Open
  <2>2. wheel => held = {}
    BY DEF Open
  <2> QED
    BY <2>1, <2>2 DEF Open
<1>3. ASSUME NEW q \in Params, "gesture" \in episode'[q]
      PROVE  q \in held' \/ "declared" \in episode'[q] \/ "refused" \in episode'[q]
  <2>1. PICK was : /\ was = IF openGestures = 0 /\ ~pendingGestureCommit THEN [x \in Params |-> {}] ELSE episode
                   /\ episode' = [was EXCEPT ![p] = @ \cup {"gesture"}]
    BY DEF Open
  <2>2. q = p \/ episode'[q] = was[q]
    BY <2>1
  <2>3. held' = held \cup {p}
    BY DEF Open
  <2>4. CASE q = p
    BY <2>3, <2>4
  <2>5. CASE q # p
    <3>1. was[q] = {} \/ was[q] = episode[q]
      BY <2>1
    <3> QED
      BY <1>3, <2>2, <2>3, <2>5, <3>1 DEF GestureInv
  <2> QED
    BY <2>4, <2>5
<1> QED
  BY <1>1, <1>2, <1>3 DEF GestureInv

LEMMA CloseGesture ==
  ASSUME FlagsTyped, GestureInv, NEW p \in Params, Close(p)
  PROVE  GestureInv'
<1>1. m' = Idle /\ Idle.pc = "idle" /\ wheelStepKey' = NoKey /\ (openGestures' = 0 \/ openGestures' = Cardinality(held'))
  BY CloseCounts DEF Close, Idle
<1>2. ASSUME NEW q \in Params, "gesture" \in episode'[q]
      PROVE  q \in held' \/ "declared" \in episode'[q] \/ "refused" \in episode'[q]
  <2>1. held' = held \ {p} /\ episode \in [Params -> SUBSET {"gesture", "declared", "refused"}]
    BY DEF Close, FlagsTyped
  <2>2. CASE openGestures = 1
    <3>1. episode' = [x \in Params |-> {}]
      BY <2>2, Zenon DEF Close
    <3> QED
      BY <1>2, <3>1
  <2>3. CASE openGestures # 1
    <3>1. episode' = IF "declared" \in episode[p] THEN episode ELSE [episode EXCEPT ![p] = @ \cup {"refused"}]
      BY <2>3, Zenon DEF Close
    <3>2. CASE q = p
      BY <2>1, <3>1, <3>2
    <3>3. CASE q # p
      <4>1. episode'[q] = episode[q]
        BY <2>1, <3>1, <3>3
      <4> QED
        BY <1>2, <2>1, <3>3, <4>1 DEF GestureInv
    <3> QED
      BY <3>2, <3>3
  <2> QED
    BY <2>2, <2>3
<1> QED
  BY <1>1, <1>2 DEF GestureInv

LEMMA StoreGesture ==
  ASSUME FlagsTyped, GestureInv, NEW p \in Params, Store(p) \/ StoreAnswered(p)
  PROVE  GestureInv'
<1>1. UNCHANGED <<openGestures, held, wheelStepKey, userTransaction, m>>
  BY DEF Store, StoreAnswered, ui, edges
<1>2. \/ episode' = episode \/ episode' = [episode EXCEPT ![p] = @ \cup {"declared"}]
      \/ episode' = [episode EXCEPT ![p] = @ \cup {"refused"}]
  BY DEF Store, StoreAnswered, DeclareWrite, DeclareEndpoint, DeclareRefused, batch
<1>3. episode \in [Params -> SUBSET {"gesture", "declared", "refused"}]
  BY DEF FlagsTyped
<1>4. ASSUME NEW q \in Params, "gesture" \in episode'[q]
      PROVE  q \in held' \/ "declared" \in episode'[q] \/ "refused" \in episode'[q]
  <2>1. episode[q] \subseteq episode'[q] /\ ("gesture" \in episode'[q] => "gesture" \in episode[q])
    BY <1>2, <1>3
  <2> QED
    BY <1>1, <1>4, <2>1 DEF GestureInv
<1> QED
  BY <1>1, <1>4 DEF GestureInv

LEMMA GestureHolds ==
  ASSUME TypesHold, GestureInv, UndoNext
  PROVE  GestureInv'
<1>1. FlagsTyped /\ Idle.pc = "idle" /\ openGestures \in Nat
  BY DEF TypesHold, Idle, FlagsTyped
<1>2. CASE Host \/ BeginUserTransaction \/ EndUserTransaction \/ abCopyToOther
  BY <1>2 DEF GestureInv, Host, Automate, parameterValueChanged, Restore, BeginUserTransaction, EndUserTransaction,
              abCopyToOther, ui, edges, batch
<1>3. CASE \E p \in Params : (\E wheel \in BOOLEAN : Open(p, wheel)) \/ Close(p) \/ Store(p) \/ StoreAnswered(p)
  BY <1>1, <1>3, OpenGesture, CloseGesture, StoreGesture
<1>4. CASE TimerTick \/ \E job \in {"undo", "redo", "switch", "load", "save"} : StateCommand(job)
  <2>1. UNCHANGED <<openGestures, held, wheelStepKey, userTransaction, episode>> /\ wheelStepKey = NoKey /\ ~userTransaction
    BY <1>4 DEF TimerTick, StateCommand, MayAct, Poll, ui, batch
  <2>2. m'.pc \in {"poll", "captured"} => openGestures = 0
    <3>1. ASSUME NEW job \in Jobs, Poll(job), ~(openGestures = 0) PROVE m'.pc \notin {"poll", "captured"}
      <4>1. openGestures > 0
        BY <1>1, <3>1
      <4>2. m' = After(job)
        BY <3>1, <4>1 DEF Poll
      <4> QED
        BY <1>1, <4>2 DEF After, Jobs
    <3> QED
      BY <1>4, <3>1 DEF TimerTick, StateCommand, Jobs
  <2> QED
    BY <2>1, <2>2 DEF GestureInv
<1>5. CASE PollCapture \/ PollFold \/ PollCommit
  <2>1. UNCHANGED <<openGestures, held, wheelStepKey, userTransaction, episode>> /\ m.pc \in {"poll", "captured"}
    BY <1>5 DEF PollCapture, PollFold, PollCommit, ui, edges, batch
  <2> QED
    BY <1>1, <2>1 DEF GestureInv
<1>6. CASE undo \/ redo \/ ApplyUndoEntry \/ abSwitchTo \/ Saved \/ Baseline \/ LoadPreset \/ Loaded
  <2>1. UNCHANGED <<openGestures, held, wheelStepKey, userTransaction, episode>> /\ m # Idle
    BY <1>1, <1>6 DEF undo, redo, TakeEntry, ApplyUndoEntry, abSwitchTo, Saved, Baseline, LoadPreset, Loaded, ui, edges, batch
  <2>2. m'.pc \notin {"poll", "captured"}
    <3>1. CASE undo \/ redo
      BY <3>1, TakenOrDone
    <3>0. CASE ApplyUndoEntry
      BY <3>0 DEF ApplyUndoEntry
    <3>2. CASE abSwitchTo \/ Saved \/ Baseline \/ LoadPreset \/ Loaded
      BY <1>1, <3>2 DEF abSwitchTo, Saved, Baseline, LoadPreset, Loaded
    <3> QED
      BY <1>6, <3>0, <3>1, <3>2
  <2> QED
    BY <2>1, <2>2 DEF GestureInv
<1>7. CASE Sync \/ CommitPresetSwitchUndoStep
  <2>1. UNCHANGED <<held, wheelStepKey, userTransaction>> /\ m # Idle /\ openGestures' = 0 /\ m' = Idle
        /\ episode' = [x \in Params |-> {}]
    BY <1>1, <1>7 DEF Sync, CommitPresetSwitchUndoStep, DropGestures, ResetBatchOwnership, ui
  <2> QED
    BY <1>1, <2>1 DEF GestureInv
<1>8. CASE Adopt
  <2>1. UNCHANGED <<openGestures, held, wheelStepKey, userTransaction, episode>> /\ m'.pc = "adopted"
        /\ ~userTransaction /\ wheelStepKey = NoKey
    BY <1>8 DEF Adopt, ui, edges, batch
  <2> QED
    BY <2>1 DEF GestureInv
<1> QED
  BY <1>2, <1>3, <1>4, <1>5, <1>6, <1>7, <1>8 DEF UndoNext, Controls, Message

-----------------------------------------------------------------------------
(* The room. *)

\* Only undo and redo take a step in hand, and nothing switches slots meanwhile.
LEMMA InHand ==
  ASSUME TypesHold, GestureInv, UndoNext, m'.pc = "install", ~undo, ~redo
  PROVE  m.pc = "install" /\ m' = m /\ abActive' = abActive /\ abUndo' = abUndo
<1>1. FlagsTyped /\ SoundsTyped(Len(log)) /\ Len(log) \in Nat /\ Idle.pc = "idle"
  BY DEF TypesHold, Idle, LogTyped
<1>2. CASE Host \/ Controls
  <2>1. m' = m /\ abActive' = abActive /\ abUndo' = abUndo
    BY <1>2 DEF Host, Controls, Automate, parameterValueChanged, Restore, Open, Store, StoreAnswered, Close,
              BeginUserTransaction, EndUserTransaction, ab
  <2> QED
    BY <2>1
<1>3. \A job \in Jobs : After(job).pc # "install"
  BY <1>1 DEF After, Jobs
<1>4. CASE TimerTick \/ \E job \in {"undo", "redo", "switch", "load", "save"} : StateCommand(job)
  BY <1>3, <1>4 DEF TimerTick, StateCommand, Poll, Jobs
<1>5. CASE PollCapture \/ PollFold \/ PollCommit
  <2>1. m.pc = "captured" => m.job \in Jobs
    BY <1>1, PointsIs DEF SoundsTyped
  <2>2. CASE PollCapture
    BY <2>2 DEF PollCapture
  <2>3. CASE PollFold \/ PollCommit
    <3>1. m' = After(m.job) /\ m.pc = "captured"
      BY <2>3 DEF PollFold, PollCommit
    <3> QED
      BY <1>3, <2>1, <3>1
  <2> QED
    BY <1>5, <2>2, <2>3
<1>6. CASE ApplyUndoEntry \/ abSwitchTo \/ Saved \/ Baseline \/ Sync \/ LoadPreset \/ Loaded
           \/ CommitPresetSwitchUndoStep \/ Adopt
  BY <1>1, <1>6 DEF ApplyUndoEntry, abSwitchTo, Saved, Baseline, Sync, LoadPreset, Loaded, CommitPresetSwitchUndoStep, Adopt
<1>7. CASE abCopyToOther
  BY <1>1, <1>7 DEF abCopyToOther, MayAct
<1> QED
  BY <1>2, <1>4, <1>5, <1>6, <1>7 DEF UndoNext, Message

LEMMA RoomBecomes ==
  ASSUME RoomInv, NEW a \in Slots, NEW x, NEW y, Becomes(a, x, y), Len(x) + Len(y) <= Depth
  PROVE  \A s \in Slots : Len(abUndo'[s].undo) + Len(abUndo'[s].redo) <= Depth
BY DEF RoomInv, Becomes

LEMMA Emptied ==
  ASSUME NEW S, NEW x \in Seq(S), Len(x) <= Depth
  PROVE  Len(x) + Len(<<>>) <= Depth
<1>1. Len(x) \in Nat /\ Depth \in Nat /\ Len(<<>>) = 0
  BY UndoAssumption
<1> QED
  BY <1>1

LEMMA TakingRoom ==
  ASSUME NEW k \in Nat, SoundsTyped(k), FlagsTyped, RoomInv, NEW from \in {"undo", "redo"}, NEW e, NEW target,
         Taking(from, e, target), abActive' = abActive
  PROVE  RoomInv'
<1>1. abActive \in Slots
  BY DEF FlagsTyped
<1>2. PICK x \in Seq(StepsOf(k)), y \in Seq(StepsOf(k)) : x = abUndo[abActive].undo /\ y = abUndo[abActive].redo
  BY StacksAre DEF FlagsTyped
<1>3. PICK a \in Nat, b \in Nat : a = Len(x) /\ b = Len(y) /\ a + b <= Depth
  <2>1. Len(x) \in Nat /\ Len(y) \in Nat
    OBVIOUS
  <2>2. Len(x) + Len(y) <= Depth
    BY <1>2 DEF RoomInv, FlagsTyped
  <2> QED
    BY <2>1, <2>2
<1>4. CASE from = "undo"
  <2>1. x # <<>> /\ Becomes(abActive, Front(x), y)
    BY <1>2, <1>4, TakenMoves
  <2>2. PICK c \in Nat : c = Len(Front(x)) /\ c + 1 = a
    BY <1>3, <2>1, Popped
  <2>3. c + b < Depth /\ c + b <= Depth
    BY <1>3, <2>2, UndoAssumption
  <2>4. \A s \in Slots : Len(abUndo'[s].undo) + Len(abUndo'[s].redo) <= Depth
    BY <1>3, <2>1, <2>2, <2>3, RoomBecomes DEF FlagsTyped
  <2>5. Len(abUndo'[abActive].undo) + Len(abUndo'[abActive].redo) < Depth
    BY <1>3, <2>1, <2>2, <2>3 DEF Becomes
  <2> QED
    BY <2>4, <2>5 DEF RoomInv
<1>5. CASE from = "redo"
  <2>1. y # <<>> /\ Becomes(abActive, x, Front(y))
    BY <1>2, <1>5, TakenMoves
  <2>2. PICK c \in Nat : c = Len(Front(y)) /\ c + 1 = b
    BY <1>3, <2>1, Popped
  <2>3. a + c < Depth /\ a + c <= Depth
    BY <1>3, <2>2, UndoAssumption
  <2>4. \A s \in Slots : Len(abUndo'[s].undo) + Len(abUndo'[s].redo) <= Depth
    BY <1>3, <2>1, <2>2, <2>3, RoomBecomes DEF FlagsTyped
  <2>5. Len(abUndo'[abActive].undo) + Len(abUndo'[abActive].redo) < Depth
    BY <1>3, <2>1, <2>2, <2>3 DEF Becomes
  <2> QED
    BY <2>4, <2>5 DEF RoomInv
<1> QED
  BY <1>4, <1>5

LEMMA ApplyingRoom ==
  ASSUME NEW k \in Nat, SoundsTyped(k), FlagsTyped, RoomInv, ApplyUndoEntry
  PROVE  RoomInv'
<1>1. PICK x \in Seq(StepsOf(k)), y \in Seq(StepsOf(k)) : x = abUndo[abActive].undo /\ y = abUndo[abActive].redo
  BY StacksAre DEF FlagsTyped
<1>2. PICK a \in Nat, b \in Nat : a = Len(x) /\ b = Len(y) /\ a + b < Depth
  <2>1. Len(x) \in Nat /\ Len(y) \in Nat
    OBVIOUS
  <2>2. Len(x) + Len(y) < Depth
    BY <1>1 DEF RoomInv, ApplyUndoEntry
  <2> QED
    BY <2>1, <2>2
<1>3. PICK e \in StepsOf(k) : /\ m.from = "undo" => Becomes(abActive, x, Append(y, e))
                              /\ m.from = "redo" => Becomes(abActive, Append(x, e), y)
                              /\ m.from \in {"undo", "redo"}
  BY <1>1, AppliedMoves
<1>4. Len(Append(x, e)) = a + 1 /\ Len(Append(y, e)) = b + 1
  BY <1>2, AppendProperties
<1>5. a + (b + 1) <= Depth /\ (a + 1) + b <= Depth
  BY <1>2, UndoAssumption
<1>6. abActive \in Slots /\ m'.pc # "install"
  BY DEF FlagsTyped, ApplyUndoEntry
<1>7. \A s \in Slots : Len(abUndo'[s].undo) + Len(abUndo'[s].redo) <= Depth
  BY <1>2, <1>3, <1>4, <1>5, <1>6, RoomBecomes
<1> QED
  BY <1>6, <1>7 DEF RoomInv

LEMMA RoomHolds ==
  ASSUME TypesHold, GestureInv, RoomInv, UndoNext
  PROVE  RoomInv'
<1>1. FlagsTyped /\ LogTyped /\ SoundsTyped(Len(log)) /\ abActive \in Slots
  BY DEF TypesHold, FlagsTyped
<1>2. PICK k \in Nat : k = Len(log)
  BY <1>1 DEF LogTyped
<1>3. SoundsTyped(k)
  BY <1>1, <1>2
<1>4. CASE undo \/ redo
  <2>1. PICK from \in {"undo", "redo"}, end \in {"before", "after"} : TakeEntry(from, end)
    BY <1>4 DEF undo, redo
  <2>2. abActive' = abActive
    BY <2>1 DEF TakeEntry
  <2>3. CASE m' = Idle /\ abUndo' = abUndo
    BY <2>2, <2>3 DEF RoomInv, Idle
  <2>4. CASE \E e \in StepsOf(k), target \in SoundsOf(k) : Taking(from, e, target)
    BY <1>1, <1>3, <2>2, <2>4, TakingRoom
  <2> QED
    BY <1>1, <1>3, <2>1, <2>3, <2>4, TakenIs
<1>5. CASE ApplyUndoEntry
  BY <1>1, <1>3, <1>5, ApplyingRoom
<1>6. ASSUME ~undo, ~redo, ~ApplyUndoEntry PROVE RoomInv'
  <2>1. m'.pc = "install" => m.pc = "install" /\ abActive' = abActive /\ abUndo' = abUndo
    BY <1>6, InHand
  <2>2. ASSUME NEW a \in Slots, NEW t \in Seq(StepsOf(k)), Len(t) <= Depth, Becomes(a, t, <<>>)
        PROVE  \A s \in Slots : Len(abUndo'[s].undo) + Len(abUndo'[s].redo) <= Depth
    BY <2>2, Emptied, RoomBecomes
  <2>3. \A s \in Slots : Len(abUndo'[s].undo) + Len(abUndo'[s].redo) <= Depth
    <3>1. CASE abUndo' = abUndo
      BY <3>1 DEF RoomInv
    <3>2. CASE PollCommit
      <4>1. CASE \E e \in StepsOf(k), t \in Seq(StepsOf(k)) : Committing(t, e)
        <5>1. PICK e \in StepsOf(k), t \in Seq(StepsOf(k)) : Committing(t, e)
          BY <4>1
        <5>2. Becomes(abActive, t, <<>>) /\ Len(t) <= Depth
          BY <1>1, <1>3, <5>1, CommitMoves DEF Committing
        <5> QED
          BY <1>1, <2>2, <5>2
      <4> QED
        BY <1>1, <1>3, <3>1, <3>2, <4>1, CommitIs
    <3>3. CASE CommitPresetSwitchUndoStep
      <4>1. CASE Becomes(abActive, abUndo[abActive].undo, <<>>)
        BY <1>1, <1>3, <2>2, <4>1, RoomIs, StacksAre
      <4>2. CASE \E t \in Seq(StepsOf(k)), e \in StepsOf(k) : WholePushed(abActive, t, e)
        BY <1>1, <2>2, <4>2 DEF WholePushed
      <4> QED
        BY <1>1, <1>3, <3>1, <3>3, <4>1, <4>2, PresetMoves
    <3>4. CASE abCopyToOther
      BY <1>1, <1>3, <2>2, <3>4, CopyMoves DEF WholePushed
    <3>5. CASE Adopt
      <4>1. ASSUME NEW s \in Slots PROVE Len(abUndo'[s].undo) = 0 /\ Len(abUndo'[s].redo) = 0
        BY <3>5 DEF Adopt
      <4> QED
        <5>1. 0 + 0 <= Depth
          BY UndoAssumption
        <5> QED
          BY <4>1, <5>1
    <3> QED
      BY <1>6, <3>1, <3>2, <3>3, <3>4, <3>5, HistorySame
  <2> QED
    BY <2>1, <2>3 DEF RoomInv
<1> QED
  BY <1>4, <1>5, <1>6

-----------------------------------------------------------------------------
(* The ends. *)

LEMMA GivenKept ==
  ASSUME LogKept, NEW p, NEW v, Given(p, v)
  PROVE  Given(p, v)'
BY DEF LogKept, Given

LEMMA InHistoryIs ==
  ASSUME NEW e
  PROVE  e \in InHistory <=> \/ \E s \in Slots : e \in Range(abUndo[s].undo) \/ e \in Range(abUndo[s].redo)
                             \/ m.pc = "install" /\ e = m.entry
<1>1. e \in InHistory <=> (\E s \in Slots : e \in HeldBy(s)) \/ e \in Taken
  <2>1. e \in Stored <=> \E s \in Slots : e \in HeldBy(s)
    BY DEF Stored
  <2> QED
    BY <2>1 DEF InHistory
<1>2. e \in Taken <=> m.pc = "install" /\ e = m.entry
  BY DEF Taken
<1> QED
  BY <1>1, <1>2 DEF HeldBy

LEMMA InHistoryNext ==
  ASSUME NEW e
  PROVE  e \in InHistory' <=> \/ \E s \in Slots : e \in Range(abUndo'[s].undo) \/ e \in Range(abUndo'[s].redo)
                              \/ m'.pc = "install" /\ e = m'.entry
<1>1. e \in InHistory' <=> (\E s \in Slots : e \in HeldBy(s)') \/ e \in Taken'
  <2>1. e \in Stored' <=> \E s \in Slots : e \in HeldBy(s)'
    BY DEF Stored
  <2> QED
    BY <2>1 DEF InHistory
<1>2. e \in Taken' <=> m'.pc = "install" /\ e = m'.entry
  BY DEF Taken
<1> QED
  BY <1>1, <1>2 DEF HeldBy

LEMMA AppendRange ==
  ASSUME NEW S, NEW s \in Seq(S), NEW e \in S
  PROVE  \A f \in Range(Append(s, e)) : f \in Range(s) \cup {e}
<1>1. /\ DOMAIN Append(s, e) = 1..Len(s) + 1 /\ DOMAIN s = 1..Len(s) /\ Len(s) \in Nat
      /\ Append(s, e)[Len(s) + 1] = e /\ \A i \in 1..Len(s) : Append(s, e)[i] = s[i]
  BY AppendProperties
<1>2. \A i \in DOMAIN Append(s, e) : Append(s, e)[i] \in Range(s) \cup {e}
  BY <1>1, RangeIs
<1> QED
  BY <1>2, RangeIs

\* A step that was there before, or one whose ends are the user's.
Sane(e) == e \in InHistory \/ \A p \in DOMAIN e.owned : Given(p, e.owned[p].after)'

LEMMA SaneKept ==
  ASSUME StepEnds, LogKept, \A e \in InHistory' : Sane(e)
  PROVE  StepEnds'
<1>1. ASSUME NEW e \in InHistory', NEW p \in DOMAIN e.owned PROVE Given(p, e.owned[p].after)'
  <2>1. CASE e \in InHistory
    <3>1. PICK v : v = e.owned[p].after
      OBVIOUS
    <3>2. Given(p, v)
      BY <2>1, <3>1 DEF StepEnds
    <3>3. Given(p, v)'
      BY <3>2, GivenKept
    <3> QED
      BY <3>1, <3>3
  <2>2. CASE ~(e \in InHistory)
    BY <1>1, <2>2 DEF Sane
  <2> QED
    BY <2>1, <2>2
<1> QED
  BY <1>1 DEF StepEnds

LEMMA BecomesSane ==
  ASSUME NEW a \in Slots, NEW x, NEW y, Becomes(a, x, y),
         \A f \in Range(x) : Sane(f), \A f \in Range(y) : Sane(f),
         m'.pc = "install" => m'.entry \in InHistory
  PROVE  \A e \in InHistory' : Sane(e)
<1>1. ASSUME NEW e \in InHistory' PROVE Sane(e)
  <2>1. CASE m'.pc = "install" /\ e = m'.entry
    BY <2>1 DEF Sane
  <2>2. CASE \E s \in Slots : e \in Range(abUndo'[s].undo) \/ e \in Range(abUndo'[s].redo)
    <3>1. PICK s \in Slots : e \in Range(abUndo'[s].undo) \/ e \in Range(abUndo'[s].redo)
      BY <2>2
    <3>2. CASE s = a
      BY <3>1, <3>2 DEF Becomes
    <3>3. CASE s # a
      <4>1. e \in Range(abUndo[s].undo) \/ e \in Range(abUndo[s].redo)
        BY <3>1, <3>3 DEF Becomes
      <4> QED
        BY <4>1, InHistoryIs DEF Sane
    <3> QED
      BY <3>2, <3>3
  <2> QED
    BY <1>1, <2>1, <2>2, InHistoryNext
<1> QED
  BY <1>1

LEMMA StepsAreSane ==
  ASSUME NEW a \in Slots
  PROVE  \A f : f \in Range(abUndo[a].undo) \/ f \in Range(abUndo[a].redo) => Sane(f)
BY InHistoryIs DEF Sane

LEMMA NoneSane == \A f \in Range(<<>>) : Sane(f)
BY DEF Range

LEMMA CommitSane ==
  ASSUME NEW k \in Nat, SoundsTyped(k), FlagsTyped, EndInv, LogKept,
         NEW e \in StepsOf(k), NEW t \in Seq(StepsOf(k)), Committing(t, e), m'.pc # "install"
  PROVE  \A f \in InHistory' : Sane(f)
<1>1. abActive \in Slots /\ Becomes(abActive, t, <<>>)
  BY CommitMoves DEF FlagsTyped
<1>2. ASSUME NEW p \in DOMAIN e.owned PROVE Given(p, e.owned[p].after)'
  <2>1. PICK v : v = e.owned[p].after
    OBVIOUS
  <2>2. CASE \E f \in Range(abUndo[abActive].undo) : p \in DOMAIN f.owned /\ e.owned[p].after = f.owned[p].after
    <3>1. PICK f \in Range(abUndo[abActive].undo) : p \in DOMAIN f.owned /\ v = f.owned[p].after
      BY <2>1, <2>2
    <3>2. f \in InHistory
      BY <1>1, <3>1, InHistoryIs
    <3>3. Given(p, v)
      BY <3>1, <3>2 DEF EndInv, StepEnds
    <3> QED
      BY <2>1, <3>3, GivenKept
  <2>3. CASE p \in DOMAIN owned /\ owned[p].before # owned[p].after /\ e.owned[p].after = owned[p].after
    <3>1. Given(p, v)
      BY <2>1, <2>3 DEF EndInv, BatchEnds
    <3> QED
      BY <2>1, <3>1, GivenKept
  <2> QED
    BY <1>2, <2>2, <2>3 DEF Committing
<1>3. Sane(e)
  BY <1>2 DEF Sane
<1>4. \A f \in Range(t) : Sane(f)
  BY <1>1, <1>3, StepsAreSane DEF Committing
<1> QED
  BY <1>1, <1>4, NoneSane, BecomesSane

LEMMA WholeSane ==
  ASSUME NEW k \in Nat, SoundsTyped(k), NEW a \in Slots, NEW e \in StepsOf(k), NEW t \in Seq(StepsOf(k)),
         WholePushed(a, t, e), m'.pc # "install"
  PROVE  \A f \in InHistory' : Sane(f)
<1>1. DOMAIN e.owned = {}
  BY NothingIs DEF WholePushed
<1>2. Sane(e)
  BY <1>1 DEF Sane
<1>3. \A f \in Range(t) : Sane(f)
  BY <1>2, StepsAreSane DEF WholePushed
<1> QED
  BY <1>3, NoneSane, BecomesSane DEF WholePushed

LEMMA TakingSane ==
  ASSUME NEW k \in Nat, SoundsTyped(k), FlagsTyped, NEW from \in {"undo", "redo"}, NEW e, NEW target,
         Taking(from, e, target)
  PROVE  \A f \in InHistory' : Sane(f)
<1>1. abActive \in Slots
  BY DEF FlagsTyped
<1>2. PICK x \in Seq(StepsOf(k)), y \in Seq(StepsOf(k)) : x = abUndo[abActive].undo /\ y = abUndo[abActive].redo
  BY <1>1, StacksAre
<1>3. (\A f \in Range(x) : Sane(f)) /\ (\A f \in Range(y) : Sane(f))
  BY <1>1, <1>2, StepsAreSane
<1>4. m'.entry = e
  BY DEF Taking
<1>5. CASE from = "undo"
  <2>1. x # <<>> /\ e \in Range(x) /\ Becomes(abActive, Front(x), y)
    BY <1>2, <1>5, TakenMoves
  <2>2. e \in InHistory
    BY <1>1, <1>2, <2>1, InHistoryIs
  <2>3. \A f \in Range(Front(x)) : Sane(f)
    BY <1>3, <2>1, Popped
  <2> QED
    BY <1>1, <1>3, <1>4, <2>1, <2>2, <2>3, BecomesSane
<1>6. CASE from = "redo"
  <2>1. y # <<>> /\ e \in Range(y) /\ Becomes(abActive, x, Front(y))
    BY <1>2, <1>6, TakenMoves
  <2>2. e \in InHistory
    BY <1>1, <1>2, <2>1, InHistoryIs
  <2>3. \A f \in Range(Front(y)) : Sane(f)
    BY <1>3, <2>1, Popped
  <2> QED
    BY <1>1, <1>3, <1>4, <2>1, <2>2, <2>3, BecomesSane
<1> QED
  BY <1>5, <1>6

LEMMA ApplyingSane ==
  ASSUME NEW k \in Nat, SoundsTyped(k), FlagsTyped, ApplyUndoEntry
  PROVE  \A f \in InHistory' : Sane(f)
<1>1. abActive \in Slots /\ m.pc = "install" /\ m'.pc # "install"
  BY DEF FlagsTyped, ApplyUndoEntry
<1>2. PICK x \in Seq(StepsOf(k)), y \in Seq(StepsOf(k)), e \in StepsOf(k) :
        x = abUndo[abActive].undo /\ y = abUndo[abActive].redo /\ e = m.entry
  BY <1>1, StacksAre, AppliedMoves
<1>3. e \in InHistory
  BY <1>1, <1>2, InHistoryIs
<1>4. (\A f \in Range(x) : Sane(f)) /\ (\A f \in Range(y) : Sane(f)) /\ Sane(e)
  BY <1>1, <1>2, <1>3, StepsAreSane DEF Sane
<1>5. (\A f \in Range(Append(x, e)) : Sane(f)) /\ (\A f \in Range(Append(y, e)) : Sane(f))
  BY <1>4, AppendRange
<1>6. \/ Becomes(abActive, x, Append(y, e))
      \/ Becomes(abActive, Append(x, e), y)
  BY <1>2, AppliedMoves
<1> QED
  BY <1>1, <1>4, <1>5, <1>6, BecomesSane

LEMMA HistorySane ==
  ASSUME TypesHold, GestureInv, RoomInv, EndInv, LogKept, UndoNext
  PROVE  \A e \in InHistory' : Sane(e)
<1>1. FlagsTyped /\ LogTyped /\ SoundsTyped(Len(log)) /\ abActive \in Slots
  BY DEF TypesHold, FlagsTyped
<1>2. PICK k \in Nat : k = Len(log)
  BY <1>1 DEF LogTyped
<1>3. SoundsTyped(k)
  BY <1>1, <1>2
<1>4. ASSUME abUndo' = abUndo, m'.pc = "install" => m' = m
      PROVE  \A e \in InHistory' : Sane(e)
  BY <1>4, InHistoryIs, InHistoryNext DEF Sane
<1>5. CASE undo \/ redo
  <2>1. PICK from \in {"undo", "redo"}, end \in {"before", "after"} : TakeEntry(from, end)
    BY <1>5 DEF undo, redo
  <2>2. CASE m' = Idle /\ abUndo' = abUndo
    <3>1. m'.pc # "install"
      BY <2>2 DEF Idle
    <3> QED
      BY <1>4, <2>2, <3>1, Zenon
  <2>3. CASE \E e \in StepsOf(k), target \in SoundsOf(k) : Taking(from, e, target)
    BY <1>1, <1>3, <2>3, TakingSane
  <2> QED
    BY <1>1, <1>3, <2>1, <2>2, <2>3, TakenIs
<1>6. CASE ApplyUndoEntry
  BY <1>1, <1>3, <1>6, ApplyingSane
<1>7. ASSUME ~undo, ~redo, ~ApplyUndoEntry, m'.pc # "install" PROVE \A e \in InHistory' : Sane(e)
  <2>1. CASE abUndo' = abUndo
    BY <1>4, <1>7, <2>1, Zenon
  <2>2. CASE PollCommit
    <3>1. CASE \E e \in StepsOf(k), t \in Seq(StepsOf(k)) : Committing(t, e)
      BY <1>1, <1>3, <1>7, <3>1, CommitSane
    <3> QED
      BY <1>1, <1>3, <2>1, <2>2, <3>1, CommitIs
  <2>3. CASE CommitPresetSwitchUndoStep
    <3>1. CASE Becomes(abActive, abUndo[abActive].undo, <<>>)
      BY <1>1, <1>7, <3>1, StepsAreSane, NoneSane, BecomesSane
    <3>2. CASE \E t \in Seq(StepsOf(k)), e \in StepsOf(k) : WholePushed(abActive, t, e)
      BY <1>1, <1>3, <1>7, <3>2, WholeSane
    <3> QED
      BY <1>1, <1>3, <2>1, <2>3, <3>1, <3>2, PresetMoves
  <2>4. CASE abCopyToOther
    BY <1>1, <1>3, <1>7, <2>4, CopyMoves, WholeSane
  <2>5. CASE Adopt
    <3>1. \A s \in Slots : abUndo'[s].undo = <<>> /\ abUndo'[s].redo = <<>>
      BY <2>5 DEF Adopt
    <3>2. \A e : e \notin Range(<<>>)
      BY DEF Range
    <3> QED
      BY <1>7, <3>1, <3>2, InHistoryNext
  <2> QED
    BY <1>7, <2>1, <2>2, <2>3, <2>4, <2>5, HistorySame
<1>8. CASE ~undo /\ ~redo /\ ~ApplyUndoEntry /\ m'.pc = "install"
  BY <1>4, <1>8, InHand
<1> QED
  BY <1>5, <1>6, <1>7, <1>8

LEMMA BatchKept ==
  ASSUME BatchEnds, LogKept, owned' = owned \/ owned' = Nothing
  PROVE  BatchEnds'
<1>1. ASSUME NEW p \in DOMAIN owned, owned' = owned 
      PROVE  owned'[p].after = owned'[p].before \/ Given(p, owned[p].after)'
  <2>1. PICK v : v = owned[p].after
    OBVIOUS
  <2>2. v = owned[p].before \/ Given(p, v)
    BY <1>1, <2>1 DEF BatchEnds
  <2>3. owned'[p].after = v
    BY <1>1, <2>1
  <2>4. v = owned[p].before \/ Given(p, v)'
    BY <2>2, GivenKept
  <2> QED
    BY <1>1, <2>1, <2>3, <2>4
<1>2. DOMAIN Nothing = {}
  BY DEF Nothing
<1> QED
  BY <1>1, <1>2 DEF BatchEnds

LEMMA OpenBatch ==
  ASSUME NEW k \in Nat, SoundsTyped(k), BatchEnds, LogKept, NEW p \in Params, NEW wheel, Open(p, wheel)
  PROVE  BatchEnds'
<1>1. PICK mine, x : /\ mine = IF openGestures = 0 /\ ~pendingGestureCommit THEN Nothing ELSE owned
                     /\ x = [before |-> live[p], after |-> live[p]]
                     /\ owned' = IF p \in DOMAIN mine THEN mine ELSE With(mine, p, x)
  BY DEF Open
<1>2. CASE p \in DOMAIN mine
  BY <1>1, <1>2, BatchKept
<1>3. CASE p \notin DOMAIN mine
  <2>1. mine \in Owns(k) /\ x \in EndsOf(k) /\ x.before = x.after
    BY <1>1, NothingIs DEF SoundsTyped, Levels, EndsOf
  <2>2. PICK g : g = With(mine, p, x)
    OBVIOUS
  <2>3. DOMAIN g = DOMAIN mine \cup {p} /\ g[p] = x /\ \A q \in DOMAIN mine : q # p => g[q] = mine[q]
    BY <2>2 DEF With
  <2>4. owned' = g
    BY <1>1, <1>3, <2>2
  <2>5. ASSUME NEW q \in DOMAIN g PROVE g[q].after = g[q].before \/ Given(q, g[q].after)'
    <3>1. CASE q = p
      BY <2>1, <2>3, <3>1
    <3>2. CASE q # p
      <4>1. q \in DOMAIN mine /\ g[q] = mine[q]
        BY <2>3, <3>2
      <4>2. mine = owned
        BY <1>1, <4>1 DEF Nothing
      <4>3. PICK v : v = owned[q].after
        OBVIOUS
      <4>4. v = owned[q].before \/ Given(q, v)
        BY <4>1, <4>2, <4>3 DEF BatchEnds
      <4> QED
        BY <4>1, <4>2, <4>3, <4>4, GivenKept
    <3> QED
      BY <3>1, <3>2
  <2> QED
    BY <2>4, <2>5 DEF BatchEnds
<1> QED
  BY <1>2, <1>3

LEMMA StoreBatch ==
  ASSUME NEW k \in Nat, SoundsTyped(k), BatchEnds, NEW p \in Params, NEW v \in 0..k, UserStores(p, v),
         DeclareWrite(p, v) \/ DeclareEndpoint(p, v) \/ DeclareRefused(p)
  PROVE  BatchEnds'
<1>1. LogKept /\ Given(p, v)'
  BY DEF UserStores
<1>2. PICK g : g = owned'
  OBVIOUS
<1>3. /\ DOMAIN owned \subseteq DOMAIN g /\ DOMAIN g \subseteq DOMAIN owned \cup {p}
      /\ \A q \in DOMAIN owned : g[q].before = owned[q].before /\ (q # p => g[q] = owned[q])
      /\ p \in DOMAIN g \ DOMAIN owned => g[p].before = live[p] /\ g[p].after = v
      /\ p \in DOMAIN owned => g[p].after \in {owned[p].after, v}
  BY <1>2, DeclaredIs
<1>4. ASSUME NEW q \in DOMAIN g PROVE g[q].after = g[q].before \/ Given(q, g[q].after)'
  <2>1. CASE g[q].after = v /\ q = p
    BY <1>1, <2>1
  <2>2. CASE q \in DOMAIN owned /\ g[q].after = owned[q].after
    <3>1. PICK w : w = owned[q].after
      OBVIOUS
    <3>2. w = owned[q].before \/ Given(q, w)
      BY <2>2, <3>1 DEF BatchEnds
    <3> QED
      BY <1>1, <1>3, <2>2, <3>1, <3>2, GivenKept
  <2> QED
    BY <1>3, <1>4, <2>1, <2>2
<1> QED
  BY <1>2, <1>4 DEF BatchEnds

LEMMA BatchHolds ==
  ASSUME TypesHold, GestureInv, EndInv, UndoNext
  PROVE  BatchEnds'
<1>1. FlagsTyped /\ LogTyped /\ LoadInv /\ SoundsTyped(Len(log)) /\ BatchEnds /\ LogKept /\ LogTyped'
  BY LogHolds DEF TypesHold, EndInv
<1>2. PICK k \in Nat : k = Len(log')
  BY <1>1 DEF LogTyped
<1>3. SoundsTyped(k) /\ Len(log) \in Nat
  BY <1>1, <1>2, SoundsGrown DEF LogKept, LogTyped
<1>4. ASSUME NEW p \in Params, Store(p) \/ StoreAnswered(p) PROVE BatchEnds'
  <2>1. PICK v : v = NewValue
    OBVIOUS
  <2>2. UserStores(p, v)
    BY <1>1, <1>4, <2>1, StoreLogs, StoreAnsweredLogs
  <2>3. v \in 0..k
    BY <1>2, <1>3, <2>1, <2>2 DEF UserStores, NewValue
  <2>4. DeclareWrite(p, v) \/ DeclareEndpoint(p, v) \/ DeclareRefused(p)
    BY <1>4, <2>1 DEF Store, StoreAnswered
  <2> QED
    BY <1>1, <1>3, <2>2, <2>3, <2>4, StoreBatch
<1>5. CASE Host \/ BeginUserTransaction \/ EndUserTransaction
  BY <1>1, <1>5, BatchKept DEF Host, Automate, parameterValueChanged, Restore, BeginUserTransaction, EndUserTransaction, batch
<1>6. CASE \E p \in Params : (\E wheel \in BOOLEAN : Open(p, wheel)) \/ Close(p)
  BY <1>1, <1>3, <1>6, OpenBatch, CloseKeepsEnds, BatchKept
<1>7. CASE TimerTick \/ PollCapture \/ PollFold \/ PollCommit
           \/ \E job \in {"undo", "redo", "switch", "load", "save"} : StateCommand(job)
  BY <1>1, <1>7, BatchKept DEF TimerTick, StateCommand, Poll, PollCapture, PollFold, PollCommit, batch
<1>8. CASE undo \/ redo \/ ApplyUndoEntry \/ abSwitchTo \/ Saved \/ Baseline \/ LoadPreset \/ Loaded
           \/ abCopyToOther \/ Adopt
  BY <1>1, <1>8, BatchKept DEF undo, redo, TakeEntry, ApplyUndoEntry, abSwitchTo, Saved, Baseline, LoadPreset, Loaded,
                                abCopyToOther, Adopt, batch
<1>9. CASE Sync \/ CommitPresetSwitchUndoStep
  BY <1>1, <1>9, BatchKept DEF Sync, CommitPresetSwitchUndoStep, DropGestures, ResetBatchOwnership
<1> QED
  BY <1>4, <1>5, <1>6, <1>7, <1>8, <1>9 DEF UndoNext, Host, Controls, Message

LEMMA EndHolds ==
  ASSUME TypesHold, GestureInv, RoomInv, EndInv, UndoNext
  PROVE  EndInv'
<1>1. LogKept /\ StepEnds
  BY LogHolds DEF TypesHold, EndInv
<1>2. \A e \in InHistory' : Sane(e)
  BY <1>1, HistorySane
<1> QED
  BY <1>1, <1>2, SaneKept, BatchHolds DEF EndInv

-----------------------------------------------------------------------------
(* The pending batch. *)

\* Its ends only move up.
Widens == /\ DOMAIN owned \subseteq DOMAIN owned'
          /\ \A q \in DOMAIN owned : owned'[q].before = owned[q].before /\ owned[q].after <= owned'[q].after
Rises  == committedSig' = committedSig /\ \A q \in Params : live[q] <= live'[q]

LEMMA BetweenKept ==
  ASSUME NEW k \in Nat, SoundsTyped(k), LogKept, NEW v \in DOMAIN log, v \in Nat, Between(v), Widens, owned' \in Owns(k)
  PROVE  Between(v)'
<1>1. PICK p : p = log[v].param
  OBVIOUS
<1>2. log[v].by = "user" /\ p \in DOMAIN owned /\ owned[p].before < v /\ v <= owned[p].after
  BY <1>1 DEF Between
<1>3. log'[v].by = "user" /\ log'[v].param = p
  BY <1>1, <1>2 DEF LogKept
<1>4. p \in DOMAIN owned' /\ owned'[p].before = owned[p].before /\ owned[p].after <= owned'[p].after
  BY <1>2 DEF Widens
<1>5. owned[p].before \in 0..k /\ owned[p].after \in 0..k /\ owned'[p].after \in 0..k
  BY <1>2, <1>4, OwnedPair DEF SoundsTyped
<1>6. owned'[p].before < v /\ v <= owned'[p].after
  BY <1>2, <1>4, <1>5
<1> QED
  BY <1>3, <1>4, <1>6 DEF Between

LEMMA UnseenKept ==
  ASSUME NEW k \in Nat, SoundsTyped(k), LogKept, NEW v \in DOMAIN log, v \in Nat, Between(v), Unseen(v), Rises,
         live' \in Levels(k)
  PROVE  Unseen(v)'
<1>1. PICK p : p = log[v].param
  OBVIOUS
<1>2. p \in DOMAIN owned /\ committedSig[p] < v /\ v <= live[p]
  BY <1>1 DEF Between, Unseen
<1>3. p \in Params
  BY <1>2, OwnsIs DEF SoundsTyped
<1>4. log'[v].param = p
  BY <1>1 DEF LogKept
<1>5. live[p] \in 0..k /\ live'[p] \in 0..k /\ live[p] <= live'[p] /\ committedSig' = committedSig
  BY <1>3 DEF Rises, SoundsTyped, Levels
<1>6. committedSig'[p] < v /\ v <= live'[p]
  BY <1>2, <1>5
<1> QED
  BY <1>4, <1>6 DEF Unseen

LEMMA SameWidens ==
  ASSUME NEW k \in Nat, SoundsTyped(k)
  PROVE  /\ owned' = owned => Widens /\ owned' \in Owns(k)
         /\ live' = live /\ committedSig' = committedSig => Rises /\ live' \in Levels(k)
<1>1. ASSUME owned' = owned PROVE Widens /\ owned' \in Owns(k)
  <2>1. \A q \in DOMAIN owned : owned[q].after \in 0..k
    BY OwnedPair DEF SoundsTyped
  <2> QED
    BY <1>1, <2>1 DEF Widens, SoundsTyped
<1>2. ASSUME live' = live, committedSig' = committedSig PROVE Rises /\ live' \in Levels(k)
  BY <1>2 DEF Rises, SoundsTyped, Levels
<1> QED
  BY <1>1, <1>2

\* What is made stays made, as its ends widen and the sound is not taken back.
LEMMA MadeKept ==
  ASSUME NEW k \in Nat, SoundsTyped(k), LogTyped, MadeIs, LogKept, NEW v \in made,
         Widens, owned' \in Owns(k), m'.pc \in Steady => m.pc \in Steady /\ Rises /\ live' \in Levels(k)
  PROVE  Between(v)' /\ (m'.pc \in Steady => Unseen(v)')
<1>1. v \in DOMAIN log /\ v \in Nat /\ Between(v) /\ (m.pc \in Steady => Unseen(v))
  BY DEF LogTyped, MadeIs
<1>2. Between(v)'
  BY <1>1, BetweenKept
<1>3. ASSUME m'.pc \in Steady PROVE Unseen(v)'
  BY <1>1, <1>3, UnseenKept
<1> QED
  BY <1>2, <1>3

LEMMA MadeStays ==
  ASSUME NEW k \in Nat, SoundsTyped(k), LogTyped, MadeIs, LogKept, made' \subseteq made,
         Widens, owned' \in Owns(k), m'.pc \in Steady => m.pc \in Steady /\ Rises /\ live' \in Levels(k)
  PROVE  MadeIs'
<1>1. \A v \in made : Between(v)' /\ (m'.pc \in Steady => Unseen(v)')
  BY MadeKept
<1> QED
  BY <1>1 DEF MadeIs

LEMMA NoneMade ==
  ASSUME made' = {}
  PROVE  MadeIs' /\ MadeWaits'
BY DEF MadeIs, MadeWaits

LEMMA HostMade ==
  ASSUME NEW k \in Nat, SoundsTyped(Len(log)), SoundsTyped(k), LogTyped, MadeInv, LogKept, NewValue \in 0..k,
         parameterValueChanged \/ Restore \/ \E p \in Params : Automate(p)
  PROVE  MadeInv'
<1>1. UNCHANGED <<made, owned, m, openGestures, pendingGestureCommit, committedSig>>
  BY DEF parameterValueChanged, Restore, Automate, edges, batch, request, base
<1>2. PICK n \in Nat : n = Len(log)
  BY DEF LogTyped
<1>3. \A q \in Params : live[q] \in 0..n /\ live'[q] \in {live[q], n + 1}
  BY <1>2 DEF SoundsTyped, Levels, parameterValueChanged, Restore, Automate, NewValue
<1>4. \A q \in Params : live[q] <= live'[q]
  BY <1>3
<1>5. live' \in Levels(k)
  BY DEF SoundsTyped, Levels, parameterValueChanged, Restore, Automate
<1>6. Rises
  BY <1>1, <1>4 DEF Rises
<1>7. MadeIs'
  BY <1>1, <1>5, <1>6, SameWidens, MadeStays DEF MadeInv
<1>8. MadeWaits'
  BY <1>1 DEF MadeInv, MadeWaits, Polled
<1> QED
  BY <1>7, <1>8 DEF MadeInv

LEMMA OpenMade ==
  ASSUME NEW k \in Nat, SoundsTyped(k), LogTyped, FlagsTyped, GestureInv, MadeInv, LogKept, NEW p \in Params,
         NEW wheel \in BOOLEAN, Open(p, wheel), owned' \in Owns(k)
  PROVE  MadeInv'
<1>1. openGestures' # 0
  BY OpenCounts DEF FlagsTyped
<1>2. UNCHANGED <<m, live, committedSig>>
  BY DEF Open, base
<1>3. CASE made' = {}
  BY <1>3, NoneMade DEF MadeInv
<1>4. CASE made' # {}
  <2>1. made' = made /\ owned' = IF p \in DOMAIN owned THEN owned
                                 ELSE With(owned, p, [before |-> live[p], after |-> live[p]])
    BY <1>4 DEF Open
  <2>2. CASE p \in DOMAIN owned
    <3>1. MadeIs'
      BY <1>2, <2>1, <2>2, SameWidens, MadeStays DEF MadeInv
    <3> QED
      BY <1>1, <3>1 DEF MadeInv, MadeWaits
  <2>3. CASE p \notin DOMAIN owned
    <3>1. PICK x : x = [before |-> live[p], after |-> live[p]]
      OBVIOUS
    <3>2. x \in EndsOf(k) /\ owned \in Owns(k)
      BY <3>1 DEF SoundsTyped, Levels, EndsOf
    <3>3. PICK g : g = With(owned, p, x)
      OBVIOUS
    <3>4. DOMAIN g = DOMAIN owned \cup {p} /\ \A q \in DOMAIN owned : q # p => g[q] = owned[q]
      BY <3>2, <3>3, WithIs
    <3>5. \A q \in DOMAIN owned : owned[q].after \in 0..k /\ g[q] = owned[q]
      BY <2>3, <3>2, <3>4, OwnedPair
    <3>6. owned' = g
      BY <2>1, <2>3, <3>1, <3>3
    <3>7. Widens
      BY <3>4, <3>5, <3>6 DEF Widens
    <3>8. MadeIs'
      BY <1>2, <2>1, <3>7, SameWidens, MadeStays DEF MadeInv
    <3> QED
      BY <1>1, <3>8 DEF MadeInv, MadeWaits
  <2> QED
    BY <2>2, <2>3
<1> QED
  BY <1>3, <1>4

\* A store's value is newer than all there was, and its parameter's end if it is made.
LEMMA StoreMade ==
  ASSUME NEW n \in Nat, NEW k \in Nat, SoundsTyped(n), SoundsTyped(k), LogTyped, FlagsTyped, MadeInv, n = Len(log),
         NEW p \in Params, NEW v \in 0..k, v = n + 1, UserStores(p, v), live' \in Levels(k),
         \/ Store(p) /\ live'[p] = v
         \/ StoreAnswered(p) /\ live'[p] = v + 1
  PROVE  MadeInv'
<1>1. /\ LogKept /\ log'[v].by = "user" /\ log'[v].param = p /\ made' \subseteq made \cup {v}
  BY DEF UserStores, Given
<1>2. UNCHANGED <<m, openGestures, pendingGestureCommit, committedSig>> /\ m = Idle
  BY DEF Store, StoreAnswered, edges, request, base
<1>3. /\ DeclareWrite(p, v) \/ DeclareEndpoint(p, v) \/ DeclareRefused(p)
      /\ v \in made' \ made => /\ InBatch /\ p \in DOMAIN owned'
                               /\ DeclareWrite(p, v) \/ DeclareEndpoint(p, v)
  <2>1. NewValue = v
    BY DEF NewValue
  <2>2. CASE Store(p)
    BY <2>1, <2>2 DEF Store
  <2>3. CASE StoreAnswered(p) /\ p \in Declaring
    BY <2>1, <2>3 DEF StoreAnswered
  <2>4. CASE StoreAnswered(p) /\ p \notin Declaring
    <3>1. DeclareEndpoint(p, v) /\ (v \in made' \ made => InBatch /\ p \in DOMAIN owned)
      BY <2>1, <2>4 DEF StoreAnswered
    <3>2. p \in DOMAIN owned => p \in DOMAIN owned'
      BY <3>1, DeclaredIs
    <3> QED
      BY <3>1, <3>2
  <2> QED
    BY <2>2, <2>3, <2>4
<1>4. PICK g \in Owns(k) : g = owned'
  BY <1>3, DeclaredIs
<1>5. /\ DOMAIN owned \subseteq DOMAIN g /\ DOMAIN g \subseteq DOMAIN owned \cup {p}
      /\ \A q \in DOMAIN owned : g[q].before = owned[q].before /\ (q # p => g[q] = owned[q])
      /\ p \in DOMAIN g \ DOMAIN owned => g[p].before = live[p] /\ g[p].after = v
      /\ p \in DOMAIN owned => g[p].after \in {owned[p].after, v}
      /\ (DeclareWrite(p, v) \/ DeclareEndpoint(p, v)) /\ p \in DOMAIN g => g[p].after = v
  BY <1>3, <1>4, DeclaredIs
<1>6. \A q \in DOMAIN owned : q \in Params /\ owned[q].before \in 0..n /\ owned[q].after \in 0..n
  BY OwnedPair DEF SoundsTyped
<1>7. \A q \in Params : live[q] \in 0..n /\ committedSig[q] \in 0..n /\ live'[q] \in 0..k
  BY DEF SoundsTyped, Levels
<1>8. Widens
  <2>1. ASSUME NEW q \in DOMAIN owned PROVE owned[q].after <= g[q].after
    BY <1>5, <1>6
  <2> QED
    BY <1>4, <1>5, <2>1 DEF Widens
<1>9. Rises
  <2>1. ASSUME NEW q \in Params PROVE live[q] <= live'[q]
    <3>1. CASE q = p
      BY <1>7, <3>1
    <3>2. CASE q # p
      <4>1. live'[q] = live[q]
        BY <3>2 DEF SoundsTyped, Levels, Store, StoreAnswered
      <4> QED
        BY <1>7, <4>1
    <3> QED
      BY <3>1, <3>2
  <2> QED
    BY <1>2, <2>1 DEF Rises
<1>10. ASSUME NEW w \in made PROVE Between(w)' /\ (m'.pc \in Steady => Unseen(w)')
  BY <1>1, <1>2, <1>4, <1>8, <1>9, MadeKept DEF MadeInv
<1>11. ASSUME v \in made' \ made PROVE Between(v)' /\ Unseen(v)'
  <2>1. p \in DOMAIN g /\ g[p].after = v
    BY <1>3, <1>4, <1>5, <1>11
  <2>2. g[p].before \in 0..n
    BY <1>5, <1>6, <1>7, <2>1
  <2>3. g[p].before < v /\ v <= g[p].after
    BY <2>1, <2>2
  <2>4. Between(v)'
    BY <1>1, <1>4, <2>1, <2>3 DEF Between
  <2>5. committedSig'[p] < v /\ v <= live'[p]
    BY <1>2, <1>7
  <2> QED
    BY <1>1, <2>4, <2>5 DEF Unseen
<1>12. MadeIs'
  BY <1>1, <1>10, <1>11 DEF MadeIs
<1>13. MadeWaits'
  <2>1. ASSUME openGestures = 0, made' # {} PROVE pendingGestureCommit
    <3>1. CASE made # {}
      BY <2>1, <3>1 DEF MadeInv, MadeWaits
    <3>2. CASE made = {}
      <4>1. InBatch
        BY <1>1, <1>3, <2>1, <3>2
      <4> QED
        BY <2>1, <4>1 DEF InBatch
    <3> QED
      BY <3>1, <3>2
  <2>2. ~Polled'
    BY <1>2 DEF Polled, Idle
  <2> QED
    BY <1>2, <2>1, <2>2 DEF MadeWaits
<1> QED
  BY <1>12, <1>13 DEF MadeInv

\* The last gesture to close asks for the poll that the batch waits for.
LEMMA CloseMade ==
  ASSUME NEW k \in Nat, SoundsTyped(k), LogTyped, FlagsTyped, GestureInv, MadeInv, LogKept, NEW p \in Params, Close(p)
  PROVE  MadeInv'
<1>1. UNCHANGED <<m, made, live, committedSig>> /\ m = Idle /\ owned' = owned
  BY CloseKeepsEnds DEF Close, base, history
<1>2. MadeIs'
  BY <1>1, SameWidens, MadeStays DEF MadeInv
<1>3. ~Polled'
  BY <1>1 DEF Polled, Idle
<1>4. ASSUME openGestures' = 0, made # {} PROVE pendingGestureCommit'
  <2>1. CASE openGestures = 1
    BY <2>1 DEF Close
  <2>2. CASE openGestures # 1
    <3>1. openGestures = 0
      BY <1>4, <2>2, CloseCounts
    <3>2. pendingGestureCommit' = pendingGestureCommit
      BY <2>2 DEF Close, request
    <3> QED
      BY <1>4, <3>1, <3>2 DEF MadeInv, MadeWaits
  <2> QED
    BY <2>1, <2>2
<1> QED
  BY <1>1, <1>2, <1>3, <1>4 DEF MadeInv, MadeWaits

\* A poll that looks at a batch finds that it moved the sound, and goes on to commit it.
LEMMA PollSees ==
  ASSUME NEW k \in Nat, SoundsTyped(k), MadeInv, m = Idle, made # {}, LogTyped
  PROVE  live # committedSig
<1>1. PICK v \in made : v \in Nat
  BY DEF LogTyped
<1>2. PICK p : p = log[v].param
  OBVIOUS
<1>3. p \in DOMAIN owned /\ committedSig[p] < v /\ v <= live[p]
  BY <1>1, <1>2 DEF MadeInv, MadeIs, Between, Unseen, Steady, Idle
<1>4. p \in Params
  BY <1>3, OwnsIs DEF SoundsTyped
<1>5. live[p] \in 0..k /\ committedSig[p] \in 0..k
  BY <1>4 DEF SoundsTyped, Levels
<1>6. committedSig[p] # live[p]
  BY <1>1, <1>3, <1>5
<1> QED
  BY <1>6

LEMMA PollMade ==
  ASSUME NEW k \in Nat, SoundsTyped(k), LogTyped, FlagsTyped, MadeInv, LogKept, NEW job \in Jobs, Poll(job), m = Idle,
         ~userTransaction
  PROVE  MadeInv' /\ (made # {} /\ openGestures = 0 => made' = made)
<1>1. UNCHANGED <<live, committedSig, owned, openGestures>> /\ m.pc = "idle"
  BY DEF Poll, batch, Idle
<1>2. made' = {} \/ made' = made
  BY DEF Poll
<1>3. MadeIs'
  BY <1>1, <1>2, SameWidens, MadeStays DEF MadeInv, Steady
<1>4. ASSUME made # {}, openGestures = 0
      PROVE  made' = made /\ m'.pc = "poll" /\ pendingGestureCommit'
  <2>1. live # committedSig
    BY <1>4, PollSees
  <2>2. pendingGestureCommit
    BY <1>4 DEF MadeInv, MadeWaits
  <2>3. ~(openGestures > 0)
    BY <1>4
  <2> QED
    BY <2>1, <2>2, <2>3 DEF Poll, request
<1> QED
  BY <1>1, <1>2, <1>3, <1>4 DEF MadeInv, MadeWaits, Polled

LEMMA MadeHolds ==
  ASSUME TypesHold, GestureInv, RoomInv, MadeInv, UndoNext
  PROVE  MadeInv'
<1>1. /\ FlagsTyped /\ LogTyped /\ LoadInv /\ SoundsTyped(Len(log)) /\ LogKept /\ LogTyped' /\ SoundsTyped(Len(log))'
      /\ MadeIs /\ MadeWaits
  BY LogHolds, SoundsHold DEF TypesHold, MadeInv
<1>2. PICK n \in Nat, k \in Nat : n = Len(log) /\ k = Len(log')
  BY <1>1 DEF LogTyped
<1>3. SoundsTyped(n) /\ SoundsTyped(k) /\ n <= k
  BY <1>1, <1>2, SoundsGrown DEF LogKept
<1>4. live' \in Levels(k) /\ owned' \in Owns(k)
  BY <1>1, <1>2 DEF SoundsTyped
<1>5. CASE Host
  <2>1. CASE parameterValueChanged
    <3>1. UNCHANGED <<made, owned, m, openGestures, pendingGestureCommit, committedSig, live>>
      BY <2>1 DEF parameterValueChanged, edges, batch, request, base
    <3>2. MadeIs'
      BY <1>1, <1>3, <3>1, SameWidens, MadeStays
    <3> QED
      BY <1>1, <3>1, <3>2 DEF MadeInv, MadeWaits, Polled
  <2>2. CASE Restore \/ \E p \in Params : Automate(p)
    <3>1. NewValue \in 0..k
      BY <1>1, <1>2, <2>2, AutomateLogs, RestoreLogs DEF NewValue
    <3> QED
      BY <1>1, <1>3, <2>2, <3>1, HostMade
  <2> QED
    BY <1>5, <2>1, <2>2 DEF Host
<1>6. ASSUME NEW p \in Params, Store(p) \/ StoreAnswered(p) PROVE MadeInv'
  <2>1. PICK v : v = NewValue
    OBVIOUS
  <2>2. UserStores(p, v) /\ v = n + 1
    BY <1>1, <1>2, <1>6, <2>1, StoreLogs, StoreAnsweredLogs DEF NewValue
  <2>3. v \in 0..k
    BY <1>2, <2>2 DEF UserStores
  <2>4. (Store(p) /\ live'[p] = v) \/ (StoreAnswered(p) /\ live'[p] = v + 1)
    <3>1. live \in Levels(n)
      BY <1>3 DEF SoundsTyped
    <3>2. /\ Store(p) => live' = [live EXCEPT ![p] = v]
          /\ StoreAnswered(p) => live' = [live EXCEPT ![p] = v + 1]
      BY <2>1 DEF Store, StoreAnswered
    <3> QED
      <4>1. CASE Store(p)
        <5>1. live' = [live EXCEPT ![p] = v] /\ p \in DOMAIN live
          BY <3>1, <3>2, <4>1 DEF Levels
        <5>2. live'[p] = v
          BY <5>1, Zenon
        <5> QED
          BY <4>1, <5>2, Zenon
      <4>2. CASE StoreAnswered(p)
        BY <3>1, <3>2, <4>2 DEF Levels
      <4> QED
        BY <1>6, <4>1, <4>2
  <2> QED
    BY <1>1, <1>2, <1>3, <1>4, <2>2, <2>3, <2>4, StoreMade
<1>7. CASE BeginUserTransaction \/ EndUserTransaction \/ abCopyToOther
  <2>1. UNCHANGED <<made, owned, m, openGestures, pendingGestureCommit, committedSig, live>>
    BY <1>7 DEF BeginUserTransaction, EndUserTransaction, abCopyToOther, sound, edges, batch, request, base, history
  <2>2. MadeIs'
    BY <1>1, <1>3, <2>1, SameWidens, MadeStays
  <2> QED
    BY <1>1, <2>1, <2>2 DEF MadeInv, MadeWaits, Polled
<1>8. CASE \E p \in Params : (\E wheel \in BOOLEAN : Open(p, wheel)) \/ Close(p)
  BY <1>1, <1>3, <1>4, <1>8, OpenMade, CloseMade
<1>9. CASE TimerTick \/ \E job \in {"undo", "redo", "switch", "load", "save"} : StateCommand(job)
  BY <1>1, <1>3, <1>9, PollMade DEF TimerTick, StateCommand, MayAct, Jobs
<1>10. CASE PollCommit \/ Sync \/ CommitPresetSwitchUndoStep
  BY <1>10, NoneMade DEF MadeInv, PollCommit, Sync, CommitPresetSwitchUndoStep, DropGestures, ResetBatchOwnership
<1>11. CASE PollFold
  <2>1. made = {}
    BY <1>1, <1>11 DEF PollFold, MadeWaits, GestureInv
  <2> QED
    BY <1>11, <2>1, NoneMade DEF MadeInv, PollFold
<1>12. CASE PollCapture
  <2>1. /\ UNCHANGED <<made, owned, openGestures, pendingGestureCommit, committedSig, live>>
        /\ m.pc \in Steady /\ m'.pc = "captured"
    BY <1>12 DEF PollCapture, sound, edges, batch, request, base, history, Steady
  <2>2. MadeIs'
    BY <1>1, <1>3, <2>1, SameWidens, MadeStays
  <2> QED
    BY <1>1, <2>1, <2>2 DEF MadeInv, MadeWaits, Polled
<1>13. CASE undo \/ redo
  <2>1. /\ UNCHANGED <<made, owned, openGestures, pendingGestureCommit, committedSig, live>>
        /\ m.pc \in {"undo", "redo"}
    BY <1>13 DEF undo, redo, TakeEntry, sound, edges, batch, request, base, history
  <2>2. MadeIs'
    BY <1>1, <1>3, <2>1, SameWidens, MadeStays DEF Steady
  <2> QED
    BY <1>1, <2>1, <2>2 DEF MadeInv, MadeWaits, Polled
<1>14. CASE ApplyUndoEntry \/ abSwitchTo \/ Saved \/ LoadPreset \/ Loaded
  <2>1. /\ UNCHANGED <<made, owned, openGestures, pendingGestureCommit>> /\ Polled
        /\ m'.pc \notin Steady
    BY <1>14 DEF ApplyUndoEntry, abSwitchTo, Saved, LoadPreset, Loaded, sound, edges, batch, request, base, history,
                 Steady, Polled
  <2>2. MadeIs'
    BY <1>1, <1>3, <2>1, SameWidens, MadeStays
  <2> QED
    BY <1>1, <2>1, <2>2 DEF MadeInv, MadeWaits
<1>15. CASE Baseline
  <2>1. /\ UNCHANGED <<made, owned, openGestures, pendingGestureCommit>> /\ m'.pc \notin Steady
        /\ m' = [pc |-> "sync", of |-> m.pc]
    BY <1>15 DEF Baseline, edges, batch, request, history, Steady
  <2>2. MadeIs'
    BY <1>1, <1>3, <2>1, SameWidens, MadeStays
  <2>3. Polled' => Polled
    BY <1>15, <2>1 DEF Polled, Baseline
  <2> QED
    BY <1>1, <2>1, <2>2, <2>3 DEF MadeInv, MadeWaits
<1>16. CASE Adopt
  <2>1. /\ UNCHANGED <<made, owned, openGestures, pendingGestureCommit>> /\ m'.pc = "adopted"
    BY <1>16 DEF Adopt, edges, batch, request, history
  <2>2. MadeIs'
    BY <1>1, <1>3, <2>1, SameWidens, MadeStays DEF Steady
  <2> QED
    BY <1>1, <2>1, <2>2 DEF MadeInv, MadeWaits, Polled
<1> QED
  BY <1>5, <1>6, <1>7, <1>8, <1>9, <1>10, <1>11, <1>12, <1>13, <1>14, <1>15, <1>16 DEF UndoNext, Controls, Message

-----------------------------------------------------------------------------
(* The theorems. *)

LEMMA InitHolds == ASSUME UndoInit PROVE IInv
<1>1. /\ Len(log) = 0 /\ DOMAIN log = {} /\ log \in Seq(Writes) /\ opened = 0 /\ acted = 0 /\ made = {}
      /\ m.pc = "idle" /\ m = Idle
  BY DEF UndoInit, Idle
<1>2. MaxInputs \in Nat
  BY UndoAssumption
<1>3. LogTyped /\ LoadInv
  BY <1>1, <1>2 DEF LogTyped, LoadInv
<1>4. FlagsTyped
  BY FS_EmptySet DEF UndoInit, FlagsTyped, Keys, Scrolls, Slots
<1>5. SoundsTyped(0)
  <2>1. live \in Levels(0) /\ preset \in Values /\ Current \in SoundsOf(0)
    BY <1>2 DEF UndoInit, Levels, Values, Current, SoundsOf
  <2>2. owned \in Owns(0) /\ m \in Points(0)
    BY <1>1, NothingIs, PointIn DEF UndoInit
  <2>3. committed \in SoundsOf(0) /\ committedSig \in Levels(0) /\ abSlot \in [Slots -> SoundsOf(0)]
    BY <2>1 DEF UndoInit
  <2>4. abUndo \in Histories(0)
    BY DEF UndoInit, Histories
  <2> QED
    BY <2>1, <2>2, <2>3, <2>4 DEF SoundsTyped
<1>6. TypesHold
  BY <1>1, <1>3, <1>4, <1>5 DEF TypesHold
<1>7. GestureInv
  BY <1>1 DEF UndoInit, GestureInv
<1>8. \A s \in Slots : abUndo[s].undo = <<>> /\ abUndo[s].redo = <<>>
  BY DEF UndoInit
<1>9. RoomInv
  <2>1. Len(<<>>) + Len(<<>>) <= Depth
    BY UndoAssumption
  <2> QED
    BY <1>1, <1>8, <2>1 DEF RoomInv
<1>10. EndInv
  <2>1. \A e : e \notin Range(<<>>)
    BY DEF Range
  <2>2. \A e : e \notin InHistory
    BY <1>1, <1>8, <2>1, InHistoryIs
  <2>3. DOMAIN owned = {}
    BY DEF UndoInit, Nothing
  <2> QED
    BY <2>2, <2>3 DEF EndInv, StepEnds, BatchEnds
<1>11. MadeInv
  BY <1>1 DEF MadeInv, MadeIs, MadeWaits
<1> QED
  BY <1>6, <1>7, <1>9, <1>10, <1>11 DEF IInv

LEMMA StutterKeeps == ASSUME IInv, UNCHANGED undoVars PROVE IInv'
<1>1. UNCHANGED <<live, preset, marks, automating, restored, held, wheelStepKey, userTransaction, openGestures,
                  foreignSinceEdge, owned, episode, pendingGestureCommit, pendingStepWheelKey, pendingStepNamed,
                  lastStepWheelKey, committed, committedSig, committedNeedsResync, abActive, abSlot, abUndo, m,
                  log, made, scroll, opened, acted>>
  BY DEF undoVars, sound, ui, edges, batch, request, base, ab, history
<1>2. TypesHold'
  BY <1>1 DEF IInv, TypesHold, LogTyped, LoadInv, Inputs, FlagsTyped, SoundsTyped
<1>3. GestureInv' /\ RoomInv'
  BY <1>1 DEF IInv, GestureInv, RoomInv
<1>4. EndInv'
  <2>1. \A e \in InHistory' : Sane(e)
    BY <1>1, InHistoryIs, InHistoryNext DEF Sane
  <2>2. LogKept
    BY <1>1 DEF LogKept, IInv, TypesHold, LogTyped
  <2> QED
    BY <1>1, <2>1, <2>2, SaneKept, BatchKept DEF IInv, EndInv
<1>5. MadeInv'
  BY <1>1 DEF IInv, MadeInv, MadeIs, MadeWaits, Between, Unseen, Polled
<1> QED
  BY <1>2, <1>3, <1>4, <1>5 DEF IInv

LEMMA NextKeeps == ASSUME IInv, UndoNext PROVE IInv'
<1>1. TypesHold /\ GestureInv /\ RoomInv /\ EndInv /\ MadeInv /\ LogTyped /\ LoadInv /\ FlagsTyped
  BY DEF IInv, TypesHold
<1>2. TypesHold'
  BY <1>1, LogHolds, LoadHolds, FlagsHold, SoundsHold DEF TypesHold
<1> QED
  BY <1>1, <1>2, GestureHolds, RoomHolds, EndHolds, MadeHolds DEF IInv

\* The history, the batch that is pending and the message thread's place stay together
\* as the inductive invariant says, whatever the controls, the commands, the timer and
\* the host's automation do (PluginProcessor.cpp's undo section).
THEOREM HistoryInvariant == UndoSpec => []IInv
<1>1. UndoInit => IInv
  BY InitHolds
<1>2. IInv /\ [UndoNext]_undoVars => IInv'
  BY NextKeeps, StutterKeeps
<1> QED
  BY <1>1, <1>2, PTL DEF UndoSpec

LEMMA StoredAre ==
  ASSUME NEW k \in Nat, SoundsTyped(k), NEW e \in AllSteps
  PROVE  e \in InHistory /\ e \in StepsOf(k)
<1>1. PICK s \in Slots : e \in Range(Steps(s))
  BY DEF AllSteps
<1>2. PICK x \in Seq(StepsOf(k)), y \in Seq(StepsOf(k)) : x = abUndo[s].undo /\ y = abUndo[s].redo
  BY StacksAre
<1>3. e \in Range(x \o y)
  BY <1>1, <1>2 DEF Steps
<1>4. e \in Range(x) \/ e \in Range(y)
  BY <1>3, Joined
<1>5. e \in StepsOf(k)
  BY <1>4, RangeIs
<1> QED
  BY <1>2, <1>4, <1>5, InHistoryIs

\* The forward end of every parameter of every step that can be undone or redone is a
\* value that the user gave that very parameter: what the host wrote in between, to it
\* or to another, is in no step (gestureEnded() reads no end that was stated,
\* noteOwnedParamEndpoint() and commitUndoStepFromOwned() keep the user's).
THEOREM EndpointsAlwaysTheUsers == UndoSpec => []EndpointsAreTheUsers
<1>1. ASSUME IInv PROVE EndpointsAreTheUsers
  <2>1. StepEnds /\ SoundsTyped(Len(log)) /\ Len(log) \in Nat
    BY <1>1 DEF IInv, EndInv, TypesHold, LogTyped
  <2>2. \A e \in AllSteps : e \in InHistory
    BY <2>1, StoredAre
  <2> QED
    BY <2>1, <2>2 DEF EndpointsAreTheUsers, StepEnds, Given
<1> QED
  BY <1>1, HistoryInvariant, PTL

LEMMA EditsTyped ==
  ASSUME NEW n \in 0..MaxInputs + 1, NEW f \in Owns(n)
  PROVE  Edits(f)
<1>1. n \in Nat /\ MaxInputs \in Nat
  BY UndoAssumption
<1>2. DOMAIN f \subseteq Params /\ \A p \in DOMAIN f : f[p].before \in 0..n /\ f[p].after \in 0..n
  BY <1>1, OwnsIs, OwnedPair
<1>3. 0..n \subseteq Values
  BY <1>1 DEF Values
<1> QED
  BY <1>2, <1>3 DEF Edits

\* The types hold, and no slot's history outgrows kUndoDepth, over both directions
\* together: an undo puts back no more than it took, and whatever pushes drops the
\* oldest and what could be redone (PushCapped, undo(), redo()).
THEOREM HistoryAlwaysBounded == UndoSpec => []HistoryIsBounded
<1>1. ASSUME IInv PROVE HistoryIsBounded
  <2>1. PICK n \in Nat : n = Len(log)
    BY <1>1 DEF IInv, TypesHold, LogTyped
  <2>2. SoundsTyped(n) /\ FlagsTyped /\ LogTyped /\ GestureInv /\ RoomInv
    BY <1>1, <2>1 DEF IInv, TypesHold
  <2>3. n \in 0..MaxInputs + 1 /\ 0..n \subseteq Values
    BY <2>1, <2>2, UndoAssumption DEF LogTyped, Values
  <2>4. Levels(n) \subseteq [Params -> Values]
    BY <2>3 DEF Levels
  <2>5. SoundsOf(n) \subseteq Sounds
    BY <2>4 DEF SoundsOf, Sounds
  <2>6. live \in [Params -> Values] /\ preset \in Values /\ committedSig \in [Params -> Values]
    BY <2>2, <2>4 DEF SoundsTyped
  <2>7. {committed, abSlot[0], abSlot[1]} \subseteq Sounds
    BY <2>2, <2>5 DEF SoundsTyped, Slots
  <2>8. Edits(owned)
    BY <2>2, <2>3, EditsTyped DEF SoundsTyped
  <2>9. ASSUME NEW e \in AllSteps PROVE Edits(e.owned) /\ (IsWhole(e) => {e.before, e.after} \subseteq Sounds)
    <3>1. e \in StepsOf(n)
      BY <2>2, StoredAre
    <3>2. /\ e.owned \in Owns(n) /\ e.before \in SidesOf(n) /\ e.after \in SidesOf(n)
          /\ e.before.params = Nothing <=> e.after.params = Nothing
      BY <3>1 DEF StepsOf
    <3>3. ASSUME NEW x \in SidesOf(n), x.params # Nothing PROVE x \in Sounds
      <4>1. x \in SoundsOf(n)
        BY <3>3 DEF SidesOf, SoundsOf
      <4> QED
        BY <2>5, <4>1
    <3> QED
      BY <2>3, <3>2, <3>3, EditsTyped DEF IsWhole
  <2>10. openGestures \in 0..Cardinality(held)
    <3>1. Cardinality(held) \in Nat
      BY <2>2, FS_CardinalityType DEF FlagsTyped
    <3> QED
      BY <2>2, <3>1 DEF GestureInv
  <2>11. UndoTypeOK
    BY <2>2, <2>6, <2>7, <2>8, <2>9, <2>10 DEF UndoTypeOK, FlagsTyped, GestureInv, Keys
  <2>12. ASSUME NEW s \in Slots PROVE Len(Steps(s)) <= Depth
    <3>1. PICK x \in Seq(StepsOf(n)), y \in Seq(StepsOf(n)) : x = abUndo[s].undo /\ y = abUndo[s].redo
      BY <2>2, StacksAre
    <3>2. Len(x \o y) = Len(x) + Len(y)
      BY ConcatProperties
    <3>3. Len(x) + Len(y) <= Depth
      BY <2>2, <3>1 DEF RoomInv
    <3> QED
      BY <3>1, <3>2, <3>3 DEF Steps
  <2> QED
    BY <2>11, <2>12 DEF HistoryIsBounded
<1> QED
  BY <1>1, HistoryInvariant, PTL

\* Both together, as the runs check them: what the history holds is the user's, and fits.
THEOREM HistoryAlwaysHolds == UndoSpec => []HistoryHolds
<1>1. EndpointsAreTheUsers /\ HistoryIsBounded => HistoryHolds
  BY DEF HistoryHolds
<1> QED
  BY <1>1, EndpointsAlwaysTheUsers, HistoryAlwaysBounded, PTL

\* A closed batch leaves each of its edits in a step that can be undone, at whichever
\* step ends it: no poll finds the sound unmoved, and none folds the batch into the
\* baseline (pollUndoCoalesceAdopted(), and the commands that poll first).
THEOREM EditsAlwaysRecorded == UndoSpec => EditsAreRecorded
<1>1. ASSUME IInv, UndoNext PROVE EditsKept
  <2>1. /\ TypesHold /\ FlagsTyped /\ LogTyped /\ SoundsTyped(Len(log)) /\ GestureInv /\ RoomInv /\ MadeInv
        /\ MadeWaits /\ LogKept /\ LoadInv
    BY <1>1, LogHolds DEF IInv, TypesHold, MadeInv
  <2>2. PICK k \in Nat : k = Len(log)
    BY <2>1 DEF LogTyped
  <2>3. SoundsTyped(k)
    BY <2>1, <2>2
  <2>4. SUFFICES ASSUME made # {}, made' = {}, openGestures = 0, ~(m.pc = "sync" /\ m.of = "adopted")
                 PROVE  made \subseteq UNION {e.made : e \in Range(abUndo'[abActive].undo)}
    BY DEF EditsKept
  <2>5. pendingGestureCommit /\ ~Polled
    BY <2>1, <2>4 DEF MadeWaits
  <2>6. CASE PollCommit
    <3>1. CASE \E e \in StepsOf(k), t \in Seq(StepsOf(k)) : Committing(t, e)
      <4>1. PICK e \in StepsOf(k), t \in Seq(StepsOf(k)) : Committing(t, e)
        BY <3>1
      <4>2. abUndo'[abActive].undo = t
        BY <2>1, <2>3, <4>1, CommitMoves DEF Becomes
      <4>3. e \in Range(t) /\ made \subseteq e.made
        BY <4>1 DEF Committing
      <4> QED
        BY <4>2, <4>3
    <3>2. CASE \A p \in DOMAIN owned : owned[p].before = owned[p].after
      <4>1. PICK v \in made : v \in Nat
        BY <2>1, <2>4 DEF LogTyped
      <4>2. PICK p : p = log[v].param
        OBVIOUS
      <4>3. p \in DOMAIN owned /\ owned[p].before < v /\ v <= owned[p].after
        BY <2>1, <4>1, <4>2 DEF MadeInv, MadeIs, Between
      <4>4. owned[p].before \in 0..k /\ owned[p].after \in 0..k
        BY <2>3, <4>3, OwnedPair DEF SoundsTyped
      <4> QED
        BY <3>2, <4>1, <4>3, <4>4
    <3> QED
      BY <2>1, <2>3, <2>6, <3>1, <3>2, CommitIs
  <2>7. CASE TimerTick \/ \E job \in {"undo", "redo", "switch", "load", "save"} : StateCommand(job)
    <3>1. made' = made
      BY <2>1, <2>3, <2>4, <2>7, PollMade DEF TimerTick, StateCommand, MayAct, Jobs
    <3> QED
      BY <2>4, <3>1
  <2>8. CASE Sync \/ CommitPresetSwitchUndoStep
    <3>1. m.pc = "sync" => m.of \in {"baseline", "adopted"}
      BY <2>3, PointsIs DEF SoundsTyped
    <3> QED
      BY <2>4, <2>5, <2>8, <3>1 DEF Polled, Sync, CommitPresetSwitchUndoStep
  <2>9. CASE Host \/ BeginUserTransaction \/ EndUserTransaction \/ \E p \in Params : Store(p) \/ StoreAnswered(p) \/ Close(p)
    <3>1. made \subseteq made'
      BY <2>9 DEF Host, Automate, parameterValueChanged, Restore, BeginUserTransaction, EndUserTransaction,
                  Store, StoreAnswered, Close, history
    <3> QED
      BY <2>4, <3>1
  <2>10. CASE \E p \in Params, wheel \in BOOLEAN : Open(p, wheel)
    BY <2>4, <2>5, <2>10 DEF Open
  <2>11. CASE PollCapture \/ PollFold \/ undo \/ redo \/ ApplyUndoEntry \/ abSwitchTo \/ Saved \/ Baseline
              \/ LoadPreset \/ Loaded \/ abCopyToOther \/ Adopt
    <3>1. made' = made
      BY <2>11 DEF PollCapture, PollFold, undo, redo, TakeEntry, ApplyUndoEntry, abSwitchTo, Saved, Baseline,
                   LoadPreset, Loaded, abCopyToOther, Adopt, history
    <3> QED
      BY <2>4, <3>1
  <2> QED
    BY <1>1, <2>6, <2>7, <2>8, <2>9, <2>10, <2>11 DEF UndoNext, Controls, Message
<1>2. ASSUME UNCHANGED undoVars PROVE [EditsKept]_undoVars
  BY <1>2
<1>3. IInv /\ [UndoNext]_undoVars => [EditsKept]_undoVars
  BY <1>1, <1>2
<1> QED
  BY <1>3, HistoryInvariant, PTL DEF UndoSpec, EditsAreRecorded

-----------------------------------------------------------------------------
(* One action of the user's is one step: the invariant. *)

\* Two writes of a log that are not of one action, nor of one scroll; two sets of such
\* writes, and steps none of which has a write in common with another in that sense.
Differ(l, v, w) ==
  /\ l[v].action # l[w].action \/ l[v].action = 0
  /\ l[v].chain # l[w].chain \/ l[v].chain = 0
Apart(l, A, B)   == \A v \in A, w \in B : Differ(l, v, w) /\ Differ(l, w, v)
Within(l, x)     == \A i, j \in DOMAIN x : i # j => Apart(l, x[i].made, x[j].made)
Across(l, X, Y)  == \A e \in X, f \in Y : Apart(l, e.made, f.made)
Divided(l, x, y) == Within(l, x) /\ Within(l, y) /\ Across(l, Range(x), Range(y))

\* The gestures and the wheel: a notch is one open gesture, and in no transaction; an
\* open gesture has its parameter taken; a step that was named was asked for.
ControlInv ==
  /\ wheelStepKey # NoKey => openGestures = 1
  /\ userTransaction => wheelStepKey = NoKey /\ (openGestures = 0 => held = {})
  /\ openGestures > 0 => held \subseteq DOMAIN owned
  /\ pendingStepWheelKey # NoKey => pendingStepNamed
  /\ pendingStepNamed => pendingGestureCommit

\* Actions and scrolls are numbered in order, and the steps are of what was written.
WritesInv ==
  /\ \A v \in DOMAIN log : log[v].action <= acted /\ log[v].chain <= scroll.id
  /\ \A e \in InHistory : e.made \subseteq DOMAIN log /\ (IsWhole(e) => e.made = {})

\* An action that is under way, or whose batch is pending, is in no step yet.
ActionInv ==
  \A e \in InHistory : \A v \in e.made :
    /\ userTransaction => log[v].action # acted
    /\ \A w \in made : log[v].action # log[w].action \/ log[v].action = 0

\* What is of the scroll in progress; whether the batch that is pending is all of one
\* control's notches, and by hand at least in part.
KeyIs(k) == \A v \in made : log[v].key = k
ByHand   == \E v \in made : log[v].key = NoKey

\* A scroll in progress is all that is pending, and of all that moved since the last
\* commit; its poll sees its last notch.
Scrolling ==
  /\ KeyIs(scroll.key)
  /\ made # {} => \/ pendingStepNamed
                  \/ openGestures > 0 /\ wheelStepKey = scroll.key /\ "open" \notin marks
  /\ m.pc \in Steady => made # {} \/ live = committedSig
  /\ m.pc \in {"poll", "captured"} => m.sig = live

\* While nobody else writes, whatever the gestures count is a write of the batch.
Unshared ==
  /\ pendingStepNamed => made # {} /\ \A k \in Params : KeyIs(k) => pendingStepWheelKey = k
  /\ m.pc \in Steady =>
       /\ openGestures > 0 /\ "open" \notin marks => \E v \in made : log[v].key = wheelStepKey
       /\ foreignSinceEdge => ByHand
       /\ "edge" \in marks \/ openGestures > 0 \/ ByHand

ScrollInv ==
  /\ \A v \in made : log[v].chain # 0 => log[v].chain = scroll.id /\ scroll.key # NoKey
  /\ scroll.shared # "no" => scroll.key = NoKey
  /\ scroll.key # NoKey => Scrolling
  /\ m.pc \in {"poll", "captured"} => m.sig # committedSig
  /\ scroll.shared = "no" => Unshared

\* The name of the pending step is that of each write of it, unless the poll is going to
\* find that something else moved the sound, or the next close to take the name away.
Tainted == foreignSinceEdge \/ (openGestures = 0 /\ "edge" \notin marks)
KeyInv ==
  \/ Tainted
  \/ /\ pendingStepWheelKey # NoKey
          => \/ KeyIs(pendingStepWheelKey)
             \/ openGestures > 0 /\ "open" \notin marks /\ wheelStepKey # pendingStepWheelKey
     /\ ~pendingStepNamed => KeyIs(wheelStepKey) /\ (made # {} => openGestures > 0 /\ "open" \notin marks)

\* What there is of the scroll in progress is in the last step, which has its name; and
\* so has each write of the last step that has a name.
LastInv ==
  m.pc \in Steady =>
    LET x == abUndo[abActive].undo
    IN  /\ scroll.key # NoKey =>
             /\ \A f \in Range(abUndo[abActive].redo) : \A v \in f.made : log[v].chain # scroll.id
             /\ \A i \in DOMAIN x : \A v \in x[i].made :
                  log[v].chain = scroll.id => i = Len(x) /\ lastStepWheelKey = scroll.key
        /\ lastStepWheelKey # NoKey /\ x # <<>> => \A v \in x[Len(x)].made : log[v].key = lastStepWheelKey

\* No two steps of a slot share an action or a scroll, nor one of them with the one in hand.
DividedInv ==
  /\ \A s \in Slots : Divided(log, abUndo[s].undo, abUndo[s].redo)
  /\ m.pc = "install" => \A f \in HeldBy(abActive) : Apart(log, m.entry.made, f.made)

\* A step that several polls made is of one control's notches.
OneKey(l, A) == \E k \in Params : \A v \in A : l[v].key = k
PollsInv == \A e \in InHistory : e.polls > 1 => OneKey(log, e.made)

StepInv ==
  /\ ControlInv /\ WritesInv /\ ActionInv /\ ScrollInv /\ KeyInv /\ LastInv /\ DividedInv /\ PollsInv

-----------------------------------------------------------------------------
(* The gestures and the wheel. *)

LEMMA OwnedGrows ==
  ASSUME NEW p, NEW v, DeclareWrite(p, v) \/ DeclareEndpoint(p, v) \/ DeclareRefused(p)
  PROVE  DOMAIN owned \subseteq DOMAIN owned' /\ (DeclareWrite(p, v) => p \in DOMAIN owned')
<1>1. CASE DeclareWrite(p, v)
  <2>1. PICK x : owned' = With(owned, p, x)
    BY <1>1 DEF DeclareWrite
  <2> QED
    BY <2>1 DEF With
<1>2. CASE DeclareEndpoint(p, v) /\ ~DeclareWrite(p, v)
  BY <1>2 DEF DeclareEndpoint, batch
<1>3. CASE DeclareRefused(p) /\ ~DeclareWrite(p, v)
  BY <1>3 DEF DeclareRefused
<1> QED
  BY <1>1, <1>2, <1>3

\* The steps that leave the gestures and the requests alone.
LEMMA ControlSame ==
  ASSUME ControlInv, UNCHANGED <<wheelStepKey, openGestures, held, owned, pendingStepWheelKey, pendingStepNamed,
                                 pendingGestureCommit, userTransaction>>
  PROVE  ControlInv'
BY DEF ControlInv

LEMMA ControlHolds ==
  ASSUME IInv, ControlInv, UndoNext
  PROVE  ControlInv'
<1>1. FlagsTyped /\ GestureInv /\ SoundsTyped(Len(log))
  BY DEF IInv, TypesHold
<1>2. ASSUME NEW p \in Params, NEW wheel \in BOOLEAN, Open(p, wheel) PROVE ControlInv'
  <2>1. wheelStepKey = NoKey /\ openGestures' = openGestures + 1 /\ held' = held \cup {p}
        /\ UNCHANGED <<pendingStepWheelKey, pendingStepNamed, pendingGestureCommit, userTransaction>>
    BY <1>2 DEF Open, request
  <2>2. wheelStepKey' # NoKey => openGestures' = 1 /\ ~userTransaction
    <3>1. wheelStepKey' # NoKey => wheel
      BY <1>2 DEF Open
    <3>2. wheel => held = {} /\ ~userTransaction
      BY <1>2 DEF Open
    <3>3. held = {} => openGestures = 0
      BY <1>1, FS_EmptySet DEF GestureInv
    <3> QED
      BY <2>1, <3>1, <3>2, <3>3
  <2>3. held' \subseteq DOMAIN owned'
    <3>1. PICK mine, x : /\ mine = IF openGestures = 0 /\ ~pendingGestureCommit THEN Nothing ELSE owned
                         /\ owned' = IF p \in DOMAIN mine THEN mine ELSE With(mine, p, x)
      BY <1>2 DEF Open
    <3>2. DOMAIN mine \cup {p} \subseteq DOMAIN owned'
      <4>1. CASE p \in DOMAIN mine
        BY <3>1, <4>1
      <4>2. CASE p \notin DOMAIN mine
        BY <3>1, <4>2 DEF With
      <4> QED
        BY <4>1, <4>2
    <3>3. CASE openGestures > 0
      <4>1. held \subseteq DOMAIN mine
        BY <3>1, <3>3 DEF ControlInv
      <4> QED
        BY <2>1, <3>2, <4>1
    <3>4. CASE ~(openGestures > 0)
      <4>1. held = {}
        BY <1>2, <3>4 DEF Open
      <4> QED
        BY <2>1, <3>2, <4>1
    <3> QED
      BY <3>3, <3>4
  <2>4. openGestures' # 0
    BY <1>1, <2>1 DEF FlagsTyped
  <2> QED
    BY <2>1, <2>2, <2>3, <2>4 DEF ControlInv
<1>3. ASSUME NEW p \in Params, Close(p) PROVE ControlInv'
  <2>1. wheelStepKey' = NoKey /\ held' = held \ {p} /\ userTransaction' = userTransaction
    BY <1>3 DEF Close
  <2>2. CASE openGestures = 1
    <3>1. openGestures' = 0 /\ pendingGestureCommit'
      BY <1>3, <2>2 DEF Close
    <3>2. pendingStepWheelKey' # NoKey => pendingStepNamed'
      BY <1>3, <2>2 DEF Close, ControlInv
    <3>3. held = {p}
      <4>1. Cardinality(held) = 1 /\ p \in held
        BY <1>1, <1>3, <2>2 DEF GestureInv, Close
      <4>2. PICK h : held = {h}
        BY <1>1, <4>1, FS_Singleton DEF FlagsTyped
      <4> QED
        BY <4>1, <4>2
    <3> QED
      BY <2>1, <3>1, <3>2, <3>3 DEF ControlInv
  <2>3. CASE openGestures # 1
    <3>1. /\ openGestures' = IF openGestures > 0 THEN openGestures - 1 ELSE 0
          /\ UNCHANGED <<owned, pendingStepWheelKey, pendingStepNamed, pendingGestureCommit>>
      BY <1>3, <2>3 DEF Close, request
    <3>2. openGestures' > 0 => openGestures > 0
      BY <1>1, <3>1 DEF FlagsTyped
    <3>3. openGestures' = 0 => openGestures = 0
      BY <1>1, <2>3, <3>1 DEF FlagsTyped
    <3> QED
      BY <2>1, <3>1, <3>2, <3>3 DEF ControlInv
  <2> QED
    BY <2>2, <2>3
<1>4. ASSUME NEW p \in Params, Store(p) \/ StoreAnswered(p) PROVE ControlInv'
  <2>1. UNCHANGED <<wheelStepKey, openGestures, held, pendingStepWheelKey, pendingStepNamed, pendingGestureCommit,
                    userTransaction>>
    BY <1>4 DEF Store, StoreAnswered, ui, edges, request
  <2>2. DOMAIN owned \subseteq DOMAIN owned'
    BY <1>4, OwnedGrows DEF Store, StoreAnswered
  <2> QED
    BY <2>1, <2>2 DEF ControlInv
<1>5. CASE BeginUserTransaction \/ EndUserTransaction
  <2>1. UNCHANGED <<wheelStepKey, openGestures, held, owned, pendingStepWheelKey, pendingStepNamed,
                    pendingGestureCommit>> /\ held = {}
    BY <1>5 DEF BeginUserTransaction, EndUserTransaction, edges, batch, request
  <2>2. wheelStepKey = NoKey
    BY <1>1, <2>1 DEF GestureInv
  <2> QED
    BY <2>1, <2>2 DEF ControlInv
<1>6. ASSUME UNCHANGED <<wheelStepKey, held, userTransaction>>, ~pendingGestureCommit', ~pendingStepNamed',
             pendingStepWheelKey' = NoKey, UNCHANGED <<openGestures, owned>> \/ openGestures' = 0, m # Idle \/ ~userTransaction,
             m # Idle \/ wheelStepKey = NoKey
      PROVE  ControlInv'
  <2>1. ~userTransaction /\ wheelStepKey = NoKey
    BY <1>1, <1>6 DEF GestureInv
  <2> QED
    BY <1>6, <2>1 DEF ControlInv
<1>7. CASE TimerTick \/ \E job \in {"undo", "redo", "switch", "load", "save"} : StateCommand(job)
  <2>1. UNCHANGED <<wheelStepKey, openGestures, held, owned, userTransaction>> /\ ~userTransaction /\ wheelStepKey = NoKey
    BY <1>7 DEF TimerTick, StateCommand, MayAct, Poll, ui, batch
  <2>2. CASE UNCHANGED request
    BY <2>1, <2>2, ControlSame DEF request
  <2>3. CASE ~pendingGestureCommit' /\ ~pendingStepNamed' /\ pendingStepWheelKey' = NoKey
    BY <1>6, <2>1, <2>3
  <2>4. ASSUME NEW job, Poll(job)
        PROVE  UNCHANGED request \/ (~pendingGestureCommit' /\ ~pendingStepNamed' /\ pendingStepWheelKey' = NoKey)
    BY <2>4 DEF Poll
  <2> QED
    BY <1>7, <2>2, <2>3, <2>4 DEF TimerTick, StateCommand
<1>8. CASE PollCommit
  <2>1. /\ UNCHANGED <<wheelStepKey, openGestures, held, owned, userTransaction>> /\ m # Idle
        /\ ~pendingGestureCommit' /\ ~pendingStepNamed' /\ pendingStepWheelKey' = NoKey
    BY <1>8 DEF PollCommit, ui, batch, Idle
  <2> QED
    BY <1>6, <2>1
<1>9. CASE Sync \/ CommitPresetSwitchUndoStep
  <2>1. /\ UNCHANGED <<wheelStepKey, held, userTransaction>> /\ m # Idle /\ openGestures' = 0
        /\ ~pendingGestureCommit' /\ ~pendingStepNamed' /\ pendingStepWheelKey' = NoKey
    BY <1>9 DEF Sync, CommitPresetSwitchUndoStep, DropGestures, ui, Idle
  <2> QED
    BY <1>6, <2>1
<1>10. CASE Host \/ PollCapture \/ PollFold \/ undo \/ redo \/ ApplyUndoEntry \/ abSwitchTo \/ Saved \/ Baseline
            \/ LoadPreset \/ Loaded \/ abCopyToOther \/ Adopt
  <2>1. UNCHANGED <<wheelStepKey, openGestures, held, owned, pendingStepWheelKey, pendingStepNamed,
                    pendingGestureCommit, userTransaction>>
    BY <1>10 DEF Host, Automate, parameterValueChanged, Restore, PollCapture, PollFold, undo, redo, TakeEntry,
                 ApplyUndoEntry, abSwitchTo, Saved, Baseline, LoadPreset, Loaded, abCopyToOther, Adopt, ui, edges,
                 batch, request
  <2> QED
    BY <2>1, ControlSame
<1> QED
  BY <1>2, <1>3, <1>4, <1>5, <1>7, <1>8, <1>9, <1>10 DEF UndoNext, Controls, Message

-----------------------------------------------------------------------------
(* What is written. *)

\* A longer log: what was written stays, but may be taken out of its scroll; and what is
\* new is of the action under way.
Longer(l, k) ==
  \A v \in DOMAIN l : /\ v \in DOMAIN k /\ k[v].key = l[v].key /\ k[v].action = l[v].action
                      /\ k[v].chain = l[v].chain \/ k[v].chain = 0
Acting == IF userTransaction THEN acted ELSE 0
Grown ==
  /\ Longer(log, log') /\ scroll.id <= scroll'.id
  /\ \A v \in DOMAIN log' \ DOMAIN log : log'[v].action = Acting /\ log'[v].chain <= scroll'.id

\* What shares a poll with another's write ends the scroll and is of none.
Sharing ==
  /\ scroll'.key = NoKey /\ scroll'.shared = "yes" /\ scroll'.id = scroll.id
  /\ Longer(log, log') /\ \A v \in made' : log'[v].chain = 0
  /\ \A v \in DOMAIN log' \ DOMAIN log : log'[v].action = Acting /\ log'[v].chain = 0

LEMMA SharedIs ==
  ASSUME FlagsTyped, ScrollShared
  PROVE  scroll'.key = NoKey /\ scroll'.shared = "yes" /\ scroll'.id = scroll.id
BY DEF FlagsTyped, Scrolls, ScrollShared

LEMMA WroteIs ==
  ASSUME NEW by, NEW p, NEW key, NEW chain, NEW w, w = Write(by, p, key, chain)
  PROVE  w.key = key /\ w.chain = chain /\ w.action = Acting
BY DEF Write, Acting

LEMMA OffScroll ==
  ASSUME NEW l \in Seq(Writes), NEW k, k = OfNoScroll(l)
  PROVE  /\ k \in Seq(Writes) /\ DOMAIN k = DOMAIN l /\ Len(k) = Len(l) /\ Longer(l, k)
         /\ \A v \in DOMAIN l : v \in made => k[v].chain = 0
<1>1. k \in Seq(Writes) /\ Len(k) = Len(l) /\ DOMAIN k = DOMAIN l
  <2>1. k \in Seq(Writes) /\ Len(k) = Len(l)
    BY OfNoScrollIs
  <2> QED
    BY <2>1
<1>2. \A v \in DOMAIN l : k[v] = IF v \in made THEN [l[v] EXCEPT !.chain = 0] ELSE l[v]
  BY DEF OfNoScroll
<1>3. \A v \in DOMAIN l : l[v] \in Writes
  OBVIOUS
<1>4. \A w \in Writes : [w EXCEPT !.chain = 0].chain = 0
  BY DEF Writes
<1>5. \A v \in DOMAIN l : v \in made => k[v].chain = 0
  BY <1>2, <1>3, <1>4
<1>6. \A v \in DOMAIN l : k[v].key = l[v].key /\ k[v].action = l[v].action
  BY OfNoScrollIs
<1>7. \A v \in DOMAIN l : v \notin made => k[v] = l[v]
  BY <1>2
<1> QED
  BY <1>1, <1>5, <1>6, <1>7 DEF Longer

\* One write, or two, after what is out of its scroll.
LEMMA SharedWrites ==
  ASSUME LogTyped, FlagsTyped, ScrollShared, NEW l, l = OfNoScroll(log), NEW w \in Writes, NEW x \in Writes,
         w.action = Acting, w.chain = 0, x.action = Acting, x.chain = 0,
         log' \in {l, Append(l, w), l \o <<w, x>>}, made' \subseteq made \cup {Len(log) + 1},
         log' = l => made' = made
  PROVE  Sharing /\ (log' # l => log'[NewValue].key = w.key)
<1>1. /\ l \in Seq(Writes) /\ DOMAIN l = DOMAIN log /\ Len(l) = Len(log) /\ Longer(log, l)
      /\ \A v \in DOMAIN log : v \in made => l[v].chain = 0
  BY OffScroll DEF LogTyped
<1>2. DOMAIN log = 1..Len(log) /\ Len(log) \in Nat /\ made \subseteq DOMAIN log
  BY DEF LogTyped
<1>3. PICK n \in Nat : n = Len(log)
  BY <1>2
<1>5. PICK k : k = log'
  OBVIOUS
<1>4. k \in {l, Append(l, w), l \o <<w, x>>}
  BY <1>5
<1>6. /\ \A v \in 1..n : v \in DOMAIN k /\ k[v] = l[v]
      /\ \A v \in DOMAIN k \ (1..n) : k[v].action = Acting /\ k[v].chain = 0
      /\ k # l => n + 1 \in DOMAIN k /\ k[n + 1] = w
  <2>1. CASE k = l
    BY <1>1, <1>2, <1>3, <2>1
  <2>2. CASE k = Append(l, w)
    <3>1. /\ DOMAIN k = 1..n + 1 /\ k[n + 1] = w /\ \A v \in 1..n : k[v] = l[v]
      BY <1>1, <1>3, <2>2, AppendProperties
    <3>2. \A v \in DOMAIN k \ (1..n) : v = n + 1
      BY <3>1
    <3> QED
      BY <3>1, <3>2
  <2>3. CASE k = l \o <<w, x>>
    <3>3. PICK t : t = <<w, x>>
      OBVIOUS
    <3>6. t \in Seq(Writes) /\ Len(t) = 2 /\ t[1] = w /\ t[2] = x
      BY <3>3
    <3>4. /\ k \in Seq(Writes) /\ Len(k) = n + 2 /\ DOMAIN k = 1..Len(k)
          /\ \A v \in 1..n + 2 : k[v] = IF v <= n THEN l[v] ELSE t[v - n]
      BY <1>1, <1>3, <2>3, <3>3, <3>6, ConcatProperties, LenProperties
    <3>5. n + 1 \in 1..n + 2 /\ n + 2 \in 1..n + 2 /\ (n + 1) - n = 1 /\ (n + 2) - n = 2 /\ ~(n + 1 <= n) /\ ~(n + 2 <= n)
      OBVIOUS
    <3>7. \A v \in 1..n : v \in 1..n + 2 /\ v <= n
      OBVIOUS
    <3>1. /\ DOMAIN k = 1..n + 2 /\ k[n + 1] = w /\ k[n + 2] = x /\ \A v \in 1..n : k[v] = l[v]
      BY <3>4, <3>5, <3>6, <3>7
    <3>2. \A v \in DOMAIN k \ (1..n) : v = n + 1 \/ v = n + 2
      BY <3>1
    <3> QED
      BY <3>1, <3>2
  <2> QED
    BY <1>4, <2>1, <2>2, <2>3
<1>7. Longer(log, k)
  BY <1>1, <1>2, <1>3, <1>6 DEF Longer
<1>8. ASSUME NEW v \in made' PROVE k[v].chain = 0
  <2>1. CASE v \in made
    BY <1>1, <1>2, <1>3, <1>6, <2>1
  <2>2. CASE v \notin made
    <3>1. v = n + 1 /\ k # l
      BY <1>3, <1>5, <1>8, <2>2
    <3>2. n + 1 \notin 1..n
      BY <1>3
    <3> QED
      BY <1>6, <3>1, <3>2
  <2> QED
    BY <2>1, <2>2
<1> QED
  BY <1>2, <1>3, <1>5, <1>6, <1>7, <1>8, SharedIs DEF Sharing, NewValue

\* Everything of the host's is such a write, or announces one.
LEMMA HostShares ==
  ASSUME LogTyped, FlagsTyped, Host
  PROVE  Sharing /\ made' = made
<1>1. PICK l : l = OfNoScroll(log)
  OBVIOUS
<1>2. made' = made /\ ScrollShared
  BY DEF Host, Automate, parameterValueChanged, Restore
<1>3. PICK w : /\ w \in Writes /\ w.action = Acting /\ w.chain = 0
               /\ log' \in {l, Append(l, w)}
  <2>1. ASSUME NEW by \in {"host", "session"}, NEW p \in Keys
        PROVE  /\ Write(by, p, NoKey, 0) \in Writes /\ Write(by, p, NoKey, 0).action = Acting
               /\ Write(by, p, NoKey, 0).chain = 0
    <3>1. PICK w : w = Write(by, p, NoKey, 0)
      OBVIOUS
    <3>2. w \in Writes
      BY <3>1, WriteIs DEF Keys
    <3>3. w.action = Acting /\ w.chain = 0
      BY <3>1, WroteIs
    <3> QED
      BY <3>1, <3>2, <3>3
  <2>2. CASE \E p \in Params : Automate(p)
    BY <1>1, <2>1, <2>2, KeysAre DEF Automate
  <2>3. CASE Restore
    BY <1>1, <2>1, <2>3 DEF Restore, Keys
  <2>4. CASE parameterValueChanged
    BY <1>1, <2>1, <2>4 DEF parameterValueChanged, Keys
  <2> QED
    BY <2>2, <2>3, <2>4 DEF Host
<1> QED
  BY <1>1, <1>2, <1>3, SharedWrites

\* A store that is not alone in its batch, and one that the host answers.
LEMMA StoreShares ==
  ASSUME LogTyped, FlagsTyped, NEW p \in Params, StoreAnswered(p) \/ (Store(p) /\ ~Alone)
  PROVE  /\ Sharing /\ made' \subseteq made \cup {NewValue} /\ made \subseteq made'
         /\ log'[NewValue].key = wheelStepKey
<1>1. PICK l : l = OfNoScroll(log)
  OBVIOUS
<1>2. made' \subseteq made \cup {NewValue} /\ made \subseteq made'
  BY DEF Store, StoreAnswered
<1>3. l \in Seq(Writes) /\ Len(l) = Len(log) /\ Len(l) \in Nat
  BY <1>1, OffScroll DEF LogTyped
<1>4. \A x \in Writes, y \in Writes : Append(l, x) # l /\ l \o <<x, y>> # l
  <2>1. ASSUME NEW x \in Writes, NEW y \in Writes PROVE Append(l, x) # l /\ l \o <<x, y>> # l
    <3>1. Len(Append(l, x)) = Len(l) + 1 /\ Len(l \o <<x, y>>) = Len(l) + 2
      BY <1>3, Logged, LoggedTwice
    <3> QED
      BY <1>3, <3>1
  <2> QED
    BY <2>1
<1>5. CASE Store(p) /\ ~Alone
  <2>1. PICK w : w = Write("user", p, wheelStepKey, Chain(p))
    OBVIOUS
  <2>2. Chain(p) = 0 /\ ScrollShared
    BY <1>5 DEF Chain, Store, ScrollGoesOn
  <2>3. w \in Writes /\ w.action = Acting /\ w.chain = 0 /\ w.key = wheelStepKey
    BY <2>1, <2>2, KeysAre, WriteIs, WroteIs
  <2>4. log' = Append(l, w)
    BY <1>1, <1>5, <2>1 DEF Store
  <2> QED
    BY <1>1, <1>2, <1>4, <2>2, <2>3, <2>4, SharedWrites DEF NewValue
<1>6. CASE StoreAnswered(p)
  <2>1. PICK w, x : w = Write("user", p, wheelStepKey, 0) /\ x = Write("host", p, NoKey, 0)
    OBVIOUS
  <2>2. /\ w \in Writes /\ w.action = Acting /\ w.chain = 0 /\ w.key = wheelStepKey
        /\ x \in Writes /\ x.action = Acting /\ x.chain = 0
    BY <2>1, KeysAre, WriteIs, WroteIs
  <2>3. log' = l \o <<w, x>> /\ ScrollShared
    BY <1>1, <1>6, <2>1 DEF StoreAnswered
  <2> QED
    BY <1>1, <1>2, <1>4, <2>2, <2>3, SharedWrites DEF NewValue
<1> QED
  BY <1>5, <1>6

\* A store that is alone is the newest write, and the batch's.
Notch(p) ==
  /\ NewValue \notin DOMAIN log /\ DOMAIN log' = DOMAIN log \cup {NewValue}
  /\ \A v \in DOMAIN log : log'[v] = log[v]
  /\ log'[NewValue].key = wheelStepKey /\ log'[NewValue].chain = Chain(p) /\ log'[NewValue].action = Acting
  /\ made' = made \cup {NewValue}

LEMMA StoreTakes ==
  ASSUME LogTyped, FlagsTyped, ControlInv, NEW p \in Params, Store(p), Alone
  PROVE  Notch(p) /\ ScrollGoesOn(p) /\ InBatch
<1>1. PICK w : w = Write("user", p, wheelStepKey, Chain(p))
  OBVIOUS
<1>2. w \in Writes /\ w.action = Acting /\ w.chain = Chain(p) /\ w.key = wheelStepKey
  BY <1>1, KeysAre, ChainIs, WriteIs, WroteIs
<1>3. log' = Append(log, w)
  BY <1>1 DEF Store
<1>4. PICK n \in Nat : n = Len(log)
  BY DEF LogTyped
<1>5. /\ DOMAIN log = 1..n /\ DOMAIN log' = 1..n + 1 /\ log'[n + 1] = w /\ \A v \in 1..n : log'[v] = log[v]
  <2>1. log \in Seq(Writes)
    BY DEF LogTyped
  <2>2. PICK k : k = Append(log, w)
    OBVIOUS
  <2>3. DOMAIN k = 1..n + 1 /\ k[n + 1] = w /\ \A v \in 1..n : k[v] = log[v]
    BY <1>2, <1>4, <2>1, <2>2, AppendProperties
  <2> QED
    BY <1>3, <1>4, <2>1, <2>2, <2>3
<1>6. DOMAIN log' = DOMAIN log \cup {n + 1} /\ n + 1 \notin DOMAIN log
  BY <1>4, <1>5
<1>7. p \in DOMAIN owned'
  <2>1. CASE p \in held /\ openGestures > 0
    <3>1. p \in DOMAIN owned
      BY <2>1 DEF ControlInv
    <3> QED
      BY <3>1, OwnedGrows DEF Store
  <2>2. CASE p \in Declaring
    BY <2>2, OwnedGrows DEF Store
  <2>3. openGestures > 0 \/ held = {}
    BY DEF Alone, InBatch, ControlInv, FlagsTyped
  <2> QED
    BY <2>1, <2>2, <2>3 DEF Store
<1>8. made' = made \cup {NewValue}
  BY <1>7 DEF Store, Alone
<1> QED
  BY <1>2, <1>4, <1>5, <1>6, <1>8 DEF Notch, NewValue, Store, Alone

LEMMA SharingGrows ==
  ASSUME FlagsTyped, Sharing
  PROVE  Grown
<1>1. scroll.id \in Nat
  BY DEF FlagsTyped, Scrolls
<1> QED
  BY <1>1 DEF Sharing, Grown

\* Where the scroll is after a store that is alone.
LEMMA GoesOn ==
  ASSUME FlagsTyped, NEW p \in Params, ScrollGoesOn(p), Alone
  PROVE  /\ scroll'.shared = scroll.shared /\ scroll.id \in Nat
         /\ Chain(p) = 0 => scroll'.key = NoKey /\ scroll'.id = scroll.id
         /\ Chain(p) # 0 => scroll'.key = p /\ scroll'.id = Chain(p)
         /\ Chain(p) \in {0, scroll.id, scroll.id + 1}
<1>1. scroll \in Scrolls
  BY DEF FlagsTyped
<1>2. scroll' = IF Chain(p) = 0 THEN [scroll EXCEPT !.key = NoKey] ELSE [scroll EXCEPT !.key = p, !.id = Chain(p)]
  BY DEF ScrollGoesOn, ScrollEnds
<1>3. Chain(p) \in {0, scroll.id, scroll.id + 1}
  BY DEF Chain
<1> QED
  BY <1>1, <1>2, <1>3 DEF Scrolls

LEMMA WritesGrow ==
  ASSUME LogTyped, LoadInv, FlagsTyped, ControlInv, UndoNext
  PROVE  Grown
<1>0. scroll \in Scrolls /\ scroll.id \in Nat
  BY DEF FlagsTyped, Scrolls
<1>1. ASSUME log' = log, scroll'.id = scroll.id PROVE Grown
  BY <1>0, <1>1 DEF Grown, Longer
<1>2. CASE Host
  BY <1>2, HostShares, SharingGrows
<1>3. ASSUME NEW p \in Params, Store(p) \/ StoreAnswered(p) PROVE Grown
  <2>1. CASE StoreAnswered(p) \/ (Store(p) /\ ~Alone)
    BY <2>1, StoreShares, SharingGrows
  <2>2. CASE Store(p) /\ Alone
    <3>1. Notch(p) /\ ScrollGoesOn(p)
      BY <2>2, StoreTakes
    <3>2. /\ Chain(p) = 0 => scroll'.id = scroll.id
          /\ Chain(p) # 0 => scroll'.id = Chain(p)
          /\ Chain(p) \in {0, scroll.id, scroll.id + 1}
      BY <2>2, <3>1, GoesOn
    <3>3. Chain(p) <= scroll'.id /\ scroll.id <= scroll'.id
      BY <1>0, <3>2
    <3> QED
      BY <3>1, <3>3 DEF Notch, Grown, Longer
  <2> QED
    BY <1>3, <2>1, <2>2
<1>4. CASE LoadPreset
  <2>1. scroll' = scroll
    BY <1>4 DEF LoadPreset
  <2>2. CASE log' = log
    BY <1>1, <2>1, <2>2
  <2>3. PICK w : w = Write("preset", NoKey, NoKey, 0)
    OBVIOUS
  <2>4. CASE log' = Append(log, w)
    <3>1. w \in Writes /\ w.action = Acting /\ w.chain = 0
      BY <2>3, WriteIs, WroteIs DEF Keys
    <3>2. PICK n \in Nat : n = Len(log) /\ log \in Seq(Writes) /\ DOMAIN log = 1..n
      BY DEF LogTyped
    <3>6. PICK k : k = Append(log, w)
      OBVIOUS
    <3>3. DOMAIN k = 1..n + 1 /\ k[n + 1] = w /\ \A v \in 1..n : k[v] = log[v]
      BY <3>1, <3>2, <3>6, AppendProperties
    <3>4. \A v \in DOMAIN k \ DOMAIN log : v = n + 1
      BY <3>2, <3>3
    <3>5. Longer(log, k)
      BY <3>2, <3>3 DEF Longer
    <3> QED
      BY <1>0, <2>1, <2>4, <3>1, <3>2, <3>3, <3>4, <3>5, <3>6 DEF Grown
  <2> QED
    BY <1>4, <2>2, <2>3, <2>4 DEF LoadPreset
<1>5. CASE \/ \E p \in Params : (\E wheel \in BOOLEAN : Open(p, wheel)) \/ Close(p)
           \/ BeginUserTransaction \/ EndUserTransaction \/ TimerTick \/ PollCapture \/ PollFold \/ PollCommit
           \/ \E job \in {"undo", "redo", "switch", "load", "save"} : StateCommand(job)
           \/ undo \/ redo \/ ApplyUndoEntry \/ abSwitchTo \/ Saved \/ Baseline \/ Sync
           \/ Loaded \/ CommitPresetSwitchUndoStep \/ abCopyToOther \/ Adopt
  <2>1. log' = log
    BY <1>5, OthersLog
  <2>2. scroll'.id = scroll.id
    <3>2. CASE TimerTick \/ \E job \in {"undo", "redo", "switch", "load", "save"} : StateCommand(job)
      <4>1. PICK sh : scroll' = scroll \/ scroll' = [scroll EXCEPT !.shared = sh]
        BY <3>2 DEF TimerTick, StateCommand, Poll
      <4> QED
        BY <1>0, <4>1 DEF Scrolls
    <3>3. CASE PollFold \/ PollCommit
      BY <1>0, <3>3 DEF PollFold, PollCommit, ScrollPolled, Scrolls
    <3>4. CASE Sync \/ CommitPresetSwitchUndoStep
      BY <1>0, <3>4 DEF Sync, CommitPresetSwitchUndoStep, ScrollEnds, Scrolls
    <3>5. CASE \E p \in Params : (\E wheel \in BOOLEAN : Open(p, wheel)) \/ Close(p)
      BY <3>5 DEF Open, Close, history
    <3> QED
      BY <1>5, <3>2, <3>3, <3>4, <3>5 DEF BeginUserTransaction, EndUserTransaction, PollCapture, undo, redo, TakeEntry,
        ApplyUndoEntry, abSwitchTo, Saved, Baseline, Loaded, abCopyToOther, Adopt, history
  <2> QED
    BY <1>1, <2>1, <2>2
<1> QED
  BY <1>2, <1>3, <1>4, <1>5 DEF UndoNext, Controls, Message

-----------------------------------------------------------------------------
(* The steps there are. *)

LEMMA BecomesHeld ==
  ASSUME NEW a \in Slots, NEW x, NEW y, NEW E, Becomes(a, x, y),
         \A f \in Range(x) : f \in InHistory \/ f \in E, \A f \in Range(y) : f \in InHistory \/ f \in E,
         m'.pc # "install"
  PROVE  \A f \in InHistory' : f \in InHistory \/ f \in E
<1>1. ASSUME NEW f \in InHistory' PROVE f \in InHistory \/ f \in E
  <2>1. PICK s \in Slots : f \in Range(abUndo'[s].undo) \/ f \in Range(abUndo'[s].redo)
    BY <1>1, InHistoryNext
  <2>2. CASE s = a
    BY <2>1, <2>2 DEF Becomes
  <2>3. CASE s # a
    <3>1. f \in Range(abUndo[s].undo) \/ f \in Range(abUndo[s].redo)
      BY <2>1, <2>3 DEF Becomes
    <3> QED
      BY <3>1, InHistoryIs
  <2> QED
    BY <2>2, <2>3
<1> QED
  BY <1>1

\* Only a poll that commits makes a step of what was written.
NoNew      == \A f \in InHistory' : f \in InHistory
OneNew(e)  == \A f \in InHistory' : f \in InHistory \/ f = e
Committed(e, t) == PollCommit /\ Committing(t, e)

LEMMA NoneHeld == \A f : f \notin Range(<<>>)
BY DEF Range

LEMMA StacksHeld ==
  ASSUME NEW a \in Slots
  PROVE  \A f : f \in Range(abUndo[a].undo) \/ f \in Range(abUndo[a].redo) => f \in InHistory
BY InHistoryIs

LEMMA TakingHolds ==
  ASSUME NEW k \in Nat, SoundsTyped(k), FlagsTyped, NEW from \in {"undo", "redo"}, NEW e, NEW target,
         Taking(from, e, target)
  PROVE  NoNew
<1>1. abActive \in Slots
  BY DEF FlagsTyped
<1>2. PICK x \in Seq(StepsOf(k)), y \in Seq(StepsOf(k)) : x = abUndo[abActive].undo /\ y = abUndo[abActive].redo
  BY <1>1, StacksAre
<1>3. \A f : f \in Range(x) \/ f \in Range(y) => f \in InHistory
  BY <1>1, <1>2, StacksHeld
<1>4. PICK u, v : /\ Becomes(abActive, u, v) /\ e \in InHistory
                  /\ \A f : f \in Range(u) \/ f \in Range(v) => f \in InHistory
  <2>1. CASE from = "undo"
    <3>1. x # <<>> /\ e \in Range(x) /\ Becomes(abActive, Front(x), y)
      BY <1>2, <2>1, TakenMoves
    <3>2. \A f \in Range(Front(x)) : f \in Range(x)
      BY <3>1, Popped
    <3> QED
      BY <1>3, <3>1, <3>2
  <2>2. CASE from = "redo"
    <3>1. y # <<>> /\ e \in Range(y) /\ Becomes(abActive, x, Front(y))
      BY <1>2, <2>2, TakenMoves
    <3>2. \A f \in Range(Front(y)) : f \in Range(y)
      BY <3>1, Popped
    <3> QED
      BY <1>3, <3>1, <3>2
  <2> QED
    BY <2>1, <2>2
<1>5. ASSUME NEW f \in InHistory' PROVE f \in InHistory
  <2>1. CASE m'.pc = "install" /\ f = m'.entry
    <3>1. m'.entry = e
      BY DEF Taking
    <3> QED
      BY <1>4, <2>1, <3>1
  <2>2. CASE \E s \in Slots : f \in Range(abUndo'[s].undo) \/ f \in Range(abUndo'[s].redo)
    <3>1. PICK s \in Slots : f \in Range(abUndo'[s].undo) \/ f \in Range(abUndo'[s].redo)
      BY <2>2
    <3>2. CASE s = abActive
      BY <1>4, <3>1, <3>2 DEF Becomes
    <3>3. CASE s # abActive
      <4>1. f \in Range(abUndo[s].undo) \/ f \in Range(abUndo[s].redo)
        BY <1>4, <3>1, <3>3 DEF Becomes
      <4> QED
        BY <4>1, InHistoryIs
    <3> QED
      BY <3>2, <3>3
  <2> QED
    BY <1>5, <2>1, <2>2, InHistoryNext
<1> QED
  BY <1>5 DEF NoNew

LEMMA ApplyingHolds ==
  ASSUME NEW k \in Nat, SoundsTyped(k), FlagsTyped, ApplyUndoEntry
  PROVE  NoNew
<1>1. abActive \in Slots /\ m.pc = "install" /\ m'.pc # "install"
  BY DEF FlagsTyped, ApplyUndoEntry
<1>2. PICK x \in Seq(StepsOf(k)), y \in Seq(StepsOf(k)), e \in StepsOf(k) :
        x = abUndo[abActive].undo /\ y = abUndo[abActive].redo /\ e = m.entry
  BY <1>1, StacksAre, AppliedMoves
<1>3. e \in InHistory
  BY <1>1, <1>2, InHistoryIs
<1>4. \A f : f \in Range(x) \/ f \in Range(y) => f \in InHistory
  BY <1>1, <1>2, StacksHeld
<1>5. (\A f \in Range(Append(x, e)) : f \in InHistory) /\ (\A f \in Range(Append(y, e)) : f \in InHistory)
  BY <1>3, <1>4, AppendRange
<1>6. \/ Becomes(abActive, x, Append(y, e))
      \/ Becomes(abActive, Append(x, e), y)
  BY <1>2, AppliedMoves
<1>7. PICK u, v : /\ Becomes(abActive, u, v)
                  /\ (\A f \in Range(u) : f \in InHistory) /\ (\A f \in Range(v) : f \in InHistory)
  BY <1>4, <1>5, <1>6
<1>8. \A f \in InHistory' : f \in InHistory \/ f \in {}
  BY <1>1, <1>7, BecomesHeld
<1> QED
  BY <1>8 DEF NoNew

LEMMA Entries ==
  ASSUME IInv, UndoNext
  PROVE  \/ NoNew
         \/ \E e : OneNew(e) /\ e.made = {} /\ e.polls = 1
         \/ \E e, t : OneNew(e) /\ Committed(e, t)
<1>1. FlagsTyped /\ LogTyped /\ SoundsTyped(Len(log)) /\ abActive \in Slots /\ TypesHold /\ GestureInv /\ RoomInv
  BY DEF IInv, TypesHold, FlagsTyped
<1>2. PICK k \in Nat : k = Len(log)
  BY <1>1 DEF LogTyped
<1>3. SoundsTyped(k)
  BY <1>1, <1>2
<1>4. ASSUME abUndo' = abUndo, m'.pc = "install" => m' = m
      PROVE  NoNew
  BY <1>4, InHistoryIs, InHistoryNext DEF NoNew
<1>5. CASE undo \/ redo
  <2>1. PICK from \in {"undo", "redo"}, end \in {"before", "after"} : TakeEntry(from, end)
    BY <1>5 DEF undo, redo
  <2>2. CASE m' = Idle /\ abUndo' = abUndo
    <3>1. m'.pc # "install"
      BY <2>2 DEF Idle
    <3> QED
      BY <1>4, <2>2, <3>1, Zenon
  <2>3. CASE \E e \in StepsOf(k), target \in SoundsOf(k) : Taking(from, e, target)
    BY <1>1, <1>3, <2>3, TakingHolds
  <2> QED
    BY <1>1, <1>3, <2>1, <2>2, <2>3, TakenIs
<1>6. CASE ApplyUndoEntry
  BY <1>1, <1>3, <1>6, ApplyingHolds
<1>7. ASSUME NEW a \in Slots, NEW t \in Seq(StepsOf(k)), NEW e \in StepsOf(k), WholePushed(a, t, e), m'.pc # "install"
      PROVE  OneNew(e) /\ e.made = {} /\ e.polls = 1
  <2>1. \A f \in Range(t) : f \in InHistory \/ f \in {e}
    BY <1>7, StacksHeld DEF WholePushed
  <2>2. Becomes(a, t, <<>>)
    BY <1>7 DEF WholePushed
  <2>3. \A f \in InHistory' : f \in InHistory \/ f \in {e}
    BY <1>7, <2>1, <2>2, NoneHeld, BecomesHeld
  <2> QED
    BY <1>7, <2>3 DEF OneNew, WholePushed
<1>8. ASSUME ~undo, ~redo, ~ApplyUndoEntry, m'.pc # "install"
      PROVE  \/ NoNew
             \/ \E e : OneNew(e) /\ e.made = {} /\ e.polls = 1
             \/ \E e, t : OneNew(e) /\ Committed(e, t)
  <2>1. CASE abUndo' = abUndo
    BY <1>4, <1>8, <2>1, Zenon
  <2>2. CASE PollCommit
    <3>1. CASE \E e \in StepsOf(k), t \in Seq(StepsOf(k)) : Committing(t, e)
      <4>1. PICK e \in StepsOf(k), t \in Seq(StepsOf(k)) : Committing(t, e)
        BY <3>1
      <4>2. Becomes(abActive, t, <<>>)
        BY <1>1, <1>3, <4>1, CommitMoves
      <4>3. \A f \in Range(t) : f \in InHistory \/ f \in {e}
        BY <1>1, <4>1, StacksHeld DEF Committing
      <4>5. \A f \in InHistory' : f \in InHistory \/ f \in {e}
        BY <1>1, <1>8, <4>2, <4>3, NoneHeld, BecomesHeld
      <4>4. OneNew(e)
        BY <4>5 DEF OneNew
      <4> QED
        BY <2>2, <4>1, <4>4 DEF Committed
    <3> QED
      BY <1>1, <1>3, <2>1, <2>2, <3>1, CommitIs
  <2>3. CASE CommitPresetSwitchUndoStep
    <3>1. CASE Becomes(abActive, abUndo[abActive].undo, <<>>)
      <4>1. PICK x : x = abUndo[abActive].undo
        OBVIOUS
      <4>2. Becomes(abActive, x, <<>>) /\ \A f \in Range(x) : f \in InHistory
        BY <1>1, <3>1, <4>1, StacksHeld
      <4>3. \A f \in InHistory' : f \in InHistory \/ f \in {}
        BY <1>1, <1>8, <4>2, NoneHeld, BecomesHeld
      <4> QED
        BY <4>3 DEF NoNew
    <3>2. CASE \E t \in Seq(StepsOf(k)), e \in StepsOf(k) : WholePushed(abActive, t, e)
      BY <1>1, <1>7, <1>8, <3>2
    <3> QED
      BY <1>1, <1>3, <2>1, <2>3, <3>1, <3>2, PresetMoves
  <2>4. CASE abCopyToOther
    BY <1>1, <1>3, <1>7, <1>8, <2>4, CopyMoves
  <2>5. CASE Adopt
    <3>1. \A s \in Slots : abUndo'[s].undo = <<>> /\ abUndo'[s].redo = <<>>
      BY <2>5 DEF Adopt
    <3> QED
      BY <1>8, <3>1, NoneHeld, InHistoryNext DEF NoNew
  <2> QED
    BY <1>8, <2>1, <2>2, <2>3, <2>4, <2>5, HistorySame
<1>9. CASE ~undo /\ ~redo /\ ~ApplyUndoEntry /\ m'.pc = "install"
  BY <1>1, <1>4, <1>9, InHand
<1> QED
  BY <1>5, <1>6, <1>8, <1>9

\* What a poll that commits does to the batch and to the flags.
LEMMA CommitEnds ==
  ASSUME IInv, PollCommit
  PROVE  /\ log' = log /\ made' = {} /\ m.pc = "captured" /\ openGestures = 0 /\ ~userTransaction /\ ~userTransaction'
         /\ acted' = acted /\ scroll'.id = scroll.id /\ made \subseteq DOMAIN log
         /\ (Tainted <=> Foreign)
<1>1. log' = log /\ made' = {} /\ m.pc = "captured" /\ userTransaction' = userTransaction /\ acted' = acted
  BY DEF PollCommit, ui
<1>2. m # Idle
  BY <1>1 DEF Idle
<1>3. openGestures = 0 /\ ~userTransaction
  BY <1>1, <1>2 DEF IInv, GestureInv
<1>4. scroll'.id = scroll.id
  BY DEF PollCommit, ScrollPolled, IInv, TypesHold, FlagsTyped, Scrolls
<1> QED
  BY <1>1, <1>3, <1>4 DEF Tainted, Foreign, IInv, TypesHold, LogTyped

\* The step that a commit makes is of the batch, and of the last step if it goes on.
LEMMA CommittedIs ==
  ASSUME IInv, NEW e, NEW t, Committed(e, t)
  PROVE  /\ ~IsWhole(e) /\ made \subseteq e.made
         /\ \/ e.made = made /\ e.polls = 1
            \/ \E f \in InHistory : /\ Extends(Foreign) /\ e.made = f.made \cup made
                                    /\ abUndo[abActive].undo # <<>>
                                    /\ f = abUndo[abActive].undo[Len(abUndo[abActive].undo)]
<1>1. abActive \in Slots /\ SoundsTyped(Len(log)) /\ Len(log) \in Nat
  BY DEF IInv, TypesHold, FlagsTyped, LogTyped
<1>2. PICK k \in Nat : k = Len(log)
  BY <1>1
<1>3. PICK x \in Seq(StepsOf(k)) : x = abUndo[abActive].undo
  BY <1>1, <1>2, StacksAre
<1>4. ~IsWhole(e) /\ made \subseteq e.made
  BY DEF Committed, Committing
<1>5. CASE Extends(Foreign)
  <2>1. x # <<>> /\ e.made = x[Len(x)].made \cup made
    BY <1>3, <1>5 DEF Committed, Committing, Stretch
  <2>2. x[Len(x)] \in Range(x)
    BY <2>1, Popped
  <2>3. x[Len(x)] \in InHistory
    BY <1>1, <1>3, <2>2, StacksHeld
  <2> QED
    BY <1>3, <1>4, <1>5, <2>1, <2>3
<1>6. CASE ~Extends(Foreign)
  BY <1>4, <1>6 DEF Committed, Committing, Bare
<1> QED
  BY <1>5, <1>6

LEMMA WritesHold ==
  ASSUME IInv, ControlInv, WritesInv, UndoNext
  PROVE  WritesInv'
<1>1. LogTyped /\ LoadInv /\ FlagsTyped /\ Grown
  BY WritesGrow DEF IInv, TypesHold
<1>2. acted' \in {acted, acted + 1} /\ acted \in Nat
  <2>1. acted \in Nat
    BY <1>1 DEF LogTyped
  <2>2. CASE Host
    BY <2>1, <2>2 DEF Host, Automate, parameterValueChanged, Restore
  <2>3. CASE Controls
    BY <2>1, <2>3 DEF Controls, Open, Store, StoreAnswered, Close, BeginUserTransaction, EndUserTransaction, history
  <2>4. CASE Message
    BY <2>1, <2>4 DEF Message, TimerTick, StateCommand, Poll, PollCapture, PollFold, PollCommit, undo, redo, TakeEntry,
         ApplyUndoEntry, abSwitchTo, Saved, Baseline, Sync, LoadPreset, Loaded, CommitPresetSwitchUndoStep,
         abCopyToOther, Adopt, history
  <2> QED
    BY <2>1, <2>2, <2>3, <2>4 DEF UndoNext
<1>3. \A v \in DOMAIN log : log[v] \in Writes
  BY <1>1 DEF LogTyped
<1>4. \A v \in DOMAIN log : log[v].action \in Nat /\ log[v].chain \in Nat
  BY <1>3 DEF Writes
<1>5. scroll.id \in Nat /\ scroll'.id \in Nat
  BY <1>1, FlagsHold DEF FlagsTyped, Scrolls, IInv
<1>6. ASSUME NEW v \in DOMAIN log' PROVE log'[v].action <= acted' /\ log'[v].chain <= scroll'.id
  <2>1. CASE v \in DOMAIN log
    <3>1. log'[v].action = log[v].action /\ log'[v].chain \in {log[v].chain, 0} /\ scroll.id <= scroll'.id
      BY <1>1, <2>1 DEF Grown, Longer
    <3>2. log[v].action <= acted /\ log[v].chain <= scroll.id
      BY <2>1 DEF WritesInv
    <3> QED
      BY <1>2, <1>4, <1>5, <2>1, <3>1, <3>2
  <2>2. CASE v \notin DOMAIN log
    <3>1. log'[v].action = Acting /\ log'[v].chain <= scroll'.id
      BY <1>1, <1>6, <2>2 DEF Grown
    <3>2. Acting \in {acted, 0}
      BY DEF Acting
    <3> QED
      BY <1>2, <3>1, <3>2
  <2> QED
    BY <2>1, <2>2
<1>7. DOMAIN log \subseteq DOMAIN log'
  BY <1>1 DEF Grown, Longer
<1>8. ASSUME NEW f \in InHistory' PROVE f.made \subseteq DOMAIN log' /\ (IsWhole(f) => f.made = {})
  <2>1. CASE f \in InHistory
    BY <1>7, <2>1 DEF WritesInv
  <2>2. CASE f.made = {}
    BY <2>2
  <2>3. ASSUME NEW t, Committed(f, t) PROVE f.made \subseteq DOMAIN log' /\ ~IsWhole(f)
    <3>1. made \subseteq DOMAIN log
      BY <1>1 DEF LogTyped
    <3>2. ~IsWhole(f) /\ (f.made = made \/ \E g \in InHistory : f.made = g.made \cup made)
      BY <2>3, CommittedIs
    <3> QED
      BY <1>7, <3>1, <3>2 DEF WritesInv
  <2> QED
    BY <1>8, <2>1, <2>2, <2>3, Entries DEF NoNew, OneNew
<1> QED
  BY <1>6, <1>8 DEF WritesInv

\* What a step of the system does to the batch: what it adds has just been written.
LEMMA MadeGrows ==
  ASSUME IInv, UndoNext
  PROVE  \A w \in made' : w \in made \/ w \in DOMAIN log' \ DOMAIN log
<1>1. LogTyped /\ LogTyped' /\ LoadInv /\ FlagsTyped
  BY LogHolds DEF IInv, TypesHold
<1>2. NewValue \notin DOMAIN log
  BY <1>1 DEF LogTyped, NewValue
<1>3. made' \subseteq made \cup {NewValue}
  <2>1. CASE Host
    BY <2>1 DEF Host, Automate, parameterValueChanged, Restore
  <2>2. CASE \E p \in Params : Store(p) \/ StoreAnswered(p)
    BY <2>2 DEF Store, StoreAnswered
  <2>3. CASE LoadPreset
    BY <2>3 DEF LoadPreset
  <2>4. CASE ~Host /\ ~LoadPreset /\ ~\E p \in Params : Store(p) \/ StoreAnswered(p)
    <3>1. made' \subseteq made
      BY <1>1, <2>4, OthersLog DEF UndoNext, Controls, Message
    <3> QED
      BY <3>1
  <2> QED
    BY <2>1, <2>2, <2>3, <2>4
<1>4. made' \subseteq DOMAIN log'
  BY <1>1 DEF LogTyped
<1> QED
  BY <1>2, <1>3, <1>4

\* A transaction goes on, or is of a new action.
LEMMA TransactionIs ==
  ASSUME FlagsTyped, LogTyped, UndoNext, userTransaction'
  PROVE  (userTransaction /\ acted' = acted) \/ acted' = acted + 1
<1>1. CASE Host
  BY <1>1 DEF Host, Automate, parameterValueChanged, Restore, ui
<1>2. CASE Controls
  BY <1>2 DEF Controls, Open, Store, StoreAnswered, Close, BeginUserTransaction, EndUserTransaction, ui, history
<1>3. CASE Message
  BY <1>3 DEF Message, TimerTick, StateCommand, Poll, PollCapture, PollFold, PollCommit, undo, redo, TakeEntry,
       ApplyUndoEntry, abSwitchTo, Saved, Baseline, Sync, LoadPreset, Loaded, CommitPresetSwitchUndoStep,
       abCopyToOther, Adopt, ui, history
<1> QED
  BY <1>1, <1>2, <1>3 DEF UndoNext

LEMMA ActionHolds ==
  ASSUME IInv, ControlInv, WritesInv, ActionInv, UndoNext
  PROVE  ActionInv'
<1>1. LogTyped /\ LoadInv /\ FlagsTyped /\ Grown /\ acted \in Nat
  BY WritesGrow DEF IInv, TypesHold, LogTyped
<1>2. \A v \in DOMAIN log : log[v] \in Writes
  BY <1>1 DEF LogTyped
<1>3. ASSUME NEW f \in InHistory, NEW v \in f.made
      PROVE  v \in DOMAIN log /\ log'[v].action = log[v].action /\ log[v].action \in Nat /\ log[v].action <= acted
  <2>1. v \in DOMAIN log
    BY <1>3 DEF WritesInv
  <2> QED
    BY <1>1, <1>2, <2>1 DEF Grown, Longer, WritesInv, Writes
<1>4. ASSUME NEW f \in InHistory, NEW v \in f.made, userTransaction' PROVE log'[v].action # acted'
  <2>1. CASE userTransaction /\ acted' = acted
    BY <1>3, <1>4, <2>1 DEF ActionInv
  <2>2. CASE acted' = acted + 1
    BY <1>1, <1>3, <1>4, <2>2
  <2> QED
    BY <1>1, <1>4, <2>1, <2>2, TransactionIs
<1>5. ASSUME NEW f \in InHistory, NEW v \in f.made, NEW w \in made'
      PROVE  log'[v].action # log'[w].action \/ log'[v].action = 0
  <2>1. CASE w \in made
    <3>1. log'[w].action = log[w].action
      BY <1>1, <2>1 DEF Grown, Longer, LogTyped
    <3> QED
      BY <1>3, <1>5, <2>1, <3>1 DEF ActionInv
  <2>2. CASE w \in DOMAIN log' \ DOMAIN log
    <3>1. log'[w].action = Acting
      BY <1>1, <2>2 DEF Grown
    <3>2. CASE userTransaction
      BY <1>3, <1>5, <3>1, <3>2 DEF Acting, ActionInv
    <3>3. CASE ~userTransaction
      BY <3>1, <3>3 DEF Acting
    <3> QED
      BY <3>2, <3>3
  <2> QED
    BY <1>5, <2>1, <2>2, MadeGrows
<1>6. ASSUME NEW f \in InHistory'
      PROVE  \A v \in f.made :
               /\ userTransaction' => log'[v].action # acted'
               /\ \A w \in made' : log'[v].action # log'[w].action \/ log'[v].action = 0
  <2>1. CASE f \in InHistory
    BY <1>4, <1>5, <2>1
  <2>2. CASE f.made = {}
    BY <2>2
  <2>3. CASE PollCommit
    <3>1. made' = {} /\ ~userTransaction'
      BY <2>3, CommitEnds
    <3> QED
      BY <3>1
  <2> QED
    BY <1>6, <2>1, <2>2, <2>3, Entries DEF NoNew, OneNew, Committed
<1> QED
  BY <1>6 DEF ActionInv

\* A stretch is of the control whose notches the last step was made of.
LEMMA PollsHold ==
  ASSUME IInv, ControlInv, WritesInv, KeyInv, LastInv, PollsInv, UndoNext
  PROVE  PollsInv'
<1>1. LogTyped /\ LoadInv /\ FlagsTyped /\ Grown
  BY WritesGrow DEF IInv, TypesHold
<1>2. ASSUME NEW f \in InHistory, f.polls > 1 PROVE OneKey(log', f.made)
  <2>1. PICK k \in Params : \A v \in f.made : log[v].key = k
    BY <1>2 DEF PollsInv, OneKey
  <2>2. \A v \in f.made : log'[v].key = k
    BY <1>1, <2>1 DEF Grown, Longer, WritesInv
  <2> QED
    BY <2>2 DEF OneKey
<1>3. ASSUME NEW f, NEW t, Committed(f, t), f.polls # 1 PROVE OneKey(log', f.made)
  <2>1. PollCommit
    BY <1>3 DEF Committed
  <2>2. log' = log /\ m.pc = "captured" /\ openGestures = 0 /\ (Tainted <=> Foreign)
    BY <2>1, CommitEnds
  <2>3. PICK g \in InHistory : /\ Extends(Foreign) /\ f.made = g.made \cup made
                               /\ abUndo[abActive].undo # <<>>
                               /\ g = abUndo[abActive].undo[Len(abUndo[abActive].undo)]
    BY <1>3, CommittedIs
  <2>4. ~Foreign /\ pendingStepWheelKey # NoKey /\ pendingStepWheelKey = lastStepWheelKey
    BY <2>3 DEF Extends
  <2>5. \A v \in g.made : log[v].key = pendingStepWheelKey
    BY <2>2, <2>3, <2>4 DEF LastInv, Steady
  <2>6. KeyIs(pendingStepWheelKey)
    <3>1. ~(openGestures > 0)
      BY <2>2
    <3> QED
      BY <2>2, <2>4, <3>1 DEF KeyInv
  <2>7. pendingStepWheelKey \in Params
    BY <1>1, <2>4 DEF FlagsTyped, Keys
  <2> QED
    BY <2>2, <2>3, <2>5, <2>6, <2>7 DEF OneKey, KeyIs
<1>4. ASSUME NEW f \in InHistory', f.polls > 1 PROVE OneKey(log', f.made)
  <2>1. f.polls # 1
    BY <1>4
  <2> QED
    BY <1>2, <1>3, <1>4, <2>1, Entries DEF NoNew, OneNew
<1> QED
  BY <1>4 DEF PollsInv

-----------------------------------------------------------------------------
(* The scroll in progress. *)

\* What a poll, or the end of the scroll, leaves of it.
LEMMA ScrollEnding ==
  ASSUME FlagsTyped
  PROVE  /\ ScrollPolled => scroll'.key = scroll.key /\ scroll'.id = scroll.id /\ (scroll'.shared # "no" => scroll.shared # "no")
         /\ ScrollEnds => scroll'.key = NoKey
         /\ \A x \in {"no", "poll"} : scroll' = [scroll EXCEPT !.shared = x]
               => scroll'.key = scroll.key /\ scroll'.id = scroll.id /\ scroll'.shared = x
<1>1. scroll \in Scrolls
  BY DEF FlagsTyped
<1> QED
  BY <1>1 DEF Scrolls, ScrollPolled, ScrollEnds

\* What ends the batch, by what moves the baseline.
LEMMA ScrollCleared ==
  ASSUME made' = {}, ~pendingStepNamed', openGestures' = 0, ~foreignSinceEdge', "edge" \in marks',
         scroll'.shared # "no" => scroll'.key = NoKey, scroll'.key # NoKey => live' = committedSig',
         m'.pc \notin {"poll", "captured"}
  PROVE  ScrollInv'
<1>1. ~(openGestures' > 0)
  OBVIOUS
<1> QED
  BY <1>1 DEF ScrollInv, Scrolling, Unshared, KeyIs

\* What changes nothing of it.
LEMMA ScrollQuiet ==
  ASSUME ScrollInv, UNCHANGED <<made, scroll, foreignSinceEdge, wheelStepKey, pendingStepNamed, pendingStepWheelKey>>,
         \A v \in made : log'[v] = log[v], openGestures' > 0 <=> openGestures > 0,
         "open" \in marks' => "open" \in marks,
         m'.pc \in Steady => /\ m.pc \in Steady /\ live' = live /\ committedSig' = committedSig
                             /\ "open" \in marks' <=> "open" \in marks
                             /\ "edge" \in marks' <=> "edge" \in marks,
         m'.pc \in {"poll", "captured"} => m.pc \in {"poll", "captured"} /\ m'.sig = m.sig
  PROVE  ScrollInv'
<1>1. \A k : KeyIs(k)' <=> KeyIs(k)
  BY DEF KeyIs
<1>2. ByHand' <=> ByHand
  BY DEF ByHand
<1>3. m'.pc \in {"poll", "captured"} => m'.pc \in Steady
  BY DEF Steady
<1>4. Scrolling => Scrolling'
  BY <1>1, <1>3 DEF Scrolling
<1>5. Unshared => Unshared'
  <2>1. ASSUME Unshared, pendingStepNamed' PROVE made' # {} /\ \A k \in Params : KeyIs(k)' => pendingStepWheelKey' = k
    BY <1>1, <2>1 DEF Unshared
  <2>2. ASSUME Unshared, m'.pc \in Steady
        PROVE  /\ openGestures' > 0 /\ "open" \notin marks' => \E v \in made' : log'[v].key = wheelStepKey'
               /\ foreignSinceEdge' => ByHand'
               /\ "edge" \in marks' \/ openGestures' > 0 \/ ByHand'
    BY <1>2, <2>2 DEF Unshared
  <2>3. ASSUME Unshared PROVE Unshared'
    <3>1. \A k \in Params : (KeyIs(k) => pendingStepWheelKey = k)' <=> (KeyIs(k)' => pendingStepWheelKey' = k)
      OBVIOUS
    <3> QED
      BY <2>1, <2>2, <2>3 DEF Unshared, KeyIs
  <2> QED
    BY <2>3
<1>6. m'.pc \in {"poll", "captured"} => m'.sig # committedSig'
  BY <1>3 DEF ScrollInv
<1>7. /\ \A v \in made' : log'[v].chain # 0 => log'[v].chain = scroll'.id /\ scroll'.key # NoKey
      /\ scroll'.shared # "no" => scroll'.key = NoKey
  BY DEF ScrollInv
<1> QED
  BY <1>4, <1>5, <1>6, <1>7 DEF ScrollInv

\* What shares the poll.
LEMMA ScrollAway ==
  ASSUME ScrollInv, Sharing, UNCHANGED <<m, committedSig>>
  PROVE  ScrollInv'
BY DEF ScrollInv, Sharing

\* A store that is alone.
LEMMA ScrollStore ==
  ASSUME IInv, ControlInv, ScrollInv, NEW p \in Params, Store(p), Alone
  PROVE  ScrollInv'
<1>1. FlagsTyped /\ LogTyped /\ GestureInv
  BY DEF IInv, TypesHold
<1>2. Notch(p) /\ ScrollGoesOn(p) /\ InBatch
  BY <1>1, StoreTakes
<1>3. /\ scroll'.shared = scroll.shared /\ scroll.id \in Nat
      /\ Chain(p) = 0 => scroll'.key = NoKey /\ scroll'.id = scroll.id
      /\ Chain(p) # 0 => scroll'.key = p /\ scroll'.id = Chain(p)
  BY <1>1, <1>2, GoesOn
<1>4. /\ m = Idle /\ m' = m /\ marks' = {} /\ m.pc = "idle"
      /\ UNCHANGED <<openGestures, foreignSinceEdge, wheelStepKey, pendingStepNamed, pendingStepWheelKey>>
  BY DEF Store, Idle, ui, edges, request, Count
<1>5. made \subseteq DOMAIN log /\ (\A v \in made : log'[v] = log[v]) /\ made' = made \cup {NewValue}
  BY <1>1, <1>2 DEF LogTyped, Notch
<1>6. \A v \in made : log[v].key = wheelStepKey
  BY DEF Alone
<1>7. Chain(p) # 0 => wheelStepKey = p /\ scroll.shared = "no" /\ openGestures = 1
  <2>1. Chain(p) # 0 => wheelStepKey # NoKey /\ scroll.shared = "no"
    BY DEF Chain
  <2>2. wheelStepKey # NoKey => held = {wheelStepKey} /\ ~userTransaction /\ openGestures = 1
    BY <1>1 DEF GestureInv, ControlInv
  <2> QED
    BY <2>1, <2>2 DEF Store
<1>8. ASSUME NEW v \in made, log[v].chain # 0
      PROVE  Chain(p) # 0 /\ log[v].chain = Chain(p)
  <2>1. log[v].chain = scroll.id /\ scroll.key # NoKey /\ log[v].key = scroll.key
    BY <1>8 DEF ScrollInv, Scrolling, KeyIs
  <2>2. scroll.shared = "no" /\ wheelStepKey = scroll.key
    BY <1>6, <2>1 DEF ScrollInv
  <2>3. wheelStepKey # NoKey => held = {wheelStepKey} /\ ~userTransaction
    BY <1>1 DEF GestureInv, ControlInv
  <2>4. wheelStepKey = p
    BY <2>1, <2>2, <2>3 DEF Store
  <2> QED
    BY <1>8, <2>1, <2>2, <2>4 DEF Chain
<1>9. \A v \in made' : log'[v].chain # 0 => log'[v].chain = scroll'.id /\ scroll'.key # NoKey
  <2>1. p # NoKey
    BY UndoAssumption
  <2>2. ASSUME NEW v \in made', log'[v].chain # 0 PROVE Chain(p) # 0 /\ log'[v].chain = Chain(p)
    <3>1. CASE v \in made
      BY <1>5, <1>8, <2>2, <3>1
    <3>2. CASE v = NewValue
      BY <1>2, <2>2, <3>2 DEF Notch
    <3> QED
      BY <1>5, <2>2, <3>1, <3>2
  <2> QED
    BY <1>3, <2>1, <2>2
<1>10. scroll'.shared # "no" => scroll'.key = NoKey
  BY <1>3, <1>7
<1>11. scroll'.key # NoKey => Scrolling'
  <2>1. SUFFICES ASSUME scroll'.key # NoKey PROVE Scrolling'
    OBVIOUS
  <2>2. scroll'.key = p /\ wheelStepKey = p /\ openGestures = 1
    BY <1>3, <1>7, <2>1
  <2>4. made' # {}
    BY <1>5
  <2>5. openGestures' > 0 /\ wheelStepKey' = scroll'.key /\ "open" \notin marks'
    BY <1>4, <2>2
  <2>6. m'.pc \notin {"poll", "captured"}
    BY <1>4
  <2>7. \A v \in made' : log'[v].key = scroll'.key
    BY <1>2, <1>5, <1>6, <2>2 DEF Notch
  <2> QED
    BY <2>4, <2>5, <2>6, <2>7 DEF Scrolling, KeyIs
<1>12. scroll'.shared = "no" => Unshared'
  <2>1. SUFFICES ASSUME scroll'.shared = "no" PROVE Unshared'
    OBVIOUS
  <2>2. Unshared
    BY <1>3, <2>1 DEF ScrollInv
  <2>3. NewValue \in made' /\ log'[NewValue].key = wheelStepKey'
    BY <1>2, <1>4, <1>5 DEF Notch
  <2>4. ASSUME pendingStepNamed', NEW k \in Params, \A v \in made' : log'[v].key = k PROVE pendingStepWheelKey' = k
    <3>1. KeyIs(k) /\ pendingStepNamed
      BY <1>4, <1>5, <2>4 DEF KeyIs
    <3> QED
      BY <1>4, <2>2, <3>1 DEF Unshared
  <2>5. foreignSinceEdge' => ByHand'
    <3>1. foreignSinceEdge => ByHand
      BY <1>4, <2>2 DEF Unshared, Steady
    <3>2. ByHand => \E v \in made' : log'[v].key = NoKey
      BY <1>5 DEF ByHand
    <3> QED
      BY <1>4, <3>1, <3>2 DEF ByHand
  <2>6. openGestures' > 0 \/ ByHand'
    <3>1. CASE openGestures > 0
      BY <1>4, <3>1
    <3>2. CASE userTransaction
      <4>1. wheelStepKey' = NoKey
        BY <1>4, <3>2 DEF ControlInv
      <4> QED
        BY <2>3, <4>1 DEF ByHand
    <3> QED
      BY <1>2, <3>1, <3>2 DEF InBatch
  <2>7. made' # {} /\ \E v \in made' : log'[v].key = wheelStepKey'
    BY <2>3
  <2> QED
    BY <2>4, <2>5, <2>6, <2>7 DEF Unshared, KeyIs
<1>13. m'.pc \notin {"poll", "captured"}
  BY <1>4
<1> QED
  BY <1>9, <1>10, <1>11, <1>12, <1>13 DEF ScrollInv

\* A gesture opens: the batch is kept, unless there is none.
LEMMA OpenBatchKept ==
  ASSUME IInv, NEW p \in Params, NEW wheel \in BOOLEAN, Open(p, wheel)
  PROVE  /\ made' = made /\ log' = log /\ m = Idle /\ m' = m /\ m.pc = "idle" /\ wheelStepKey = NoKey
         /\ UNCHANGED <<live, committedSig, scroll, pendingStepNamed, pendingStepWheelKey, pendingGestureCommit>>
         /\ openGestures' = openGestures + 1 /\ openGestures \in Nat
         /\ openGestures = 0 => {"open", "edge"} \subseteq marks'
         /\ openGestures # 0 => marks' = marks /\ wheelStepKey' = NoKey
         /\ foreignSinceEdge' <=> foreignSinceEdge \/ (openGestures = 0 /\ "edge" \notin marks)
<1>1. FlagsTyped /\ GestureInv /\ MadeWaits /\ openGestures \in Nat
  BY DEF IInv, TypesHold, MadeInv, FlagsTyped
<1>2. /\ m = Idle /\ m' = m /\ log' = log /\ wheelStepKey = NoKey /\ openGestures' = openGestures + 1
      /\ UNCHANGED <<live, committedSig, scroll, pendingStepNamed, pendingStepWheelKey, pendingGestureCommit>>
      /\ made' = IF openGestures = 0 /\ ~pendingGestureCommit THEN {} ELSE made
      /\ foreignSinceEdge' <=> foreignSinceEdge \/ (openGestures = 0 /\ "edge" \notin marks)
      /\ marks' = marks \cup IF openGestures = 0 THEN {"open", "edge"} ELSE {}
  BY <1>1 DEF Open, request, base, Mark
<1>3. made' = made
  BY <1>1, <1>2 DEF MadeWaits
<1>4. openGestures # 0 => wheelStepKey' = NoKey
  <2>1. openGestures # 0 => held # {}
    BY <1>1, FS_EmptySet DEF GestureInv
  <2>2. held # {} => ~wheel
    BY DEF Open
  <2>3. ~wheel => wheelStepKey' = NoKey
    BY DEF Open
  <2> QED
    BY <2>1, <2>2, <2>3
<1> QED
  BY <1>1, <1>2, <1>3, <1>4 DEF Idle

LEMMA ScrollOpen ==
  ASSUME IInv, ScrollInv, NEW p \in Params, NEW wheel \in BOOLEAN, Open(p, wheel)
  PROVE  ScrollInv'
<1>1. /\ made' = made /\ log' = log /\ m' = m /\ m.pc = "idle" /\ wheelStepKey = NoKey
      /\ UNCHANGED <<live, committedSig, scroll, pendingStepNamed, pendingStepWheelKey>>
      /\ openGestures' = openGestures + 1 /\ openGestures \in Nat
      /\ openGestures = 0 => {"open", "edge"} \subseteq marks'
      /\ openGestures # 0 => marks' = marks /\ wheelStepKey' = NoKey
      /\ foreignSinceEdge' <=> foreignSinceEdge \/ (openGestures = 0 /\ "edge" \notin marks)
  BY OpenBatchKept
<1>2. openGestures' > 0 /\ (openGestures > 0 <=> openGestures # 0)
  BY <1>1
<1>3. m.pc \in Steady /\ m'.pc \notin {"poll", "captured"}
  BY <1>1 DEF Steady
<1>4. scroll'.key # NoKey => Scrolling'
  <2>1. ASSUME scroll.key # NoKey PROVE Scrolling'
    <3>1. Scrolling
      BY <2>1 DEF ScrollInv
    <3>2. made # {} => pendingStepNamed
      BY <1>1, <2>1, <3>1 DEF Scrolling
    <3> QED
      BY <1>1, <1>3, <3>1, <3>2 DEF Scrolling, KeyIs
  <2> QED
    BY <1>1, <2>1
<1>5. scroll'.shared = "no" => Unshared'
  <2>1. SUFFICES ASSUME scroll'.shared = "no" PROVE Unshared'
    OBVIOUS
  <2>2. Unshared
    BY <1>1, <2>1 DEF ScrollInv
  <2>3. "open" \notin marks' => \E v \in made' : log'[v].key = wheelStepKey'
    <3>1. SUFFICES ASSUME "open" \notin marks' PROVE \E v \in made : log[v].key = NoKey
      BY <1>1
    <3>2. openGestures > 0 /\ "open" \notin marks
      BY <1>1, <1>2, <3>1
    <3> QED
      BY <1>1, <1>3, <2>2, <3>2 DEF Unshared
  <2>4. foreignSinceEdge' => ByHand'
    BY <1>1, <1>2, <1>3, <2>2 DEF Unshared, ByHand
  <2>5. pendingStepNamed' => made' # {} /\ \A k \in Params : (\A v \in made' : log'[v].key = k) => pendingStepWheelKey' = k
    BY <1>1, <2>2 DEF Unshared, KeyIs
  <2> QED
    BY <1>2, <2>3, <2>4, <2>5 DEF Unshared, KeyIs
<1> QED
  BY <1>1, <1>3, <1>4, <1>5 DEF ScrollInv

LEMMA ScrollClose ==
  ASSUME IInv, ControlInv, ScrollInv, NEW p \in Params, Close(p)
  PROVE  ScrollInv'
<1>1. FlagsTyped /\ openGestures \in Nat
  BY DEF IInv, TypesHold, FlagsTyped
<1>2. /\ m' = m /\ m.pc = "idle" /\ wheelStepKey' = NoKey
      /\ UNCHANGED <<live, committedSig, scroll, made, log, foreignSinceEdge>>
  BY DEF Close, Idle, history, base
<1>3. m.pc \in Steady /\ m'.pc \notin {"poll", "captured"}
  BY <1>2 DEF Steady
<1>4. CASE openGestures # 1
  <2>1. wheelStepKey = NoKey
    BY <1>4 DEF ControlInv
  <2>2. /\ UNCHANGED <<marks, pendingStepNamed, pendingStepWheelKey>>
        /\ openGestures' = IF openGestures > 0 THEN openGestures - 1 ELSE 0
    BY <1>4 DEF Close, request
  <2>3. openGestures' > 0 <=> openGestures > 0
    BY <1>1, <1>4, <2>2
  <2> QED
    BY <1>2, <1>3, <2>1, <2>2, <2>3, ScrollQuiet
<1>5. CASE openGestures = 1
  <2>1. /\ openGestures' = 0 /\ "edge" \in marks' /\ (pendingStepNamed' <=> pendingStepNamed \/ "open" \notin marks)
        /\ pendingStepWheelKey' = IF ~("open" \notin marks) THEN pendingStepWheelKey
                                  ELSE IF pendingStepNamed /\ pendingStepWheelKey # wheelStepKey THEN NoKey
                                  ELSE wheelStepKey
    BY <1>5 DEF Close, Mark
  <2>2. ~(openGestures' > 0) /\ openGestures > 0
    BY <1>5, <2>1
  <2>3. scroll'.key # NoKey => Scrolling'
    <3>1. ASSUME scroll.key # NoKey PROVE Scrolling'
      <4>1. Scrolling
        BY <3>1 DEF ScrollInv
      <4>2. made # {} => pendingStepNamed'
        BY <2>1, <4>1 DEF Scrolling
      <4> QED
        BY <1>2, <1>3, <4>1, <4>2 DEF Scrolling, KeyIs
    <3> QED
      BY <1>2, <3>1
  <2>4. scroll'.shared = "no" => Unshared'
    <3>1. SUFFICES ASSUME scroll'.shared = "no" PROVE Unshared'
      OBVIOUS
    <3>2. Unshared
      BY <1>2, <3>1 DEF ScrollInv
    <3>3. "open" \notin marks => \E v \in made : log[v].key = wheelStepKey
      BY <1>3, <2>2, <3>2 DEF Unshared
    <3>4. pendingStepNamed' => made' # {}
      BY <1>2, <2>1, <3>2, <3>3 DEF Unshared
    <3>5. ASSUME pendingStepNamed', NEW k \in Params, \A v \in made' : log'[v].key = k PROVE pendingStepWheelKey' = k
      <4>1. KeyIs(k)
        BY <1>2, <3>5 DEF KeyIs
      <4>2. pendingStepNamed => pendingStepWheelKey = k
        BY <3>2, <4>1 DEF Unshared
      <4>3. "open" \notin marks => wheelStepKey = k
        BY <3>3, <4>1 DEF KeyIs
      <4> QED
        BY <2>1, <3>5, <4>2, <4>3
    <3>6. foreignSinceEdge' => ByHand'
      BY <1>2, <1>3, <3>2 DEF Unshared, ByHand
    <3> QED
      BY <2>1, <2>2, <3>4, <3>5, <3>6 DEF Unshared, KeyIs
  <2> QED
    BY <1>2, <1>3, <2>3, <2>4 DEF ScrollInv
<1> QED
  BY <1>4, <1>5

\* A poll, up to its capture of the sound, is quiet, ends the batch, or finds that
\* something moved.
PollQuiet ==
  /\ UNCHANGED <<scroll, request, foreignSinceEdge, made>> /\ m'.pc \notin {"poll", "captured"}
  /\ marks' = marks \cup {"polled"}
PollEnds ==
  /\ made' = {} /\ ~pendingStepNamed' /\ openGestures' = 0 /\ ~foreignSinceEdge' /\ "edge" \in marks'
  /\ scroll'.key = scroll.key /\ scroll'.id = scroll.id /\ (scroll'.shared # "no" => scroll.shared # "no")
  /\ live = committedSig /\ m'.pc \notin {"poll", "captured"}
  /\ lastStepWheelKey' = IF pendingStepNamed /\ pendingStepWheelKey # lastStepWheelKey THEN NoKey ELSE lastStepWheelKey
PollMoves ==
  /\ m'.pc = "poll" /\ m'.sig = live /\ live # committedSig /\ UNCHANGED <<request, foreignSinceEdge, made>>
  /\ scroll'.key = scroll.key /\ scroll'.id = scroll.id /\ (scroll'.shared = "no" <=> scroll.shared = "no")
  /\ marks' = marks \cup {"polled"}

LEMMA PollIs ==
  ASSUME FlagsTyped, NEW job \in Jobs, Poll(job)
  PROVE  /\ UNCHANGED <<log, live, committedSig, wheelStepKey, openGestures, abActive, abUndo>>
         /\ PollQuiet \/ PollEnds \/ PollMoves
<1>1. UNCHANGED <<log, live, committedSig, wheelStepKey, openGestures, abActive, abUndo>>
  BY DEF Poll, ui, ab
<1>2. PICK unseen \in BOOLEAN, busy \in BOOLEAN, moved \in BOOLEAN :
        /\ unseen = ("polled" \notin marks \/ pendingGestureCommit)
        /\ busy = (openGestures > 0 \/ userTransaction)
        /\ moved = (live # committedSig)
  OBVIOUS
<1>3. /\ m' = IF unseen /\ ~busy /\ moved THEN [pc |-> "poll", job |-> job, sig |-> live] ELSE After(job)
      /\ IF unseen /\ ~busy /\ ~moved
         THEN /\ ~pendingStepNamed' /\ "edge" \in marks' /\ ~foreignSinceEdge' /\ made' = {}
              /\ lastStepWheelKey' = IF pendingStepNamed /\ pendingStepWheelKey # lastStepWheelKey THEN NoKey
                                     ELSE lastStepWheelKey
         ELSE marks' = marks \cup {"polled"} /\ UNCHANGED <<request, foreignSinceEdge, made>>
      /\ scroll' = IF ~unseen \/ busy \/ scroll.shared = "no" THEN scroll
                   ELSE [scroll EXCEPT !.shared = IF moved THEN "poll" ELSE "no"]
  BY <1>2 DEF Poll, Mark
<1>4. After(job).pc \notin {"poll", "captured"}
  BY DEF After, Idle, Jobs
<1>5. CASE unseen /\ ~busy /\ ~moved
  <2>1. openGestures = 0 /\ live = committedSig
    BY <1>2, <1>5 DEF FlagsTyped
  <2>2. scroll' = scroll \/ (scroll.shared # "no" /\ scroll' = [scroll EXCEPT !.shared = "no"])
    BY <1>3, <1>5
  <2>3. scroll'.key = scroll.key /\ scroll'.id = scroll.id /\ (scroll'.shared # "no" => scroll.shared # "no")
    BY <2>2, ScrollEnding
  <2>4. PollEnds
    BY <1>1, <1>3, <1>4, <1>5, <2>1, <2>3 DEF PollEnds
  <2> QED
    BY <1>1, <2>4
<1>6. CASE unseen /\ ~busy /\ moved
  <2>1. scroll' = scroll \/ (scroll.shared # "no" /\ scroll' = [scroll EXCEPT !.shared = "poll"])
    BY <1>3, <1>6
  <2>2. scroll'.key = scroll.key /\ scroll'.id = scroll.id /\ (scroll'.shared = "no" <=> scroll.shared = "no")
    BY <2>1, ScrollEnding
  <2>3. m'.pc = "poll" /\ m'.sig = live
    BY <1>3, <1>6
  <2>4. PollMoves
    BY <1>2, <1>3, <1>6, <2>2, <2>3 DEF PollMoves
  <2> QED
    BY <1>1, <2>4
<1>7. CASE ~(unseen /\ ~busy)
  <2>1. PollQuiet
    BY <1>3, <1>4, <1>7 DEF PollQuiet
  <2> QED
    BY <1>1, <2>1
<1> QED
  BY <1>5, <1>6, <1>7

LEMMA ScrollPoll ==
  ASSUME FlagsTyped, ScrollInv, NEW job \in Jobs, Poll(job), m = Idle
  PROVE  ScrollInv'
<1>1. UNCHANGED <<log, live, committedSig, wheelStepKey, openGestures>> /\ m.pc = "idle" /\ m.pc \in Steady
  BY PollIs DEF Idle, Steady
<1>2. CASE PollQuiet
  <2>1. UNCHANGED <<made, scroll, foreignSinceEdge, wheelStepKey, pendingStepNamed, pendingStepWheelKey>>
    BY <1>1, <1>2 DEF PollQuiet, request
  <2>2. ("open" \in marks' <=> "open" \in marks) /\ ("edge" \in marks' <=> "edge" \in marks)
    BY <1>2 DEF PollQuiet
  <2> QED
    BY <1>1, <1>2, <2>1, <2>2, ScrollQuiet DEF PollQuiet
<1>3. CASE PollEnds
  BY <1>1, <1>3, ScrollCleared DEF PollEnds, ScrollInv
<1>4. CASE PollMoves
  <2>1. UNCHANGED <<made, pendingStepNamed, pendingStepWheelKey, foreignSinceEdge>> /\ m'.pc \in Steady
    BY <1>4 DEF PollMoves, request, Steady
  <2>2. ("open" \in marks' <=> "open" \in marks) /\ ("edge" \in marks' <=> "edge" \in marks)
    BY <1>4 DEF PollMoves
  <2>3. scroll'.key # NoKey => Scrolling'
    BY <1>1, <1>4, <2>1, <2>2 DEF PollMoves, ScrollInv, Scrolling, KeyIs
  <2>4. scroll'.shared = "no" => Unshared'
    BY <1>1, <1>4, <2>1, <2>2 DEF PollMoves, ScrollInv, Unshared, KeyIs, ByHand
  <2> QED
    BY <1>1, <1>4, <2>1, <2>3, <2>4 DEF PollMoves, ScrollInv
<1> QED
  BY <1>2, <1>3, <1>4, PollIs

\* A fold finds nothing pending, and no scroll.
LEMMA FoldIs ==
  ASSUME IInv, ControlInv, ScrollInv, PollFold
  PROVE  /\ made = {} /\ made' = {} /\ log' = log /\ ~pendingStepNamed' /\ openGestures = 0 /\ openGestures' = 0
         /\ ~foreignSinceEdge' /\ "edge" \in marks' /\ scroll.key = NoKey /\ scroll'.key = NoKey
         /\ m'.pc \notin {"poll", "captured"} /\ lastStepWheelKey' = NoKey
<1>1. FlagsTyped /\ LogTyped /\ MadeWaits
  BY DEF IInv, TypesHold, MadeInv
<1>2. m.pc = "captured" /\ ~pendingGestureCommit /\ m # Idle /\ openGestures = 0
  BY DEF PollFold, IInv, GestureInv, Idle
<1>3. made = {} /\ ~pendingStepNamed
  BY <1>1, <1>2 DEF MadeWaits, ControlInv
<1>4. scroll.key = NoKey
  BY <1>2, <1>3 DEF ScrollInv, Scrolling, Steady
<1>5. After(m.job).pc \notin {"poll", "captured"}
  <2>1. m.job \in Jobs
    BY <1>1, <1>2, PointsIs DEF IInv, TypesHold, SoundsTyped, LogTyped
  <2> QED
    BY <2>1 DEF After, Idle, Jobs
<1>6. scroll'.key = NoKey
  BY <1>1, <1>4, ScrollEnding DEF PollFold
<1> QED
  BY <1>2, <1>3, <1>4, <1>5, <1>6 DEF PollFold, Mark, edges

LEMMA CommitScrolls ==
  ASSUME IInv, ScrollInv, PollCommit
  PROVE  /\ made' = {} /\ ~pendingStepNamed' /\ openGestures' = 0 /\ ~foreignSinceEdge' /\ "edge" \in marks'
         /\ scroll'.key = scroll.key /\ scroll'.id = scroll.id /\ (scroll'.shared # "no" => scroll.shared # "no")
         /\ scroll.key # NoKey => live' = committedSig' /\ made # {}
         /\ m'.pc \notin {"poll", "captured"}
<1>1. FlagsTyped /\ LogTyped
  BY DEF IInv, TypesHold
<1>2. m.pc = "captured" /\ openGestures = 0 /\ made' = {}
  BY CommitEnds
<1>3. After(m.job).pc \notin {"poll", "captured"}
  <2>1. m.job \in Jobs
    BY <1>1, <1>2, PointsIs DEF IInv, TypesHold, SoundsTyped, LogTyped
  <2> QED
    BY <2>1 DEF After, Idle, Jobs
<1>4. scroll.key # NoKey => m.sig = live /\ made # {}
  BY <1>2 DEF ScrollInv, Scrolling, Steady
<1> QED
  BY <1>1, <1>2, <1>3, <1>4, ScrollEnding DEF PollCommit, Mark

\* The other steps of the message thread, and the brackets of a transaction.
Aside == \/ BeginUserTransaction \/ EndUserTransaction \/ PollCapture \/ undo \/ redo \/ ApplyUndoEntry
         \/ abSwitchTo \/ Saved \/ Baseline \/ LoadPreset \/ Loaded \/ abCopyToOther \/ Adopt

LEMMA AsideIs ==
  ASSUME IInv, Aside
  PROVE  /\ UNCHANGED <<made, scroll, foreignSinceEdge, openGestures, wheelStepKey, pendingStepNamed, pendingStepWheelKey,
                        pendingGestureCommit, lastStepWheelKey>>
         /\ \A v \in made : log'[v] = log[v]
         /\ marks' \subseteq marks
         /\ m'.pc \in Steady => m.pc \in Steady /\ UNCHANGED <<live, committedSig, marks, log, abActive>>
         /\ m'.pc \in {"poll", "captured"} => m.pc \in {"poll", "captured"} /\ m'.sig = m.sig
<1>1. LogTyped /\ m.pc = "idle" => m.pc \in Steady
  BY DEF Steady
<1>2. CASE BeginUserTransaction \/ EndUserTransaction
  <2>1. m' = m /\ UNCHANGED <<live, committedSig, marks, log, abActive, made, scroll, foreignSinceEdge, openGestures,
            wheelStepKey, pendingStepNamed, pendingStepWheelKey, pendingGestureCommit, lastStepWheelKey>>
    BY <1>2 DEF BeginUserTransaction, EndUserTransaction, sound, edges, request, base, ab, history
  <2> QED
    BY <2>1
<1>3. CASE PollCapture
  <2>1. m.pc = "poll" /\ m'.pc = "captured" /\ m'.sig = m.sig
        /\ UNCHANGED <<live, committedSig, marks, log, abActive, made, scroll, foreignSinceEdge, openGestures,
            wheelStepKey, pendingStepNamed, pendingStepWheelKey, pendingGestureCommit, lastStepWheelKey>>
    BY <1>3 DEF PollCapture, sound, ui, edges, request, base, ab, history
  <2> QED
    BY <2>1 DEF Steady
<1>4. CASE undo \/ redo
  <2>1. PICK from \in {"undo", "redo"}, end \in {"before", "after"} : TakeEntry(from, end)
    BY <1>4 DEF undo, redo
  <2>2. m.pc \in Steady
        /\ UNCHANGED <<live, committedSig, marks, log, abActive, made, scroll, foreignSinceEdge, openGestures,
            wheelStepKey, pendingStepNamed, pendingStepWheelKey, pendingGestureCommit, lastStepWheelKey>>
    BY <2>1 DEF TakeEntry, Steady, sound, ui, edges, request, base, history
  <2>3. m'.pc \in {"idle", "install"}
    BY <2>1 DEF TakeEntry, Idle
  <2> QED
    BY <2>2, <2>3
<1>5. CASE ApplyUndoEntry \/ abSwitchTo \/ Saved \/ Baseline \/ Loaded \/ Adopt
  <2>1. UNCHANGED <<made, log, scroll, foreignSinceEdge, openGestures, wheelStepKey, pendingStepNamed, pendingStepWheelKey,
                    pendingGestureCommit, lastStepWheelKey>> /\ (marks' = marks \/ marks' = {})
    BY <1>5 DEF ApplyUndoEntry, abSwitchTo, Saved, Baseline, Loaded, Adopt, Install, Count, sound, ui, edges, request, history
  <2>2. m'.pc \in {"baseline", "sync", "rebase", "adopted"}
    BY <1>5 DEF ApplyUndoEntry, abSwitchTo, Saved, Baseline, Loaded, Adopt
  <2>3. m'.pc \notin Steady
    BY <2>2 DEF Steady
  <2> QED
    BY <2>1, <2>2, <2>3
<1>6. CASE LoadPreset
  <2>1. UNCHANGED <<made, scroll, foreignSinceEdge, openGestures, wheelStepKey, pendingStepNamed, pendingStepWheelKey,
                    pendingGestureCommit, lastStepWheelKey>> /\ marks' = {} /\ m'.pc = "loaded" /\ m'.pc \notin Steady
    BY <1>6 DEF LoadPreset, Install, Count, ui, edges, request, Steady
  <2>2. \A v \in made : log'[v] = log[v]
    <3>1. PICK w : w = Write("preset", NoKey, NoKey, 0)
      OBVIOUS
    <3>2. w \in Writes /\ log \in Seq(Writes) /\ made \subseteq DOMAIN log
      BY <3>1, WriteIs DEF Keys, IInv, TypesHold, LogTyped
    <3>3. log' = log \/ log' = Append(log, w)
      BY <1>6, <3>1 DEF LoadPreset
    <3> QED
      BY <3>2, <3>3, Logged
  <2> QED
    BY <2>1, <2>2
<1>7. CASE abCopyToOther
  <2>1. m' = m /\ UNCHANGED <<live, committedSig, marks, log, abActive, made, scroll, foreignSinceEdge, openGestures,
            wheelStepKey, pendingStepNamed, pendingStepWheelKey, pendingGestureCommit, lastStepWheelKey>>
    BY <1>7 DEF abCopyToOther, sound, ui, edges, request, base
  <2> QED
    BY <2>1
<1> QED
  BY <1>2, <1>3, <1>4, <1>5, <1>6, <1>7 DEF Aside

LEMMA Dropped ==
  ASSUME FlagsTyped, Sync \/ CommitPresetSwitchUndoStep
  PROVE  /\ made' = {} /\ ~pendingStepNamed' /\ pendingStepWheelKey' = NoKey /\ lastStepWheelKey' = NoKey
         /\ openGestures' = 0 /\ ~foreignSinceEdge' /\ "edge" \in marks' /\ scroll'.key = NoKey /\ m'.pc = "idle"
BY ScrollEnding DEF Sync, CommitPresetSwitchUndoStep, DropGestures, ResetBatchOwnership, Mark, Idle

LEMMA ScrollHolds ==
  ASSUME IInv, ControlInv, ScrollInv, UndoNext
  PROVE  ScrollInv'
<1>1. FlagsTyped /\ LogTyped
  BY DEF IInv, TypesHold
<1>2. CASE Host
  <2>1. UNCHANGED <<m, committedSig>>
    BY <1>2 DEF Host, Automate, parameterValueChanged, Restore, base
  <2> QED
    BY <1>1, <1>2, <2>1, HostShares, ScrollAway
<1>3. ASSUME NEW p \in Params, Store(p) \/ StoreAnswered(p) PROVE ScrollInv'
  <2>1. CASE Store(p) /\ Alone
    BY <2>1, ScrollStore
  <2>2. CASE StoreAnswered(p) \/ (Store(p) /\ ~Alone)
    <3>1. UNCHANGED <<m, committedSig>>
      BY <2>2 DEF Store, StoreAnswered, base
    <3> QED
      BY <1>1, <2>2, <3>1, StoreShares, ScrollAway
  <2> QED
    BY <1>3, <2>1, <2>2
<1>4. ASSUME NEW p \in Params, Close(p) \/ \E wheel \in BOOLEAN : Open(p, wheel) PROVE ScrollInv'
  BY <1>4, ScrollClose, ScrollOpen
<1>5. CASE TimerTick \/ \E job \in {"undo", "redo", "switch", "load", "save"} : StateCommand(job)
  <2>1. PICK job \in Jobs : Poll(job) /\ m = Idle
    BY <1>5 DEF TimerTick, StateCommand, MayAct, Jobs
  <2> QED
    BY <1>1, <2>1, ScrollPoll
<1>6. CASE PollFold
  BY <1>6, FoldIs, ScrollCleared
<1>7. CASE PollCommit
  BY <1>7, CommitScrolls, ScrollCleared DEF ScrollInv
<1>8. CASE Sync \/ CommitPresetSwitchUndoStep
  BY <1>1, <1>8, Dropped, ScrollCleared
<1>9. CASE Aside
  <2>1. /\ UNCHANGED <<made, scroll, foreignSinceEdge, wheelStepKey, pendingStepNamed, pendingStepWheelKey>>
        /\ openGestures' = openGestures
        /\ \A v \in made : log'[v] = log[v]
        /\ marks' \subseteq marks
        /\ m'.pc \in Steady => m.pc \in Steady /\ UNCHANGED <<live, committedSig, marks>>
        /\ m'.pc \in {"poll", "captured"} => m.pc \in {"poll", "captured"} /\ m'.sig = m.sig
    BY <1>9, AsideIs
  <2> QED
    BY <2>1, ScrollQuiet
<1> QED
  BY <1>2, <1>3, <1>4, <1>5, <1>6, <1>7, <1>8, <1>9 DEF UndoNext, Controls, Message, Aside

-----------------------------------------------------------------------------
(* The name of the pending step. *)

LEMMA KeyQuiet ==
  ASSUME KeyInv, UNCHANGED <<made, foreignSinceEdge, wheelStepKey, pendingStepNamed, pendingStepWheelKey>>,
         openGestures' > 0 <=> openGestures > 0, openGestures' = 0 <=> openGestures = 0,
         \A v \in made : log'[v].key = log[v].key,
         "open" \in marks' => "open" \in marks, "edge" \in marks' => "edge" \in marks
  PROVE  KeyInv'
BY DEF KeyInv, KeyIs, Tainted

LEMMA KeyStore ==
  ASSUME FlagsTyped, KeyInv, marks' = {}, UNCHANGED <<openGestures, foreignSinceEdge, wheelStepKey, pendingStepNamed, pendingStepWheelKey>>,
         made \subseteq made', NEW n, made' \subseteq made \cup {n}, log'[n].key = wheelStepKey,
         \A v \in made : log'[v].key = log[v].key
  PROVE  KeyInv'
<1>1. CASE openGestures = 0 \/ foreignSinceEdge
  <2>1. Tainted'
    BY <1>1 DEF Tainted
  <2> QED
    BY <2>1 DEF KeyInv
<1>2. CASE openGestures # 0 /\ ~foreignSinceEdge
  <2>1. ~Tainted /\ openGestures > 0
    BY <1>2 DEF Tainted, FlagsTyped
  <2>2. ASSUME KeyIs(wheelStepKey) PROVE \A v \in made' : log'[v].key = wheelStepKey
    <3>1. ASSUME NEW v \in made' PROVE log'[v].key = wheelStepKey
      <4>1. CASE v \in made
        BY <2>2, <4>1 DEF KeyIs
      <4>2. CASE v = n
        BY <4>2
      <4> QED
        BY <3>1, <4>1, <4>2
    <3> QED
      BY <3>1
  <2>3. pendingStepWheelKey' # NoKey
          => \/ \A v \in made' : log'[v].key = pendingStepWheelKey'
             \/ openGestures' > 0 /\ "open" \notin marks' /\ wheelStepKey' # pendingStepWheelKey'
    BY <2>1, <2>2 DEF KeyInv
  <2>4. ~pendingStepNamed' => (\A v \in made' : log'[v].key = wheelStepKey')
    BY <2>1, <2>2 DEF KeyInv
  <2>5. openGestures' > 0 /\ "open" \notin marks'
    BY <2>1
  <2> QED
    BY <2>3, <2>4, <2>5 DEF KeyInv, KeyIs
<1> QED
  BY <1>1, <1>2

LEMMA KeyOpen ==
  ASSUME IInv, KeyInv, NEW p \in Params, NEW wheel \in BOOLEAN, Open(p, wheel)
  PROVE  KeyInv'
<1>1. /\ made' = made /\ log' = log /\ wheelStepKey = NoKey
      /\ UNCHANGED <<pendingStepNamed, pendingStepWheelKey>>
      /\ openGestures' = openGestures + 1 /\ openGestures \in Nat
      /\ openGestures # 0 => marks' = marks /\ wheelStepKey' = NoKey
      /\ foreignSinceEdge' <=> foreignSinceEdge \/ (openGestures = 0 /\ "edge" \notin marks)
  BY OpenBatchKept
<1>2. openGestures' > 0 /\ (openGestures > 0 <=> openGestures # 0)
  BY <1>1
<1>3. CASE Tainted
  BY <1>1, <1>3 DEF Tainted, KeyInv
<1>4. CASE ~Tainted /\ openGestures = 0
  BY <1>1, <1>2, <1>4 DEF KeyInv, KeyIs
<1>5. CASE ~Tainted /\ openGestures # 0
  BY <1>1, <1>2, <1>5 DEF KeyInv, KeyIs
<1> QED
  BY <1>3, <1>4, <1>5

LEMMA KeyClose ==
  ASSUME IInv, ControlInv, KeyInv, NEW p \in Params, Close(p)
  PROVE  KeyInv'
<1>1. openGestures \in Nat
  BY DEF IInv, TypesHold, FlagsTyped
<1>2. wheelStepKey' = NoKey /\ UNCHANGED <<made, log, foreignSinceEdge>>
  BY DEF Close, history
<1>4. CASE openGestures # 1
  <2>1. wheelStepKey = NoKey
    BY <1>4 DEF ControlInv
  <2>2. /\ UNCHANGED <<marks, pendingStepNamed, pendingStepWheelKey>>
        /\ openGestures' = IF openGestures > 0 THEN openGestures - 1 ELSE 0
    BY <1>4 DEF Close, request
  <2>3. (openGestures' > 0 <=> openGestures > 0) /\ (openGestures' = 0 <=> openGestures = 0)
    BY <1>1, <1>4, <2>2
  <2> QED
    BY <1>2, <2>1, <2>2, <2>3, KeyQuiet
<1>5. CASE openGestures = 1
  <2>1. /\ openGestures' = 0 /\ "edge" \in marks' /\ (pendingStepNamed' <=> pendingStepNamed \/ "open" \notin marks)
        /\ pendingStepWheelKey' = IF ~("open" \notin marks) THEN pendingStepWheelKey
                                  ELSE IF pendingStepNamed /\ pendingStepWheelKey # wheelStepKey THEN NoKey
                                  ELSE wheelStepKey
    BY <1>5 DEF Close, Mark
  <2>2. CASE Tainted
    <3>1. foreignSinceEdge'
      BY <1>2, <1>5, <2>2 DEF Tainted
    <3> QED
      BY <3>1 DEF KeyInv, Tainted
  <2>3. CASE ~Tainted
    <3>1. pendingStepWheelKey' # NoKey => KeyIs(pendingStepWheelKey')
      BY <2>1, <2>3 DEF KeyInv
    <3>2. ~pendingStepNamed' => made = {}
      BY <2>1, <2>3 DEF KeyInv
    <3> QED
      BY <1>2, <3>1, <3>2 DEF KeyInv, KeyIs
  <2> QED
    BY <2>2, <2>3
<1> QED
  BY <1>4, <1>5

LEMMA KeyHolds ==
  ASSUME IInv, ControlInv, WritesInv, ScrollInv, KeyInv, UndoNext
  PROVE  KeyInv'
<1>1. FlagsTyped /\ LogTyped /\ made \subseteq DOMAIN log /\ Longer(log, log')
  BY WritesGrow DEF IInv, TypesHold, LogTyped, Grown
<1>2. \A v \in made : log'[v].key = log[v].key
  BY <1>1 DEF Longer
<1>3. ASSUME made' = {} PROVE KeyInv'
  BY <1>3 DEF KeyInv, KeyIs
<1>4. CASE Host
  <2>1. /\ UNCHANGED <<made, foreignSinceEdge, wheelStepKey, pendingStepNamed, pendingStepWheelKey, openGestures>>
        /\ marks' \subseteq marks
    BY <1>4 DEF Host, Automate, parameterValueChanged, Restore, ui, edges, request, Count
  <2> QED
    BY <1>2, <2>1, KeyQuiet
<1>5. ASSUME NEW p \in Params, Store(p) \/ StoreAnswered(p) PROVE KeyInv'
  <2>1. /\ UNCHANGED <<openGestures, foreignSinceEdge, wheelStepKey, pendingStepNamed, pendingStepWheelKey>>
        /\ marks' = {} /\ made \subseteq made' /\ made' \subseteq made \cup {NewValue}
    BY <1>5 DEF Store, StoreAnswered, ui, edges, request, Count
  <2>2. log'[NewValue].key = wheelStepKey
    BY <1>1, <1>5, StoreShares, StoreTakes DEF Notch
  <2> QED
    BY <1>1, <1>2, <2>1, <2>2, KeyStore
<1>6. ASSUME NEW p \in Params, Close(p) \/ \E wheel \in BOOLEAN : Open(p, wheel) PROVE KeyInv'
  BY <1>6, KeyClose, KeyOpen
<1>7. CASE TimerTick \/ \E job \in {"undo", "redo", "switch", "load", "save"} : StateCommand(job)
  <2>1. PICK job \in Jobs : Poll(job)
    BY <1>7 DEF TimerTick, StateCommand, Jobs
  <2>2. UNCHANGED <<wheelStepKey, openGestures>> /\ (PollQuiet \/ PollEnds \/ PollMoves)
    BY <1>1, <2>1, PollIs
  <2>3. CASE PollEnds
    BY <1>3, <2>3 DEF PollEnds
  <2>4. CASE PollQuiet \/ PollMoves
    <3>1. /\ UNCHANGED <<made, foreignSinceEdge, pendingStepNamed, pendingStepWheelKey>>
          /\ ("open" \in marks' => "open" \in marks) /\ ("edge" \in marks' => "edge" \in marks)
      BY <2>4 DEF PollQuiet, PollMoves, request
    <3> QED
      BY <1>2, <2>2, <3>1, KeyQuiet
  <2> QED
    BY <2>2, <2>3, <2>4
<1>8. CASE PollFold \/ PollCommit \/ Sync \/ CommitPresetSwitchUndoStep
  BY <1>1, <1>3, <1>8, FoldIs, CommitEnds, Dropped
<1>9. CASE Aside
  <2>1. /\ UNCHANGED <<made, foreignSinceEdge, openGestures, wheelStepKey, pendingStepNamed, pendingStepWheelKey>>
        /\ marks' \subseteq marks
    BY <1>9, AsideIs
  <2> QED
    BY <1>2, <2>1, KeyQuiet
<1> QED
  BY <1>4, <1>5, <1>6, <1>7, <1>8, <1>9 DEF UndoNext, Controls, Message, Aside

-----------------------------------------------------------------------------
(* The last step. *)

\* What it says of two stacks, a log and a scroll.
LastIs(l, x, y, key, id, last) ==
  /\ key # NoKey =>
       /\ \A f \in Range(y) : \A v \in f.made : l[v].chain # id
       /\ \A i \in DOMAIN x : \A v \in x[i].made : l[v].chain = id => i = Len(x) /\ last = key
  /\ last # NoKey /\ x # <<>> => \A v \in x[Len(x)].made : l[v].key = last

LEMMA LastIsInv ==
  /\ LastInv <=> (m.pc \in Steady => LastIs(log, abUndo[abActive].undo, abUndo[abActive].redo,
                                            scroll.key, scroll.id, lastStepWheelKey))
  /\ LastInv' <=> (m'.pc \in Steady => LastIs(log', abUndo'[abActive'].undo, abUndo'[abActive'].redo,
                                              scroll'.key, scroll'.id, lastStepWheelKey'))
BY DEF LastInv, LastIs

\* The steps of a slot, and their writes.
LEMMA OfStack ==
  ASSUME NEW k \in Nat, SoundsTyped(k), WritesInv, NEW s \in Slots
  PROVE  /\ \A f \in Range(abUndo[s].redo) : f \in InHistory /\ f.made \subseteq DOMAIN log
         /\ \A i \in DOMAIN abUndo[s].undo : abUndo[s].undo[i] \in InHistory /\ abUndo[s].undo[i].made \subseteq DOMAIN log
         /\ abUndo[s].undo # <<>> => Len(abUndo[s].undo) \in DOMAIN abUndo[s].undo
<1>1. PICK x \in Seq(StepsOf(k)), y \in Seq(StepsOf(k)) : x = abUndo[s].undo /\ y = abUndo[s].redo
  BY StacksAre
<1>2. \A i \in DOMAIN x : x[i] \in Range(x)
  BY RangeIs
<1>3. x # <<>> => Len(x) \in DOMAIN x
  BY Popped
<1> QED
  BY <1>1, <1>2, <1>3, StacksHeld DEF WritesInv

LEMMA LastQuiet ==
  ASSUME IInv, WritesInv, LastInv,
         m'.pc \in Steady =>
           /\ m.pc \in Steady /\ abActive' = abActive /\ abUndo'[abActive] = abUndo[abActive]
           /\ lastStepWheelKey' = lastStepWheelKey
           /\ scroll'.key # NoKey => /\ scroll'.key = scroll.key /\ scroll'.id = scroll.id
                                     /\ \A v \in DOMAIN log : log'[v].chain = log[v].chain
           /\ \A v \in DOMAIN log : log'[v].key = log[v].key
  PROVE  LastInv'
<1>1. SUFFICES ASSUME m'.pc \in Steady
               PROVE  LastIs(log', abUndo'[abActive'].undo, abUndo'[abActive'].redo,
                             scroll'.key, scroll'.id, lastStepWheelKey')
  BY LastIsInv
<1>2. abActive \in Slots /\ SoundsTyped(Len(log)) /\ Len(log) \in Nat
  BY DEF IInv, TypesHold, FlagsTyped, LogTyped
<1>3. PICK k \in Nat : k = Len(log)
  BY <1>2
<1>4. PICK x, y : x = abUndo[abActive].undo /\ y = abUndo[abActive].redo
  OBVIOUS
<1>5. LastIs(log, x, y, scroll.key, scroll.id, lastStepWheelKey)
  BY <1>1, <1>4, LastIsInv
<1>6. /\ \A f \in Range(y) : f.made \subseteq DOMAIN log
      /\ \A i \in DOMAIN x : x[i].made \subseteq DOMAIN log
      /\ x # <<>> => Len(x) \in DOMAIN x
  BY <1>2, <1>3, <1>4, OfStack
<1>7. abUndo'[abActive'].undo = x /\ abUndo'[abActive'].redo = y
  BY <1>1, <1>4
<1>8. LastIs(log', x, y, scroll'.key, scroll'.id, lastStepWheelKey)
  BY <1>1, <1>5, <1>6 DEF LastIs
<1> QED
  BY <1>1, <1>7, <1>8

\* A commit inside a scroll has its name, and nothing else moved the sound.
LEMMA CommitScrolling ==
  ASSUME IInv, ControlInv, ScrollInv, PollCommit, scroll.key # NoKey
  PROVE  ~Foreign /\ pendingStepWheelKey = scroll.key
<1>1. m.pc = "captured" /\ m.pc \in Steady /\ openGestures = 0 /\ ~(openGestures > 0) /\ scroll.key \in Params /\ made # {}
  BY CommitEnds, CommitScrolls DEF Steady, IInv, TypesHold, FlagsTyped, Scrolls, Keys
<1>2. Scrolling /\ Unshared /\ KeyIs(scroll.key)
  BY DEF ScrollInv, Scrolling
<1>3. ~ByHand
  BY <1>2 DEF ByHand, KeyIs
<1>4. ~Foreign
  BY <1>1, <1>2, <1>3 DEF Unshared, Foreign
<1>5. pendingStepNamed
  BY <1>1, <1>2 DEF Scrolling
<1> QED
  BY <1>1, <1>2, <1>4, <1>5 DEF Unshared

\* How many of the steps a commit keeps below the one it makes, and that none of these
\* is of the scroll in progress.
Below == LET x == abUndo[abActive].undo IN IF Extends(Foreign) THEN Len(x) - 1 ELSE Len(x)

LEMMA CommitFresh ==
  ASSUME IInv, ControlInv, WritesInv, ScrollInv, LastInv, PollCommit, scroll.key # NoKey,
         NEW i \in DOMAIN abUndo[abActive].undo, i <= Below, NEW v \in abUndo[abActive].undo[i].made
  PROVE  log[v].chain # scroll.id
<1>1. SUFFICES ASSUME log[v].chain = scroll.id PROVE FALSE
  OBVIOUS
<1>2. abActive \in Slots /\ SoundsTyped(Len(log)) /\ Len(log) \in Nat /\ m.pc \in Steady
  BY CommitEnds DEF IInv, TypesHold, FlagsTyped, LogTyped, Steady
<1>3. PICK k \in Nat : k = Len(log)
  BY <1>2
<1>4. PICK x \in Seq(StepsOf(k)), y \in Seq(StepsOf(k)) : x = abUndo[abActive].undo /\ y = abUndo[abActive].redo
  BY <1>2, <1>3, StacksAre
<1>5. LastIs(log, x, y, scroll.key, scroll.id, lastStepWheelKey)
  BY <1>2, <1>4, LastIsInv
<1>6. i = Len(x) /\ lastStepWheelKey = scroll.key /\ Len(x) \in Nat /\ x # <<>>
  BY <1>1, <1>4, <1>5 DEF LastIs
<1>7. ~Extends(Foreign)
  BY <1>4, <1>6 DEF Below
<1>8. IsWhole(x[Len(x)])
  BY <1>4, <1>6, <1>7, CommitScrolling DEF Extends
<1>9. x[Len(x)] \in InHistory
  BY <1>2, <1>3, <1>4, <1>6, OfStack
<1> QED
  BY <1>4, <1>6, <1>8, <1>9 DEF WritesInv

\* The step that a commit leaves on top has the name.
LEMMA CommitNamed ==
  ASSUME IInv, ControlInv, WritesInv, KeyInv, LastInv, NEW e, NEW t, Committed(e, t), lastStepWheelKey' # NoKey
  PROVE  \A v \in e.made : log[v].key = lastStepWheelKey'
<1>1. ~Foreign /\ lastStepWheelKey' = pendingStepWheelKey /\ pendingStepWheelKey # NoKey
  BY DEF Committed, Committing
<1>2. openGestures = 0 /\ ~(openGestures > 0) /\ ~Tainted /\ m.pc \in Steady
  BY <1>1, CommitEnds DEF Committed, Steady
<1>3. \A v \in made : log[v].key = pendingStepWheelKey
  BY <1>1, <1>2 DEF KeyInv, KeyIs
<1>4. CASE e.made = made
  BY <1>1, <1>3, <1>4
<1>5. CASE e.made # made
  <2>1. PICK f \in InHistory : /\ Extends(Foreign) /\ e.made = f.made \cup made
                               /\ abUndo[abActive].undo # <<>>
                               /\ f = abUndo[abActive].undo[Len(abUndo[abActive].undo)]
    BY <1>5, CommittedIs
  <2>2. lastStepWheelKey = pendingStepWheelKey
    BY <2>1 DEF Extends
  <2>3. \A v \in f.made : log[v].key = lastStepWheelKey
    BY <1>1, <1>2, <2>1, <2>2 DEF LastInv
  <2> QED
    BY <1>1, <1>3, <2>1, <2>2, <2>3
<1> QED
  BY <1>4, <1>5

LEMMA LastCommit ==
  ASSUME IInv, ControlInv, WritesInv, ScrollInv, KeyInv, LastInv, PollCommit
  PROVE  LastInv'
<1>1. /\ abActive \in Slots /\ abActive' = abActive /\ FlagsTyped /\ LogTyped /\ SoundsTyped(Len(log)) /\ RoomInv
      /\ m.pc \in Steady /\ log' = log
  BY CommitEnds DEF IInv, TypesHold, FlagsTyped, Steady, PollCommit
<1>2. PICK k \in Nat : k = Len(log)
  BY <1>1 DEF LogTyped
<1>3. SoundsTyped(k)
  BY <1>1, <1>2
<1>4. scroll'.key = scroll.key /\ scroll'.id = scroll.id
  BY CommitScrolls
<1>5. PICK x \in Seq(StepsOf(k)), y \in Seq(StepsOf(k)) : x = abUndo[abActive].undo /\ y = abUndo[abActive].redo
  BY <1>1, <1>3, StacksAre
<1>6. LastIs(log, x, y, scroll.key, scroll.id, lastStepWheelKey)
  BY <1>1, <1>5, LastIsInv
<1>7. CASE abUndo' = abUndo /\ lastStepWheelKey' = IF Foreign THEN NoKey ELSE lastStepWheelKey
  <2>1. scroll.key # NoKey => lastStepWheelKey' = lastStepWheelKey
    BY <1>7, CommitScrolling
  <2>2. LastIs(log, x, y, scroll.key, scroll.id, lastStepWheelKey')
    BY <1>6, <1>7, <2>1 DEF LastIs
  <2> QED
    BY <1>1, <1>4, <1>5, <1>7, <2>2, LastIsInv
<1>8. ASSUME NEW e \in StepsOf(k), NEW t \in Seq(StepsOf(k)), Committing(t, e) PROVE LastInv'
  <2>1. Becomes(abActive, t, <<>>)
    BY <1>1, <1>3, <1>8, CommitMoves
  <2>2. OnTop(t, x, Below, e) /\ Len(x) \in Nat
    BY <1>5, <1>8 DEF Committing, Stretch, Bare, Below
  <2>3. t[Len(t)] = e /\ Len(t) \in Nat /\ DOMAIN t = 1..Len(t)
    BY <2>2 DEF OnTop
  <2>4. ASSUME scroll.key # NoKey, NEW i \in DOMAIN t, NEW v \in t[i].made, log[v].chain = scroll.id
        PROVE  i = Len(t) /\ lastStepWheelKey' = scroll.key
    <3>1. lastStepWheelKey' = scroll.key
      BY <1>8, <2>4, CommitScrolling DEF Committing
    <3>2. CASE i # Len(t)
      <4>1. i \in 1..Len(t) - 1
        BY <2>3, <2>4, <3>2
      <4>2. PICK d \in {0, 1} : i + d \in 1..Below /\ t[i] = x[i + d]
        BY <2>2, <4>1 DEF OnTop
      <4>3. Below \in {Len(x), Len(x) - 1}
        BY <1>5 DEF Below
      <4>4. PICK j : j = i + d
        OBVIOUS
      <4>5. j \in DOMAIN x /\ j <= Below /\ v \in x[j].made
        BY <2>2, <2>4, <4>2, <4>3, <4>4
      <4> QED
        BY <1>5, <2>4, <4>5, CommitFresh
    <3> QED
      BY <3>1, <3>2
  <2>5. lastStepWheelKey' # NoKey => \A v \in t[Len(t)].made : log[v].key = lastStepWheelKey'
    BY <1>8, <2>3, CommitNamed DEF Committed
  <2>6. LastIs(log, t, <<>>, scroll.key, scroll.id, lastStepWheelKey')
    BY <2>4, <2>5, NoneHeld DEF LastIs
  <2>7. abUndo'[abActive'].undo = t /\ abUndo'[abActive'].redo = <<>>
    BY <1>1, <2>1 DEF Becomes
  <2> QED
    BY <1>1, <1>4, <2>6, <2>7, LastIsInv
<1> QED
  BY <1>1, <1>3, <1>7, <1>8, CommitIs

LEMMA LastStore ==
  ASSUME IInv, ControlInv, WritesInv, LastInv, NEW p \in Params, Store(p), Alone
  PROVE  LastInv'
<1>1. FlagsTyped /\ LogTyped /\ abActive \in Slots /\ SoundsTyped(Len(log)) /\ Len(log) \in Nat
  BY DEF IInv, TypesHold, FlagsTyped, LogTyped
<1>2. Notch(p) /\ ScrollGoesOn(p)
  BY <1>1, StoreTakes
<1>3. /\ scroll.id \in Nat
      /\ Chain(p) = 0 => scroll'.key = NoKey /\ scroll'.id = scroll.id
      /\ Chain(p) # 0 => scroll'.key = p /\ scroll'.id = Chain(p)
  BY <1>1, <1>2, GoesOn
<1>4. m' = m /\ m.pc \in Steady /\ UNCHANGED <<abActive, abUndo, lastStepWheelKey>>
  BY DEF Store, Idle, Steady, ab, request
<1>5. \A v \in DOMAIN log : log'[v] = log[v]
  BY <1>2 DEF Notch
<1>6. CASE Chain(p) = 0 \/ (Chain(p) = scroll.id /\ scroll.key = p)
  <2>1. scroll'.key # NoKey => scroll'.key = scroll.key /\ scroll'.id = scroll.id
    BY <1>3, <1>6
  <2> QED
    BY <1>4, <1>5, <2>1, LastQuiet
<1>7. CASE Chain(p) = scroll.id + 1 /\ Chain(p) # 0
  <2>1. PICK k \in Nat : k = Len(log)
    BY <1>1
  <2>2. PICK x, y : x = abUndo[abActive].undo /\ y = abUndo[abActive].redo
    OBVIOUS
  <2>3. LastIs(log, x, y, scroll.key, scroll.id, lastStepWheelKey)
    BY <1>4, <2>2, LastIsInv
  <2>4. /\ \A f \in Range(y) : f.made \subseteq DOMAIN log
        /\ \A i \in DOMAIN x : x[i].made \subseteq DOMAIN log
        /\ x # <<>> => Len(x) \in DOMAIN x
    BY <1>1, <2>1, <2>2, OfStack
  <2>5. \A v \in DOMAIN log : log'[v].chain # scroll'.id
    <3>1. \A v \in DOMAIN log : log[v] \in Writes
      BY <1>1 DEF LogTyped
    <3>2. \A v \in DOMAIN log : log[v].chain \in Nat /\ log[v].chain <= scroll.id
      BY <3>1 DEF Writes, WritesInv
    <3> QED
      BY <1>3, <1>5, <1>7, <3>2
  <2>6. LastIs(log', x, y, scroll'.key, scroll'.id, lastStepWheelKey)
    BY <1>5, <2>3, <2>4, <2>5 DEF LastIs
  <2> QED
    BY <1>4, <2>2, <2>6, LastIsInv
<1>8. Chain(p) = 0 \/ Chain(p) = scroll.id + 1 \/ (Chain(p) = scroll.id /\ scroll.key = p)
  <2>1. CASE wheelStepKey = NoKey \/ scroll.shared # "no" \/ ~Alone
    BY <2>1 DEF Chain
  <2>2. CASE ~(wheelStepKey = NoKey \/ scroll.shared # "no" \/ ~Alone)
    <3>1. Chain(p) = IF scroll.key = p THEN scroll.id ELSE scroll.id + 1
      BY <2>2 DEF Chain
    <3> QED
      BY <3>1
  <2> QED
    BY <2>1, <2>2
<1> QED
  BY <1>3, <1>6, <1>7, <1>8

\* A poll that finds the sound where it was does not take the name of a scroll away.
LEMMA LastPoll ==
  ASSUME IInv, ControlInv, WritesInv, ScrollInv, LastInv, NEW job \in Jobs, Poll(job), m = Idle
  PROVE  LastInv'
<1>1. /\ UNCHANGED <<log, abActive, abUndo>> /\ (PollQuiet \/ PollEnds \/ PollMoves) /\ m.pc = "idle"
      /\ scroll.key \in Keys
  BY PollIs DEF IInv, TypesHold, FlagsTyped, Scrolls, Idle
<1>2. m.pc \in Steady
  BY <1>1 DEF Steady
<1>3. CASE PollQuiet \/ PollMoves
  <2>1. lastStepWheelKey' = lastStepWheelKey /\ scroll'.key = scroll.key /\ scroll'.id = scroll.id
    BY <1>3 DEF PollQuiet, PollMoves, request
  <2> QED
    BY <1>1, <1>2, <2>1, LastQuiet
<1>4. CASE PollEnds
  <2>1. PICK x, y : x = abUndo[abActive].undo /\ y = abUndo[abActive].redo
    OBVIOUS
  <2>2. LastIs(log, x, y, scroll.key, scroll.id, lastStepWheelKey)
    BY <1>2, <2>1, LastIsInv
  <2>3. lastStepWheelKey' = NoKey \/ lastStepWheelKey' = lastStepWheelKey
    BY <1>4 DEF PollEnds
  <2>4. scroll.key # NoKey /\ lastStepWheelKey = scroll.key => lastStepWheelKey' = scroll.key
    <3>1. SUFFICES ASSUME scroll.key # NoKey, lastStepWheelKey = scroll.key, pendingStepNamed
                   PROVE  pendingStepWheelKey = lastStepWheelKey
      BY <1>4 DEF PollEnds
    <3>2. KeyIs(scroll.key) /\ Unshared
      BY <3>1 DEF ScrollInv, Scrolling
    <3>3. scroll.key \in Params
      BY <1>1, <3>1 DEF Keys
    <3> QED
      BY <3>1, <3>2, <3>3 DEF Unshared
  <2>5. LastIs(log, x, y, scroll.key, scroll.id, lastStepWheelKey')
    BY <2>2, <2>3, <2>4 DEF LastIs
  <2>6. scroll'.key = scroll.key /\ scroll'.id = scroll.id
    BY <1>4 DEF PollEnds
  <2> QED
    BY <1>1, <2>1, <2>5, <2>6, LastIsInv
<1> QED
  BY <1>1, <1>3, <1>4

LEMMA LastNone ==
  ASSUME scroll'.key = NoKey, lastStepWheelKey' = NoKey
  PROVE  LastInv'
BY LastIsInv DEF LastIs

LEMMA LastHolds ==
  ASSUME IInv, ControlInv, WritesInv, ScrollInv, KeyInv, LastInv, UndoNext
  PROVE  LastInv'
<1>1. FlagsTyped /\ LogTyped /\ Longer(log, log') /\ SoundsTyped(Len(log))
  BY WritesGrow DEF IInv, TypesHold, Grown
<1>2. \A v \in DOMAIN log : log'[v].key = log[v].key
  BY <1>1 DEF Longer
<1>3. ASSUME Sharing, UNCHANGED <<m, abActive, abUndo, lastStepWheelKey>> PROVE LastInv'
  BY <1>2, <1>3, LastQuiet DEF Sharing
<1>4. CASE Host
  <2>1. UNCHANGED <<m, abActive, abUndo, lastStepWheelKey>>
    BY <1>4 DEF Host, Automate, parameterValueChanged, Restore, ab, request
  <2> QED
    BY <1>1, <1>3, <1>4, <2>1, HostShares
<1>5. ASSUME NEW p \in Params, Store(p) \/ StoreAnswered(p) PROVE LastInv'
  <2>1. CASE Store(p) /\ Alone
    BY <2>1, LastStore
  <2>2. CASE StoreAnswered(p) \/ (Store(p) /\ ~Alone)
    <3>1. UNCHANGED <<m, abActive, abUndo, lastStepWheelKey>>
      BY <2>2 DEF Store, StoreAnswered, ab, request
    <3> QED
      BY <1>1, <1>3, <2>2, <3>1, StoreShares
  <2> QED
    BY <1>5, <2>1, <2>2
<1>6. ASSUME NEW p \in Params, Close(p) \/ \E wheel \in BOOLEAN : Open(p, wheel) PROVE LastInv'
  <2>1. UNCHANGED <<m, abActive, abUndo, lastStepWheelKey, scroll, log>>
    BY <1>6 DEF Close, Open, ab, request, history
  <2> QED
    BY <2>1, LastQuiet
<1>7. CASE TimerTick \/ \E job \in {"undo", "redo", "switch", "load", "save"} : StateCommand(job)
  <2>1. PICK job \in Jobs : Poll(job) /\ m = Idle
    BY <1>7 DEF TimerTick, StateCommand, MayAct, Jobs
  <2> QED
    BY <2>1, LastPoll
<1>8. CASE PollFold \/ Sync \/ CommitPresetSwitchUndoStep
  BY <1>1, <1>8, FoldIs, Dropped, LastNone
<1>9. CASE PollCommit
  BY <1>9, LastCommit
<1>10. CASE Aside
  <2>1. /\ UNCHANGED <<scroll, lastStepWheelKey>>
        /\ m'.pc \in Steady => m.pc \in Steady /\ UNCHANGED <<log, abActive>>
    BY <1>10, AsideIs
  <2>2. m'.pc \in Steady => abUndo'[abActive] = abUndo[abActive]
    <3>1. CASE BeginUserTransaction \/ EndUserTransaction \/ PollCapture \/ abSwitchTo \/ Saved \/ Baseline \/ LoadPreset \/ Loaded
      BY <3>1 DEF BeginUserTransaction, EndUserTransaction, PollCapture, abSwitchTo, Saved, Baseline, LoadPreset, Loaded, ab
    <3>2. CASE undo \/ redo
      <4>1. m'.pc = "install" \/ abUndo' = abUndo
        BY <3>2, TakenOrDone
      <4> QED
        BY <4>1 DEF Steady
    <3>3. CASE ApplyUndoEntry \/ Adopt
      <4>1. m'.pc \in {"baseline", "adopted"}
        BY <3>3 DEF ApplyUndoEntry, Adopt
      <4> QED
        BY <4>1 DEF Steady
    <3>4. CASE abCopyToOther
      <4>1. abActive \in Slots /\ RoomInv /\ Len(log) \in Nat
        BY DEF IInv, TypesHold, FlagsTyped, LogTyped
      <4>2. PICK k \in Nat : k = Len(log)
        BY <4>1
      <4>3. PICK t \in Seq(StepsOf(k)), e \in StepsOf(k) : WholePushed(1 - abActive, t, e)
        BY <1>1, <3>4, <4>1, <4>2, CopyMoves
      <4>4. 1 - abActive # abActive
        BY <4>1 DEF Slots
      <4> QED
        BY <4>1, <4>3, <4>4 DEF WholePushed, Becomes
    <3> QED
      BY <1>10, <3>1, <3>2, <3>3, <3>4 DEF Aside
  <2> QED
    BY <2>1, <2>2, LastQuiet
<1> QED
  BY <1>4, <1>5, <1>6, <1>7, <1>8, <1>9, <1>10 DEF UndoNext, Controls, Message, Aside

-----------------------------------------------------------------------------
(* The steps are divided. *)

LEMMA ApartSwaps ==
  ASSUME NEW l, NEW A, NEW B, Apart(l, A, B)
  PROVE  Apart(l, B, A)
BY DEF Apart

LEMMA ApartNone ==
  ASSUME NEW l, NEW A
  PROVE  Apart(l, A, {}) /\ Apart(l, {}, A)
BY DEF Apart

\* What was written keeps apart when more is.
LEMMA ApartKept ==
  ASSUME NEW l, NEW A \in SUBSET DOMAIN log, NEW B \in SUBSET DOMAIN log, Longer(log, l), Apart(log, A, B)
  PROVE  Apart(l, A, B)
<1>1. ASSUME NEW v \in DOMAIN log, NEW w \in DOMAIN log, Differ(log, v, w) PROVE Differ(l, v, w)
  <2>1. l[v].action = log[v].action /\ l[w].action = log[w].action
    BY <1>1 DEF Longer
  <2>2. (l[v].chain = log[v].chain \/ l[v].chain = 0) /\ (l[w].chain = log[w].chain \/ l[w].chain = 0)
    BY <1>1 DEF Longer
  <2> QED
    BY <1>1, <2>1, <2>2 DEF Differ
<1> QED
  BY <1>1 DEF Apart

LEMMA DividedKept ==
  ASSUME NEW l, Longer(log, l), NEW x, NEW y, \A i \in DOMAIN x : x[i].made \subseteq DOMAIN log,
         \A i \in DOMAIN y : y[i].made \subseteq DOMAIN log, Divided(log, x, y)
  PROVE  Divided(l, x, y)
<1>1. Within(l, x) /\ Within(l, y)
  BY ApartKept DEF Divided, Within
<1>2. ASSUME NEW e \in Range(x), NEW f \in Range(y) PROVE Apart(l, e.made, f.made)
  <2>1. (\E i \in DOMAIN x : x[i] = e) /\ (\E j \in DOMAIN y : y[j] = f)
    BY RangeIs
  <2> QED
    BY <2>1, ApartKept DEF Divided, Across
<1> QED
  BY <1>1, <1>2 DEF Divided, Across

\* A step on top of others, from each of which it is apart.
LEMMA OnTopWithin ==
  ASSUME NEW l, NEW S, NEW s \in Seq(S), NEW t \in Seq(S), NEW n \in Nat, n <= Len(s), NEW e, OnTop(t, s, n, e), Within(l, s),
         \A i \in 1..n : Apart(l, s[i].made, e.made)
  PROVE  Within(l, t)
<1>1. PICK d \in {0, 1} : \A i \in 1..Len(t) - 1 : i + d \in 1..n /\ t[i] = s[i + d]
  BY DEF OnTop
<1>2. t[Len(t)] = e /\ Len(t) \in Nat /\ DOMAIN t = 1..Len(t) /\ DOMAIN s = 1..Len(s) /\ Len(s) \in Nat
  BY DEF OnTop
<1>3. ASSUME NEW i \in 1..Len(t) - 1 PROVE Apart(l, t[i].made, e.made) /\ Apart(l, e.made, t[i].made)
  BY <1>1, <1>3, ApartSwaps
<1>4. ASSUME NEW i \in 1..Len(t) - 1, NEW j \in 1..Len(t) - 1, i # j PROVE Apart(l, t[i].made, t[j].made)
  <2>3. i + d \in 1..n /\ j + d \in 1..n
    BY <1>1
  <2>0. i \in Int /\ j \in Int /\ d \in Int
    BY <1>2
  <2>4. \A a \in 1..n : a \in DOMAIN s
    BY <1>2
  <2>1. i + d \in DOMAIN s /\ j + d \in DOMAIN s /\ i + d # j + d
    BY <1>4, <2>0, <2>3, <2>4
  <2>2. PICK a \in DOMAIN s, b \in DOMAIN s : a # b /\ t[i] = s[a] /\ t[j] = s[b]
    BY <1>1, <1>4, <2>1
  <2> QED
    BY <2>2 DEF Within
<1>5. ASSUME NEW i \in DOMAIN t, NEW j \in DOMAIN t, i # j PROVE Apart(l, t[i].made, t[j].made)
  <2>1. i \in 1..Len(t) - 1 \/ i = Len(t)
    BY <1>2
  <2>2. j \in 1..Len(t) - 1 \/ j = Len(t)
    BY <1>2
  <2> QED
    BY <1>2, <1>3, <1>4, <1>5, <2>1, <2>2
<1> QED
  BY <1>5 DEF Within

\* A step taken off a stack is apart from all that is left of it.
LEMMA FrontWithin ==
  ASSUME NEW l, NEW S, NEW s \in Seq(S), s # <<>>, Within(l, s)
  PROVE  Within(l, Front(s)) /\ \A f \in Range(Front(s)) : Apart(l, s[Len(s)].made, f.made)
<1>1. Len(s) \in Nat /\ Len(s) > 0 /\ DOMAIN s = 1..Len(s)
  BY EmptySeq
<1>2. DOMAIN Front(s) = 1..Len(s) - 1 /\ \A i \in 1..Len(s) - 1 : Front(s)[i] = s[i]
  <2>1. \A i \in 1..Len(s) - 1 : s[i] \in S
    BY <1>1
  <2>2. /\ SubSeq(s, 1, Len(s) - 1) \in Seq(S)
        /\ Len(SubSeq(s, 1, Len(s) - 1)) = IF 1 <= Len(s) - 1 THEN Len(s) - 1 - 1 + 1 ELSE 0
        /\ \A i \in 1..Len(s) - 1 - 1 + 1 : SubSeq(s, 1, Len(s) - 1)[i] = s[1 + i - 1]
    BY <1>1, <2>1, SubSeqProperties
  <2>3. Len(Front(s)) = Len(s) - 1 /\ Front(s) \in Seq(S)
    BY <1>1, <2>2 DEF Front
  <2> QED
    BY <1>1, <2>2, <2>3 DEF Front
<1>3. Within(l, Front(s))
  BY <1>1, <1>2 DEF Within
<1>4. ASSUME NEW f \in Range(Front(s)) PROVE Apart(l, s[Len(s)].made, f.made)
  <2>1. PICK i \in 1..Len(s) - 1 : f = s[i]
    BY <1>2, <1>4, RangeIs
  <2>2. PICK n \in Nat : n = Len(s)
    BY <1>1
  <2>4. n > 0 /\ n \in Nat
    BY <1>1, <2>2
  <2>5. i \in 1..n - 1
    BY <2>1, <2>2
  <2>3. i \in 1..n /\ n \in 1..n /\ i # n
    BY <2>4, <2>5
  <2> QED
    BY <1>1, <2>1, <2>2, <2>3 DEF Within
<1> QED
  BY <1>3, <1>4

LEMMA AppendWithin ==
  ASSUME NEW l, NEW S, NEW s \in Seq(S), NEW e \in S, Within(l, s), \A f \in Range(s) : Apart(l, e.made, f.made)
  PROVE  Within(l, Append(s, e))
<1>1. PICK t \in Seq(S) : t = Append(s, e)
  BY AppendProperties
<1>2. Len(t) = Len(s) + 1 /\ Len(s) \in Nat /\ t[Len(s) + 1] = e /\ \A i \in 1..Len(s) : t[i] = s[i]
  BY <1>1, AppendProperties
<1>3. OnTop(t, s, Len(s), e)
  <2>1. \A i \in 1..Len(t) - 1 : i + 0 \in 1..Len(s) /\ t[i] = s[i + 0]
    BY <1>2
  <2>2. t # <<>> /\ t[Len(t)] = e
    BY <1>2
  <2> QED
    BY <2>1, <2>2 DEF OnTop
<1>4. \A i \in 1..Len(s) : Apart(l, s[i].made, e.made)
  <2>1. \A i \in 1..Len(s) : s[i] \in Range(s)
    BY RangeIs
  <2> QED
    BY <2>1, ApartSwaps
<1>5. PICK n \in Nat : n = Len(s)
  BY <1>2
<1>6. n <= Len(s) /\ OnTop(t, s, n, e) /\ \A i \in 1..n : Apart(l, s[i].made, e.made)
  BY <1>3, <1>4, <1>5
<1>7. Within(l, t)
  BY <1>6, OnTopWithin
<1> QED
  BY <1>1, <1>7

\* What a step of the system makes of one slot's stacks.
LEMMA SlotDivided ==
  ASSUME NEW a \in Slots, NEW x, NEW y, Becomes(a, x, y), log' = log, DividedInv, Divided(log, x, y)
  PROVE  \A s \in Slots : Divided(log', abUndo'[s].undo, abUndo'[s].redo)
<1>1. ASSUME NEW s \in Slots PROVE Divided(log', abUndo'[s].undo, abUndo'[s].redo)
  <2>1. CASE s = a
    BY <2>1 DEF Becomes
  <2>2. CASE s # a
    <3>1. abUndo'[s] = abUndo[s]
      BY <2>2 DEF Becomes
    <3> QED
      BY <3>1 DEF DividedInv
  <2> QED
    BY <2>1, <2>2
<1> QED
  BY <1>1

LEMMA NoneDivided == \A l, x : Within(l, x) => Divided(l, x, <<>>)
BY NoneHeld DEF Divided, Within, Across

LEMMA TakingDivides ==
  ASSUME NEW k \in Nat, SoundsTyped(k), FlagsTyped, NEW from \in {"undo", "redo"}, NEW e, NEW target,
         Taking(from, e, target), DividedInv, log' = log, abActive' = abActive
  PROVE  DividedInv'
<1>1. abActive \in Slots /\ m'.entry = e
  BY DEF FlagsTyped, Taking
<1>2. PICK x \in Seq(StepsOf(k)), y \in Seq(StepsOf(k)) : x = abUndo[abActive].undo /\ y = abUndo[abActive].redo
  BY <1>1, StacksAre
<1>3. Divided(log, x, y)
  BY <1>1, <1>2 DEF DividedInv
<1>4. ASSUME NEW u, NEW v, Becomes(abActive, u, v), Divided(log, u, v),
             \A f \in Range(u) \cup Range(v) : Apart(log, e.made, f.made)
      PROVE  DividedInv'
  <2>1. \A s \in Slots : Divided(log', abUndo'[s].undo, abUndo'[s].redo)
    BY <1>1, <1>4, SlotDivided
  <2>2. \A f \in HeldBy(abActive)' : Apart(log', m'.entry.made, f.made)
    BY <1>1, <1>4 DEF HeldBy, Becomes
  <2> QED
    BY <2>1, <2>2 DEF DividedInv
<1>5. CASE from = "undo"
  <2>1. x # <<>> /\ e = x[Len(x)] /\ e \in Range(x) /\ Becomes(abActive, Front(x), y)
    BY <1>2, <1>5, TakenMoves DEF Taking
  <2>2. Within(log, Front(x)) /\ \A f \in Range(Front(x)) : Apart(log, e.made, f.made) /\ f \in Range(x)
    BY <1>3, <2>1, FrontWithin, Popped DEF Divided
  <2>3. \A f \in Range(y) : Apart(log, e.made, f.made)
    BY <1>3, <2>1 DEF Divided, Across
  <2>4. Divided(log, Front(x), y)
    BY <1>3, <2>2 DEF Divided, Across
  <2> QED
    BY <1>4, <2>1, <2>2, <2>3, <2>4
<1>6. CASE from = "redo"
  <2>1. y # <<>> /\ e = y[Len(y)] /\ e \in Range(y) /\ Becomes(abActive, x, Front(y))
    BY <1>2, <1>6, TakenMoves DEF Taking
  <2>2. Within(log, Front(y)) /\ \A f \in Range(Front(y)) : Apart(log, e.made, f.made) /\ f \in Range(y)
    BY <1>3, <2>1, FrontWithin, Popped DEF Divided
  <2>3. \A f \in Range(x) : Apart(log, e.made, f.made)
    BY <1>3, <2>1, ApartSwaps DEF Divided, Across
  <2>4. Divided(log, x, Front(y))
    BY <1>3, <2>2 DEF Divided, Across
  <2> QED
    BY <1>4, <2>1, <2>2, <2>3, <2>4
<1> QED
  BY <1>5, <1>6

LEMMA ApplyingDivides ==
  ASSUME NEW k \in Nat, SoundsTyped(k), FlagsTyped, ApplyUndoEntry, DividedInv
  PROVE  DividedInv'
<1>1. abActive \in Slots /\ m.pc = "install" /\ m'.pc # "install" /\ log' = log
  BY DEF FlagsTyped, ApplyUndoEntry, history
<1>2. PICK x \in Seq(StepsOf(k)), y \in Seq(StepsOf(k)), e \in StepsOf(k) :
        x = abUndo[abActive].undo /\ y = abUndo[abActive].redo /\ e = m.entry
  BY <1>1, StacksAre, AppliedMoves
<1>3. Divided(log, x, y) /\ \A f \in Range(x) \cup Range(y) : Apart(log, e.made, f.made)
  BY <1>1, <1>2 DEF DividedInv, HeldBy
<1>4. \/ Becomes(abActive, x, Append(y, e))
      \/ Becomes(abActive, Append(x, e), y)
  BY <1>2, AppliedMoves
<1>5. Divided(log, x, Append(y, e))
  <2>1. Within(log, Append(y, e))
    BY <1>3, AppendWithin DEF Divided
  <2>2. \A f \in Range(Append(y, e)) : f \in Range(y) \/ f = e
    BY AppendRange
  <2> QED
    BY <1>3, <2>1, <2>2, ApartSwaps DEF Divided, Across
<1>6. Divided(log, Append(x, e), y)
  <2>1. Within(log, Append(x, e))
    BY <1>3, AppendWithin DEF Divided
  <2>2. \A f \in Range(Append(x, e)) : f \in Range(x) \/ f = e
    BY AppendRange
  <2> QED
    BY <1>3, <2>1, <2>2 DEF Divided, Across
<1>7. \A s \in Slots : Divided(log', abUndo'[s].undo, abUndo'[s].redo)
  BY <1>1, <1>4, <1>5, <1>6, SlotDivided
<1> QED
  BY <1>1, <1>7 DEF DividedInv

LEMMA WholeDivides ==
  ASSUME NEW k \in Nat, SoundsTyped(k), DividedInv, log' = log, m'.pc # "install", NEW a \in Slots,
         NEW t \in Seq(StepsOf(k)), NEW e \in StepsOf(k), WholePushed(a, t, e)
  PROVE  DividedInv'
<1>1. PICK x \in Seq(StepsOf(k)), n \in Nat : x = abUndo[a].undo /\ n = Len(x)
  BY StacksAre
<1>2. Within(log, x) /\ OnTop(t, x, n, e) /\ e.made = {}
  BY <1>1 DEF DividedInv, Divided, WholePushed
<1>3. \A i \in 1..n : Apart(log, x[i].made, e.made)
  BY <1>2, ApartNone
<1>4. n <= Len(x)
  BY <1>1
<1>5. Within(log, t)
  BY <1>2, <1>3, <1>4, OnTopWithin
<1>6. Divided(log, t, <<>>) /\ Becomes(a, t, <<>>)
  BY <1>5, NoneDivided DEF WholePushed
<1> QED
  BY <1>6, SlotDivided DEF DividedInv

LEMMA CommitDivides ==
  ASSUME IInv, ControlInv, WritesInv, ActionInv, ScrollInv, LastInv, DividedInv, NEW k \in Nat, k = Len(log),
         NEW e \in StepsOf(k), NEW t \in Seq(StepsOf(k)), Committed(e, t)
  PROVE  DividedInv'
<1>1. /\ PollCommit /\ log' = log /\ m'.pc # "install" /\ abActive \in Slots /\ FlagsTyped /\ SoundsTyped(k)
      /\ m.pc \in Steady
  <2>1. PollCommit
    BY DEF Committed
  <2>2. FlagsTyped /\ LogTyped /\ SoundsTyped(Len(log))
    BY DEF IInv, TypesHold
  <2>3. log' = log /\ m.pc = "captured"
    BY <2>1, CommitEnds
  <2>4. m.job \in Jobs
    BY <2>2, <2>3, PointsIs DEF SoundsTyped
  <2>5. m'.pc # "install"
    BY <2>1, <2>4 DEF PollCommit, After, Idle, Jobs
  <2> QED
    BY <2>1, <2>2, <2>3, <2>5 DEF Steady, FlagsTyped
<1>2. PICK x \in Seq(StepsOf(k)), n \in Nat : x = abUndo[abActive].undo /\ n = Len(x) /\ DOMAIN x = 1..n
  BY <1>1, StacksAre
<1>3. Within(log, x) /\ Becomes(abActive, t, <<>>)
  BY <1>1, <1>2, CommitMoves DEF DividedInv, Divided, Committed
<1>4. ASSUME NEW i \in DOMAIN x, i <= Below PROVE Apart(log, x[i].made, made)
  <2>1. x[i] \in InHistory
    BY <1>1, <1>2, OfStack
  <2>2. ASSUME NEW v \in x[i].made, NEW w \in made PROVE Differ(log, v, w) /\ Differ(log, w, v)
    <3>1. log[v].action # log[w].action \/ log[v].action = 0
      BY <2>1, <2>2 DEF ActionInv
    <3>2. log[w].chain # 0 => log[v].chain # log[w].chain
      <4>1. SUFFICES ASSUME log[w].chain # 0 PROVE log[v].chain # log[w].chain
        OBVIOUS
      <4>2. log[w].chain = scroll.id /\ scroll.key # NoKey
        BY <2>2, <4>1 DEF ScrollInv
      <4>3. log[v].chain # scroll.id
        BY <1>1, <1>2, <1>4, <2>2, <4>2, CommitFresh
      <4> QED
        BY <4>2, <4>3
    <3> QED
      BY <3>1, <3>2 DEF Differ
  <2> QED
    BY <2>2 DEF Apart
<1>5. Within(log, t)
  <2>1. CASE Extends(Foreign)
    <3>1. /\ x # <<>> /\ OnTop(t, x, n - 1, e) /\ e.made = x[n].made \cup made /\ Below = n - 1
      BY <1>2, <2>1 DEF Committed, Committing, Stretch, Below
    <3>2. n > 0
      BY <1>2, <3>1, EmptySeq
    <3>6. n - 1 \in Nat /\ n - 1 <= n /\ n \in 1..n
      BY <3>2
    <3>3. PICK j \in Nat : j = n - 1 /\ j <= Len(x) /\ n \in DOMAIN x
      BY <1>2, <3>6
    <3>4. ASSUME NEW i \in 1..j PROVE Apart(log, x[i].made, e.made)
      <4>1. i \in DOMAIN x /\ i # n /\ i <= Below
        BY <1>2, <3>1, <3>3, <3>4
      <4>2. Apart(log, x[i].made, made) /\ Apart(log, x[i].made, x[n].made)
        BY <1>3, <1>4, <3>3, <4>1 DEF Within
      <4> QED
        BY <3>1, <4>2 DEF Apart
    <3>5. OnTop(t, x, j, e)
      BY <3>1, <3>3
    <3> QED
      BY <1>3, <3>3, <3>4, <3>5, OnTopWithin
  <2>2. CASE ~Extends(Foreign)
    <3>1. OnTop(t, x, n, e) /\ e.made = made /\ Below = n
      BY <1>2, <2>2 DEF Committed, Committing, Bare, Below
    <3>2. \A i \in 1..n : Apart(log, x[i].made, e.made)
      BY <1>2, <1>4, <3>1
    <3>3. n <= Len(x)
      BY <1>2
    <3> QED
      BY <1>3, <3>1, <3>2, <3>3, OnTopWithin
  <2> QED
    BY <2>1, <2>2
<1>6. Divided(log, t, <<>>)
  BY <1>5, NoneDivided
<1> QED
  BY <1>1, <1>3, <1>6, SlotDivided DEF DividedInv

LEMMA DividedSame ==
  ASSUME IInv, WritesInv, DividedInv, Longer(log, log'), abUndo' = abUndo,
         m'.pc = "install" => m.pc = "install" /\ m' = m /\ abActive' = abActive
  PROVE  DividedInv'
<1>1. abActive \in Slots /\ SoundsTyped(Len(log)) /\ Len(log) \in Nat
  BY DEF IInv, TypesHold, FlagsTyped, LogTyped
<1>2. PICK k \in Nat : k = Len(log)
  BY <1>1
<1>3. ASSUME NEW s \in Slots PROVE Divided(log', abUndo'[s].undo, abUndo'[s].redo)
  <2>1. PICK x, y : x = abUndo[s].undo /\ y = abUndo[s].redo
    OBVIOUS
  <2>2. (\A i \in DOMAIN x : x[i].made \subseteq DOMAIN log) /\ \A f \in Range(y) : f.made \subseteq DOMAIN log
    BY <1>1, <1>2, <1>3, <2>1, OfStack
  <2>3. \A i \in DOMAIN y : y[i].made \subseteq DOMAIN log
    BY <2>2, RangeIs
  <2>4. Divided(log, x, y)
    BY <1>3, <2>1 DEF DividedInv
  <2>5. Divided(log', x, y)
    BY <2>2, <2>3, <2>4, DividedKept
  <2> QED
    BY <2>1, <2>5
<1>4. ASSUME m'.pc = "install", NEW f \in HeldBy(abActive)' PROVE Apart(log', m'.entry.made, f.made)
  <2>1. m.pc = "install" /\ m'.entry = m.entry /\ f \in HeldBy(abActive)
    BY <1>4 DEF HeldBy
  <2>2. Apart(log, m.entry.made, f.made)
    BY <2>1 DEF DividedInv
  <2>3. m.entry \in InHistory /\ f \in InHistory
    BY <1>1, <2>1, InHistoryIs DEF HeldBy
  <2>4. m.entry.made \in SUBSET DOMAIN log /\ f.made \in SUBSET DOMAIN log
    BY <2>3 DEF WritesInv
  <2>5. Apart(log', m.entry.made, f.made)
    BY <2>2, <2>4, ApartKept
  <2> QED
    BY <2>1, <2>5
<1> QED
  BY <1>3, <1>4 DEF DividedInv

LEMMA DividedHolds ==
  ASSUME IInv, ControlInv, WritesInv, ActionInv, ScrollInv, LastInv, DividedInv, UndoNext
  PROVE  DividedInv'
<1>1. FlagsTyped /\ LogTyped /\ LoadInv /\ Longer(log, log') /\ SoundsTyped(Len(log)) /\ abActive \in Slots
      /\ TypesHold /\ GestureInv /\ RoomInv
  BY WritesGrow DEF IInv, TypesHold, Grown, FlagsTyped
<1>2. PICK k \in Nat : k = Len(log)
  BY <1>1 DEF LogTyped
<1>3. SoundsTyped(k)
  BY <1>1, <1>2
<1>4. CASE undo \/ redo
  <2>1. PICK from \in {"undo", "redo"}, end \in {"before", "after"} : TakeEntry(from, end)
    BY <1>4 DEF undo, redo
  <2>2. log' = log /\ abActive' = abActive
    BY <2>1 DEF TakeEntry, history
  <2>3. CASE m' = Idle /\ abUndo' = abUndo
    <3>1. m'.pc # "install"
      BY <2>3 DEF Idle
    <3> QED
      BY <1>1, <2>3, <3>1, DividedSame
  <2>4. CASE \E e \in StepsOf(k), target \in SoundsOf(k) : Taking(from, e, target)
    BY <1>1, <1>3, <2>2, <2>4, TakingDivides
  <2> QED
    BY <1>1, <1>3, <2>1, <2>3, <2>4, TakenIs
<1>5. CASE ApplyUndoEntry
  BY <1>1, <1>3, <1>5, ApplyingDivides
<1>6. ASSUME ~undo, ~redo, ~ApplyUndoEntry, m'.pc # "install" PROVE DividedInv'
  <2>1. CASE abUndo' = abUndo
    BY <1>1, <1>6, <2>1, DividedSame
  <2>2. CASE PollCommit
    <3>1. CASE \E e \in StepsOf(k), t \in Seq(StepsOf(k)) : Committing(t, e)
      BY <1>2, <2>2, <3>1, CommitDivides DEF Committed
    <3> QED
      BY <1>1, <1>3, <2>1, <2>2, <3>1, CommitIs
  <2>3. CASE CommitPresetSwitchUndoStep
    <3>1. log' = log
      BY <2>3 DEF CommitPresetSwitchUndoStep
    <3>2. CASE Becomes(abActive, abUndo[abActive].undo, <<>>)
      <4>1. Within(log, abUndo[abActive].undo)
        BY <1>1 DEF DividedInv, Divided
      <4> QED
        BY <1>1, <1>6, <3>1, <3>2, <4>1, NoneDivided, SlotDivided DEF DividedInv
    <3>3. CASE \E t \in Seq(StepsOf(k)), e \in StepsOf(k) : WholePushed(abActive, t, e)
      BY <1>1, <1>3, <1>6, <3>1, <3>3, WholeDivides
    <3> QED
      BY <1>1, <1>3, <2>1, <2>3, <3>2, <3>3, PresetMoves
  <2>4. CASE abCopyToOther
    <3>1. log' = log
      BY <2>4 DEF abCopyToOther
    <3> QED
      BY <1>1, <1>3, <1>6, <2>4, <3>1, CopyMoves, WholeDivides
  <2>5. CASE Adopt
    <3>1. \A s \in Slots : abUndo'[s].undo = <<>> /\ abUndo'[s].redo = <<>>
      BY <2>5 DEF Adopt
    <3>2. \A l : Within(l, <<>>)
      BY DEF Within
    <3> QED
      BY <1>6, <3>1, <3>2, NoneDivided DEF DividedInv
  <2> QED
    BY <1>6, <2>1, <2>2, <2>3, <2>4, <2>5, HistorySame
<1>7. CASE ~undo /\ ~redo /\ ~ApplyUndoEntry /\ m'.pc = "install"
  <2>1. m.pc = "install" /\ m' = m /\ abActive' = abActive /\ abUndo' = abUndo
    BY <1>1, <1>7, InHand
  <2> QED
    BY <1>1, <2>1, DividedSame
<1> QED
  BY <1>4, <1>5, <1>6, <1>7

-----------------------------------------------------------------------------
(* The theorem. *)

LEMMA StepInit == ASSUME UndoInit PROVE StepInv
<1>1. /\ made = {} /\ log = <<>> /\ DOMAIN log = {} /\ m.pc = "idle" /\ ~pendingStepNamed /\ pendingStepWheelKey = NoKey
      /\ openGestures = 0 /\ ~(openGestures > 0) /\ ~foreignSinceEdge /\ "edge" \in marks /\ wheelStepKey = NoKey /\ ~userTransaction
      /\ scroll.key = NoKey /\ scroll.shared = "no" /\ lastStepWheelKey = NoKey
  BY DEF UndoInit, Idle
<1>2. \A s \in Slots : abUndo[s].undo = <<>> /\ abUndo[s].redo = <<>>
  BY DEF UndoInit
<1>3. \A e : e \notin InHistory
  BY <1>1, <1>2, NoneHeld, InHistoryIs
<1>4. ControlInv /\ WritesInv /\ ActionInv /\ PollsInv
  BY <1>1, <1>3 DEF ControlInv, WritesInv, ActionInv, PollsInv
<1>5. ScrollInv /\ KeyInv
  BY <1>1 DEF ScrollInv, Unshared, KeyInv, KeyIs, ByHand
<1>6. LastInv
  BY <1>1 DEF LastInv
<1>7. DividedInv
  <2>1. \A l : Within(l, <<>>)
    BY DEF Within
  <2> QED
    BY <1>1, <1>2, <2>1, NoneDivided DEF DividedInv
<1> QED
  BY <1>4, <1>5, <1>6, <1>7 DEF StepInv

LEMMA StepNext == ASSUME IInv, StepInv, UndoNext PROVE StepInv'
<1>1. ControlInv /\ WritesInv /\ ActionInv /\ ScrollInv /\ KeyInv /\ LastInv /\ DividedInv /\ PollsInv
  BY DEF StepInv
<1> QED
  BY <1>1, ControlHolds, WritesHold, ActionHolds, ScrollHolds, KeyHolds, LastHolds, DividedHolds, PollsHold DEF StepInv

LEMMA StepStutters == ASSUME StepInv, UNCHANGED undoVars PROVE StepInv'
<1>1. UNCHANGED <<live, preset, marks, automating, restored, held, wheelStepKey, userTransaction, openGestures,
                  foreignSinceEdge, owned, episode, pendingGestureCommit, pendingStepWheelKey, pendingStepNamed,
                  lastStepWheelKey, committed, committedSig, committedNeedsResync, abActive, abSlot, abUndo, m,
                  log, made, scroll, opened, acted>>
  BY DEF undoVars, sound, ui, edges, batch, request, base, ab, history
<1>2. \A e : e \in InHistory' <=> e \in InHistory
  BY <1>1, InHistoryIs, InHistoryNext
<1>3. ControlInv' /\ WritesInv' /\ ActionInv' /\ PollsInv'
  BY <1>1, <1>2 DEF StepInv, ControlInv, WritesInv, ActionInv, PollsInv
<1>4. ScrollInv' /\ KeyInv' /\ LastInv' /\ DividedInv'
  BY <1>1 DEF StepInv, ScrollInv, Scrolling, Unshared, KeyInv, Tainted, KeyIs, ByHand, LastInv, DividedInv, HeldBy
<1> QED
  BY <1>3, <1>4 DEF StepInv

\* The steps of the history and the batch in the making stay what the user's actions
\* and scrolls make of them.
THEOREM StepInvariant == UndoSpec => [](IInv /\ StepInv)
<1>1. UndoInit => StepInv
  BY StepInit
<1>2. IInv /\ StepInv /\ [UndoNext]_undoVars => StepInv'
  BY StepNext, StepStutters
<1> QED
  BY <1>1, <1>2, HistoryInvariant, PTL DEF UndoSpec

\* Two positions of a slot's history are apart, within one of its stacks or across.
LEMMA StackedApart ==
  ASSUME NEW S, NEW x \in Seq(S), NEW y \in Seq(S), NEW l, Divided(l, x, y),
         NEW i \in DOMAIN (x \o y), NEW j \in DOMAIN (x \o y), i # j
  PROVE  Apart(l, (x \o y)[i].made, (x \o y)[j].made)
<1>1. PICK t : t = x \o y
  OBVIOUS
<1>2. PICK n \in Nat, k \in Nat : n = Len(x) /\ k = Len(y) /\ DOMAIN x = 1..n /\ DOMAIN y = 1..k
  OBVIOUS
<1>3. DOMAIN t = 1..n + k /\ \A a \in 1..n + k : t[a] = IF a <= n THEN x[a] ELSE y[a - n]
  BY <1>1, <1>2, ConcatProperties, LenProperties
<1>4. ASSUME NEW a \in 1..n + k PROVE (a \in 1..n /\ t[a] = x[a]) \/ (a > n /\ a - n \in 1..k /\ t[a] = y[a - n])
  BY <1>3, <1>4
<1>5. i \in 1..n + k /\ j \in 1..n + k
  BY <1>1, <1>3
<1>6. (\A a \in 1..n : x[a] \in Range(x)) /\ \A a \in 1..k : y[a] \in Range(y)
  BY <1>2, RangeIs
<1>7. CASE i \in 1..n /\ t[i] = x[i] /\ j \in 1..n /\ t[j] = x[j]
  BY <1>1, <1>2, <1>7 DEF Divided, Within
<1>8. CASE i \in 1..n /\ t[i] = x[i] /\ j - n \in 1..k /\ t[j] = y[j - n]
  BY <1>1, <1>6, <1>8 DEF Divided, Across
<1>9. CASE i - n \in 1..k /\ t[i] = y[i - n] /\ j \in 1..n /\ t[j] = x[j]
  BY <1>1, <1>6, <1>9, ApartSwaps DEF Divided, Across
<1>10. CASE i - n \in 1..k /\ t[i] = y[i - n] /\ j - n \in 1..k /\ t[j] = y[j - n]
  <2>1. PICK a \in 1..k, b \in 1..k : a = i - n /\ b = j - n
    BY <1>10
  <2>2. a # b
    BY <1>5, <2>1
  <2> QED
    BY <1>1, <1>2, <1>10, <2>1, <2>2 DEF Divided, Within
<1> QED
  BY <1>4, <1>5, <1>7, <1>8, <1>9, <1>10

\* One action of the user's is one step: the stores of a transaction, and the notches of
\* an uninterrupted scroll that shared no poll with anything else, are never found in
\* two; and several polls made one step only of one control's notches (the names that
\* parameterGestureChanged() gives and takes away as a gesture closes, the condition under
\* which pollUndoCoalesceAdopted() extends the last step, and the bracket that
\* beginUserTransaction() and endUserTransaction() hold against the poll).
THEOREM StepsAlwaysActions == UndoSpec => []StepsAreActions
<1>1. ASSUME IInv, StepInv PROVE StepsAreActions
  <2>1. DividedInv /\ PollsInv /\ SoundsTyped(Len(log)) /\ Len(log) \in Nat
    BY <1>1 DEF IInv, StepInv, TypesHold, LogTyped
  <2>2. PICK k \in Nat : k = Len(log)
    BY <2>1
  <2>3. ASSUME NEW s \in Slots, NEW i \in DOMAIN Steps(s), NEW j \in DOMAIN Steps(s), i # j
        PROVE  Apart(log, Steps(s)[i].made, Steps(s)[j].made)
    <3>1. PICK x \in Seq(StepsOf(k)), y \in Seq(StepsOf(k)) : x = abUndo[s].undo /\ y = abUndo[s].redo
      BY <2>1, <2>2, StacksAre
    <3>2. Divided(log, x, y) /\ Steps(s) = x \o y
      BY <2>1, <3>1 DEF DividedInv, Steps
    <3> QED
      BY <2>3, <3>2, StackedApart
  <2>4. Undivided("action") /\ Undivided("chain")
    BY <2>3 DEF Undivided, Apart, Differ
  <2>5. ASSUME NEW e \in AllSteps, e.polls > 1 PROVE \E key \in Params : \A v \in e.made : log[v].key = key
    <3>1. e \in InHistory
      BY <2>1, <2>2, StoredAre
    <3> QED
      BY <2>1, <2>5, <3>1 DEF PollsInv, OneKey
  <2> QED
    BY <2>4, <2>5 DEF StepsAreActions
<1> QED
  BY <1>1, StepInvariant, PTL
=============================================================================
