------------------------ MODULE StateCommandsProofs ------------------------
(***************************************************************************)
(* Proofs about StateCommands for every number of clicks, restores, saves, *)
(* edits, moves and pumps: however the calls of the message thread nest,   *)
(* and whatever the host and audio threads do between their steps, every   *)
(* command is in exactly one place, those that wait are in the order they  *)
(* were given, none begins inside another's writes, and a burst of edits   *)
(* writes over one session.                                                *)
(*                                                                         *)
(* The argument is about frames, not places: an open call is one frame of  *)
(* the stack, and what one has to do with those it interrupts is said of   *)
(* every pair of frames, inner before outer. A push adds pairs with the    *)
(* new frame only, and a return takes pairs away, so the cases of a step   *)
(* are those of the one frame that it changes.                             *)
(***************************************************************************)
EXTENDS StateCommands, FiniteSetTheorems, TLAPS

Members(s) == {s[i] : i \in DOMAIN s}

\* What is in a sequence before what, and directly before what.
Pairs(s) ==
  {p \in Members(s) \X Members(s) : \E i, j \in DOMAIN s : i < j /\ p = <<s[i], s[j]>>}
Neighbours(s) ==
  {p \in Members(s) \X Members(s) : \E i \in DOMAIN s : i + 1 \in DOMAIN s /\ p = <<s[i], s[i + 1]>>}

LEMMA Among ==
  ASSUME NEW s, NEW f, NEW g
  PROVE  /\ <<f, g>> \in Pairs(s) <=> \E i, j \in DOMAIN s : i < j /\ s[i] = f /\ s[j] = g
         /\ <<f, g>> \in Neighbours(s)
              <=> \E i \in DOMAIN s : i + 1 \in DOMAIN s /\ s[i] = f /\ s[i + 1] = g
BY DEF Pairs, Neighbours, Members

LEMMA Concat ==
  ASSUME NEW S, NEW s \in Seq(S), NEW t \in Seq(S)
  PROVE  /\ s \o t \in Seq(S)
         /\ \A f : f \in Members(s \o t) <=> f \in Members(s) \/ f \in Members(t)
         /\ \A f, g : <<f, g>> \in Pairs(s \o t) <=>
                        \/ <<f, g>> \in Pairs(s) \/ <<f, g>> \in Pairs(t)
                        \/ f \in Members(s) /\ g \in Members(t)
<1>0. s \o t \in Seq(S)
  OBVIOUS
<1>1. /\ Len(s \o t) = Len(s) + Len(t) /\ DOMAIN (s \o t) = 1..Len(s) + Len(t)
      /\ DOMAIN s = 1..Len(s) /\ DOMAIN t = 1..Len(t) /\ {Len(s), Len(t)} \subseteq Nat
      /\ \A i \in 1..Len(s) : (s \o t)[i] = s[i]
      /\ \A i \in 1..Len(t) : (s \o t)[i + Len(s)] = t[i]
      /\ \A i \in Len(s) + 1..Len(s) + Len(t) : (s \o t)[i] = t[i - Len(s)]
  OBVIOUS
<1>2. \A i \in 1..Len(t) : i + Len(s) \in 1..Len(s) + Len(t)
  BY <1>1
<1>3. \A f : f \in Members(s \o t) <=> f \in Members(s) \/ f \in Members(t)
  <2>1. ASSUME NEW i \in DOMAIN (s \o t) PROVE (s \o t)[i] \in Members(s) \cup Members(t)
    BY <1>1, <2>1 DEF Members
  <2>2. ASSUME NEW i \in DOMAIN s PROVE s[i] \in Members(s \o t)
    BY <1>1, <2>2 DEF Members
  <2>3. ASSUME NEW i \in DOMAIN t PROVE t[i] \in Members(s \o t)
    BY <1>1, <1>2, <2>3 DEF Members
  <2>4. \A f : f \in Members(s \o t) => f \in Members(s) \cup Members(t)
    BY <2>1, Zenon DEF Members
  <2> QED
    BY <2>2, <2>3, <2>4 DEF Members
<1>4. ASSUME NEW f, NEW g, <<f, g>> \in Pairs(s \o t)
      PROVE  \/ <<f, g>> \in Pairs(s) \/ <<f, g>> \in Pairs(t)
             \/ f \in Members(s) /\ g \in Members(t)
  <2>0. PICK i, j \in DOMAIN (s \o t) : i < j /\ (s \o t)[i] = f /\ (s \o t)[j] = g
    <3>1. \A u : <<f, g>> \in Pairs(u) => \E i, j \in DOMAIN u : i < j /\ u[i] = f /\ u[j] = g
      BY Among
    <3> QED
      BY <1>4, <3>1, Zenon
  <2>1. /\ i \in 1..Len(s) + Len(t) /\ j \in 1..Len(s) + Len(t)
        /\ i < j /\ (s \o t)[i] = f /\ (s \o t)[j] = g
    BY <1>1, <2>0
  <2>2. CASE j <= Len(s)
    <3>1. i \in DOMAIN s /\ j \in DOMAIN s /\ s[i] = f /\ s[j] = g
      BY <1>1, <2>1, <2>2
    <3> QED
      BY <2>1, <3>1, Among
  <2>3. CASE i > Len(s)
    <3>1. i - Len(s) \in DOMAIN t /\ j - Len(s) \in DOMAIN t /\ i - Len(s) < j - Len(s)
          /\ t[i - Len(s)] = f /\ t[j - Len(s)] = g
      BY <1>1, <2>1, <2>3
    <3> QED
      BY <3>1, Among
  <2>4. CASE i <= Len(s) /\ j > Len(s)
    <3>1. i \in DOMAIN s /\ j - Len(s) \in DOMAIN t /\ s[i] = f /\ t[j - Len(s)] = g
      BY <1>1, <2>1, <2>4
    <3> QED
      BY <3>1 DEF Members
  <2> QED
    BY <1>1, <2>1, <2>2, <2>3, <2>4
<1>5. ASSUME NEW f, NEW g, <<f, g>> \in Pairs(s) PROVE <<f, g>> \in Pairs(s \o t)
  <2>1. PICK i, j \in 1..Len(s) : i < j /\ s[i] = f /\ s[j] = g
    BY <1>1, <1>5, Among
  <2>2. i \in DOMAIN (s \o t) /\ j \in DOMAIN (s \o t) /\ (s \o t)[i] = f /\ (s \o t)[j] = g
    BY <1>1, <2>1
  <2> QED
    BY <2>1, <2>2, Among
<1>6. ASSUME NEW f, NEW g, <<f, g>> \in Pairs(t) PROVE <<f, g>> \in Pairs(s \o t)
  <2>1. PICK i, j \in 1..Len(t) : i < j /\ t[i] = f /\ t[j] = g
    BY <1>1, <1>6, Among
  <2>2. i + Len(s) \in DOMAIN (s \o t) /\ j + Len(s) \in DOMAIN (s \o t)
        /\ i + Len(s) < j + Len(s) /\ (s \o t)[i + Len(s)] = f /\ (s \o t)[j + Len(s)] = g
    BY <1>1, <1>2, <2>1
  <2> QED
    BY <2>2, Among
<1>7. ASSUME NEW f \in Members(s), NEW g \in Members(t) PROVE <<f, g>> \in Pairs(s \o t)
  <2>1. PICK i \in 1..Len(s), j \in 1..Len(t) : s[i] = f /\ t[j] = g
    BY <1>1, <1>7 DEF Members
  <2>2. i \in DOMAIN (s \o t) /\ j + Len(s) \in DOMAIN (s \o t) /\ i < j + Len(s)
        /\ (s \o t)[i] = f /\ (s \o t)[j + Len(s)] = g
    BY <1>1, <1>2, <2>1
  <2> QED
    BY <2>2, Among
<1> QED
  BY <1>0, <1>3, <1>4, <1>5, <1>6, <1>7

LEMMA Single ==
  ASSUME NEW S, NEW x \in S
  PROVE  <<x>> \in Seq(S) /\ Members(<<x>>) = {x} /\ Pairs(<<x>>) = {} /\ Neighbours(<<x>>) = {}
BY DEF Members, Pairs, Neighbours

LEMMA Empty ==
  /\ Members(<<>>) = {} /\ Pairs(<<>>) = {} /\ Neighbours(<<>>) = {}
  /\ \A S : <<>> \in Seq(S)
BY DEF Members, Pairs, Neighbours

\* One more in front: a call.
LEMMA Pushing ==
  ASSUME NEW S, NEW x \in S, NEW s \in Seq(S)
  PROVE  /\ <<x>> \o s \in Seq(S) /\ <<x>> \o s # <<>>
         /\ Head(<<x>> \o s) = x /\ Tail(<<x>> \o s) = s
         /\ \A f : f \in Members(<<x>> \o s) <=> f = x \/ f \in Members(s)
         /\ \A f, g : <<f, g>> \in Pairs(<<x>> \o s)
                        <=> <<f, g>> \in Pairs(s) \/ (f = x /\ g \in Members(s))
         /\ \A f, g : <<f, g>> \in Neighbours(<<x>> \o s)
                        <=> <<f, g>> \in Neighbours(s) \/ (f = x /\ s # <<>> /\ g = Head(s))
<1>1. /\ \A f : f \in Members(<<x>> \o s) <=> f = x \/ f \in Members(s)
      /\ \A f, g : <<f, g>> \in Pairs(<<x>> \o s)
                     <=> <<f, g>> \in Pairs(s) \/ (f = x /\ g \in Members(s))
  <2>1. <<x>> \in Seq(S) /\ Members(<<x>>) = {x} /\ Pairs(<<x>>) = {}
    BY Single
  <2> QED
    BY <2>1, Concat
<1>2. /\ Len(s) \in Nat /\ DOMAIN s = 1..Len(s) /\ DOMAIN (<<x>> \o s) = 1..1 + Len(s)
      /\ (<<x>> \o s)[1] = x /\ \A i \in 1..Len(s) : (<<x>> \o s)[i + 1] = s[i]
      /\ s # <<>> => Head(s) = s[1] /\ 1 \in 1..Len(s)
      /\ s = <<>> => Len(s) = 0
  OBVIOUS
<1>3. <<x>> \o s \in Seq(S) /\ <<x>> \o s # <<>> /\ Head(<<x>> \o s) = x /\ Tail(<<x>> \o s) = s
  OBVIOUS
<1>4. ASSUME NEW f, NEW g, <<f, g>> \in Neighbours(<<x>> \o s)
      PROVE  <<f, g>> \in Neighbours(s) \/ (f = x /\ s # <<>> /\ g = Head(s))
  <2>0. PICK i \in DOMAIN (<<x>> \o s) :
          i + 1 \in DOMAIN (<<x>> \o s) /\ (<<x>> \o s)[i] = f /\ (<<x>> \o s)[i + 1] = g
    <3>1. \A u : <<f, g>> \in Neighbours(u)
                   => \E i \in DOMAIN u : i + 1 \in DOMAIN u /\ u[i] = f /\ u[i + 1] = g
      BY Among
    <3> QED
      BY <1>4, <3>1, Zenon
  <2>1. /\ i \in 1..1 + Len(s) /\ i + 1 \in 1..1 + Len(s)
        /\ (<<x>> \o s)[i] = f /\ (<<x>> \o s)[i + 1] = g
    BY <1>2, <2>0
  <2>2. CASE i = 1
    BY <1>2, <2>1, <2>2
  <2>3. CASE i > 1
    <3>1. i - 1 \in DOMAIN s /\ (i - 1) + 1 \in DOMAIN s /\ s[i - 1] = f /\ s[(i - 1) + 1] = g
      BY <1>2, <2>1, <2>3
    <3> QED
      BY <3>1, Among
  <2> QED
    BY <2>1, <2>2, <2>3
<1>5. ASSUME NEW f, NEW g, <<f, g>> \in Neighbours(s) PROVE <<f, g>> \in Neighbours(<<x>> \o s)
  <2>1. PICK i \in 1..Len(s) : i + 1 \in 1..Len(s) /\ s[i] = f /\ s[i + 1] = g
    BY <1>2, <1>5, Among
  <2>2. i + 1 \in DOMAIN (<<x>> \o s) /\ (i + 1) + 1 \in DOMAIN (<<x>> \o s)
        /\ (<<x>> \o s)[i + 1] = f /\ (<<x>> \o s)[(i + 1) + 1] = g
    BY <1>2, <2>1
  <2> QED
    BY <2>2, Among
<1>6. ASSUME s # <<>> PROVE <<x, Head(s)>> \in Neighbours(<<x>> \o s)
  <2>1. 1 \in DOMAIN (<<x>> \o s) /\ 1 + 1 \in DOMAIN (<<x>> \o s)
        /\ (<<x>> \o s)[1] = x /\ (<<x>> \o s)[1 + 1] = Head(s)
    BY <1>2, <1>6
  <2> QED
    BY <2>1, Among
<1> QED
  BY <1>1, <1>3, <1>4, <1>5, <1>6

\* One less: a return.
LEMMA Popping ==
  ASSUME NEW S, NEW s \in Seq(S), s # <<>>
  PROVE  /\ Head(s) \in S /\ Tail(s) \in Seq(S) /\ s = <<Head(s)>> \o Tail(s)
         /\ \A f : f \in Members(s) <=> f = Head(s) \/ f \in Members(Tail(s))
         /\ \A f, g : <<f, g>> \in Pairs(s)
                        <=> <<f, g>> \in Pairs(Tail(s)) \/ (f = Head(s) /\ g \in Members(Tail(s)))
         /\ \A f, g : <<f, g>> \in Neighbours(s)
                        <=> \/ <<f, g>> \in Neighbours(Tail(s))
                            \/ f = Head(s) /\ Tail(s) # <<>> /\ g = Head(Tail(s))
<1>1. Head(s) \in S /\ Tail(s) \in Seq(S)
  OBVIOUS
<1>2. s = <<Head(s)>> \o Tail(s)
  OBVIOUS
<1>3. ASSUME NEW h \in S, NEW t \in Seq(S), s = <<h>> \o t
      PROVE  /\ \A f : f \in Members(s) <=> f = h \/ f \in Members(t)
             /\ \A f, g : <<f, g>> \in Pairs(s) <=> <<f, g>> \in Pairs(t) \/ (f = h /\ g \in Members(t))
             /\ \A f, g : <<f, g>> \in Neighbours(s)
                            <=> <<f, g>> \in Neighbours(t) \/ (f = h /\ t # <<>> /\ g = Head(t))
  BY <1>3, Pushing
<1> QED
  BY <1>1, <1>2, <1>3

-----------------------------------------------------------------------------
(* The invariant, over the frames of the stack and their order.             *)

Frames ==
  [do : {"adopt", "command", "flush", "knob", "burst", "tick", "editor", "latency"},
   at : {"cell", "dispatch", "tail", "again", "gate", "drained", "try", "begin", "apply", "close",
         "exit", "loop", "next", "after", "flush", "latency", "poll", "deliver", "callout"},
   cmd : 0..MaxCommands, seen : 0..MaxRestores]

Placed(f) ==
  /\ f.do = "adopt"   => f.at \in {"cell", "dispatch", "tail", "again"}
  /\ f.do = "command" => f.at \in {"gate", "drained", "try", "begin", "apply", "dispatch",
                                   "close", "exit"}
  /\ f.do = "flush"   => f.at \in {"loop", "try", "next", "after"}
  /\ f.do = "knob"    => f.at = "dispatch"
  /\ f.do = "burst"   => f.at \in {"dispatch", "close"}
  /\ f.do = "tick"    => f.at \in {"flush", "latency"}
  /\ f.do = "editor"  => f.at = "poll"
  /\ f.do = "latency" => f.at \in {"deliver", "callout"}

\* A command that may still be refused.
InGate(f) == f.do = "command" /\ f.at \in {"gate", "drained", "try"}

\* What waits, in whichever queue.
Waiting == Members(deferredCommands) \cup Members(queued) \cup Members(spawned) \cup Members(produced)

\* The command that a flush has in hand.
Hand(s, f) ==
  \E w \in Members(s) : w.do = "flush" /\ w.at = "after" /\ <<f, w>> \in Neighbours(s)

EmptyBatch == flushState = <<<<>>, <<>>, <<>>, FALSE>>

DataTyped ==
  /\ kind \in Seq(AllKinds \cup {"done"}) /\ Len(kind) <= MaxCommands
  /\ ran \subseteq Commands /\ interrupting \subseteq Commands
  /\ edits \in 0..MaxEdits /\ moves \in 0..MaxMoves /\ pumps \in 0..MaxPumps
  /\ saves \in 0..MaxSaves
  /\ {deferredCommands, queued, spawned, produced} \subseteq Seq(Commands)
  /\ hpc \in {"idle", "install", "writing", "put", "saving"} /\ apc \in {"idle", "request"}
  /\ {announced, pendingRestore, adoptedGeneration} \subseteq 0..MaxRestores
  /\ {restoredLive, latencyUpdateRequest, stale, deferredSinkRefused} \subseteq BOOLEAN

StackTyped(s) == s \in Seq(Frames) /\ \A f \in Members(s) : Placed(f)

\* What a call that is open and one it interrupts have to do with one another.
OnTop(f, g) ==
  /\ f.do = "command" /\ f.at # "gate" => g.at # "dispatch"
  /\ f.do = "latency" => ~Applying(g) /\ ~Admitted(g)
  /\ f.do = "flush" => g.do # "flush" /\ g.at # "dispatch"
  /\ f.do = "adopt" => ~Transacting(g)
  /\ f.do = "command" /\ g.do = "command" => f.cmd # g.cmd
  /\ InGate(g) => g.at = "drained"
  /\ g.do = "flush" => g.at \in {"try", "after"}
StackInv(s) == \A f, g \in Frames : <<f, g>> \in Pairs(s) => OnTop(f, g)

\* ... and a call with the one it was made from.
Called(f, g) ==
  /\ InGate(g) => f.do = "adopt"
  /\ g.do = "flush" /\ g.at = "after" => f.do = "command"
CallInv(s) == \A f, g \in Frames : <<f, g>> \in Neighbours(s) => Called(f, g)

\* How far a flush has come: what it may have taken over.
Reached(w) ==
  /\ w.at \in {"loop", "try"} => EmptyBatch
  /\ w.at \in {"next", "after"} => deferredCommands = <<>>
  /\ w.at = "next" => produced = <<>> /\ ~deferredSinkRefused
FlushInv(s) ==
  /\ (\A w \in Members(s) : w.do # "flush") => EmptyBatch
  /\ \A w \in Members(s) : w.do = "flush" => Reached(w)

\* Each command that has not taken effect is somewhere, and nowhere twice.
HeldOnce(f) ==
  /\ f.cmd \in Commands /\ f.cmd \notin Waiting
  /\ f.at \in {"gate", "drained", "try", "begin", "apply"} => f.cmd \notin ran
PlaceInv(s) ==
  /\ \A c \in Commands \ ran :
       c \in Waiting \/ \E f \in Members(s) : f.do = "command" /\ f.cmd = c
  /\ \A f \in Members(s) : f.do = "command" => HeldOnce(f)

\* Two commands that wait, in their order.
InOrder(a, b) == {a, b} \cap interrupting = {} => a < b
Fine(a, b)    == a # b /\ InOrder(a, b)

QueuesInv ==
  /\ Waiting \cap ran = {}
  /\ \A s \in {deferredCommands, queued, spawned, produced} : \A a, b \in Commands :
       <<a, b>> \in Pairs(s) => Fine(a, b)
  /\ \A a \in Members(queued), b \in Members(spawned) : Fine(a, b)
  /\ \A a \in Members(queued) \cup Members(spawned), b \in Members(produced) :
       IF deferredSinkRefused THEN Fine(b, a) ELSE Fine(a, b)

\* A command in the gate is younger than all that wait, but for the one in hand,
\* which is older, and what was put off while that one drained interrupts it.
Youngest(c) == \A a \in Waiting : InOrder(a, c)
Oldest(c)   == /\ \A a \in Members(queued) \cup Members(spawned) : InOrder(c, a)
               /\ Members(produced) \subseteq interrupting
GateInv(s) ==
  /\ \A f \in Members(s) : InGate(f) => IF Hand(s, f) THEN Oldest(f.cmd) ELSE Youngest(f.cmd)
  /\ \A f, g \in Frames : <<f, g>> \in Pairs(s) /\ InGate(f) /\ InGate(g)
       => IF Hand(s, g) THEN f.cmd \in interrupting ELSE InOrder(f.cmd, g.cmd)

\* Inside a flush a command given in turn is put off behind the one in hand,
\* which made progress, and not taken for its refusal.
FreshInv(s) ==
  \A f, w \in Frames :
    /\ <<f, w>> \in Pairs(s) /\ InGate(f) /\ ~Hand(s, f) /\ f.cmd \notin interrupting
    /\ w.do = "flush" /\ w.at = "after"
    => /\ ~deferredSinkRefused
       /\ \E g \in Members(s) : Admitted(g) /\ <<f, g>> \in Pairs(s) /\ <<g, w>> \in Pairs(s)

StackHolds(s) ==
  /\ StackTyped(s) /\ StackInv(s) /\ CallInv(s) /\ FlushInv(s) /\ PlaceInv(s) /\ GateInv(s)
  /\ FreshInv(s)

LockInv ==
  HostHolds => \A f \in Members(stack) : ~Admitted(f) /\ ~(f.do = "adopt" /\ f.at = "dispatch")

\* A command whose body has begun to work has taken effect.
DoneInv ==
  \A f \in Members(stack) :
    f.do = "command" /\ f.at \in {"dispatch", "close", "exit"} => f.cmd \in ran

LatencyInv ==
  stale => \/ latencyUpdateRequest \/ apc = "request"
           \/ \E f \in Members(stack) : f.do = "latency" /\ f.at = "deliver"

IInv == DataTyped /\ StackHolds(stack) /\ QueuesInv /\ LockInv /\ DoneInv
        /\ LatencyInv

-----------------------------------------------------------------------------
(* A call returns, goes on, or makes another.                               *)

LEMMA Within ==
  ASSUME NEW S, NEW s \in Seq(S)
  PROVE  /\ \A f \in Members(s) : f \in S
         /\ \A f, g : <<f, g>> \in Pairs(s) => f \in Members(s) /\ g \in Members(s)
         /\ \A f, g : <<f, g>> \in Neighbours(s) => <<f, g>> \in Pairs(s)
<1>1. \A i \in DOMAIN s : s[i] \in S /\ i \in Int
  OBVIOUS
<1>2. \A f \in Members(s) : f \in S
  BY <1>1 DEF Members
<1>3. \A f, g : <<f, g>> \in Pairs(s) => f \in Members(s) /\ g \in Members(s)
  BY DEF Pairs
<1>4. ASSUME NEW f, NEW g, <<f, g>> \in Neighbours(s) PROVE <<f, g>> \in Pairs(s)
  <2>1. PICK i \in DOMAIN s : i + 1 \in DOMAIN s /\ s[i] = f /\ s[i + 1] = g
    BY <1>4, Among
  <2>2. i < i + 1
    BY <1>1, <2>1
  <2> QED
    BY <2>1, <2>2, Among
<1> QED
  BY <1>2, <1>3, <1>4

LEMMA ReturnHolds ==
  ASSUME NEW s, StackHolds(s), s # <<>>,
         Head(s).do = "command" => Head(s).cmd \in ran,
         Head(s).do = "flush" => EmptyBatch
  PROVE  StackHolds(Tail(s))
<1> DEFINE h == Head(s)
           t == Tail(s)
<1>1. /\ s \in Seq(Frames) /\ h \in Frames /\ t \in Seq(Frames)
      /\ \A f : f \in Members(s) <=> f = h \/ f \in Members(t)
      /\ \A f, g : <<f, g>> \in Pairs(s) <=> <<f, g>> \in Pairs(t) \/ (f = h /\ g \in Members(t))
      /\ \A f, g : <<f, g>> \in Neighbours(s)
                     <=> <<f, g>> \in Neighbours(t) \/ (f = h /\ t # <<>> /\ g = Head(t))
  BY Popping DEF StackHolds, StackTyped
<1>2. /\ \A f \in Members(s) : f \in Frames
      /\ \A f, g : <<f, g>> \in Pairs(t) => f \in Members(t) /\ g \in Members(t)
      /\ \A f, g : <<f, g>> \in Neighbours(s) => <<f, g>> \in Pairs(s)
      /\ \A f, g : <<f, g>> \in Neighbours(t) => <<f, g>> \in Pairs(t)
  BY <1>1, Within
<1> HIDE DEF h, t
<1>3. StackTyped(t) /\ StackInv(t) /\ CallInv(t)
  BY <1>1 DEF StackHolds, StackTyped, StackInv, CallInv
<1>4. FlushInv(t)
  BY <1>1 DEF StackHolds, FlushInv, h
<1>5. PlaceInv(t)
  BY <1>1 DEF StackHolds, PlaceInv, h
<1>6. \A f \in Members(t) : f.do = "command" => f # h
  BY <1>1, <1>2 DEF StackHolds, StackInv, OnTop
<1>7. \A f \in Members(t) : f.do = "command" => (Hand(s, f) <=> Hand(t, f))
  BY <1>1, <1>2, <1>6 DEF Hand
<1>8. GateInv(t)
  BY <1>1, <1>2, <1>7 DEF StackHolds, GateInv, InGate
<1>9. FreshInv(t)
  <2> SUFFICES ASSUME NEW f \in Frames, NEW w \in Frames, <<f, w>> \in Pairs(t), InGate(f),
                      ~Hand(t, f), f.cmd \notin interrupting, w.do = "flush", w.at = "after"
               PROVE  /\ ~deferredSinkRefused
                      /\ \E g \in Members(t) :
                           Admitted(g) /\ <<f, g>> \in Pairs(t) /\ <<g, w>> \in Pairs(t)
    BY DEF FreshInv
  <2>1. f \in Members(t) /\ w \in Members(t) /\ <<f, w>> \in Pairs(s) /\ ~Hand(s, f)
    BY <1>1, <1>2, <1>7 DEF InGate
  <2>2. /\ ~deferredSinkRefused
        /\ \E g \in Members(s) : Admitted(g) /\ <<f, g>> \in Pairs(s) /\ <<g, w>> \in Pairs(s)
    BY <2>1 DEF StackHolds, FreshInv
  <2>3. PICK g \in Members(s) : Admitted(g) /\ <<f, g>> \in Pairs(s) /\ <<g, w>> \in Pairs(s)
    BY <2>2
  <2>4. <<f, g>> \in Pairs(t) /\ g \in Members(t)
    BY <1>1, <1>2, <1>6, <2>1, <2>3 DEF InGate
  <2>5. <<g, w>> \in Pairs(t)
    BY <1>1, <1>6, <2>3, <2>4 DEF Admitted
  <2> QED
    BY <2>2, <2>3, <2>4, <2>5
<1> QED
  BY <1>3, <1>4, <1>5, <1>8, <1>9 DEF StackHolds, t

\* The call on top goes on.
GoesOn(b, a) ==
  /\ a.do = b.do /\ a.cmd = b.cmd
  /\ InGate(a) => InGate(b)
  /\ a.do = "command" /\ a.at \in {"begin", "apply"} => b.at \in {"gate", "drained", "try", "begin", "apply"}
  /\ a.do = "flush" => Reached(a)

LEMMA TurnHolds ==
  ASSUME NEW s, StackHolds(s), s # <<>>, NEW a \in Frames, Placed(a), GoesOn(Head(s), a),
         \A g \in Members(Tail(s)) : OnTop(a, g)
  PROVE  StackHolds(<<a>> \o Tail(s))
<1> DEFINE h == Head(s)
           t == Tail(s)
<1>1. /\ s \in Seq(Frames) /\ h \in Frames /\ t \in Seq(Frames)
      /\ \A f : f \in Members(s) <=> f = h \/ f \in Members(t)
      /\ \A f, g : <<f, g>> \in Pairs(s) <=> <<f, g>> \in Pairs(t) \/ (f = h /\ g \in Members(t))
      /\ \A f, g : <<f, g>> \in Neighbours(s)
                     <=> <<f, g>> \in Neighbours(t) \/ (f = h /\ t # <<>> /\ g = Head(t))
  BY Popping DEF StackHolds, StackTyped
<1>2. /\ \A f \in Members(s) : f \in Frames
      /\ \A f, g : <<f, g>> \in Pairs(t) => f \in Members(t) /\ g \in Members(t)
      /\ \A f, g : <<f, g>> \in Neighbours(s) => <<f, g>> \in Pairs(s)
      /\ \A f, g : <<f, g>> \in Neighbours(t) => <<f, g>> \in Pairs(t)
  BY <1>1, Within
<1>4. GoesOn(h, a) /\ (\A g \in Members(t) : OnTop(a, g))
  OBVIOUS
<1> HIDE DEF h, t
<1> DEFINE u == <<a>> \o t
<1>3. /\ u \in Seq(Frames)
      /\ \A f : f \in Members(u) <=> f = a \/ f \in Members(t)
      /\ \A f, g : <<f, g>> \in Pairs(u) <=> <<f, g>> \in Pairs(t) \/ (f = a /\ g \in Members(t))
      /\ \A f, g : <<f, g>> \in Neighbours(u)
                     <=> <<f, g>> \in Neighbours(t) \/ (f = a /\ t # <<>> /\ g = Head(t))
  BY <1>1, Pushing
<1> HIDE DEF u
<1>5. StackTyped(u) /\ StackInv(u)
  BY <1>1, <1>2, <1>3, <1>4 DEF StackHolds, StackTyped, StackInv
<1>6. CallInv(u)
  <2>1. ASSUME NEW g \in Frames, t # <<>>, g = Head(t) PROVE Called(a, g)
    <3>1. Called(h, g)
      BY <1>1, <2>1 DEF StackHolds, CallInv
    <3> QED
      BY <1>4, <3>1 DEF Called, GoesOn
  <2>2. ASSUME NEW f \in Frames, NEW g \in Frames, <<f, g>> \in Neighbours(t) PROVE Called(f, g)
    BY <1>1, <2>2 DEF StackHolds, CallInv
  <2> QED
    BY <1>3, <2>1, <2>2 DEF CallInv
<1>7. FlushInv(u)
  BY <1>1, <1>3, <1>4 DEF StackHolds, FlushInv, GoesOn
<1>8. PlaceInv(u)
  <2>1. h.do = "command" => HeldOnce(h)
    BY <1>1 DEF StackHolds, PlaceInv
  <2>2. a.do = "command" => HeldOnce(a)
    BY <1>4, <2>1 DEF HeldOnce, GoesOn, InGate
  <2>3. \A f \in Members(u) : f.do = "command" => HeldOnce(f)
    BY <1>1, <1>3, <2>2 DEF StackHolds, PlaceInv
  <2>4. a.do = h.do /\ a.cmd = h.cmd
    BY <1>4 DEF GoesOn
  <2> QED
    BY <1>1, <1>3, <2>3, <2>4 DEF StackHolds, PlaceInv
<1>9. \A f \in Members(t) : f.do = "command" => f # h /\ f # a
  BY <1>1, <1>2, <1>4 DEF StackHolds, StackInv, OnTop
<1>10. /\ \A f \in Members(t) : f.do = "command" => (Hand(s, f) <=> Hand(u, f))
       /\ h.do = "command" => (Hand(s, h) <=> Hand(u, a))
  <2>1. ASSUME NEW f \in Members(t), f.do = "command" PROVE Hand(s, f) <=> Hand(u, f)
    <3>1. f # h /\ f # a
      BY <1>9, <2>1
    <3>2. \A w : <<f, w>> \in Neighbours(s) <=> <<f, w>> \in Neighbours(u)
      BY <1>1, <1>3, <3>1
    <3>3. \A w : <<f, w>> \in Neighbours(t) => w \in Members(t)
      BY <1>2
    <3>4. \A w : w \in Members(t) => w \in Members(s) /\ w \in Members(u)
      BY <1>1, <1>3
    <3>5. \A w : <<f, w>> \in Neighbours(s) => <<f, w>> \in Neighbours(t)
      BY <1>1, <3>1
    <3> QED
      BY <3>2, <3>3, <3>4, <3>5 DEF Hand
  <2>2. ASSUME h.do = "command" PROVE Hand(s, h) <=> Hand(u, a)
    <3>1. h \notin Members(t) /\ a \notin Members(t)
      <4>1. a.do = "command"
        BY <1>4, <2>2 DEF GoesOn
      <4> QED
        BY <1>9, <2>2, <4>1
    <3>2. \A w : <<h, w>> \in Neighbours(s) <=> t # <<>> /\ w = Head(t)
      BY <1>1, <1>2, <3>1
    <3>3. \A w : <<a, w>> \in Neighbours(u) <=> t # <<>> /\ w = Head(t)
      BY <1>2, <1>3, <3>1
    <3>4. \A w : w.do = "flush" => (w \in Members(s) <=> w \in Members(u))
      <4>1. h.do # "flush" /\ a.do # "flush"
        BY <1>4, <2>2 DEF GoesOn
      <4> QED
        BY <1>1, <1>3, <4>1
    <3> QED
      BY <3>2, <3>3, <3>4 DEF Hand
  <2> QED
    BY <2>1, <2>2
<1>11. GateInv(u)
  <2>1. \A f \in Members(u) : InGate(f) => IF Hand(u, f) THEN Oldest(f.cmd) ELSE Youngest(f.cmd)
    BY <1>1, <1>3, <1>4, <1>10 DEF StackHolds, GateInv, InGate, GoesOn
  <2>2. \A f, g \in Frames : <<f, g>> \in Pairs(u) /\ InGate(f) /\ InGate(g)
         => IF Hand(u, g) THEN f.cmd \in interrupting ELSE InOrder(f.cmd, g.cmd)
    BY <1>1, <1>2, <1>3, <1>4, <1>10 DEF StackHolds, GateInv, GoesOn, InGate
  <2> QED
    BY <2>1, <2>2 DEF GateInv
<1>12. FreshInv(u)
  <2> SUFFICES ASSUME NEW f \in Frames, NEW w \in Frames, <<f, w>> \in Pairs(u), InGate(f),
                      ~Hand(u, f), f.cmd \notin interrupting, w.do = "flush", w.at = "after"
               PROVE  /\ ~deferredSinkRefused
                      /\ \E g \in Members(u) :
                           Admitted(g) /\ <<f, g>> \in Pairs(u) /\ <<g, w>> \in Pairs(u)
    BY DEF FreshInv
  <2>1. w \in Members(t)
    BY <1>2, <1>3
  <2>2. PICK e \in Members(s) : /\ InGate(e) /\ <<e, w>> \in Pairs(s) /\ ~Hand(s, e) /\ e.cmd = f.cmd
                                /\ IF f = a THEN e = h ELSE e = f
    BY <1>1, <1>2, <1>3, <1>4, <1>9, <1>10, <2>1 DEF InGate, GoesOn
  <2>3. /\ ~deferredSinkRefused
        /\ \E g \in Members(s) : Admitted(g) /\ <<e, g>> \in Pairs(s) /\ <<g, w>> \in Pairs(s)
    BY <1>2, <2>2 DEF StackHolds, FreshInv
  <2>4. PICK g \in Members(s) : Admitted(g) /\ <<e, g>> \in Pairs(s) /\ <<g, w>> \in Pairs(s)
    BY <2>3
  <2>5. g \in Members(t)
    BY <1>1, <1>2, <2>4
  <2>6. <<g, w>> \in Pairs(t)
    BY <1>1, <1>9, <2>4, <2>5 DEF Admitted
  <2>7. <<f, g>> \in Pairs(u)
    <3>1. CASE f = a
      BY <1>3, <2>5, <3>1
    <3>2. CASE f # a
      <4>1. f \in Members(t) /\ f.do = "command" /\ e = f
        BY <1>2, <1>3, <2>2, <3>2 DEF InGate
      <4> QED
        BY <1>1, <1>3, <1>9, <2>4, <4>1
    <3> QED
      BY <3>1, <3>2
  <2> QED
    BY <1>3, <2>3, <2>4, <2>5, <2>6, <2>7
<1> QED
  BY <1>5, <1>6, <1>7, <1>8, <1>11, <1>12 DEF StackHolds, u, t

\* A call that is no command is made.
LEMMA CallHolds ==
  ASSUME NEW s, StackHolds(s), NEW a \in Frames, Placed(a), a.do # "command",
         \A g \in Members(s) : OnTop(a, g),
         s # <<>> => Called(a, Head(s)),
         a.do = "flush" => Reached(a)
  PROVE  StackHolds(<<a>> \o s)
<1> DEFINE u == <<a>> \o s
<1>1. /\ s \in Seq(Frames) /\ u \in Seq(Frames)
      /\ \A f : f \in Members(u) <=> f = a \/ f \in Members(s)
      /\ \A f, g : <<f, g>> \in Pairs(u) <=> <<f, g>> \in Pairs(s) \/ (f = a /\ g \in Members(s))
      /\ \A f, g : <<f, g>> \in Neighbours(u)
                     <=> <<f, g>> \in Neighbours(s) \/ (f = a /\ s # <<>> /\ g = Head(s))
  BY Pushing DEF StackHolds, StackTyped
<1>2. /\ \A f \in Members(s) : f \in Frames
      /\ \A f, g : <<f, g>> \in Pairs(s) => f \in Members(s) /\ g \in Members(s)
      /\ \A f, g : <<f, g>> \in Neighbours(s) => <<f, g>> \in Pairs(s)
  BY <1>1, Within
<1> HIDE DEF u
<1>3. StackTyped(u) /\ StackInv(u) /\ CallInv(u)
  BY <1>1, <1>2 DEF StackHolds, StackTyped, StackInv, CallInv
<1>4. FlushInv(u) /\ PlaceInv(u)
  BY <1>1 DEF StackHolds, FlushInv, PlaceInv
<1>5. \A f \in Members(s) : f.do = "command" => (Hand(s, f) <=> Hand(u, f))
  BY <1>1, <1>2 DEF Hand
<1>6. GateInv(u)
  BY <1>1, <1>2, <1>5 DEF StackHolds, GateInv, InGate
<1>7. FreshInv(u)
  BY <1>1, <1>2, <1>5 DEF StackHolds, FreshInv, InGate
<1> QED
  BY <1>3, <1>4, <1>6, <1>7 DEF StackHolds, u

-----------------------------------------------------------------------------
(* What the model reads off the stack, of its frames.                       *)

LEMMA Depth ==
  ASSUME StackTyped(stack), NEW i \in Nat
  PROVE  /\ DepthFrom(i) \in Nat
         /\ DepthFrom(i) = 0 <=> \A j \in Calls : j >= i => ~Admitted(stack[j])
         /\ i >= 1 /\ DepthFrom(1) = DepthFrom(i) => \A j \in Calls : j < i => ~Admitted(stack[j])
         /\ i >= 1 /\ (\A j \in Calls : j < i => ~Admitted(stack[j])) => DepthFrom(1) = DepthFrom(i)
<1> DEFINE D(k) == {j \in Calls : j >= k /\ Admitted(stack[j])}
<1>1. Calls = 1..Len(stack) /\ Len(stack) \in Nat
  BY DEF StackTyped, Calls
<1>2. IsFiniteSet(1..Len(stack))
  BY <1>1, FS_Interval
<1>3. \A k \in Nat : D(k) \subseteq 1..Len(stack)
  BY <1>1
<1>4. \A k \in Nat : IsFiniteSet(D(k)) /\ Cardinality(D(k)) \in Nat
  BY <1>2, <1>3, FS_Subset, FS_CardinalityType
<1>5. Cardinality(D(i)) = 0 <=> D(i) = {}
  BY <1>4, FS_EmptySet
<1>6. i >= 1 => D(i) \subseteq D(1)
  BY <1>1
<1>7. i >= 1 /\ Cardinality(D(1)) = Cardinality(D(i)) => D(i) = D(1)
  BY <1>4, <1>6, FS_Subset
<1>8. \A k : DepthFrom(k) = Cardinality(D(k))
  BY DEF DepthFrom
<1>9. i >= 1 /\ D(i) = D(1) => \A j \in Calls : j < i => ~Admitted(stack[j])
  BY <1>1
<1>10. i >= 1 /\ (\A j \in Calls : j < i => ~Admitted(stack[j])) => D(1) = D(i)
  BY <1>1
<1>11. D(i) = {} <=> \A j \in Calls : j >= i => ~Admitted(stack[j])
  OBVIOUS
<1> HIDE DEF D
<1> QED
  BY <1>4, <1>5, <1>7, <1>8, <1>9, <1>10, <1>11

LEMMA Reading ==
  ASSUME StackTyped(stack)
  PROVE  /\ UserTransaction <=> \E f \in Members(stack) : Transacting(f)
         /\ InsideDispatch <=> \E f \in Members(stack) : f.at = "dispatch"
         /\ RunningDeferred <=> \E f \in Members(stack) : f.do = "flush"
         /\ MessageHolds <=>
              \E f \in Members(stack) : Admitted(f) \/ (f.do = "adopt" /\ f.at = "dispatch")
         /\ StateCommandDepth \in Nat
         /\ StateCommandDepth = 0 <=> \A f \in Members(stack) : ~Admitted(f)
         /\ LatencyDeliveryIsSafe(1) <=>
              pendingRestore = 0 /\ \A f \in Members(stack) : ~Applying(f) /\ ~Admitted(f)
         /\ (\E i \in Calls : stack[i].do = "flush" /\ stack[i].at = "after")
              <=> \E f \in Members(stack) : f.do = "flush" /\ f.at = "after"
         /\ (\E i \in Calls : stack[i].do = "adopt") <=> \E f \in Members(stack) : f.do = "adopt"
<1>1. Calls = 1..Len(stack) /\ Len(stack) \in Nat /\ Members(stack) = {stack[i] : i \in Calls}
  BY DEF StackTyped, Calls, Members
<1>2. /\ StateCommandDepth \in Nat
      /\ StateCommandDepth = 0 <=> \A f \in Members(stack) : ~Admitted(f)
  <2>1. /\ StateCommandDepth \in Nat
        /\ StateCommandDepth = 0 <=> \A j \in Calls : j >= 1 => ~Admitted(stack[j])
    BY Depth DEF StateCommandDepth
  <2>2. \A j \in Calls : j >= 1
    BY <1>1
  <2> QED
    BY <1>1, <2>1, <2>2
<1>3. /\ UserTransaction <=> \E f \in Members(stack) : Transacting(f)
      /\ InsideDispatch <=> \E f \in Members(stack) : f.at = "dispatch"
      /\ RunningDeferred <=> \E f \in Members(stack) : f.do = "flush"
      /\ MessageHolds <=>
           \E f \in Members(stack) : Admitted(f) \/ (f.do = "adopt" /\ f.at = "dispatch")
  BY <1>1 DEF UserTransaction, InsideDispatch, RunningDeferred, MessageHolds
<1>4. LatencyDeliveryIsSafe(1) <=>
        pendingRestore = 0 /\ \A f \in Members(stack) : ~Applying(f) /\ ~Admitted(f)
  BY <1>1 DEF LatencyDeliveryIsSafe
<1>5. /\ (\E i \in Calls : stack[i].do = "flush" /\ stack[i].at = "after")
              <=> \E f \in Members(stack) : f.do = "flush" /\ f.at = "after"
      /\ (\E i \in Calls : stack[i].do = "adopt") <=> \E f \in Members(stack) : f.do = "adopt"
  BY <1>1
<1> QED
  BY <1>2, <1>3, <1>4, <1>5

\* With the innermost call about to return.
LEMMA ReadingBelow ==
  ASSUME StackTyped(stack), stack # <<>>
  PROVE  LatencyDeliveryIsSafe(2) <=>
           pendingRestore = 0 /\ \A f \in Members(Tail(stack)) : ~Applying(f) /\ ~Admitted(f)
<1>1. Calls = 1..Len(stack) /\ Len(stack) \in Nat \ {0} /\ DOMAIN Tail(stack) = 1..Len(stack) - 1
      /\ \A i \in 1..Len(stack) - 1 : Tail(stack)[i] = stack[i + 1]
  BY DEF StackTyped, Calls
<1>2. ASSUME NEW i \in Calls, i >= 2 PROVE stack[i] \in Members(Tail(stack))
  <2>1. i - 1 \in DOMAIN Tail(stack) /\ Tail(stack)[i - 1] = stack[i]
    BY <1>1, <1>2
  <2> QED
    BY <2>1 DEF Members
<1>3. ASSUME NEW f \in Members(Tail(stack)) PROVE \E i \in Calls : i >= 2 /\ stack[i] = f
  <2>1. PICK i \in DOMAIN Tail(stack) : Tail(stack)[i] = f
    BY DEF Members
  <2>2. i + 1 \in Calls /\ i + 1 >= 2 /\ stack[i + 1] = f
    BY <1>1, <2>1
  <2> QED
    BY <2>2
<1> QED
  BY <1>2, <1>3 DEF LatencyDeliveryIsSafe

LEMMA ReadingProgress ==
  ASSUME StackTyped(stack)
  PROVE  NoProgress <=>
           /\ \A f \in Members(stack) : ~Transacting(f)
           /\ \A f, w \in Frames : <<f, w>> \in Pairs(stack) /\ w.do = "flush" => ~Admitted(f)
<1>1. Calls = 1..Len(stack) /\ Len(stack) \in Nat /\ stack \in Seq(Frames)
      /\ \A i \in Calls : stack[i] \in Frames
  BY DEF StackTyped, Calls
<1>2. \A i \in Calls : i \in Nat /\ i >= 1
  BY <1>1
<1>3. \A i \in Calls : StateCommandDepth = DepthFrom(i)
                         <=> \A j \in Calls : j < i => ~Admitted(stack[j])
  BY <1>2, Depth DEF StateCommandDepth
<1>4. /\ \A f, w : <<f, w>> \in Pairs(stack) => \E j, i \in Calls : j < i /\ stack[j] = f /\ stack[i] = w
      /\ \A j, i \in Calls : j < i => <<stack[j], stack[i]>> \in Pairs(stack)
  <2>1. ASSUME NEW f, NEW w, <<f, w>> \in Pairs(stack)
        PROVE  \E j, i \in DOMAIN stack : j < i /\ stack[j] = f /\ stack[i] = w
    <3>1. \A u : <<f, w>> \in Pairs(u) => \E i, j \in DOMAIN u : i < j /\ u[i] = f /\ u[j] = w
      BY Among
    <3> QED
      BY <2>1, <3>1, Zenon
  <2>2. ASSUME NEW j \in DOMAIN stack, NEW i \in DOMAIN stack, j < i
        PROVE  <<stack[j], stack[i]>> \in Pairs(stack)
    BY <2>2, Among
  <2> QED
    BY <2>1, <2>2, Zenon DEF Calls
<1>5. (\A i \in Calls : stack[i].do = "flush" => \A j \in Calls : j < i => ~Admitted(stack[j]))
        <=> \A f, w \in Frames : <<f, w>> \in Pairs(stack) /\ w.do = "flush" => ~Admitted(f)
  <2>1. ASSUME NEW f \in Frames, NEW w \in Frames, <<f, w>> \in Pairs(stack), w.do = "flush",
               \A i \in Calls : stack[i].do = "flush"
                                => \A j \in Calls : j < i => ~Admitted(stack[j])
        PROVE  ~Admitted(f)
    <3>1. PICK j, i \in Calls : j < i /\ stack[j] = f /\ stack[i] = w
      BY <1>4, <2>1
    <3> QED
      BY <2>1, <3>1
  <2>2. ASSUME NEW i \in Calls, NEW j \in Calls, stack[i].do = "flush", j < i,
               \A f, w \in Frames : <<f, w>> \in Pairs(stack) /\ w.do = "flush" => ~Admitted(f)
        PROVE  ~Admitted(stack[j])
    <3>1. <<stack[j], stack[i]>> \in Pairs(stack)
      BY <1>4, <2>2, Zenon
    <3> QED
      BY <1>1, <2>2, <3>1
  <2>3. (\A i \in Calls : stack[i].do = "flush" => \A j \in Calls : j < i => ~Admitted(stack[j]))
          => \A f, w \in Frames : <<f, w>> \in Pairs(stack) /\ w.do = "flush" => ~Admitted(f)
    BY <2>1, Zenon
  <2>4. (\A f, w \in Frames : <<f, w>> \in Pairs(stack) /\ w.do = "flush" => ~Admitted(f))
          => \A i \in Calls : stack[i].do = "flush" => \A j \in Calls : j < i => ~Admitted(stack[j])
    BY <2>2, Zenon
  <2> QED
    BY <2>3, <2>4, Zenon
<1> QED
  BY <1>3, <1>5, Reading DEF NoProgress

\* The innermost call and those below.
LEMMA OnStack ==
  ASSUME IInv, stack # <<>>
  PROVE  /\ Top \in Frames /\ Tail(stack) \in Seq(Frames) /\ Placed(Top)
         /\ \A f : f \in Members(stack) <=> f = Top \/ f \in Members(Tail(stack))
         /\ \A g \in Members(Tail(stack)) : g \in Frames /\ OnTop(Top, g)
         /\ Top.do = "command" => HeldOnce(Top)
         /\ Top.do = "flush" => Reached(Top)
         /\ Tail(stack) # <<>> => Head(Tail(stack)) \in Members(stack) /\ Called(Top, Head(Tail(stack)))
<1>1. stack \in Seq(Frames) /\ StackHolds(stack)
  BY DEF IInv, StackHolds, StackTyped
<1>2. /\ Top \in Frames /\ Tail(stack) \in Seq(Frames)
      /\ \A f : f \in Members(stack) <=> f = Top \/ f \in Members(Tail(stack))
      /\ \A f, g : <<f, g>> \in Pairs(stack)
                     <=> <<f, g>> \in Pairs(Tail(stack)) \/ (f = Top /\ g \in Members(Tail(stack)))
  BY <1>1, Popping DEF Top
<1>3. \A g \in Members(Tail(stack)) : g \in Frames
  BY <1>2, Within
<1>4. Tail(stack) # <<>> => Head(Tail(stack)) \in Members(stack) /\ Called(Top, Head(Tail(stack)))
  <2>1. Tail(stack) # <<>> => Head(Tail(stack)) \in Frames /\ <<Top, Head(Tail(stack))>> \in Neighbours(stack)
    BY <1>1, <1>2, Popping DEF Top
  <2>2. \A f, g : <<f, g>> \in Neighbours(stack) => <<f, g>> \in Pairs(stack)
    BY <1>1, Within
  <2>3. \A f, g : <<f, g>> \in Pairs(stack) => g \in Members(stack)
    BY <1>1, Within
  <2> QED
    BY <1>1, <1>2, <2>1, <2>2, <2>3 DEF StackHolds, CallInv
<1> QED
  BY <1>1, <1>2, <1>3, <1>4 DEF StackHolds, StackTyped, StackInv, PlaceInv, FlushInv

\* A step that leaves the commands and the queues alone.
LEMMA Quiet ==
  ASSUME IInv, StackHolds(stack'), UNCHANGED <<given, queues>>
  PROVE  StackHolds(stack)' /\ QueuesInv'
<1> USE DEF given, queues, flushState
<1>1. \A f, g : OnTop(f, g) <=> OnTop(f, g)'
  BY DEF OnTop, Applying, Admitted, Transacting, InGate
<1>2. EmptyBatch' <=> EmptyBatch
  BY DEF EmptyBatch
<1>3. /\ Waiting' = Waiting /\ Commands' = Commands
      /\ \A f, g : Called(f, g) <=> Called(f, g)'
      /\ \A f : (Reached(f) <=> Reached(f)') /\ (Placed(f) <=> Placed(f)')
      /\ \A a, b : InOrder(a, b) <=> InOrder(a, b)'
  BY <1>2 DEF Waiting, Commands, Called, Reached, Placed, InOrder, InGate
<1>4. \A f : HeldOnce(f) <=> HeldOnce(f)'
  BY <1>3 DEF HeldOnce
<1>5. QueuesInv'
  BY <1>3 DEF IInv, QueuesInv, Fine
<1>6. \A f : (Youngest(f) <=> Youngest(f)') /\ (Oldest(f) <=> Oldest(f)')
  BY <1>3 DEF Youngest, Oldest
<1>7. \A f : (Hand(stack', f) <=> Hand(stack, f)') /\ (InGate(f) <=> InGate(f)') /\ (Admitted(f) <=> Admitted(f)')
  BY DEF Hand, InGate, Admitted
<1>8. StackTyped(stack)' /\ StackInv(stack)' /\ CallInv(stack)'
  BY <1>1, <1>3 DEF StackHolds, StackTyped, StackInv, CallInv, Frames
<1>9. FlushInv(stack)' /\ PlaceInv(stack)'
  BY <1>2, <1>3, <1>4 DEF StackHolds, FlushInv, PlaceInv
<1>10. GateInv(stack)'
  BY <1>3, <1>6, <1>7 DEF StackHolds, GateInv, Frames
<1>11. FreshInv(stack)'
  BY <1>7 DEF StackHolds, FreshInv, Frames
<1> QED
  BY <1>5, <1>8, <1>9, <1>10, <1>11 DEF StackHolds

-----------------------------------------------------------------------------
(* What the innermost call may do next, whichever it is.                    *)

Turned(at) == [Top EXCEPT !.at = at]

\* What keeps the host from the lock.

LEMMA BoundsTyped ==
  /\ MaxCommands \in Nat /\ MaxRestores \in Nat /\ MaxSaves \in Nat
  /\ MaxEdits \in Nat /\ MaxMoves \in Nat /\ MaxPumps \in Nat
BY CommandsAssumption

LEMMA FramesTyped ==
  /\ \A do \in {"adopt", "command", "flush", "knob", "burst", "tick", "editor", "latency"},
        at \in {"cell", "dispatch", "gate", "loop", "flush", "poll", "deliver"} :
       /\ Frame(do, at) \in Frames
       /\ Frame(do, at).do = do /\ Frame(do, at).at = at /\ Frame(do, at).cmd = 0
  /\ \A c \in 0..MaxCommands :
       /\ Command(c) \in Frames
       /\ Command(c).do = "command" /\ Command(c).at = "gate" /\ Command(c).cmd = c
<1>1. 0 \in 0..MaxCommands /\ 0 \in 0..MaxRestores
  BY BoundsTyped
<1> QED
  BY <1>1 DEF Frame, Command, Frames

LEMMA TurnedTyped ==
  ASSUME Top \in Frames,
         NEW at \in {"cell", "dispatch", "tail", "again", "gate", "drained", "try", "begin", "apply",
                     "close", "exit", "loop", "next", "after", "flush", "latency", "poll", "deliver",
                     "callout"}
  PROVE  /\ Turned(at) \in Frames /\ Turned(at).at = at
         /\ Turned(at).do = Top.do /\ Turned(at).cmd = Top.cmd /\ Turned(at).seen = Top.seen
BY DEF Turned, Frames

\* It returns to its caller, or goes on.
LEMMA RestHolds ==
  ASSUME IInv, stack # <<>>, NEW at,
         at = "out" => /\ Top.do = "command" => Top.cmd \in ran
                       /\ Top.do = "flush" => EmptyBatch,
         at # "out" => /\ Turned(at) \in Frames /\ Placed(Turned(at)) /\ GoesOn(Top, Turned(at))
                       /\ Top.do = "command" /\ Top.at = "gate" => ~InsideDispatch
  PROVE  /\ StackHolds(Rest(at)) /\ Rest(at) \in Seq(Frames)
         /\ \A f : f \in Members(Rest(at))
                     <=> f \in Members(Tail(stack)) \/ (at # "out" /\ f = Turned(at))
         /\ at # "out" => Rest(at) # <<>> /\ Head(Rest(at)) = Turned(at)
<1>1. StackHolds(stack) /\ StackTyped(stack) /\ Tail(stack) \in Seq(Frames)
  BY OnStack DEF IInv, StackHolds
<1>2. CASE at = "out"
  <2>1. StackHolds(Tail(stack))
    BY <1>1, <1>2, ReturnHolds DEF Top
  <2> QED
    BY <1>1, <1>2, <2>1 DEF Rest
<1>3. CASE at # "out"
  <2>1. Rest(at) = <<Turned(at)>> \o Tail(stack)
    BY <1>3 DEF Rest, Turned
  <2>2. \A g \in Members(Tail(stack)) : OnTop(Turned(at), g)
    <3>1. ASSUME NEW g \in Members(Tail(stack))
          PROVE  OnTop(Top, g) /\ (Top.do = "command" /\ Top.at = "gate" => g.at # "dispatch")
      BY <1>1, <1>3, OnStack, Reading
    <3> QED
      BY <1>3, <3>1 DEF OnTop, GoesOn
  <2>3. StackHolds(<<Turned(at)>> \o Tail(stack))
    BY <1>1, <1>3, <2>2, TurnHolds DEF Top
  <2>4. Turned(at) \in Frames
    BY <1>3
  <2> DEFINE a == Turned(at)
             t == Tail(stack)
  <2>5. a \in Frames /\ t \in Seq(Frames) /\ Rest(at) = <<a>> \o t
    BY <1>1, <2>1, <2>4
  <2> HIDE DEF a, t
  <2>6. /\ <<a>> \o t \in Seq(Frames) /\ <<a>> \o t # <<>> /\ Head(<<a>> \o t) = a
        /\ \A f : f \in Members(<<a>> \o t) <=> f = a \/ f \in Members(t)
    BY <2>5, Pushing
  <2>7. /\ Rest(at) \in Seq(Frames) /\ Rest(at) # <<>> /\ Head(Rest(at)) = a
        /\ \A f : f \in Members(Rest(at)) <=> f = a \/ f \in Members(t)
    BY <2>5, <2>6, Zenon
  <2> QED
    BY <1>3, <2>1, <2>3, <2>7 DEF a, t
<1> QED
  BY <1>2, <1>3

\* A flush begins, unless a guard of it answers at once.
LEMMA FlushCalled ==
  ASSUME IInv, stack # <<>>, Top.do \notin {"adopt", "flush"},
         NEW at \in {"out", "apply", "exit", "latency"}, FlushDeferredCommands(at),
         StackHolds(Rest(at)), Rest(at) \in Seq(Frames),
         \A f : f \in Members(Rest(at))
                  <=> f \in Members(Tail(stack)) \/ (at # "out" /\ f = Turned(at)),
         at # "out" => Rest(at) # <<>> /\ Head(Rest(at)) = Turned(at)
  PROVE  /\ StackHolds(stack')
         /\ \A f : f \in Members(stack')
                     => f \in Members(Rest(at)) \/ (f.do = "flush" /\ f.at = "loop")
         /\ \A f : f \in Members(Rest(at)) => f \in Members(stack')
<1>1. CASE stack' = Rest(at)
  BY <1>1
<1>2. CASE /\ ~(deferredCommands = <<>> \/ RunningDeferred \/ UserTransaction \/ InsideDispatch)
           /\ stack' = <<Frame("flush", "loop")>> \o Rest(at)
  <2> DEFINE a == Frame("flush", "loop")
  <2>1. a \in Frames /\ a.do = "flush" /\ a.at = "loop"
    BY FramesTyped
  <2> HIDE DEF a
  <2>2. StackTyped(stack)
    BY DEF IInv, StackHolds
  <2>3. \A f \in Members(stack) : f.do # "flush" /\ f.at # "dispatch"
    BY <1>2, <2>2, Reading
  <2>4. EmptyBatch
    BY <2>3 DEF IInv, StackHolds, FlushInv
  <2>5. (Turned(at).at = at /\ Turned(at).do = Top.do) \/ at = "out"
    BY TurnedTyped, OnStack
  <2>6. \A g \in Members(Rest(at)) : OnTop(a, g)
    BY <2>1, <2>3, <2>5, OnStack DEF OnTop, InGate
  <2>7. Called(a, Head(Rest(at))) \/ Rest(at) = <<>>
    <3>1. CASE at = "out"
      <4>1. Rest(at) = Tail(stack)
        BY <3>1 DEF Rest
      <4>2. CASE Tail(stack) # <<>>
        <5>1. Called(Top, Head(Tail(stack))) /\ Head(Tail(stack)) \in Members(stack)
          BY <4>2, OnStack
        <5> QED
          BY <2>3, <4>1, <5>1 DEF Called
      <4> QED
        BY <4>1, <4>2
    <3>2. CASE at # "out"
      BY <2>5, <3>2 DEF Called, InGate
    <3> QED
      BY <3>1, <3>2
  <2>8. Placed(a) /\ Reached(a)
    BY <2>1, <2>4 DEF Placed, Reached
  <2>9. StackHolds(<<a>> \o Rest(at))
    BY <2>1, <2>6, <2>7, <2>8, CallHolds
  <2>10. stack' = <<a>> \o Rest(at)
    BY <1>2 DEF a
  <2> QED
    BY <2>1, <2>9, <2>10, Pushing
<1> QED
  BY <1>1, <1>2 DEF FlushDeferredCommands, Goto, Call

\* The cell is drained, unless a transaction runs.
LEMMA AdoptCalled ==
  ASSUME IInv, stack # <<>>, NEW at \in {"drained", "try", "apply"}, AdoptPending(at),
         Top.do # "flush" => at # "try",
         Top.do = "flush" => at = "try",
         StackHolds(Rest(at)), Rest(at) \in Seq(Frames),
         \A f : f \in Members(Rest(at))
                  <=> f \in Members(Tail(stack)) \/ (at # "out" /\ f = Turned(at)),
         at # "out" => Rest(at) # <<>> /\ Head(Rest(at)) = Turned(at)
  PROVE  /\ StackHolds(stack')
         /\ \A f : f \in Members(stack')
                     => f \in Members(Rest(at)) \/ (f.do = "adopt" /\ f.at = "cell")
         /\ \A f : f \in Members(Rest(at)) => f \in Members(stack')
<1>1. CASE UserTransaction
  BY <1>1 DEF AdoptPending, AdoptFrames
<1>2. CASE ~UserTransaction
  <2> DEFINE a == Frame("adopt", "cell")
  <2>1. a \in Frames /\ a.do = "adopt" /\ a.at = "cell"
    BY FramesTyped
  <2>2. stack' = <<a>> \o Rest(at)
    BY <1>2 DEF AdoptPending, AdoptFrames
  <2> HIDE DEF a
  <2>3. StackTyped(stack)
    BY DEF IInv, StackHolds
  <2>4. \A f \in Members(stack) : ~Transacting(f)
    BY <1>2, <2>3, Reading
  <2>5. Turned(at).at = at /\ Turned(at).do = Top.do
    BY TurnedTyped, OnStack
  <2>6. \A g \in Members(Rest(at)) : OnTop(a, g)
    BY <2>1, <2>4, <2>5, OnStack DEF OnTop, InGate, Transacting
  <2>7. Called(a, Head(Rest(at)))
    BY <2>1, <2>5 DEF Called
  <2>8. Placed(a)
    BY <2>1 DEF Placed
  <2>9. StackHolds(<<a>> \o Rest(at))
    BY <2>1, <2>6, <2>7, <2>8, CallHolds
  <2> QED
    BY <2>1, <2>2, <2>9, Pushing
<1> QED
  BY <1>1, <1>2

\* The host is told the latency.
LEMMA LatencyCalled ==
  ASSUME IInv, NEW s, StackHolds(s), \A g \in Members(s) : ~Applying(g) /\ ~Admitted(g) /\ g \in Frames,
         \A g \in Members(s) : OnTop(Frame("knob", "dispatch"), g),
         s # <<>> => Called(Frame("knob", "dispatch"), Head(s))
  PROVE  /\ StackHolds(<<Frame("latency", "deliver")>> \o s)
         /\ \A f : f \in Members(<<Frame("latency", "deliver")>> \o s)
                     <=> f = Frame("latency", "deliver") \/ f \in Members(s)
<1> DEFINE a == Frame("latency", "deliver")
           k == Frame("knob", "dispatch")
<1>1. /\ a \in Frames /\ a.do = "latency" /\ a.at = "deliver"
      /\ k.do = "knob" /\ k.at = "dispatch"
  BY FramesTyped
<1>2. s \in Seq(Frames)
  BY DEF StackHolds, StackTyped
<1>3. (\A g \in Members(s) : OnTop(k, g)) /\ (s # <<>> => Called(k, Head(s)))
  OBVIOUS
<1> HIDE DEF a, k
<1>4. (\A g \in Members(s) : OnTop(a, g)) /\ (s # <<>> => Called(a, Head(s))) /\ Placed(a)
  BY <1>1, <1>3 DEF OnTop, Called, Placed
<1>5. StackHolds(<<a>> \o s)
  BY <1>1, <1>4, CallHolds
<1> QED
  BY <1>1, <1>2, <1>5, Pushing DEF a

-----------------------------------------------------------------------------
(* The steps that leave the commands and the queues alone.                  *)

\* A knob is done; a burst closes its transaction.
LEMMA EditDoneKeeps ==
  ASSUME IInv, EditDone
  PROVE  IInv'
<1>1. stack # <<>> /\ UNCHANGED <<given, queues>> /\ Top.at = "dispatch"
      /\ Top.do \in {"knob", "burst"}
  BY DEF EditDone, At
<1>2. PICK at \in {"out", "close"} : stack' = Rest(at) /\ (Top.do = "knob" <=> at = "out")
  BY DEF EditDone, Goto, Return
<1>3. Top \in Frames /\ Placed(Top)
  BY <1>1, OnStack
<1>4. at # "out" => /\ Turned(at) \in Frames /\ Turned(at).at = at
                    /\ Turned(at).do = Top.do /\ Turned(at).cmd = Top.cmd
  BY <1>3, TurnedTyped
<1>5. /\ StackHolds(stack')
      /\ \A f : f \in Members(stack')
                  <=> f \in Members(Tail(stack)) \/ (at # "out" /\ f = Turned(at))
  <2>1. at # "out" => Placed(Turned(at)) /\ GoesOn(Top, Turned(at))
    BY <1>1, <1>2, <1>4 DEF Placed, GoesOn, InGate
  <2> QED
    BY <1>1, <1>2, <1>4, <2>1, RestHolds
<1>6. DataTyped'
  BY <1>1 DEF DataTyped, IInv, EditDone, vars, given, bounds, flushState, queues, restores, latency, Commands, AllKinds
<1>7. LockInv' /\ DoneInv'
  BY <1>1, <1>2, <1>4, <1>5, OnStack DEF IInv, LockInv, DoneInv, given, HostHolds, Admitted, restores, EditDone
<1>8. LatencyInv'
  BY <1>1, <1>2, <1>4, <1>5, OnStack DEF IInv, LatencyInv, latency, EditDone
<1> QED
  BY <1>1, <1>5, <1>6, <1>7, <1>8, Quiet DEF IInv

\* The host has taken the latency.
LEMMA CalloutReturnsKeeps ==
  ASSUME IInv, CalloutReturns
  PROVE  IInv'
<1>1. stack # <<>> /\ UNCHANGED <<given, queues>> /\ Top.do = "latency" /\ Top.at = "callout"
  BY DEF CalloutReturns, At
<1>2. PICK at \in {"out"} : stack' = Rest(at)
  BY DEF CalloutReturns, Goto, Return
<1>3. Top \in Frames /\ Placed(Top)
  BY <1>1, OnStack
<1>4. at # "out" => /\ Turned(at) \in Frames /\ Turned(at).at = at
                    /\ Turned(at).do = Top.do /\ Turned(at).cmd = Top.cmd
  BY <1>3, TurnedTyped
<1>5. /\ StackHolds(stack')
      /\ \A f : f \in Members(stack')
                  <=> f \in Members(Tail(stack)) \/ (at # "out" /\ f = Turned(at))
  <2>1. at # "out" => Placed(Turned(at)) /\ GoesOn(Top, Turned(at))
    BY <1>1, <1>2, <1>4 DEF Placed, GoesOn, InGate
  <2> QED
    BY <1>1, <1>2, <1>4, <2>1, RestHolds
<1>6. DataTyped'
  BY <1>1 DEF DataTyped, IInv, CalloutReturns, vars, given, bounds, flushState, queues, restores, latency, Commands, AllKinds
<1>7. LockInv' /\ DoneInv'
  BY <1>1, <1>2, <1>4, <1>5, OnStack DEF IInv, LockInv, DoneInv, given, HostHolds, Admitted, restores, CalloutReturns
<1>8. LatencyInv'
  BY <1>1, <1>2, <1>4, <1>5, OnStack DEF IInv, LatencyInv, latency, CalloutReturns
<1> QED
  BY <1>1, <1>5, <1>6, <1>7, <1>8, Quiet DEF IInv

\* The number is compared, and the host called if it is new.
LEMMA DeliverLatencyKeeps ==
  ASSUME IInv, DeliverLatency
  PROVE  IInv'
<1>1. stack # <<>> /\ UNCHANGED <<given, queues>> /\ Top.do = "latency" /\ Top.at = "deliver"
  BY DEF DeliverLatency, At
<1>2. PICK at \in {"out", "callout"} : stack' = Rest(at)
  BY DEF DeliverLatency, Goto, Return
<1>3. Top \in Frames /\ Placed(Top)
  BY <1>1, OnStack
<1>4. at # "out" => /\ Turned(at) \in Frames /\ Turned(at).at = at
                    /\ Turned(at).do = Top.do /\ Turned(at).cmd = Top.cmd
  BY <1>3, TurnedTyped
<1>5. /\ StackHolds(stack')
      /\ \A f : f \in Members(stack')
                  <=> f \in Members(Tail(stack)) \/ (at # "out" /\ f = Turned(at))
  <2>1. at # "out" => Placed(Turned(at)) /\ GoesOn(Top, Turned(at))
    BY <1>1, <1>2, <1>4 DEF Placed, GoesOn, InGate
  <2> QED
    BY <1>1, <1>2, <1>4, <2>1, RestHolds
<1>6. DataTyped'
  BY <1>1 DEF DataTyped, IInv, DeliverLatency, vars, given, bounds, flushState, queues, restores, latency, Commands, AllKinds
<1>7. LockInv' /\ DoneInv'
  BY <1>1, <1>2, <1>4, <1>5, OnStack DEF IInv, LockInv, DoneInv, given, HostHolds, Admitted, restores, DeliverLatency
<1>8. LatencyInv'
  BY <1>1, <1>2, <1>4, <1>5, OnStack DEF IInv, LatencyInv, latency, DeliverLatency
<1> QED
  BY <1>1, <1>5, <1>6, <1>7, <1>8, Quiet DEF IInv

\* A restored session is taken from the cell.
LEMMA AdoptTakeKeeps ==
  ASSUME IInv, AdoptTake
  PROVE  IInv'
<1>1. stack # <<>> /\ UNCHANGED <<given, queues>> /\ Top.do = "adopt" /\ Top.at = "cell" /\ ~HostHolds
  BY DEF AdoptTake, At
<1>2. PICK at \in {"dispatch", "tail"} : stack' = Rest(at)
  BY DEF AdoptTake, Goto, Return
<1>3. Top \in Frames /\ Placed(Top)
  BY <1>1, OnStack
<1>4. at # "out" => /\ Turned(at) \in Frames /\ Turned(at).at = at
                    /\ Turned(at).do = Top.do /\ Turned(at).cmd = Top.cmd
  BY <1>3, TurnedTyped
<1>5. /\ StackHolds(stack')
      /\ \A f : f \in Members(stack')
                  <=> f \in Members(Tail(stack)) \/ (at # "out" /\ f = Turned(at))
  <2>1. at # "out" => Placed(Turned(at)) /\ GoesOn(Top, Turned(at))
    BY <1>1, <1>2, <1>4 DEF Placed, GoesOn, InGate
  <2> QED
    BY <1>1, <1>2, <1>4, <2>1, RestHolds
<1>6. DataTyped'
  BY <1>1, BoundsTyped DEF DataTyped, IInv, AdoptTake, vars, given, bounds, flushState, queues, restores, latency, Commands, AllKinds
<1>7. LockInv' /\ DoneInv'
  BY <1>1, <1>2, <1>4, <1>5, OnStack DEF IInv, LockInv, DoneInv, given, HostHolds, Admitted, restores, AdoptTake
<1>8. LatencyInv'
  BY <1>1, <1>2, <1>4, <1>5, OnStack DEF IInv, LatencyInv, latency, AdoptTake
<1> QED
  BY <1>1, <1>5, <1>6, <1>7, <1>8, Quiet DEF IInv

\* The host holds the lock, and the adoption ends.
LEMMA AdoptBlockedKeeps ==
  ASSUME IInv, AdoptBlocked
  PROVE  IInv'
<1>1. stack # <<>> /\ UNCHANGED <<given, queues>> /\ Top.do = "adopt" /\ Top.at = "cell"
  BY DEF AdoptBlocked, At
<1>2. PICK at \in {"out"} : stack' = Rest(at)
  BY DEF AdoptBlocked, Goto, Return
<1>3. Top \in Frames /\ Placed(Top)
  BY <1>1, OnStack
<1>4. at # "out" => /\ Turned(at) \in Frames /\ Turned(at).at = at
                    /\ Turned(at).do = Top.do /\ Turned(at).cmd = Top.cmd
  BY <1>3, TurnedTyped
<1>5. /\ StackHolds(stack')
      /\ \A f : f \in Members(stack')
                  <=> f \in Members(Tail(stack)) \/ (at # "out" /\ f = Turned(at))
  <2>1. at # "out" => Placed(Turned(at)) /\ GoesOn(Top, Turned(at))
    BY <1>1, <1>2, <1>4 DEF Placed, GoesOn, InGate
  <2> QED
    BY <1>1, <1>2, <1>4, <2>1, RestHolds
<1>6. DataTyped'
  BY <1>1 DEF DataTyped, IInv, AdoptBlocked, vars, given, bounds, flushState, queues, restores, latency, Commands, AllKinds
<1>7. LockInv' /\ DoneInv'
  BY <1>1, <1>2, <1>4, <1>5, OnStack DEF IInv, LockInv, DoneInv, given, HostHolds, Admitted, restores, AdoptBlocked
<1>8. LatencyInv'
  BY <1>1, <1>2, <1>4, <1>5, OnStack DEF IInv, LatencyInv, latency, AdoptBlocked
<1> QED
  BY <1>1, <1>5, <1>6, <1>7, <1>8, Quiet DEF IInv

\* The sound of a restored session is written.
LEMMA AdoptWrittenKeeps ==
  ASSUME IInv, AdoptWritten
  PROVE  IInv'
<1>1. stack # <<>> /\ UNCHANGED <<given, queues>> /\ Top.do = "adopt" /\ Top.at = "dispatch"
  BY DEF AdoptWritten, At
<1>2. PICK at \in {"tail"} : stack' = Rest(at)
  BY DEF AdoptWritten, Goto, Return
<1>3. Top \in Frames /\ Placed(Top)
  BY <1>1, OnStack
<1>4. at # "out" => /\ Turned(at) \in Frames /\ Turned(at).at = at
                    /\ Turned(at).do = Top.do /\ Turned(at).cmd = Top.cmd
  BY <1>3, TurnedTyped
<1>5. /\ StackHolds(stack')
      /\ \A f : f \in Members(stack')
                  <=> f \in Members(Tail(stack)) \/ (at # "out" /\ f = Turned(at))
  <2>1. at # "out" => Placed(Turned(at)) /\ GoesOn(Top, Turned(at))
    BY <1>1, <1>2, <1>4 DEF Placed, GoesOn, InGate
  <2> QED
    BY <1>1, <1>2, <1>4, <2>1, RestHolds
<1>6. DataTyped'
  BY <1>1 DEF DataTyped, IInv, AdoptWritten, vars, given, bounds, flushState, queues, restores, latency, Commands, AllKinds
<1>7. LockInv' /\ DoneInv'
  BY <1>1, <1>2, <1>4, <1>5, OnStack DEF IInv, LockInv, DoneInv, given, HostHolds, Admitted, restores, AdoptWritten
<1>8. LatencyInv'
  BY <1>1, <1>2, <1>4, <1>5, OnStack DEF IInv, LatencyInv, latency, AdoptWritten
<1> QED
  BY <1>1, <1>5, <1>6, <1>7, <1>8, Quiet DEF IInv

\* Its settings are, which may change the latency.
LEMMA AdoptTailKeeps ==
  ASSUME IInv, AdoptTail
  PROVE  IInv'
<1>1. stack # <<>> /\ UNCHANGED <<given, queues>> /\ Top.do = "adopt" /\ Top.at = "tail"
  BY DEF AdoptTail, At
<1>2. PICK at \in {"cell"} : stack' = Rest(at)
  BY DEF AdoptTail, Goto, Return
<1>3. Top \in Frames /\ Placed(Top)
  BY <1>1, OnStack
<1>4. at # "out" => /\ Turned(at) \in Frames /\ Turned(at).at = at
                    /\ Turned(at).do = Top.do /\ Turned(at).cmd = Top.cmd
  BY <1>3, TurnedTyped
<1>5. /\ StackHolds(stack')
      /\ \A f : f \in Members(stack')
                  <=> f \in Members(Tail(stack)) \/ (at # "out" /\ f = Turned(at))
  <2>1. at # "out" => Placed(Turned(at)) /\ GoesOn(Top, Turned(at))
    BY <1>1, <1>2, <1>4 DEF Placed, GoesOn, InGate
  <2> QED
    BY <1>1, <1>2, <1>4, <2>1, RestHolds
<1>6. DataTyped'
  <2>1. moves' \in 0..MaxMoves
    <3>1. moves \in 0..MaxMoves /\ (moves' = moves \/ (moves < MaxMoves /\ moves' = moves + 1))
      BY DEF AdoptTail, IInv, DataTyped
    <3> QED
      BY <3>1, BoundsTyped
  <2>2. apc' \in {"idle", "request"} /\ {latencyUpdateRequest, stale}' \subseteq BOOLEAN
    BY DEF AdoptTail, IInv, DataTyped, latency
  <2> QED
    BY <2>1, <2>2 DEF AdoptTail, IInv, DataTyped, given, flushState, queues, restores, Commands
<1>7. LockInv' /\ DoneInv'
  BY <1>1, <1>2, <1>4, <1>5, OnStack DEF IInv, LockInv, DoneInv, given, HostHolds, Admitted, restores, AdoptTail
<1>8. LatencyInv'
  <2>1. \A f \in Members(stack) : f.do = "latency" => f \in Members(stack')
    BY <1>1, <1>5, OnStack
  <2>2. CASE UNCHANGED latency
    BY <2>1, <2>2 DEF IInv, LatencyInv, latency
  <2>3. CASE latencyUpdateRequest' = TRUE
    BY <2>3 DEF LatencyInv
  <2> QED
    BY <2>2, <2>3 DEF AdoptTail
<1> QED
  BY <1>1, <1>5, <1>6, <1>7, <1>8, Quiet DEF IInv

\* The cell is looked into again.
LEMMA AdoptAgainKeeps ==
  ASSUME IInv, AdoptAgain
  PROVE  IInv'
<1>1. stack # <<>> /\ UNCHANGED <<given, queues>> /\ Top.do = "adopt" /\ Top.at = "again"
  BY DEF AdoptAgain, At
<1>2. PICK at \in {"cell", "out"} : stack' = Rest(at)
  BY DEF AdoptAgain, Goto, Return
<1>3. Top \in Frames /\ Placed(Top)
  BY <1>1, OnStack
<1>4. at # "out" => /\ Turned(at) \in Frames /\ Turned(at).at = at
                    /\ Turned(at).do = Top.do /\ Turned(at).cmd = Top.cmd
  BY <1>3, TurnedTyped
<1>5. /\ StackHolds(stack')
      /\ \A f : f \in Members(stack')
                  <=> f \in Members(Tail(stack)) \/ (at # "out" /\ f = Turned(at))
  <2>1. at # "out" => Placed(Turned(at)) /\ GoesOn(Top, Turned(at))
    BY <1>1, <1>2, <1>4 DEF Placed, GoesOn, InGate
  <2> QED
    BY <1>1, <1>2, <1>4, <2>1, RestHolds
<1>6. DataTyped'
  BY <1>1 DEF DataTyped, IInv, AdoptAgain, vars, given, bounds, flushState, queues, restores, latency, Commands, AllKinds
<1>7. LockInv' /\ DoneInv'
  BY <1>1, <1>2, <1>4, <1>5, OnStack DEF IInv, LockInv, DoneInv, given, HostHolds, Admitted, restores, AdoptAgain
<1>8. LatencyInv'
  BY <1>1, <1>2, <1>4, <1>5, OnStack DEF IInv, LatencyInv, latency, AdoptAgain
<1> QED
  BY <1>1, <1>5, <1>6, <1>7, <1>8, Quiet DEF IInv

\* A command has written.
LEMMA CommandWrittenKeeps ==
  ASSUME IInv, CommandWritten
  PROVE  IInv'
<1>1. stack # <<>> /\ UNCHANGED <<given, queues>> /\ Top.do = "command" /\ Top.at = "dispatch"
  BY DEF CommandWritten, At
<1>2. PICK at \in {"close"} : stack' = Rest(at)
  BY DEF CommandWritten, Goto, Return
<1>3. Top \in Frames /\ Placed(Top)
  BY <1>1, OnStack
<1>4. at # "out" => /\ Turned(at) \in Frames /\ Turned(at).at = at
                    /\ Turned(at).do = Top.do /\ Turned(at).cmd = Top.cmd
  BY <1>3, TurnedTyped
<1>5. /\ StackHolds(stack')
      /\ \A f : f \in Members(stack')
                  <=> f \in Members(Tail(stack)) \/ (at # "out" /\ f = Turned(at))
  <2>1. at # "out" => Placed(Turned(at)) /\ GoesOn(Top, Turned(at))
    BY <1>1, <1>2, <1>4 DEF Placed, GoesOn, InGate
  <2> QED
    BY <1>1, <1>2, <1>4, <2>1, RestHolds
<1>6. DataTyped'
  BY <1>1 DEF DataTyped, IInv, CommandWritten, vars, given, bounds, flushState, queues, restores, latency, Commands, AllKinds
<1>7. LockInv' /\ DoneInv'
  BY <1>1, <1>2, <1>4, <1>5, OnStack DEF IInv, LockInv, DoneInv, given, HostHolds, Admitted, restores, CommandWritten
<1>8. LatencyInv'
  BY <1>1, <1>2, <1>4, <1>5, OnStack DEF IInv, LatencyInv, latency, CommandWritten
<1> QED
  BY <1>1, <1>5, <1>6, <1>7, <1>8, Quiet DEF IInv

\* A command given under another's lock is admitted.
LEMMA GateNestsKeeps ==
  ASSUME IInv, GateNests
  PROVE  IInv'
<1>1. /\ stack # <<>> /\ UNCHANGED <<given, queues>> /\ Top.do = "command" /\ Top.at = "gate"
      /\ ~InsideDispatch /\ StateCommandDepth > 0 /\ stack' = Rest("begin")
  BY DEF GateNests, At, RefuseNow, Goto
<1>2. /\ Turned("begin") \in Frames /\ Turned("begin").at = "begin"
      /\ Turned("begin").do = Top.do /\ Turned("begin").cmd = Top.cmd
  BY <1>1, OnStack, TurnedTyped
<1>3. /\ StackHolds(stack')
      /\ \A f : f \in Members(stack') <=> f \in Members(Tail(stack)) \/ f = Turned("begin")
  <2>1. Placed(Turned("begin")) /\ GoesOn(Top, Turned("begin"))
    BY <1>1, <1>2 DEF Placed, GoesOn, InGate
  <2> QED
    BY <1>1, <1>2, <2>1, RestHolds
<1>4. DataTyped'
  BY DEF DataTyped, IInv, GateNests, given, bounds, flushState, queues, restores, latency, Commands
<1>5. LockInv' /\ DoneInv'
  <2>1. ~HostHolds
    <3>1. StackTyped(stack)
      BY DEF IInv, StackHolds
    <3>2. StateCommandDepth # 0
      BY <1>1, <3>1, Reading
    <3> QED
      BY <3>1, <3>2, Reading DEF IInv, LockInv
  <2>2. LockInv'
    BY <2>1 DEF LockInv, HostHolds, GateNests, restores
  <2>3. DoneInv'
    BY <1>1, <1>2, <1>3, OnStack DEF IInv, DoneInv, given
  <2> QED
    BY <2>2, <2>3
<1>6. LatencyInv'
  BY <1>1, <1>2, <1>3, OnStack DEF IInv, LatencyInv, latency, GateNests
<1> QED
  BY <1>1, <1>3, <1>4, <1>5, <1>6, Quiet DEF IInv

\* The end of a burst flushes.
LEMMA BurstClosesKeeps ==
  ASSUME IInv, BurstCloses
  PROVE  IInv'
<1>1. /\ stack # <<>> /\ UNCHANGED <<given, queues>> /\ Top.do = "burst" /\ Top.at = "close"
      /\ stack' = Rest("out") \/ FlushDeferredCommands("out")
  BY DEF BurstCloses, At, Goto, Return, Rest
<1>2. Top \in Frames /\ Placed(Top)
  BY <1>1, OnStack
<1>3. Top.do # "command" /\ Top.do # "flush"
  BY <1>1
<1>4. /\ StackHolds(Rest("out")) /\ Rest("out") \in Seq(Frames)
      /\ \A f : f \in Members(Rest("out"))
                  <=> f \in Members(Tail(stack)) \/ ("out" # "out" /\ f = Turned("out"))
      /\ "out" # "out" => Rest("out") # <<>> /\ Head(Rest("out")) = Turned("out")
  BY <1>1, <1>3, RestHolds
<1>5. /\ StackHolds(stack')
      /\ \A f : f \in Members(stack')
                  => f \in Members(Rest("out")) \/ (f.do = "flush" /\ f.at = "loop")
      /\ \A f : f \in Members(Rest("out")) => f \in Members(stack')
  <2>1. CASE stack' = Rest("out")
    BY <1>4, <2>1
  <2>2. CASE FlushDeferredCommands("out")
    BY <1>1, <1>4, <2>2, FlushCalled
  <2> QED
    BY <1>1, <2>1, <2>2
<1>6. DataTyped'
  BY DEF DataTyped, IInv, BurstCloses, given, bounds, flushState, queues, restores, latency, Commands
<1>7. LockInv' /\ DoneInv'
  BY <1>1, <1>3, <1>4, <1>5, OnStack DEF IInv, LockInv, DoneInv, given, HostHolds, Admitted, restores, BurstCloses
<1>8. LatencyInv'
  BY <1>1, <1>3, <1>4, <1>5, OnStack DEF IInv, LatencyInv, latency, BurstCloses
<1> QED
  BY <1>1, <1>5, <1>6, <1>7, <1>8, Quiet DEF IInv

\* So does the tick.
LEMMA TickFlushesKeeps ==
  ASSUME IInv, TickFlushes
  PROVE  IInv'
<1>1. /\ stack # <<>> /\ UNCHANGED <<given, queues>> /\ Top.do = "tick" /\ Top.at = "flush"
      /\ stack' = Rest("latency") \/ FlushDeferredCommands("latency")
  BY DEF TickFlushes, At, Goto, Return, Rest
<1>2. Top \in Frames /\ Placed(Top)
  BY <1>1, OnStack
<1>3. /\ Turned("latency") \in Frames /\ Turned("latency").at = "latency"
      /\ Turned("latency").do = Top.do /\ Turned("latency").cmd = Top.cmd
      /\ Placed(Turned("latency")) /\ GoesOn(Top, Turned("latency"))
  BY <1>1, <1>2, TurnedTyped DEF Placed, GoesOn, InGate
<1>4. /\ StackHolds(Rest("latency")) /\ Rest("latency") \in Seq(Frames)
      /\ \A f : f \in Members(Rest("latency"))
                  <=> f \in Members(Tail(stack)) \/ ("latency" # "out" /\ f = Turned("latency"))
      /\ "latency" # "out" => Rest("latency") # <<>> /\ Head(Rest("latency")) = Turned("latency")
  BY <1>1, <1>3, RestHolds
<1>5. /\ StackHolds(stack')
      /\ \A f : f \in Members(stack')
                  => f \in Members(Rest("latency")) \/ (f.do = "flush" /\ f.at = "loop")
      /\ \A f : f \in Members(Rest("latency")) => f \in Members(stack')
  <2>1. CASE stack' = Rest("latency")
    BY <1>4, <2>1
  <2>2. CASE FlushDeferredCommands("latency")
    BY <1>1, <1>4, <2>2, FlushCalled
  <2> QED
    BY <1>1, <2>1, <2>2
<1>6. DataTyped'
  BY DEF DataTyped, IInv, TickFlushes, given, bounds, flushState, queues, restores, latency, Commands
<1>7. LockInv' /\ DoneInv'
  BY <1>1, <1>3, <1>4, <1>5, OnStack DEF IInv, LockInv, DoneInv, given, HostHolds, Admitted, restores, TickFlushes
<1>8. LatencyInv'
  BY <1>1, <1>3, <1>4, <1>5, OnStack DEF IInv, LatencyInv, latency, TickFlushes
<1> QED
  BY <1>1, <1>5, <1>6, <1>7, <1>8, Quiet DEF IInv

\* So does the poll of the editor, if the host has not the lock.
LEMMA EditorPollsKeeps ==
  ASSUME IInv, EditorPolls
  PROVE  IInv'
<1>1. /\ stack # <<>> /\ UNCHANGED <<given, queues>> /\ Top.do = "editor" /\ Top.at = "poll"
      /\ stack' = Rest("out") \/ FlushDeferredCommands("out")
  BY DEF EditorPolls, At, Goto, Return, Rest
<1>2. Top \in Frames /\ Placed(Top)
  BY <1>1, OnStack
<1>3. Top.do # "command" /\ Top.do # "flush"
  BY <1>1
<1>4. /\ StackHolds(Rest("out")) /\ Rest("out") \in Seq(Frames)
      /\ \A f : f \in Members(Rest("out"))
                  <=> f \in Members(Tail(stack)) \/ ("out" # "out" /\ f = Turned("out"))
      /\ "out" # "out" => Rest("out") # <<>> /\ Head(Rest("out")) = Turned("out")
  BY <1>1, <1>3, RestHolds
<1>5. /\ StackHolds(stack')
      /\ \A f : f \in Members(stack')
                  => f \in Members(Rest("out")) \/ (f.do = "flush" /\ f.at = "loop")
      /\ \A f : f \in Members(Rest("out")) => f \in Members(stack')
  <2>1. CASE stack' = Rest("out")
    BY <1>4, <2>1
  <2>2. CASE FlushDeferredCommands("out")
    BY <1>1, <1>4, <2>2, FlushCalled
  <2> QED
    BY <1>1, <2>1, <2>2
<1>6. DataTyped'
  BY DEF DataTyped, IInv, EditorPolls, given, bounds, flushState, queues, restores, latency, Commands
<1>7. LockInv' /\ DoneInv'
  BY <1>1, <1>3, <1>4, <1>5, OnStack DEF IInv, LockInv, DoneInv, given, HostHolds, Admitted, restores, EditorPolls
<1>8. LatencyInv'
  BY <1>1, <1>3, <1>4, <1>5, OnStack DEF IInv, LatencyInv, latency, EditorPolls
<1> QED
  BY <1>1, <1>5, <1>6, <1>7, <1>8, Quiet DEF IInv

\* So do the end of Apply Gain and of a save.
LEMMA CommandClosesKeeps ==
  ASSUME IInv, CommandCloses
  PROVE  IInv'
<1>1. /\ stack # <<>> /\ UNCHANGED <<given, queues>> /\ Top.do = "command" /\ Top.at = "close"
      /\ stack' = Rest("exit") \/ FlushDeferredCommands("exit")
  BY DEF CommandCloses, At, Goto, Return, Rest
<1>2. Top \in Frames /\ Placed(Top)
  BY <1>1, OnStack
<1>3. /\ Turned("exit") \in Frames /\ Turned("exit").at = "exit"
      /\ Turned("exit").do = Top.do /\ Turned("exit").cmd = Top.cmd
      /\ Placed(Turned("exit")) /\ GoesOn(Top, Turned("exit"))
  BY <1>1, <1>2, TurnedTyped DEF Placed, GoesOn, InGate
<1>4. /\ StackHolds(Rest("exit")) /\ Rest("exit") \in Seq(Frames)
      /\ \A f : f \in Members(Rest("exit"))
                  <=> f \in Members(Tail(stack)) \/ ("exit" # "out" /\ f = Turned("exit"))
      /\ "exit" # "out" => Rest("exit") # <<>> /\ Head(Rest("exit")) = Turned("exit")
  BY <1>1, <1>3, RestHolds
<1>5. /\ StackHolds(stack')
      /\ \A f : f \in Members(stack')
                  => f \in Members(Rest("exit")) \/ (f.do = "flush" /\ f.at = "loop")
      /\ \A f : f \in Members(Rest("exit")) => f \in Members(stack')
  <2>1. CASE stack' = Rest("exit")
    BY <1>4, <2>1
  <2>2. CASE FlushDeferredCommands("exit")
    BY <1>1, <1>4, <2>2, FlushCalled
  <2> QED
    BY <1>1, <2>1, <2>2
<1>6. DataTyped'
  BY DEF DataTyped, IInv, CommandCloses, given, bounds, flushState, queues, restores, latency, Commands
<1>7. LockInv' /\ DoneInv'
  BY <1>1, <1>3, <1>4, <1>5, OnStack DEF IInv, LockInv, DoneInv, given, HostHolds, Admitted, restores, CommandCloses
<1>8. LatencyInv'
  BY <1>1, <1>3, <1>4, <1>5, OnStack DEF IInv, LatencyInv, latency, CommandCloses
<1> QED
  BY <1>1, <1>5, <1>6, <1>7, <1>8, Quiet DEF IInv

\* The cell is empty, and what was put off is reported.
LEMMA AdoptDrainedKeeps ==
  ASSUME IInv, AdoptDrained
  PROVE  IInv'
<1>1. /\ stack # <<>> /\ UNCHANGED <<given, queues>> /\ Top.do = "adopt" /\ Top.at = "cell"
      /\ FlushPendingLatency("again") /\ UNCHANGED <<bounds, restores>>
  BY DEF AdoptDrained, At
<1>2. Top \in Frames /\ Placed(Top)
  BY <1>1, OnStack
<1>3. /\ Turned("again") \in Frames /\ Turned("again").at = "again"
      /\ Turned("again").do = Top.do /\ Turned("again").cmd = Top.cmd
      /\ Placed(Turned("again")) /\ GoesOn(Top, Turned("again"))
  BY <1>1, <1>2, TurnedTyped DEF Placed, GoesOn, InGate
<1>4. /\ StackHolds(Rest("again")) /\ Rest("again") \in Seq(Frames)
      /\ \A f : f \in Members(Rest("again"))
                  <=> f \in Members(Tail(stack)) \/ ("again" # "out" /\ f = Turned("again"))
      /\ "again" # "out" => Rest("again") # <<>> /\ Head(Rest("again")) = Turned("again")
  BY <1>1, <1>3, RestHolds
<1>5. CASE stack' = Rest("again") /\ UNCHANGED latency
  <2>1. DataTyped'
    BY <1>1, <1>5 DEF DataTyped, IInv, given, bounds, flushState, queues, restores, latency, Commands
  <2>2. LockInv' /\ DoneInv'
    BY <1>1, <1>3, <1>4, <1>5, OnStack DEF IInv, LockInv, DoneInv, given, HostHolds, Admitted, restores
  <2>3. LatencyInv'
    BY <1>1, <1>3, <1>4, <1>5, OnStack DEF IInv, LatencyInv, latency
  <2> QED
    BY <1>1, <1>4, <1>5, <2>1, <2>2, <2>3, Quiet DEF IInv
<1>6. CASE /\ LatencyDeliveryIsSafe(2) /\ latencyUpdateRequest' = FALSE /\ UNCHANGED <<stale, apc>>
           /\ stack' = <<Frame("latency", "deliver")>> \o Rest("again")
  <2>1. /\ Frame("latency", "deliver").do = "latency" /\ Frame("latency", "deliver").at = "deliver"
        /\ Frame("knob", "dispatch").do = "knob" /\ Frame("knob", "dispatch").at = "dispatch"
    BY FramesTyped
  <2>2. StackTyped(stack)
    BY DEF IInv, StackHolds
  <2>3. \A f \in Members(Tail(stack)) : ~Applying(f) /\ ~Admitted(f)
    BY <1>1, <1>6, <2>2, ReadingBelow
  <2>4. \A g \in Members(Rest("again")) : ~Applying(g) /\ ~Admitted(g) /\ g \in Frames
    BY <1>1, <1>3, <1>4, <2>3, OnStack DEF Applying, Admitted
  <2>5. \A g \in Members(Rest("again")) : OnTop(Frame("knob", "dispatch"), g)
    BY <1>1, <1>3, <1>4, <2>1, OnStack DEF OnTop, InGate
  <2>6. Rest("again") # <<>> => Called(Frame("knob", "dispatch"), Head(Rest("again")))
    BY <1>1, <1>3, <1>4, <2>1 DEF Called, InGate
  <2>7. /\ StackHolds(stack')
        /\ \A f : f \in Members(stack') <=> f = Frame("latency", "deliver") \/ f \in Members(Rest("again"))
    BY <1>4, <1>6, <2>4, <2>5, <2>6, LatencyCalled
  <2>8. DataTyped'
    BY <1>1, <1>6 DEF DataTyped, IInv, given, bounds, flushState, queues, restores, latency, Commands
  <2>9. LockInv' /\ DoneInv'
    BY <1>1, <1>3, <1>4, <2>1, <2>7, OnStack DEF IInv, LockInv, DoneInv, given, HostHolds, Admitted, restores
  <2>10. LatencyInv'
    BY <2>1, <2>7 DEF LatencyInv
  <2> QED
    BY <1>1, <2>7, <2>8, <2>9, <2>10, Quiet DEF IInv
<1> QED
  BY <1>1, <1>5, <1>6 DEF FlushPendingLatency, Goto, Call

\* The tick reports it too.
LEMMA TickReportsKeeps ==
  ASSUME IInv, TickReports
  PROVE  IInv'
<1>1. /\ stack # <<>> /\ UNCHANGED <<given, queues>> /\ Top.do = "tick" /\ Top.at = "latency"
      /\ FlushPendingLatency("out") /\ UNCHANGED <<bounds, restores>>
  BY DEF TickReports, At
<1>2. Top \in Frames /\ Placed(Top)
  BY <1>1, OnStack
<1>3. Top.do # "command" /\ Top.do # "flush"
  BY <1>1
<1>4. /\ StackHolds(Rest("out")) /\ Rest("out") \in Seq(Frames)
      /\ \A f : f \in Members(Rest("out"))
                  <=> f \in Members(Tail(stack)) \/ ("out" # "out" /\ f = Turned("out"))
      /\ "out" # "out" => Rest("out") # <<>> /\ Head(Rest("out")) = Turned("out")
  BY <1>1, <1>3, RestHolds
<1>5. CASE stack' = Rest("out") /\ UNCHANGED latency
  <2>1. DataTyped'
    BY <1>1, <1>5 DEF DataTyped, IInv, given, bounds, flushState, queues, restores, latency, Commands
  <2>2. LockInv' /\ DoneInv'
    BY <1>1, <1>3, <1>4, <1>5, OnStack DEF IInv, LockInv, DoneInv, given, HostHolds, Admitted, restores
  <2>3. LatencyInv'
    BY <1>1, <1>3, <1>4, <1>5, OnStack DEF IInv, LatencyInv, latency
  <2> QED
    BY <1>1, <1>4, <1>5, <2>1, <2>2, <2>3, Quiet DEF IInv
<1>6. CASE /\ LatencyDeliveryIsSafe(2) /\ latencyUpdateRequest' = FALSE /\ UNCHANGED <<stale, apc>>
           /\ stack' = <<Frame("latency", "deliver")>> \o Rest("out")
  <2>1. /\ Frame("latency", "deliver").do = "latency" /\ Frame("latency", "deliver").at = "deliver"
        /\ Frame("knob", "dispatch").do = "knob" /\ Frame("knob", "dispatch").at = "dispatch"
    BY FramesTyped
  <2>2. StackTyped(stack)
    BY DEF IInv, StackHolds
  <2>3. \A f \in Members(Tail(stack)) : ~Applying(f) /\ ~Admitted(f)
    BY <1>1, <1>6, <2>2, ReadingBelow
  <2>4. \A g \in Members(Rest("out")) : ~Applying(g) /\ ~Admitted(g) /\ g \in Frames
    BY <1>1, <1>3, <1>4, <2>3, OnStack DEF Applying, Admitted
  <2>5. \A g \in Members(Rest("out")) : OnTop(Frame("knob", "dispatch"), g)
    BY <1>1, <1>3, <1>4, <2>1, OnStack DEF OnTop, InGate
  <2>6. Rest("out") # <<>> => Called(Frame("knob", "dispatch"), Head(Rest("out")))
    <3>1. Rest("out") = Tail(stack)
      BY DEF Rest
    <3>2. Tail(stack) # <<>> => Called(Top, Head(Tail(stack)))
      BY <1>1, OnStack
    <3> QED
      BY <1>1, <2>1, <3>1, <3>2 DEF Called
  <2>7. /\ StackHolds(stack')
        /\ \A f : f \in Members(stack') <=> f = Frame("latency", "deliver") \/ f \in Members(Rest("out"))
    BY <1>4, <1>6, <2>4, <2>5, <2>6, LatencyCalled
  <2>8. DataTyped'
    BY <1>1, <1>6 DEF DataTyped, IInv, given, bounds, flushState, queues, restores, latency, Commands
  <2>9. LockInv' /\ DoneInv'
    BY <1>1, <1>3, <1>4, <2>1, <2>7, OnStack DEF IInv, LockInv, DoneInv, given, HostHolds, Admitted, restores
  <2>10. LatencyInv'
    BY <2>1, <2>7 DEF LatencyInv
  <2> QED
    BY <1>1, <2>7, <2>8, <2>9, <2>10, Quiet DEF IInv
<1> QED
  BY <1>1, <1>5, <1>6 DEF FlushPendingLatency, Goto, Call

\* The gate drains the cell before it decides.
LEMMA GateDrainsKeeps ==
  ASSUME IInv, GateDrains
  PROVE  IInv'
<1>1. /\ stack # <<>> /\ UNCHANGED <<given, queues>> /\ Top.do = "command" /\ Top.at = "gate" /\ ~InsideDispatch
      /\ stack' = Rest("drained") \/ AdoptPending("drained")
  BY DEF GateDrains, At, Goto, Return, Rest, RefuseNow
<1>2. Top \in Frames /\ Placed(Top)
  BY <1>1, OnStack
<1>3. /\ Turned("drained") \in Frames /\ Turned("drained").at = "drained"
      /\ Turned("drained").do = Top.do /\ Turned("drained").cmd = Top.cmd
      /\ Placed(Turned("drained")) /\ GoesOn(Top, Turned("drained"))
  BY <1>1, <1>2, TurnedTyped, OnStack DEF Placed, GoesOn, InGate, Reached
<1>4. /\ StackHolds(Rest("drained")) /\ Rest("drained") \in Seq(Frames)
      /\ \A f : f \in Members(Rest("drained"))
                  <=> f \in Members(Tail(stack)) \/ ("drained" # "out" /\ f = Turned("drained"))
      /\ "drained" # "out" => Rest("drained") # <<>> /\ Head(Rest("drained")) = Turned("drained")
  BY <1>1, <1>3, RestHolds
<1>5. /\ StackHolds(stack')
      /\ \A f : f \in Members(stack')
                  => f \in Members(Rest("drained")) \/ (f.do = "adopt" /\ f.at = "cell")
      /\ \A f : f \in Members(Rest("drained")) => f \in Members(stack')
  <2>1. CASE stack' = Rest("drained")
    BY <1>4, <2>1
  <2>2. CASE AdoptPending("drained")
    BY <1>1, <1>4, <2>2, AdoptCalled
  <2> QED
    BY <1>1, <2>1, <2>2
<1>6. DataTyped'
  BY DEF DataTyped, IInv, GateDrains, given, bounds, flushState, queues, restores, latency, Commands
<1>7. LockInv' /\ DoneInv'
  BY <1>1, <1>3, <1>4, <1>5, OnStack DEF IInv, LockInv, DoneInv, given, HostHolds, Admitted, restores, GateDrains
<1>8. LatencyInv'
  BY <1>1, <1>3, <1>4, <1>5, OnStack DEF IInv, LatencyInv, latency, GateDrains
<1> QED
  BY <1>1, <1>5, <1>6, <1>7, <1>8, Quiet DEF IInv

\* So does a flush before it takes the queue, unless there is none any more.
LEMMA FlushLoopKeeps ==
  ASSUME IInv, FlushLoop
  PROVE  IInv'
<1>1. /\ stack # <<>> /\ UNCHANGED <<given, queues>> /\ Top.do = "flush" /\ Top.at = "loop"
      /\ stack' = Rest("out") \/ AdoptPending("try")
  BY DEF FlushLoop, At, Goto, Return
<1>2. Top \in Frames /\ Placed(Top) /\ EmptyBatch
  BY <1>1, OnStack DEF Reached
<1>3. /\ Turned("try") \in Frames /\ Turned("try").at = "try" /\ Turned("try").do = "flush"
      /\ Placed(Turned("try")) /\ GoesOn(Top, Turned("try"))
  BY <1>1, <1>2, TurnedTyped DEF Placed, GoesOn, InGate, Reached
<1>4. /\ StackHolds(Rest("try")) /\ Rest("try") \in Seq(Frames)
      /\ \A f : f \in Members(Rest("try")) <=> f \in Members(Tail(stack)) \/ f = Turned("try")
      /\ Rest("try") # <<>> /\ Head(Rest("try")) = Turned("try")
  BY <1>1, <1>3, RestHolds
<1>5. /\ StackHolds(Rest("out"))
      /\ \A f : f \in Members(Rest("out")) <=> f \in Members(Tail(stack))
  BY <1>1, <1>2, RestHolds
<1>6. /\ StackHolds(stack')
      /\ \A f : f \in Members(stack') => \/ f \in Members(Tail(stack)) \/ f = Turned("try")
                                         \/ f.do = "adopt" /\ f.at = "cell"
      /\ \A f : f \in Members(Tail(stack)) => f \in Members(stack')
  <2>1. CASE stack' = Rest("out")
    BY <1>5, <2>1
  <2>2. CASE AdoptPending("try")
    BY <1>1, <1>4, <2>2, AdoptCalled
  <2> QED
    BY <1>1, <2>1, <2>2
<1>7. DataTyped'
  BY DEF DataTyped, IInv, FlushLoop, given, bounds, flushState, queues, restores, latency, Commands
<1>8. LockInv' /\ DoneInv'
  BY <1>1, <1>3, <1>6, OnStack DEF IInv, LockInv, DoneInv, given, HostHolds, Admitted, restores, FlushLoop
<1>9. LatencyInv'
  BY <1>1, <1>6, OnStack DEF IInv, LatencyInv, latency, FlushLoop
<1> QED
  BY <1>1, <1>6, <1>7, <1>8, <1>9, Quiet DEF IInv

\* A command polls first, or adopts, or neither.
LEMMA CommandBeginsKeeps ==
  ASSUME IInv, CommandBegins
  PROVE  IInv'
<1>1. /\ stack # <<>> /\ UNCHANGED <<given, queues>> /\ Top.do = "command" /\ Top.at = "begin"
      /\ stack' = Rest("apply") \/ FlushDeferredCommands("apply") \/ AdoptPending("apply")
  BY DEF CommandBegins, At, Goto
<1>2. Top \in Frames /\ Placed(Top)
  BY <1>1, OnStack
<1>3. /\ Turned("apply") \in Frames /\ Turned("apply").at = "apply" /\ Turned("apply").do = Top.do
      /\ Placed(Turned("apply")) /\ GoesOn(Top, Turned("apply"))
  BY <1>1, <1>2, TurnedTyped DEF Placed, GoesOn, InGate
<1>4. /\ StackHolds(Rest("apply")) /\ Rest("apply") \in Seq(Frames)
      /\ \A f : f \in Members(Rest("apply")) <=> f \in Members(Tail(stack)) \/ f = Turned("apply")
      /\ Rest("apply") # <<>> /\ Head(Rest("apply")) = Turned("apply")
  BY <1>1, <1>3, RestHolds
<1>5. /\ StackHolds(stack')
      /\ \A f : f \in Members(stack')
                  => \/ f \in Members(Rest("apply"))
                     \/ f.do = "flush" \/ (f.do = "adopt" /\ f.at = "cell")
      /\ \A f : f \in Members(Rest("apply")) => f \in Members(stack')
  <2>1. CASE stack' = Rest("apply")
    BY <1>4, <2>1
  <2>2. CASE FlushDeferredCommands("apply")
    BY <1>1, <1>4, <2>2, FlushCalled
  <2>3. CASE AdoptPending("apply")
    BY <1>1, <1>4, <2>3, AdoptCalled
  <2> QED
    BY <1>1, <2>1, <2>2, <2>3
<1>6. DataTyped'
  BY DEF DataTyped, IInv, CommandBegins, given, bounds, flushState, queues, restores, latency, Commands
<1>7. LockInv' /\ DoneInv'
  BY <1>1, <1>3, <1>4, <1>5, OnStack DEF IInv, LockInv, DoneInv, given, HostHolds, Admitted, restores, CommandBegins
<1>8. LatencyInv'
  BY <1>1, <1>3, <1>4, <1>5, OnStack DEF IInv, LatencyInv, latency, CommandBegins
<1> QED
  BY <1>1, <1>5, <1>6, <1>7, <1>8, Quiet DEF IInv

\* The gate has drained, and tries the lock; it has the lock, and lets in.
LEMMA GateGoesOn ==
  ASSUME IInv, stack # <<>>, Top.do = "command", Top.at = "drained", Goto("try"),
         UNCHANGED <<given, queues, bounds, restores, latency>>
  PROVE  IInv'
<1>1. stack' = Rest("try")
  BY DEF Goto
<1>2. /\ Turned("try") \in Frames /\ Turned("try").at = "try"
      /\ Turned("try").do = "command" /\ Turned("try").cmd = Top.cmd
      /\ Placed(Turned("try")) /\ GoesOn(Top, Turned("try"))
  BY OnStack, TurnedTyped DEF Placed, GoesOn, InGate
<1>3. /\ StackHolds(stack')
      /\ \A f : f \in Members(stack') <=> f \in Members(Tail(stack)) \/ f = Turned("try")
  BY <1>1, <1>2, RestHolds
<1>4. DataTyped'
  BY DEF DataTyped, IInv, given, bounds, flushState, queues, restores, latency, Commands
<1>5. LockInv' /\ DoneInv'
  BY <1>2, <1>3, OnStack DEF IInv, LockInv, DoneInv, given, HostHolds, Admitted, restores
<1>6. LatencyInv'
  BY <1>2, <1>3, OnStack DEF IInv, LatencyInv, latency
<1> QED
  BY <1>3, <1>4, <1>5, <1>6, Quiet DEF IInv

LEMMA GateLetsIn ==
  ASSUME IInv, stack # <<>>, Top.do = "command", Top.at = "try", Goto("begin"), ~HostHolds,
         UNCHANGED <<given, queues, bounds, restores, latency>>
  PROVE  IInv'
<1>1. stack' = Rest("begin")
  BY DEF Goto
<1>2. /\ Turned("begin") \in Frames /\ Turned("begin").at = "begin"
      /\ Turned("begin").do = "command" /\ Turned("begin").cmd = Top.cmd
      /\ Placed(Turned("begin")) /\ GoesOn(Top, Turned("begin"))
  BY OnStack, TurnedTyped DEF Placed, GoesOn, InGate
<1>3. /\ StackHolds(stack')
      /\ \A f : f \in Members(stack') <=> f \in Members(Tail(stack)) \/ f = Turned("begin")
  BY <1>1, <1>2, RestHolds
<1>4. DataTyped'
  BY DEF DataTyped, IInv, given, bounds, flushState, queues, restores, latency, Commands
<1>5. LockInv' /\ DoneInv'
  BY <1>2, <1>3, OnStack DEF IInv, LockInv, DoneInv, given, HostHolds, Admitted, restores
<1>6. LatencyInv'
  BY <1>2, <1>3, OnStack DEF IInv, LatencyInv, latency
<1> QED
  BY <1>3, <1>4, <1>5, <1>6, Quiet DEF IInv

\* A message arrives at the loop, which a dispatch or a callout may be pumping.
LEMMA Delivered ==
  ASSUME IInv, stack # <<>> => Top.at \in {"dispatch", "callout"},
         NEW a \in Frames, Placed(a), a.do \in {"knob", "burst", "tick", "editor"}
  PROVE  /\ StackHolds(<<a>> \o stack) /\ <<a>> \o stack \in Seq(Frames)
         /\ \A f : f \in Members(<<a>> \o stack) <=> f = a \/ f \in Members(stack)
         /\ Head(<<a>> \o stack) = a
<1>1. StackHolds(stack) /\ stack \in Seq(Frames)
  BY DEF IInv, StackHolds, StackTyped
<1>2. stack # <<>> => Called(a, Top)
  BY OnStack DEF Called, InGate
<1>3. \A g \in Members(stack) : OnTop(a, g)
  <2>1. stack = <<>> => Members(stack) = {}
    BY Empty
  <2>2. CASE stack # <<>>
    <3>1. /\ \A g : g \in Members(stack) <=> g = Top \/ g \in Members(Tail(stack))
          /\ \A g \in Members(Tail(stack)) : OnTop(Top, g)
          /\ Placed(Top)
      BY <2>2, OnStack
    <3> QED
      BY <2>2, <3>1 DEF OnTop, InGate, Placed
  <2> QED
    BY <2>1, <2>2
<1>4. StackHolds(<<a>> \o stack)
  BY <1>1, <1>2, <1>3, CallHolds DEF Top
<1> QED
  BY <1>1, <1>4, Pushing

\* ... the timer's ticks behind an adoption.
LEMMA Drained ==
  ASSUME IInv, stack # <<>> => Top.at \in {"dispatch", "callout"},
         NEW a \in Frames, Placed(a), a.do \in {"tick", "editor"}
  PROVE  /\ StackHolds((AdoptFrames \o <<a>>) \o stack)
         /\ \A f : f \in Members((AdoptFrames \o <<a>>) \o stack)
                     => f = a \/ f \in Members(stack) \/ (f.do = "adopt" /\ f.at = "cell")
         /\ \A f \in Members(stack) : f \in Members((AdoptFrames \o <<a>>) \o stack)
<1>1. /\ StackHolds(<<a>> \o stack) /\ <<a>> \o stack \in Seq(Frames) /\ Head(<<a>> \o stack) = a
      /\ \A f : f \in Members(<<a>> \o stack) <=> f = a \/ f \in Members(stack)
  BY Delivered
<1>2. CASE UserTransaction
  <2>1. (AdoptFrames \o <<a>>) \o stack = <<a>> \o stack
    BY <1>2 DEF AdoptFrames
  <2> QED
    BY <1>1, <2>1
<1>3. CASE ~UserTransaction
  <2> DEFINE d == Frame("adopt", "cell")
  <2>1. d \in Frames /\ d.do = "adopt" /\ d.at = "cell"
    BY FramesTyped
  <2>2. AdoptFrames = <<d>>
    BY <1>3 DEF AdoptFrames
  <2> HIDE DEF d
  <2>3. stack \in Seq(Frames) /\ StackTyped(stack)
    BY DEF IInv, StackHolds, StackTyped
  <2>4. (AdoptFrames \o <<a>>) \o stack = <<d>> \o (<<a>> \o stack)
    BY <2>1, <2>2, <2>3
  <2>5. \A g \in Members(<<a>> \o stack) : OnTop(d, g)
    <3>1. \A g \in Members(stack) : ~Transacting(g)
      BY <1>3, <2>3, Reading
    <3>2. \A g \in Members(stack) : InGate(g) => g.at = "drained"
      <4>1. CASE stack = <<>>
        BY <4>1, Empty
      <4>2. CASE stack # <<>>
        BY <4>2, OnStack DEF OnTop, InGate
      <4> QED
        BY <4>1, <4>2
    <3>3. \A g \in Members(stack) : g.do = "flush" => g.at \in {"try", "after"}
      <4>1. CASE stack = <<>>
        BY <4>1, Empty
      <4>2. CASE stack # <<>>
        BY <4>2, OnStack DEF OnTop, Placed
      <4> QED
        BY <4>1, <4>2
    <3> QED
      BY <1>1, <2>1, <3>1, <3>2, <3>3 DEF OnTop, InGate, Transacting
  <2>6. Called(d, a) /\ Placed(d)
    BY <2>1 DEF Called, Placed, InGate
  <2>7. StackHolds(<<d>> \o (<<a>> \o stack))
    BY <1>1, <2>1, <2>5, <2>6, CallHolds
  <2>8. \A f : f \in Members(<<d>> \o (<<a>> \o stack)) <=> f = d \/ f \in Members(<<a>> \o stack)
    <3> DEFINE b == <<a>> \o stack
    <3>1. b \in Seq(Frames)
      BY <1>1
    <3> HIDE DEF b
    <3>2. \A f : f \in Members(<<d>> \o b) <=> f = d \/ f \in Members(b)
      BY <2>1, <3>1, Pushing
    <3> QED
      BY <3>2 DEF b
  <2> DEFINE u == <<d>> \o (<<a>> \o stack)
  <2>9. /\ (AdoptFrames \o <<a>>) \o stack = u /\ StackHolds(u)
        /\ \A f : f \in Members(u) <=> f = d \/ f \in Members(<<a>> \o stack)
    BY <2>4, <2>7, <2>8
  <2> HIDE DEF u
  <2> QED
    BY <1>1, <2>1, <2>9
<1> QED
  BY <1>2, <1>3

LEMMA EditKeeps ==
  ASSUME IInv, NEW what \in {"knob", "burst"}, Edit(what)
  PROVE  IInv'
<1> DEFINE a == Frame(what, "dispatch")
<1>1. /\ stack # <<>> => Top.at \in {"dispatch", "callout"}
      /\ UNCHANGED <<given, queues>> /\ stack' = <<a>> \o stack
  BY DEF Edit, Deliver
<1>2. a \in Frames /\ a.do = what /\ a.at = "dispatch"
  BY FramesTyped
<1> HIDE DEF a
<1>3. Placed(a)
  BY <1>2 DEF Placed
<1>4. /\ StackHolds(stack')
      /\ \A f : f \in Members(stack') <=> f = a \/ f \in Members(stack)
  BY <1>1, <1>2, <1>3, Delivered
<1>5. DataTyped'
  <2>1. edits' \in 0..MaxEdits
    <3>1. edits < MaxEdits /\ edits' = edits + 1 /\ edits \in 0..MaxEdits
      BY DEF Edit, IInv, DataTyped
    <3> QED
      BY <3>1, BoundsTyped
  <2>2. pumps' \in 0..MaxPumps
    <3>1. pumps \in 0..MaxPumps
      BY DEF IInv, DataTyped
    <3>2. (pumps < MaxPumps /\ pumps' = pumps + 1) \/ pumps' = pumps
      BY DEF Edit, Deliver
    <3> QED
      BY <3>1, <3>2, BoundsTyped
  <2> QED
    BY <2>1, <2>2 DEF DataTyped, IInv, Edit, given, flushState, queues, restores, latency, Commands
<1>6. LockInv' /\ DoneInv' /\ LatencyInv'
  BY <1>2, <1>4 DEF IInv, LockInv, DoneInv, given, LatencyInv, HostHolds, Admitted, restores, latency, Edit
<1> QED
  BY <1>1, <1>4, <1>5, <1>6, Quiet DEF IInv

LEMMA TickKeeps ==
  ASSUME IInv, Tick
  PROVE  IInv'
<1> DEFINE a == Frame("tick", "flush")
<1>1. /\ stack # <<>> => Top.at \in {"dispatch", "callout"}
      /\ UNCHANGED <<given, queues>> /\ stack' = (AdoptFrames \o <<a>>) \o stack
  BY DEF Tick, Deliver
<1>2. a \in Frames /\ a.do = "tick" /\ a.at = "flush"
  BY FramesTyped
<1> HIDE DEF a
<1>3. Placed(a)
  BY <1>2 DEF Placed
<1>4. /\ StackHolds(stack')
      /\ \A f : f \in Members(stack')
                  => f = a \/ f \in Members(stack) \/ (f.do = "adopt" /\ f.at = "cell")
      /\ \A f \in Members(stack) : f \in Members(stack')
  BY <1>1, <1>2, <1>3, Drained
<1>5. DataTyped'
  <2>1. pumps' \in 0..MaxPumps
    BY BoundsTyped DEF Tick, Deliver, IInv, DataTyped
  <2> QED
    BY <2>1 DEF DataTyped, IInv, Tick, given, flushState, queues, restores, latency, Commands
<1>6. LockInv' /\ DoneInv' /\ LatencyInv'
  BY <1>2, <1>4 DEF IInv, LockInv, DoneInv, given, LatencyInv, HostHolds, Admitted, restores, latency, Tick
<1> QED
  BY <1>1, <1>4, <1>5, <1>6, Quiet DEF IInv

LEMMA EditorTickKeeps ==
  ASSUME IInv, EditorTick
  PROVE  IInv'
<1> DEFINE a == Frame("editor", "poll")
<1>1. /\ stack # <<>> => Top.at \in {"dispatch", "callout"}
      /\ UNCHANGED <<given, queues>> /\ stack' = (AdoptFrames \o <<a>>) \o stack
  BY DEF EditorTick, Deliver
<1>2. a \in Frames /\ a.do = "editor" /\ a.at = "poll"
  BY FramesTyped
<1> HIDE DEF a
<1>3. Placed(a)
  BY <1>2 DEF Placed
<1>4. /\ StackHolds(stack')
      /\ \A f : f \in Members(stack')
                  => f = a \/ f \in Members(stack) \/ (f.do = "adopt" /\ f.at = "cell")
      /\ \A f \in Members(stack) : f \in Members(stack')
  BY <1>1, <1>2, <1>3, Drained
<1>5. DataTyped'
  <2>1. pumps' \in 0..MaxPumps
    BY BoundsTyped DEF EditorTick, Deliver, IInv, DataTyped
  <2> QED
    BY <2>1 DEF DataTyped, IInv, EditorTick, given, flushState, queues, restores, latency, Commands
<1>6. LockInv' /\ DoneInv' /\ LatencyInv'
  BY <1>2, <1>4 DEF IInv, LockInv, DoneInv, given, LatencyInv, HostHolds, Admitted, restores, latency, EditorTick
<1> QED
  BY <1>1, <1>4, <1>5, <1>6, Quiet DEF IInv

\* A latency moved by a write is reported at once, or put off.
LEMMA UpdateLatencyKeeps ==
  ASSUME IInv, UpdateLatency
  PROVE  IInv'
<1>1. /\ stack # <<>> /\ Top.at = "dispatch" /\ UNCHANGED <<given, queues>>
      /\ latencyUpdateRequest' = ~LatencyDeliveryIsSafe(1)
      /\ UNCHANGED <<given, edits, pumps, saves, queues, restores, apc>> /\ stale' = TRUE
  BY DEF UpdateLatency
<1>2. StackTyped(stack) /\ StackHolds(stack) /\ stack \in Seq(Frames)
  BY DEF IInv, StackHolds, StackTyped
<1>3. DataTyped'
  <2>1. moves' \in 0..MaxMoves
    <3>1. moves < MaxMoves /\ moves' = moves + 1
      BY DEF UpdateLatency
    <3>2. moves \in 0..MaxMoves
      BY DEF IInv, DataTyped
    <3> QED
      BY <3>1, <3>2, BoundsTyped
  <2>2. latencyUpdateRequest' \in BOOLEAN
    BY <1>1 DEF LatencyDeliveryIsSafe
  <2> QED
    BY <1>1, <2>1, <2>2 DEF DataTyped, IInv, given, flushState, queues, restores, Commands
<1>4. CASE ~LatencyDeliveryIsSafe(1)
  <2>1. stack' = stack
    BY <1>4 DEF UpdateLatency
  <2>2. LockInv' /\ DoneInv' /\ LatencyInv'
    BY <1>1, <1>4, <2>1 DEF IInv, LockInv, DoneInv, given, LatencyInv, HostHolds, Admitted, restores
  <2> QED
    BY <1>1, <1>2, <1>3, <2>1, <2>2, Quiet DEF IInv
<1>5. CASE LatencyDeliveryIsSafe(1)
  <2>1. Rest("dispatch") = stack
    <3>1. [Top EXCEPT !.at = "dispatch"] = Top
      BY <1>1, OnStack DEF Frames
    <3>2. <<Top>> \o Tail(stack) = stack
      BY <1>1, <1>2, Popping DEF Top
    <3> QED
      BY <3>1, <3>2 DEF Rest
  <2>2. stack' = <<Frame("latency", "deliver")>> \o stack
    BY <1>5, <2>1 DEF UpdateLatency, Call
  <2>3. \A g \in Members(stack) : ~Applying(g) /\ ~Admitted(g) /\ g \in Frames
    BY <1>2, <1>5, Reading, Within
  <2>4. /\ Frame("latency", "deliver").do = "latency" /\ Frame("latency", "deliver").at = "deliver"
        /\ Frame("knob", "dispatch") \in Frames
        /\ Frame("knob", "dispatch").do = "knob" /\ Frame("knob", "dispatch").at = "dispatch"
    BY FramesTyped
  <2>5. \A g \in Members(stack) : OnTop(Frame("knob", "dispatch"), g)
    <3>1. /\ \A g : g \in Members(stack) <=> g = Top \/ g \in Members(Tail(stack))
          /\ \A g \in Members(Tail(stack)) : OnTop(Top, g)
          /\ Placed(Top)
      BY <1>1, OnStack
    <3> QED
      BY <1>1, <2>4, <3>1 DEF OnTop, InGate, Placed
  <2>6. Called(Frame("knob", "dispatch"), Head(stack))
    BY <1>1, <2>4 DEF Called, InGate, Top
  <2>7. /\ StackHolds(stack')
        /\ \A f : f \in Members(stack') <=> f = Frame("latency", "deliver") \/ f \in Members(stack)
    BY <1>2, <2>2, <2>3, <2>5, <2>6, LatencyCalled
  <2>8. LockInv' /\ DoneInv' /\ LatencyInv'
    BY <1>1, <2>4, <2>7 DEF IInv, LockInv, DoneInv, given, LatencyInv, HostHolds, Admitted, restores
  <2> QED
    BY <1>1, <1>3, <2>7, <2>8, Quiet DEF IInv
<1> QED
  BY <1>4, <1>5

\* What the audio thread and the host thread do.
LEMMA OthersKeep ==
  ASSUME IInv, AudioMove \/ RequestLatencyUpdate \/ AnnounceRestore \/ HostLock \/ HostUnlock \/ HandOver
  PROVE  IInv'
<1>1. UNCHANGED <<given, queues, stack>>
  BY DEF AudioMove, RequestLatencyUpdate, AnnounceRestore, HostLock, HostUnlock, HandOver
<1>2. StackHolds(stack) /\ StackTyped(stack)
  BY DEF IInv, StackHolds
<1>3. DataTyped'
  <2>1. CASE AudioMove
    BY <2>1, BoundsTyped DEF AudioMove, IInv, DataTyped, given, flushState, queues, restores, Commands
  <2>2. CASE RequestLatencyUpdate
    BY <2>2 DEF RequestLatencyUpdate, IInv, DataTyped, given, bounds, flushState, queues, restores, Commands
  <2>3. CASE AnnounceRestore
    BY <2>3, BoundsTyped DEF AnnounceRestore, IInv, DataTyped, given, bounds, flushState, queues, latency, Commands
  <2>4. CASE HostLock
    <3>1. saves' \in 0..MaxSaves /\ hpc' \in {"writing", "saving"}
      <4>1. saves \in 0..MaxSaves /\ MaxSaves \in Nat
        BY BoundsTyped DEF IInv, DataTyped
      <4>2. /\ hpc' \in {"writing", "saving"}
            /\ saves' = saves \/ (saves < MaxSaves /\ saves' = saves + 1)
        BY <2>4 DEF HostLock
      <4> QED
        BY <4>1, <4>2
    <3> QED
      BY <2>4, <3>1 DEF HostLock, IInv, DataTyped, given, flushState, queues, latency, Commands
  <2>5. CASE HostUnlock
    BY <2>5 DEF HostUnlock, IInv, DataTyped, given, bounds, flushState, queues, latency, Commands
  <2>6. CASE HandOver
    BY <2>6 DEF HandOver, IInv, DataTyped, given, bounds, flushState, queues, latency, Commands
  <2> QED
    BY <2>1, <2>2, <2>3, <2>4, <2>5, <2>6
<1>4. LockInv' /\ DoneInv'
  <2>1. HostLock => \A f \in Members(stack) : ~Admitted(f) /\ ~(f.do = "adopt" /\ f.at = "dispatch")
    BY <1>2, Reading DEF HostLock
  <2>2. CASE HostLock
    BY <1>1, <2>1, <2>2 DEF IInv, LockInv, DoneInv, given, Admitted
  <2>3. CASE ~HostLock
    <3>1. HostHolds' => HostHolds
      BY <2>3 DEF AudioMove, RequestLatencyUpdate, AnnounceRestore, HostUnlock, HandOver, HostHolds,
                  restores
    <3> QED
      BY <1>1, <3>1 DEF IInv, LockInv, DoneInv, given, Admitted
  <2> QED
    BY <2>2, <2>3
<1>5. LatencyInv'
  BY <1>1 DEF IInv, LatencyInv, AudioMove, RequestLatencyUpdate, AnnounceRestore, HostLock, HostUnlock,
              HandOver, latency
<1> QED
  BY <1>1, <1>2, <1>3, <1>4, <1>5, Quiet DEF IInv

-----------------------------------------------------------------------------
(* A command is put off.                                                    *)

LEMMA Appending ==
  ASSUME NEW S, NEW x \in S, NEW s \in Seq(S)
  PROVE  /\ Append(s, x) \in Seq(S)
         /\ \A f : f \in Members(Append(s, x)) <=> f = x \/ f \in Members(s)
         /\ \A f, g : <<f, g>> \in Pairs(Append(s, x))
                        <=> <<f, g>> \in Pairs(s) \/ (f \in Members(s) /\ g = x)
<1>1. Append(s, x) = s \o <<x>>
  OBVIOUS
<1>2. <<x>> \in Seq(S) /\ Members(<<x>>) = {x} /\ Pairs(<<x>>) = {}
  BY Single
<1>3. /\ s \o <<x>> \in Seq(S)
      /\ \A f : f \in Members(s \o <<x>>) <=> f = x \/ f \in Members(s)
      /\ \A f, g : <<f, g>> \in Pairs(s \o <<x>>)
                     <=> <<f, g>> \in Pairs(s) \/ (f \in Members(s) /\ g = x)
  BY <1>2, Concat
<1> QED
  BY <1>1, <1>3

\* A call that is not the innermost one was interrupted by another.
LEMMA Above ==
  ASSUME IInv, stack # <<>>, NEW w \in Members(Tail(stack))
  PROVE  \E h \in Members(stack) : h \in Frames /\ <<h, w>> \in Neighbours(stack)
<1>1. stack \in Seq(Frames)
  BY DEF IInv, StackHolds, StackTyped
<1>2. /\ Len(stack) \in Nat \ {0} /\ DOMAIN stack = 1..Len(stack) /\ DOMAIN Tail(stack) = 1..Len(stack) - 1
      /\ \A i \in 1..Len(stack) - 1 : Tail(stack)[i] = stack[i + 1]
  BY <1>1
<1>3. PICK i \in DOMAIN Tail(stack) : Tail(stack)[i] = w
  BY DEF Members
<1>4. i \in DOMAIN stack /\ i + 1 \in DOMAIN stack /\ stack[i + 1] = w /\ stack[i] \in Frames
  BY <1>1, <1>2, <1>3
<1>5. <<stack[i], w>> \in Neighbours(stack)
  BY <1>4, Among
<1>6. stack[i] \in Members(stack)
  BY <1>4 DEF Members
<1> QED
  BY <1>4, <1>5, <1>6

\* There is one flush, and the command it has in hand is next to it.
LEMMA OneFlush ==
  ASSUME IInv
  PROVE  /\ \A v, w \in Members(stack) : v.do = "flush" /\ w.do = "flush" => v = w
         /\ \A f \in Members(stack) : f \in Frames
         /\ \A f, g : <<f, g>> \in Pairs(stack) => f \in Members(stack) /\ g \in Members(stack) /\ OnTop(f, g)
         /\ \A f, g : <<f, g>> \in Neighbours(stack) => <<f, g>> \in Pairs(stack) /\ Called(f, g)
<1>1. stack \in Seq(Frames) /\ StackInv(stack) /\ CallInv(stack)
  BY DEF IInv, StackHolds, StackTyped
<1>2. /\ \A f \in Members(stack) : f \in Frames
      /\ \A f, g : <<f, g>> \in Pairs(stack) => f \in Members(stack) /\ g \in Members(stack)
      /\ \A f, g : <<f, g>> \in Neighbours(stack) => <<f, g>> \in Pairs(stack)
  BY <1>1, Within
<1>3. /\ \A f, g : <<f, g>> \in Pairs(stack) => OnTop(f, g)
      /\ \A f, g : <<f, g>> \in Neighbours(stack) => Called(f, g)
  BY <1>1, <1>2 DEF StackInv, CallInv
<1>4. ASSUME NEW v \in Members(stack), NEW w \in Members(stack), v.do = "flush", w.do = "flush"
      PROVE  v = w
  <2>1. PICK i \in 1..Len(stack) : v = stack[i]
    BY <1>1 DEF Members
  <2>2. PICK j \in 1..Len(stack) : w = stack[j]
    BY <1>1 DEF Members
  <2>3. Len(stack) \in Nat /\ DOMAIN stack = 1..Len(stack)
    BY <1>1
  <2>4. CASE i < j
    <3>1. <<v, w>> \in Pairs(stack)
      BY <2>1, <2>2, <2>3, <2>4, Among
    <3> QED
      BY <1>3, <1>4, <3>1 DEF OnTop
  <2>5. CASE j < i
    <3>1. <<w, v>> \in Pairs(stack)
      BY <2>1, <2>2, <2>3, <2>5, Among
    <3> QED
      BY <1>3, <1>4, <3>1 DEF OnTop
  <2>6. CASE i = j
    BY <2>1, <2>2, <2>6
  <2> QED
    BY <2>3, <2>4, <2>5, <2>6
<1> QED
  BY <1>2, <1>3, <1>4

\* The one in hand made no progress just when it is still in its gate: what was put
\* off meanwhile was given during the adoption that its gate had made.
LEMMA Refusing ==
  ASSUME IInv, stack # <<>>, InGate(Top), NEW w \in Members(stack), w.do = "flush", w.at = "after"
  PROVE  /\ w \in Members(Tail(stack))
         /\ NoProgress => Members(produced) \subseteq interrupting
         /\ Hand(stack, Top) => NoProgress
<1>1. StackTyped(stack) /\ stack \in Seq(Frames)
  BY DEF IInv, StackHolds, StackTyped
<1>2. w \in Members(Tail(stack)) /\ w \in Frames
  BY OnStack, OneFlush DEF InGate
<1>3. NoProgress <=>
        /\ \A f \in Members(stack) : ~Transacting(f)
        /\ \A f, v \in Frames : <<f, v>> \in Pairs(stack) /\ v.do = "flush" => ~Admitted(f)
  BY <1>1, ReadingProgress
<1>4. ASSUME NoProgress PROVE Members(produced) \subseteq interrupting
  <2>1. PICK h \in Members(stack) : h \in Frames /\ <<h, w>> \in Neighbours(stack)
    BY <1>2, Above
  <2>2. h.do = "command" /\ ~Admitted(h) /\ Placed(h)
    BY <1>2, <1>3, <1>4, <2>1, OneFlush DEF Called, IInv, StackHolds, StackTyped
  <2>3. InGate(h) /\ Hand(stack, h)
    BY <2>1, <2>2 DEF InGate, Hand, Placed, Admitted
  <2> QED
    BY <2>3 DEF IInv, StackHolds, GateInv, Oldest
<1>5. ASSUME Hand(stack, Top) PROVE NoProgress
  <2>1. <<Top, w>> \in Neighbours(stack)
    BY <1>5, OneFlush DEF Hand
  <2>2. /\ Tail(stack) \in Seq(Frames)
        /\ \A f, g : <<f, g>> \in Pairs(stack)
                       <=> <<f, g>> \in Pairs(Tail(stack)) \/ (f = Top /\ g \in Members(Tail(stack)))
        /\ \A f, g : <<f, g>> \in Neighbours(stack)
                       <=> \/ <<f, g>> \in Neighbours(Tail(stack))
                           \/ f = Top /\ Tail(stack) # <<>> /\ g = Head(Tail(stack))
        /\ \A f : f \in Members(stack) <=> f = Top \/ f \in Members(Tail(stack))
    BY <1>1, Popping DEF Top
  <2> DEFINE t == Tail(stack)
  <2>3. t \in Seq(Frames) /\ t # <<>>
    BY <1>2, <2>2, Empty
  <2>4. /\ \A f, g : <<f, g>> \in Pairs(t) => f \in Members(t) /\ g \in Members(t)
        /\ \A f, g : <<f, g>> \in Neighbours(t) => <<f, g>> \in Pairs(t)
    BY <2>3, Within
  <2>5. Top \notin Members(t)
    BY <2>2, OneFlush DEF OnTop, InGate
  <2>6. w = Head(t)
    BY <2>1, <2>2, <2>4, <2>5
  <2> HIDE DEF t
  <2>7. /\ \A f, g : <<f, g>> \in Pairs(t) <=> <<f, g>> \in Pairs(Tail(t)) \/ (f = Head(t) /\ g \in Members(Tail(t)))
        /\ \A f : f \in Members(t) <=> f = Head(t) \/ f \in Members(Tail(t))
        /\ Tail(t) \in Seq(Frames)
    BY <2>3, Popping
  <2>8. \A f, g : <<f, g>> \in Pairs(Tail(t)) => f \in Members(Tail(t)) /\ g \in Members(Tail(t))
    BY <2>7, Within
  <2>9. w \notin Members(Tail(t))
    BY <2>2, <2>6, <2>7, OneFlush DEF OnTop, t
  <2>10. ASSUME NEW f \in Frames, NEW v \in Frames, <<f, v>> \in Pairs(stack), v.do = "flush"
         PROVE  ~Admitted(f)
    <3>1. v = w
      BY <2>10, OneFlush
    <3>2. <<f, w>> \in Pairs(t) => f = w
      BY <2>6, <2>7, <2>8, <2>9
    <3> QED
      BY <2>2, <2>10, <3>1, <3>2 DEF InGate, Admitted, t
  <2>11. ASSUME NEW f \in Members(stack) PROVE ~Transacting(f)
    <3>1. CASE f = Top
      BY <3>1 DEF InGate, Transacting
    <3>2. CASE f = w
      BY <3>2 DEF Transacting
    <3>3. CASE f \in Members(Tail(t))
      <4>1. <<w, f>> \in Pairs(stack)
        BY <2>2, <2>6, <2>7, <3>3 DEF t
      <4> QED
        BY <4>1, OneFlush DEF OnTop, Transacting
    <3> QED
      BY <2>2, <2>6, <2>7, <3>1, <3>2, <3>3 DEF t
  <2> QED
    BY <1>3, <2>10, <2>11
<1> QED
  BY <1>2, <1>4, <1>5

\* A queue with one more at its end, whose place it is.
LEMMA DeferQueues ==
  ASSUME IInv, stack # <<>>, InGate(Top), Defer(Top.cmd), UNCHANGED given
  PROVE  /\ \A f : f \in Waiting' <=> f = Top.cmd \/ f \in Waiting
         /\ {deferredCommands, queued, spawned, produced}' \subseteq Seq(Commands)
         /\ QueuesInv'
         /\ deferredSinkRefused' \in BOOLEAN
         /\ \/ /\ \E w \in Members(Tail(stack)) : w.do = "flush" /\ w.at = "after"
               /\ UNCHANGED <<deferredCommands, queued, spawned>>
               /\ \A f : f \in Members(produced)' <=> f = Top.cmd \/ f \in Members(produced)
               /\ deferredSinkRefused' = (deferredSinkRefused \/ NoProgress)
            \/ /\ \A w \in Members(stack) : ~(w.do = "flush" /\ w.at = "after")
               /\ UNCHANGED flushState
<1> DEFINE c == Top.cmd
<1>1. StackTyped(stack) /\ HeldOnce(Top) /\ GateInv(stack)
  BY OnStack DEF IInv, StackHolds, InGate
<1>2. c \in Commands /\ c \notin Waiting /\ c \notin ran
  BY <1>1 DEF HeldOnce, InGate
<1>3. /\ DataTyped /\ QueuesInv
      /\ {deferredCommands, queued, spawned, produced} \subseteq Seq(Commands)
      /\ Members(deferredCommands) \subseteq Commands /\ Members(queued) \subseteq Commands
      /\ Members(spawned) \subseteq Commands /\ Members(produced) \subseteq Commands
  <2>1. DataTyped /\ QueuesInv /\ {deferredCommands, queued, spawned, produced} \subseteq Seq(Commands)
    BY DEF IInv, DataTyped
  <2> QED
    BY <2>1, Within
<1>4. Top \in Members(stack)
  BY OnStack
<1>5. IF Hand(stack, Top) THEN Oldest(c) ELSE Youngest(c)
  BY <1>1, <1>4 DEF GateInv
<1>6. Commands' = Commands /\ ran' = ran /\ interrupting' = interrupting
  BY DEF Commands, given
<1> HIDE DEF c
<1>7. CASE \E f \in Members(stack) : f.do = "flush" /\ f.at = "after"
  <2>1. PICK w \in Members(stack) : w.do = "flush" /\ w.at = "after"
    BY <1>7
  <2>2. /\ w \in Members(Tail(stack))
        /\ NoProgress => Members(produced) \subseteq interrupting
        /\ Hand(stack, Top) => NoProgress
    BY <2>1, Refusing
  <2>3. /\ produced' = Append(produced, c)
        /\ deferredSinkRefused' = (deferredSinkRefused \/ NoProgress)
        /\ UNCHANGED <<deferredCommands, queued, spawned>>
    BY <1>1, <1>7, Reading DEF Defer, c
  <2>4. /\ produced' \in Seq(Commands)
        /\ \A f : f \in Members(produced') <=> f = c \/ f \in Members(produced)
        /\ \A f, g : <<f, g>> \in Pairs(produced')
                       <=> <<f, g>> \in Pairs(produced) \/ (f \in Members(produced) /\ g = c)
    BY <1>2, <1>3, <2>3, Appending
  <2>5. \A f : f \in Waiting' <=> f = c \/ f \in Waiting
    BY <2>3, <2>4 DEF Waiting
  <2>6. \A a \in Members(produced) : Fine(a, c)
    <3>1. CASE Hand(stack, Top)
      BY <1>2, <1>5, <3>1 DEF Oldest, Fine, InOrder, Waiting
    <3>2. CASE ~Hand(stack, Top)
      BY <1>2, <1>5, <3>2 DEF Youngest, Fine, Waiting
    <3> QED
      BY <3>1, <3>2
  <2>7. c \in interrupting \/ Hand(stack, Top) \/ (~deferredSinkRefused /\ ~NoProgress)
    <3>1. SUFFICES ASSUME c \notin interrupting, ~Hand(stack, Top)
                   PROVE  ~deferredSinkRefused /\ ~NoProgress
      OBVIOUS
    <3>2. <<Top, w>> \in Pairs(stack) /\ Top \in Frames /\ w \in Frames
      <4>1. stack \in Seq(Frames)
        BY <1>1 DEF StackTyped
      <4> QED
        BY <2>2, <4>1, Popping, OnStack DEF Top
    <3>3. ~deferredSinkRefused /\ \E g \in Members(stack) : Admitted(g) /\ <<g, w>> \in Pairs(stack)
      BY <2>1, <3>1, <3>2 DEF IInv, StackHolds, FreshInv, c
    <3>4. ~NoProgress
      BY <1>1, <2>1, <3>2, <3>3, ReadingProgress, OneFlush
    <3> QED
      BY <3>3, <3>4
  <2>8. \A a \in Members(queued) \cup Members(spawned), b \in Members(produced') :
          IF deferredSinkRefused' THEN Fine(b, a) ELSE Fine(a, b)
    <3> SUFFICES ASSUME NEW a \in Members(queued) \cup Members(spawned), NEW b \in Members(produced')
                 PROVE  IF deferredSinkRefused' THEN Fine(b, a) ELSE Fine(a, b)
      OBVIOUS
    <3>1. CASE b = c
      <4>1. a # c /\ a \in Waiting
        BY <1>2 DEF Waiting
      <4>2. CASE c \in interrupting
        BY <3>1, <4>1, <4>2 DEF Fine, InOrder
      <4>3. CASE Hand(stack, Top)
        <5>1. deferredSinkRefused' = TRUE
          BY <2>2, <2>3, <4>3 DEF IInv, DataTyped
        <5> QED
          BY <1>5, <3>1, <4>1, <4>3, <5>1 DEF Fine, Oldest
      <4>4. CASE ~deferredSinkRefused /\ ~NoProgress /\ ~Hand(stack, Top)
        <5>1. ~deferredSinkRefused'
          BY <2>3, <4>4
        <5> QED
          BY <1>5, <3>1, <4>1, <4>4, <5>1 DEF Fine, Youngest
      <4> QED
        BY <2>7, <4>2, <4>3, <4>4
    <3>2. CASE b \in Members(produced)
      <4>1. IF deferredSinkRefused THEN Fine(b, a) ELSE Fine(a, b)
        BY <1>3, <3>2 DEF QueuesInv
      <4>2. CASE NoProgress
        BY <2>2, <3>2, <4>1, <4>2 DEF Fine, InOrder
      <4>3. CASE ~NoProgress
        BY <2>3, <4>1, <4>3 DEF IInv, DataTyped
      <4> QED
        BY <4>2, <4>3
    <3> QED
      BY <2>4, <3>1, <3>2
  <2>9. \A a, b \in Commands : <<a, b>> \in Pairs(produced') => Fine(a, b)
    BY <1>3, <2>4, <2>6 DEF QueuesInv
  <2>10. QueuesInv'
    <3>1. \A a, b : Fine(a, b)' <=> Fine(a, b)
      BY <1>6 DEF Fine, InOrder
    <3>2. Waiting' \cap ran' = {}
      BY <1>2, <1>3, <1>6, <2>5 DEF QueuesInv
    <3> QED
      BY <1>3, <1>6, <2>3, <2>8, <2>9, <3>1, <3>2 DEF QueuesInv
  <2>11. {deferredCommands, queued, spawned, produced}' \subseteq Seq(Commands)
    BY <1>3, <2>3, <2>4
  <2>12. deferredSinkRefused' \in BOOLEAN
    BY <2>3 DEF NoProgress
  <2> QED
    BY <2>1, <2>2, <2>3, <2>4, <2>5, <2>10, <2>11, <2>12 DEF c
<1>8. CASE ~\E f \in Members(stack) : f.do = "flush" /\ f.at = "after"
  <2>1. deferredCommands' = Append(deferredCommands, c) /\ UNCHANGED flushState
    BY <1>1, <1>8, Reading DEF Defer, c
  <2>2. /\ deferredCommands' \in Seq(Commands)
        /\ \A f : f \in Members(deferredCommands') <=> f = c \/ f \in Members(deferredCommands)
        /\ \A f, g : <<f, g>> \in Pairs(deferredCommands')
                       <=> \/ <<f, g>> \in Pairs(deferredCommands)
                           \/ f \in Members(deferredCommands) /\ g = c
    BY <1>2, <1>3, <2>1, Appending
  <2>3. \A f : f \in Waiting' <=> f = c \/ f \in Waiting
    BY <2>1, <2>2 DEF Waiting, flushState
  <2>4. \A a \in Members(deferredCommands) : Fine(a, c)
    BY <1>2, <1>5, <1>8 DEF Hand, Youngest, Fine, Waiting
  <2>5. \A a, b \in Commands : <<a, b>> \in Pairs(deferredCommands') => Fine(a, b)
    BY <1>3, <2>2, <2>4 DEF QueuesInv
  <2>6. QueuesInv'
    <3>1. \A a, b : Fine(a, b)' <=> Fine(a, b)
      BY <1>6 DEF Fine, InOrder
    <3>2. Waiting' \cap ran' = {}
      BY <1>2, <1>3, <1>6, <2>3 DEF QueuesInv
    <3> QED
      BY <1>3, <1>6, <2>1, <2>5, <3>1, <3>2 DEF QueuesInv, flushState
  <2>7. {deferredCommands, queued, spawned, produced}' \subseteq Seq(Commands)
    BY <1>3, <2>1, <2>2 DEF flushState
  <2>8. deferredSinkRefused' \in BOOLEAN
    BY <1>3, <2>1 DEF DataTyped, flushState
  <2> QED
    BY <1>8, <2>1, <2>3, <2>6, <2>7, <2>8 DEF c
<1> QED
  BY <1>7, <1>8

\* What is left of the gate's caller when its command has been put off.
LEMMA DeferKeeps ==
  ASSUME IInv, stack # <<>>, InGate(Top), Defer(Top.cmd), Return,
         UNCHANGED <<given, bounds, restores, latency>>
  PROVE  IInv'
<1> DEFINE c == Top.cmd
           t == Tail(stack)
<1>1. /\ stack \in Seq(Frames) /\ stack' = t /\ t \in Seq(Frames) /\ Top.do = "command"
      /\ StackHolds(stack)
  BY OnStack DEF IInv, StackHolds, StackTyped, Return, Goto, Rest, InGate
<1>2. /\ \A f : f \in Members(stack) <=> f = Top \/ f \in Members(t)
      /\ \A f, g : <<f, g>> \in Pairs(stack) <=> <<f, g>> \in Pairs(t) \/ (f = Top /\ g \in Members(t))
      /\ \A f, g : <<f, g>> \in Neighbours(stack)
                     <=> <<f, g>> \in Neighbours(t) \/ (f = Top /\ t # <<>> /\ g = Head(t))
  BY <1>1, Popping DEF Top
<1>3. /\ \A f \in Members(stack) : f \in Frames
      /\ \A v, w \in Members(stack) : v.do = "flush" /\ w.do = "flush" => v = w
      /\ \A f, g : <<f, g>> \in Pairs(stack) => f \in Members(stack) /\ g \in Members(stack) /\ OnTop(f, g)
      /\ \A f, g : <<f, g>> \in Neighbours(stack) => <<f, g>> \in Pairs(stack) /\ Called(f, g)
  BY OneFlush
<1>4. /\ \A f, g : <<f, g>> \in Pairs(t) => f \in Members(t) /\ g \in Members(t)
      /\ \A f, g : <<f, g>> \in Neighbours(t) => <<f, g>> \in Pairs(t)
  BY <1>1, Within
<1>5. /\ \A f : f \in Waiting' <=> f = c \/ f \in Waiting
      /\ {deferredCommands, queued, spawned, produced}' \subseteq Seq(Commands)
      /\ QueuesInv'
      /\ deferredSinkRefused' \in BOOLEAN
      /\ \/ /\ \E w \in Members(t) : w.do = "flush" /\ w.at = "after"
            /\ UNCHANGED <<deferredCommands, queued, spawned>>
            /\ \A f : f \in Members(produced)' <=> f = c \/ f \in Members(produced)
            /\ deferredSinkRefused' = (deferredSinkRefused \/ NoProgress)
         \/ /\ \A w \in Members(stack) : ~(w.do = "flush" /\ w.at = "after")
            /\ UNCHANGED flushState
  BY DeferQueues
<1>6. \A f \in Members(t) : f \in Frames /\ OnTop(Top, f)
  BY <1>2, <1>3
<1>7. /\ Commands' = Commands /\ ran' = ran /\ interrupting' = interrupting /\ kind' = kind
      /\ \A f, g : (OnTop(f, g) <=> OnTop(f, g)') /\ (Called(f, g) <=> Called(f, g)')
      /\ \A f : (Placed(f) <=> Placed(f)') /\ (InGate(f) <=> InGate(f)') /\ (Admitted(f) <=> Admitted(f)')
      /\ \A a, b : InOrder(a, b) <=> InOrder(a, b)'
  <2>1. UNCHANGED <<kind, ran, interrupting>>
    BY DEF given
  <2> QED
    BY <2>1 DEF Commands, OnTop, Called, Placed, InGate, Admitted, InOrder, Applying, Transacting
<1>8. \A f \in Members(t) : f.do = "command" => f.cmd # c
  BY <1>1, <1>6 DEF OnTop
<1> HIDE DEF c, t
<1>9. \A f \in Members(t) : f.do = "command" => (Hand(stack, f) <=> Hand(t, f))
  BY <1>2, <1>3, <1>4, <1>8, <1>1 DEF Hand, c
<1>10. StackTyped(stack)' /\ StackInv(stack)' /\ CallInv(stack)'
  BY <1>1, <1>2, <1>7 DEF StackHolds, StackTyped, StackInv, CallInv, Frames
<1>11. FlushInv(stack)'
  <2>1. (\A w \in Members(t) : w.do # "flush") => EmptyBatch'
    BY <1>1, <1>2, <1>5 DEF StackHolds, FlushInv, EmptyBatch, flushState
  <2>2. ASSUME NEW w \in Members(t), w.do = "flush" PROVE Reached(w)'
    <3>1. Reached(w) /\ w.at \in {"try", "after"}
      BY <1>1, <1>2, <1>6, <2>2 DEF StackHolds, FlushInv, OnTop, Placed, StackTyped
    <3>2. CASE w.at = "after"
      BY <1>2, <1>5, <2>2, <3>1, <3>2 DEF Reached
    <3>3. CASE w.at = "try"
      <4>1. UNCHANGED flushState
        BY <1>2, <1>3, <1>5, <2>2, <3>3
      <4> QED
        BY <3>1, <3>3, <4>1 DEF Reached, EmptyBatch, flushState
    <3> QED
      BY <3>1, <3>2, <3>3
  <2> QED
    BY <1>1, <2>1, <2>2 DEF FlushInv
<1>12. PlaceInv(stack)'
  <2>1. ASSUME NEW f \in Members(t), f.do = "command" PROVE HeldOnce(f)'
    <3>1. HeldOnce(f)
      BY <1>1, <1>2, <2>1 DEF StackHolds, PlaceInv
    <3> QED
      BY <1>5, <1>7, <1>8, <2>1, <3>1 DEF HeldOnce
  <2>2. ASSUME NEW d \in Commands \ ran
        PROVE  d \in Waiting' \/ \E f \in Members(t) : f.do = "command" /\ f.cmd = d
    BY <1>1, <1>2, <1>5 DEF StackHolds, PlaceInv, c
  <2> QED
    BY <1>1, <1>7, <2>1, <2>2 DEF PlaceInv
<1>13. GateInv(stack)'
  <2>1. ASSUME NEW f \in Members(t), InGate(f)
        PROVE  IF Hand(t, f) THEN Oldest(f.cmd)' ELSE Youngest(f.cmd)'
    <3>1. f \in Frames /\ f.do = "command" /\ Top \in Frames /\ InGate(Top)
      BY <1>1, <1>2, <1>3, <1>6, <2>1 DEF InGate
    <3>2. <<Top, f>> \in Pairs(stack)
      BY <1>2
    <3>3. IF Hand(stack, f) THEN c \in interrupting ELSE InOrder(c, f.cmd)
      BY <1>1, <2>1, <3>1, <3>2 DEF StackHolds, GateInv, c
    <3>4. IF Hand(stack, f) THEN Oldest(f.cmd) ELSE Youngest(f.cmd)
      BY <1>1, <1>2, <2>1 DEF StackHolds, GateInv
    <3>5. CASE Hand(t, f)
      <4>1. \E w \in Members(stack) : w.do = "flush" /\ w.at = "after"
        BY <1>2, <3>5 DEF Hand
      <4>2. /\ UNCHANGED <<deferredCommands, queued, spawned>>
            /\ \A g : g \in Members(produced)' <=> g = c \/ g \in Members(produced)
        BY <1>5, <4>1
      <4> QED
        BY <1>7, <1>9, <3>1, <3>3, <3>4, <3>5, <4>2 DEF Oldest
    <3>6. CASE ~Hand(t, f)
      BY <1>5, <1>7, <1>9, <3>1, <3>3, <3>4, <3>6 DEF Youngest
    <3> QED
      BY <3>5, <3>6
  <2>2. ASSUME NEW f \in Frames, NEW g \in Frames, <<f, g>> \in Pairs(t), InGate(f), InGate(g)
        PROVE  IF Hand(t, g) THEN f.cmd \in interrupting ELSE InOrder(f.cmd, g.cmd)
    <3>1. g \in Members(t) /\ g.do = "command" /\ <<f, g>> \in Pairs(stack)
      BY <1>2, <1>4, <2>2 DEF InGate
    <3> QED
      BY <1>1, <1>9, <2>2, <3>1 DEF StackHolds, GateInv
  <2>3. \A f : Hand(stack, f)' <=> Hand(t, f)
    BY <1>1 DEF Hand
  <2> QED
    BY <1>1, <1>7, <2>1, <2>2, <2>3 DEF GateInv, Frames
<1>14. FreshInv(stack)'
  <2>1. ASSUME NEW f \in Frames, NEW w \in Frames, <<f, w>> \in Pairs(t), InGate(f), ~Hand(t, f),
               f.cmd \notin interrupting, w.do = "flush", w.at = "after"
        PROVE  /\ ~deferredSinkRefused'
               /\ \E g \in Members(t) : Admitted(g) /\ <<f, g>> \in Pairs(t) /\ <<g, w>> \in Pairs(t)
    <3>1. f \in Members(t) /\ w \in Members(t) /\ <<f, w>> \in Pairs(stack) /\ ~Hand(stack, f)
      BY <1>2, <1>4, <1>9, <2>1 DEF InGate
    <3>2. ~deferredSinkRefused /\ \E g \in Members(stack) : Admitted(g) /\ <<f, g>> \in Pairs(stack) /\ <<g, w>> \in Pairs(stack)
      BY <1>1, <2>1, <3>1 DEF StackHolds, FreshInv
    <3>3. PICK g \in Members(stack) : Admitted(g) /\ <<f, g>> \in Pairs(stack) /\ <<g, w>> \in Pairs(stack)
      BY <3>2
    <3>4. f # Top
      BY <1>8, <2>1, <3>1 DEF InGate, c
    <3>5. <<f, g>> \in Pairs(t) /\ g \in Members(t)
      BY <1>2, <1>4, <3>3, <3>4
    <3>6. g # Top
      BY <3>3 DEF Admitted, InGate
    <3>7. <<g, w>> \in Pairs(t)
      BY <1>2, <3>3, <3>6
    <3>8. ~NoProgress
      <4>1. StackTyped(stack)
        BY <1>1 DEF StackHolds
      <4> QED
        BY <1>3, <2>1, <3>1, <3>3, <4>1, ReadingProgress
    <3>9. deferredSinkRefused' = (deferredSinkRefused \/ NoProgress)
      BY <1>2, <1>5, <2>1, <3>1
    <3> QED
      BY <3>2, <3>3, <3>5, <3>7, <3>8, <3>9
  <2>2. \A f : Hand(stack, f)' <=> Hand(t, f)
    BY <1>1 DEF Hand
  <2> QED
    BY <1>1, <1>7, <2>1, <2>2 DEF FreshInv, Frames
<1>15. StackHolds(stack)'
  BY <1>1, <1>10, <1>11, <1>12, <1>13, <1>14 DEF StackHolds
<1>16. DataTyped'
  BY <1>5, <1>7 DEF DataTyped, IInv, given, bounds, restores, latency
<1>17. LockInv' /\ DoneInv'
  BY <1>1, <1>2, <1>7 DEF IInv, LockInv, DoneInv, HostHolds, Admitted, restores
<1>18. LatencyInv'
  BY <1>1, <1>2 DEF IInv, LatencyInv, latency, InGate
<1> QED
  BY <1>5, <1>15, <1>16, <1>17, <1>18 DEF IInv

LEMMA GateKeeps ==
  ASSUME IInv, GateRefuses \/ GateDrained \/ GateTries
  PROVE  IInv'
<1>1. /\ stack # <<>> /\ Top.do = "command" /\ InGate(Top) /\ Top \in Frames
      /\ UNCHANGED <<given, bounds, restores, latency>>
  BY OnStack DEF GateRefuses, GateDrained, GateTries, At, InGate
<1>2. CASE Defer(Top.cmd) /\ Return
  BY <1>1, <1>2, DeferKeeps
<1>3. CASE Top.at = "drained" /\ Goto("try") /\ UNCHANGED queues
  BY <1>1, <1>3, GateGoesOn
<1>4. CASE Top.at = "try" /\ Goto("begin") /\ ~HostHolds /\ UNCHANGED queues
  BY <1>1, <1>4, GateLetsIn
<1> QED
  BY <1>2, <1>3, <1>4 DEF GateRefuses, GateDrained, GateTries, At

-----------------------------------------------------------------------------
(* The flush.                                                               *)

\* It hands what waits from queue to queue, with no command in hand after it.
LEMMA FlushHolds ==
  ASSUME IInv, stack # <<>>, Top.do = "flush", UNCHANGED given,
         NEW at \in {"next", "loop", "out"}, Goto(at),
         at \in {"loop", "out"} => EmptyBatch',
         at = "next" => deferredCommands' = <<>> /\ produced' = <<>> /\ ~deferredSinkRefused',
         \A f : f \in Waiting' <=> f \in Waiting
  PROVE  /\ StackHolds(stack)'
         /\ \A f : f \in Members(stack')
                     <=> f \in Members(Tail(stack)) \/ (at # "out" /\ f = Turned(at))
<1> DEFINE t == Tail(stack)
           u == Rest(at)
           a == Turned(at)
<1>1. /\ stack \in Seq(Frames) /\ StackHolds(stack) /\ Top \in Frames /\ t \in Seq(Frames)
      /\ \A f : f \in Members(stack) <=> f = Top \/ f \in Members(t)
      /\ \A g \in Members(t) : g \in Frames /\ OnTop(Top, g)
      /\ t # <<>> => Head(t) \in Members(stack) /\ Called(Top, Head(t))
  BY OnStack DEF IInv, StackHolds, StackTyped
<1>2. /\ \A f, g : <<f, g>> \in Pairs(stack) <=> <<f, g>> \in Pairs(t) \/ (f = Top /\ g \in Members(t))
      /\ \A f, g : <<f, g>> \in Neighbours(stack)
                     <=> <<f, g>> \in Neighbours(t) \/ (f = Top /\ t # <<>> /\ g = Head(t))
  BY <1>1, Popping DEF Top
<1>3. /\ \A f, g : <<f, g>> \in Pairs(t) => f \in Members(t) /\ g \in Members(t)
      /\ \A f, g : <<f, g>> \in Neighbours(t) => <<f, g>> \in Pairs(t)
  BY <1>1, Within
<1>4. (a \in Frames /\ a.do = "flush" /\ a.at = at) \/ at = "out"
  BY <1>1, TurnedTyped
<1> HIDE DEF t
<1>5. /\ stack' = u /\ u \in Seq(Frames)
      /\ \A f : f \in Members(u) <=> f \in Members(t) \/ (at # "out" /\ f = a)
      /\ \A f, g : <<f, g>> \in Pairs(u)
                     <=> <<f, g>> \in Pairs(t) \/ (at # "out" /\ f = a /\ g \in Members(t))
      /\ \A f, g : <<f, g>> \in Neighbours(u)
                     <=> <<f, g>> \in Neighbours(t) \/ (at # "out" /\ f = a /\ t # <<>> /\ g = Head(t))
  <2>1. stack' = u
    BY DEF Goto
  <2>2. CASE at = "out"
    <3>1. u = t
      BY <2>2 DEF Rest, t
    <3> QED
      BY <1>1, <2>1, <2>2, <3>1
  <2>3. CASE at # "out"
    <3>1. u = <<a>> \o t
      BY <2>3 DEF Rest, Turned, t
    <3> HIDE DEF a, u
    <3>2. LET v == <<a>> \o t
          IN  /\ v \in Seq(Frames)
              /\ \A f : f \in Members(v) <=> f = a \/ f \in Members(t)
              /\ \A f, g : <<f, g>> \in Pairs(v) <=> <<f, g>> \in Pairs(t) \/ (f = a /\ g \in Members(t))
              /\ \A f, g : <<f, g>> \in Neighbours(v)
                             <=> <<f, g>> \in Neighbours(t) \/ (f = a /\ t # <<>> /\ g = Head(t))
      BY <1>1, <1>4, <2>3, Pushing
    <3> QED
      BY <2>1, <2>3, <3>1, <3>2
  <2> QED
    BY <2>2, <2>3
<1> HIDE DEF a, u
<1>6. /\ Commands' = Commands /\ ran' = ran /\ interrupting' = interrupting
      /\ \A f, g : (OnTop(f, g) <=> OnTop(f, g)') /\ (Called(f, g) <=> Called(f, g)')
      /\ \A f : (Placed(f) <=> Placed(f)') /\ (InGate(f) <=> InGate(f)')
      /\ \A b, c : InOrder(b, c) <=> InOrder(b, c)'
      /\ \A f : HeldOnce(f) <=> HeldOnce(f)'
  <2>1. UNCHANGED <<kind, ran, interrupting>>
    BY DEF given
  <2>2. Commands' = Commands
    BY <2>1 DEF Commands
  <2>3. \A f : HeldOnce(f) <=> HeldOnce(f)'
    BY <2>1, <2>2 DEF HeldOnce
  <2> QED
    BY <2>1, <2>2, <2>3 DEF OnTop, Called, Placed, InGate, InOrder, Applying, Transacting, Admitted
<1>7. \A f \in Members(t) : f.do # "flush"
  BY <1>1 DEF OnTop
<1>8. \A f \in Members(u) : ~(f.do = "flush" /\ f.at = "after")
  BY <1>4, <1>5, <1>7
<1>9. \A f \in Members(t) : ~Hand(stack, f) /\ ~Hand(u, f)
  BY <1>1, <1>2, <1>3, <1>7, <1>8 DEF Hand
<1>10. StackTyped(stack)' /\ StackInv(stack)' /\ CallInv(stack)'
  <2>1. at # "out" => Placed(a) /\ \A g \in Members(t) : OnTop(a, g)
    BY <1>1, <1>4 DEF Placed, OnTop, InGate
  <2>2. at # "out" /\ t # <<>> => Called(a, Head(t))
    BY <1>1, <1>4 DEF Called
  <2>3. StackTyped(u)
    BY <1>1, <1>5, <2>1 DEF StackHolds, StackTyped
  <2>4. StackInv(u)
    BY <1>1, <1>2, <1>5, <2>1 DEF StackHolds, StackInv
  <2>5. CallInv(u)
    BY <1>1, <1>2, <1>5, <2>2 DEF StackHolds, CallInv
  <2> QED
    BY <1>5, <1>6, <2>3, <2>4, <2>5 DEF StackTyped, StackInv, CallInv, Frames
<1>11. FlushInv(stack)'
  <2>1. \A w \in Members(u) : w.do = "flush" => Reached(w)'
    BY <1>4, <1>5, <1>7 DEF Reached
  <2>2. (\A w \in Members(u) : w.do # "flush") => EmptyBatch'
    BY <1>4, <1>5
  <2> QED
    BY <1>5, <2>1, <2>2 DEF FlushInv
<1>12. PlaceInv(stack)'
  <2>1. \A f \in Members(u) : f.do = "command" => f \in Members(stack)
    BY <1>1, <1>4, <1>5
  <2>2. \A f \in Members(stack) : f.do = "command" => f \in Members(u)
    BY <1>1, <1>5
  <2> QED
    BY <1>1, <1>5, <1>6, <2>1, <2>2 DEF StackHolds, PlaceInv
<1>13. GateInv(stack)'
  <2>1. ASSUME NEW f \in Members(u), InGate(f) PROVE ~Hand(u, f) /\ Youngest(f.cmd)'
    <3>1. f \in Members(t)
      BY <1>4, <1>5, <2>1 DEF InGate
    <3>2. Youngest(f.cmd)
      BY <1>1, <1>9, <2>1, <3>1 DEF StackHolds, GateInv
    <3> QED
      BY <1>6, <1>9, <3>1, <3>2 DEF Youngest
  <2>2. ASSUME NEW f \in Frames, NEW g \in Frames, <<f, g>> \in Pairs(u), InGate(f), InGate(g)
        PROVE  ~Hand(u, g) /\ InOrder(f.cmd, g.cmd)
    <3>1. <<f, g>> \in Pairs(t) /\ g \in Members(t) /\ <<f, g>> \in Pairs(stack)
      BY <1>2, <1>3, <1>4, <1>5, <2>2 DEF InGate
    <3> QED
      BY <1>1, <1>9, <2>2, <3>1 DEF StackHolds, GateInv
  <2>3. \A f : Hand(stack, f)' <=> Hand(u, f)
    BY <1>5 DEF Hand
  <2> QED
    BY <1>5, <1>6, <2>1, <2>2, <2>3 DEF GateInv, Frames
<1>14. FreshInv(stack)'
  <2>1. \A f, w : <<f, w>> \in Pairs(u) => w \in Members(u)
    BY <1>5, Within
  <2> QED
    BY <1>5, <1>8, <2>1 DEF FreshInv
<1> QED
  BY <1>5, <1>10, <1>11, <1>12, <1>13, <1>14 DEF StackHolds, t, a

\* The rest of the invariant, when a flush goes on.
LEMMA FlushRest ==
  ASSUME IInv, stack # <<>>, Top.do = "flush", UNCHANGED <<given, bounds, restores, latency>>,
         {deferredCommands, queued, spawned, produced}' \subseteq Seq(Commands),
         deferredSinkRefused' \in BOOLEAN,
         \A f \in Members(stack') : f \in Members(stack) \/ f.do = "flush",
         \A f \in Members(Tail(stack)) : f \in Members(stack')
  PROVE  DataTyped' /\ LockInv' /\ DoneInv' /\ LatencyInv'
<1>1. DataTyped'
  BY DEF IInv, DataTyped, given, bounds, restores, latency, Commands
<1>2. LockInv' /\ DoneInv'
  BY DEF IInv, LockInv, DoneInv, HostHolds, Admitted, restores, given
<1>3. LatencyInv'
  BY OnStack DEF IInv, LatencyInv, latency
<1> QED
  BY <1>1, <1>2, <1>3

\* Two queues in one, with nothing left in the first.
LEMMA Joining ==
  ASSUME NEW s \in Seq(Commands), NEW t \in Seq(Commands),
         \A a, b \in Commands : <<a, b>> \in Pairs(s) => Fine(a, b),
         \A a, b \in Commands : <<a, b>> \in Pairs(t) => Fine(a, b),
         \A a \in Members(s), b \in Members(t) : Fine(a, b)
  PROVE  /\ s \o t \in Seq(Commands)
         /\ \A f : f \in Members(s \o t) <=> f \in Members(s) \/ f \in Members(t)
         /\ \A a, b \in Commands : <<a, b>> \in Pairs(s \o t) => Fine(a, b)
<1>1. /\ s \o t \in Seq(Commands)
      /\ \A f : f \in Members(s \o t) <=> f \in Members(s) \/ f \in Members(t)
      /\ \A f, g : <<f, g>> \in Pairs(s \o t) <=>
                     \/ <<f, g>> \in Pairs(s) \/ <<f, g>> \in Pairs(t)
                     \/ f \in Members(s) /\ g \in Members(t)
  BY Concat
<1> QED
  BY <1>1

\* The queue is taken over.
LEMMA FlushMoveKeeps ==
  ASSUME IInv, FlushMove
  PROVE  IInv'
<1>1. /\ stack # <<>> /\ Top.do = "flush" /\ Top.at = "try" /\ Top \in Frames
      /\ UNCHANGED <<given, bounds, restores, latency, spawned, produced, deferredSinkRefused>>
      /\ EmptyBatch
  BY OnStack DEF FlushMove, At, Reached
<1>2. /\ queued = <<>> /\ spawned = <<>> /\ produced = <<>> /\ deferredSinkRefused = FALSE
      /\ Members(<<>>) = {} /\ Pairs(<<>>) = {}
  BY <1>1, Empty DEF EmptyBatch, flushState
<1>3. DataTyped /\ QueuesInv
  BY DEF IInv
<1>4. PICK at \in {"next", "out"} :
        /\ Goto(at)
        /\ IF at = "out" THEN UNCHANGED <<deferredCommands, queued>>
           ELSE queued' = deferredCommands /\ deferredCommands' = <<>>
  BY DEF FlushMove, Return
<1>5. at # "out" => Turned(at).do = "flush" /\ Turned(at).at = "next"
  BY <1>1, <1>4, TurnedTyped
<1>6. \A f : f \in Waiting' <=> f \in Waiting
  BY <1>1, <1>2, <1>4 DEF Waiting
<1>7. /\ StackHolds(stack)'
      /\ \A f : f \in Members(stack')
                  <=> f \in Members(Tail(stack)) \/ (at # "out" /\ f = Turned(at))
  <2>1. at = "out" => EmptyBatch'
    BY <1>1, <1>4 DEF EmptyBatch, flushState
  <2> QED
    BY <1>1, <1>2, <1>4, <1>6, <2>1, FlushHolds
<1>8. /\ {deferredCommands, queued, spawned, produced}' \subseteq Seq(Commands)
      /\ deferredSinkRefused' \in BOOLEAN
  BY <1>1, <1>3, <1>4, Empty DEF DataTyped
<1>9. QueuesInv'
  <2>1. Commands' = Commands /\ ran' = ran /\ interrupting' = interrupting
    BY <1>1 DEF Commands, given
  <2>2. \A a, b : Fine(a, b)' <=> Fine(a, b)
    BY <2>1 DEF Fine, InOrder
  <2> QED
    BY <1>1, <1>2, <1>3, <1>4, <1>6, <2>1, <2>2 DEF QueuesInv
<1>10. DataTyped' /\ LockInv' /\ DoneInv' /\ LatencyInv'
  BY <1>1, <1>5, <1>7, <1>8, OnStack, FlushRest
<1> QED
  BY <1>7, <1>9, <1>10 DEF IInv

\* What the one that ran put off is asked for after it.
LEMMA FlushRanKeeps ==
  ASSUME IInv, FlushRan
  PROVE  IInv'
<1>1. /\ stack # <<>> /\ Top.do = "flush" /\ Top.at = "after" /\ Top \in Frames
      /\ UNCHANGED <<given, bounds, deferredCommands, queued, deferredSinkRefused, restores, latency>>
      /\ ~deferredSinkRefused /\ spawned' = spawned \o produced /\ produced' = <<>> /\ Goto("next")
      /\ deferredCommands = <<>>
  BY OnStack DEF FlushRan, At, Reached
<1>2. Members(<<>>) = {} /\ Pairs(<<>>) = {}
  BY Empty
<1>3. /\ DataTyped /\ QueuesInv
      /\ {deferredCommands, queued, spawned, produced} \subseteq Seq(Commands)
  BY DEF IInv, DataTyped
<1>4. Turned("next").do = "flush" /\ Turned("next").at = "next"
  BY <1>1, TurnedTyped
<1>5. /\ spawned' \in Seq(Commands)
      /\ \A f : f \in Members(spawned') <=> f \in Members(spawned) \/ f \in Members(produced)
      /\ \A a, b \in Commands : <<a, b>> \in Pairs(spawned') => Fine(a, b)
  <2>1. spawned \o produced \in Seq(Commands)
    BY <1>3, Concat
  <2> QED
    BY <1>1, <1>3, Joining DEF QueuesInv
<1>6. \A f : f \in Waiting' <=> f \in Waiting
  BY <1>1, <1>2, <1>5 DEF Waiting
<1>7. /\ StackHolds(stack)'
      /\ \A f : f \in Members(stack') <=> f \in Members(Tail(stack)) \/ f = Turned("next")
  BY <1>1, <1>6, FlushHolds
<1>8. QueuesInv'
  <2>1. Commands' = Commands /\ ran' = ran /\ interrupting' = interrupting
    BY <1>1 DEF Commands, given
  <2>2. \A a, b : Fine(a, b)' <=> Fine(a, b)
    BY <2>1 DEF Fine, InOrder
  <2> QED
    BY <1>1, <1>2, <1>3, <1>5, <1>6, <2>1, <2>2 DEF QueuesInv
<1>9. DataTyped' /\ LockInv' /\ DoneInv' /\ LatencyInv'
  <2>1. {deferredCommands, queued, spawned, produced}' \subseteq Seq(Commands)
    BY <1>1, <1>3, <1>5, Empty
  <2>2. deferredSinkRefused' \in BOOLEAN
    BY <1>1, <1>3 DEF DataTyped
  <2> QED
    BY <1>1, <1>4, <1>7, <2>1, <2>2, OnStack, FlushRest
<1> QED
  BY <1>7, <1>8, <1>9 DEF IInv

\* What a refused one put off, itself among it, goes before what it stood before.
LEMMA FlushRefusedKeeps ==
  ASSUME IInv, FlushRefused
  PROVE  IInv'
<1>1. /\ stack # <<>> /\ Top.do = "flush" /\ Top.at = "after" /\ Top \in Frames
      /\ UNCHANGED <<given, bounds, restores, latency>>
      /\ deferredSinkRefused /\ deferredSinkRefused' = FALSE
      /\ deferredCommands' = produced \o queued \o spawned \o deferredCommands
      /\ queued' = <<>> /\ spawned' = <<>> /\ produced' = <<>>
      /\ Goto("out") /\ deferredCommands = <<>>
  BY OnStack DEF FlushRefused, At, Reached, Return
<1>2. Members(<<>>) = {} /\ Pairs(<<>>) = {} /\ <<>> \in Seq(Commands)
  BY Empty
<1>3. /\ QueuesInv
      /\ queued \in Seq(Commands) /\ spawned \in Seq(Commands) /\ produced \in Seq(Commands)
  BY DEF IInv, DataTyped
<1>4. /\ produced \o queued \in Seq(Commands)
      /\ \A f : f \in Members(produced \o queued) <=> f \in Members(produced) \/ f \in Members(queued)
      /\ \A a, b \in Commands : <<a, b>> \in Pairs(produced \o queued) => Fine(a, b)
  BY <1>1, <1>3, Joining DEF QueuesInv
<1> DEFINE v == produced \o queued
<1> HIDE DEF v
<1>5. /\ v \o spawned \in Seq(Commands)
      /\ \A f : f \in Members(v \o spawned) <=> f \in Members(v) \/ f \in Members(spawned)
      /\ \A a, b \in Commands : <<a, b>> \in Pairs(v \o spawned) => Fine(a, b)
  <2>1. \A a \in Members(v), b \in Members(spawned) : Fine(a, b)
    BY <1>1, <1>3, <1>4 DEF QueuesInv, v
  <2> QED
    BY <1>3, <1>4, <2>1, Joining DEF QueuesInv, v
<1>6. deferredCommands' = v \o spawned
  <2>1. (v \o spawned) \o <<>> = v \o spawned
    BY <1>5
  <2> QED
    BY <1>1, <2>1 DEF v
<1>7. \A f : f \in Waiting' <=> f \in Waiting
  BY <1>1, <1>2, <1>4, <1>5, <1>6 DEF Waiting, v
<1>8. /\ StackHolds(stack)'
      /\ \A f : f \in Members(stack') <=> f \in Members(Tail(stack))
  <2>1. EmptyBatch'
    BY <1>1 DEF EmptyBatch, flushState
  <2> QED
    BY <1>1, <1>7, <2>1, FlushHolds
<1>9. QueuesInv'
  <2>1. Commands' = Commands /\ ran' = ran /\ interrupting' = interrupting
    BY <1>1 DEF Commands, given
  <2>2. \A a, b : Fine(a, b)' <=> Fine(a, b)
    BY <2>1 DEF Fine, InOrder
  <2> QED
    BY <1>1, <1>2, <1>3, <1>5, <1>6, <1>7, <2>1, <2>2 DEF QueuesInv
<1>10. DataTyped' /\ LockInv' /\ DoneInv' /\ LatencyInv'
  BY <1>1, <1>2, <1>5, <1>6, <1>8, OnStack, FlushRest
<1> QED
  BY <1>8, <1>9, <1>10 DEF IInv

\* What the batch asked for becomes the queue.
LEMMA FlushBatchDoneKeeps ==
  ASSUME IInv, FlushBatchDone
  PROVE  IInv'
<1>1. /\ stack # <<>> /\ Top.do = "flush" /\ Top.at = "next" /\ Top \in Frames
      /\ UNCHANGED <<given, bounds, queued, produced, deferredSinkRefused, restores, latency>>
      /\ queued = <<>> /\ produced = <<>> /\ ~deferredSinkRefused /\ deferredCommands = <<>>
      /\ deferredCommands' = spawned \o deferredCommands /\ spawned' = <<>>
      /\ Goto("loop")
  BY OnStack DEF FlushBatchDone, At, Reached
<1>2. Members(<<>>) = {} /\ Pairs(<<>>) = {} /\ <<>> \in Seq(Commands)
  BY Empty
<1>3. /\ DataTyped /\ QueuesInv /\ spawned \in Seq(Commands)
      /\ deferredSinkRefused = FALSE
  BY <1>1 DEF IInv, DataTyped
<1>4. deferredCommands' = spawned
  <2>1. spawned \o <<>> = spawned
    BY <1>3
  <2> QED
    BY <1>1, <2>1
<1>5. Turned("loop").do = "flush" /\ Turned("loop").at = "loop"
  BY <1>1, TurnedTyped
<1>6. \A f : f \in Waiting' <=> f \in Waiting
  BY <1>1, <1>2, <1>4 DEF Waiting
<1>7. /\ StackHolds(stack)'
      /\ \A f : f \in Members(stack') <=> f \in Members(Tail(stack)) \/ f = Turned("loop")
  <2>1. EmptyBatch'
    BY <1>1, <1>3 DEF EmptyBatch, flushState
  <2> QED
    BY <1>1, <1>6, <2>1, FlushHolds
<1>8. QueuesInv'
  <2>1. Commands' = Commands /\ ran' = ran /\ interrupting' = interrupting
    BY <1>1 DEF Commands, given
  <2>2. \A a, b : Fine(a, b)' <=> Fine(a, b)
    BY <2>1 DEF Fine, InOrder
  <2> QED
    BY <1>1, <1>2, <1>3, <1>4, <1>6, <2>1, <2>2 DEF QueuesInv
<1>9. DataTyped' /\ LockInv' /\ DoneInv' /\ LatencyInv'
  BY <1>1, <1>2, <1>3, <1>4, <1>5, <1>7, OnStack, FlushRest
<1> QED
  BY <1>7, <1>8, <1>9 DEF IInv

\* The next of the batch is run, in its gate as if it were given now.
LEMMA FlushRunKeeps ==
  ASSUME IInv, FlushRun
  PROVE  IInv'
<1> DEFINE a == Turned("after")
           t == Tail(stack)
           s == Rest("after")
<1>1. /\ stack # <<>> /\ Top.do = "flush" /\ Top.at = "next" /\ Top \in Frames
      /\ UNCHANGED <<given, bounds, deferredCommands, spawned, restores, latency>>
      /\ queued # <<>> /\ queued' = Tail(queued) /\ produced' = <<>> /\ deferredSinkRefused' = FALSE
      /\ stack' = <<Command(Head(queued))>> \o s
      /\ deferredCommands = <<>> /\ produced = <<>> /\ ~deferredSinkRefused
  BY OnStack DEF FlushRun, At, Reached, Call
<1>2. Members(<<>>) = {} /\ Pairs(<<>>) = {} /\ <<>> \in Seq(Commands)
  BY Empty
<1>3. DataTyped /\ QueuesInv /\ queued \in Seq(Commands) /\ spawned \in Seq(Commands)
  BY DEF IInv, DataTyped
<1>4. PICK c \in Commands :
        /\ c = Head(queued) /\ Tail(queued) \in Seq(Commands)
        /\ \A f : f \in Members(queued) <=> f = c \/ f \in Members(Tail(queued))
        /\ \A f, g : <<f, g>> \in Pairs(queued)
                       <=> <<f, g>> \in Pairs(Tail(queued)) \/ (f = c /\ g \in Members(Tail(queued)))
  <2> DEFINE h == Head(queued)
  <2>1. /\ h \in Commands /\ Tail(queued) \in Seq(Commands)
        /\ \A f : f \in Members(queued) <=> f = h \/ f \in Members(Tail(queued))
        /\ \A f, g : <<f, g>> \in Pairs(queued)
                       <=> <<f, g>> \in Pairs(Tail(queued)) \/ (f = h /\ g \in Members(Tail(queued)))
    BY <1>1, <1>3, Popping
  <2> HIDE DEF h
  <2>2. h = Head(queued)
    BY DEF h
  <2> QED
    BY <2>1, <2>2, Zenon
<1> DEFINE n == Command(c)
<1>5. \A f \in Members(queued) \cup Members(spawned) : f \in Commands
  BY <1>3, Within
<1>6. n \in Frames /\ n.do = "command" /\ n.at = "gate" /\ n.cmd = c /\ InGate(n)
  <2>1. c \in 0..MaxCommands
    BY <1>3, <1>4, BoundsTyped DEF DataTyped, Commands
  <2>2. n \in Frames /\ n.do = "command" /\ n.at = "gate" /\ n.cmd = c
    BY <2>1, FramesTyped
  <2> QED
    BY <2>2 DEF InGate
<1>7. a \in Frames /\ a.do = "flush" /\ a.at = "after" /\ a.cmd = Top.cmd
  BY <1>1, TurnedTyped
<1>8. /\ StackHolds(s) /\ s \in Seq(Frames) /\ s # <<>> /\ Head(s) = a
      /\ \A f : f \in Members(s) <=> f \in Members(t) \/ f = a
  <2>1. Placed(a) /\ GoesOn(Top, a)
    BY <1>1, <1>7 DEF Placed, GoesOn, InGate, Reached
  <2> QED
    BY <1>1, <1>7, <2>1, RestHolds
<1>9. \A g \in Members(t) : g \in Frames /\ OnTop(Top, g) /\ g.do # "flush"
  BY <1>1, OnStack DEF OnTop
<1>10. t \in Seq(Frames)
  BY <1>1, OnStack
<1> HIDE DEF n, a, t, s
<1> DEFINE u == <<n>> \o s
<1>11. /\ u \in Seq(Frames)
       /\ \A f : f \in Members(u) <=> f = n \/ f \in Members(s)
       /\ \A f, g : <<f, g>> \in Pairs(u) <=> <<f, g>> \in Pairs(s) \/ (f = n /\ g \in Members(s))
       /\ \A f, g : <<f, g>> \in Neighbours(u) <=> <<f, g>> \in Neighbours(s) \/ (f = n /\ g = a)
  BY <1>6, <1>8, Pushing
<1>12. stack' = u
  BY <1>1, <1>4 DEF n
<1> HIDE DEF u
<1>13. /\ \A f, g : <<f, g>> \in Pairs(s) => f \in Members(s) /\ g \in Members(s)
       /\ \A f, g : <<f, g>> \in Neighbours(s) => <<f, g>> \in Pairs(s)
  BY <1>8, Within
<1>14. /\ Commands' = Commands /\ ran' = ran /\ interrupting' = interrupting
       /\ \A f, g : (OnTop(f, g) <=> OnTop(f, g)') /\ (Called(f, g) <=> Called(f, g)')
       /\ \A f : (Placed(f) <=> Placed(f)') /\ (InGate(f) <=> InGate(f)')
       /\ \A x, y : (InOrder(x, y) <=> InOrder(x, y)') /\ (Fine(x, y) <=> Fine(x, y)')
  <2>1. UNCHANGED <<kind, ran, interrupting>>
    BY <1>1 DEF given
  <2> QED
    BY <2>1 DEF Commands, OnTop, Called, Placed, InGate, InOrder, Fine, Applying, Transacting, Admitted
<1>15. c \in Waiting /\ c \notin ran /\ \A f : f \in Waiting' <=> f \in Waiting /\ f # c
  <2>1. c \in Members(queued) /\ c \in Waiting
    BY <1>4 DEF Waiting
  <2>2. c \notin ran
    BY <1>3, <2>1 DEF QueuesInv
  <2>3. \A f \in Members(Tail(queued)) \cup Members(spawned) : f # c
    BY <1>3, <1>4, <1>5, <2>1 DEF QueuesInv, Fine
  <2> QED
    BY <1>1, <1>2, <1>4, <2>1, <2>2, <2>3 DEF Waiting
<1>16. \A f \in Members(s) : f.do = "command" => HeldOnce(f) /\ f.cmd # c
  BY <1>8, <1>15 DEF StackHolds, PlaceInv, HeldOnce
<1>17. \A f \in Members(s) : InGate(f) => ~Hand(s, f) /\ ~Hand(u, f)
  <2>1. \A f \in Members(s) : f.do = "flush" => f = a
    BY <1>8, <1>9
  <2>2. \A f, g : <<f, g>> \in Pairs(s) => OnTop(f, g)
    BY <1>8, <1>13, Within DEF StackHolds, StackInv
  <2>3. ASSUME NEW f, <<f, a>> \in Pairs(s) PROVE FALSE
    <3>1. a \notin Members(t)
      BY <1>7, <1>9
    <3>2. s = <<a>> \o t
      BY DEF s, a, t, Rest, Turned
    <3>3. \A x, y : <<x, y>> \in Pairs(s) <=> <<x, y>> \in Pairs(t) \/ (x = a /\ y \in Members(t))
      BY <1>7, <1>10, <3>2, Pushing
    <3>4. \A x, y : <<x, y>> \in Pairs(t) => y \in Members(t)
      BY <1>10, Within
    <3> QED
      BY <2>3, <3>1, <3>3, <3>4
  <2>4. \A f \in Members(s) : InGate(f) => f # n
    BY <1>6, <1>16 DEF InGate
  <2> QED
    BY <1>6, <1>11, <1>13, <2>1, <2>3, <2>4 DEF Hand
<1>18. StackTyped(stack)' /\ StackInv(stack)' /\ CallInv(stack)'
  <2>1. \A g \in Members(s) : OnTop(n, g)
    BY <1>6, <1>7, <1>8, <1>9, <1>16 DEF OnTop, InGate
  <2>2. Placed(n) /\ Called(n, a)
    BY <1>6, <1>7 DEF Placed, Called, InGate
  <2>3. StackTyped(u) /\ StackInv(u) /\ CallInv(u)
    BY <1>8, <1>11, <1>13, <2>1, <2>2 DEF StackHolds, StackTyped, StackInv, CallInv
  <2> QED
    BY <1>12, <1>14, <2>3 DEF StackTyped, StackInv, CallInv, Frames
<1>19. FlushInv(stack)'
  <2>1. \A w \in Members(u) : w.do = "flush" => w = a
    BY <1>6, <1>8, <1>9, <1>11
  <2>2. \A w \in Members(u) : w.do = "flush" => Reached(w)'
    BY <1>1, <1>7, <2>1 DEF Reached
  <2>3. a \in Members(u) /\ a.do = "flush"
    BY <1>7, <1>8, <1>11
  <2> QED
    BY <1>12, <2>2, <2>3 DEF FlushInv
<1>20. PlaceInv(stack)'
  <2>1. ASSUME NEW f \in Members(u), f.do = "command" PROVE HeldOnce(f)'
    <3>1. CASE f = n
      BY <1>4, <1>6, <1>14, <1>15, <3>1 DEF HeldOnce
    <3>2. CASE f \in Members(s)
      BY <1>14, <1>15, <1>16, <2>1, <3>2 DEF HeldOnce
    <3> QED
      BY <1>11, <3>1, <3>2
  <2>2. ASSUME NEW d \in Commands \ ran
        PROVE  d \in Waiting' \/ \E f \in Members(u) : f.do = "command" /\ f.cmd = d
    BY <1>6, <1>8, <1>11, <1>15 DEF StackHolds, PlaceInv
  <2> QED
    BY <1>12, <1>14, <2>1, <2>2 DEF PlaceInv
<1>21. GateInv(stack)'
  <2>1. Hand(u, n)
    BY <1>7, <1>8, <1>11 DEF Hand
  <2>2. Oldest(c)'
    <3>1. \A x \in Members(Tail(queued)) \cup Members(spawned) : InOrder(c, x)
      BY <1>3, <1>4, <1>5 DEF QueuesInv, Fine
    <3> QED
      BY <1>1, <1>2, <1>14, <3>1 DEF Oldest
  <2>3. ASSUME NEW f \in Members(s), InGate(f) PROVE ~Hand(u, f) /\ Youngest(f.cmd)' /\ InOrder(c, f.cmd)
    <3>1. Youngest(f.cmd)
      BY <1>8, <1>17, <2>3 DEF StackHolds, GateInv
    <3>2. InOrder(c, f.cmd)
      BY <1>15, <3>1 DEF Youngest
    <3> QED
      BY <1>14, <1>15, <1>17, <2>3, <3>1, <3>2 DEF Youngest
  <2>4. ASSUME NEW f \in Frames, NEW g \in Frames, <<f, g>> \in Pairs(u), InGate(f), InGate(g)
        PROVE  ~Hand(u, g) /\ InOrder(f.cmd, g.cmd)
    <3>1. CASE f = n /\ g \in Members(s)
      BY <1>6, <2>3, <2>4, <3>1
    <3>2. CASE <<f, g>> \in Pairs(s)
      BY <1>8, <1>13, <1>17, <2>4, <3>2 DEF StackHolds, GateInv
    <3> QED
      BY <1>11, <2>4, <3>1, <3>2
  <2>5. \A f : Hand(stack, f)' <=> Hand(u, f)
    BY <1>12 DEF Hand
  <2>6. ASSUME NEW f \in Members(u), InGate(f)
        PROVE  IF Hand(u, f) THEN Oldest(f.cmd)' ELSE Youngest(f.cmd)'
    <3>1. CASE f = n
      <4>1. f.cmd = c
        BY <1>6, <3>1
      <4> QED
        BY <2>1, <2>2, <3>1, <4>1
    <3>2. CASE f \in Members(s)
      BY <2>3, <2>6, <3>2
    <3> QED
      BY <1>11, <3>1, <3>2
  <2> QED
    BY <1>12, <1>14, <2>4, <2>5, <2>6 DEF GateInv, Frames
<1>22. FreshInv(stack)'
  <2>1. ASSUME NEW f \in Frames, NEW w \in Frames, <<f, w>> \in Pairs(u), InGate(f), ~Hand(u, f),
               w.do = "flush"
        PROVE  FALSE
    <3>1. Hand(u, n)
      BY <1>7, <1>8, <1>11 DEF Hand
    <3>2. <<f, w>> \in Pairs(s)
      BY <1>11, <2>1, <3>1
    <3>3. w = a
      BY <1>8, <1>9, <1>13, <2>1, <3>2
    <3>4. s = <<a>> \o t
      BY DEF s, a, t, Rest, Turned
    <3>5. \A x, y : <<x, y>> \in Pairs(s) <=> <<x, y>> \in Pairs(t) \/ (x = a /\ y \in Members(t))
      BY <1>7, <1>10, <3>4, Pushing
    <3>6. \A x, y : <<x, y>> \in Pairs(t) => y \in Members(t)
      BY <1>10, Within
    <3> QED
      BY <1>7, <1>9, <3>2, <3>3, <3>5, <3>6
  <2>2. \A f : Hand(stack, f)' <=> Hand(u, f)
    BY <1>12 DEF Hand
  <2> QED
    BY <1>12, <1>14, <2>1, <2>2 DEF FreshInv, Frames
<1>23. QueuesInv'
  <2>1. Waiting' \cap ran' = {}
    BY <1>3, <1>14, <1>15 DEF QueuesInv
  <2> QED
    BY <1>1, <1>2, <1>3, <1>4, <1>14, <2>1 DEF QueuesInv
<1>24. DataTyped'
  BY <1>1, <1>2, <1>3, <1>4 DEF DataTyped, given, bounds, restores, latency, Commands
<1>25. LockInv' /\ DoneInv'
  BY <1>1, <1>6, <1>7, <1>8, <1>11, <1>12, OnStack
     DEF IInv, LockInv, DoneInv, HostHolds, Admitted, restores, given, t
<1>26. LatencyInv'
  BY <1>1, <1>8, <1>11, <1>12, OnStack DEF IInv, LatencyInv, latency, t
<1> QED
  BY <1>12, <1>18, <1>19, <1>20, <1>21, <1>22, <1>23, <1>24, <1>25, <1>26 DEF IInv, StackHolds

-----------------------------------------------------------------------------
(* A command is given, takes effect and returns.                            *)

LEMMA CommandAppliesKeeps ==
  ASSUME IInv, CommandApplies
  PROVE  IInv'
<1>1. /\ stack # <<>> /\ Top.do = "command" /\ Top.at = "apply" /\ Top \in Frames
      /\ ran' = ran \cup {Top.cmd} /\ UNCHANGED <<kind, interrupting, bounds, queues, restores, latency>>
      /\ HeldOnce(Top)
  BY OnStack DEF CommandApplies, At
<1>2. PICK at \in {"close", "dispatch", "exit"} :
        stack' = <<[Top EXCEPT !.at = at, !.seen = adoptedGeneration]>> \o Tail(stack)
  BY DEF CommandApplies
<1>3. PICK a \in Frames : /\ a = [Top EXCEPT !.at = at, !.seen = adoptedGeneration]
                          /\ a.do = "command" /\ a.at = at /\ a.cmd = Top.cmd
  <2>1. adoptedGeneration \in 0..MaxRestores
    BY DEF IInv, DataTyped
  <2> DEFINE b == [Top EXCEPT !.at = at, !.seen = adoptedGeneration]
  <2>2. b \in Frames /\ b.do = "command" /\ b.at = at /\ b.cmd = Top.cmd
    BY <1>1, <2>1 DEF Frames
  <2> QED
    BY <2>2
<1>4. PICK c \in Commands : c = Top.cmd /\ c \notin Waiting
  BY <1>1 DEF HeldOnce
<1> DEFINE t == Tail(stack)
           u == <<a>> \o t
<1>5. t \in Seq(Frames) /\ stack' = u /\ stack \in Seq(Frames)
  BY <1>1, <1>2, <1>3, OnStack DEF IInv, StackHolds, StackTyped
<1>6. /\ \A f : f \in Members(u) <=> f = a \/ f \in Members(t)
      /\ \A f : f \in Members(stack) <=> f = Top \/ f \in Members(t)
      /\ \A g \in Members(t) : g \in Frames /\ OnTop(Top, g)
  BY <1>1, <1>5, OnStack, Pushing
<1> HIDE DEF t
<1>7. StackHolds(u)
  <2>1. Placed(a) /\ GoesOn(Top, a)
    BY <1>1, <1>3 DEF Placed, GoesOn, InGate
  <2>2. \A g \in Members(t) : OnTop(a, g)
    BY <1>1, <1>3, <1>6 DEF OnTop
  <2>3. StackHolds(stack)
    BY DEF IInv
  <2>4. StackHolds(<<a>> \o Tail(stack))
    BY <1>1, <2>1, <2>2, <2>3, TurnHolds DEF Top, t
  <2> QED
    BY <2>4 DEF t
<1> HIDE DEF u
<1>8. UNCHANGED <<kind, interrupting, queues>>
  BY <1>1
<1>9. /\ Commands' = Commands /\ Waiting' = Waiting /\ (EmptyBatch <=> EmptyBatch')
      /\ \A f, g : (OnTop(f, g) <=> OnTop(f, g)') /\ (Called(f, g) <=> Called(f, g)')
      /\ \A f : (Placed(f) <=> Placed(f)') /\ (InGate(f) <=> InGate(f)') /\ (Admitted(f) <=> Admitted(f)')
      /\ \A x, y : (InOrder(x, y) <=> InOrder(x, y)') /\ (Fine(x, y) <=> Fine(x, y)')
      /\ \A f : Hand(stack, f)' <=> Hand(u, f)
  <2>1. Commands' = Commands /\ Waiting' = Waiting /\ (EmptyBatch <=> EmptyBatch')
    BY <1>8 DEF Commands, Waiting, EmptyBatch, queues, flushState
  <2> QED
    BY <1>5, <1>8, <2>1 DEF OnTop, Called, Placed, InGate, InOrder, Fine, Applying, Transacting, Admitted,
                            Hand
<1>10. \A x : (Youngest(x) <=> Youngest(x)') /\ (Oldest(x) <=> Oldest(x)') /\ (Reached(x) <=> Reached(x)')
  BY <1>8, <1>9 DEF Youngest, Oldest, Reached, queues, flushState
<1>11. StackTyped(stack)' /\ StackInv(stack)' /\ CallInv(stack)' /\ FlushInv(stack)'
  BY <1>5, <1>7, <1>9, <1>10 DEF StackHolds, StackTyped, StackInv, CallInv, FlushInv, Frames
<1>12. GateInv(stack)'
  BY <1>5, <1>7, <1>8, <1>9, <1>10 DEF StackHolds, GateInv, Frames
<1>13. FreshInv(stack)'
  BY <1>5, <1>7, <1>8, <1>9 DEF StackHolds, FreshInv, Frames, queues, flushState
<1>14. PlaceInv(stack)'
  <2>1. ASSUME NEW f \in Members(u), f.do = "command" PROVE HeldOnce(f)'
    <3>1. HeldOnce(f)
      BY <1>7, <2>1 DEF StackHolds, PlaceInv
    <3>2. f = a \/ f.cmd # c
      BY <1>1, <1>4, <1>6, <2>1 DEF OnTop
    <3> QED
      BY <1>1, <1>3, <1>4, <1>9, <3>1, <3>2 DEF HeldOnce
  <2>2. \A d \in Commands \ ran' : d \in Waiting' \/ \E f \in Members(u) : f.do = "command" /\ f.cmd = d
    BY <1>1, <1>7, <1>9 DEF StackHolds, PlaceInv
  <2> QED
    BY <1>5, <1>9, <2>1, <2>2 DEF PlaceInv
<1>15. QueuesInv'
  <2>1. Waiting' \cap ran' = {}
    BY <1>1, <1>4, <1>9 DEF IInv, QueuesInv
  <2> QED
    BY <1>8, <1>9, <2>1 DEF IInv, QueuesInv, queues, flushState
<1>16. DataTyped'
  <2>1. ran' \subseteq Commands
    BY <1>1, <1>4 DEF IInv, DataTyped
  <2> QED
    BY <1>1, <1>9, <2>1 DEF IInv, DataTyped, bounds, queues, flushState, restores, latency
<1>17. LockInv' /\ DoneInv'
  <2>1. Admitted(Top)
    BY <1>1 DEF Admitted
  <2>2. LockInv'
    BY <1>1, <1>3, <1>5, <1>6, <2>1 DEF IInv, LockInv, HostHolds, Admitted, restores
  <2>3. DoneInv'
    BY <1>1, <1>3, <1>5, <1>6 DEF IInv, DoneInv
  <2> QED
    BY <2>2, <2>3
<1>18. LatencyInv'
  BY <1>1, <1>5, <1>6 DEF IInv, LatencyInv, latency
<1> QED
  BY <1>11, <1>12, <1>13, <1>14, <1>15, <1>16, <1>17, <1>18 DEF IInv, StackHolds

LEMMA CommandReturnsKeeps ==
  ASSUME IInv, CommandReturns
  PROVE  IInv'
<1>1. /\ stack # <<>> /\ Top.do = "command" /\ Top.at = "exit" /\ Top \in Frames
      /\ kind' = [kind EXCEPT ![Top.cmd] = "done"]
      /\ UNCHANGED <<ran, interrupting, bounds, queues, restores, latency>>
      /\ stack' = Rest("out") /\ HeldOnce(Top)
  BY OnStack DEF CommandReturns, At, Return, Goto
<1>2. Top.cmd \in Commands /\ Top.cmd \in ran
  BY <1>1, OnStack DEF HeldOnce, IInv, DoneInv
<1>3. /\ StackHolds(Rest("out")) /\ \A f : f \in Members(Rest("out")) <=> f \in Members(Tail(stack))
  BY <1>1, <1>2, RestHolds
<1> DEFINE u == Rest("out")
<1>4. StackHolds(u) /\ stack' = u /\ \A f : f \in Members(u) <=> f \in Members(Tail(stack))
  BY <1>1, <1>3
<1> HIDE DEF u
<1>5. UNCHANGED <<ran, interrupting, queues>>
  BY <1>1
<1>6. /\ kind' \in Seq(AllKinds \cup {"done"}) /\ Len(kind') = Len(kind) /\ Commands' = Commands
      /\ \A i \in Commands : kind'[i] # "gain" \/ kind'[i] = kind[i]
  BY <1>1, <1>2 DEF IInv, DataTyped, Commands
<1>7. /\ Waiting' = Waiting /\ (EmptyBatch <=> EmptyBatch')
      /\ \A f : (InGate(f) <=> InGate(f)') /\ (Admitted(f) <=> Admitted(f)') /\ (Placed(f) <=> Placed(f)')
      /\ \A f, g : (Called(f, g) <=> Called(f, g)') /\ (Applying(f) <=> Applying(f)')
      /\ \A x, y : (InOrder(x, y) <=> InOrder(x, y)') /\ (Fine(x, y) <=> Fine(x, y)')
      /\ \A f : Hand(stack, f)' <=> Hand(u, f)
  <2>1. Waiting' = Waiting /\ (EmptyBatch <=> EmptyBatch')
    BY <1>5 DEF Waiting, EmptyBatch, queues, flushState
  <2> QED
    BY <1>4, <1>5, <2>1 DEF Called, Placed, InGate, InOrder, Fine, Applying, Admitted, Hand
<1>8. \A x : (Youngest(x) <=> Youngest(x)') /\ (Oldest(x) <=> Oldest(x)') /\ (Reached(x) <=> Reached(x)')
              /\ (HeldOnce(x) <=> HeldOnce(x)')
  BY <1>5, <1>6, <1>7 DEF Youngest, Oldest, Reached, HeldOnce, queues, flushState
<1>9. StackTyped(stack)' /\ CallInv(stack)' /\ FlushInv(stack)' /\ PlaceInv(stack)'
  BY <1>4, <1>5, <1>6, <1>7, <1>8 DEF StackHolds, StackTyped, CallInv, FlushInv, PlaceInv, Frames
<1>10. StackInv(stack)'
  <2>1. ASSUME NEW f \in Frames, NEW g \in Frames, <<f, g>> \in Pairs(u) PROVE OnTop(f, g)'
    <3>1. OnTop(f, g) /\ g \in Members(u)
      BY <1>4, <2>1, Within DEF StackHolds, StackInv, StackTyped
    <3>2. Transacting(g)' => Transacting(g)
      <4>1. g.do = "command" => g.cmd \in Commands
        BY <1>4, <3>1 DEF StackHolds, PlaceInv, HeldOnce
      <4> QED
        BY <1>6, <4>1 DEF Transacting
    <3> QED
      BY <1>7, <3>1, <3>2 DEF OnTop
  <2> QED
    BY <1>4, <2>1 DEF StackInv, Frames
<1>11. GateInv(stack)' /\ FreshInv(stack)'
  <2>1. GateInv(stack)'
    BY <1>4, <1>5, <1>7, <1>8 DEF StackHolds, GateInv, Frames
  <2>2. FreshInv(stack)'
    BY <1>4, <1>5, <1>7 DEF StackHolds, FreshInv, Frames, queues, flushState
  <2> QED
    BY <2>1, <2>2
<1>12. QueuesInv'
  BY <1>5, <1>6, <1>7 DEF IInv, QueuesInv, queues, flushState
<1>13. DataTyped'
  BY <1>1, <1>6 DEF IInv, DataTyped, bounds, queues, flushState, restores, latency
<1>14. LockInv' /\ DoneInv'
  BY <1>1, <1>4, OnStack DEF IInv, LockInv, DoneInv, HostHolds, Admitted, restores
<1>15. LatencyInv'
  BY <1>1, <1>4, OnStack DEF IInv, LatencyInv, latency
<1> QED
  BY <1>9, <1>10, <1>11, <1>12, <1>13, <1>14, <1>15 DEF IInv, StackHolds

\* A click comes into a dispatch or a callout, or to an idle message thread.
LEMMA ClickKeeps ==
  ASSUME IInv, NEW k \in Kinds, Click(k)
  PROVE  IInv'
<1>1. /\ stack # <<>> => Top.at \in {"dispatch", "callout"}
      /\ Len(kind) < MaxCommands /\ kind' = Append(kind, k)
      /\ UNCHANGED <<ran, edits, moves, saves, queues, restores, latency>>
      /\ stack' = <<Command(Len(kind'))>> \o stack
  BY DEF Click, Deliver
<1>2. DataTyped /\ StackHolds(stack) /\ QueuesInv /\ stack \in Seq(Frames) /\ StackTyped(stack)
  BY DEF IInv, StackHolds, StackTyped
<1>3. k \in AllKinds
  BY CommandsAssumption
<1>4. PICK c \in 1..MaxCommands : c = Len(kind) + 1
  BY <1>1, <1>2, BoundsTyped DEF DataTyped
<1>5. /\ kind' \in Seq(AllKinds \cup {"done"}) /\ Len(kind') = c /\ Len(kind) \in Nat
      /\ c \notin Commands /\ (\A i \in Commands : i < c /\ i \in Commands' /\ kind'[i] = kind[i])
      /\ \A i : i \in Commands' <=> i \in Commands \/ i = c
      /\ 1..Len(kind) = Commands
  <2>1. kind \in Seq(AllKinds \cup {"done"}) /\ Len(kind) \in Nat
    BY <1>2 DEF DataTyped
  <2>2. kind' = Append(kind, k)
    BY <1>1
  <2>3. /\ kind' \in Seq(AllKinds \cup {"done"}) /\ Len(kind') = Len(kind) + 1
        /\ \A i \in 1..Len(kind) : kind'[i] = kind[i]
    BY <1>3, <2>1, <2>2
  <2>4. Commands = 1..Len(kind) /\ Commands' = 1..Len(kind')
    BY DEF Commands
  <2> QED
    BY <1>4, <2>1, <2>3, <2>4
<1>6. /\ interrupting' \subseteq interrupting \cup {c} /\ interrupting \subseteq interrupting'
      /\ c \notin interrupting'
           => ~deferredSinkRefused /\ \A f \in Members(stack) : f.do # "adopt"
  <2>1. interrupting' = IF deferredSinkRefused \/ \E i \in Calls : stack[i].do = "adopt"
                        THEN interrupting \cup {c} ELSE interrupting
    BY <1>5 DEF Click
  <2> QED
    BY <1>2, <2>1, Reading
<1> DEFINE n == Command(c)
           s == stack
           u == <<n>> \o stack
<1>7. n \in Frames /\ n.do = "command" /\ n.at = "gate" /\ n.cmd = c /\ InGate(n)
  <2>1. c \in 0..MaxCommands
    BY <1>4
  <2> QED
    BY <2>1, FramesTyped DEF InGate
<1> HIDE DEF n
<1>8. /\ u \in Seq(Frames)
      /\ \A f : f \in Members(u) <=> f = n \/ f \in Members(stack)
      /\ \A f, g : <<f, g>> \in Pairs(u) <=> <<f, g>> \in Pairs(stack) \/ (f = n /\ g \in Members(stack))
      /\ \A f, g : <<f, g>> \in Neighbours(u)
                     <=> <<f, g>> \in Neighbours(stack) \/ (f = n /\ stack # <<>> /\ g = Top)
  BY <1>2, <1>7, Pushing DEF Top
<1>9. stack' = u
  BY <1>1, <1>5 DEF n
<1> HIDE DEF u
<1>10. /\ \A f \in Members(stack) : f \in Frames
       /\ \A f, g : <<f, g>> \in Pairs(stack) => f \in Members(stack) /\ g \in Members(stack) /\ OnTop(f, g)
       /\ \A f, g : <<f, g>> \in Neighbours(stack) => <<f, g>> \in Pairs(stack) /\ Called(f, g)
  BY OneFlush
<1>11. \A f \in Members(stack) : f.do = "command" => HeldOnce(f) /\ f.cmd # c
  BY <1>2, <1>5 DEF StackHolds, PlaceInv, HeldOnce
<1>12. Waiting \subseteq Commands
  <2>1. {deferredCommands, queued, spawned, produced} \subseteq Seq(Commands)
    BY <1>2 DEF DataTyped
  <2> QED
    BY <2>1, Within DEF Waiting
<1>13. UNCHANGED <<ran, queues>>
  BY <1>1
<1>14. /\ Waiting' = Waiting /\ (EmptyBatch <=> EmptyBatch')
       /\ \A f : (InGate(f) <=> InGate(f)') /\ (Admitted(f) <=> Admitted(f)') /\ (Placed(f) <=> Placed(f)')
       /\ \A f, g : (Called(f, g) <=> Called(f, g)') /\ (Applying(f) <=> Applying(f)')
       /\ \A f : Reached(f) <=> Reached(f)'
       /\ \A f : Hand(stack, f)' <=> Hand(u, f)
  <2>1. Waiting' = Waiting /\ (EmptyBatch <=> EmptyBatch')
    BY <1>13 DEF Waiting, EmptyBatch, queues, flushState
  <2> QED
    BY <1>9, <1>13, <2>1 DEF Called, Placed, InGate, Applying, Admitted, Hand, Reached, queues, flushState
<1>15. /\ \A x, y \in Commands : InOrder(x, y) => InOrder(x, y)'
       /\ \A x, y \in Commands : Fine(x, y) => Fine(x, y)'
       /\ \A x \in Commands : InOrder(x, c)' /\ x # c
  BY <1>5, <1>6 DEF InOrder, Fine
<1>16. stack # <<>> => Placed(Top) /\ (\A f : f \in Members(stack) <=> f = Top \/ f \in Members(Tail(stack)))
                       /\ (\A g \in Members(Tail(stack)) : OnTop(Top, g))
  BY OnStack
<1>17. stack = <<>> => Members(stack) = {}
  BY Empty
<1>18. \A g \in Members(stack) :
         /\ InGate(g) => g.at = "drained" /\ g # Top
         /\ g.do = "flush" => g.at \in {"try", "after"} /\ g # Top
  BY <1>1, <1>16, <1>17 DEF OnTop, Placed, InGate
<1>19. \A g \in Members(stack) : InGate(g) => \E f \in Members(stack) : f.do = "adopt"
  <2> SUFFICES ASSUME NEW g \in Members(stack), InGate(g)
               PROVE  \E f \in Members(stack) : f.do = "adopt"
    OBVIOUS
  <2>1. stack # <<>> /\ g \in Members(Tail(stack))
    BY <1>16, <1>17, <1>18
  <2>2. PICK h \in Members(stack) : <<h, g>> \in Neighbours(stack)
    BY <2>1, Above
  <2> QED
    BY <1>10, <2>2 DEF Called
<1>20. StackTyped(stack)' /\ StackInv(stack)' /\ CallInv(stack)'
  <2>1. \A g \in Members(stack) : OnTop(n, g)'
    BY <1>7, <1>11, <1>14, <1>18 DEF OnTop
  <2>2. Placed(n) /\ (stack # <<>> => Called(n, Top))
    BY <1>1, <1>7 DEF Placed, Called, InGate
  <2>3. ASSUME NEW f \in Frames, NEW g \in Frames, <<f, g>> \in Pairs(stack) PROVE OnTop(f, g)'
    <3>1. OnTop(f, g) /\ g \in Members(stack)
      BY <1>10, <2>3
    <3>2. Transacting(g)' => Transacting(g)
      <4>1. g.do = "command" => g.cmd \in Commands
        BY <1>11, <3>1 DEF HeldOnce
      <4> QED
        BY <1>5, <4>1 DEF Transacting
    <3> QED
      BY <1>14, <3>1, <3>2 DEF OnTop
  <2>4. StackTyped(u) /\ CallInv(u)
    BY <1>2, <1>8, <1>10, <2>2 DEF StackTyped, CallInv
  <2>5. \A f, g \in Frames : <<f, g>> \in Pairs(u) => OnTop(f, g)'
    BY <1>8, <2>1, <2>3
  <2> QED
    BY <1>9, <1>14, <2>4, <2>5 DEF StackTyped, StackInv, CallInv, Frames
<1>21. FlushInv(stack)'
  BY <1>2, <1>7, <1>8, <1>9, <1>14 DEF StackHolds, FlushInv
<1>22. PlaceInv(stack)'
  <2>1. HeldOnce(n)'
    <3>1. c \in Commands' /\ c \notin Waiting' /\ c \notin ran'
      BY <1>2, <1>5, <1>12, <1>13, <1>14 DEF DataTyped
    <3> QED
      BY <1>7, <3>1 DEF HeldOnce, n, Command, Frame
  <2>2. \A f \in Members(stack) : f.do = "command" => HeldOnce(f)'
    BY <1>5, <1>11, <1>13, <1>14 DEF HeldOnce
  <2>3. \A d \in Commands' \ ran' : d \in Waiting' \/ \E f \in Members(u) : f.do = "command" /\ f.cmd = d
    BY <1>2, <1>5, <1>7, <1>8, <1>13, <1>14 DEF StackHolds, PlaceInv
  <2> QED
    BY <1>8, <1>9, <2>1, <2>2, <2>3 DEF PlaceInv
<1>23. \A f \in Members(stack) : f.do = "command" => (Hand(u, f) <=> Hand(stack, f))
  BY <1>7, <1>8, <1>11 DEF Hand
<1>24. ~Hand(u, n)
  <2>1. \A w \in Members(stack) : <<n, w>> \in Neighbours(u) => w = Top
    BY <1>7, <1>8, <1>10, <1>11
  <2> QED
    BY <1>7, <1>8, <1>18, <2>1 DEF Hand
<1>25. GateInv(stack)'
  <2>1. ASSUME NEW f \in Members(stack), InGate(f)
        PROVE  IF Hand(stack, f) THEN Oldest(f.cmd)' ELSE Youngest(f.cmd)'
    <3>1. f.cmd \in Commands
      BY <1>11, <2>1 DEF InGate, HeldOnce
    <3>2. IF Hand(stack, f) THEN Oldest(f.cmd) ELSE Youngest(f.cmd)
      BY <1>2, <2>1 DEF StackHolds, GateInv
    <3>3. Oldest(f.cmd) => Oldest(f.cmd)'
      BY <1>6, <1>12, <1>13, <1>15, <3>1 DEF Oldest, Waiting, queues, flushState
    <3>4. Youngest(f.cmd) => Youngest(f.cmd)'
      BY <1>12, <1>14, <1>15, <3>1 DEF Youngest
    <3> QED
      BY <3>2, <3>3, <3>4
  <2>2. \A x \in Waiting' : InOrder(x, n.cmd)'
    BY <1>7, <1>12, <1>14, <1>15
  <2>3. ASSUME NEW f \in Members(u), InGate(f)
        PROVE  IF Hand(u, f) THEN Oldest(f.cmd)' ELSE Youngest(f.cmd)'
    <3>1. CASE f = n
      <4>1. \A x \in Waiting' : InOrder(x, f.cmd)'
        BY <1>7, <1>12, <1>14, <1>15, <3>1
      <4> QED
        BY <1>24, <3>1, <4>1 DEF Youngest
    <3>2. CASE f \in Members(stack)
      BY <1>23, <2>1, <2>3, <3>2 DEF InGate
    <3> QED
      BY <1>8, <3>1, <3>2
  <2>4. ASSUME NEW f \in Frames, NEW g \in Frames, <<f, g>> \in Pairs(u), InGate(f), InGate(g)
        PROVE  IF Hand(u, g) THEN f.cmd \in interrupting' ELSE InOrder(f.cmd, g.cmd)'
    <3>1. CASE f = n /\ g \in Members(stack)
      <4>1. c \in interrupting'
        BY <1>6, <1>19, <2>4, <3>1
      <4> QED
        BY <1>7, <3>1, <4>1 DEF InOrder
    <3>2. CASE <<f, g>> \in Pairs(stack)
      <4>1. IF Hand(stack, g) THEN f.cmd \in interrupting ELSE InOrder(f.cmd, g.cmd)
        BY <1>2, <2>4, <3>2 DEF StackHolds, GateInv
      <4>2. f.cmd \in Commands /\ g.cmd \in Commands /\ g \in Members(stack)
        BY <1>10, <1>11, <2>4, <3>2 DEF InGate, HeldOnce
      <4> QED
        BY <1>6, <1>15, <1>23, <2>4, <4>1, <4>2 DEF InGate
    <3> QED
      BY <1>8, <2>4, <3>1, <3>2
  <2> QED
    BY <1>9, <1>14, <2>3, <2>4 DEF GateInv, Frames
<1>26. FreshInv(stack)'
  <2>1. ASSUME NEW f \in Frames, NEW w \in Frames, <<f, w>> \in Pairs(u), InGate(f), ~Hand(u, f),
               f.cmd \notin interrupting', w.do = "flush", w.at = "after"
        PROVE  /\ ~deferredSinkRefused
               /\ \E g \in Members(u) : Admitted(g) /\ <<f, g>> \in Pairs(u) /\ <<g, w>> \in Pairs(u)
    <3>1. CASE f = n /\ w \in Members(stack)
      <4>1. ~deferredSinkRefused /\ \A g \in Members(stack) : g.do # "adopt"
        BY <1>6, <1>7, <2>1, <3>1
      <4>2. stack # <<>> /\ w \in Members(Tail(stack))
        BY <1>16, <1>17, <1>18, <2>1, <3>1
      <4>3. PICK h \in Members(stack) : h \in Frames /\ <<h, w>> \in Neighbours(stack)
        BY <4>2, Above
      <4>4. h.do = "command" /\ Placed(h) /\ <<h, w>> \in Pairs(stack)
        BY <1>2, <1>10, <2>1, <4>3 DEF Called, StackTyped
      <4>5. Admitted(h)
        BY <1>19, <4>1, <4>3, <4>4 DEF Admitted, Placed, InGate
      <4> QED
        BY <1>8, <3>1, <4>1, <4>3, <4>4, <4>5
    <3>2. CASE <<f, w>> \in Pairs(stack)
      <4>1. f \in Members(stack) /\ ~Hand(stack, f) /\ f.cmd \notin interrupting
        BY <1>6, <1>10, <1>23, <2>1, <3>2 DEF InGate
      <4>2. /\ ~deferredSinkRefused
            /\ \E g \in Members(stack) : Admitted(g) /\ <<f, g>> \in Pairs(stack) /\ <<g, w>> \in Pairs(stack)
        BY <1>2, <2>1, <3>2, <4>1 DEF StackHolds, FreshInv
      <4> QED
        BY <1>8, <4>2
    <3> QED
      BY <1>8, <2>1, <3>1, <3>2
  <2> QED
    BY <1>9, <1>13, <1>14, <2>1 DEF FreshInv, Frames, queues, flushState
<1>27. QueuesInv'
  <2>1. \A v \in {deferredCommands, queued, spawned, produced} :
          \A x, y \in Commands' : <<x, y>> \in Pairs(v) => Fine(x, y)'
    <3>1. \A v \in {deferredCommands, queued, spawned, produced} :
            \A x, y : <<x, y>> \in Pairs(v) => x \in Commands /\ y \in Commands
      <4>1. {deferredCommands, queued, spawned, produced} \subseteq Seq(Commands)
        BY <1>2 DEF DataTyped
      <4> QED
        BY <4>1, Within
    <3> QED
      BY <1>2, <1>15, <3>1 DEF QueuesInv
  <2>2. \A x \in Members(queued), y \in Members(spawned) : Fine(x, y)'
    BY <1>2, <1>12, <1>15 DEF QueuesInv, Waiting
  <2>3. \A x \in Members(queued) \cup Members(spawned), y \in Members(produced) :
          IF deferredSinkRefused THEN Fine(y, x)' ELSE Fine(x, y)'
    BY <1>2, <1>12, <1>15 DEF QueuesInv, Waiting
  <2>4. Waiting' \cap ran' = {}
    BY <1>2, <1>13, <1>14 DEF QueuesInv
  <2> QED
    BY <1>13, <2>1, <2>2, <2>3, <2>4 DEF QueuesInv, queues, flushState
<1>28. DataTyped'
  <2>1. pumps' \in 0..MaxPumps
    BY <1>2, BoundsTyped DEF Click, Deliver, DataTyped
  <2>2. ran' \subseteq Commands' /\ interrupting' \subseteq Commands' /\ Len(kind') <= MaxCommands
    BY <1>2, <1>4, <1>5, <1>6, <1>13, BoundsTyped DEF DataTyped
  <2>3. {deferredCommands, queued, spawned, produced}' \subseteq Seq(Commands')
    <3>1. \A v \in Seq(Commands) : v \in Seq(Commands')
      BY <1>5
    <3> QED
      BY <1>2, <1>13, <3>1 DEF DataTyped, queues, flushState
  <2> QED
    BY <1>1, <1>2, <1>5, <2>1, <2>2, <2>3 DEF DataTyped, restores, latency, queues, flushState
<1>29. LockInv' /\ DoneInv'
  BY <1>1, <1>7, <1>8, <1>9 DEF IInv, LockInv, DoneInv, HostHolds, Admitted, restores
<1>30. LatencyInv'
  BY <1>1, <1>8, <1>9 DEF IInv, LatencyInv, latency
<1> QED
  BY <1>20, <1>21, <1>22, <1>25, <1>26, <1>27, <1>28, <1>29, <1>30 DEF IInv, StackHolds

-----------------------------------------------------------------------------
(* The invariant holds, and what it says of the gate.                       *)

LEMMA InitHolds == Init => IInv
<1> SUFFICES ASSUME Init
             PROVE  IInv
  OBVIOUS
<1> USE DEF Init
<1>1. /\ Members(<<>>) = {} /\ Pairs(<<>>) = {} /\ Neighbours(<<>>) = {}
      /\ \A S : <<>> \in Seq(S)
  BY Empty
<1>2. Commands = {} /\ Waiting = {} /\ EmptyBatch
  <2>1. Len(kind) = 0 /\ 1..0 = {}
    OBVIOUS
  <2>2. Commands = {}
    BY <2>1 DEF Commands
  <2> QED
    BY <1>1, <2>2 DEF Waiting, EmptyBatch, flushState
<1>3. DataTyped
  <2>1. kind \in Seq(AllKinds \cup {"done"}) /\ Len(kind) = 0
    BY <1>1
  <2>2. /\ {deferredCommands, queued, spawned, produced} \subseteq Seq(Commands)
        /\ ran \subseteq Commands /\ interrupting \subseteq Commands
    BY <1>1
  <2>3. /\ Len(kind) <= MaxCommands /\ edits \in 0..MaxEdits /\ moves \in 0..MaxMoves
        /\ pumps \in 0..MaxPumps /\ saves \in 0..MaxSaves
        /\ {announced, pendingRestore, adoptedGeneration} \subseteq 0..MaxRestores
    BY <2>1, BoundsTyped
  <2> QED
    BY <2>1, <2>2, <2>3 DEF DataTyped
<1>4. StackHolds(stack)
  BY <1>1, <1>2 DEF StackHolds, StackTyped, StackInv, CallInv, FlushInv, PlaceInv, GateInv, FreshInv
<1>5. QueuesInv
  BY <1>1, <1>2 DEF QueuesInv
<1>6. LockInv /\ DoneInv /\ LatencyInv
  BY <1>1 DEF LockInv, DoneInv, LatencyInv
<1> QED
  BY <1>3, <1>4, <1>5, <1>6 DEF IInv

LEMMA NextKeeps == IInv /\ [Next]_vars => IInv'
<1> SUFFICES ASSUME IInv, [Next]_vars
             PROVE  IInv'
  OBVIOUS
<1>1. CASE UNCHANGED vars
  <2>1. UNCHANGED <<given, bounds, queues, stack, restores, latency>>
    BY <1>1 DEF vars
  <2>2. DataTyped'
    BY <2>1 DEF IInv, DataTyped, given, bounds, queues, flushState, restores, latency, Commands
  <2>3. LockInv' /\ DoneInv' /\ LatencyInv'
    BY <2>1 DEF IInv, LockInv, DoneInv, LatencyInv, HostHolds, Admitted, given, restores, latency
  <2>4. StackHolds(stack')
    BY <2>1 DEF IInv
  <2> QED
    BY <2>1, <2>2, <2>3, <2>4, Quiet DEF IInv
<1>2. CASE EditDone \/ DeliverLatency \/ CalloutReturns
  BY <1>2, EditDoneKeeps, DeliverLatencyKeeps, CalloutReturnsKeeps
<1>3. CASE AdoptTake \/ AdoptBlocked \/ AdoptWritten \/ AdoptTail \/ AdoptDrained \/ AdoptAgain
  BY <1>3, AdoptTakeKeeps, AdoptBlockedKeeps, AdoptWrittenKeeps, AdoptTailKeeps, AdoptDrainedKeeps,
     AdoptAgainKeeps
<1>4. CASE GateRefuses \/ GateNests \/ GateDrains \/ GateDrained \/ GateTries
  BY <1>4, GateKeeps, GateNestsKeeps, GateDrainsKeeps
<1>5. CASE FlushLoop \/ FlushMove \/ FlushRun \/ FlushRan \/ FlushRefused \/ FlushBatchDone
  BY <1>5, FlushLoopKeeps, FlushMoveKeeps, FlushRunKeeps, FlushRanKeeps, FlushRefusedKeeps,
     FlushBatchDoneKeeps
<1>6. CASE CommandBegins \/ CommandApplies \/ CommandWritten \/ CommandCloses \/ CommandReturns
  BY <1>6, CommandBeginsKeeps, CommandAppliesKeeps, CommandWrittenKeeps, CommandClosesKeeps,
     CommandReturnsKeeps
<1>7. CASE BurstCloses \/ TickFlushes \/ TickReports \/ EditorPolls
  BY <1>7, BurstClosesKeeps, TickFlushesKeeps, TickReportsKeeps, EditorPollsKeeps
<1>8. CASE UpdateLatency \/ (\E k \in Kinds : Click(k)) \/ (\E what \in {"knob", "burst"} : Edit(what))
  BY <1>8, UpdateLatencyKeeps, ClickKeeps, EditKeeps
<1>9. CASE Tick \/ EditorTick
  BY <1>9, TickKeeps, EditorTickKeeps
<1>10. CASE AudioMove \/ RequestLatencyUpdate \/ AnnounceRestore \/ HostLock \/ HostUnlock \/ HandOver
  BY <1>10, OthersKeep
<1> QED
  BY <1>1, <1>2, <1>3, <1>4, <1>5, <1>6, <1>7, <1>8, <1>9, <1>10 DEF Next, Resume

\* The lock, the queues and the calls are as this says from the start on, so that
\* no command is lost, doubled or overtaken and none begins inside another's writes.
THEOREM GateInvariant == Spec => []IInv
BY InitHolds, NextKeeps, PTL DEF Spec

\* No two places of the line are in the wrong order.
SortedLine(s) == \A a, b \in Commands : <<a, b>> \in Pairs(s) => Fine(a, b)

EndToEnd(l, x, y, z, d) == l = x \o y \o z \o d

\* Three batches whose commands are in order from one to the next, and a fourth
\* that has something only when they are empty.
InTurn(x, y, z, d) ==
  /\ x \in Seq(Commands) /\ y \in Seq(Commands) /\ z \in Seq(Commands) /\ d \in Seq(Commands)
  /\ SortedLine(x) /\ SortedLine(y) /\ SortedLine(z) /\ SortedLine(d)
  /\ \A a \in Members(x), b \in Members(y) : Fine(a, b)
  /\ \A a \in Members(x) \cup Members(y), b \in Members(z) : Fine(a, b)
  /\ Members(d) = {} \/ (Members(x) = {} /\ Members(y) = {} /\ Members(z) = {})

\* Four such batches end to end are one line in order, of their commands.
LEMMA FourInLine ==
  ASSUME NEW x, NEW y, NEW z, NEW d, NEW l, EndToEnd(l, x, y, z, d), InTurn(x, y, z, d)
  PROVE  /\ l \in Seq(Commands) /\ SortedLine(l)
         /\ \A f : f \in Members(l) <=> f \in Members(x) \/ f \in Members(y) \/ f \in Members(z) \/ f \in Members(d)
<1> DEFINE u == x \o y
           v == u \o z
<1>1. x \in Seq(Commands) /\ y \in Seq(Commands) /\ InTurn(x, y, z, d)
  BY DEF InTurn
<1>2. u \in Seq(Commands) /\ SortedLine(u) /\ \A f : f \in Members(u) <=> f \in Members(x) \/ f \in Members(y)
  BY <1>1, Joining DEF SortedLine, InTurn
<1>3. l = v \o d
  BY DEF EndToEnd
<1> HIDE DEF u
<1>4. v \in Seq(Commands) /\ SortedLine(v) /\ \A f : f \in Members(v) <=> f \in Members(u) \/ f \in Members(z)
  BY <1>2, Joining DEF SortedLine, InTurn
<1> HIDE DEF v
<1>5. \A a \in Members(v), b \in Members(d) : Fine(a, b)
  BY <1>2, <1>4 DEF InTurn
<1>6. l \in Seq(Commands) /\ SortedLine(l) /\ \A f : f \in Members(l) <=> f \in Members(v) \/ f \in Members(d)
  BY <1>3, <1>4, <1>5, Joining DEF SortedLine, InTurn
<1> QED
  BY <1>2, <1>4, <1>6

\* What waits, in one line.
LEMMA LineHolds ==
  ASSUME IInv
  PROVE  /\ Line \in Seq(Commands)
         /\ \A f : f \in Members(Line) <=> f \in Waiting
         /\ \A a, b \in Commands : <<a, b>> \in Pairs(Line) => Fine(a, b)
<1>1. /\ QueuesInv /\ deferredCommands \in Seq(Commands) /\ queued \in Seq(Commands)
      /\ spawned \in Seq(Commands) /\ produced \in Seq(Commands) /\ deferredSinkRefused \in BOOLEAN
  BY DEF IInv, DataTyped
<1>2. Members(<<>>) = {} /\ Pairs(<<>>) = {} /\ <<>> \in Seq(Commands)
  BY Empty
<1>3. deferredCommands = <<>> \/ (queued = <<>> /\ spawned = <<>> /\ produced = <<>>)
  <2>1. ASSUME NEW w \in Members(stack), w.do = "flush" PROVE deferredCommands = <<>> \/ EmptyBatch
    BY <2>1 DEF IInv, StackHolds, StackTyped, FlushInv, Reached, Placed
  <2>2. deferredCommands = <<>> \/ EmptyBatch
    BY <2>1 DEF IInv, StackHolds, FlushInv
  <2> QED
    BY <2>2 DEF EmptyBatch, flushState
<1>5. Members(deferredCommands) = {} \/ (Members(queued) = {} /\ Members(spawned) = {} /\ Members(produced) = {})
  BY <1>2, <1>3
<1>6. SortedLine(deferredCommands) /\ SortedLine(queued) /\ SortedLine(spawned) /\ SortedLine(produced)
  BY <1>1 DEF QueuesInv, SortedLine
<1>7. CASE deferredSinkRefused
  <2>1. PICK l : EndToEnd(l, produced, queued, spawned, deferredCommands)
    BY DEF EndToEnd
  <2>2. /\ \A a \in Members(produced), b \in Members(queued) : Fine(a, b)
        /\ \A a \in Members(produced) \cup Members(queued), b \in Members(spawned) : Fine(a, b)
    BY <1>1, <1>7 DEF QueuesInv
  <2>3. InTurn(produced, queued, spawned, deferredCommands)
    BY <1>1, <1>5, <1>6, <2>2 DEF InTurn
  <2>4. /\ l \in Seq(Commands) /\ SortedLine(l)
        /\ \A f : f \in Members(l) <=> f \in Members(produced) \/ f \in Members(queued) \/ f \in Members(spawned)
                                              \/ f \in Members(deferredCommands)
    BY <2>1, <2>3, FourInLine
  <2>5. Line = l
    BY <1>7, <2>1 DEF Line, EndToEnd
  <2> QED
    BY <2>4, <2>5, Zenon DEF Waiting, SortedLine
<1>8. CASE ~deferredSinkRefused
  <2>1. PICK l : EndToEnd(l, queued, spawned, produced, deferredCommands)
    BY DEF EndToEnd
  <2>2. /\ \A a \in Members(queued), b \in Members(spawned) : Fine(a, b)
        /\ \A a \in Members(queued) \cup Members(spawned), b \in Members(produced) : Fine(a, b)
    BY <1>1, <1>8 DEF QueuesInv
  <2>3. InTurn(queued, spawned, produced, deferredCommands)
    BY <1>1, <1>5, <1>6, <2>2 DEF InTurn
  <2>4. /\ l \in Seq(Commands) /\ SortedLine(l)
        /\ \A f : f \in Members(l) <=> f \in Members(queued) \/ f \in Members(spawned) \/ f \in Members(produced)
                                              \/ f \in Members(deferredCommands)
    BY <2>1, <2>3, FourInLine
  <2>5. Line = l
    BY <1>8, <2>1 DEF Line, EndToEnd
  <2> QED
    BY <2>4, <2>5, Zenon DEF Waiting, SortedLine
<1> QED
  BY <1>7, <1>8

\* A set whose members are all one.
LEMMA AtMostOne ==
  ASSUME NEW S, \A i, j \in S : i = j
  PROVE  Cardinality(S) = IF S = {} THEN 0 ELSE 1
<1>1. CASE S = {}
  BY <1>1, FS_EmptySet
<1>2. CASE S # {}
  <2>1. PICK x \in S : S = {x}
    BY <1>2
  <2> QED
    BY <1>2, <2>1, FS_Singleton
<1> QED
  BY <1>1, <1>2

\* The calls by their places.
LEMMA Places ==
  ASSUME IInv
  PROVE  /\ Calls = 1..Len(stack) /\ Len(stack) \in Nat
         /\ \A i \in Calls : stack[i] \in Members(stack) /\ stack[i] \in Frames /\ Placed(stack[i])
         /\ \A i, j \in Calls : i < j => OnTop(stack[i], stack[j])
         /\ \A f \in Members(stack) : \E i \in Calls : stack[i] = f
<1>1. /\ Calls = DOMAIN stack /\ stack \in Seq(Frames) /\ StackTyped(stack)
      /\ Members(stack) = {stack[i] : i \in DOMAIN stack}
  BY DEF Calls, IInv, StackHolds, StackTyped, Members
<1>2. ASSUME NEW i \in DOMAIN stack, NEW j \in DOMAIN stack, i < j PROVE OnTop(stack[i], stack[j])
  <2>1. <<stack[i], stack[j]>> \in Pairs(stack)
    BY <1>2, Among
  <2> QED
    BY <2>1, OneFlush
<1>3. Calls = 1..Len(stack) /\ Len(stack) \in Nat
  BY <1>1
<1> QED
  BY <1>1, <1>2, <1>3 DEF StackTyped

LEMMA TypesFollow == IInv => TypeOK
<1> SUFFICES ASSUME IInv
             PROVE  TypeOK
  OBVIOUS
<1>1. DataTyped /\ StackTyped(stack) /\ FlushInv(stack) /\ LockInv
  BY DEF IInv, StackHolds
<1>2. \A i \in Calls :
        /\ stack[i].do \in {"adopt", "command", "flush", "knob", "burst", "tick", "editor", "latency"}
        /\ stack[i].cmd \in 0..MaxCommands /\ stack[i].seen \in 0..MaxRestores
  BY Places DEF Frames
<1>3. ~(HostHolds /\ MessageHolds)
  BY <1>1, Reading DEF LockInv
<1>4. Cardinality({i \in Calls : stack[i].do = "flush"}) <= 1
  <2> DEFINE F == {i \in Calls : stack[i].do = "flush"}
  <2>1. \A i, j \in F : i = j
    <3>1. ASSUME NEW i \in F, NEW j \in F, i < j PROVE FALSE
      BY <3>1, Places DEF OnTop
    <3>2. \A i, j \in F : i < j \/ j < i \/ i = j
      BY Places
    <3> QED
      BY <3>1, <3>2
  <2> HIDE DEF F
  <2>2. Cardinality(F) = IF F = {} THEN 0 ELSE 1
    BY <2>1, AtMostOne
  <2> QED
    BY <2>2 DEF F
<1>5. RunningDeferred \/ flushState = <<<<>>, <<>>, <<>>, FALSE>>
  BY <1>1, Reading DEF FlushInv, EmptyBatch
<1> QED
  BY <1>1, <1>2, <1>3, <1>4, <1>5, LineHolds DEF TypeOK, DataTyped

LEMMA NoneDropped == IInv => NothingDropped
<1> SUFFICES ASSUME IInv, NEW c \in Commands
             PROVE  Cardinality({i \in InHand : stack[i].cmd = c})
                      + Cardinality({i \in DOMAIN Line : Line[i] = c}) = IF c \in ran THEN 0 ELSE 1
  BY DEF NothingDropped
<1> DEFINE A == {i \in InHand : stack[i].cmd = c}
           B == {i \in DOMAIN Line : Line[i] = c}
<1>1. /\ Line \in Seq(Commands) /\ \A f : f \in Members(Line) <=> f \in Waiting
      /\ \A a, b \in Commands : <<a, b>> \in Pairs(Line) => Fine(a, b)
  BY LineHolds
<1>2. \A i, j \in A : i = j
  <2>1. ASSUME NEW i \in A, NEW j \in A, i < j PROVE FALSE
    BY <2>1, Places DEF OnTop, InHand
  <2>2. \A i, j \in A : i < j \/ j < i \/ i = j
    BY Places DEF InHand
  <2> QED
    BY <2>1, <2>2
<1>3. \A i, j \in B : i = j
  <2> DEFINE l == Line
  <2>1. l \in Seq(Commands) /\ \A a, b \in Commands : <<a, b>> \in Pairs(l) => Fine(a, b)
    BY <1>1
  <2> HIDE DEF l
  <2>2. ASSUME NEW i \in DOMAIN l, NEW j \in DOMAIN l, i < j, l[i] = c, l[j] = c PROVE FALSE
    <3>1. <<c, c>> \in Pairs(l)
      BY <2>2, Among
    <3> QED
      BY <2>1, <3>1 DEF Fine
  <2>3. \A i, j \in DOMAIN l : i < j \/ j < i \/ i = j
    BY <2>1
  <2> QED
    BY <2>2, <2>3 DEF l
<1>4. B # {} <=> c \in Waiting
  <2> DEFINE l == Line
  <2>1. c \in Members(l) <=> c \in Waiting
    BY <1>1
  <2>2. B = {i \in DOMAIN l : l[i] = c}
    OBVIOUS
  <2> HIDE DEF l, B
  <2> QED
    BY <2>1, <2>2 DEF Members
<1>5. A # {} <=> c \notin ran /\ \E f \in Members(stack) : f.do = "command" /\ f.cmd = c
  BY Places DEF InHand
<1>6. /\ c \in Waiting => c \notin ran /\ A = {}
      /\ c \notin ran => c \in Waiting \/ \E f \in Members(stack) : f.do = "command" /\ f.cmd = c
  <2>1. \A f \in Members(stack) : f.do = "command" => f.cmd \notin Waiting
    BY DEF IInv, StackHolds, PlaceInv, HeldOnce
  <2>2. c \in Waiting => c \notin ran
    BY DEF IInv, QueuesInv
  <2>3. c \notin ran => c \in Waiting \/ \E f \in Members(stack) : f.do = "command" /\ f.cmd = c
    BY DEF IInv, StackHolds, PlaceInv
  <2> QED
    BY <1>5, <2>1, <2>2, <2>3
<1> HIDE DEF A, B
<1>7. Cardinality(A) = (IF A = {} THEN 0 ELSE 1) /\ Cardinality(B) = (IF B = {} THEN 0 ELSE 1)
  BY <1>2, <1>3, AtMostOne
<1>8. Cardinality(A) + Cardinality(B) = IF c \in ran THEN 0 ELSE 1
  BY <1>4, <1>5, <1>6, <1>7
<1> QED
  BY <1>8 DEF A, B

LEMMA GateFollows == IInv => GateHolds
<1> SUFFICES ASSUME IInv
             PROVE  GateHolds
  OBVIOUS
<1>1. QueueInOrder
  <2> DEFINE l == Line
  <2>1. l \in Seq(Commands) /\ \A a, b \in Commands : <<a, b>> \in Pairs(l) => Fine(a, b)
    BY LineHolds
  <2> HIDE DEF l
  <2>2. ASSUME NEW i \in DOMAIN l, NEW j \in DOMAIN l, i < j PROVE InOrder(l[i], l[j])
    <3>1. <<l[i], l[j]>> \in Pairs(l) /\ l[i] \in Commands /\ l[j] \in Commands
      BY <2>1, <2>2, Among
    <3> QED
      BY <2>1, <3>1 DEF Fine
  <2>3. \A i, j \in DOMAIN Line : i < j => InOrder(Line[i], Line[j])
    BY <2>2 DEF l
  <2> QED
    BY <2>3 DEF QueueInOrder, InOrder
<1>2. CommandsApart /\ CalloutsOutside
  BY Places DEF CommandsApart, CalloutsOutside, OnTop, Admitted
<1>3. NoRequestLost
  BY Places DEF NoRequestLost, IInv, LatencyInv
<1> QED
  BY <1>1, <1>2, <1>3, TypesFollow, NoneDropped DEF GateHolds

\* At any moment: every command is in one place, what waits is in the order it was
\* given, nothing begins inside another's writes, the host is called from none of
\* them, and no change of the latency is forgotten.
THEOREM GateAlwaysHolds == Spec => []GateHolds
BY GateInvariant, GateFollows, PTL

\* A burst of edits, and Apply Gain, write over one session from start to end.
THEOREM BurstsAlwaysKeepSession == Spec => BurstsKeepSession
<1>1. ASSUME IInv, Next PROVE SessionKept
  <2>1. CASE AdoptTake
    <3>1. stack # <<>> /\ Top.do = "adopt" /\ Top.at = "cell"
      BY <2>1 DEF AdoptTake, At
    <3>2. \A f \in Members(stack) : ~Transacting(f)
      BY <1>1, <3>1, OnStack DEF OnTop, Transacting
    <3> QED
      BY <1>1, <3>2, Places DEF SessionKept
  <2>2. CASE ~AdoptTake
    <3>1. adoptedGeneration' = adoptedGeneration
      <4>1. CASE EditDone \/ DeliverLatency \/ CalloutReturns \/ AdoptBlocked \/ AdoptWritten \/ AdoptTail
                 \/ AdoptDrained \/ AdoptAgain
        BY <4>1 DEF EditDone, DeliverLatency, CalloutReturns, AdoptBlocked, AdoptWritten, AdoptTail,
                    AdoptDrained, AdoptAgain, restores
      <4>2. CASE GateRefuses \/ GateNests \/ GateDrains \/ GateDrained \/ GateTries
        BY <4>2 DEF GateRefuses, GateNests, GateDrains, GateDrained, GateTries, restores
      <4>3. CASE FlushLoop \/ FlushMove \/ FlushRun \/ FlushRan \/ FlushRefused \/ FlushBatchDone
        BY <4>3 DEF FlushLoop, FlushMove, FlushRun, FlushRan, FlushRefused, FlushBatchDone, restores
      <4>4. CASE CommandBegins \/ CommandApplies \/ CommandWritten \/ CommandCloses \/ CommandReturns
        BY <4>4 DEF CommandBegins, CommandApplies, CommandWritten, CommandCloses, CommandReturns, restores
      <4>5. CASE BurstCloses \/ TickFlushes \/ TickReports \/ EditorPolls
        BY <4>5 DEF BurstCloses, TickFlushes, TickReports, EditorPolls, restores
      <4>6. CASE UpdateLatency \/ (\E k \in Kinds : Click(k)) \/ (\E what \in {"knob", "burst"} : Edit(what))
        BY <4>6 DEF UpdateLatency, Click, Edit, restores
      <4>7. CASE Tick \/ EditorTick \/ AudioMove \/ RequestLatencyUpdate
        BY <4>7 DEF Tick, EditorTick, AudioMove, RequestLatencyUpdate, restores
      <4>8. CASE AnnounceRestore \/ HostLock \/ HostUnlock \/ HandOver
        BY <4>8 DEF AnnounceRestore, HostLock, HostUnlock, HandOver
      <4> QED
        BY <1>1, <2>2, <4>1, <4>2, <4>3, <4>4, <4>5, <4>6, <4>7, <4>8 DEF Next, Resume
    <3> QED
      BY <3>1 DEF SessionKept
  <2> QED
    BY <2>1, <2>2
<1>2. IInv /\ [Next]_vars => [SessionKept]_vars
  BY <1>1
<1> QED
  BY <1>2, GateInvariant, PTL DEF Spec, BurstsKeepSession
=============================================================================
