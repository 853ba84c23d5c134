------------------------------ MODULE BulkSwap ------------------------------
(***************************************************************************)
(* The bulk-swap handshake of ADR-0057 between the message thread, which   *)
(* replaces the whole sound one parameter at a time (undo, redo, A/B       *)
(* switch, preset load), and the audio side, which reads every parameter   *)
(* into a snapshot each block and must never adopt half of a replacement.  *)
(*                                                                         *)
(* A parameter's value is what the properties tell apart: the number of    *)
(* the swap that last wrote it and a small payload.  The payload of        *)
(* LatencyParam (the oversampling choice) stands for the latency it costs. *)
(*                                                                         *)
(* Memory is sequentially consistent here.  In the code the parameters are *)
(* std::atomic with the default ordering and the request word is only ever *)
(* changed by read-modify-writes, released by completeBulkApply and        *)
(* acquired by takeRequestWord, which orders them as modelled.  Sequence 0 *)
(* (legacyReq, matchInject) is an engine interface no caller under         *)
(* src/src uses, and is left out.                                          *)
(***************************************************************************)
EXTENDS Integers, FiniteSets

CONSTANTS
  Params,        \* the parameters one sound consists of
  Discrete,      \* those whose change is never applied live (discreteDiffers)
  Held,          \* those copyContinuous keeps during an ordinary duck
  LatencyParam,  \* the one that decides the engine's latency (oversample)
  Payloads,      \* what a value can be, besides the swap that wrote it
  SeqCount,      \* kBulkSeqCount, 15 in the code
  Top,           \* switchPhase at 1.0; 0 is the bottom of the duck
  MaxSwaps,      \* bound: bulk swaps in one behaviour
  MaxEvents       \* bound: edits, restores and nested swaps in one behaviour

ASSUME ParamsAssumption ==
  /\ Discrete \subseteq Held
  /\ Held \subseteq Params
  /\ LatencyParam \in Discrete
  /\ Payloads \subseteq Nat
  /\ 0 \in Payloads

\* With a single sequence number a completion could not be told from the one
\* before it.
ASSUME BoundsAssumption ==
  /\ SeqCount \in Nat /\ SeqCount >= 2
  /\ Top \in Nat /\ Top >= 1
  /\ MaxSwaps \in Nat
  /\ MaxEvents \in Nat

VARIABLES
  live,          \* the parameters' atomics
  swap,          \* history: number of the newest bulk swap
  changed,       \* history: the parameters each swap moves
  slotOf,        \* history: the A/B slot whose sound each swap installs
  bulkSeq,       \* sequence of the newest swap, 0 before the first
  bulkDepth,     \* bulk swaps open (a nested one joins the outer)
  owed,          \* the parameters the open swap has still to write
  abActive,      \* the A/B slot shown
  events,         \* history: how many of those have happened
  word,          \* duckRequest, the atomic request word
  awaitSeq,      \* the sequence whose completion the engine awaits, or 0
  startPending,  \* a completion was taken, its duck has not started
  stash,         \* the taken A/B switch waiting for that start
  abMemory,      \* the remembered Level-Match record of each slot
  abRestoreSlot, \* the slot whose record the next bottom restores
  pc, purpose,   \* where the audio side is, and what it reads for
  np, unread,    \* the snapshot, and the parameters not yet read into it
  clear,         \* nothing was awaited before the read; then: trusted
  p, pendingP,   \* the parameters the engine runs, and the duck's target
  switchState, switchPhase, pendingForced,
  dryDuck, dryDuckLat

messageVars == <<swap, changed, slotOf, bulkSeq, bulkDepth, owed, abActive, events>>
requestVars == <<awaitSeq, startPending, stash, abMemory, abRestoreSlot>>
readVars    == <<pc, purpose, np, unread, clear>>
duckVars    == <<p, pendingP, switchState, switchPhase, pendingForced,
                 dryDuck, dryDuckLat>>
vars == <<live, messageVars, word, requestVars, readVars, duckVars>>

Word  == [ab : BOOLEAN, from : 0..1, to : 0..1, forget : BOOLEAN,
          seq : 0..SeqCount, done : 0..SeqCount]
Stash == [on : BOOLEAN, from : 0..1, to : 0..1, record : BOOLEAN]
Value == [swap : 0..MaxSwaps, payload : Payloads]
Sound == [Params -> Value]
Slots == 0..1
None  == -1

FirstSound == [x \in Params |-> [swap |-> 0, payload |-> 0]]
NoRecord   == [x \in {} |-> 0]
NoStash    == [on |-> FALSE, from |-> 0, to |-> 0, record |-> FALSE]
NoRequest  == [ab |-> FALSE, from |-> 0, to |-> 0, forget |-> FALSE,
               seq |-> 0, done |-> 0]

Latency(s) == s[LatencyParam].payload
DiscreteDiffers(a, b) == \E x \in Discrete : a[x] # b[x]
CopyContinuous(dst, src) ==
  [x \in Params |-> IF x \in Held THEN dst[x] ELSE src[x]]

Init ==
  /\ live = FirstSound
  /\ swap = 0
  /\ changed = [k \in 1..MaxSwaps |-> {}]
  /\ slotOf = [k \in 0..MaxSwaps |-> 0]
  /\ bulkSeq = 0 /\ bulkDepth = 0 /\ owed = {}
  /\ abActive = 0 /\ events = 0
  /\ word = NoRequest
  /\ awaitSeq = 0 /\ startPending = FALSE /\ stash = NoStash
  /\ abMemory = [s \in Slots |-> NoRecord] /\ abRestoreSlot = None
  /\ pc = "idle" /\ purpose = "block"
  /\ np = FirstSound /\ unread = {} /\ clear = FALSE
  /\ p = FirstSound /\ pendingP = FirstSound
  /\ switchState = "Normal" /\ switchPhase = Top /\ pendingForced = FALSE
  /\ dryDuck = FALSE /\ dryDuckLat = 0

-----------------------------------------------------------------------------
(* The message thread. *)

NextSeq == (bulkSeq % SeqCount) + 1

\* The read-modify-writes of the request word.  Every request carries a
\* sequence, so "seq # 0" is the code's "kReqDuck or kReqAbSwitch is set".
RequestDuck(w, seq) == [w EXCEPT !.seq = seq]

\* A switch still pending keeps its source: the engine has not left that slot.
RequestAbSwitch(w, from, to, seq) ==
  [w EXCEPT !.ab = TRUE, !.from = IF w.ab THEN w.from ELSE from,
            !.to = to, !.seq = seq]

\* Mutant: a completion names the request in the word, not its own.
CompleteNewestRequest(w, seq) == [w EXCEPT !.done = w.seq]

CompleteBulkApply(w, seq) == [w EXCEPT !.done = seq]

ForgetAbMatchMemory(w) ==
  [ab |-> FALSE, from |-> 0, to |-> 0, forget |-> TRUE,
   seq |-> w.seq, done |-> w.done]

OpenSwap(C, slot) ==
  /\ bulkDepth = 0 /\ swap < MaxSwaps
  /\ swap' = swap + 1
  /\ changed' = [changed EXCEPT ![swap + 1] = C]
  /\ slotOf' = [slotOf EXCEPT ![swap + 1] = slot]
  /\ bulkSeq' = NextSeq /\ bulkDepth' = 1 /\ owed' = C
  /\ abActive' = slot

\* undo(), redo(), and a preset load's onAboutToLoad.
BeginSwap ==
  \E C \in SUBSET Params :
    /\ OpenSwap(C, abActive)
    /\ word' = RequestDuck(word, NextSeq)
    /\ UNCHANGED <<live, events, requestVars, readVars, duckVars>>

\* abSwitchToAdopted().  The two slots' sounds differ: with equal ones the
\* records it carries over are equally good for both.
BeginAbSwitch ==
  \E C \in (SUBSET Params) \ {{}} :
    /\ OpenSwap(C, 1 - abActive)
    /\ word' = RequestAbSwitch(word, abActive, 1 - abActive, NextSeq)
    /\ UNCHANGED <<live, events, requestVars, readVars, duckVars>>

\* A swap begun inside another joins it: the same sequence.
JoinSwap ==
  /\ bulkDepth = 1 /\ events < MaxEvents
  /\ events' = events + 1
  /\ bulkDepth' = 2
  /\ \E C \in SUBSET Params :
       /\ changed' = [changed EXCEPT ![swap] = @ \cup C]
       /\ owed' = owed \cup C
  /\ word' = RequestDuck(word, bulkSeq)
  /\ UNCHANGED <<live, swap, slotOf, bulkSeq, abActive, requestVars, readVars,
                 duckVars>>

\* One parameter store of the swap (reassertParameters writes a parameter only
\* when its value moves, which is what "changed" collects).
WriteParam(x) ==
  /\ bulkDepth > 0 /\ x \in owed
  /\ \E v \in Payloads : live' = [live EXCEPT ![x] = [swap |-> swap, payload |-> v]]
  /\ owed' = owed \ {x}
  /\ UNCHANGED <<swap, changed, slotOf, bulkSeq, bulkDepth, abActive, events,
                 word, requestVars, readVars, duckVars>>

\* endBulkApply(): only the outermost end publishes the completion.
EndSwap ==
  /\ bulkDepth > 0
  /\ bulkDepth = 1 => owed = {}
  /\ bulkDepth' = bulkDepth - 1
  /\ word' = IF bulkDepth = 1 THEN CompleteBulkApply(word, bulkSeq) ELSE word
  /\ UNCHANGED <<live, swap, changed, slotOf, bulkSeq, owed, abActive, events,
                 requestVars, readVars, duckVars>>

\* adoptRestoreTail() after a session restore: both slots are replaced, so
\* whatever sound is live or to come now belongs to the slot it shows.  Here between
\* swaps only.
ForgetMemory(slot) ==
  /\ bulkDepth = 0 /\ events < MaxEvents
  /\ events' = events + 1
  /\ abActive' = slot
  /\ slotOf' = [k \in 0..MaxSwaps |-> slot]
  /\ word' = ForgetAbMatchMemory(word)
  /\ UNCHANGED <<live, swap, changed, bulkSeq, bulkDepth, owed, requestVars,
                 readVars, duckVars>>

\* A user's edit or a host's automation: any thread, any parameter, any time.
EditParam(x) ==
  /\ events < MaxEvents
  /\ events' = events + 1
  /\ \E v \in Payloads \ {live[x].payload} : live' = [live EXCEPT ![x].payload = v]
  /\ UNCHANGED <<swap, changed, slotOf, bulkSeq, bulkDepth, owed, abActive,
                 word, requestVars, readVars, duckVars>>

-----------------------------------------------------------------------------
(* The audio side: processBlock, prepareToPlay and reset, which the host    *)
(* never runs at the same time.                                             *)

\* takeRequestWord(): exchange the word for 0 and take it in.  The newest
\* sequence is the one awaited, until its completion has been taken too.
Awaited == IF word.seq # 0 THEN word.seq ELSE awaitSeq
Completed == Awaited # 0 /\ word.done = Awaited

KeptStash == IF word.forget THEN NoStash ELSE stash

TakenSwitch ==
  [on |-> TRUE,
   from |-> IF KeptStash.on THEN KeptStash.from ELSE word.from,
   to |-> word.to,
   record |-> (KeptStash.on => KeptStash.record) /\ ~word.forget]

\* Mutant: a start not yet carried out is dropped by the next take.
TakeForgettingStart ==
  /\ word' = NoRequest
  /\ awaitSeq' = IF Completed THEN 0 ELSE Awaited
  /\ startPending' = Completed
  /\ stash' = IF word.ab THEN TakenSwitch ELSE KeptStash
  /\ abMemory' = IF word.forget THEN [s \in Slots |-> NoRecord] ELSE abMemory
  /\ abRestoreSlot' = IF word.forget THEN None ELSE abRestoreSlot

TakeRequestWord ==
  /\ word' = NoRequest
  /\ awaitSeq' = IF Completed THEN 0 ELSE Awaited
  /\ startPending' = (startPending \/ Completed)
  /\ stash' = IF word.ab THEN TakenSwitch ELSE KeptStash
  /\ abMemory' = IF word.forget THEN [s \in Slots |-> NoRecord] ELSE abMemory
  /\ abRestoreSlot' = IF word.forget THEN None ELSE abRestoreSlot

\* acquireBeforeSnapshot(), for a block, or for one of prepareFrom's two reads.
AcquireBefore ==
  /\ \/ pc = "idle" /\ purpose' \in {"block", "prime"}
     \/ pc = "prepared" /\ purpose' = "settle"
  /\ pc' = "reading"
  /\ TakeRequestWord
  /\ clear' = (awaitSeq' = 0)
  /\ unread' = Params /\ np' = FirstSound
  /\ UNCHANGED <<live, messageVars, duckVars>>

\* readEngineSnapshot(): the loads, in some order.
ReadParam(x) ==
  /\ pc = "reading" /\ x \in unread
  /\ np' = [np EXCEPT ![x] = live[x]]
  /\ unread' = unread \ {x}
  /\ UNCHANGED <<live, messageVars, word, requestVars, pc, purpose, clear, duckVars>>

\* Mutant: a request that arrived during the read does not spoil it.
AcquireAfterTrusting ==
  /\ pc = "reading" /\ unread = {}
  /\ TakeRequestWord
  /\ pc' = "adopt"
  /\ UNCHANGED <<live, messageVars, clear, purpose, np, unread, duckVars>>

\* acquireAfterSnapshot(): a request that arrived during the read spoils it.
AcquireAfter ==
  /\ pc = "reading" /\ unread = {}
  /\ TakeRequestWord
  /\ clear' = (clear /\ word.seq = 0)
  /\ pc' = "adopt"
  /\ UNCHANGED <<live, messageVars, purpose, np, unread, duckVars>>

\* startTakenRequests() with switchAbSlots(): the switch's record is taken from
\* the sound still playing, unless an earlier switch has not yet landed.
StartTakenRequests ==
  LET switching == startPending /\ stash.on IN
  /\ startPending' = FALSE
  /\ stash' = IF startPending THEN NoStash ELSE stash
  /\ abRestoreSlot' = IF switching THEN stash.to ELSE abRestoreSlot
  /\ abMemory' = IF switching /\ stash.record /\ abRestoreSlot = None
                   THEN [abMemory EXCEPT ![stash.from] = p]
                   ELSE abMemory
  /\ UNCHANGED awaitSeq

BeginForcedDuck ==
  /\ pendingForced' = TRUE
  /\ dryDuckLat' = Latency(p)
  /\ dryDuck' = (Latency(np) = Latency(p))

AfterAdopt ==
  /\ pc' = IF purpose = "block" THEN "process" ELSE "idle"
  /\ np' = FirstSound /\ clear' = FALSE
  /\ UNCHANGED <<live, messageVars, word, purpose, unread>>

AtAdopt == pc = "adopt" /\ purpose # "prime"

\* adoptSnapshot() of an untrusted snapshot: nothing.
RejectSnapshot ==
  /\ AtAdopt /\ ~clear
  /\ AfterAdopt
  /\ UNCHANGED <<requestVars, duckVars>>

\* adoptSnapshot() in the Normal state, one action per branch.
StartForcedDuck ==
  /\ AtAdopt /\ clear /\ switchState = "Normal" /\ startPending
  /\ pendingP' = np
  /\ BeginForcedDuck
  /\ switchState' = "FadeOut"
  /\ StartTakenRequests /\ AfterAdopt
  /\ UNCHANGED <<p, switchPhase>>

StartOrdinaryDuck ==
  /\ AtAdopt /\ clear /\ switchState = "Normal" /\ ~startPending
  /\ DiscreteDiffers(np, p)
  /\ pendingP' = np
  /\ p' = CopyContinuous(p, np)
  /\ dryDuck' = FALSE
  /\ switchState' = "FadeOut"
  /\ StartTakenRequests /\ AfterAdopt
  /\ UNCHANGED <<switchPhase, pendingForced, dryDuckLat>>

\* Mutant: a swap without discrete changes needs no duck.
ApplySwapLive ==
  /\ AtAdopt /\ clear /\ switchState = "Normal"
  /\ ~DiscreteDiffers(np, p)
  /\ p' = np
  /\ StartTakenRequests /\ AfterAdopt
  /\ UNCHANGED <<pendingP, switchState, switchPhase, pendingForced, dryDuck,
                 dryDuckLat>>

ApplyLive ==
  /\ AtAdopt /\ clear /\ switchState = "Normal" /\ ~startPending
  /\ ~DiscreteDiffers(np, p)
  /\ p' = np
  /\ StartTakenRequests /\ AfterAdopt
  /\ UNCHANGED <<pendingP, switchState, switchPhase, pendingForced, dryDuck,
                 dryDuckLat>>

\* adoptSnapshot() while a duck is in flight: pendingP follows the snapshot.
ReduckForced ==
  /\ AtAdopt /\ clear /\ switchState = "FadeIn" /\ startPending
  /\ pendingP' = np
  /\ BeginForcedDuck
  /\ switchState' = "FadeOut"
  /\ StartTakenRequests /\ AfterAdopt
  /\ UNCHANGED <<p, switchPhase>>

ReduckOrdinary ==
  /\ AtAdopt /\ clear /\ switchState = "FadeIn" /\ ~startPending
  /\ DiscreteDiffers(np, p)
  /\ pendingP' = np
  /\ p' = CopyContinuous(p, np)
  /\ pendingForced' = FALSE /\ dryDuck' = FALSE
  /\ switchState' = "FadeOut"
  /\ StartTakenRequests /\ AfterAdopt
  /\ UNCHANGED <<switchPhase, dryDuckLat>>

\* Every other mid-duck adoption.
Retargets ==
  /\ AtAdopt /\ clear /\ switchState # "Normal"
  /\ switchState = "FadeIn" => ~startPending /\ ~DiscreteDiffers(np, p)

\* Mutant: a retarget keeps the dry cover at any latency.
RetargetKeepingDry ==
  /\ Retargets /\ pendingForced
  /\ pendingP' = np
  /\ StartTakenRequests /\ AfterAdopt
  /\ UNCHANGED <<p, switchState, switchPhase, pendingForced, dryDuck, dryDuckLat>>

RetargetForced ==
  /\ Retargets /\ pendingForced
  /\ pendingP' = np
  /\ dryDuck' = (dryDuck /\ Latency(np) = dryDuckLat)
  /\ StartTakenRequests /\ AfterAdopt
  /\ UNCHANGED <<p, switchState, switchPhase, pendingForced, dryDuckLat>>

UpgradeToForced ==
  /\ Retargets /\ ~pendingForced /\ startPending
  /\ pendingP' = np
  /\ pendingForced' = TRUE /\ dryDuck' = FALSE
  /\ StartTakenRequests /\ AfterAdopt
  /\ UNCHANGED <<p, switchState, switchPhase, dryDuckLat>>

RetargetOrdinary ==
  /\ Retargets /\ ~pendingForced /\ ~startPending
  /\ pendingP' = np
  /\ p' = CopyContinuous(p, np)
  /\ StartTakenRequests /\ AfterAdopt
  /\ UNCHANGED <<switchState, switchPhase, pendingForced, dryDuck, dryDuckLat>>

\* primeSnapshot(): the parameters are set directly; prepare() follows.
Prime ==
  /\ pc = "adopt" /\ purpose = "prime"
  /\ pc' = "primed"
  /\ IF clear
       THEN StartTakenRequests /\ p' = np /\ pendingP' = np
       ELSE UNCHANGED <<requestVars, p, pendingP>>
  /\ np' = FirstSound /\ clear' = FALSE
  /\ UNCHANGED <<live, messageVars, word, purpose, unread, switchState,
                 switchPhase, pendingForced, dryDuck, dryDuckLat>>

\* reset(): lands whatever duck is in flight and clears the tails.
LandDuck ==
  /\ p' = IF switchState = "Normal" THEN p ELSE pendingP
  /\ pendingP' = p'
  /\ switchState' = "Normal" /\ switchPhase' = Top /\ pendingForced' = FALSE
  /\ dryDuck' = FALSE /\ dryDuckLat' = 0

Prepare ==
  /\ pc = "primed"
  /\ pc' = "prepared"
  /\ LandDuck
  /\ UNCHANGED <<live, messageVars, word, requestVars, purpose, np, unread, clear>>

HostReset ==
  /\ pc = "idle"
  /\ LandDuck
  /\ UNCHANGED <<live, messageVars, word, requestVars, readVars>>

\* process() is entered again without an adoption when the host's buffer is
\* longer than maxBlock; a buffer of no samples changes nothing here.
EndSlice == pc' \in {"idle", "process"}

\* A switch's record is restored at a forced bottom, or in a block with no
\* forced duck in flight (one that prime or reset landed).
RestoreAbSlot == abRestoreSlot' = None

ProcessTail ==
  /\ EndSlice
  /\ UNCHANGED <<live, messageVars, word, awaitSeq, startPending, stash, abMemory,
                 purpose, np, unread, clear>>

\* process() at the bottom of a duck: the pending parameters are adopted.
Bottom ==
  /\ pc = "process" /\ switchState = "FadeOut" /\ switchPhase = 0
  /\ p' = pendingP
  /\ pendingForced' = FALSE
  /\ switchState' = "FadeIn"
  /\ switchPhase' \in 1..Top
  /\ RestoreAbSlot
  /\ ProcessTail
  /\ UNCHANGED <<pendingP, dryDuck, dryDuckLat>>

FinishFadeIn ==
  /\ pc = "process" /\ switchState = "FadeIn" /\ switchPhase = Top
  /\ switchState' = "Normal" /\ dryDuck' = FALSE
  /\ RestoreAbSlot
  /\ ProcessTail
  /\ UNCHANGED <<p, pendingP, switchPhase, pendingForced, dryDuckLat>>

\* Mutant: a switch's record is restored while the sound is still the other slot's.
AdvanceRestoringEarly ==
  /\ pc = "process"
  /\ \/ switchState = "Normal" /\ UNCHANGED switchPhase
     \/ switchState = "FadeOut" /\ switchPhase > 0 /\ switchPhase' \in 0..(switchPhase - 1)
     \/ switchState = "FadeIn" /\ switchPhase < Top /\ switchPhase' \in (switchPhase + 1)..Top
  /\ RestoreAbSlot
  /\ ProcessTail
  /\ UNCHANGED <<p, pendingP, switchState, pendingForced, dryDuck, dryDuckLat>>

\* process() anywhere else: a fade advances by at least a sample.
Advance ==
  /\ pc = "process"
  /\ \/ switchState = "Normal" /\ UNCHANGED switchPhase
     \/ switchState = "FadeOut" /\ switchPhase > 0 /\ switchPhase' \in 0..(switchPhase - 1)
     \/ switchState = "FadeIn" /\ switchPhase < Top /\ switchPhase' \in (switchPhase + 1)..Top
  /\ IF pendingForced THEN UNCHANGED abRestoreSlot ELSE RestoreAbSlot
  /\ ProcessTail
  /\ UNCHANGED <<p, pendingP, switchState, pendingForced, dryDuck, dryDuckLat>>

-----------------------------------------------------------------------------

MessageThread ==
  \/ BeginSwap \/ BeginAbSwitch \/ JoinSwap \/ EndSwap
  \/ \E x \in Params : WriteParam(x)
  \/ \E s \in Slots : ForgetMemory(s)

Adopt ==
  \/ RejectSnapshot
  \/ StartForcedDuck \/ StartOrdinaryDuck \/ ApplyLive
  \/ ReduckForced \/ ReduckOrdinary
  \/ RetargetForced \/ UpgradeToForced \/ RetargetOrdinary

Process == Bottom \/ FinishFadeIn \/ Advance

AudioSide ==
  \/ AcquireBefore \/ (\E x \in Params : ReadParam(x)) \/ AcquireAfter
  \/ Adopt \/ Prime \/ Prepare \/ HostReset \/ Process

Next == MessageThread \/ (\E x \in Params : EditParam(x)) \/ AudioSide

Spec == Init /\ [][Next]_vars

\* A swap is a loop on the message thread that ends, so its stores and its end
\* happen; the host calls the audio side again and again, a buffer is finite,
\* and a block (not only resets) eventually runs.
Fairness ==
  /\ WF_vars(EndSwap \/ \E x \in Params : WriteParam(x))
  /\ WF_vars(AcquireBefore)
  /\ WF_vars(AcquireAfter \/ Adopt \/ Prime \/ Prepare \/ \E x \in Params : ReadParam(x))
  /\ WF_vars(Process /\ pc' = "idle")

FairSpec == Spec /\ Fairness

-----------------------------------------------------------------------------
(* Properties. *)

MessageTypeOK ==
  /\ live \in Sound
  /\ swap \in 0..MaxSwaps
  /\ changed \in [1..MaxSwaps -> SUBSET Params]
  /\ slotOf \in [0..MaxSwaps -> Slots]
  /\ bulkSeq \in 0..SeqCount /\ bulkDepth \in 0..2 /\ owed \in SUBSET Params
  /\ abActive \in Slots /\ events \in 0..MaxEvents

RequestTypeOK ==
  /\ word \in Word
  /\ awaitSeq \in 0..SeqCount /\ startPending \in BOOLEAN
  /\ stash \in Stash
  /\ abMemory \in [Slots -> Sound \cup {NoRecord}]
  /\ abRestoreSlot \in Slots \cup {None}

ReadTypeOK ==
  /\ pc \in {"idle", "reading", "adopt", "primed", "prepared", "process"}
  /\ purpose \in {"block", "prime", "settle"}
  /\ np \in Sound /\ unread \in SUBSET Params /\ clear \in BOOLEAN

DuckTypeOK ==
  /\ p \in Sound /\ pendingP \in Sound
  /\ switchState \in {"Normal", "FadeOut", "FadeIn"} /\ switchPhase \in 0..Top
  /\ pendingForced \in BOOLEAN /\ dryDuck \in BOOLEAN /\ dryDuckLat \in Nat

\* Every variable holds a value of the code's kind, the sequences stay in
\* their fields, and a fade's phase stays in its range.
TypeOK == MessageTypeOK /\ RequestTypeOK /\ ReadTypeOK /\ DuckTypeOK

\* A sound that shows any parameter of a swap shows all that the swap moved.
Whole(s) ==
  \A k \in 1..swap :
    (\E x \in Params : s[x].swap >= k) => \A y \in changed[k] : s[y].swap >= k

\* The engine never runs, nor heads for, part of a swap: not while the message
\* thread is still writing, not when the copy of continuous values, an ordinary
\* duck, a second swap or an edit comes between.
NoMixture == Whole(p) /\ Whole(pendingP)

SameSwaps(a, b) == \A x \in Params : a[x].swap = b[x].swap

\* What the engine runs, or will once the duck in flight lands.
Target == IF switchState = "Normal" THEN p ELSE pendingP

\* When no request waits in the word, no completion is awaited and no start is
\* pending, no swap has been forgotten: the engine's target carries them all.
NoSwapLost ==
  word.seq = 0 /\ awaitSeq = 0 /\ ~startPending => SameSwaps(live, Target)

\* The dry signal that covers a forced duck is delayed by the latency of the
\* sound before the bottom and of the one after it; a retarget that would
\* change the latency has switched it off.
DryPathAligned ==
  dryDuck /\ pc \notin {"primed"} =>
    /\ Latency(p) = dryDuckLat
    /\ switchState = "FadeOut" /\ pendingForced => Latency(pendingP) = dryDuckLat

\* A swap becomes audible only at the silent bottom of a forced duck, or where
\* the host stopped the stream (prepareToPlay, reset).
SwapMasked ==
  [][ ~SameSwaps(p', p) =>
        \/ switchState = "FadeOut" /\ switchPhase = 0 /\ pendingForced
        \/ pc = "adopt" /\ purpose = "prime"
        \/ pc' # "process" /\ switchState' = "Normal" /\ switchState # "Normal" ]_vars

\* The newest swap a sound shows.
Newest(s) == CHOOSE k \in 0..MaxSwaps :
  (\E x \in Params : s[x].swap = k) /\ \A x \in Params : s[x].swap <= k

\* When a slot's remembered Level-Match is restored, it was recorded while that
\* slot's sound played, and that slot's sound is the one now playing.
RestoredMatchFits ==
  [][ pc = "process" /\ abRestoreSlot # None /\ abRestoreSlot' = None /\ ~word.forget =>
        /\ slotOf[Newest(p')] = abRestoreSlot
        /\ abMemory[abRestoreSlot] # NoRecord =>
             slotOf[Newest(abMemory[abRestoreSlot])] = abRestoreSlot ]_vars

\* Every swap is heard, or replaced by a later one, however the blocks, the
\* edits and the prepares fall.
SwapLands ==
  \A k \in 1..MaxSwaps :
    (swap = k) ~> (\A x \in changed[k] : p[x].swap >= k)
=============================================================================
