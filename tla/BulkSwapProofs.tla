-------------------------- MODULE BulkSwapProofs --------------------------
(***************************************************************************)
(* Proofs about BulkSwap for every set of parameters, every number of      *)
(* sequences from 2 up, and any number of swaps and edits.                 *)
(***************************************************************************)
EXTENDS BulkSwap, TLAPS

-----------------------------------------------------------------------------
(* The inductive invariant. *)

\* The word holds the newest swap's request or none; its completion field is
\* the newest completion, so it never reads as that of a swap still open.
RequestInv ==
  /\ word.seq \in {0, bulkSeq}
  /\ word.done # 0 /\ bulkDepth = 0 => word.done = bulkSeq
  /\ bulkDepth > 0 => /\ word.done # bulkSeq
                      /\ bulkSeq # 0 /\ swap > 0
                      /\ word.seq = 0 => awaitSeq = bulkSeq
  /\ bulkDepth = 0 => owed = {}

\* What the swaps have stored.
StoreInv ==
  /\ \A x \in Params : live[x].swap <= swap
  /\ \A k \in 1..swap : \A y \in changed[k] :
       live[y].swap >= k \/ (k = swap /\ y \in owed)

\* A sound read while no swap was open.
Settled(s) ==
  /\ Whole(s)
  /\ \A x \in Params : s[x].swap <= swap
  /\ bulkDepth > 0 => \A x \in Params : s[x].swap < swap

\* A read that found nothing awaited is of the settled parameters for as long
\* as no request has arrived.
ReadInv ==
  /\ pc = "reading" /\ clear => awaitSeq = 0
  /\ pc = "reading" /\ clear /\ word.seq = 0 =>
       bulkDepth = 0 /\ \A x \in Params \ unread : np[x].swap = live[x].swap
  /\ pc = "adopt" /\ clear =>
       /\ awaitSeq = 0
       /\ Settled(np)
       /\ ~startPending => SameSwaps(np, Target)
       /\ word.seq = 0 => bulkDepth = 0 /\ SameSwaps(np, live)

DuckInv ==
  /\ Settled(p) /\ Settled(pendingP)
  /\ switchState # "FadeOut" => ~pendingForced
  /\ switchState # "Normal" /\ ~pendingForced => SameSwaps(p, pendingP)

IInv == TypeOK /\ RequestInv /\ StoreInv /\ ReadInv /\ DuckInv /\ NoSwapLost

-----------------------------------------------------------------------------
(* Type correctness. *)

\* The next sequence is a sequence, and not the one in force: bulkSeq wraps
\* from SeqCount to 1, and there are at least two.
LEMMA NextSeqRange ==
  ASSUME bulkSeq \in 0..SeqCount
  PROVE  NextSeq \in 1..SeqCount /\ NextSeq # bulkSeq
<1>1. CASE bulkSeq = SeqCount
  <2>1. SeqCount % SeqCount = 0
    BY BoundsAssumption, Z3
  <2>2. QED
    BY <1>1, <2>1, BoundsAssumption DEF NextSeq
<1>2. CASE bulkSeq # SeqCount
  <2>1. bulkSeq % SeqCount = bulkSeq
    BY <1>2, BoundsAssumption, Z3
  <2>2. QED
    BY <1>2, <2>1, BoundsAssumption DEF NextSeq
<1>3. QED
  BY <1>1, <1>2

\* Two sounds' copy is a sound, the first one is, and a latency is a number.
LEMMA SoundTypes ==
  /\ FirstSound \in Sound
  /\ \A a, b \in Sound : CopyContinuous(a, b) \in Sound
  /\ \A a \in Sound : Latency(a) \in Nat
<1>1. FirstSound \in Sound
  BY ParamsAssumption, BoundsAssumption DEF FirstSound, Sound, Value
<1>2. \A a, b \in Sound : CopyContinuous(a, b) \in Sound
  BY DEF Sound, CopyContinuous
<1>3. ASSUME NEW a \in Sound PROVE Latency(a) \in Nat
  <2>1. a[LatencyParam] \in Value
    BY ParamsAssumption DEF Sound
  <2>2. QED
    BY <2>1, ParamsAssumption DEF Latency, Value
<1>4. QED
  BY <1>1, <1>2, <1>3

\* The request word's read-modify-writes.
LEMMA WordTypes ==
  ASSUME NEW w \in Word, NEW s \in 0..SeqCount, NEW f \in Slots, NEW t \in Slots
  PROVE  /\ RequestDuck(w, s) \in Word
         /\ RequestAbSwitch(w, f, t, s) \in Word
         /\ CompleteBulkApply(w, s) \in Word
         /\ ForgetAbMatchMemory(w) \in Word
<1>1. RequestDuck(w, s) \in Word
  BY DEF RequestDuck, Word
<1>2. RequestAbSwitch(w, f, t, s) \in Word
  BY DEF RequestAbSwitch, Word, Slots
<1>3. CompleteBulkApply(w, s) \in Word
  BY DEF CompleteBulkApply, Word
<1>4. ForgetAbMatchMemory(w) \in Word
  BY DEF ForgetAbMatchMemory, Word
<1>5. QED
  BY <1>1, <1>2, <1>3, <1>4

LEMMA EmptyTypes == NoRequest \in Word /\ NoStash \in Stash
  BY BoundsAssumption DEF NoRequest, NoStash, Word, Stash

\* Taking the request word, and starting what it carried, keep their types.
LEMMA TakeRequestWordTypes ==
  ASSUME RequestTypeOK, TakeRequestWord
  PROVE  RequestTypeOK'
<1>1. word' \in Word
  BY EmptyTypes DEF TakeRequestWord
<1>2. Awaited \in 0..SeqCount /\ awaitSeq' \in 0..SeqCount
  BY BoundsAssumption DEF TakeRequestWord, RequestTypeOK, Word, Awaited
<1>3. startPending' \in BOOLEAN
  BY DEF TakeRequestWord
<1>4. KeptStash \in Stash
  BY EmptyTypes DEF RequestTypeOK, KeptStash
<1>5. stash' \in Stash
  <2>1. TakenSwitch \in Stash
    BY <1>4 DEF TakenSwitch, Stash, RequestTypeOK, Word
  <2>2. QED
    BY <1>4, <2>1 DEF TakeRequestWord
<1>6. /\ abMemory' \in [Slots -> Sound \cup {NoRecord}]
      /\ abRestoreSlot' \in Slots \cup {None}
  BY DEF TakeRequestWord, RequestTypeOK
<1>7. QED
  BY <1>1, <1>2, <1>3, <1>5, <1>6 DEF RequestTypeOK

LEMMA StartTakenRequestsTypes ==
  ASSUME RequestTypeOK, p \in Sound, StartTakenRequests, UNCHANGED word
  PROVE  RequestTypeOK'
<1>1. stash' \in Stash
  BY EmptyTypes DEF StartTakenRequests, RequestTypeOK
<1>2. abRestoreSlot' \in Slots \cup {None} /\ stash.from \in Slots
  BY DEF StartTakenRequests, RequestTypeOK, Stash, Slots
<1>5. abMemory' \in [Slots -> Sound \cup {NoRecord}]
  BY <1>2 DEF StartTakenRequests, RequestTypeOK
<1>3. word' \in Word /\ awaitSeq' \in 0..SeqCount /\ startPending' \in BOOLEAN
  BY DEF StartTakenRequests, RequestTypeOK
<1>4. QED
  BY <1>1, <1>2, <1>3, <1>5 DEF RequestTypeOK

LEMMA LandDuckTypes ==
  ASSUME DuckTypeOK, LandDuck
  PROVE  DuckTypeOK'
<1>1. p' \in Sound /\ pendingP' \in Sound
  BY DEF LandDuck, DuckTypeOK
<1>2. /\ switchState' \in {"Normal", "FadeOut", "FadeIn"} /\ switchPhase' \in 0..Top
      /\ dryDuckLat' \in Nat
  BY BoundsAssumption DEF LandDuck
<1>3. pendingForced' \in BOOLEAN /\ dryDuck' \in BOOLEAN
  BY DEF LandDuck
<1>4. QED
  BY <1>1, <1>2, <1>3 DEF DuckTypeOK

\* Every action keeps the types.
LEMMA TypeInvariance == TypeOK /\ [Next]_vars => TypeOK'
<1> SUFFICES ASSUME TypeOK, [Next]_vars
             PROVE  TypeOK'
  OBVIOUS
<1> USE ParamsAssumption, BoundsAssumption
<1>m. ASSUME UNCHANGED <<live, messageVars>> PROVE MessageTypeOK'
  BY <1>m DEF TypeOK, MessageTypeOK, messageVars
<1>r. ASSUME UNCHANGED <<word, requestVars>> PROVE RequestTypeOK'
  BY <1>r DEF TypeOK, RequestTypeOK, requestVars
<1>s. ASSUME UNCHANGED readVars PROVE ReadTypeOK'
  BY <1>s DEF TypeOK, ReadTypeOK, readVars
<1>d. ASSUME UNCHANGED duckVars PROVE DuckTypeOK'
  BY <1>d DEF TypeOK, DuckTypeOK, duckVars
<1>1. CASE BeginSwap
  <2>1. MessageTypeOK'
    BY <1>1, NextSeqRange DEF TypeOK, MessageTypeOK, BeginSwap, OpenSwap, Slots
  <2>2. RequestTypeOK'
    <3>1. word \in Word /\ NextSeq \in 0..SeqCount
      BY <1>1, NextSeqRange DEF TypeOK, RequestTypeOK, MessageTypeOK
    <3>2. word' \in Word
      BY <1>1, <3>1, WordTypes DEF BeginSwap, Slots
    <3>3. QED
      BY <1>1, <3>2 DEF TypeOK, RequestTypeOK, BeginSwap, requestVars
  <2>3. ReadTypeOK'
    BY <1>1, <1>s DEF BeginSwap, OpenSwap
  <2>4. DuckTypeOK'
    BY <1>1, <1>d DEF BeginSwap, OpenSwap
  <2>5. QED
    BY <2>1, <2>2, <2>3, <2>4 DEF TypeOK
<1>2. CASE BeginAbSwitch
  <2>1. MessageTypeOK'
    BY <1>2, NextSeqRange DEF TypeOK, MessageTypeOK, BeginAbSwitch,
       OpenSwap, Slots
  <2>2. RequestTypeOK'
    <3>1. word \in Word /\ NextSeq \in 0..SeqCount /\ abActive \in Slots
      BY <1>2, NextSeqRange DEF TypeOK, RequestTypeOK, MessageTypeOK
    <3>2. word' \in Word
      BY <1>2, <3>1, WordTypes DEF BeginAbSwitch, Slots
    <3>3. QED
      BY <1>2, <3>2 DEF TypeOK, RequestTypeOK, BeginAbSwitch, requestVars
  <2>3. ReadTypeOK'
    BY <1>2, <1>s DEF BeginAbSwitch, OpenSwap
  <2>4. DuckTypeOK'
    BY <1>2, <1>d DEF BeginAbSwitch, OpenSwap
  <2>5. QED
    BY <2>1, <2>2, <2>3, <2>4 DEF TypeOK
<1>3. CASE JoinSwap
  <2>1. MessageTypeOK'
    <3>1. changed' \in [1..MaxSwaps -> SUBSET Params] /\ owed' \in SUBSET Params
      BY <1>3 DEF TypeOK, MessageTypeOK, JoinSwap
    <3>2. events' \in 0..MaxEvents /\ bulkDepth' \in 0..2
      BY <1>3 DEF TypeOK, MessageTypeOK, JoinSwap
    <3>3. QED
      BY <1>3, <3>1, <3>2 DEF TypeOK, MessageTypeOK, JoinSwap
  <2>2. RequestTypeOK'
    <3>1. word \in Word /\ bulkSeq \in 0..SeqCount
      BY <1>3, NextSeqRange DEF TypeOK, RequestTypeOK, MessageTypeOK
    <3>2. word' \in Word
      BY <1>3, <3>1, WordTypes DEF JoinSwap, Slots
    <3>3. QED
      BY <1>3, <3>2 DEF TypeOK, RequestTypeOK, JoinSwap, requestVars
  <2>3. ReadTypeOK'
    BY <1>3, <1>s DEF JoinSwap
  <2>4. DuckTypeOK'
    BY <1>3, <1>d DEF JoinSwap
  <2>5. QED
    BY <2>1, <2>2, <2>3, <2>4 DEF TypeOK
<1>4. CASE EndSwap
  <2>1. MessageTypeOK'
    BY <1>4 DEF TypeOK, MessageTypeOK, EndSwap
  <2>2. RequestTypeOK'
    <3>1. word \in Word /\ bulkSeq \in 0..SeqCount
      BY <1>4, NextSeqRange DEF TypeOK, RequestTypeOK, MessageTypeOK
    <3>2. word' \in Word
      BY <1>4, <3>1, WordTypes DEF EndSwap, Slots
    <3>3. QED
      BY <1>4, <3>2 DEF TypeOK, RequestTypeOK, EndSwap, requestVars
  <2>3. ReadTypeOK'
    BY <1>4, <1>s DEF EndSwap
  <2>4. DuckTypeOK'
    BY <1>4, <1>d DEF EndSwap
  <2>5. QED
    BY <2>1, <2>2, <2>3, <2>4 DEF TypeOK
<1>5. CASE \E x \in Params : WriteParam(x)
  <2>1. MessageTypeOK'
    BY <1>5 DEF TypeOK, MessageTypeOK, WriteParam, Sound, Value
  <2>2. RequestTypeOK'
    BY <1>5, <1>r DEF WriteParam
  <2>3. ReadTypeOK'
    BY <1>5, <1>s DEF WriteParam
  <2>4. DuckTypeOK'
    BY <1>5, <1>d DEF WriteParam
  <2>5. QED
    BY <2>1, <2>2, <2>3, <2>4 DEF TypeOK
<1>6. CASE \E s \in Slots : ForgetMemory(s)
  <2>1. MessageTypeOK'
    BY <1>6 DEF TypeOK, MessageTypeOK, ForgetMemory
  <2>2. RequestTypeOK'
    <3>1. word \in Word /\ bulkSeq \in 0..SeqCount
      BY <1>6, NextSeqRange DEF TypeOK, RequestTypeOK, MessageTypeOK
    <3>2. word' \in Word
      BY <1>6, <3>1, WordTypes DEF ForgetMemory
    <3>3. QED
      BY <1>6, <3>2 DEF TypeOK, RequestTypeOK, ForgetMemory, requestVars
  <2>3. ReadTypeOK'
    BY <1>6, <1>s DEF ForgetMemory
  <2>4. DuckTypeOK'
    BY <1>6, <1>d DEF ForgetMemory
  <2>5. QED
    BY <2>1, <2>2, <2>3, <2>4 DEF TypeOK
<1>7. CASE \E x \in Params : EditParam(x)
  <2>1. MessageTypeOK'
    <3>1. PICK x \in Params, v \in Payloads : live' = [live EXCEPT ![x].payload = v]
      BY <1>7 DEF EditParam
    <3>2. [live[x] EXCEPT !.payload = v] \in Value
      BY DEF TypeOK, MessageTypeOK, Sound, Value
    <3>3. live' \in Sound
      BY <3>1, <3>2 DEF TypeOK, MessageTypeOK, Sound
    <3>4. events' \in 0..MaxEvents
      BY <1>7 DEF TypeOK, MessageTypeOK, EditParam
    <3> QED
      BY <1>7, <3>3, <3>4 DEF TypeOK, MessageTypeOK, EditParam
  <2>2. RequestTypeOK'
    BY <1>7, <1>r DEF EditParam
  <2>3. ReadTypeOK'
    BY <1>7, <1>s DEF EditParam
  <2>4. DuckTypeOK'
    BY <1>7, <1>d DEF EditParam
  <2>5. QED
    BY <2>1, <2>2, <2>3, <2>4 DEF TypeOK
<1>8. CASE AcquireBefore
  <2>1. MessageTypeOK'
    BY <1>8, <1>m DEF AcquireBefore
  <2>2. RequestTypeOK'
    BY <1>8, TakeRequestWordTypes DEF TypeOK, RequestTypeOK, AcquireBefore
  <2>3. ReadTypeOK'
    BY <1>8, SoundTypes DEF TypeOK, ReadTypeOK, AcquireBefore
  <2>4. DuckTypeOK'
    BY <1>8, <1>d DEF AcquireBefore
  <2>5. QED
    BY <2>1, <2>2, <2>3, <2>4 DEF TypeOK
<1>9. CASE \E x \in Params : ReadParam(x)
  <2>1. MessageTypeOK'
    BY <1>9, <1>m DEF ReadParam
  <2>2. RequestTypeOK'
    BY <1>9, <1>r DEF ReadParam
  <2>3. ReadTypeOK'
    BY <1>9 DEF TypeOK, ReadTypeOK, ReadParam, MessageTypeOK, Sound
  <2>4. DuckTypeOK'
    BY <1>9, <1>d DEF ReadParam
  <2>5. QED
    BY <2>1, <2>2, <2>3, <2>4 DEF TypeOK
<1>10. CASE AcquireAfter
  <2>1. MessageTypeOK'
    BY <1>10, <1>m DEF AcquireAfter
  <2>2. RequestTypeOK'
    BY <1>10, TakeRequestWordTypes DEF TypeOK, RequestTypeOK, AcquireAfter
  <2>3. ReadTypeOK'
    BY <1>10 DEF TypeOK, ReadTypeOK, AcquireAfter
  <2>4. DuckTypeOK'
    BY <1>10, <1>d DEF AcquireAfter
  <2>5. QED
    BY <2>1, <2>2, <2>3, <2>4 DEF TypeOK
<1>11. CASE RejectSnapshot
  <2>1. MessageTypeOK'
    BY <1>11, <1>m DEF RejectSnapshot, AfterAdopt
  <2>2. RequestTypeOK'
    BY <1>11, <1>r DEF RejectSnapshot, AfterAdopt
  <2>3. ReadTypeOK'
    BY <1>11, SoundTypes DEF TypeOK, ReadTypeOK, RejectSnapshot, AfterAdopt,
       AtAdopt
  <2>4. DuckTypeOK'
    BY <1>11, <1>d DEF RejectSnapshot, AfterAdopt
  <2>5. QED
    BY <2>1, <2>2, <2>3, <2>4 DEF TypeOK
<1>12. CASE StartForcedDuck
  <2>1. MessageTypeOK'
    BY <1>12, <1>m DEF StartForcedDuck, AfterAdopt
  <2>2. RequestTypeOK'
    BY <1>12, StartTakenRequestsTypes DEF TypeOK, RequestTypeOK,
       StartForcedDuck, AfterAdopt, DuckTypeOK
  <2>3. ReadTypeOK'
    BY <1>12, SoundTypes DEF TypeOK, ReadTypeOK, StartForcedDuck,
       AfterAdopt, AtAdopt
  <2>4. DuckTypeOK'
    BY <1>12, SoundTypes DEF TypeOK, DuckTypeOK, StartForcedDuck,
       AfterAdopt, ReadTypeOK, BeginForcedDuck
  <2>5. QED
    BY <2>1, <2>2, <2>3, <2>4 DEF TypeOK
<1>13. CASE StartOrdinaryDuck
  <2>1. MessageTypeOK'
    BY <1>13, <1>m DEF StartOrdinaryDuck, AfterAdopt
  <2>2. RequestTypeOK'
    BY <1>13, StartTakenRequestsTypes DEF TypeOK, RequestTypeOK,
       StartOrdinaryDuck, AfterAdopt, DuckTypeOK
  <2>3. ReadTypeOK'
    BY <1>13, SoundTypes DEF TypeOK, ReadTypeOK, StartOrdinaryDuck,
       AfterAdopt, AtAdopt
  <2>4. DuckTypeOK'
    BY <1>13, SoundTypes DEF TypeOK, DuckTypeOK, StartOrdinaryDuck,
       AfterAdopt, ReadTypeOK
  <2>5. QED
    BY <2>1, <2>2, <2>3, <2>4 DEF TypeOK
<1>14. CASE ApplyLive
  <2>1. MessageTypeOK'
    BY <1>14, <1>m DEF ApplyLive, AfterAdopt
  <2>2. RequestTypeOK'
    BY <1>14, StartTakenRequestsTypes DEF TypeOK, RequestTypeOK, ApplyLive,
       AfterAdopt, DuckTypeOK
  <2>3. ReadTypeOK'
    BY <1>14, SoundTypes DEF TypeOK, ReadTypeOK, ApplyLive, AfterAdopt, AtAdopt
  <2>4. DuckTypeOK'
    BY <1>14, SoundTypes DEF TypeOK, DuckTypeOK, ApplyLive, AfterAdopt,
       ReadTypeOK
  <2>5. QED
    BY <2>1, <2>2, <2>3, <2>4 DEF TypeOK
<1>15. CASE ReduckForced
  <2>1. MessageTypeOK'
    BY <1>15, <1>m DEF ReduckForced, AfterAdopt
  <2>2. RequestTypeOK'
    BY <1>15, StartTakenRequestsTypes DEF TypeOK, RequestTypeOK,
       ReduckForced, AfterAdopt, DuckTypeOK
  <2>3. ReadTypeOK'
    BY <1>15, SoundTypes DEF TypeOK, ReadTypeOK, ReduckForced, AfterAdopt,
       AtAdopt
  <2>4. DuckTypeOK'
    BY <1>15, SoundTypes DEF TypeOK, DuckTypeOK, ReduckForced, AfterAdopt,
       ReadTypeOK, BeginForcedDuck
  <2>5. QED
    BY <2>1, <2>2, <2>3, <2>4 DEF TypeOK
<1>16. CASE ReduckOrdinary
  <2>1. MessageTypeOK'
    BY <1>16, <1>m DEF ReduckOrdinary, AfterAdopt
  <2>2. RequestTypeOK'
    BY <1>16, StartTakenRequestsTypes DEF TypeOK, RequestTypeOK,
       ReduckOrdinary, AfterAdopt, DuckTypeOK
  <2>3. ReadTypeOK'
    BY <1>16, SoundTypes DEF TypeOK, ReadTypeOK, ReduckOrdinary, AfterAdopt,
       AtAdopt
  <2>4. DuckTypeOK'
    BY <1>16, SoundTypes DEF TypeOK, DuckTypeOK, ReduckOrdinary, AfterAdopt,
       ReadTypeOK
  <2>5. QED
    BY <2>1, <2>2, <2>3, <2>4 DEF TypeOK
<1>17. CASE RetargetForced
  <2>1. MessageTypeOK'
    BY <1>17, <1>m DEF RetargetForced, AfterAdopt
  <2>2. RequestTypeOK'
    BY <1>17, StartTakenRequestsTypes DEF TypeOK, RequestTypeOK,
       RetargetForced, AfterAdopt, DuckTypeOK
  <2>3. ReadTypeOK'
    BY <1>17, SoundTypes DEF TypeOK, ReadTypeOK, RetargetForced, AfterAdopt,
       AtAdopt
  <2>4. DuckTypeOK'
    BY <1>17, SoundTypes DEF TypeOK, DuckTypeOK, RetargetForced, AfterAdopt,
       ReadTypeOK
  <2>5. QED
    BY <2>1, <2>2, <2>3, <2>4 DEF TypeOK
<1>18. CASE UpgradeToForced
  <2>1. MessageTypeOK'
    BY <1>18, <1>m DEF UpgradeToForced, AfterAdopt
  <2>2. RequestTypeOK'
    BY <1>18, StartTakenRequestsTypes DEF TypeOK, RequestTypeOK,
       UpgradeToForced, AfterAdopt, DuckTypeOK
  <2>3. ReadTypeOK'
    BY <1>18, SoundTypes DEF TypeOK, ReadTypeOK, UpgradeToForced,
       AfterAdopt, AtAdopt
  <2>4. DuckTypeOK'
    BY <1>18, SoundTypes DEF TypeOK, DuckTypeOK, UpgradeToForced,
       AfterAdopt, ReadTypeOK
  <2>5. QED
    BY <2>1, <2>2, <2>3, <2>4 DEF TypeOK
<1>19. CASE RetargetOrdinary
  <2>1. MessageTypeOK'
    BY <1>19, <1>m DEF RetargetOrdinary, AfterAdopt
  <2>2. RequestTypeOK'
    BY <1>19, StartTakenRequestsTypes DEF TypeOK, RequestTypeOK,
       RetargetOrdinary, AfterAdopt, DuckTypeOK
  <2>3. ReadTypeOK'
    BY <1>19, SoundTypes DEF TypeOK, ReadTypeOK, RetargetOrdinary,
       AfterAdopt, AtAdopt
  <2>4. DuckTypeOK'
    BY <1>19, SoundTypes DEF TypeOK, DuckTypeOK, RetargetOrdinary,
       AfterAdopt, ReadTypeOK
  <2>5. QED
    BY <2>1, <2>2, <2>3, <2>4 DEF TypeOK
<1>20. CASE Prime
  <2>1. MessageTypeOK'
    BY <1>20, <1>m DEF Prime
  <2>2. RequestTypeOK'
    BY <1>20, StartTakenRequestsTypes DEF TypeOK, RequestTypeOK, Prime,
       DuckTypeOK, requestVars
  <2>3. ReadTypeOK'
    BY <1>20, SoundTypes DEF TypeOK, ReadTypeOK, Prime
  <2>4. DuckTypeOK'
    BY <1>20 DEF TypeOK, DuckTypeOK, Prime, ReadTypeOK
  <2>5. QED
    BY <2>1, <2>2, <2>3, <2>4 DEF TypeOK
<1>21. CASE Prepare
  <2>1. MessageTypeOK'
    BY <1>21, <1>m DEF Prepare
  <2>2. RequestTypeOK'
    BY <1>21 DEF TypeOK, RequestTypeOK, Prepare, requestVars
  <2>3. ReadTypeOK'
    BY <1>21 DEF TypeOK, ReadTypeOK, Prepare
  <2>4. DuckTypeOK'
    BY <1>21, LandDuckTypes DEF TypeOK, Prepare
  <2>5. QED
    BY <2>1, <2>2, <2>3, <2>4 DEF TypeOK
<1>22. CASE HostReset
  <2>1. MessageTypeOK'
    BY <1>22, <1>m DEF HostReset
  <2>2. RequestTypeOK'
    BY <1>22, <1>r DEF HostReset
  <2>3. ReadTypeOK'
    BY <1>22, <1>s DEF HostReset
  <2>4. DuckTypeOK'
    BY <1>22, LandDuckTypes DEF TypeOK, HostReset
  <2>5. QED
    BY <2>1, <2>2, <2>3, <2>4 DEF TypeOK
<1>23. CASE Bottom
  <2>1. MessageTypeOK'
    BY <1>23, <1>m DEF Bottom, ProcessTail
  <2>2. RequestTypeOK'
    BY <1>23 DEF TypeOK, RequestTypeOK, Bottom, ProcessTail, RestoreAbSlot
  <2>3. ReadTypeOK'
    BY <1>23 DEF TypeOK, ReadTypeOK, Bottom, ProcessTail, EndSlice
  <2>4. DuckTypeOK'
    <3>1. p' \in Sound /\ pendingP' \in Sound
      BY <1>23 DEF TypeOK, DuckTypeOK, Bottom
    <3>2. /\ switchState' \in {"Normal", "FadeOut", "FadeIn"}
          /\ switchPhase' \in 0..Top /\ dryDuckLat' \in Nat
      BY <1>23 DEF TypeOK, DuckTypeOK, Bottom
    <3>3. pendingForced' \in BOOLEAN /\ dryDuck' \in BOOLEAN
      BY <1>23 DEF TypeOK, DuckTypeOK, Bottom
    <3>4. QED
      BY <3>1, <3>2, <3>3 DEF DuckTypeOK
  <2>5. QED
    BY <2>1, <2>2, <2>3, <2>4 DEF TypeOK
<1>24. CASE FinishFadeIn
  <2>1. MessageTypeOK'
    BY <1>24, <1>m DEF FinishFadeIn, ProcessTail
  <2>2. RequestTypeOK'
    BY <1>24 DEF TypeOK, RequestTypeOK, FinishFadeIn, ProcessTail, RestoreAbSlot
  <2>3. ReadTypeOK'
    BY <1>24 DEF TypeOK, ReadTypeOK, FinishFadeIn, ProcessTail, EndSlice
  <2>4. DuckTypeOK'
    BY <1>24 DEF TypeOK, DuckTypeOK, FinishFadeIn, ProcessTail
  <2>5. QED
    BY <2>1, <2>2, <2>3, <2>4 DEF TypeOK
<1>25. CASE Advance
  <2>1. MessageTypeOK'
    BY <1>25, <1>m DEF Advance, ProcessTail
  <2>2. RequestTypeOK'
    BY <1>25 DEF TypeOK, RequestTypeOK, Advance, ProcessTail, RestoreAbSlot
  <2>3. ReadTypeOK'
    BY <1>25 DEF TypeOK, ReadTypeOK, Advance, ProcessTail, EndSlice
  <2>4. DuckTypeOK'
    BY <1>25 DEF TypeOK, DuckTypeOK, Advance, ProcessTail
  <2>5. QED
    BY <2>1, <2>2, <2>3, <2>4 DEF TypeOK
<1>26. CASE UNCHANGED vars
  <2>1. MessageTypeOK'
    BY <1>26, <1>m DEF vars
  <2>2. RequestTypeOK'
    BY <1>26, <1>r DEF vars
  <2>3. ReadTypeOK'
    BY <1>26, <1>s DEF vars
  <2>4. DuckTypeOK'
    BY <1>26, <1>d DEF vars
  <2>5. QED
    BY <2>1, <2>2, <2>3, <2>4 DEF TypeOK
<1>27. QED
  BY <1>1, <1>2, <1>3, <1>4, <1>5, <1>6, <1>7, <1>8, <1>9, <1>10, <1>11,
     <1>12, <1>13, <1>14, <1>15, <1>16, <1>17, <1>18, <1>19, <1>20, <1>21,
     <1>22, <1>23, <1>24, <1>25, <1>26
     DEF Next, MessageThread, AudioSide, Adopt, Process

LEMMA TypeInit == Init => TypeOK
<1> SUFFICES ASSUME Init PROVE TypeOK
  OBVIOUS
<1> USE ParamsAssumption, BoundsAssumption, SoundTypes, EmptyTypes DEF Init
<1>1. MessageTypeOK
  BY DEF MessageTypeOK, Slots
<1>2. RequestTypeOK
  <2>1. word \in Word /\ stash \in Stash
    OBVIOUS
  <2>2. awaitSeq \in 0..SeqCount
    OBVIOUS
  <2>5. startPending \in BOOLEAN
    OBVIOUS
  <2>3. abMemory \in [Slots -> Sound \cup {NoRecord}] /\ abRestoreSlot = None
    OBVIOUS
  <2>4. QED
    BY <2>1, <2>2, <2>3, <2>5 DEF RequestTypeOK
<1>3. ReadTypeOK
  BY DEF ReadTypeOK
<1>4. DuckTypeOK
  <2>1. p \in Sound /\ pendingP \in Sound
    OBVIOUS
  <2>2. switchState = "Normal" /\ switchPhase \in 0..Top /\ dryDuckLat \in Nat
    OBVIOUS
  <2>3. pendingForced \in BOOLEAN /\ dryDuck \in BOOLEAN
    OBVIOUS
  <2>4. QED
    BY <2>1, <2>2, <2>3 DEF DuckTypeOK
<1>5. QED
  BY <1>1, <1>2, <1>3, <1>4 DEF TypeOK

\* Spec keeps every variable to the code's types.
THEOREM TypeCorrect == Spec => []TypeOK
  BY TypeInit, TypeInvariance, PTL DEF Spec

-----------------------------------------------------------------------------
(* The sounds the engine holds are never a mixture.                         *)

LEMMA SameSwapsFacts ==
  ASSUME NEW a, NEW b
  PROVE  /\ SameSwaps(a, a)
         /\ SameSwaps(a, b) => SameSwaps(b, a)
         /\ \A c : SameSwaps(a, b) /\ SameSwaps(b, c) => SameSwaps(a, c)
         /\ SameSwaps(a, b) => SameSwaps(CopyContinuous(a, b), b)
  BY DEF SameSwaps, CopyContinuous

\* Settled reads nothing of a sound but which swaps wrote it.
LEMMA SettledSame ==
  ASSUME NEW a, NEW b, MessageTypeOK, SameSwaps(a, b), Settled(b)
  PROVE  Settled(a)
<1>1. ASSUME NEW k \in 1..swap
      PROVE  changed[k] \subseteq Params
  BY BoundsAssumption DEF MessageTypeOK
<1>2. ASSUME NEW k \in 1..swap, NEW x \in Params, a[x].swap >= k, NEW y \in changed[k]
      PROVE  a[y].swap >= k
  <2>1. b[x].swap >= k /\ y \in Params
    BY <1>1, <1>2 DEF SameSwaps
  <2>2. b[y].swap >= k
    BY <2>1 DEF Settled, Whole
  <2>3. QED
    BY <2>1, <2>2 DEF SameSwaps
<1>3. Whole(a)
  BY <1>2 DEF Whole
<1>4. QED
  BY <1>3 DEF Settled, SameSwaps

\* With no swap open the parameters themselves are settled.
LEMMA LiveSettled ==
  ASSUME TypeOK, RequestInv, StoreInv, bulkDepth = 0
  PROVE  Settled(live)
<1>1. \A k \in 1..swap : \A y \in changed[k] : live[y].swap >= k
  BY DEF RequestInv, StoreInv
<1>2. QED
  BY <1>1 DEF StoreInv, Settled, Whole

\* A take that leaves nothing awaited happened while no swap was open, and if
\* it leaves nothing to start either, nothing was pending before it.
LEMMA TakeFacts ==
  ASSUME TypeOK, RequestInv, TakeRequestWord, UNCHANGED messageVars
  PROVE  /\ RequestInv'
         /\ awaitSeq' = 0 => bulkDepth = 0
         /\ awaitSeq' = 0 /\ ~startPending' =>
              word.seq = 0 /\ awaitSeq = 0 /\ ~startPending
         /\ word'.seq = 0
         /\ word.seq = 0 /\ awaitSeq = 0 =>
              awaitSeq' = 0 /\ startPending' = startPending
<1>1. /\ word'.seq = 0 /\ word'.done = 0
      /\ awaitSeq' = IF Completed THEN 0 ELSE Awaited
      /\ startPending' = (startPending \/ Completed)
  BY DEF TakeRequestWord, NoRequest
<1>2. bulkDepth > 0 => Awaited = bulkSeq /\ ~Completed
  BY DEF RequestInv, Awaited, Completed
<1>3. RequestInv'
  BY <1>1, <1>2 DEF RequestInv, messageVars
<1>4. awaitSeq' = 0 => bulkDepth = 0
  BY <1>1, <1>2 DEF RequestInv, TypeOK, MessageTypeOK
<1>5. ~Completed /\ Awaited = 0 => word.seq = 0 /\ awaitSeq = 0
  BY DEF Awaited
<1>6. word.seq = 0 /\ awaitSeq = 0 => Awaited = 0 /\ ~Completed
  BY DEF Awaited, Completed
<1>7. startPending' \in BOOLEAN /\ startPending \in BOOLEAN
  BY <1>1 DEF TypeOK, RequestTypeOK
<1>8. QED
  BY <1>1, <1>3, <1>4, <1>5, <1>6, <1>7

\* Every action keeps the inductive invariant.
LEMMA Invariance == IInv /\ [Next]_vars => IInv'
<1> SUFFICES ASSUME IInv, [Next]_vars
             PROVE  IInv'
  OBVIOUS
<1> USE DEF IInv
<1>t. TypeOK'
  BY TypeInvariance
<1>f. ASSUME NEW s, UNCHANGED messageVars, Settled(s)
      PROVE  Settled(s)'
  BY <1>f DEF Settled, Whole, messageVars
<1>m. ASSUME UNCHANGED <<live, messageVars>>
      PROVE  StoreInv'
  BY <1>m DEF StoreInv, messageVars
<1>r. ASSUME UNCHANGED <<messageVars, word, awaitSeq>>
      PROVE  RequestInv'
  BY <1>r DEF RequestInv, messageVars
<1>d. ASSUME UNCHANGED duckVars, Settled(p)', Settled(pendingP)'
      PROVE  DuckInv'
  BY <1>d DEF DuckInv, duckVars, SameSwaps
<1>l. ASSUME UNCHANGED duckVars, UNCHANGED <<live, word, awaitSeq, startPending>>
      PROVE  NoSwapLost'
  BY <1>l DEF NoSwapLost, Target, duckVars, SameSwaps
<1>q. ASSUME pc' \notin {"reading", "adopt"} PROVE ReadInv'
  BY <1>q DEF ReadInv
<1>1. CASE BeginSwap
  <2>a. /\ bulkDepth = 0 /\ bulkDepth' = 1 /\ swap' = swap + 1
        /\ bulkSeq' = NextSeq /\ swap \in Nat /\ bulkSeq \in 0..SeqCount
        /\ \A k \in 1..swap : changed'[k] = changed[k]
        /\ changed'[swap'] = owed' /\ live' = live
    BY <1>1, BoundsAssumption DEF BeginSwap, OpenSwap, TypeOK, MessageTypeOK
  <2>b. word'.seq = NextSeq /\ word'.done = word.done
    BY <1>1 DEF BeginSwap, RequestDuck, TypeOK, RequestTypeOK, Word
  <2>c. NextSeq # 0 /\ NextSeq # bulkSeq /\ NextSeq \in Nat
    BY <2>a, NextSeqRange, BoundsAssumption
  <2>d. ASSUME NEW s \in Sound, Settled(s)
        PROVE  Settled(s)'
    BY <2>a, <2>d DEF Settled, Whole, Sound, Value
  <2>e. UNCHANGED <<duckVars, readVars, requestVars>>
    BY <1>1 DEF BeginSwap
  <2>1. RequestInv'
    BY <2>a, <2>b, <2>c DEF RequestInv
  <2>2. StoreInv'
    <3>1. \A x \in Params : live[x].swap \in Nat
      BY BoundsAssumption DEF TypeOK, MessageTypeOK, Sound, Value
    <3>2. \A x \in Params : live'[x].swap <= swap'
      BY <2>a, <3>1 DEF StoreInv
    <3>3. ASSUME NEW k \in 1..swap', NEW y \in changed'[k]
          PROVE  live'[y].swap >= k \/ (k = swap' /\ y \in owed')
      <4>1. CASE k = swap'
        BY <2>a, <4>1
      <4>2. CASE k # swap'
        BY <2>a, <4>2 DEF StoreInv, RequestInv
      <4>3. QED
        BY <4>1, <4>2
    <3>4. QED
      BY <3>2, <3>3 DEF StoreInv
  <2>3. ReadInv'
    <3>1. pc = "adopt" /\ clear => Settled(np)'
      BY <2>d, <2>e DEF ReadInv, TypeOK, ReadTypeOK, readVars
    <3>2. SameSwaps(np, Target) => SameSwaps(np, Target)'
      BY <2>e DEF SameSwaps, Target, readVars, duckVars
    <3>3. QED
      BY <3>1, <3>2, <2>b, <2>c, <2>e DEF ReadInv, readVars, requestVars
  <2>4. DuckInv'
    BY <2>d, <2>e, <1>d DEF DuckInv, TypeOK, DuckTypeOK, duckVars
  <2>5. NoSwapLost'
    BY <2>b, <2>c DEF NoSwapLost
  <2>9. QED
    BY <1>t, <2>1, <2>2, <2>3, <2>4, <2>5
<1>2. CASE BeginAbSwitch
  <2>a. /\ bulkDepth = 0 /\ bulkDepth' = 1 /\ swap' = swap + 1
        /\ bulkSeq' = NextSeq /\ swap \in Nat /\ bulkSeq \in 0..SeqCount
        /\ \A k \in 1..swap : changed'[k] = changed[k]
        /\ changed'[swap'] = owed' /\ live' = live
    BY <1>2, BoundsAssumption DEF BeginAbSwitch, OpenSwap, TypeOK, MessageTypeOK
  <2>b. word'.seq = NextSeq /\ word'.done = word.done
    BY <1>2 DEF BeginAbSwitch, RequestAbSwitch, TypeOK, RequestTypeOK, Word
  <2>c. NextSeq # 0 /\ NextSeq # bulkSeq /\ NextSeq \in Nat
    BY <2>a, NextSeqRange, BoundsAssumption
  <2>d. ASSUME NEW s \in Sound, Settled(s)
        PROVE  Settled(s)'
    BY <2>a, <2>d DEF Settled, Whole, Sound, Value
  <2>e. UNCHANGED <<duckVars, readVars, requestVars>>
    BY <1>2 DEF BeginAbSwitch
  <2>1. RequestInv'
    BY <2>a, <2>b, <2>c DEF RequestInv
  <2>2. StoreInv'
    <3>1. \A x \in Params : live[x].swap \in Nat
      BY BoundsAssumption DEF TypeOK, MessageTypeOK, Sound, Value
    <3>2. \A x \in Params : live'[x].swap <= swap'
      BY <2>a, <3>1 DEF StoreInv
    <3>3. ASSUME NEW k \in 1..swap', NEW y \in changed'[k]
          PROVE  live'[y].swap >= k \/ (k = swap' /\ y \in owed')
      <4>1. CASE k = swap'
        BY <2>a, <4>1
      <4>2. CASE k # swap'
        BY <2>a, <4>2 DEF StoreInv, RequestInv
      <4>3. QED
        BY <4>1, <4>2
    <3>4. QED
      BY <3>2, <3>3 DEF StoreInv
  <2>3. ReadInv'
    <3>1. pc = "adopt" /\ clear => Settled(np)'
      BY <2>d, <2>e DEF ReadInv, TypeOK, ReadTypeOK, readVars
    <3>2. SameSwaps(np, Target) => SameSwaps(np, Target)'
      BY <2>e DEF SameSwaps, Target, readVars, duckVars
    <3>3. QED
      BY <3>1, <3>2, <2>b, <2>c, <2>e DEF ReadInv, readVars, requestVars
  <2>4. DuckInv'
    BY <2>d, <2>e, <1>d DEF DuckInv, TypeOK, DuckTypeOK, duckVars
  <2>5. NoSwapLost'
    BY <2>b, <2>c DEF NoSwapLost
  <2>9. QED
    BY <1>t, <2>1, <2>2, <2>3, <2>4, <2>5
<1>3. CASE JoinSwap
  <2>a. /\ bulkDepth = 1 /\ bulkDepth' = 2 /\ swap' = swap /\ bulkSeq' = bulkSeq
        /\ swap \in 1..MaxSwaps /\ bulkSeq # 0 /\ word.done # bulkSeq
        /\ UNCHANGED live
    BY <1>3, BoundsAssumption DEF JoinSwap, RequestInv, TypeOK, MessageTypeOK
  <2>b. word'.seq = bulkSeq /\ word'.done = word.done
    BY <1>3 DEF JoinSwap, RequestDuck, TypeOK, RequestTypeOK, Word
  <2>c. PICK C \in SUBSET Params :
          /\ changed' = [changed EXCEPT ![swap] = @ \cup C]
          /\ owed' = owed \cup C
    BY <1>3 DEF JoinSwap
  <2>g. ASSUME NEW k \in 1..swap
        PROVE  changed'[k] = IF k = swap THEN changed[k] \cup C ELSE changed[k]
    <3>1. k \in 1..MaxSwaps
      BY <2>a, BoundsAssumption
    <3>2. changed \in [1..MaxSwaps -> SUBSET Params]
      BY DEF TypeOK, MessageTypeOK
    <3>3. QED
      BY <2>c, <3>1, <3>2
  <2>d. ASSUME NEW s \in Sound, Settled(s)
        PROVE  Settled(s)'
    <3>1. \A x \in Params : s[x].swap \in Nat /\ s[x].swap < swap
      BY <2>a, <2>d DEF Settled, Sound, Value
    <3>2. ASSUME NEW k \in 1..swap, NEW x \in Params, s[x].swap >= k
          PROVE  changed'[k] = changed[k]
      <4>1. k # swap
        BY <2>a, <3>1, <3>2, BoundsAssumption
      <4>2. QED
        BY <2>g, <4>1
    <3>3. Whole(s)'
      BY <2>a, <2>d, <3>2 DEF Settled, Whole
    <3>4. QED
      BY <2>a, <3>1, <3>3 DEF Settled
  <2>e. UNCHANGED <<duckVars, readVars, requestVars>>
    BY <1>3 DEF JoinSwap
  <2>1. RequestInv'
    BY <2>a, <2>b DEF RequestInv
  <2>2. StoreInv'
    <3>1. ASSUME NEW k \in 1..swap, NEW y \in changed'[k]
          PROVE  live[y].swap >= k \/ (k = swap /\ y \in owed')
      BY <2>c, <2>g DEF StoreInv
    <3>2. QED
      BY <2>a, <3>1 DEF StoreInv
  <2>3. ReadInv'
    <3>1. pc = "adopt" /\ clear => Settled(np)'
      BY <2>d, <2>e DEF ReadInv, TypeOK, ReadTypeOK, readVars
    <3>2. SameSwaps(np, Target) => SameSwaps(np, Target)'
      BY <2>e DEF SameSwaps, Target, readVars, duckVars
    <3>3. QED
      BY <3>1, <3>2, <2>a, <2>b, <2>e DEF ReadInv, readVars, requestVars
  <2>4. DuckInv'
    BY <2>d, <2>e, <1>d DEF DuckInv, TypeOK, DuckTypeOK, duckVars
  <2>5. NoSwapLost'
    BY <2>a, <2>b DEF NoSwapLost
  <2>9. QED
    BY <1>t, <2>1, <2>2, <2>3, <2>4, <2>5
<1>4. CASE EndSwap
  <2>a. /\ bulkDepth > 0 /\ bulkDepth' = bulkDepth - 1 /\ bulkDepth \in 1..2
        /\ bulkDepth = 1 => owed = {}
        /\ UNCHANGED <<live, swap, changed, bulkSeq, owed>>
    BY <1>4 DEF EndSwap, TypeOK, MessageTypeOK
  <2>b. /\ word'.seq = word.seq
        /\ word'.done = IF bulkDepth = 1 THEN bulkSeq ELSE word.done
    BY <1>4 DEF EndSwap, CompleteBulkApply, TypeOK, RequestTypeOK, Word
  <2>c. bulkSeq # 0 /\ (word.seq = 0 => awaitSeq = bulkSeq)
    BY <2>a DEF RequestInv
  <2>d. ASSUME NEW s \in Sound, Settled(s)
        PROVE  Settled(s)'
    BY <2>a, <2>d DEF Settled, Whole
  <2>e. UNCHANGED <<duckVars, readVars, requestVars>>
    BY <1>4 DEF EndSwap
  <2>1. RequestInv'
    BY <2>a, <2>b, <2>c, <2>e DEF RequestInv, requestVars
  <2>2. StoreInv'
    BY <2>a DEF StoreInv
  <2>3. ReadInv'
    <3>1. pc = "adopt" /\ clear => Settled(np)'
      BY <2>d, <2>e DEF ReadInv, TypeOK, ReadTypeOK, readVars
    <3>2. SameSwaps(np, Target) => SameSwaps(np, Target)'
      BY <2>e DEF SameSwaps, Target, readVars, duckVars
    <3>3. QED
      BY <3>1, <3>2, <2>a, <2>b, <2>c, <2>e DEF ReadInv, readVars, requestVars
  <2>4. DuckInv'
    BY <2>d, <2>e, <1>d DEF DuckInv, TypeOK, DuckTypeOK, duckVars
  <2>5. NoSwapLost'
    BY <2>b, <2>c, <2>e DEF NoSwapLost, requestVars
  <2>9. QED
    BY <1>t, <2>1, <2>2, <2>3, <2>4, <2>5
<1>5. CASE \E x \in Params : WriteParam(x)
  <2>a. PICK x \in Params : WriteParam(x)
    BY <1>5
  <2>b. /\ bulkDepth > 0 /\ swap \in 1..MaxSwaps /\ owed' = owed \ {x}
        /\ UNCHANGED <<swap, changed, bulkSeq, bulkDepth, word>>
    BY <2>a, BoundsAssumption DEF WriteParam, RequestInv, TypeOK, MessageTypeOK
  <2>c. \A y \in Params : live'[y].swap = IF y = x THEN swap ELSE live[y].swap
    BY <2>a DEF WriteParam, TypeOK, MessageTypeOK, Sound
  <2>d. ASSUME NEW s \in Sound, Settled(s)
        PROVE  Settled(s)'
    BY <2>b, <2>d DEF Settled, Whole
  <2>e. UNCHANGED <<duckVars, readVars, requestVars>>
    BY <2>a DEF WriteParam
  <2>g. word.seq # 0 \/ awaitSeq # 0
    BY <2>b DEF RequestInv
  <2>1. RequestInv'
    BY <2>b, <2>e DEF RequestInv, requestVars
  <2>2. StoreInv'
    <3>1. ASSUME NEW k \in 1..swap
          PROVE  changed[k] \subseteq Params
      BY <2>b, BoundsAssumption DEF TypeOK, MessageTypeOK
    <3>2. ASSUME NEW k \in 1..swap, NEW y \in changed[k]
          PROVE  live'[y].swap >= k \/ (k = swap /\ y \in owed')
      BY <2>b, <2>c, <3>1 DEF StoreInv
    <3>3. \A y \in Params : live'[y].swap <= swap
      BY <2>b, <2>c DEF StoreInv
    <3>4. QED
      BY <2>b, <3>2, <3>3 DEF StoreInv
  <2>3. ReadInv'
    <3>1. pc = "adopt" /\ clear => Settled(np)'
      BY <2>d, <2>e DEF ReadInv, TypeOK, ReadTypeOK, readVars
    <3>2. SameSwaps(np, Target) => SameSwaps(np, Target)'
      BY <2>e DEF SameSwaps, Target, readVars, duckVars
    <3>3. QED
      BY <3>1, <3>2, <2>b, <2>g, <2>e DEF ReadInv, readVars, requestVars
  <2>4. DuckInv'
    BY <2>d, <2>e, <1>d DEF DuckInv, TypeOK, DuckTypeOK, duckVars
  <2>5. NoSwapLost'
    BY <2>b, <2>e, <2>g DEF NoSwapLost, requestVars
  <2>9. QED
    BY <1>t, <2>1, <2>2, <2>3, <2>4, <2>5
<1>6. CASE \E s \in Slots : ForgetMemory(s)
  <2>a. /\ UNCHANGED <<live, swap, changed, bulkSeq, bulkDepth, owed>>
        /\ UNCHANGED <<duckVars, readVars, requestVars>>
        /\ word'.seq = word.seq /\ word'.done = word.done
    BY <1>6 DEF ForgetMemory, ForgetAbMatchMemory
  <2>d. ASSUME NEW s, Settled(s)
        PROVE  Settled(s)'
    BY <2>a, <2>d DEF Settled, Whole
  <2>1. RequestInv'
    BY <2>a DEF RequestInv, requestVars
  <2>2. StoreInv'
    BY <2>a DEF StoreInv
  <2>3. ReadInv'
    <3>1. pc = "adopt" /\ clear => Settled(np)'
      BY <2>a, <2>d DEF ReadInv, readVars
    <3>2. QED
      BY <2>a, <3>1 DEF ReadInv, SameSwaps, Target, readVars, duckVars, requestVars
  <2>4. DuckInv'
    BY <2>a, <2>d, <1>d DEF DuckInv, duckVars
  <2>5. NoSwapLost'
    BY <2>a DEF NoSwapLost, SameSwaps, Target, duckVars, requestVars
  <2>9. QED
    BY <1>t, <2>1, <2>2, <2>3, <2>4, <2>5
<1>7. CASE \E x \in Params : EditParam(x)
  <2>a. /\ UNCHANGED <<swap, changed, bulkSeq, bulkDepth, owed, word>>
        /\ UNCHANGED <<duckVars, readVars, requestVars>>
    BY <1>7 DEF EditParam
  <2>b. \A y \in Params : live'[y].swap = live[y].swap
    BY <1>7 DEF EditParam, TypeOK, MessageTypeOK, Sound, Value
  <2>d. ASSUME NEW s, Settled(s)
        PROVE  Settled(s)'
    BY <2>a, <2>d DEF Settled, Whole
  <2>1. RequestInv'
    BY <2>a DEF RequestInv, requestVars
  <2>2. StoreInv'
    <3>1. ASSUME NEW k \in 1..swap
          PROVE  changed[k] \subseteq Params
      BY BoundsAssumption DEF TypeOK, MessageTypeOK
    <3>2. QED
      BY <2>a, <2>b, <3>1 DEF StoreInv
  <2>3. ReadInv'
    <3>1. pc = "adopt" /\ clear => Settled(np)'
      BY <2>a, <2>d DEF ReadInv, readVars
    <3>2. QED
      BY <2>a, <2>b, <3>1
         DEF ReadInv, SameSwaps, Target, readVars, duckVars, requestVars
  <2>4. DuckInv'
    BY <2>a, <2>d, <1>d DEF DuckInv, duckVars
  <2>5. NoSwapLost'
    BY <2>a, <2>b DEF NoSwapLost, SameSwaps, Target, duckVars, requestVars
  <2>9. QED
    BY <1>t, <2>1, <2>2, <2>3, <2>4, <2>5
<1>8. CASE AcquireBefore
  <2>a. /\ TakeRequestWord /\ UNCHANGED <<live, messageVars, duckVars>>
        /\ pc' = "reading" /\ clear' = (awaitSeq' = 0) /\ unread' = Params
    BY <1>8 DEF AcquireBefore
  <2>1. RequestInv'
    BY <2>a, TakeFacts
  <2>2. StoreInv'
    BY <2>a, <1>m
  <2>3. ReadInv'
    BY <2>a, TakeFacts DEF ReadInv, messageVars
  <2>4. DuckInv'
    BY <2>a, <1>d, <1>f DEF DuckInv, duckVars
  <2>5. NoSwapLost'
    BY <2>a, TakeFacts DEF NoSwapLost, SameSwaps, Target, duckVars
  <2>9. QED
    BY <1>t, <2>1, <2>2, <2>3, <2>4, <2>5
<1>9. CASE \E x \in Params : ReadParam(x)
  <2>a. PICK x \in Params : ReadParam(x)
    BY <1>9
  <2>b. /\ UNCHANGED <<live, messageVars, word, requestVars, duckVars, pc, clear>>
        /\ pc = "reading" /\ unread' = unread \ {x}
    BY <2>a DEF ReadParam
  <2>c. \A y \in Params : np'[y] = IF y = x THEN live[x] ELSE np[y]
    BY <2>a DEF ReadParam, TypeOK, ReadTypeOK, Sound
  <2>1. RequestInv'
    BY <2>b, <1>r DEF requestVars
  <2>2. StoreInv'
    BY <2>b, <1>m
  <2>3. ReadInv'
    BY <2>b, <2>c DEF ReadInv, messageVars, requestVars
  <2>4. DuckInv'
    BY <2>b, <1>d, <1>f DEF DuckInv, duckVars
  <2>5. NoSwapLost'
    BY <2>b, <1>l DEF requestVars
  <2>9. QED
    BY <1>t, <2>1, <2>2, <2>3, <2>4, <2>5
<1>10. CASE AcquireAfter
  <2>a. /\ TakeRequestWord /\ UNCHANGED <<live, messageVars, np, duckVars>>
        /\ pc = "reading" /\ pc' = "adopt" /\ unread = {}
        /\ clear' = (clear /\ word.seq = 0)
    BY <1>10 DEF AcquireAfter
  <2>1. RequestInv'
    BY <2>a, TakeFacts
  <2>2. StoreInv'
    BY <2>a, <1>m
  <2>3. ReadInv'
    <3>1. SUFFICES ASSUME clear, word.seq = 0
                   PROVE  /\ awaitSeq' = 0 /\ Settled(np)'
                          /\ ~startPending' => SameSwaps(np, Target)'
                          /\ bulkDepth' = 0 /\ SameSwaps(np, live)'
      BY <2>a DEF ReadInv
    <3>2. /\ awaitSeq = 0 /\ bulkDepth = 0 /\ SameSwaps(np, live)
      BY <2>a, <3>1 DEF ReadInv, SameSwaps
    <3>3. awaitSeq' = 0 /\ startPending' = startPending
      BY <2>a, <3>1, <3>2, TakeFacts
    <3>4. Settled(np)
      BY <3>2, LiveSettled, SettledSame DEF TypeOK
    <3>5. Settled(np)'
      BY <2>a, <3>4, <1>f
    <3>6. ~startPending => SameSwaps(np, Target)
      BY <3>1, <3>2 DEF NoSwapLost, SameSwaps
    <3>7. QED
      BY <2>a, <3>2, <3>3, <3>5, <3>6 DEF SameSwaps, Target, duckVars, messageVars
  <2>4. DuckInv'
    BY <2>a, <1>d, <1>f DEF DuckInv, duckVars
  <2>5. NoSwapLost'
    BY <2>a, TakeFacts DEF NoSwapLost, SameSwaps, Target, duckVars
  <2>9. QED
    BY <1>t, <2>1, <2>2, <2>3, <2>4, <2>5
<1>a. ASSUME pc = "adopt", clear, StartTakenRequests,
             UNCHANGED <<live, messageVars, word>>
      PROVE  /\ Settled(np)
             /\ ~startPending => SameSwaps(np, Target)
             /\ RequestInv'
             /\ SameSwaps(np, Target') => NoSwapLost'
  <2>1. awaitSeq' = awaitSeq /\ ~startPending'
    BY <1>a DEF StartTakenRequests
  <2>2. SameSwaps(np, Target') => NoSwapLost'
    BY <1>a, <2>1 DEF ReadInv, NoSwapLost, SameSwaps
  <2>3. RequestInv'
    BY <1>a, <1>r, <2>1
  <2>4. QED
    BY <1>a, <2>2, <2>3 DEF ReadInv
<1>11. CASE RejectSnapshot
  <2>a. /\ UNCHANGED <<live, messageVars, word, requestVars, duckVars>>
        /\ pc' \notin {"reading", "adopt"}
    BY <1>11 DEF RejectSnapshot, AfterAdopt
  <2>1. RequestInv'
    BY <2>a, <1>r DEF requestVars
  <2>2. StoreInv'
    BY <2>a, <1>m
  <2>3. ReadInv'
    BY <2>a, <1>q
  <2>4. DuckInv'
    BY <2>a, <1>d, <1>f DEF DuckInv, duckVars
  <2>5. NoSwapLost'
    BY <2>a, <1>l DEF requestVars
  <2>9. QED
    BY <1>t, <2>1, <2>2, <2>3, <2>4, <2>5
<1>12. CASE StartForcedDuck
  <2>a. /\ pc = "adopt" /\ clear /\ StartTakenRequests
        /\ UNCHANGED <<live, messageVars, word>>
        /\ pc' \notin {"reading", "adopt"}
    BY <1>12 DEF StartForcedDuck, AtAdopt, AfterAdopt
  <2>b. /\ p' = p /\ pendingP' = np
        /\ switchState' = "FadeOut" /\ pendingForced'
    BY <1>12, <2>a, <1>a DEF StartForcedDuck, DuckInv, Target, BeginForcedDuck
  <2>1. RequestInv'
    BY <2>a, <1>a
  <2>2. StoreInv'
    BY <2>a, <1>m
  <2>3. ReadInv'
    BY <2>a, <1>q
  <2>4. DuckInv'
    BY <2>a, <2>b, <1>a, <1>f DEF DuckInv
  <2>5. NoSwapLost'
    BY <2>a, <2>b, <1>a, SameSwapsFacts DEF Target
  <2>9. QED
    BY <1>t, <2>1, <2>2, <2>3, <2>4, <2>5
<1>13. CASE StartOrdinaryDuck
  <2>a. /\ pc = "adopt" /\ clear /\ StartTakenRequests
        /\ UNCHANGED <<live, messageVars, word>>
        /\ pc' \notin {"reading", "adopt"}
    BY <1>13 DEF StartOrdinaryDuck, AtAdopt, AfterAdopt, SameSwaps
  <2>b. /\ p' = CopyContinuous(p, np) /\ pendingP' = np
        /\ SameSwaps(p, np) /\ ~pendingForced' /\ switchState' # "Normal"
    BY <1>13, <2>a, <1>a DEF StartOrdinaryDuck, DuckInv, SameSwaps, Target
  <2>1. RequestInv'
    BY <2>a, <1>a
  <2>2. StoreInv'
    BY <2>a, <1>m
  <2>3. ReadInv'
    BY <2>a, <1>q
  <2>4. DuckInv'
    <3>1. SameSwaps(p', np)
      BY <2>b, SameSwapsFacts
    <3>2. Settled(np)
      BY <2>a, <1>a
    <3>3. Settled(p')
      BY <3>1, <3>2, SettledSame DEF TypeOK
    <3>4. Settled(p)' /\ Settled(pendingP)'
      BY <2>a, <2>b, <3>2, <3>3, <1>f
    <3>5. QED
      BY <2>b, <3>1, <3>4 DEF DuckInv
  <2>5. NoSwapLost'
    BY <2>a, <2>b, <1>a, SameSwapsFacts DEF Target
  <2>9. QED
    BY <1>t, <2>1, <2>2, <2>3, <2>4, <2>5
<1>14. CASE ApplyLive
  <2>a. /\ pc = "adopt" /\ clear /\ StartTakenRequests
        /\ UNCHANGED <<live, messageVars, word>>
        /\ pc' \notin {"reading", "adopt"}
    BY <1>14 DEF ApplyLive, AtAdopt, AfterAdopt
  <2>b. /\ p' = np /\ pendingP' = pendingP
        /\ switchState' = "Normal" /\ ~pendingForced'
    BY <1>14, <2>a, <1>a DEF ApplyLive, DuckInv, Target
  <2>1. RequestInv'
    BY <2>a, <1>a
  <2>2. StoreInv'
    BY <2>a, <1>m
  <2>3. ReadInv'
    BY <2>a, <1>q
  <2>4. DuckInv'
    BY <2>a, <2>b, <1>a, <1>f DEF DuckInv
  <2>5. NoSwapLost'
    BY <2>a, <2>b, <1>a, SameSwapsFacts DEF Target
  <2>9. QED
    BY <1>t, <2>1, <2>2, <2>3, <2>4, <2>5
<1>15. CASE ReduckForced
  <2>a. /\ pc = "adopt" /\ clear /\ StartTakenRequests
        /\ UNCHANGED <<live, messageVars, word>>
        /\ pc' \notin {"reading", "adopt"}
    BY <1>15 DEF ReduckForced, AtAdopt, AfterAdopt
  <2>b. /\ p' = p /\ pendingP' = np
        /\ switchState' = "FadeOut" /\ pendingForced'
    BY <1>15, <2>a, <1>a DEF ReduckForced, DuckInv, Target, BeginForcedDuck
  <2>1. RequestInv'
    BY <2>a, <1>a
  <2>2. StoreInv'
    BY <2>a, <1>m
  <2>3. ReadInv'
    BY <2>a, <1>q
  <2>4. DuckInv'
    BY <2>a, <2>b, <1>a, <1>f DEF DuckInv
  <2>5. NoSwapLost'
    BY <2>a, <2>b, <1>a, SameSwapsFacts DEF Target
  <2>9. QED
    BY <1>t, <2>1, <2>2, <2>3, <2>4, <2>5
<1>16. CASE ReduckOrdinary
  <2>a. /\ pc = "adopt" /\ clear /\ StartTakenRequests
        /\ UNCHANGED <<live, messageVars, word>>
        /\ pc' \notin {"reading", "adopt"}
    BY <1>16 DEF ReduckOrdinary, AtAdopt, AfterAdopt, SameSwaps
  <2>b. /\ p' = CopyContinuous(p, np) /\ pendingP' = np
        /\ SameSwaps(p, np) /\ ~pendingForced' /\ switchState' # "Normal"
    BY <1>16, <2>a, <1>a DEF ReduckOrdinary, DuckInv, SameSwaps, Target
  <2>1. RequestInv'
    BY <2>a, <1>a
  <2>2. StoreInv'
    BY <2>a, <1>m
  <2>3. ReadInv'
    BY <2>a, <1>q
  <2>4. DuckInv'
    <3>1. SameSwaps(p', np)
      BY <2>b, SameSwapsFacts
    <3>2. Settled(np)
      BY <2>a, <1>a
    <3>3. Settled(p')
      BY <3>1, <3>2, SettledSame DEF TypeOK
    <3>4. Settled(p)' /\ Settled(pendingP)'
      BY <2>a, <2>b, <3>2, <3>3, <1>f
    <3>5. QED
      BY <2>b, <3>1, <3>4 DEF DuckInv
  <2>5. NoSwapLost'
    BY <2>a, <2>b, <1>a, SameSwapsFacts DEF Target
  <2>9. QED
    BY <1>t, <2>1, <2>2, <2>3, <2>4, <2>5
<1>17. CASE RetargetForced
  <2>a. /\ pc = "adopt" /\ clear /\ StartTakenRequests
        /\ UNCHANGED <<live, messageVars, word>>
        /\ pc' \notin {"reading", "adopt"}
    BY <1>17 DEF RetargetForced, AtAdopt, AfterAdopt, Retargets
  <2>b. /\ p' = p /\ pendingP' = np
        /\ switchState' = "FadeOut" /\ pendingForced'
    BY <1>17, <2>a, <1>a DEF RetargetForced, DuckInv, Retargets, Target
  <2>1. RequestInv'
    BY <2>a, <1>a
  <2>2. StoreInv'
    BY <2>a, <1>m
  <2>3. ReadInv'
    BY <2>a, <1>q
  <2>4. DuckInv'
    BY <2>a, <2>b, <1>a, <1>f DEF DuckInv
  <2>5. NoSwapLost'
    BY <2>a, <2>b, <1>a, SameSwapsFacts DEF Target
  <2>9. QED
    BY <1>t, <2>1, <2>2, <2>3, <2>4, <2>5
<1>18. CASE UpgradeToForced
  <2>a. /\ pc = "adopt" /\ clear /\ StartTakenRequests
        /\ UNCHANGED <<live, messageVars, word>>
        /\ pc' \notin {"reading", "adopt"}
    BY <1>18 DEF UpgradeToForced, AtAdopt, AfterAdopt, Retargets
  <2>b. /\ p' = p /\ pendingP' = np
        /\ switchState' = "FadeOut" /\ pendingForced'
    BY <1>18, <2>a, <1>a DEF UpgradeToForced, DuckInv, Retargets, Target, TypeOK, DuckTypeOK
  <2>1. RequestInv'
    BY <2>a, <1>a
  <2>2. StoreInv'
    BY <2>a, <1>m
  <2>3. ReadInv'
    BY <2>a, <1>q
  <2>4. DuckInv'
    BY <2>a, <2>b, <1>a, <1>f DEF DuckInv
  <2>5. NoSwapLost'
    BY <2>a, <2>b, <1>a, SameSwapsFacts DEF Target
  <2>9. QED
    BY <1>t, <2>1, <2>2, <2>3, <2>4, <2>5
<1>19. CASE RetargetOrdinary
  <2>a. /\ pc = "adopt" /\ clear /\ StartTakenRequests
        /\ UNCHANGED <<live, messageVars, word>>
        /\ pc' \notin {"reading", "adopt"}
    BY <1>19 DEF RetargetOrdinary, AtAdopt, AfterAdopt, Retargets, SameSwaps
  <2>b. /\ p' = CopyContinuous(p, np) /\ pendingP' = np
        /\ SameSwaps(p, np) /\ ~pendingForced' /\ switchState' # "Normal"
    BY <1>19, <2>a, <1>a DEF RetargetOrdinary, DuckInv, Retargets, SameSwaps, Target
  <2>1. RequestInv'
    BY <2>a, <1>a
  <2>2. StoreInv'
    BY <2>a, <1>m
  <2>3. ReadInv'
    BY <2>a, <1>q
  <2>4. DuckInv'
    <3>1. SameSwaps(p', np)
      BY <2>b, SameSwapsFacts
    <3>2. Settled(np)
      BY <2>a, <1>a
    <3>3. Settled(p')
      BY <3>1, <3>2, SettledSame DEF TypeOK
    <3>4. Settled(p)' /\ Settled(pendingP)'
      BY <2>a, <2>b, <3>2, <3>3, <1>f
    <3>5. QED
      BY <2>b, <3>1, <3>4 DEF DuckInv
  <2>5. NoSwapLost'
    BY <2>a, <2>b, <1>a, SameSwapsFacts DEF Target
  <2>9. QED
    BY <1>t, <2>1, <2>2, <2>3, <2>4, <2>5
<1>20. CASE Prime
  <2>a. pc' \notin {"reading", "adopt"} /\ UNCHANGED <<live, messageVars, word>>
    BY <1>20 DEF Prime
  <2>b. CASE clear
    <3>1. /\ StartTakenRequests /\ pc = "adopt" /\ p' = np /\ pendingP' = np
          /\ UNCHANGED <<switchState, pendingForced>>
      BY <1>20, <2>b DEF Prime
    <3>2. RequestInv' /\ Settled(np) /\ SameSwaps(np, Target')
      BY <2>a, <2>b, <3>1, <1>a, SameSwapsFacts DEF Target
    <3>5. Settled(p)' /\ Settled(pendingP)'
      BY <2>a, <3>1, <3>2, <1>f
    <3>3. DuckInv'
      BY <3>1, <3>5 DEF DuckInv, SameSwaps
    <3>4. QED
      BY <2>a, <2>b, <3>1, <3>2, <3>3, <1>a, <1>m, <1>q, <1>t
  <2>c. CASE ~clear
    <3>1. UNCHANGED <<requestVars, duckVars>>
      BY <1>20, <2>c DEF Prime, duckVars
    <3>2. DuckInv'
      BY <2>a, <3>1, <1>d, <1>f DEF DuckInv, duckVars
    <3>3. QED
      BY <2>a, <3>1, <3>2, <1>l, <1>m, <1>q, <1>r, <1>t DEF requestVars
  <2>d. QED
    BY <2>b, <2>c
<1>g. ASSUME LandDuck, UNCHANGED <<live, messageVars, word, requestVars>>
      PROVE  RequestInv' /\ StoreInv' /\ DuckInv' /\ NoSwapLost'
  <2>1. p' = Target /\ pendingP' = Target /\ switchState' = "Normal" /\ ~pendingForced'
    BY <1>g DEF LandDuck, Target
  <2>2. Settled(Target)
    BY DEF DuckInv, Target
  <2>3. DuckInv'
    BY <1>f, <1>g, <2>1, <2>2 DEF DuckInv
  <2>4. NoSwapLost'
    BY <1>g, <2>1 DEF NoSwapLost, Target, SameSwaps, requestVars
  <2>5. QED
    BY <1>g, <1>m, <1>r, <2>3, <2>4 DEF requestVars
<1>21. CASE Prepare
  <2>1. LandDuck /\ UNCHANGED <<live, messageVars, word, requestVars>> /\ ReadInv'
    BY <1>21, <1>q DEF Prepare
  <2>2. QED
    BY <2>1, <1>g, <1>t
<1>22. CASE HostReset
  <2>1. LandDuck /\ UNCHANGED <<live, messageVars, word, requestVars>>
    BY <1>22 DEF HostReset
  <2>2. ReadInv'
    BY <1>22, <1>q DEF HostReset, readVars
  <2>3. QED
    BY <2>1, <2>2, <1>g, <1>t
<1>23. CASE Bottom
  <2>a. /\ UNCHANGED <<live, messageVars, word, awaitSeq, startPending>>
        /\ pc' \notin {"reading", "adopt"}
    BY <1>23 DEF Bottom, ProcessTail, EndSlice
  <2>b. /\ p' = pendingP /\ pendingP' = pendingP /\ ~pendingForced'
        /\ switchState = "FadeOut" /\ switchState' = "FadeIn"
    BY <1>23 DEF Bottom
  <2>1. RequestInv'
    BY <2>a, <1>r
  <2>2. StoreInv'
    BY <2>a, <1>m
  <2>3. ReadInv'
    BY <2>a, <1>q
  <2>4. DuckInv'
    BY <2>a, <2>b, <1>f DEF DuckInv, SameSwaps, TypeOK, DuckTypeOK
  <2>5. NoSwapLost'
    BY <2>a, <2>b DEF NoSwapLost, Target, SameSwaps
  <2>9. QED
    BY <1>t, <2>1, <2>2, <2>3, <2>4, <2>5
<1>24. CASE FinishFadeIn
  <2>a. /\ UNCHANGED <<live, messageVars, word, awaitSeq, startPending>>
        /\ pc' \notin {"reading", "adopt"}
    BY <1>24 DEF FinishFadeIn, ProcessTail, EndSlice
  <2>b. /\ UNCHANGED <<p, pendingP, pendingForced>>
        /\ switchState = "FadeIn" /\ switchState' = "Normal"
    BY <1>24 DEF FinishFadeIn
  <2>1. RequestInv'
    BY <2>a, <1>r
  <2>2. StoreInv'
    BY <2>a, <1>m
  <2>3. ReadInv'
    BY <2>a, <1>q
  <2>4. DuckInv'
    BY <2>a, <2>b, <1>f DEF DuckInv, SameSwaps, TypeOK, DuckTypeOK
  <2>5. NoSwapLost'
    BY <2>a, <2>b DEF NoSwapLost, Target, SameSwaps, DuckInv
  <2>9. QED
    BY <1>t, <2>1, <2>2, <2>3, <2>4, <2>5
<1>25. CASE Advance
  <2>a. /\ UNCHANGED <<live, messageVars, word, awaitSeq, startPending>>
        /\ pc' \notin {"reading", "adopt"}
    BY <1>25 DEF Advance, ProcessTail, EndSlice
  <2>b. UNCHANGED <<p, pendingP, pendingForced, switchState>>
    BY <1>25 DEF Advance
  <2>1. RequestInv'
    BY <2>a, <1>r
  <2>2. StoreInv'
    BY <2>a, <1>m
  <2>3. ReadInv'
    BY <2>a, <1>q
  <2>4. DuckInv'
    BY <2>a, <2>b, <1>f DEF DuckInv, SameSwaps, TypeOK, DuckTypeOK
  <2>5. NoSwapLost'
    BY <2>a, <2>b DEF NoSwapLost, Target, SameSwaps
  <2>9. QED
    BY <1>t, <2>1, <2>2, <2>3, <2>4, <2>5
<1>26. CASE UNCHANGED vars
  <2>a. /\ UNCHANGED <<live, messageVars, word, requestVars, readVars, duckVars>>
    BY <1>26 DEF vars
  <2>1. RequestInv'
    BY <2>a, <1>r DEF requestVars
  <2>2. StoreInv'
    BY <2>a, <1>m
  <2>3. ReadInv'
    <3>1. pc = "adopt" /\ clear => Settled(np)'
      BY <2>a, <1>f DEF ReadInv, readVars
    <3>2. QED
      BY <2>a, <3>1
         DEF ReadInv, SameSwaps, Target, readVars, duckVars, requestVars, messageVars
  <2>4. DuckInv'
    BY <2>a, <1>d, <1>f DEF DuckInv, duckVars
  <2>5. NoSwapLost'
    BY <2>a, <1>l DEF requestVars
  <2>9. QED
    BY <1>t, <2>1, <2>2, <2>3, <2>4, <2>5
<1>27. QED
  BY <1>1, <1>2, <1>3, <1>4, <1>5, <1>6, <1>7, <1>8, <1>9, <1>10, <1>11,
     <1>12, <1>13, <1>14, <1>15, <1>16, <1>17, <1>18, <1>19, <1>20, <1>21,
     <1>22, <1>23, <1>24, <1>25, <1>26
     DEF Next, MessageThread, AudioSide, Adopt, Process

LEMMA IInvInit == Init => IInv
<1> SUFFICES ASSUME Init PROVE IInv
  OBVIOUS
<1>1. TypeOK
  BY TypeInit
<1>2. /\ swap = 0 /\ bulkDepth = 0 /\ owed = {} /\ word.seq = 0 /\ word.done = 0
      /\ pc = "idle" /\ switchState = "Normal" /\ ~pendingForced
      /\ live = FirstSound /\ p = FirstSound /\ pendingP = FirstSound
  BY DEF Init, NoRequest
<1>3. \A x \in Params : FirstSound[x].swap = 0
  BY DEF FirstSound
<1>4. RequestInv /\ ReadInv
  BY <1>2 DEF RequestInv, ReadInv
<1>5. StoreInv /\ Settled(FirstSound)
  BY <1>2, <1>3 DEF StoreInv, Settled, Whole
<1>6. DuckInv /\ NoSwapLost
  BY <1>2, <1>5 DEF DuckInv, NoSwapLost, Target, SameSwaps
<1>7. QED
  BY <1>1, <1>4, <1>5, <1>6 DEF IInv

\* The engine never runs, nor heads for, part of a bulk swap.
THEOREM NeverAMixture == Spec => []NoMixture
<1>1. IInv => NoMixture
  BY DEF IInv, DuckInv, Settled, NoMixture
<1>2. QED
  BY <1>1, IInvInit, Invariance, PTL DEF Spec

\* Every bulk swap is still requested somewhere, or in the engine's target.
THEOREM NoSwapIsLost == Spec => []NoSwapLost
<1>1. IInv => NoSwapLost
  BY DEF IInv
<1>2. QED
  BY <1>1, IInvInit, Invariance, PTL DEF Spec

-----------------------------------------------------------------------------
(* Where a swap becomes audible, and what covers it.                        *)

\* A step changes the swaps the engine's parameters show only at the silent
\* bottom of a forced duck, or where the host has stopped the stream.
THEOREM SwapsAreMasked == Spec => SwapMasked
<1> DEFINE Masked ==
      ~SameSwaps(p', p) =>
        \/ switchState = "FadeOut" /\ switchPhase = 0 /\ pendingForced
        \/ pc = "adopt" /\ purpose = "prime"
        \/ pc' # "process" /\ switchState' = "Normal" /\ switchState # "Normal"
<1>1. ASSUME IInv, [Next]_vars PROVE [Masked]_vars
  <2>1. SUFFICES ASSUME ~SameSwaps(p', p) PROVE Masked
    OBVIOUS
  <2>2. p' # p
    BY <2>1 DEF SameSwaps
  <2>3. CASE MessageThread \/ \E x \in Params : EditParam(x)
    BY <2>2, <2>3 DEF MessageThread, BeginSwap, BeginAbSwitch, JoinSwap, EndSwap,
       WriteParam, ForgetMemory, EditParam, duckVars
  <2>4. CASE AcquireBefore \/ AcquireAfter \/ \E x \in Params : ReadParam(x)
    BY <2>2, <2>4 DEF AcquireBefore, AcquireAfter, ReadParam, duckVars
  <2>5. CASE RejectSnapshot \/ StartForcedDuck \/ ReduckForced \/ RetargetForced
             \/ UpgradeToForced
    BY <2>2, <2>5 DEF RejectSnapshot, StartForcedDuck, ReduckForced,
       RetargetForced, UpgradeToForced, duckVars
  <2>6. CASE StartOrdinaryDuck \/ ApplyLive \/ ReduckOrdinary \/ RetargetOrdinary
    <3>1. clear /\ pc = "adopt" /\ ~startPending
      BY <2>6 DEF StartOrdinaryDuck, ApplyLive, ReduckOrdinary, RetargetOrdinary,
         Retargets, AtAdopt
    <3>2. SameSwaps(np, p)
      <4>1. SameSwaps(np, Target)
        BY <1>1, <3>1 DEF IInv, ReadInv
      <4>2. switchState # "Normal" => ~pendingForced
        BY <1>1, <2>6 DEF StartOrdinaryDuck, ApplyLive, ReduckOrdinary,
           RetargetOrdinary, Retargets, IInv, DuckInv
      <4>3. SameSwaps(p, Target)
        BY <1>1, <4>2, SameSwapsFacts DEF IInv, DuckInv, Target
      <4>4. QED
        BY <4>1, <4>3, SameSwapsFacts
    <3>3. p' = np \/ p' = CopyContinuous(p, np)
      BY <2>6 DEF StartOrdinaryDuck, ApplyLive, ReduckOrdinary, RetargetOrdinary
    <3>4. SameSwaps(p', p)
      BY <3>2, <3>3 DEF SameSwaps, CopyContinuous
    <3>5. QED
      BY <2>1, <3>4
  <2>7. CASE Prime \/ Bottom
    <3>1. CASE Prime
      BY <3>1 DEF Prime
    <3>2. CASE Bottom
      <4>1. ~SameSwaps(pendingP, p)
        BY <2>1, <3>2 DEF Bottom
      <4>2. pendingForced
        BY <3>2, <4>1, <1>1, SameSwapsFacts DEF Bottom, IInv, DuckInv
      <4>3. QED
        BY <3>2, <4>2 DEF Bottom
    <3>3. QED
      BY <2>7, <3>1, <3>2
  <2>8. CASE Prepare \/ HostReset
    BY <2>2, <2>8 DEF Prepare, HostReset, LandDuck, readVars
  <2>9. CASE FinishFadeIn \/ Advance \/ UNCHANGED vars
    BY <2>2, <2>9 DEF FinishFadeIn, Advance, vars, duckVars
  <2>10. QED
    BY <1>1, <2>3, <2>4, <2>5, <2>6, <2>7, <2>8, <2>9
       DEF Next, AudioSide, Adopt, Process
<1>2. QED
  BY <1>1, IInvInit, Invariance, PTL DEF Spec, SwapMasked

\* A dry signal laid over a duck is aligned, and only forced ducks have one.
DryInv ==
  /\ DryPathAligned
  /\ switchState = "Normal" /\ pc # "primed" => ~dryDuck
  /\ switchState = "FadeOut" /\ ~pendingForced /\ pc # "primed" => ~dryDuck

\* The dry signal that covers a forced duck keeps the latency of the sounds on
\* both sides of the bottom.
THEOREM DryPathStaysAligned == Spec => []DryPathAligned
<1>1. Init => DryInv
  BY DEF Init, DryInv, DryPathAligned
<1>2. ASSUME IInv, DryInv, [Next]_vars PROVE DryInv'
  <2> USE <1>2 DEF DryInv, DryPathAligned
  <2>1. CASE MessageThread \/ \E x \in Params : EditParam(x)
    <3>1. UNCHANGED <<duckVars, readVars>>
      BY <2>1 DEF MessageThread, BeginSwap, BeginAbSwitch, JoinSwap, EndSwap,
         WriteParam, ForgetMemory, EditParam
    <3>2. QED
      BY <3>1 DEF duckVars, readVars, Latency
  <2>2. CASE AcquireBefore \/ AcquireAfter \/ RejectSnapshot
             \/ \E x \in Params : ReadParam(x)
    <3>1. UNCHANGED duckVars /\ pc # "primed"
      BY <2>2 DEF AcquireBefore, AcquireAfter, ReadParam, RejectSnapshot, AtAdopt
    <3>2. QED
      BY <3>1 DEF duckVars, Latency
  <2>3. ASSUME AtAdopt, LatencyParam \in Held, p' = CopyContinuous(p, np)
        PROVE  Latency(p') = Latency(p)
    BY <2>3, ParamsAssumption DEF CopyContinuous, Latency
  <2>4. LatencyParam \in Held
    BY ParamsAssumption
  <2>5. CASE StartForcedDuck \/ ReduckForced
    BY <2>5 DEF StartForcedDuck, ReduckForced, BeginForcedDuck, Latency
  <2>6. CASE StartOrdinaryDuck \/ ReduckOrdinary
    BY <2>6 DEF StartOrdinaryDuck, ReduckOrdinary
  <2>7. CASE ApplyLive
    BY <2>7 DEF ApplyLive, AtAdopt
  <2>8. CASE RetargetForced \/ UpgradeToForced
    BY <2>8 DEF RetargetForced, UpgradeToForced, Retargets, AtAdopt, Latency
  <2>9. CASE RetargetOrdinary
    <3>1. Latency(p') = Latency(p)
      BY <2>3, <2>4, <2>9 DEF RetargetOrdinary, Retargets
    <3>2. QED
      BY <2>9, <3>1 DEF RetargetOrdinary, Retargets, AtAdopt, Latency
  <2>10. CASE Prime
    BY <2>10 DEF Prime
  <2>11. CASE Prepare \/ HostReset
    BY <2>11 DEF Prepare, HostReset, LandDuck
  <2>12. CASE Bottom
    BY <2>12 DEF Bottom, Latency
  <2>13. CASE FinishFadeIn
    BY <2>13 DEF FinishFadeIn
  <2>14. CASE Advance
    BY <2>14 DEF Advance, Latency
  <2>15. CASE UNCHANGED vars
    BY <2>15 DEF vars, duckVars, readVars, Latency
  <2>16. QED
    BY <2>1, <2>2, <2>5, <2>6, <2>7, <2>8, <2>9, <2>10, <2>11, <2>12, <2>13,
       <2>14, <2>15 DEF Next, AudioSide, Adopt, Process
<1>3. DryInv => DryPathAligned
  BY DEF DryInv
<1>4. QED
  BY <1>1, <1>2, <1>3, IInvInit, Invariance, PTL DEF Spec

-----------------------------------------------------------------------------
(* The record a switch restores.                                            *)

\* A sound is of the slot whose sound its newest swap installed.
IsNewest(s, k)    == (\E x \in Params : s[x].swap = k) /\ \A x \in Params : s[x].swap <= k
Shows(n, f, s, t) == \E k \in 0..n : IsNewest(s, k) /\ f[k] = t
OfSlot(s, t)      == Shows(swap, slotOf, s, t)

\* The slot that was shown before the switches which wait in the word, and the one
\* before those that are taken and not yet started.
Near == IF word.ab THEN word.from ELSE abActive
From == IF stash.on /\ ~word.forget THEN stash.from ELSE Near

\* A swap that moved nothing left the slot as it was.
SlotInv ==
  /\ slotOf[swap] = abActive
  /\ \A j \in 0..swap, k \in 0..swap :
       j <= k /\ (\A i \in (j + 1)..k : changed[i] = {}) => slotOf[j] = slotOf[k]
  /\ \E k \in 0..swap : IsNewest(live, k)

\* What is headed for is of the slot which the switches to come leave, what was read of
\* the one they lead to. A record that waits to be restored is the target's, and each
\* other was taken of its own slot's sound. What a session restore is about to forget
\* says nothing.
MatchInv ==
  /\ OfSlot(Target, From)
  /\ word.forget \/ abRestoreSlot = None => OfSlot(p, From)
  /\ \E k \in 0..swap : IsNewest(p, k)
  /\ pc = "adopt" /\ clear => OfSlot(np, Near)
  /\ word.ab => word.to = abActive /\ word.seq # 0
  /\ ~word.forget /\ stash.on => stash.to = Near
  /\ ~word.forget /\ abRestoreSlot # None => abRestoreSlot = From
  /\ ~word.forget => \A t \in Slots : abMemory[t] # NoRecord => OfSlot(abMemory[t], t)

\* The newest swap of a sound is the one number that is as great as each of its.
LEMMA NewestIs ==
  ASSUME TypeOK, NEW s, NEW t, OfSlot(s, t)
  PROVE  slotOf[Newest(s)] = t
<1>1. PICK k \in 0..swap : IsNewest(s, k) /\ slotOf[k] = t
  BY DEF OfSlot, Shows
<1>2. k \in 0..MaxSwaps
  BY <1>1, BoundsAssumption DEF TypeOK, MessageTypeOK
<1>3. PICK n : n = Newest(s)
  OBVIOUS
<1>4. n \in 0..MaxSwaps /\ (\E x \in Params : s[x].swap = n) /\ \A x \in Params : s[x].swap <= n
  BY <1>1, <1>2, <1>3 DEF Newest, IsNewest
<1>5. n <= k /\ k <= n
  BY <1>1, <1>4 DEF IsNewest
<1>6. n = k
  BY <1>2, <1>4, <1>5
<1> QED
  BY <1>1, <1>3, <1>6

LEMMA SameShows ==
  ASSUME NEW n, NEW f, NEW a, NEW b, NEW t, SameSwaps(a, b)
  PROVE  Shows(n, f, a, t) <=> Shows(n, f, b, t)
<1>1. \A k : IsNewest(a, k) <=> IsNewest(b, k)
  BY DEF SameSwaps, IsNewest
<1> QED
  BY <1>1 DEF Shows

\* With no swap open, the parameters are of the slot that is shown.
LEMMA LiveOfSlot ==
  ASSUME TypeOK, RequestInv, StoreInv, SlotInv, bulkDepth = 0
  PROVE  OfSlot(live, abActive)
<1>1. PICK n \in 0..swap : IsNewest(live, n)
  BY DEF SlotInv
<1>2. swap \in Nat /\ swap <= MaxSwaps /\ changed \in [1..MaxSwaps -> SUBSET Params] /\ live \in Sound
  BY BoundsAssumption DEF TypeOK, MessageTypeOK
<1>3. ASSUME NEW i \in (n + 1)..swap PROVE changed[i] = {}
  <2>1. i \in 1..swap /\ i > n /\ i \in 1..MaxSwaps
    BY <1>2, BoundsAssumption
  <2>2. changed[i] \subseteq Params
    BY <1>2, <2>1
  <2>3. ASSUME NEW y \in changed[i] PROVE FALSE
    <3>1. live[y].swap >= i
      BY <2>1, <2>3 DEF StoreInv, RequestInv
    <3>2. live[y].swap <= n /\ live[y].swap \in Nat
      BY <1>1, <1>2, <2>2, <2>3, BoundsAssumption DEF IsNewest, Sound, Value
    <3> QED
      BY <2>1, <3>1, <3>2
  <2> QED
    BY <2>3
<1>4. slotOf[n] = slotOf[swap]
  <2>1. swap \in 0..swap /\ n <= swap
    BY <1>1, <1>2
  <2> QED
    BY <1>3, <2>1 DEF SlotInv
<1> QED
  BY <1>1, <1>4 DEF SlotInv, OfSlot, Shows

\* A new swap leaves what each older sound is of.
LEMMA ShowsGrows ==
  ASSUME TypeOK, NEW C, NEW b, OpenSwap(C, b), NEW s, NEW t, OfSlot(s, t)
  PROVE  Shows(swap', slotOf', s, t)
<1>1. PICK k \in 0..swap : IsNewest(s, k) /\ slotOf[k] = t
  BY DEF OfSlot, Shows
<1>2. swap \in Nat /\ swap' = swap + 1 /\ swap < MaxSwaps /\ slotOf' = [slotOf EXCEPT ![swap + 1] = b]
  BY DEF OpenSwap, TypeOK, MessageTypeOK
<1>3. k \in 0..swap' /\ k # swap + 1 /\ k \in 0..MaxSwaps /\ DOMAIN slotOf = 0..MaxSwaps
  BY <1>2, BoundsAssumption DEF TypeOK, MessageTypeOK
<1>4. slotOf'[k] = slotOf[k]
  BY <1>2, <1>3
<1> QED
  BY <1>1, <1>3, <1>4 DEF Shows

LEMMA OpenKeepsSlots ==
  ASSUME TypeOK, SlotInv, NEW C \in SUBSET Params, NEW b \in Slots, OpenSwap(C, b), UNCHANGED live,
         C = {} => b = abActive
  PROVE  SlotInv'
<1>1. swap \in Nat /\ swap' = swap + 1 /\ swap' \in 1..MaxSwaps /\ abActive' = b
  BY BoundsAssumption DEF OpenSwap, TypeOK, MessageTypeOK
<1>2. /\ slotOf' = [slotOf EXCEPT ![swap + 1] = b] /\ DOMAIN slotOf = 0..MaxSwaps
      /\ changed' = [changed EXCEPT ![swap + 1] = C] /\ DOMAIN changed = 1..MaxSwaps
  BY DEF OpenSwap, TypeOK, MessageTypeOK
<1>3. slotOf'[swap'] = b /\ changed'[swap'] = C
  BY <1>1, <1>2, BoundsAssumption
<1>4. /\ \A k \in 0..swap : slotOf'[k] = slotOf[k]
      /\ \A k \in 1..swap : changed'[k] = changed[k]
  BY <1>1, <1>2, BoundsAssumption
<1>5. ASSUME NEW j \in 0..swap', NEW k \in 0..swap', j <= k, \A i \in (j + 1)..k : changed'[i] = {}
      PROVE  slotOf'[j] = slotOf'[k]
  <2>1. CASE j = k
    BY <2>1
  <2>2. CASE j < k /\ k <= swap
    <3>1. j \in 0..swap /\ k \in 0..swap
      BY <1>1, <2>2
    <3>2. ASSUME NEW i \in (j + 1)..k PROVE changed[i] = {}
      <4>1. i \in 1..swap
        BY <1>1, <3>1
      <4> QED
        BY <1>4, <1>5, <4>1
    <3>3. slotOf[j] = slotOf[k]
      BY <1>5, <3>1, <3>2 DEF SlotInv
    <3> QED
      BY <1>4, <3>1, <3>3
  <2>3. CASE j < k /\ k = swap + 1
    <3>1. j \in 0..swap /\ swap \in 0..swap /\ j <= swap
      BY <1>1, <2>3
    <3>2. ASSUME NEW i \in (j + 1)..swap PROVE changed[i] = {}
      <4>1. i \in 1..swap /\ i \in (j + 1)..k
        BY <1>1, <2>3, <3>1
      <4> QED
        BY <1>4, <1>5, <4>1
    <3>3. slotOf[j] = slotOf[swap]
      BY <3>1, <3>2 DEF SlotInv
    <3>4. k \in (j + 1)..k
      BY <2>3
    <3>5. C = {}
      BY <1>1, <1>3, <1>5, <2>3, <3>4
    <3> QED
      BY <1>1, <1>3, <1>4, <2>3, <3>1, <3>3, <3>5 DEF SlotInv
  <2> QED
    BY <1>1, <1>5, <2>1, <2>2, <2>3
<1>6. \E k \in 0..swap' : IsNewest(live', k)
  <2>1. PICK k \in 0..swap : IsNewest(live, k)
    BY DEF SlotInv
  <2>2. k \in 0..swap'
    BY <1>1
  <2> QED
    BY <2>1, <2>2
<1> QED
  BY <1>1, <1>3, <1>5, <1>6 DEF SlotInv, IsNewest

LEMMA SlotInvariance ==
  ASSUME IInv, SlotInv, [Next]_vars
  PROVE  SlotInv'
<1>t. TypeOK
  BY DEF IInv
<1>s. swap \in Nat /\ swap <= MaxSwaps /\ abActive \in Slots
  BY <1>t, BoundsAssumption DEF TypeOK, MessageTypeOK
<1>l. ASSUME UNCHANGED <<swap, changed, slotOf, abActive>>, SameSwaps(live, live') PROVE SlotInv'
  <2>1. \A k : IsNewest(live, k) <=> IsNewest(live', k)
    BY <1>l DEF SameSwaps, IsNewest
  <2>2. \E k \in 0..swap : IsNewest(live', k)
    BY <2>1 DEF SlotInv
  <2> QED
    BY <1>l, <2>2 DEF SlotInv, IsNewest
<1>k. ASSUME UNCHANGED <<live, swap, changed, slotOf, abActive>> PROVE SlotInv'
  BY <1>k, <1>l DEF SameSwaps
<1>1. CASE BeginSwap
  <2>1. PICK C \in SUBSET Params : OpenSwap(C, abActive)
    BY <1>1 DEF BeginSwap
  <2> QED
    BY <1>1, <1>s, <1>t, <2>1, OpenKeepsSlots DEF BeginSwap
<1>2. CASE BeginAbSwitch
  <2>1. PICK C \in (SUBSET Params) \ {{}} : OpenSwap(C, 1 - abActive)
    BY <1>2 DEF BeginAbSwitch
  <2>2. PICK b \in Slots : b = 1 - abActive
    BY <1>s DEF Slots
  <2>3. OpenSwap(C, b)
    BY <2>1, <2>2 DEF OpenSwap
  <2>4. C \in SUBSET Params /\ C # {}
    BY <2>1
  <2>5. UNCHANGED live
    BY <1>2 DEF BeginAbSwitch
  <2> QED
    BY <1>t, <2>2, <2>3, <2>4, <2>5, OpenKeepsSlots
<1>3. CASE JoinSwap
  <2>1. PICK C \in SUBSET Params : changed' = [changed EXCEPT ![swap] = @ \cup C]
    BY <1>3 DEF JoinSwap
  <2>2. DOMAIN changed = 1..MaxSwaps
    BY <1>t DEF TypeOK, MessageTypeOK
  <2>3. \A i \in 1..swap : changed'[i] = {} => changed[i] = {}
    BY <1>s, <2>1, <2>2, BoundsAssumption
  <2>4. ASSUME NEW j \in 0..swap, NEW k \in 0..swap, j <= k, \A i \in (j + 1)..k : changed'[i] = {}
        PROVE  slotOf[j] = slotOf[k]
    <3>1. ASSUME NEW i \in (j + 1)..k PROVE changed[i] = {}
      <4>1. i \in 1..swap
        BY <1>s
      <4> QED
        BY <2>3, <2>4, <4>1
    <3> QED
      BY <2>4, <3>1 DEF SlotInv
  <2>5. UNCHANGED <<live, swap, slotOf, abActive>>
    BY <1>3 DEF JoinSwap
  <2> QED
    BY <2>4, <2>5 DEF SlotInv, IsNewest
<1>4. CASE \E x \in Params : WriteParam(x)
  <2>1. PICK x \in Params : WriteParam(x)
    BY <1>4
  <2>2. PICK v \in Payloads : live' = [live EXCEPT ![x] = [swap |-> swap, payload |-> v]]
    BY <2>1 DEF WriteParam
  <2>3. live'[x].swap = swap /\ \A y \in Params : live'[y].swap <= swap
    BY <1>s, <1>t, <2>2 DEF IInv, StoreInv, TypeOK, MessageTypeOK, Sound
  <2>4. IsNewest(live', swap) /\ swap \in 0..swap
    BY <1>s, <2>3 DEF IsNewest
  <2>5. UNCHANGED <<swap, changed, slotOf, abActive>>
    BY <2>1 DEF WriteParam
  <2> QED
    BY <2>4, <2>5 DEF SlotInv, IsNewest
<1>5. CASE \E t \in Slots : ForgetMemory(t)
  <2>1. PICK t \in Slots : ForgetMemory(t)
    BY <1>5
  <2>2. \A k \in 0..swap : slotOf'[k] = t
    BY <1>s, <2>1, BoundsAssumption DEF ForgetMemory
  <2>3. UNCHANGED <<live, swap, changed>> /\ abActive' = t /\ swap \in 0..swap
    BY <1>s, <2>1 DEF ForgetMemory
  <2> QED
    BY <2>2, <2>3 DEF SlotInv, IsNewest
<1>6. CASE \E x \in Params : EditParam(x)
  <2>1. PICK x \in Params, v \in Payloads : live' = [live EXCEPT ![x].payload = v]
    BY <1>6 DEF EditParam
  <2>2. live \in Sound
    BY <1>t DEF TypeOK, MessageTypeOK
  <2>3. SameSwaps(live, live')
    BY <2>1, <2>2 DEF SameSwaps, Sound, Value
  <2> QED
    BY <1>6, <1>l, <2>3 DEF EditParam
<1>7. CASE EndSwap \/ AudioSide \/ UNCHANGED vars
  <2>1. UNCHANGED <<live, swap, changed, slotOf, abActive>>
    BY <1>7 DEF EndSwap, AudioSide, AcquireBefore, ReadParam, AcquireAfter, Adopt, RejectSnapshot,
       StartForcedDuck, StartOrdinaryDuck, ApplyLive, ReduckForced, ReduckOrdinary, RetargetForced,
       UpgradeToForced, RetargetOrdinary, AfterAdopt, Prime, Prepare, HostReset, Process, Bottom,
       FinishFadeIn, Advance, ProcessTail, messageVars, vars
  <2> QED
    BY <1>k, <2>1
<1> QED
  BY <1>1, <1>2, <1>3, <1>4, <1>5, <1>6, <1>7 DEF Next, MessageThread

\* What the slots of sounds, the request word and the read leave alone.
LEMMA MatchKept ==
  ASSUME MatchInv, UNCHANGED <<stash, abRestoreSlot, abMemory, p, pendingP, switchState>>,
         \A s, t : OfSlot(s, t) => Shows(swap', slotOf', s, t),
         Near' = Near, word'.forget = word.forget, word'.ab => word'.to = abActive' /\ word'.seq # 0,
         pc' = "adopt" => pc = "adopt" /\ UNCHANGED <<clear, np>>
  PROVE  MatchInv'
<1>1. From' = From /\ Target' = Target
  BY DEF From, Target
<1>2. OfSlot(Target, From) => OfSlot(Target, From)'
  BY <1>1 DEF OfSlot
<1>3. (word.forget \/ abRestoreSlot = None => OfSlot(p, From))'
  BY <1>1 DEF OfSlot, MatchInv
<1>4. (pc = "adopt" /\ clear => OfSlot(np, Near))'
  BY DEF OfSlot, MatchInv
<1>5. (~word.forget => \A t \in Slots : abMemory[t] # NoRecord => OfSlot(abMemory[t], t))'
  BY DEF OfSlot, MatchInv
<1>6. (\E k \in 0..swap : IsNewest(p, k))'
  BY DEF OfSlot, Shows, MatchInv
<1> QED
  BY <1>1, <1>2, <1>3, <1>4, <1>5, <1>6 DEF MatchInv

\* A word that is taken is in the stash: what is headed for is of the same slot as before,
\* and no switch is left between what is shown and what was taken.
LEMMA MatchTaken ==
  ASSUME TypeOK, MatchInv, TakeRequestWord, UNCHANGED <<messageVars, duckVars>>
  PROVE  /\ Near' = abActive /\ From' = From
         /\ pc' # "adopt" \/ (clear' => OfSlot(np', abActive)) => MatchInv'
<1>1. /\ word' = NoRequest /\ ~word'.ab /\ ~word'.forget
      /\ stash' = IF word.ab THEN TakenSwitch ELSE KeptStash
      /\ abMemory' = IF word.forget THEN [t \in Slots |-> NoRecord] ELSE abMemory
      /\ abRestoreSlot' = IF word.forget THEN None ELSE abRestoreSlot
  BY DEF TakeRequestWord, NoRequest
<1>2. UNCHANGED <<swap, slotOf, abActive, p, pendingP, switchState>> /\ Target' = Target
  BY DEF messageVars, duckVars, Target
<1>3. Near' = abActive
  BY <1>1, <1>2 DEF Near
<1>4. /\ stash'.on <=> word.ab \/ KeptStash.on
      /\ stash'.on => stash'.from = IF KeptStash.on THEN KeptStash.from ELSE word.from
      /\ stash'.on => stash'.to = IF word.ab THEN word.to ELSE KeptStash.to
  <2>1. CASE word.ab
    BY <1>1, <2>1 DEF TakenSwitch
  <2>2. CASE ~word.ab
    BY <1>1, <2>2
  <2> QED
    BY <2>1, <2>2
<1>5. /\ word.forget => ~KeptStash.on
      /\ ~word.forget => KeptStash = stash
  BY DEF KeptStash, NoStash
<1>6. From' = From
  <2>1. From' = IF stash'.on THEN stash'.from ELSE abActive
    BY <1>1, <1>3 DEF From
  <2>2. CASE word.forget
    BY <1>4, <1>5, <2>1, <2>2 DEF From, Near
  <2>3. CASE ~word.forget
    BY <1>4, <1>5, <2>1, <2>3 DEF From, Near
  <2> QED
    BY <2>2, <2>3
<1>7. ASSUME pc' # "adopt" \/ (clear' => OfSlot(np', abActive)) PROVE MatchInv'
  <2>1. OfSlot(Target, From)' /\ (word.forget \/ abRestoreSlot = None => OfSlot(p, From))'
    BY <1>1, <1>2, <1>6 DEF MatchInv, OfSlot
  <2>2. (pc = "adopt" /\ clear => OfSlot(np, Near))'
    BY <1>2, <1>3, <1>7 DEF OfSlot
  <2>3. (word.ab => word.to = abActive /\ word.seq # 0)'
    BY <1>1
  <2>4. (~word.forget /\ stash.on => stash.to = Near)'
    BY <1>3, <1>4, <1>5 DEF MatchInv, Near
  <2>5. (~word.forget /\ abRestoreSlot # None => abRestoreSlot = From)'
    BY <1>1, <1>6 DEF MatchInv
  <2>6. (~word.forget => \A t \in Slots : abMemory[t] # NoRecord => OfSlot(abMemory[t], t))'
    <3>1. CASE word.forget
      BY <1>1, <3>1
    <3>2. CASE ~word.forget
      BY <1>1, <1>2, <3>2 DEF MatchInv, OfSlot
    <3> QED
      BY <3>1, <3>2
  <2>7. (\E k \in 0..swap : IsNewest(p, k))'
    BY <1>2 DEF OfSlot, Shows, MatchInv
  <2> QED
    BY <2>1, <2>2, <2>3, <2>4, <2>5, <2>6, <2>7 DEF MatchInv
<1> QED
  BY <1>3, <1>6, <1>7

\* What was taken is started: what is headed for is what was read, of the slot the
\* switch leads to; the record is taken of the sound it leaves.
LEMMA MatchStarted ==
  ASSUME TypeOK, ReadInv, MatchInv, pc = "adopt", clear, StartTakenRequests,
         UNCHANGED <<word, messageVars>>, pc' # "adopt", SameSwaps(np, Target'),
         p' = p \/ SameSwaps(np, p')
  PROVE  MatchInv'
<1>1. UNCHANGED <<swap, slotOf, abActive, word>> /\ Near' = Near
  BY DEF messageVars, Near
<1> DEFINE switching == startPending /\ stash.on
<1>2. /\ stash' = IF startPending THEN NoStash ELSE stash
      /\ abRestoreSlot' = IF switching THEN stash.to ELSE abRestoreSlot
      /\ abMemory' = IF switching /\ stash.record /\ abRestoreSlot = None
                       THEN [abMemory EXCEPT ![stash.from] = p] ELSE abMemory
  BY DEF StartTakenRequests
<1>3. startPending \in BOOLEAN /\ stash.on \in BOOLEAN /\ stash.to # None /\ stash.from \in Slots
  BY DEF TypeOK, RequestTypeOK, Stash, None, Slots
<1>4. From' = IF startPending THEN Near ELSE From
  BY <1>1, <1>2 DEF From, NoStash
<1>5. OfSlot(np, Near)
  BY DEF MatchInv
<1>6. OfSlot(np, From')
  <2>1. PICK n, f, t : n = swap /\ f = slotOf /\ t = From
    OBVIOUS
  <2>2. CASE startPending
    BY <1>4, <1>5, <2>2
  <2>3. CASE ~startPending
    <3>1. SameSwaps(np, Target) /\ OfSlot(Target, From)
      BY <2>3 DEF ReadInv, MatchInv
    <3>2. OfSlot(np, From)
      <4>1. PICK a, b : a = np /\ b = Target
        OBVIOUS
      <4> QED
        BY <2>1, <3>1, <4>1, SameShows DEF OfSlot
    <3> QED
      BY <1>4, <2>3, <3>2
  <2> QED
    BY <1>3, <2>2, <2>3
<1>7. \A b : SameSwaps(np, b) => Shows(swap, slotOf, b, From')
  <2>1. PICK n, f, t, a : n = swap /\ f = slotOf /\ t = From' /\ a = np
    OBVIOUS
  <2> QED
    BY <1>6, <2>1, SameShows DEF OfSlot
<1>8. OfSlot(Target, From)'
  BY <1>1, <1>7 DEF OfSlot
<1>9. word.forget => From = Near
  BY DEF From
<1>10. ~stash.on => From = Near
  BY DEF From
<1>11. (word.forget \/ abRestoreSlot = None => OfSlot(p, From))'
  <2>1. CASE SameSwaps(np, p')
    BY <1>1, <1>7, <2>1 DEF OfSlot
  <2>2. CASE p' = p /\ word.forget
    <3>1. OfSlot(p, From) /\ From' = From
      BY <1>4, <1>9, <2>2 DEF MatchInv
    <3> QED
      BY <1>1, <2>2, <3>1 DEF OfSlot
  <2>3. CASE p' = p /\ ~word.forget /\ abRestoreSlot' = None
    <3>1. ~switching /\ abRestoreSlot = None
      BY <1>2, <1>3, <2>3
    <3>2. OfSlot(p, From) /\ From' = From
      BY <1>3, <1>4, <1>10, <3>1 DEF MatchInv
    <3> QED
      BY <1>1, <2>3, <3>2 DEF OfSlot
  <2> QED
    BY <1>1, <2>1, <2>2, <2>3
<1>12. (pc = "adopt" /\ clear => OfSlot(np, Near))'
  OBVIOUS
<1>13. (word.ab => word.to = abActive /\ word.seq # 0)'
  BY <1>1 DEF MatchInv
<1>14. (~word.forget /\ stash.on => stash.to = Near)'
  BY <1>1, <1>2 DEF MatchInv, NoStash
<1>15. (~word.forget /\ abRestoreSlot # None => abRestoreSlot = From)'
  <2>1. CASE switching
    BY <1>1, <1>2, <1>4, <2>1 DEF MatchInv
  <2>2. CASE ~switching
    BY <1>1, <1>2, <1>3, <1>4, <1>10, <2>2 DEF MatchInv
  <2> QED
    BY <2>1, <2>2
<1>16. (~word.forget => \A t \in Slots : abMemory[t] # NoRecord => OfSlot(abMemory[t], t))'
  <2>1. SUFFICES ASSUME ~word.forget, NEW t \in Slots, abMemory'[t] # NoRecord
                 PROVE  OfSlot(abMemory'[t], t)
    BY <1>1 DEF OfSlot
  <2>2. abMemory[t] # NoRecord => OfSlot(abMemory[t], t)
    BY <2>1 DEF MatchInv
  <2>3. CASE switching /\ stash.record /\ abRestoreSlot = None /\ t = stash.from
    <3>1. From = t /\ OfSlot(p, From)
      BY <2>1, <2>3 DEF From, MatchInv
    <3>2. abMemory'[t] = p
      BY <1>2, <2>3 DEF TypeOK, RequestTypeOK
    <3> QED
      BY <3>1, <3>2
  <2>4. CASE ~(switching /\ stash.record /\ abRestoreSlot = None /\ t = stash.from)
    <3>1. abMemory'[t] = abMemory[t]
      BY <1>2, <2>4 DEF TypeOK, RequestTypeOK
    <3> QED
      BY <2>1, <2>2, <3>1
  <2> QED
    BY <2>3, <2>4
<1>17. (\E k \in 0..swap : IsNewest(p, k))'
  BY <1>1, <1>7 DEF OfSlot, Shows, MatchInv
<1> QED
  BY <1>8, <1>11, <1>12, <1>13, <1>14, <1>15, <1>16, <1>17 DEF MatchInv

\* A duck that lands or moves on: what it headed for stays what is headed for, and a
\* record is restored only where the engine plays it.
LEMMA MatchMoves ==
  ASSUME MatchInv, UNCHANGED <<word, messageVars, stash, abMemory>>, pc' # "adopt",
         SameSwaps(Target, Target'), abRestoreSlot' \in {abRestoreSlot, None},
         (p' = p /\ abRestoreSlot' = abRestoreSlot) \/ SameSwaps(Target, p')
  PROVE  MatchInv'
<1>1. UNCHANGED <<swap, slotOf, abActive>> /\ Near' = Near /\ From' = From
  BY DEF messageVars, Near, From
<1>2. \A b : SameSwaps(Target, b) => Shows(swap, slotOf, b, From)
  <2>1. PICK n, f, t, a : n = swap /\ f = slotOf /\ t = From /\ a = Target
    OBVIOUS
  <2>2. Shows(n, f, a, t)
    BY <2>1 DEF MatchInv, OfSlot
  <2> QED
    BY <2>1, <2>2, SameShows
<1>3. OfSlot(Target, From)'
  BY <1>1, <1>2 DEF OfSlot
<1>4. (word.forget \/ abRestoreSlot = None => OfSlot(p, From))'
  BY <1>1, <1>2 DEF OfSlot, MatchInv
<1>5. (~word.forget => \A t \in Slots : abMemory[t] # NoRecord => OfSlot(abMemory[t], t))'
  BY <1>1 DEF OfSlot, MatchInv
<1>6. (~word.forget /\ abRestoreSlot # None => abRestoreSlot = From)'
  BY <1>1 DEF MatchInv
<1>7. (~word.forget /\ stash.on => stash.to = Near)' /\ (word.ab => word.to = abActive /\ word.seq # 0)'
  BY <1>1 DEF MatchInv
<1>8. (\E k \in 0..swap : IsNewest(p, k))'
  BY <1>1, <1>2 DEF OfSlot, Shows, MatchInv
<1> QED
  BY <1>3, <1>4, <1>5, <1>6, <1>7, <1>8 DEF MatchInv

LEMMA MatchInvariance ==
  ASSUME IInv, SlotInv, MatchInv, [Next]_vars
  PROVE  MatchInv'
<1> USE DEF IInv
<1>t. word \in Word /\ bulkSeq \in Nat /\ SeqCount \in Nat /\ abActive \in Slots /\ swap \in 0..MaxSwaps
  BY BoundsAssumption DEF TypeOK, RequestTypeOK, MessageTypeOK
<1>u. ASSUME UNCHANGED <<swap, slotOf>> PROVE \A s, t : OfSlot(s, t) => Shows(swap', slotOf', s, t)
  BY <1>u DEF OfSlot
<1>n. ASSUME UNCHANGED <<abActive>>, word'.ab = word.ab, word'.from = word.from PROVE Near' = Near
  BY <1>n DEF Near
<1>w. (word.ab => word.to = abActive) /\ (word.ab => word.seq # 0)
  BY DEF MatchInv
<1>p. switchState # "FadeOut" \/ ~pendingForced => SameSwaps(Target, p)
  <2>1. \A a : SameSwaps(a, a)
    BY DEF SameSwaps
  <2>2. SameSwaps(p, pendingP) => SameSwaps(pendingP, p)
    BY DEF SameSwaps
  <2> QED
    BY <2>1, <2>2 DEF DuckInv, Target
<1>1. CASE BeginSwap
  <2>1. PICK C \in SUBSET Params : OpenSwap(C, abActive)
    BY <1>1 DEF BeginSwap
  <2>2. \A s, t : OfSlot(s, t) => Shows(swap', slotOf', s, t)
    BY <2>1, ShowsGrows
  <2>3. word' = [word EXCEPT !.seq = NextSeq] /\ NextSeq # 0 /\ abActive' = abActive
    BY <1>1, <2>1, NextSeqRange DEF BeginSwap, OpenSwap, RequestDuck, TypeOK, MessageTypeOK
  <2>4. word'.ab = word.ab /\ word'.from = word.from /\ word'.to = word.to /\ word'.seq # 0
        /\ word'.forget = word.forget
    BY <1>t, <2>3 DEF Word
  <2>5. UNCHANGED <<requestVars, readVars, duckVars>>
    BY <1>1 DEF BeginSwap
  <2> QED
    BY <1>n, <1>w, <2>2, <2>3, <2>4, <2>5, MatchKept DEF requestVars, readVars, duckVars
<1>2. CASE BeginAbSwitch
  <2>1. PICK C \in (SUBSET Params) \ {{}} : OpenSwap(C, 1 - abActive)
    BY <1>2 DEF BeginAbSwitch
  <2>2. PICK b \in Slots : b = 1 - abActive
    BY <1>t DEF Slots
  <2>3. OpenSwap(C, b)
    BY <2>1, <2>2 DEF OpenSwap
  <2>4. \A s, t : OfSlot(s, t) => Shows(swap', slotOf', s, t)
    BY <2>3, ShowsGrows
  <2>5. /\ word' = [word EXCEPT !.ab = TRUE, !.from = IF word.ab THEN word.from ELSE abActive,
                                !.to = b, !.seq = NextSeq]
        /\ NextSeq # 0 /\ abActive' = b
    BY <1>2, <2>2, <2>3, NextSeqRange DEF BeginAbSwitch, OpenSwap, RequestAbSwitch, TypeOK, MessageTypeOK
  <2>6. word'.ab /\ word'.from = Near /\ word'.to = b /\ word'.seq # 0 /\ word'.forget = word.forget
    BY <1>t, <2>5 DEF Word, Near
  <2>7. UNCHANGED <<requestVars, readVars, duckVars>> /\ Near' = Near
    BY <1>2, <2>6 DEF BeginAbSwitch, Near
  <2> QED
    BY <2>4, <2>5, <2>6, <2>7, MatchKept DEF requestVars, readVars, duckVars
<1>3. CASE JoinSwap
  <2>1. word' = [word EXCEPT !.seq = bulkSeq] /\ bulkSeq # 0
    BY <1>3 DEF JoinSwap, RequestDuck, RequestInv
  <2>2. word'.ab = word.ab /\ word'.from = word.from /\ word'.to = word.to /\ word'.seq # 0
        /\ word'.forget = word.forget
    BY <1>t, <2>1 DEF Word
  <2>3. UNCHANGED <<swap, slotOf, abActive, requestVars, readVars, duckVars>>
    BY <1>3 DEF JoinSwap
  <2> QED
    BY <1>n, <1>u, <1>w, <2>2, <2>3, MatchKept DEF requestVars, readVars, duckVars
<1>4. CASE EndSwap
  <2>1. word' = IF bulkDepth = 1 THEN [word EXCEPT !.done = bulkSeq] ELSE word
    BY <1>4 DEF EndSwap, CompleteBulkApply
  <2>2. word'.ab = word.ab /\ word'.from = word.from /\ word'.to = word.to /\ word'.seq = word.seq
        /\ word'.forget = word.forget
    BY <1>t, <2>1 DEF Word
  <2>3. UNCHANGED <<swap, slotOf, abActive, requestVars, readVars, duckVars>>
    BY <1>4 DEF EndSwap
  <2> QED
    BY <1>n, <1>u, <1>w, <2>2, <2>3, MatchKept DEF requestVars, readVars, duckVars
<1>5. CASE (\E x \in Params : WriteParam(x)) \/ (\E x \in Params : EditParam(x)) \/ UNCHANGED vars
           \/ \E x \in Params : ReadParam(x)
  <2>1. UNCHANGED <<swap, slotOf, abActive, word, requestVars, duckVars>>
    BY <1>5 DEF WriteParam, EditParam, ReadParam, messageVars, vars
  <2>2. pc' = "adopt" => pc = "adopt" /\ UNCHANGED <<clear, np>>
    BY <1>5 DEF WriteParam, EditParam, ReadParam, readVars, vars
  <2> QED
    BY <1>n, <1>u, <1>w, <2>1, <2>2, MatchKept DEF requestVars, duckVars
<1>6. CASE \E t \in Slots : ForgetMemory(t)
  <2>1. PICK t \in Slots : ForgetMemory(t)
    BY <1>6
  <2>2. /\ UNCHANGED <<swap, requestVars, readVars, duckVars>> /\ abActive' = t
        /\ ~word'.ab /\ word'.forget /\ \A k \in 0..swap : slotOf'[k] = t
    BY <1>t, <2>1, BoundsAssumption DEF ForgetMemory, ForgetAbMatchMemory
  <2>3. Near' = t /\ From' = t /\ Target' = Target
    BY <2>2 DEF Near, From, Target, duckVars
  <2>4. \A s, u : OfSlot(s, u) => Shows(swap', slotOf', s, t)
    BY <2>2 DEF OfSlot, Shows
  <2>5. Shows(swap', slotOf', Target, t)
    BY <2>4 DEF MatchInv
  <2>6. Shows(swap', slotOf', p, t)
    BY <2>2 DEF MatchInv, Shows
  <2>7. pc = "adopt" /\ clear => Shows(swap', slotOf', np, t)
    BY <2>4 DEF MatchInv
  <2> QED
    BY <2>2, <2>3, <2>5, <2>6, <2>7 DEF MatchInv, OfSlot, requestVars, readVars, duckVars
<1>7. CASE AcquireBefore
  BY <1>7, MatchTaken DEF AcquireBefore
<1>8. CASE AcquireAfter
  <2>1. ASSUME clear' PROVE OfSlot(np', abActive)
    <3>1. clear /\ word.seq = 0 /\ pc = "reading" /\ unread = {} /\ np' = np
      BY <1>8, <2>1 DEF AcquireAfter
    <3>2. bulkDepth = 0 /\ SameSwaps(np, live)
      BY <3>1 DEF ReadInv, SameSwaps
    <3>3. OfSlot(live, abActive)
      BY <3>2, LiveOfSlot
    <3>4. PICK n, f, t, a, b : n = swap /\ f = slotOf /\ t = abActive /\ a = np /\ b = live
      OBVIOUS
    <3> QED
      BY <3>1, <3>2, <3>3, <3>4, SameShows DEF OfSlot
  <2> QED
    BY <1>8, <2>1, MatchTaken DEF AcquireAfter
<1>9. CASE RejectSnapshot
  <2>1. UNCHANGED <<swap, slotOf, abActive, word, requestVars, duckVars>> /\ pc' # "adopt"
    BY <1>9 DEF RejectSnapshot, AfterAdopt, messageVars
  <2> QED
    BY <1>n, <1>u, <1>w, <2>1, MatchKept DEF requestVars, duckVars
<1>a. CASE StartForcedDuck \/ StartOrdinaryDuck \/ ApplyLive \/ ReduckForced \/ ReduckOrdinary
           \/ RetargetForced \/ UpgradeToForced \/ RetargetOrdinary
  <2>1. /\ pc = "adopt" /\ clear /\ StartTakenRequests /\ UNCHANGED <<word, messageVars>>
        /\ pc' # "adopt"
    BY <1>a DEF StartForcedDuck, StartOrdinaryDuck, ApplyLive, ReduckForced, ReduckOrdinary,
       RetargetForced, UpgradeToForced, RetargetOrdinary, Retargets, AtAdopt, AfterAdopt
  <2>2. Target' = np
    BY <1>a DEF StartForcedDuck, StartOrdinaryDuck, ApplyLive, ReduckForced, ReduckOrdinary,
       RetargetForced, UpgradeToForced, RetargetOrdinary, Retargets, Target
  <2>3. p' \in {p, np, CopyContinuous(p, np)}
    BY <1>a DEF StartForcedDuck, StartOrdinaryDuck, ApplyLive, ReduckForced, ReduckOrdinary,
       RetargetForced, UpgradeToForced, RetargetOrdinary
  <2>4. p' = CopyContinuous(p, np) => p' = p \/ SameSwaps(np, p')
    <3>1. ASSUME p' # p, p' = CopyContinuous(p, np) PROVE SameSwaps(np, p')
      <4>1. ApplyLive \/ (~startPending /\ SameSwaps(Target, p))
        BY <1>a, <1>p, <3>1 DEF StartForcedDuck, StartOrdinaryDuck, ApplyLive, ReduckForced,
           ReduckOrdinary, RetargetForced, UpgradeToForced, RetargetOrdinary, Retargets
      <4>2. ApplyLive => p' = np
        BY DEF ApplyLive
      <4>3. ~startPending => SameSwaps(np, Target)
        BY <2>1 DEF ReadInv
      <4>4. ~startPending /\ SameSwaps(Target, p) => SameSwaps(np, p)
        BY <4>3 DEF SameSwaps
      <4>5. SameSwaps(np, p) => SameSwaps(np, p')
        BY <3>1 DEF SameSwaps, CopyContinuous
      <4> QED
        BY <4>1, <4>2, <4>4, <4>5 DEF SameSwaps
    <3> QED
      BY <3>1
  <2>5. SameSwaps(np, np)
    BY DEF SameSwaps
  <2> QED
    BY <2>1, <2>2, <2>3, <2>4, <2>5, MatchStarted
<1>b. CASE Prime
  <2>1. CASE clear
    <3>1. /\ pc = "adopt" /\ pc' # "adopt" /\ StartTakenRequests /\ UNCHANGED <<word, messageVars>>
          /\ p' = np /\ pendingP' = np
      BY <1>b, <2>1 DEF Prime
    <3>2. SameSwaps(np, Target') /\ SameSwaps(np, p')
      BY <3>1 DEF SameSwaps, Target
    <3> QED
      BY <2>1, <3>1, <3>2, MatchStarted
  <2>2. CASE ~clear
    <3>1. UNCHANGED <<swap, slotOf, abActive, word, requestVars, p, pendingP, switchState>> /\ pc' # "adopt"
      BY <1>b, <2>2 DEF Prime, messageVars
    <3> QED
      BY <1>n, <1>u, <1>w, <3>1, MatchKept DEF requestVars
  <2> QED
    BY <2>1, <2>2
<1>c. CASE Prepare \/ HostReset
  <2>1. /\ UNCHANGED <<word, messageVars, requestVars>> /\ pc' # "adopt"
        /\ p' = Target /\ Target' = Target
    BY <1>c DEF Prepare, HostReset, LandDuck, readVars, Target
  <2>2. SameSwaps(Target, Target') /\ SameSwaps(Target, p')
    BY <2>1 DEF SameSwaps
  <2> QED
    BY <2>1, <2>2, MatchMoves DEF requestVars
<1>d. CASE Bottom
  <2>1. /\ UNCHANGED <<word, messageVars, stash, abMemory>> /\ pc' # "adopt" /\ abRestoreSlot' = None
        /\ p' = Target /\ Target' = Target
    BY <1>d DEF Bottom, RestoreAbSlot, ProcessTail, EndSlice, Target
  <2>2. SameSwaps(Target, Target') /\ SameSwaps(Target, p')
    BY <2>1 DEF SameSwaps
  <2> QED
    BY <2>1, <2>2, MatchMoves
<1>e. CASE FinishFadeIn
  <2>1. /\ UNCHANGED <<word, messageVars, stash, abMemory>> /\ pc' # "adopt" /\ abRestoreSlot' = None
        /\ p' = p /\ Target' = p /\ switchState = "FadeIn"
    BY <1>e DEF FinishFadeIn, RestoreAbSlot, ProcessTail, EndSlice, Target
  <2>2. SameSwaps(Target, Target') /\ SameSwaps(Target, p')
    BY <1>p, <2>1
  <2> QED
    BY <2>1, <2>2, MatchMoves
<1>f. CASE Advance
  <2>1. /\ UNCHANGED <<word, messageVars, stash, abMemory>> /\ pc' # "adopt"
        /\ p' = p /\ Target' = Target
        /\ abRestoreSlot' = IF pendingForced THEN abRestoreSlot ELSE None
    BY <1>f DEF Advance, RestoreAbSlot, ProcessTail, EndSlice, Target
  <2>2. SameSwaps(Target, Target')
    BY <2>1 DEF SameSwaps
  <2>3. abRestoreSlot' = abRestoreSlot \/ SameSwaps(Target, p')
    BY <1>p, <2>1
  <2> QED
    BY <2>1, <2>2, <2>3, MatchMoves
<1> QED
  BY <1>1, <1>2, <1>3, <1>4, <1>5, <1>6, <1>7, <1>8, <1>9, <1>a, <1>b, <1>c, <1>d, <1>e, <1>f
     DEF Next, MessageThread, AudioSide, Adopt, Process

LEMMA MatchInit == Init => SlotInv /\ MatchInv
<1> SUFFICES ASSUME Init PROVE SlotInv /\ MatchInv
  OBVIOUS
<1>1. /\ swap = 0 /\ slotOf[0] = 0 /\ abActive = 0 /\ live = FirstSound /\ p = FirstSound
      /\ switchState = "Normal" /\ ~word.ab /\ ~stash.on /\ abRestoreSlot = None /\ pc = "idle"
      /\ \A t \in Slots : abMemory[t] = NoRecord
  BY BoundsAssumption DEF Init, NoRequest, NoStash
<1>2. IsNewest(FirstSound, 0)
  BY ParamsAssumption DEF IsNewest, FirstSound
<1>3. SlotInv
  <2>1. \A j, k \in 0..swap : j = 0 /\ k = 0
    BY <1>1
  <2> QED
    BY <1>1, <1>2, <2>1 DEF SlotInv
<1>4. OfSlot(FirstSound, 0)
  BY <1>1, <1>2 DEF OfSlot, Shows
<1> QED
  BY <1>1, <1>2, <1>3, <1>4 DEF MatchInv, Near, From, Target

\* A remembered Level-Match is restored while the sound of its slot plays, and was recorded
\* while that slot's sound played, whatever swaps, switches back and forth, resets and
\* prepares came between (switchAbSlots() and the landing in process()).
THEOREM RestoredMatchAlwaysFits == Spec => RestoredMatchFits
<1> DEFINE Fits ==
      pc = "process" /\ abRestoreSlot # None /\ abRestoreSlot' = None /\ ~word.forget =>
        /\ slotOf[Newest(p')] = abRestoreSlot
        /\ abMemory[abRestoreSlot] # NoRecord =>
             slotOf[Newest(abMemory[abRestoreSlot])] = abRestoreSlot
<1>1. ASSUME IInv, MatchInv, MatchInv', [Next]_vars PROVE [Fits]_vars
  <2>1. SUFFICES ASSUME Next, pc = "process", abRestoreSlot # None, abRestoreSlot' = None, ~word.forget
                 PROVE  /\ slotOf[Newest(p')] = abRestoreSlot
                        /\ abMemory[abRestoreSlot] # NoRecord =>
                             slotOf[Newest(abMemory[abRestoreSlot])] = abRestoreSlot
    BY <1>1
  <2>2. Process
    BY <2>1 DEF Next, MessageThread, BeginSwap, BeginAbSwitch, JoinSwap, EndSwap, WriteParam, ForgetMemory,
       EditParam, AudioSide, AcquireBefore, ReadParam, AcquireAfter, Adopt, RejectSnapshot,
       StartForcedDuck, StartOrdinaryDuck, ApplyLive, ReduckForced, ReduckOrdinary, RetargetForced,
       UpgradeToForced, RetargetOrdinary, Retargets, AtAdopt, Prime, Prepare, HostReset, requestVars
  <2>3. UNCHANGED <<swap, slotOf, abActive, word, stash>>
    BY <2>2 DEF Process, Bottom, FinishFadeIn, Advance, ProcessTail, messageVars
  <2>4. OfSlot(p', From) /\ abRestoreSlot = From
    <3>1. From' = From
      BY <2>3 DEF From, Near
    <3> QED
      BY <1>1, <2>1, <2>3, <3>1 DEF MatchInv, OfSlot
  <2>5. abRestoreSlot \in Slots /\ TypeOK
    BY <1>1, <2>1 DEF IInv, TypeOK, RequestTypeOK
  <2>6. slotOf[Newest(p')] = From
    <3>1. PICK s, t : s = p' /\ t = From
      OBVIOUS
    <3>2. OfSlot(s, t)
      BY <2>4, <3>1
    <3> QED
      BY <2>5, <3>1, <3>2, NewestIs
  <2>7. ASSUME abMemory[abRestoreSlot] # NoRecord
        PROVE  slotOf[Newest(abMemory[abRestoreSlot])] = abRestoreSlot
    <3>1. PICK s, t : s = abMemory[abRestoreSlot] /\ t = abRestoreSlot
      OBVIOUS
    <3>2. OfSlot(s, t)
      BY <1>1, <2>1, <2>5, <2>7, <3>1 DEF MatchInv
    <3> QED
      BY <2>5, <3>1, <3>2, NewestIs
  <2> QED
    BY <2>4, <2>6, <2>7
<1>2. IInv /\ SlotInv /\ MatchInv /\ [Next]_vars => SlotInv' /\ MatchInv'
  BY SlotInvariance, MatchInvariance
<1> QED
  BY <1>1, <1>2, IInvInit, Invariance, MatchInit, PTL DEF Spec, RestoredMatchFits

=============================================================================
