----------------------------- MODULE ScopeProofs -----------------------------
(***************************************************************************)
(* Proofs about the scope.  Of the ring, for every ring size, cache size   *)
(* and block length: its reader accepts exact windows only, is rejected    *)
(* only where the writer lapped it, and the ring implements the atomic     *)
(* window of ScopeWindow.  Of the displays, for every history, window and  *)
(* block length and every number of frames, settings and reopened editors: *)
(* the spectrum never rests on an old picture, and neither does the        *)
(* vectorscope where its window keeps its length and it polls no later     *)
(* than a whole history after the poll before.                             *)
(*                                                                         *)
(* The ring's inductive invariant says of a slot that its tag vouches for  *)
(* its frame (SlotInv), of the writer that it has claimed the slot it      *)
(* writes (WriterInv), of the reader that a payload whose tag still stands *)
(* is the one pushed there (ReaderInv), and which positions still have     *)
(* their tag (KeptInv).                                                    *)
(***************************************************************************)
EXTENDS ScopeBuffer, ScopeDisplays, TLAPS

-----------------------------------------------------------------------------
(* The ring. *)

WriterInv ==
  /\ wpc = "idle" => wpos = write /\ wend = write
  /\ wpc # "idle" => write <= wpos /\ wpos <= wend
  /\ wpc \in {"payload", "commit"} =>
       wpos < wend /\ slots[IndexOf(wpos)].tag = 0
  /\ wpc = "commit" => slots[IndexOf(wpos)].frame = wpos

SlotInv ==
  \A i \in 0..(Capacity - 1) : slots[i].tag # 0 => slots[i].frame = slots[i].tag - 1

\* A position's slot either still has its tag or has been claimed again.
Kept(pos) ==
  \/ slots[IndexOf(pos)].tag = pos + 1
  \/ wpos > pos + Capacity
  \/ wpos = pos + Capacity /\ wpc \in {"payload", "commit"}

KeptInv ==
  \A pos \in Nat : pos < write \/ (wend - Capacity <= pos /\ pos < wpos) => Kept(pos)

\* The exact frames from `begin` up to `pos`.
Prefix(begin, pos) == [i \in 1..(pos - begin) |-> begin + i - 1]

ReaderInv ==
  rpc # "idle" =>
    /\ rbegin <= rpos /\ rpos <= rend /\ rend <= write
    /\ rend - rbegin <= Limit
    /\ pending = Prefix(rbegin, rpos)
    /\ rpc \in {"load", "recheck"} => rpos < rend
    /\ rpc = "recheck" /\ slots[IndexOf(rpos)].tag = rpos + 1 => loaded = rpos

\* TypeOK without the shape of the two windows, which PendingOK and
\* AcceptedIsExact give.
BaseTypeOK ==
  /\ slots \in [0..(Capacity - 1) -> Slot]
  /\ write \in Nat /\ wpos \in Nat /\ wend \in Nat
  /\ wpc \in {"idle", "claim", "payload", "commit"}
  /\ rpc \in {"idle", "check", "load", "recheck"}
  /\ rpos \in Nat /\ rend \in Nat /\ rbegin \in Nat
  /\ loaded \in Frames
  /\ accepted = [end |-> accepted.end, frames |-> accepted.frames]
  /\ accepted.end \in Nat

PendingOK == \E n \in 0..Limit : pending \in [1..n -> Frames]

IInv ==
  /\ BaseTypeOK /\ PendingOK /\ WriterInv /\ SlotInv /\ KeptInv /\ ReaderInv
  /\ AcceptedIsExact

-----------------------------------------------------------------------------
(* The ring's index. *)

LEMMA IndexType ==
  ASSUME NEW pos \in Nat
  PROVE  IndexOf(pos) \in 0..(Capacity - 1)
  BY ScopeAssumption DEF IndexOf

\* Two positions share a slot only a whole lap apart.
LEMMA LapApart ==
  ASSUME NEW a \in Nat, NEW b \in Nat, a < b, IndexOf(a) = IndexOf(b)
  PROVE  b >= a + Capacity
  BY ScopeAssumption, Z3T(60) DEF IndexOf

LEMMA InitInv == Init => IInv
<1> SUFFICES ASSUME Init PROVE IInv
  OBVIOUS
<1>1. BaseTypeOK
  BY ScopeAssumption DEF Init, BaseTypeOK, Slot, Frames, None
<1>2. WriterInv
  BY DEF Init, WriterInv
<1>3. SlotInv
  BY DEF Init, SlotInv
<1>4. KeptInv
  <2> SUFFICES ASSUME NEW pos \in Nat, pos < write \/ (wend - Capacity <= pos /\ pos < wpos)
               PROVE  FALSE
    BY DEF KeptInv
  <2> QED
    BY DEF Init
<1>5. ReaderInv
  BY DEF Init, ReaderInv
<1>6. AcceptedIsExact
  <2>1. 0 \in 0..Limit /\ 0 <= accepted.end
    BY ScopeAssumption DEF Init
  <2>2. accepted.frames = Exact(accepted.end, 0)
    BY DEF Init, Exact
  <2> QED
    BY <2>1, <2>2 DEF AcceptedIsExact
<1>7. PendingOK
  <2>1. 0 \in 0..Limit /\ 1..0 = {}
    BY ScopeAssumption
  <2> QED
    BY <2>1 DEF Init, PendingOK
<1> QED
  BY <1>1, <1>2, <1>3, <1>4, <1>5, <1>6, <1>7 DEF IInv

-----------------------------------------------------------------------------
(* The types. *)

LEMMA BaseTypeStep == BaseTypeOK /\ [Next]_vars => BaseTypeOK'
<1> SUFFICES ASSUME BaseTypeOK, [Next]_vars PROVE BaseTypeOK'
  OBVIOUS
<1> USE DEF BaseTypeOK, writer, reader
<1>1. CASE BeginPush
  <2>1. PICK n \in 0..MaxPush : wend' = write + n /\ wpos' = write + n - Lesser(n, Capacity)
    BY <1>1 DEF BeginPush
  <2>2. wend' \in Nat /\ wpos' \in Nat
    <3>1. write \in Nat /\ n \in Nat /\ Capacity \in Nat
      BY ScopeAssumption
    <3>2. PICK k \in Nat : k = Lesser(n, Capacity) /\ k <= n
      BY <3>1 DEF Lesser
    <3>3. write + n \in Nat /\ write + n - k \in Nat
      BY <3>1, <3>2
    <3> QED
      BY <2>1, <3>2, <3>3
  <2> QED
    BY <1>1, <2>2 DEF BeginPush
<1>2. CASE ClaimSlot
  BY <1>2, IndexType DEF ClaimSlot, Slot, Frames
<1>3. CASE StorePayload
  BY <1>3, IndexType DEF StorePayload, Slot, Frames
<1>4. CASE CommitSlot
  <2>1. wpos + 1 \in Nat /\ IndexOf(wpos) \in 0..(Capacity - 1)
    BY IndexType
  <2>2. slots' \in [0..(Capacity - 1) -> Slot]
    BY <1>4, <2>1 DEF CommitSlot, Slot
  <2> QED
    BY <1>4, <2>1, <2>2 DEF CommitSlot
<1>5. CASE PublishIndex
  BY <1>5 DEF PublishIndex
<1>6. ASSUME NEW count \in 0..Limit, BeginCopy(count) PROVE BaseTypeOK'
  BY <1>6, ScopeAssumption DEF BeginCopy, Lesser
<1>7. CASE ReadLatest
  BY <1>6, <1>7 DEF ReadLatest
<1>8. CASE ReadSince
  <2>1. PICK since \in 0..write : BeginCopy(Lesser(write - since, Limit))
    BY <1>8 DEF ReadSince
  <2>2. Lesser(write - since, Limit) \in 0..Limit
    BY ScopeAssumption DEF Lesser
  <2> QED
    BY <2>1, <2>2, <1>6
<1>9. CASE CheckTag
  BY <1>9 DEF CheckTag
<1>10. CASE LoadPayload
  BY <1>10, IndexType DEF LoadPayload, Slot
<1>11. CASE RecheckTag
  BY <1>11 DEF RecheckTag
<1>12. CASE RejectCopy
  BY <1>12 DEF RejectCopy
<1>13. CASE AcceptCopy
  BY <1>13 DEF AcceptCopy
<1>14. CASE DropCopy
  BY <1>14 DEF DropCopy
<1>15. CASE UNCHANGED vars
  BY <1>15 DEF vars
<1> QED
  BY <1>1, <1>2, <1>3, <1>4, <1>5, <1>7, <1>8, <1>9, <1>10, <1>11, <1>12, <1>13, <1>14,
     <1>15 DEF Next, Push, Copy

-----------------------------------------------------------------------------
(* The writer. *)

LEMMA WriterStep == BaseTypeOK /\ WriterInv /\ [Next]_vars => WriterInv'
<1> SUFFICES ASSUME BaseTypeOK, WriterInv, [Next]_vars PROVE WriterInv'
  OBVIOUS
<1> USE DEF BaseTypeOK, WriterInv, writer
<1>1. CASE BeginPush
  BY <1>1, ScopeAssumption DEF BeginPush, Lesser
<1>2. CASE ClaimSlot
  BY <1>2, IndexType DEF ClaimSlot, Slot
<1>3. CASE StorePayload
  BY <1>3, IndexType DEF StorePayload, Slot
<1>4. CASE CommitSlot
  BY <1>4 DEF CommitSlot
<1>5. CASE PublishIndex
  BY <1>5 DEF PublishIndex
<1>6. CASE UNCHANGED writer
  BY <1>6
<1>7. ReadLatest \/ ReadSince \/ Copy \/ UNCHANGED vars => UNCHANGED writer
  BY DEF ReadLatest, ReadSince, BeginCopy, Copy, CheckTag, LoadPayload, RecheckTag,
         RejectCopy, AcceptCopy, DropCopy, vars
<1> QED
  BY <1>1, <1>2, <1>3, <1>4, <1>5, <1>6, <1>7 DEF Next, Push

LEMMA SlotStep == BaseTypeOK /\ WriterInv /\ SlotInv /\ [Next]_vars => SlotInv'
<1> SUFFICES ASSUME BaseTypeOK, WriterInv, SlotInv, [Next]_vars PROVE SlotInv'
  OBVIOUS
<1>1. CASE UNCHANGED slots
  BY <1>1 DEF SlotInv
<1>2. CASE ClaimSlot
  BY <1>2, IndexType DEF ClaimSlot, SlotInv, BaseTypeOK, Slot
<1>3. CASE StorePayload
  BY <1>3, IndexType DEF StorePayload, SlotInv, WriterInv, BaseTypeOK, Slot
<1>4. CASE CommitSlot
  BY <1>4, IndexType DEF CommitSlot, SlotInv, WriterInv, BaseTypeOK, Slot
<1>5. BeginPush \/ PublishIndex \/ ReadLatest \/ ReadSince \/ Copy \/ UNCHANGED vars
        => UNCHANGED slots
  BY DEF BeginPush, PublishIndex, ReadLatest, ReadSince, BeginCopy, Copy, CheckTag,
         LoadPayload, RecheckTag, RejectCopy, AcceptCopy, DropCopy, vars, writer
<1> QED
  BY <1>1, <1>2, <1>3, <1>4, <1>5 DEF Next, Push

LEMMA KeptStep == BaseTypeOK /\ WriterInv /\ KeptInv /\ [Next]_vars => KeptInv'
<1> SUFFICES ASSUME BaseTypeOK, WriterInv, KeptInv, [Next]_vars,
                    NEW pos \in Nat,
                    pos < write' \/ (wend' - Capacity <= pos /\ pos < wpos')
             PROVE  Kept(pos)'
  BY DEF KeptInv
<1>i. IndexOf(pos) \in 0..(Capacity - 1) /\ IndexOf(wpos) \in 0..(Capacity - 1)
  BY IndexType DEF BaseTypeOK
<1>l. pos < wpos /\ IndexOf(pos) = IndexOf(wpos) => wpos >= pos + Capacity
  BY LapApart DEF BaseTypeOK
<1>1. CASE BeginPush
  <2>1. PICK n \in 0..MaxPush : wend' = write + n /\ wpos' = write + n - Lesser(n, Capacity)
    BY <1>1 DEF BeginPush
  <2>2. wpc = "idle" /\ wpos = write /\ UNCHANGED <<slots, write>>
    BY <1>1 DEF BeginPush, WriterInv
  <2>3. write \in Nat /\ n \in Nat /\ Capacity \in Nat
    BY ScopeAssumption DEF BaseTypeOK
  <2>4. \/ wpos' = write
        \/ wpos' = wend' - Capacity /\ wpos' \in Nat /\ wpos' >= write
    BY <2>1, <2>3 DEF Lesser
  <2>5. pos < write
    BY <2>2, <2>3, <2>4
  <2>6. Kept(pos)
    BY <2>5 DEF KeptInv
  <2>7. CASE slots[IndexOf(pos)].tag = pos + 1
    BY <2>2, <2>7 DEF Kept
  <2>8. CASE wpos > pos + Capacity
    <3>1. wpos' > pos + Capacity
      BY <2>2, <2>3, <2>4, <2>8
    <3> QED
      BY <3>1 DEF Kept
  <2> QED
    BY <2>2, <2>6, <2>7, <2>8 DEF Kept
<1>2. CASE ClaimSlot
  <2>1. Kept(pos) /\ pos < wpos
    BY <1>2 DEF ClaimSlot, KeptInv, BaseTypeOK, WriterInv
  <2>2. CASE IndexOf(pos) = IndexOf(wpos)
    <3>1. wpos >= pos + Capacity
      BY <1>l, <2>1, <2>2
    <3>2. wpos > pos + Capacity \/ wpos = pos + Capacity
      <4>1. wpos \in Nat /\ pos \in Nat /\ Capacity \in Nat
        BY ScopeAssumption DEF BaseTypeOK
      <4> QED
        BY <3>1, <4>1
    <3> QED
      BY <1>2, <3>2 DEF ClaimSlot, Kept
  <2>3. CASE IndexOf(pos) # IndexOf(wpos)
    <3>1. slots'[IndexOf(pos)] = slots[IndexOf(pos)]
      BY <1>2, <1>i, <2>3 DEF ClaimSlot, BaseTypeOK
    <3> QED
      BY <1>2, <2>1, <3>1 DEF ClaimSlot, Kept
  <2> QED
    BY <2>2, <2>3
<1>3. CASE StorePayload
  <2>1. Kept(pos)
    BY <1>3 DEF StorePayload, KeptInv
  <2> QED
    BY <1>3, <1>i, <2>1 DEF StorePayload, Kept, BaseTypeOK, Slot
<1>4. CASE CommitSlot
  <2>1. CASE pos = wpos
    BY <1>4, <1>i, <2>1 DEF CommitSlot, Kept, BaseTypeOK, Slot
  <2>2. CASE pos # wpos
    <3>1. Kept(pos) /\ pos < wpos
      BY <1>4, <2>2 DEF CommitSlot, KeptInv, BaseTypeOK, WriterInv
    <3>2. wpos' = wpos + 1
      BY <1>4 DEF CommitSlot
    <3>3. CASE IndexOf(pos) = IndexOf(wpos)
      <4>1. wpos >= pos + Capacity
        BY <1>l, <3>1, <3>3
      <4>2. wpos' > pos + Capacity
        BY <3>2, <4>1, ScopeAssumption DEF BaseTypeOK
      <4> QED
        BY <4>2 DEF Kept
    <3>4. CASE IndexOf(pos) # IndexOf(wpos)
      <4>1. slots'[IndexOf(pos)] = slots[IndexOf(pos)]
        BY <1>4, <1>i, <3>4 DEF CommitSlot, BaseTypeOK
      <4>2. CASE slots[IndexOf(pos)].tag = pos + 1
        BY <4>1, <4>2 DEF Kept
      <4>3. CASE wpos >= pos + Capacity
        <5>1. wpos' > pos + Capacity
          BY <3>2, <4>3, ScopeAssumption DEF BaseTypeOK
        <5> QED
          BY <5>1 DEF Kept
      <4> QED
        BY <3>1, <4>2, <4>3, ScopeAssumption DEF Kept, BaseTypeOK
    <3> QED
      BY <3>3, <3>4
  <2> QED
    BY <2>1, <2>2
<1>5. CASE PublishIndex
  <2>1. CASE pos < wend - Capacity
    BY <1>5, <2>1, ScopeAssumption DEF PublishIndex, Kept, BaseTypeOK
  <2>2. CASE pos >= wend - Capacity
    <3>1. Kept(pos)
      BY <1>5, <2>2, ScopeAssumption DEF PublishIndex, KeptInv, BaseTypeOK
    <3> QED
      BY <1>5, <3>1 DEF PublishIndex, Kept
  <2> QED
    BY <2>1, <2>2, ScopeAssumption DEF BaseTypeOK
<1>6. CASE UNCHANGED writer
  BY <1>6 DEF KeptInv, Kept, writer
<1>7. ReadLatest \/ ReadSince \/ Copy \/ UNCHANGED vars => UNCHANGED writer
  BY DEF ReadLatest, ReadSince, BeginCopy, Copy, CheckTag, LoadPayload, RecheckTag,
         RejectCopy, AcceptCopy, DropCopy, vars
<1> QED
  BY <1>1, <1>2, <1>3, <1>4, <1>5, <1>6, <1>7 DEF Next, Push

-----------------------------------------------------------------------------
(* The reader. *)

\* A copy in progress is kept by whatever leaves the reader alone, never
\* retracts the index and never gives a committed position its tag anew.
LEMMA ReaderFrame ==
  ASSUME BaseTypeOK, BaseTypeOK', ReaderInv,
         UNCHANGED <<rpc, rpos, rend, rbegin, loaded, pending>>,
         write' >= write,
         \A pos \in Nat : pos < write /\ slots'[IndexOf(pos)].tag = pos + 1 =>
            slots[IndexOf(pos)].tag = pos + 1
  PROVE  ReaderInv'
<1>1. SUFFICES ASSUME rpc # "idle" PROVE ReaderInv'
  BY DEF ReaderInv
<1>2. rend' <= write'
  BY <1>1 DEF BaseTypeOK, ReaderInv
<1>3. ASSUME rpc = "recheck", slots'[IndexOf(rpos)].tag = rpos + 1 PROVE loaded = rpos
  <2>1. rpos \in Nat /\ rpos < write
    BY <1>1, <1>3 DEF BaseTypeOK, ReaderInv
  <2> QED
    BY <1>1, <1>3, <2>1 DEF ReaderInv
<1> QED
  BY <1>1, <1>2, <1>3 DEF ReaderInv

LEMMA BeginCopyStep ==
  ASSUME BaseTypeOK, NEW count \in 0..Limit, BeginCopy(count)
  PROVE  ReaderInv'
<1>1. rbegin' <= rpos' /\ rpos' <= rend' /\ rend' <= write' /\ rend' - rbegin' <= Limit
  BY ScopeAssumption DEF BaseTypeOK, BeginCopy, Lesser, writer
<1>2. pending' = Prefix(rbegin', rpos')
  <2>1. rpos' - rbegin' = 0
    BY ScopeAssumption DEF BaseTypeOK, BeginCopy, Lesser
  <2>2. 1..0 = {}
    OBVIOUS
  <2> QED
    BY <2>1, <2>2 DEF BeginCopy, Prefix
<1> QED
  BY <1>1, <1>2 DEF BeginCopy, ReaderInv

LEMMA ReaderStep ==
  BaseTypeOK /\ WriterInv /\ SlotInv /\ ReaderInv /\ [Next]_vars => ReaderInv'
<1> SUFFICES ASSUME BaseTypeOK, WriterInv, SlotInv, ReaderInv, [Next]_vars
             PROVE  ReaderInv'
  OBVIOUS
<1>t. BaseTypeOK'
  BY BaseTypeStep
<1>1. CASE BeginPush
  BY <1>1, <1>t, ReaderFrame DEF BeginPush, reader, BaseTypeOK
<1>2. CASE ClaimSlot
  <2>1. \A pos \in Nat : slots'[IndexOf(pos)].tag = pos + 1 => slots[IndexOf(pos)].tag = pos + 1
    BY <1>2, IndexType DEF ClaimSlot, BaseTypeOK, Slot
  <2> QED
    BY <1>2, <1>t, <2>1, ReaderFrame DEF ClaimSlot, reader, BaseTypeOK
<1>3. CASE StorePayload
  <2>1. \A pos \in Nat : slots'[IndexOf(pos)].tag = slots[IndexOf(pos)].tag
    BY <1>3, IndexType DEF StorePayload, BaseTypeOK, Slot
  <2> QED
    BY <1>3, <1>t, <2>1, ReaderFrame DEF StorePayload, reader, BaseTypeOK
<1>4. CASE CommitSlot
  <2>1. \A pos \in Nat : pos < write /\ slots'[IndexOf(pos)].tag = pos + 1
                           => slots[IndexOf(pos)].tag = pos + 1
    <3> SUFFICES ASSUME NEW pos \in Nat, pos < write, slots'[IndexOf(pos)].tag = pos + 1
                 PROVE  slots[IndexOf(pos)].tag = pos + 1
      OBVIOUS
    <3>1. pos # wpos /\ wpos \in Nat
      BY <1>4 DEF CommitSlot, WriterInv, BaseTypeOK
    <3>2. IndexOf(pos) # IndexOf(wpos)
      BY <1>4, <3>1, IndexType DEF CommitSlot, BaseTypeOK, Slot
    <3> QED
      BY <1>4, <3>1, <3>2, IndexType DEF CommitSlot, BaseTypeOK, Slot
  <2> QED
    BY <1>4, <1>t, <2>1, ReaderFrame DEF CommitSlot, reader, BaseTypeOK
<1>5. CASE PublishIndex
  <2>1. write' >= write
    BY <1>5 DEF PublishIndex, WriterInv, BaseTypeOK
  <2> QED
    BY <1>5, <1>t, <2>1, ReaderFrame DEF PublishIndex, reader
<1>6. CASE ReadLatest
  BY <1>6, BeginCopyStep DEF ReadLatest
<1>7. CASE ReadSince
  <2>1. PICK since \in 0..write : BeginCopy(Lesser(write - since, Limit))
    BY <1>7 DEF ReadSince
  <2>2. Lesser(write - since, Limit) \in 0..Limit
    BY ScopeAssumption DEF Lesser, BaseTypeOK
  <2> QED
    BY <2>1, <2>2, BeginCopyStep
<1>8. CASE CheckTag
  BY <1>8 DEF CheckTag, ReaderInv, BaseTypeOK, writer
<1>9. CASE LoadPayload
  <2>1. slots[IndexOf(rpos)].tag = rpos + 1 => loaded' = rpos
    BY <1>9, IndexType DEF LoadPayload, SlotInv, BaseTypeOK, Slot
  <2> QED
    BY <1>9, <2>1 DEF LoadPayload, ReaderInv, BaseTypeOK, writer
<1>10. CASE RecheckTag
  <2>1. loaded = rpos /\ rpos < rend /\ rbegin <= rpos
    BY <1>10 DEF RecheckTag, ReaderInv
  <2>2. pending' = Prefix(rbegin, rpos + 1)
    <3>1. pending = [i \in 1..(rpos - rbegin) |-> rbegin + i - 1]
      BY <1>10 DEF RecheckTag, ReaderInv, Prefix
    <3>2. \A i \in 1..(rpos - rbegin + 1) : i # rpos - rbegin + 1 => i \in 1..(rpos - rbegin)
      BY <2>1 DEF BaseTypeOK
    <3>3. \A i \in 1..(rpos - rbegin + 1) :
            (IF i = rpos - rbegin + 1 THEN loaded ELSE pending[i]) = rbegin + i - 1
      BY <2>1, <3>1, <3>2 DEF BaseTypeOK
    <3>4. rpos - rbegin + 1 = (rpos + 1) - rbegin
      BY DEF BaseTypeOK
    <3>5. pending' = [i \in 1..(rpos - rbegin + 1) |->
                        IF i = rpos - rbegin + 1 THEN loaded ELSE pending[i]]
      BY <1>10 DEF RecheckTag
    <3>6. pending' = [i \in 1..(rpos - rbegin + 1) |-> rbegin + i - 1]
      BY <3>3, <3>5
    <3> QED
      BY <3>4, <3>6 DEF Prefix
  <2>3. rbegin' <= rpos' /\ rpos' <= rend' /\ rend' <= write' /\ rend' - rbegin' <= Limit
    BY <1>10, <2>1 DEF RecheckTag, ReaderInv, BaseTypeOK, writer
  <2>4. pending' = Prefix(rbegin', rpos')
    <3>1. rbegin' = rbegin /\ rpos' = rpos + 1
      BY <1>10 DEF RecheckTag
    <3> QED
      BY <2>2, <3>1
  <2>5. rpc' = "check"
    BY <1>10 DEF RecheckTag
  <2> QED
    BY <2>3, <2>4, <2>5 DEF ReaderInv
<1>11. CASE RejectCopy
  BY <1>11 DEF RejectCopy, ReaderInv
<1>12. CASE AcceptCopy
  BY <1>12 DEF AcceptCopy, ReaderInv
<1>13. CASE DropCopy
  BY <1>13 DEF DropCopy, ReaderInv
<1>14. CASE UNCHANGED vars
  BY <1>14 DEF vars, writer, reader, ReaderInv
<1> QED
  BY <1>1, <1>2, <1>3, <1>4, <1>5, <1>6, <1>7, <1>8, <1>9, <1>10, <1>11, <1>12, <1>13,
     <1>14 DEF Next, Push, Copy

LEMMA PendingStep == BaseTypeOK /\ PendingOK /\ ReaderInv /\ [Next]_vars => PendingOK'
<1> SUFFICES ASSUME BaseTypeOK, PendingOK, ReaderInv, [Next]_vars PROVE PendingOK'
  OBVIOUS
<1>1. CASE UNCHANGED pending
  BY <1>1 DEF PendingOK
<1>2. CASE ReadLatest \/ ReadSince
  <2>1. 0 \in 0..Limit /\ 1..0 = {}
    BY ScopeAssumption
  <2>2. pending' = [i \in 1..0 |-> None]
    BY <1>2 DEF ReadLatest, ReadSince, BeginCopy
  <2> QED
    BY <2>1, <2>2 DEF PendingOK
<1>3. CASE RecheckTag
  <2> DEFINE n == rpos - rbegin + 1
  <2>1. pending = [i \in 1..(rpos - rbegin) |-> rbegin + i - 1] /\ n \in 0..Limit
    <3>1. /\ rbegin <= rpos /\ rpos < rend /\ rend - rbegin <= Limit
          /\ pending = Prefix(rbegin, rpos)
      BY <1>3 DEF RecheckTag, ReaderInv
    <3>2. {rbegin, rpos, rend, Limit} \subseteq Nat
      BY ScopeAssumption DEF BaseTypeOK
    <3>3. n \in 0..Limit
      BY <3>1, <3>2
    <3> QED
      BY <3>1, <3>3 DEF Prefix
  <2>2. ASSUME NEW i \in 1..n, i # n PROVE pending[i] \in Frames
    BY <2>1, <2>2 DEF BaseTypeOK, Frames
  <2>3. pending' \in [1..n -> Frames]
    BY <1>3, <2>2 DEF RecheckTag, BaseTypeOK
  <2> QED
    BY <2>1, <2>3 DEF PendingOK
<1>4. Push \/ CheckTag \/ LoadPayload \/ RejectCopy \/ AcceptCopy \/ DropCopy \/ UNCHANGED vars
        => UNCHANGED pending
  BY DEF Push, BeginPush, ClaimSlot, StorePayload, CommitSlot, PublishIndex, CheckTag,
         LoadPayload, RejectCopy, AcceptCopy, DropCopy, vars, reader
<1> QED
  BY <1>1, <1>2, <1>3, <1>4 DEF Next, Copy

\* What AcceptCopy keeps.
LEMMA AcceptExact ==
  ASSUME BaseTypeOK, ReaderInv, AcceptCopy
  PROVE  /\ rend - rbegin \in 0..Limit /\ rend - rbegin <= rend
         /\ accepted' = [end |-> rend, frames |-> Exact(rend, rend - rbegin)]
<1>1. rpos = rend /\ rbegin <= rend /\ rend - rbegin <= Limit
  BY DEF AcceptCopy, ReaderInv
<1>2. rend - rbegin \in 0..Limit /\ rend - rbegin <= rend
  BY <1>1, ScopeAssumption DEF BaseTypeOK
<1>3. pending = [i \in 1..(rend - rbegin) |-> rbegin + i - 1]
  BY <1>1 DEF AcceptCopy, ReaderInv, Prefix
<1>4. \A i \in 1..(rend - rbegin) : rbegin + i - 1 = rend - (rend - rbegin) + i - 1
  BY DEF BaseTypeOK
<1>5. pending = Exact(rend, rend - rbegin)
  BY <1>3, <1>4 DEF Exact
<1> QED
  BY <1>2, <1>5 DEF AcceptCopy

LEMMA AcceptedStep ==
  BaseTypeOK /\ ReaderInv /\ AcceptedIsExact /\ [Next]_vars => AcceptedIsExact'
<1> SUFFICES ASSUME BaseTypeOK, ReaderInv, AcceptedIsExact, [Next]_vars
             PROVE  AcceptedIsExact'
  OBVIOUS
<1>1. CASE UNCHANGED accepted
  BY <1>1 DEF AcceptedIsExact, Exact
<1>2. CASE AcceptCopy
  BY <1>2, AcceptExact DEF AcceptedIsExact, Exact
<1>3. Push \/ ReadLatest \/ ReadSince \/ CheckTag \/ LoadPayload \/ RecheckTag \/ RejectCopy
        \/ DropCopy \/ UNCHANGED vars => UNCHANGED accepted
  BY DEF Push, BeginPush, ClaimSlot, StorePayload, CommitSlot, PublishIndex, ReadLatest,
         ReadSince, BeginCopy, CheckTag, LoadPayload, RecheckTag, RejectCopy, DropCopy,
         vars, reader
<1> QED
  BY <1>1, <1>2, <1>3 DEF Next, Copy

LEMMA Inductive == Spec => []IInv
<1>1. IInv /\ [Next]_vars => IInv'
  BY BaseTypeStep, WriterStep, SlotStep, KeptStep, PendingStep, ReaderStep,
     AcceptedStep DEF IInv
<1> QED
  BY InitInv, <1>1, PTL DEF Spec

-----------------------------------------------------------------------------
(* The theorems. *)

\* Every window a display accepts is exact, for every ring and block size.
THEOREM AcceptedAlwaysExact == Spec => []AcceptedIsExact
<1>1. IInv => AcceptedIsExact
  BY DEF IInv
<1> QED
  BY Inductive, <1>1, PTL

\* A read is rejected only if the writer claimed the slot a lap later.
THEOREM RejectedOnlyWhenLapped == Spec => RejectOnlyWhenLapped
<1>1. IInv /\ [Next]_vars => [RejectCopy => wpos >= rpos + Capacity]_vars
  <2> SUFFICES ASSUME IInv, RejectCopy PROVE wpos >= rpos + Capacity
    OBVIOUS
  <2>1. rpos \in Nat /\ rpos < write
    BY DEF IInv, BaseTypeOK, ReaderInv, RejectCopy
  <2>2. Kept(rpos)
    BY <2>1 DEF IInv, KeptInv
  <2> QED
    BY <2>2, ScopeAssumption DEF Kept, RejectCopy, IInv, BaseTypeOK
<1> QED
  BY Inductive, <1>1, PTL DEF Spec, RejectOnlyWhenLapped

\* Every variable keeps its type, the two windows fitting the cache.
THEOREM TypeCorrect == Spec => []TypeOK
<1>1. IInv => TypeOK
  <2> SUFFICES ASSUME IInv PROVE TypeOK
    OBVIOUS
  <2>1. \E n \in 0..Limit : accepted \in Window(n)
    <3>1. PICK n \in 0..Limit : n <= accepted.end /\ accepted.frames = Exact(accepted.end, n)
      BY DEF IInv, AcceptedIsExact
    <3>2. accepted.end \in Nat /\ n \in Nat
      BY ScopeAssumption DEF IInv, BaseTypeOK
    <3>3. ASSUME NEW i \in 1..n PROVE accepted.end - n + i - 1 \in Frames
      BY <3>1, <3>2 DEF Frames
    <3>4. accepted.frames \in [1..n -> Frames]
      BY <3>1, <3>3 DEF Exact
    <3> QED
      BY <3>2, <3>4 DEF IInv, BaseTypeOK, Window
  <2> QED
    BY <2>1 DEF IInv, BaseTypeOK, PendingOK, TypeOK
<1> QED
  BY Inductive, <1>1, PTL

\* The ring implements the atomic window: every push, copy, accept and reject
\* is a step of ScopeWindow or changes nothing there.
THEOREM ImplementsWindow == Spec => Refinement
<1>1. Init => Atomic!Init
  <2> SUFFICES ASSUME Init PROVE Atomic!Init
    OBVIOUS
  <2>1. [i \in 1..0 |-> None] = [i \in 1..0 |-> 0 - 0 + i - 1]
    <3>1. 1..0 = {}
      OBVIOUS
    <3> QED
      BY <3>1
  <2> QED
    BY <2>1 DEF Init, Atomic!Init, Atomic!NoAttempt, Atomic!Exact
<1>2. IInv /\ [Next]_vars => [Atomic!Next]_(Atomic!vars)
  <2> SUFFICES ASSUME IInv, [Next]_vars PROVE [Atomic!Next]_(Atomic!vars)
    OBVIOUS
  <2> DEFINE seen == IF rpc = "idle" THEN -1 ELSE rend
  <2>t. rend \in Nat /\ write \in Nat /\ rend # -1
    BY DEF IInv, BaseTypeOK
  <2>1. CASE PublishIndex
    <3>1. write' \in Nat /\ write' >= write
      BY <2>1 DEF IInv, BaseTypeOK, WriterInv, PublishIndex
    <3>2. UNCHANGED <<seen, accepted>>
      BY <2>1 DEF PublishIndex, reader
    <3> QED
      BY <3>1, <3>2 DEF Atomic!Next, Atomic!Publish
  <2>2. ASSUME NEW count, BeginCopy(count) PROVE Atomic!Begin
    <3>1. seen = -1 /\ seen' = write
      BY <2>2 DEF BeginCopy
    <3>2. UNCHANGED <<write, accepted>>
      BY <2>2 DEF BeginCopy, writer
    <3> QED
      BY <3>1, <3>2 DEF Atomic!Begin, Atomic!NoAttempt
  <2>3. CASE ReadLatest \/ ReadSince
    BY <2>2, <2>3 DEF ReadLatest, ReadSince, Atomic!Next
  <2>4. CASE RejectCopy \/ DropCopy
    <3>1. seen = rend /\ seen' = -1
      BY <2>4 DEF RejectCopy, DropCopy
    <3>2. UNCHANGED <<write, accepted>>
      BY <2>4 DEF RejectCopy, DropCopy, writer
    <3> QED
      BY <2>t, <3>1, <3>2 DEF Atomic!Next, Atomic!Reject, Atomic!NoAttempt
  <2>5. CASE AcceptCopy
    <3>1. seen = rend /\ seen' = -1
      BY <2>5 DEF AcceptCopy
    <3>2. UNCHANGED write
      BY <2>5 DEF AcceptCopy, writer
    <3>3. \E count \in 0..Limit :
             count <= rend /\ accepted' = [end |-> rend, frames |-> Exact(rend, count)]
      BY <2>5, AcceptExact DEF IInv
    <3> QED
      BY <2>t, <3>1, <3>2, <3>3
      DEF Atomic!Next, Atomic!Accept, Atomic!NoAttempt, Atomic!Exact, Exact
  <2>6. CASE UNCHANGED <<write, seen, accepted>>
    BY <2>6 DEF Atomic!vars
  <2>7. BeginPush \/ ClaimSlot \/ StorePayload \/ CommitSlot \/ CheckTag \/ LoadPayload
          \/ RecheckTag \/ UNCHANGED vars => UNCHANGED <<write, seen, accepted>>
    BY DEF BeginPush, ClaimSlot, StorePayload, CommitSlot, CheckTag, LoadPayload,
           RecheckTag, vars, writer, reader
  <2> QED
    BY <2>1, <2>3, <2>4, <2>5, <2>6, <2>7 DEF Next, Push, Copy
<1> QED
  BY Inductive, <1>1, <1>2, PTL DEF Spec, Refinement, Atomic!Spec

-----------------------------------------------------------------------------
(* The displays. *)

\* Where the vectorscope's gate is right: what it remembers as silence was measured on
\* the window it will show, and no poll misses frames.
Steady == (\A v, w \in WindowSizes : v = w) /\ MaxStall <= HistoryFrames

-----------------------------------------------------------------------------
(* The inductive invariant. *)

\* The picture of a paint at the time t.
AgesAt(t, count) == {t - pos : pos \in {q \in loud : q < t /\ t <= q + count}}

\* What pushFFT() knows of the frames it has read, and what it computed from them.
SpectrumInv ==
  /\ \A q \in loud : fftSeenCount <= q + FftSize /\ q < fftSeenCount => q < fftNonZero
  /\ lastWindowSilent => fftNonZero + FftSize <= fftSeenCount /\ fftData = {}
  /\ fftWoken => lastWindowSilent /\ fftSeenCount < pushed
  /\ opened <= fftSeenCount
  /\ ~lastWindowSilent /\ fftSeenCount = pushed /\ pushed # opened /\ pushed >= FftSize
       => fftData = LoudAges(FftSize)

\* What the vectorscope knows of the frames it has polled, and what it painted: the
\* window of a moment since the last poll.
PictureInv ==
  /\ pushed <= lastSeenCount + MaxStall
  /\ \A q \in loud : q < lastSeenCount => q < lastNonZero
  /\ lastFrameSilent => lastNonZero + windowFrames <= lastSeenCount
  /\ ~frameDirty => \E t \in lastSeenCount..pushed : picture = AgesAt(t, windowFrames)

DisplaysInv == DisplaysTypeOK /\ SpectrumInv /\ (Steady => PictureInv)

\* The parts of DisplaysTypeOK, by what disturbs them.
StreamTyped  == playing \in BOOLEAN /\ pushed \in 0..MaxPlayed /\ loud \subseteq 0..(pushed - 1)
CountsTyped  ==
  /\ settings \in 0..MaxSettings /\ opened \in 0..pushed /\ windowFrames \in WindowSizes
  /\ lastSeenCount \in 0..pushed /\ lastNonZero \in 0..lastSeenCount
  /\ fftSeenCount \in 0..pushed /\ fftNonZero \in 0..fftSeenCount
FlagsTyped   ==
  /\ lastFrameSilent \in BOOLEAN /\ frameDirty \in BOOLEAN /\ repaintAsked \in BOOLEAN
  /\ lastWindowSilent \in BOOLEAN /\ fftWoken \in BOOLEAN
ImagesTyped  == picture \subseteq 1..HistoryFrames /\ fftData \subseteq 1..FftSize

LEMMA TypeIs == DisplaysTypeOK <=> StreamTyped /\ CountsTyped /\ FlagsTyped /\ ImagesTyped
  BY DEF DisplaysTypeOK, StreamTyped, CountsTyped, FlagsTyped, ImagesTyped

-----------------------------------------------------------------------------
(* What a read says of the frames. *)

LEMMA AgesAre ==
  ASSUME DisplaysTypeOK, NEW n \in 0..HistoryFrames
  PROVE  /\ LoudAges(n) \subseteq 1..n
         /\ LoudAges(n) = AgesAt(pushed, n)
         /\ (\A q \in loud : q + n < pushed) => LoudAges(n) = {}
<1>1. pushed \in Nat /\ n \in Nat /\ \A q \in loud : q \in Nat /\ q < pushed
  BY DisplaysAssumption DEF DisplaysTypeOK
<1>2. LoudAges(n) \subseteq 1..n
  BY <1>1 DEF LoudAges
<1>3. LoudAges(n) = AgesAt(pushed, n)
  BY <1>1 DEF LoudAges, AgesAt
<1>4. ASSUME \A q \in loud : q + n < pushed PROVE LoudAges(n) = {}
  BY <1>1, <1>4 DEF LoudAges
<1> QED
  BY <1>2, <1>3, <1>4

LEMMA SinceIs ==
  ASSUME DisplaysTypeOK, NEW since \in 0..pushed, NEW n \in 0..HistoryFrames, LoudSince(since, n) = {}
  PROVE  \A q \in loud : q < since \/ q + n < pushed
<1>1. pushed \in Nat /\ n \in Nat /\ since \in Nat /\ \A q \in loud : q \in Nat /\ q < pushed
  BY DisplaysAssumption DEF DisplaysTypeOK
<1>2. SUFFICES ASSUME NEW q \in loud, q >= since, q + n >= pushed PROVE FALSE
  BY <1>1
<1>3. q >= pushed - FewerOf(pushed - since, n)
  BY <1>1, <1>2 DEF FewerOf
<1>4. pushed - q \in LoudAges(FewerOf(pushed - since, n))
  BY <1>3 DEF LoudAges
<1> QED
  BY <1>4 DEF LoudSince

\* A push adds frames, and moves nothing that was there.
LEMMA PushIs ==
  ASSUME DisplaysTypeOK, PushFrames
  PROVE  /\ DisplaysTypeOK' /\ pushed < pushed' /\ pushed' <= lastSeenCount + MaxStall
         /\ \A q \in loud' : q \in loud \/ q >= pushed
         /\ loud \subseteq loud'
<1>1. PICK n \in 1..MaxBlock : \E L \in SUBSET (pushed..(pushed + n - 1)) :
             /\ pushed + n <= MaxPlayed /\ pushed + n - lastSeenCount <= MaxStall
             /\ pushed' = pushed + n /\ loud' = loud \cup L
  BY DEF PushFrames
<1>2. PICK L \in SUBSET (pushed..(pushed + n - 1)) :
             /\ pushed + n <= MaxPlayed /\ pushed + n - lastSeenCount <= MaxStall
             /\ pushed' = pushed + n /\ loud' = loud \cup L
  BY <1>1
<1>3. n \in Nat \ {0} /\ pushed \in Nat /\ loud \subseteq 0..(pushed - 1)
  BY DisplaysAssumption DEF DisplaysTypeOK
<1>4. pushed' \in 0..MaxPlayed /\ loud' \subseteq 0..(pushed' - 1)
  BY <1>2, <1>3, DisplaysAssumption
<1>5. opened \in 0..pushed' /\ lastSeenCount \in 0..pushed' /\ fftSeenCount \in 0..pushed'
  BY <1>2, <1>3 DEF DisplaysTypeOK
<1>6. UNCHANGED <<playing, settings, opened, scopeVars, fftVars>>
  BY DEF PushFrames
<1>7. DisplaysTypeOK'
  <2>1. StreamTyped'
    BY <1>4, <1>5, <1>6, TypeIs DEF StreamTyped, scopeVars, fftVars
  <2>2. CountsTyped'
    BY <1>4, <1>5, <1>6, TypeIs DEF StreamTyped, CountsTyped, scopeVars, fftVars
  <2>3. FlagsTyped'
    BY <1>4, <1>5, <1>6, TypeIs DEF FlagsTyped, scopeVars, fftVars
  <2>4. ImagesTyped'
    BY <1>4, <1>5, <1>6, TypeIs DEF ImagesTyped, scopeVars, fftVars
  <2> QED
    BY <2>1, <2>2, <2>3, <2>4 DEF DisplaysTypeOK, StreamTyped, CountsTyped, FlagsTyped, ImagesTyped
<1>8. ASSUME NEW q \in loud' PROVE q \in loud \/ q >= pushed
  <2>1. q \in loud \/ q \in pushed..(pushed + n - 1)
    BY <1>2
  <2>2. n \in Nat /\ pushed \in Nat
    BY <1>3
  <2> QED
    BY <2>1, <2>2
<1>9. pushed < pushed'
  <2>1. n \in Nat /\ n > 0 /\ pushed \in Nat /\ pushed' = pushed + n
    BY <1>2, <1>3
  <2> QED
    BY <2>1
<1>11. pushed' <= lastSeenCount + MaxStall
  <2>1. PICK a \in Nat : a = lastSeenCount
    BY <1>3 DEF DisplaysTypeOK
  <2>2. pushed + n - a <= MaxStall /\ pushed' = pushed + n
    BY <1>2, <2>1
  <2>3. pushed + n <= a + MaxStall
    BY <1>3, <2>2, DisplaysAssumption
  <2> QED
    BY <2>1, <2>2, <2>3
<1>10. loud \subseteq loud'
  BY <1>2
<1> QED
  BY <1>7, <1>8, <1>9, <1>10, <1>11

-----------------------------------------------------------------------------
(* Each action keeps the invariant. *)

LEMMA InitHolds == DisplaysInit => DisplaysInv
<1> SUFFICES ASSUME DisplaysInit PROVE DisplaysInv
  OBVIOUS
<1>1. DisplaysTypeOK
  <2>1. StreamTyped
    BY DisplaysAssumption DEF DisplaysInit, StreamTyped
  <2>2. CountsTyped
    BY DisplaysAssumption DEF DisplaysInit, CountsTyped
  <2>3. FlagsTyped /\ ImagesTyped
    BY DEF DisplaysInit, FlagsTyped, ImagesTyped
  <2> QED
    BY <2>1, <2>2, <2>3, TypeIs
<1>2. SpectrumInv
  BY <1>1, DisplaysAssumption DEF DisplaysInit, SpectrumInv
<1>3. PictureInv
  BY DisplaysAssumption DEF DisplaysInit, PictureInv
<1> QED
  BY <1>1, <1>2, <1>3 DEF DisplaysInv

LEMMA PushKeeps == ASSUME DisplaysInv, PushFrames PROVE DisplaysInv'
<1>1. DisplaysTypeOK /\ SpectrumInv
  BY DEF DisplaysInv
<1>2. /\ DisplaysTypeOK' /\ pushed < pushed' /\ pushed' <= lastSeenCount + MaxStall
      /\ \A q \in loud' : q \in loud \/ q >= pushed
      /\ loud \subseteq loud'
  BY <1>1, PushIs
<1>3. UNCHANGED <<playing, settings, opened, scopeVars, fftVars>>
  BY DEF PushFrames
<1>4. SpectrumInv'
  BY <1>1, <1>2, <1>3, DisplaysAssumption DEF SpectrumInv, DisplaysTypeOK, fftVars
<1>5. ASSUME Steady PROVE PictureInv'
  <2>1. PictureInv
    BY <1>5 DEF DisplaysInv
  <2>2. ASSUME ~frameDirty PROVE \E t \in lastSeenCount..pushed' : picture = AgesAt(t, windowFrames)'
    <3>1. PICK t \in lastSeenCount..pushed : picture = AgesAt(t, windowFrames)
      BY <2>1, <2>2 DEF PictureInv
    <3>2. {q \in loud' : q < t /\ t <= q + windowFrames} = {q \in loud : q < t /\ t <= q + windowFrames}
      <4>1. ASSUME NEW q \in loud', q < t PROVE q \in loud
        <5>1. q \in loud \/ q >= pushed
          BY <1>2
        <5>2. q \in Nat /\ pushed \in Nat /\ t \in Nat /\ t <= pushed
          BY <1>1, <1>2, <4>1 DEF DisplaysTypeOK
        <5> QED
          BY <4>1, <5>1, <5>2
      <4> QED
        BY <1>2, <4>1
    <3>3. {t - pos : pos \in {q \in loud' : q < t /\ t <= q + windowFrames}} = AgesAt(t, windowFrames)
      BY <3>2 DEF AgesAt
    <3>4. t \in lastSeenCount..pushed'
      BY <1>1, <1>2 DEF DisplaysTypeOK
    <3>5. picture = {t - pos : pos \in {q \in loud' : q < t /\ t <= q + windowFrames}}
      BY <3>1, <3>3
    <3>6. windowFrames' = windowFrames
      BY <1>3 DEF scopeVars
    <3>7. \E s \in lastSeenCount..pushed' :
             picture = {s - pos : pos \in {q \in loud' : q < s /\ s <= q + windowFrames}}
      BY <3>4, <3>5
    <3> QED
      BY <3>6, <3>7 DEF AgesAt
  <2> QED
    BY <1>1, <1>2, <1>3, <2>1, <2>2 DEF PictureInv, DisplaysTypeOK, scopeVars
<1> QED
  BY <1>2, <1>4, <1>5 DEF DisplaysInv, Steady

LEMMA StopKeeps == ASSUME DisplaysInv, StopOrStart PROVE DisplaysInv'
<1>1. DisplaysTypeOK /\ SpectrumInv /\ (Steady => PictureInv)
  BY DEF DisplaysInv
<1>2. DisplaysTypeOK'
  <2>1. StreamTyped'
    BY <1>1, TypeIs DEF StreamTyped, StopOrStart, scopeVars, fftVars
  <2>2. CountsTyped'
    BY <1>1, TypeIs DEF StreamTyped, CountsTyped, StopOrStart, scopeVars, fftVars
  <2>3. FlagsTyped'
    BY <1>1, TypeIs DEF FlagsTyped, StopOrStart, scopeVars, fftVars
  <2>4. ImagesTyped'
    BY <1>1, TypeIs DEF ImagesTyped, StopOrStart, scopeVars, fftVars
  <2> QED
    BY <2>1, <2>2, <2>3, <2>4 DEF DisplaysTypeOK, StreamTyped, CountsTyped, FlagsTyped, ImagesTyped
<1>3. SpectrumInv'
  BY <1>1 DEF SpectrumInv, StopOrStart, scopeVars, fftVars, LoudAges
<1>4. PictureInv => PictureInv'
  BY DEF PictureInv, StopOrStart, scopeVars, fftVars, AgesAt
<1> QED
  BY <1>1, <1>2, <1>3, <1>4 DEF DisplaysInv, Steady

LEMMA OpenKeeps == ASSUME DisplaysInv, OpenEditor PROVE DisplaysInv'
<1>1. DisplaysTypeOK
  BY DEF DisplaysInv
<1>2. DisplaysTypeOK'
  <2>1. StreamTyped'
    BY <1>1, DisplaysAssumption, TypeIs DEF StreamTyped, OpenEditor, stream
  <2>2. CountsTyped'
    BY <1>1, DisplaysAssumption, TypeIs DEF StreamTyped, CountsTyped, OpenEditor, stream
  <2>3. FlagsTyped'
    BY <1>1, DisplaysAssumption, TypeIs DEF FlagsTyped, OpenEditor, stream
  <2>4. ImagesTyped'
    BY <1>1, DisplaysAssumption, TypeIs DEF ImagesTyped, OpenEditor, stream
  <2> QED
    BY <2>1, <2>2, <2>3, <2>4 DEF DisplaysTypeOK, StreamTyped, CountsTyped, FlagsTyped, ImagesTyped
<1>3. SpectrumInv'
  BY <1>1 DEF SpectrumInv, OpenEditor, stream, DisplaysTypeOK
<1>4. PictureInv'
  <2>1. /\ pushed \in Nat /\ MaxStall \in Nat /\ \A q \in loud : q < pushed
        /\ pushed' = pushed /\ loud' = loud /\ lastSeenCount' = pushed /\ lastNonZero' = pushed
        /\ ~lastFrameSilent' /\ frameDirty'
    BY <1>1, DisplaysAssumption DEF OpenEditor, stream, DisplaysTypeOK
  <2> QED
    BY <2>1 DEF PictureInv
<1> QED
  BY <1>2, <1>3, <1>4 DEF DisplaysInv

LEMMA SettingKeeps == ASSUME DisplaysInv, SetPersistence PROVE DisplaysInv'
<1>1. DisplaysTypeOK /\ SpectrumInv
  BY DEF DisplaysInv
<1>2. DisplaysTypeOK'
  <2>1. StreamTyped'
    BY <1>1, DisplaysAssumption, TypeIs DEF StreamTyped, SetPersistence, stream, fftVars
  <2>2. CountsTyped'
    BY <1>1, DisplaysAssumption, TypeIs DEF StreamTyped, CountsTyped, SetPersistence, stream, fftVars
  <2>3. FlagsTyped'
    BY <1>1, DisplaysAssumption, TypeIs DEF FlagsTyped, SetPersistence, stream, fftVars
  <2>4. ImagesTyped'
    BY <1>1, DisplaysAssumption, TypeIs DEF ImagesTyped, SetPersistence, stream, fftVars
  <2> QED
    BY <2>1, <2>2, <2>3, <2>4 DEF DisplaysTypeOK, StreamTyped, CountsTyped, FlagsTyped, ImagesTyped
<1>3. SpectrumInv'
  BY <1>1 DEF SpectrumInv, SetPersistence, stream, fftVars, LoudAges
<1>4. ASSUME Steady PROVE PictureInv'
  <2>1. PictureInv /\ windowFrames' = windowFrames
    BY <1>1, <1>4 DEF DisplaysInv, Steady, SetPersistence, DisplaysTypeOK
  <2> QED
    BY <2>1 DEF PictureInv, SetPersistence, stream
<1> QED
  BY <1>2, <1>3, <1>4 DEF DisplaysInv, Steady

LEMMA PollKeeps == ASSUME DisplaysInv, PollNewSamples PROVE DisplaysInv'
<1>1. DisplaysTypeOK /\ SpectrumInv
  BY DEF DisplaysInv
<1>2. /\ lastSeenCount' = pushed /\ lastNonZero' \in {pushed, lastNonZero}
      /\ LoudSince(lastSeenCount, HistoryFrames) # {} => lastNonZero' = pushed
      /\ lastFrameSilent' = (pushed - lastNonZero' >= windowFrames)
      /\ frameDirty' = (frameDirty \/ ~(lastFrameSilent' /\ lastFrameSilent))
      /\ repaintAsked' = (repaintAsked \/ frameDirty')
      /\ UNCHANGED <<stream, settings, opened, windowFrames, picture, fftVars>>
  BY DEF PollNewSamples
<1>3. DisplaysTypeOK'
  <2>1. StreamTyped'
    BY <1>1, <1>2, TypeIs DEF StreamTyped, stream, fftVars
  <2>2. CountsTyped'
    BY <1>1, <1>2, TypeIs DEF StreamTyped, CountsTyped, stream, fftVars
  <2>3. FlagsTyped'
    BY <1>1, <1>2, TypeIs DEF FlagsTyped, stream, fftVars
  <2>4. ImagesTyped'
    BY <1>1, <1>2, TypeIs DEF ImagesTyped, stream, fftVars
  <2> QED
    BY <2>1, <2>2, <2>3, <2>4 DEF DisplaysTypeOK, StreamTyped, CountsTyped, FlagsTyped, ImagesTyped
<1>4. SpectrumInv'
  BY <1>1, <1>2 DEF SpectrumInv, stream, fftVars, LoudAges
<1>5. ASSUME Steady PROVE PictureInv'
  <2>1. PictureInv /\ MaxStall <= HistoryFrames
    BY <1>5 DEF DisplaysInv, Steady
  <2>2. /\ pushed \in Nat /\ lastSeenCount \in 0..pushed /\ lastNonZero \in 0..pushed /\ windowFrames \in 0..HistoryFrames
        /\ windowFrames \in Nat \ {0} /\ HistoryFrames \in Nat /\ \A q \in loud : q \in Nat /\ q < pushed
    BY <1>1, DisplaysAssumption DEF DisplaysTypeOK
  <2>3. ASSUME NEW q \in loud PROVE q < lastNonZero'
    <3>1. CASE LoudSince(lastSeenCount, HistoryFrames) = {}
      <4>1. q < lastSeenCount \/ q + HistoryFrames < pushed
        BY <1>1, <2>2, <3>1, SinceIs
      <4> QED
        BY <1>2, <2>1, <2>2, <4>1, DisplaysAssumption DEF PictureInv
    <3>2. CASE lastNonZero' = pushed
      BY <2>2, <3>2
    <3> QED
      BY <1>2, <3>1, <3>2
  <2>4. lastFrameSilent' => lastNonZero' + windowFrames <= pushed
    <3>1. PICK z \in Nat : z = lastNonZero'
      BY <1>2, <2>2
    <3>2. lastFrameSilent' => pushed - z >= windowFrames
      BY <1>2, <3>1
    <3>3. ASSUME lastFrameSilent' PROVE z + windowFrames <= pushed
      BY <2>2, <3>2, <3>3
    <3> QED
      BY <3>1, <3>3
  <2>5. ASSUME ~frameDirty' PROVE picture = AgesAt(pushed, windowFrames)
    <3>1. /\ ~frameDirty /\ lastFrameSilent
          /\ lastNonZero' + windowFrames <= pushed /\ lastNonZero' = lastNonZero
      <4>1. ~frameDirty /\ lastFrameSilent /\ lastFrameSilent'
        BY <1>2, <2>5
      <4>2. lastNonZero' + windowFrames <= pushed
        BY <2>4, <4>1
      <4>3. lastNonZero' # pushed
        BY <2>2, <4>2
      <4> QED
        BY <1>2, <4>1, <4>2, <4>3
    <3>2. lastNonZero + windowFrames <= lastSeenCount /\ \A q \in loud : q < lastNonZero
      BY <2>1, <2>3, <3>1 DEF PictureInv
    <3>3. PICK t \in lastSeenCount..pushed : picture = AgesAt(t, windowFrames)
      BY <2>1, <3>1 DEF PictureInv
    <3>4. \A q \in loud : q + windowFrames < t /\ q + windowFrames < pushed
      BY <2>2, <3>2
    <3>5. \A q \in loud : ~(t <= q + windowFrames) /\ ~(pushed <= q + windowFrames)
      BY <2>2, <3>4
    <3>6. AgesAt(t, windowFrames) = {} /\ AgesAt(pushed, windowFrames) = {}
      BY <3>5 DEF AgesAt
    <3> QED
      BY <3>3, <3>6
  <2>6. pushed' = pushed /\ loud' = loud /\ windowFrames' = windowFrames /\ picture' = picture
    BY <1>2 DEF stream
  <2>7. ~frameDirty' => \E t \in lastSeenCount'..pushed' : picture' = AgesAt(t, windowFrames)'
    BY <1>2, <2>2, <2>5, <2>6 DEF AgesAt
  <2>8. pushed' <= lastSeenCount' + MaxStall
    BY <1>2, <2>2, <2>6, DisplaysAssumption
  <2>9. \A q \in loud' : q < lastSeenCount' => q < lastNonZero'
    BY <2>3, <2>6
  <2>10. lastFrameSilent' => lastNonZero' + windowFrames' <= lastSeenCount'
    BY <1>2, <2>4, <2>6
  <2> QED
    BY <2>7, <2>8, <2>9, <2>10 DEF PictureInv
<1> QED
  BY <1>3, <1>4, <1>5 DEF DisplaysInv, Steady

LEMMA PaintKeeps == ASSUME DisplaysInv, PaintAccepted PROVE DisplaysInv'
<1>1. DisplaysTypeOK /\ SpectrumInv
  BY DEF DisplaysInv
<1>2. windowFrames \in 0..HistoryFrames /\ windowFrames \in Nat
  BY <1>1, DisplaysAssumption DEF DisplaysTypeOK
<1>3. LoudAges(windowFrames) \subseteq 1..windowFrames /\ LoudAges(windowFrames) = AgesAt(pushed, windowFrames)
  BY <1>1, <1>2, AgesAre
<1>4. DisplaysTypeOK'
  <2>1. StreamTyped'
    BY <1>1, <1>2, <1>3, DisplaysAssumption, TypeIs DEF StreamTyped, PaintAccepted, stream, fftVars
  <2>2. CountsTyped'
    BY <1>1, <1>2, <1>3, DisplaysAssumption, TypeIs DEF StreamTyped, CountsTyped, PaintAccepted, stream, fftVars
  <2>3. FlagsTyped'
    BY <1>1, <1>2, <1>3, DisplaysAssumption, TypeIs DEF FlagsTyped, PaintAccepted, stream, fftVars
  <2>4. ImagesTyped'
    BY <1>1, <1>2, <1>3, DisplaysAssumption, TypeIs DEF ImagesTyped, PaintAccepted, stream, fftVars
  <2> QED
    BY <2>1, <2>2, <2>3, <2>4 DEF DisplaysTypeOK, StreamTyped, CountsTyped, FlagsTyped, ImagesTyped
<1>5. SpectrumInv'
  BY <1>1 DEF SpectrumInv, PaintAccepted, stream, fftVars, LoudAges
<1>6. ASSUME Steady PROVE PictureInv'
  <2>1. PictureInv
    BY <1>6 DEF DisplaysInv
  <2>2. pushed \in lastSeenCount..pushed
    BY <1>1 DEF DisplaysTypeOK
  <2>3. \E t \in lastSeenCount..pushed : picture' = AgesAt(t, windowFrames)
    BY <1>3, <2>2 DEF PaintAccepted
  <2> QED
    BY <2>1, <2>3 DEF PictureInv, PaintAccepted, stream, AgesAt
<1> QED
  BY <1>4, <1>5, <1>6 DEF DisplaysInv, Steady

LEMMA RestKeeps == ASSUME DisplaysInv, PollNothing \/ PaintRejected \/ WakeRejected PROVE DisplaysInv'
<1>1. DisplaysTypeOK /\ SpectrumInv /\ (Steady => PictureInv)
  BY DEF DisplaysInv
<1>2. /\ UNCHANGED <<stream, settings, opened, windowFrames, lastSeenCount, lastNonZero, lastFrameSilent,
                     picture, fftSeenCount, fftNonZero, lastWindowSilent, fftData>>
      /\ (frameDirty => frameDirty') /\ (fftWoken' => fftWoken)
      /\ frameDirty' \in BOOLEAN /\ fftWoken' \in BOOLEAN /\ repaintAsked' \in BOOLEAN
  <2>1. CASE PollNothing
    BY <1>1, <2>1 DEF PollNothing, fftVars, DisplaysTypeOK
  <2>2. CASE PaintRejected
    BY <1>1, <2>2 DEF PaintRejected, fftVars, DisplaysTypeOK
  <2>3. CASE WakeRejected
    BY <1>1, <2>3 DEF WakeRejected, scopeVars, DisplaysTypeOK
  <2> QED
    BY <2>1, <2>2, <2>3
<1>3. DisplaysTypeOK'
  <2>1. StreamTyped'
    BY <1>1, <1>2, TypeIs DEF StreamTyped, stream
  <2>2. CountsTyped'
    BY <1>1, <1>2, TypeIs DEF StreamTyped, CountsTyped, stream
  <2>3. FlagsTyped'
    BY <1>1, <1>2, TypeIs DEF FlagsTyped, stream
  <2>4. ImagesTyped'
    BY <1>1, <1>2, TypeIs DEF ImagesTyped, stream
  <2> QED
    BY <2>1, <2>2, <2>3, <2>4 DEF DisplaysTypeOK, StreamTyped, CountsTyped, FlagsTyped, ImagesTyped
<1>4. SpectrumInv'
  BY <1>1, <1>2 DEF SpectrumInv, stream, LoudAges
<1>5. PictureInv => PictureInv'
  BY <1>2 DEF PictureInv, stream, AgesAt
<1> QED
  BY <1>1, <1>3, <1>4, <1>5 DEF DisplaysInv, Steady

\* pushFFT() touches nothing of the vectorscope.
LEMMA PushFFTKeepsPicture ==
  ASSUME DisplaysInv, AnalyseWindow \/ ScanTail \/ WakeUp
  PROVE  Steady => PictureInv'
<1>1. UNCHANGED <<pushed, loud, windowFrames, lastSeenCount, lastNonZero, lastFrameSilent, frameDirty, picture>>
  BY DEF AnalyseWindow, ScanTail, WakeUp, stream, scopeVars
<1>2. PictureInv => PictureInv'
  BY <1>1 DEF PictureInv, AgesAt
<1> QED
  BY <1>2 DEF DisplaysInv

\* The numbers a read of the spectrum works with.
LEMMA FftNumbers ==
  ASSUME DisplaysTypeOK
  PROVE  /\ pushed \in Nat /\ fftSeenCount \in 0..pushed /\ fftNonZero \in 0..pushed /\ opened \in 0..pushed
         /\ FftSize \in 1..HistoryFrames /\ FftSize \in 0..HistoryFrames /\ FftSize \in Nat
         /\ \A q \in loud : q \in Nat /\ q < pushed
         /\ LoudAges(FftSize) \subseteq 1..FftSize
  BY AgesAre, DisplaysAssumption DEF DisplaysTypeOK

LEMMA AnalyseKeeps == ASSUME DisplaysInv, AnalyseWindow PROVE DisplaysInv'
<1>1. DisplaysTypeOK /\ SpectrumInv
  BY DEF DisplaysInv
<1>2. /\ pushed \in Nat /\ fftSeenCount \in 0..pushed /\ fftNonZero \in 0..pushed /\ opened \in 0..pushed
      /\ FftSize \in 1..HistoryFrames /\ FftSize \in 0..HistoryFrames /\ FftSize \in Nat
      /\ \A q \in loud : q \in Nat /\ q < pushed
      /\ LoudAges(FftSize) \subseteq 1..FftSize
  BY <1>1, FftNumbers
<1>3. /\ ~fftWoken /\ fftSeenCount' = pushed /\ fftNonZero' \in {pushed, fftNonZero}
      /\ LoudSince(fftSeenCount, FftSize) # {} => fftNonZero' = pushed
      /\ lastWindowSilent' = (pushed - fftNonZero' >= FftSize)
      /\ lastWindowSilent' => fftData' = {}
      /\ ~lastWindowSilent' => fftData' = IF pushed < FftSize THEN fftData ELSE LoudAges(FftSize)
      /\ UNCHANGED <<stream, settings, opened, scopeVars, fftWoken>>
  BY DEF AnalyseWindow, Transform
<1>4. DisplaysTypeOK'
  <2>1. fftData' \subseteq 1..FftSize
    BY <1>1, <1>2, <1>3 DEF DisplaysTypeOK
  <2> QED
    BY <1>1, <1>2, <1>3, <2>1 DEF DisplaysTypeOK, stream, scopeVars
<1>5. ASSUME NEW q \in loud, pushed <= q + FftSize PROVE q < fftNonZero'
  <2>1. CASE LoudSince(fftSeenCount, FftSize) = {}
    <3>1. q < fftSeenCount \/ q + FftSize < pushed
      BY <1>1, <1>2, <2>1, SinceIs
    <3>2. q < fftSeenCount /\ fftSeenCount <= q + FftSize
      BY <1>2, <1>5, <3>1
    <3> QED
      BY <1>1, <1>2, <1>3, <3>2 DEF SpectrumInv
  <2>2. CASE fftNonZero' = pushed
    BY <1>2, <2>2
  <2> QED
    BY <1>3, <2>1, <2>2
<1>6. LoudAges(FftSize)' = LoudAges(FftSize)
  BY <1>3 DEF LoudAges, stream
<1>7. SpectrumInv'
  <2>1. PICK z \in Nat : z = fftNonZero'
    BY <1>2, <1>3
  <2>2. lastWindowSilent' => pushed - z >= FftSize
    BY <1>3, <2>1
  <2>3. ASSUME lastWindowSilent' PROVE z + FftSize <= pushed /\ fftData' = {}
    <3>1. fftData' = {}
      BY <1>3, <2>3
    <3>2. pushed - z >= FftSize
      BY <2>2, <2>3
    <3>3. z + FftSize <= pushed
      BY <1>2, <3>2
    <3> QED
      BY <3>1, <3>3
  <2>4. ASSUME ~lastWindowSilent', pushed >= FftSize PROVE fftData' = LoudAges(FftSize)
    BY <1>2, <1>3, <2>4
  <2>5. pushed' = pushed /\ loud' = loud /\ opened' = opened /\ ~fftWoken' /\ fftSeenCount' = pushed
    BY <1>3 DEF stream
  <2>6. \A q \in loud' : fftSeenCount' <= q + FftSize /\ q < fftSeenCount' => q < fftNonZero'
    BY <1>5, <2>5
  <2>7. lastWindowSilent' => fftNonZero' + FftSize <= fftSeenCount' /\ fftData' = {}
    BY <2>1, <2>3, <2>5
  <2>8. ~lastWindowSilent' /\ pushed' >= FftSize => fftData' = LoudAges(FftSize)'
    BY <1>6, <2>4, <2>5
  <2>9. opened' <= fftSeenCount'
    BY <1>2, <2>5
  <2> QED
    BY <2>5, <2>6, <2>7, <2>8, <2>9 DEF SpectrumInv
<1> QED
  BY <1>4, <1>7, PushFFTKeepsPicture DEF DisplaysInv, Steady

LEMMA ScanKeeps == ASSUME DisplaysInv, ScanTail PROVE DisplaysInv'
<1>1. DisplaysTypeOK /\ SpectrumInv
  BY DEF DisplaysInv
<1>2. /\ pushed \in Nat /\ fftSeenCount \in 0..pushed /\ fftNonZero \in 0..pushed /\ opened \in 0..pushed
      /\ FftSize \in 1..HistoryFrames /\ FftSize \in 0..HistoryFrames /\ FftSize \in Nat
      /\ \A q \in loud : q \in Nat /\ q < pushed
  BY <1>1, FftNumbers
<1>3. /\ ~fftWoken /\ lastWindowSilent /\ pushed # fftSeenCount
      /\ UNCHANGED <<stream, settings, opened, scopeVars, fftNonZero, lastWindowSilent, fftData>>
      /\ \/ LoudSince(fftSeenCount, FftSize) = {} /\ fftSeenCount' = pushed /\ UNCHANGED fftWoken
         \/ fftWoken' = TRUE /\ UNCHANGED fftSeenCount
  BY DEF ScanTail
<1>4. DisplaysTypeOK'
  <2>1. StreamTyped'
    BY <1>1, <1>2, <1>3, TypeIs DEF StreamTyped, stream, scopeVars
  <2>2. CountsTyped'
    BY <1>1, <1>2, <1>3, TypeIs DEF StreamTyped, CountsTyped, stream, scopeVars
  <2>3. FlagsTyped'
    BY <1>1, <1>2, <1>3, TypeIs DEF FlagsTyped, stream, scopeVars
  <2>4. ImagesTyped'
    BY <1>1, <1>2, <1>3, TypeIs DEF ImagesTyped, stream, scopeVars
  <2> QED
    BY <2>1, <2>2, <2>3, <2>4 DEF DisplaysTypeOK, StreamTyped, CountsTyped, FlagsTyped, ImagesTyped
<1>5. CASE LoudSince(fftSeenCount, FftSize) = {} /\ fftSeenCount' = pushed /\ UNCHANGED fftWoken
  <2>1. ASSUME NEW q \in loud, pushed <= q + FftSize PROVE q < fftNonZero
    <3>1. q < fftSeenCount \/ q + FftSize < pushed
      BY <1>1, <1>2, <1>5, SinceIs
    <3>2. q < fftSeenCount /\ fftSeenCount <= q + FftSize
      BY <1>2, <2>1, <3>1
    <3> QED
      BY <1>1, <1>2, <3>2 DEF SpectrumInv
  <2> QED
    BY <1>1, <1>2, <1>3, <1>4, <1>5, <2>1, PushFFTKeepsPicture DEF DisplaysInv, Steady, SpectrumInv, stream
<1>6. CASE fftWoken' = TRUE /\ UNCHANGED fftSeenCount
  BY <1>1, <1>2, <1>3, <1>4, <1>6, PushFFTKeepsPicture DEF DisplaysInv, Steady, SpectrumInv, stream
<1> QED
  BY <1>3, <1>5, <1>6

LEMMA WakeKeeps == ASSUME DisplaysInv, WakeUp PROVE DisplaysInv'
<1>1. DisplaysTypeOK /\ SpectrumInv
  BY DEF DisplaysInv
<1>2. /\ pushed \in Nat /\ fftSeenCount \in 0..pushed /\ fftNonZero \in 0..pushed /\ opened \in 0..pushed
      /\ FftSize \in Nat /\ \A q \in loud : q \in Nat /\ q < pushed
      /\ LoudAges(FftSize) \subseteq 1..FftSize
  BY <1>1, FftNumbers
<1>3. /\ fftWoken' = FALSE /\ fftSeenCount' = pushed /\ fftNonZero' = pushed /\ lastWindowSilent' = FALSE
      /\ fftData' = IF pushed < FftSize THEN fftData ELSE LoudAges(FftSize)
      /\ UNCHANGED <<stream, settings, opened, scopeVars>>
  BY DEF WakeUp, Transform
<1>4. fftData' \subseteq 1..FftSize
  BY <1>1, <1>2, <1>3 DEF DisplaysTypeOK
<1>5. DisplaysTypeOK'
  <2>1. StreamTyped'
    BY <1>1, <1>2, <1>3, <1>4, TypeIs DEF StreamTyped, stream, scopeVars
  <2>2. CountsTyped'
    BY <1>1, <1>2, <1>3, <1>4, TypeIs DEF StreamTyped, CountsTyped, stream, scopeVars
  <2>3. FlagsTyped'
    BY <1>1, <1>2, <1>3, <1>4, TypeIs DEF FlagsTyped, stream, scopeVars
  <2>4. ImagesTyped'
    BY <1>1, <1>2, <1>3, <1>4, TypeIs DEF ImagesTyped, stream, scopeVars
  <2> QED
    BY <2>1, <2>2, <2>3, <2>4 DEF DisplaysTypeOK, StreamTyped, CountsTyped, FlagsTyped, ImagesTyped
<1>6. SpectrumInv'
  BY <1>2, <1>3 DEF SpectrumInv, LoudAges, stream
<1> QED
  BY <1>5, <1>6, PushFFTKeepsPicture DEF DisplaysInv, Steady

LEMMA StutterKeeps == ASSUME DisplaysInv, UNCHANGED displayVars PROVE DisplaysInv'
  BY DEF DisplaysInv, Steady, DisplaysTypeOK, SpectrumInv, PictureInv, AgesAt, LoudAges, displayVars, stream, scopeVars, fftVars

-----------------------------------------------------------------------------
(* The theorems. *)

\* What each display remembers of the frames it read, and what it shows of them, stay
\* together as the inductive invariant says (Vectorscope.cpp, SpectrumImager.cpp).
THEOREM DisplaysInvariant == DisplaysSpec => []DisplaysInv
<1>1. DisplaysInv /\ [DisplaysNext]_displayVars => DisplaysInv'
  BY PushKeeps, StopKeeps, OpenKeeps, SettingKeeps, PollKeeps, PaintKeeps, RestKeeps, AnalyseKeeps,
     ScanKeeps, WakeKeeps, StutterKeeps DEF DisplaysNext, PushFFT
<1> QED
  BY <1>1, InitHolds, PTL DEF DisplaysSpec

LEMMA SpectrumIs == ASSUME DisplaysInv PROVE SpectrumUpToDate
<1>1. DisplaysTypeOK /\ SpectrumInv
  BY DEF DisplaysInv
<1>2. pushed \in Nat /\ fftNonZero \in 0..pushed /\ FftSize \in 0..HistoryFrames /\ FftSize \in Nat
      /\ \A q \in loud : q \in Nat /\ q < pushed
  BY <1>1, FftNumbers
<1>3. ASSUME lastWindowSilent, fftSeenCount = pushed PROVE fftData = LoudAges(FftSize)
  <2>1. \A q \in loud : q + FftSize < pushed
    BY <1>1, <1>2, <1>3 DEF SpectrumInv
  <2>2. LoudAges(FftSize) = {}
    BY <1>1, <1>2, <2>1, AgesAre
  <2> QED
    BY <1>1, <1>3, <2>2 DEF SpectrumInv
<1> QED
  BY <1>1, <1>3 DEF SpectrumUpToDate, SpectrumInv

\* A spectrum that has read all there is shows it, whatever silences, wake-ups that a
\* block broke into, rejected reads and reopened editors came before, and whatever the
\* vectorscope does (pushFFT()).
THEOREM SpectrumAlwaysUpToDate == DisplaysSpec => []SpectrumUpToDate
  BY SpectrumIs, DisplaysInvariant, PTL

\* Neither display rests on an old picture where the vectorscope's window keeps its
\* length and it polls in time: with another window, or a later poll, it does
\* (pollNewSamples() and the gate over it).
THEOREM DisplaysAlwaysFresh == ASSUME Steady PROVE DisplaysSpec => []DisplaysFresh
<1>1. ASSUME DisplaysInv PROVE DisplaysFresh
  <2>1. DisplaysTypeOK /\ PictureInv
    BY <1>1 DEF DisplaysInv
  <2>2. windowFrames \in 0..HistoryFrames /\ pushed \in Nat
    BY <2>1, DisplaysAssumption DEF DisplaysTypeOK
  <2>3. ASSUME lastSeenCount = pushed, ~frameDirty PROVE picture = LoudAges(windowFrames)
    <3>1. PICK t \in lastSeenCount..pushed : picture = AgesAt(t, windowFrames)
      BY <2>1, <2>3 DEF PictureInv
    <3>2. t = pushed
      BY <2>2, <2>3
    <3> QED
      BY <2>1, <2>2, <3>1, <3>2, AgesAre
  <2> QED
    BY <1>1, <2>1, <2>3, SpectrumIs DEF DisplaysFresh, PictureUpToDate
<1> QED
  BY <1>1, DisplaysInvariant, PTL
=============================================================================
