---------------------------- MODULE ScopeBuffer ----------------------------
(***************************************************************************)
(* The scope's history ring (ADR-0070): the audio thread pushes blocks of  *)
(* frames without ever waiting, the GUI copies the newest ones out frame   *)
(* by frame while pushing goes on, and the caches the displays draw from   *)
(* (ScopeSnapshotCache) keep only copies that are whole.                   *)
(*                                                                         *)
(* A frame is represented by its position in the stream, which its slot    *)
(* should hold.  Every store is a release and every load an acquire, on    *)
(* slots one thread writes, so the interleaving of single accesses below   *)
(* is the memory model's.  A 64-bit position does not wrap in practice and *)
(* is unbounded here.                                                      *)
(***************************************************************************)
EXTENDS Integers

CONSTANTS
  Capacity,       \* slots of the ring, 2^14 in the code
  Limit,          \* frames of the cache
  MaxPush,        \* bound: frames in one block
  MaxFrames       \* bound: frames pushed in one behaviour

ASSUME ScopeAssumption ==
  /\ Capacity \in Nat \ {0}
  /\ Limit \in 0..Capacity
  /\ MaxPush \in Nat
  /\ MaxFrames \in Nat

VARIABLES
  slots,          \* per slot: tag (position + 1, or 0 while in use) and frame
  write,          \* the published write index
  wpc, wpos, wend,\* pushBlock: its step, the position it is at, its end
  rpc, rpos, rend, rbegin, \* copyAt: its step, position, end and first position
  loaded,         \* the payload loaded, before the second tag check
  pending,        \* the cache's scratch frames
  accepted        \* the cache's accepted window

writer == <<slots, write, wpc, wpos, wend>>
reader == <<rpc, rpos, rend, rbegin, loaded, pending, accepted>>
vars   == <<writer, reader>>

None == -1
IndexOf(pos) == pos % Capacity
Lesser(a, b) == IF a <= b THEN a ELSE b

Init ==
  /\ slots = [i \in 0..(Capacity - 1) |-> [tag |-> 0, frame |-> None]]
  /\ write = 0
  /\ wpc = "idle" /\ wpos = 0 /\ wend = 0
  /\ rpc = "idle" /\ rpos = 0 /\ rend = 0 /\ rbegin = 0
  /\ loaded = None
  /\ pending = [i \in 1..0 |-> None]
  /\ accepted = [end |-> 0, frames |-> [i \in 1..0 |-> None]]

-----------------------------------------------------------------------------
(* The audio thread: pushBlock.                                             *)

\* Mutant: the index is published before the frames are stored.
BeginPushPublished ==
  /\ wpc = "idle"
  /\ \E n \in 0..MaxPush :
       /\ write + n <= MaxFrames
       /\ wend' = write + n
       /\ wpos' = write + n - Lesser(n, Capacity)
  /\ write' = wend'
  /\ wpc' = "claim"
  /\ UNCHANGED <<slots, reader>>

\* Of a block longer than the ring only the newest Capacity frames are stored.
BeginPush ==
  /\ wpc = "idle"
  /\ \E n \in 0..MaxPush :
       /\ write + n <= MaxFrames
       /\ wend' = write + n
       /\ wpos' = write + n - Lesser(n, Capacity)
  /\ wpc' = "claim"
  /\ UNCHANGED <<slots, write, reader>>

ClaimSlot ==
  /\ wpc = "claim" /\ wpos < wend
  /\ slots' = [slots EXCEPT ![IndexOf(wpos)].tag = 0]
  /\ wpc' = "payload"
  /\ UNCHANGED <<write, wpos, wend, reader>>

StorePayload ==
  /\ wpc = "payload"
  /\ slots' = [slots EXCEPT ![IndexOf(wpos)].frame = wpos]
  /\ wpc' = "commit"
  /\ UNCHANGED <<write, wpos, wend, reader>>

CommitSlot ==
  /\ wpc = "commit"
  /\ slots' = [slots EXCEPT ![IndexOf(wpos)].tag = wpos + 1]
  /\ wpos' = wpos + 1
  /\ wpc' = "claim"
  /\ UNCHANGED <<write, wend, reader>>

PublishIndex ==
  /\ wpc = "claim" /\ wpos = wend
  /\ write' = wend
  /\ wpc' = "idle"
  /\ UNCHANGED <<slots, wpos, wend, reader>>

-----------------------------------------------------------------------------
(* The GUI: readLatest, readSince and accept of ScopeSnapshotCache.         *)

BeginCopy(count) ==
  /\ rpc = "idle"
  /\ rend' = write
  /\ rbegin' = write - Lesser(write, count)
  /\ rpos' = rbegin'
  /\ pending' = [i \in 1..0 |-> None]
  /\ rpc' = "check"
  /\ UNCHANGED <<writer, loaded, accepted>>

\* The newest `count` frames, no more than the cache holds.
ReadLatest == \E count \in 0..Limit : BeginCopy(count)

\* The frames since an earlier read, the newest ones if there are too many.
ReadSince == \E since \in 0..write : BeginCopy(Lesser(write - since, Limit))

CheckTag ==
  /\ rpc = "check" /\ rpos < rend
  /\ slots[IndexOf(rpos)].tag = rpos + 1
  /\ rpc' = "load"
  /\ UNCHANGED <<writer, rpos, rend, rbegin, loaded, pending, accepted>>

LoadPayload ==
  /\ rpc = "load"
  /\ loaded' = slots[IndexOf(rpos)].frame
  /\ rpc' = "recheck"
  /\ UNCHANGED <<writer, rpos, rend, rbegin, pending, accepted>>

RecheckTag ==
  /\ rpc = "recheck"
  /\ slots[IndexOf(rpos)].tag = rpos + 1
  /\ pending' = [i \in 1..(rpos - rbegin + 1) |->
                   IF i = rpos - rbegin + 1 THEN loaded ELSE pending[i]]
  /\ rpos' = rpos + 1
  /\ rpc' = "check"
  /\ UNCHANGED <<writer, rend, rbegin, loaded, accepted>>

\* The slot has been reused: the whole attempt is rejected, once.
RejectCopy ==
  /\ \/ rpc = "check" /\ rpos < rend
     \/ rpc = "recheck"
  /\ slots[IndexOf(rpos)].tag # rpos + 1
  /\ rpc' = "idle"
  /\ UNCHANGED <<writer, rpos, rend, rbegin, loaded, pending, accepted>>

\* Mutant: the accepted window is dated by the index as it is by now.
AcceptAsNewest ==
  /\ rpc = "check" /\ rpos = rend
  /\ accepted' = [end |-> write, frames |-> pending]
  /\ rpc' = "idle"
  /\ UNCHANGED <<writer, rpos, rend, rbegin, loaded, pending>>

\* A complete copy: the display accepts it, or only looked for sound in it.
AcceptCopy ==
  /\ rpc = "check" /\ rpos = rend
  /\ accepted' = [end |-> rend, frames |-> pending]
  /\ rpc' = "idle"
  /\ UNCHANGED <<writer, rpos, rend, rbegin, loaded, pending>>

DropCopy ==
  /\ rpc = "check" /\ rpos = rend
  /\ rpc' = "idle"
  /\ UNCHANGED <<writer, rpos, rend, rbegin, loaded, pending, accepted>>

-----------------------------------------------------------------------------

Push == BeginPush \/ ClaimSlot \/ StorePayload \/ CommitSlot \/ PublishIndex
Copy == CheckTag \/ LoadPayload \/ RecheckTag \/ RejectCopy \/ AcceptCopy \/ DropCopy
Next == Push \/ ReadLatest \/ ReadSince \/ Copy

Spec == Init /\ [][Next]_vars

-----------------------------------------------------------------------------
(* Properties. *)

Frames == Nat \cup {None}
Slot   == [tag : Nat, frame : Frames]
Window(count) == [end : Nat, frames : [1..count -> Frames]]

\* Every variable holds a value of the code's kind.
TypeOK ==
  /\ slots \in [0..(Capacity - 1) -> Slot]
  /\ write \in Nat /\ wpos \in Nat /\ wend \in Nat
  /\ wpc \in {"idle", "claim", "payload", "commit"}
  /\ rpc \in {"idle", "check", "load", "recheck"}
  /\ rpos \in Nat /\ rend \in Nat /\ rbegin \in Nat
  /\ loaded \in Frames
  /\ \E n \in 0..Limit : pending \in [1..n -> Frames]
  /\ \E n \in 0..Limit : accepted \in Window(n)

\* The frames pushed at the `count` positions before `end`.
Exact(end, count) == [i \in 1..count |-> end - count + i - 1]

\* The accepted window is exact: consecutive positions up to its end, each
\* frame the one pushed there, whatever the writer did during the copy.
AcceptedIsExact ==
  \E count \in 0..Limit :
    count <= accepted.end /\ accepted.frames = Exact(accepted.end, count)

\* A copy is rejected only where the writer has come round to the very slot
\* being copied: a reader the writer does not lap always succeeds.
RejectOnlyWhenLapped == [][RejectCopy => wpos >= rpos + Capacity]_vars

\* The ring implements the atomic window.
Atomic == INSTANCE ScopeWindow WITH
  published <- write,
  seen      <- IF rpc = "idle" THEN -1 ELSE rend,
  window    <- accepted

Refinement == Atomic!Spec
=============================================================================
