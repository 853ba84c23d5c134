---------------------------- MODULE ScopeWindow ----------------------------
(***************************************************************************)
(* What the scope's history buffer promises (ADR-0070): a reader takes the *)
(* number of frames published so far, and either gets the frames up to     *)
(* there, every one of them the one that was pushed at its position, or is *)
(* rejected and keeps what it had.                                         *)
(***************************************************************************)
EXTENDS Integers

CONSTANT Limit    \* the most frames one read returns

VARIABLES
  published,      \* frames pushed so far
  seen,           \* where the attempt in progress ends, or NoAttempt
  window          \* the accepted window: its end, and its frames by position

vars == <<published, seen, window>>

NoAttempt == -1

\* The frames of the window of `count` frames that ends at `end`.
Exact(end, count) == [end |-> end, frames |-> [i \in 1..count |-> end - count + i - 1]]

Init ==
  /\ published = 0
  /\ seen = NoAttempt
  /\ window = Exact(0, 0)

Publish ==
  /\ published' \in Nat /\ published' >= published
  /\ UNCHANGED <<seen, window>>

Begin ==
  /\ seen = NoAttempt
  /\ seen' = published
  /\ UNCHANGED <<published, window>>

Accept ==
  /\ seen # NoAttempt
  /\ \E count \in 0..Limit : count <= seen /\ window' = Exact(seen, count)
  /\ seen' = NoAttempt
  /\ UNCHANGED published

Reject ==
  /\ seen # NoAttempt
  /\ seen' = NoAttempt
  /\ UNCHANGED <<published, window>>

Next == Publish \/ Begin \/ Accept \/ Reject

Spec == Init /\ [][Next]_vars
=============================================================================
