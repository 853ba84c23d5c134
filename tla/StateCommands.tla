--------------------------- MODULE StateCommands ---------------------------
(***************************************************************************)
(* The message thread of the plug-in as a call stack.  Undo, a switch      *)
(* between slots, a copy, a preset load or save and Apply Gain replace or  *)
(* capture the whole state; each passes a gate that runs it under the      *)
(* replacement lock or puts it off onto a queue.  Every write to a         *)
(* parameter is a dispatch into the host, and every changed latency a      *)
(* callout to it; in both the host may pump the message loop, so that      *)
(* clicks, ticks and whole bursts of edits run on top of what was          *)
(* interrupted.  A host thread takes the lock to save or to install a      *)
(* restored session, which the message thread then adopts.                 *)
(*                                                                         *)
(* A counter that a scope keeps (transaction, dispatch, command, restore   *)
(* and flush depth, and the recursive lock) is the number of such frames   *)
(* on the stack.  What the commands do to sound, slots and history is left *)
(* out, and so are the doors that wait for the lock (RestoreHandoff).      *)
(***************************************************************************)
EXTENDS Integers, Sequences, FiniteSets

CONSTANTS
  Kinds,          \* which commands the user gives
  MaxCommands,    \* bound: clicks on a command
  MaxRestores,    \* bound: sessions the host restores
  MaxSaves,       \* bound: times it captures the sound
  MaxEdits,       \* bound: knobs and bursts
  MaxMoves,       \* bound: changes of the latency
  MaxPumps        \* bound: messages delivered inside a dispatch or a callout

AllKinds == {"undo", "switch", "copy", "save", "gain"}

ASSUME CommandsAssumption ==
  /\ Kinds \subseteq AllKinds
  /\ {MaxCommands, MaxRestores, MaxSaves, MaxEdits, MaxMoves, MaxPumps}
       \subseteq Nat

VARIABLES
  kind,                                \* the commands given, in order ("done": returned)
  ran,                                 \* history: those that took effect
  interrupting,                        \* history: those given during an adoption, or
                                       \*   under one that a flush took for refused
  edits, moves, pumps, saves,          \* history: counters of the bounds
  stack,                               \* the calls of the message thread, innermost first
  deferredCommands,                    \* the queue
  queued, spawned, produced,           \* the flush: left to run, asked for by those that
                                       \*   ran, asked for by the one in hand (the sink)
  deferredSinkRefused,                 \* the one in hand seems to have been refused
  hpc,                                 \* the host thread: where
  announced, pendingRestore,           \* the last restore announced, the cell (0: empty)
  adoptedGeneration,
  restoredLive,                        \* the sound is still the last restore's own
  latencyUpdateRequest, stale,         \* the flag; the host was told another latency
  apc                                  \* the audio thread: where

given    == <<kind, ran, interrupting>>
bounds   == <<edits, moves, pumps, saves>>
flushState == <<queued, spawned, produced, deferredSinkRefused>>
queues   == <<deferredCommands, flushState>>
restores == <<hpc, announced, pendingRestore, adoptedGeneration, restoredLive>>
latency  == <<latencyUpdateRequest, stale, apc>>
vars     == <<given, bounds, stack, queues, restores, latency>>

-----------------------------------------------------------------------------
(* The stack. *)

Frame(do, at) == [do |-> do, at |-> at, cmd |-> 0, seen |-> 0]
Command(c)    == [Frame("command", "gate") EXCEPT !.cmd = c]

Top        == Head(stack)
At(do, at) == stack # <<>> /\ Top.do = do /\ Top.at = at

\* "out": the caller has nothing left to do when the call returns.
Rest(at)        == IF at = "out" THEN Tail(stack)
                   ELSE <<[Top EXCEPT !.at = at]>> \o Tail(stack)
Goto(at)        == stack' = Rest(at)
Call(frame, at) == stack' = <<frame>> \o Rest(at)
Return          == Goto("out")

Calls == DOMAIN stack

\* A command past its gate: it owns the lock, or its outermost one does.
Admitted(f) == f.do = "command" /\ f.at \in {"begin", "apply", "dispatch", "close", "exit"}

\* The stores of a burst, or of Apply Gain.
Transacting(f) ==
  f.at = "dispatch" /\ (f.do = "burst" \/ (f.do = "command" /\ kind[f.cmd] = "gain"))

\* A restore being taken, written or completed.
Applying(f) == f.do = "adopt" /\ f.at \in {"cell", "dispatch", "tail"}

DepthFrom(i)      == Cardinality({j \in Calls : j >= i /\ Admitted(stack[j])})
StateCommandDepth == DepthFrom(1)
UserTransaction   == \E i \in Calls : Transacting(stack[i])
InsideDispatch    == \E i \in Calls : stack[i].at = "dispatch"
RunningDeferred   == \E i \in Calls : stack[i].do = "flush"

\* Mutant: a transaction does not matter.
AdoptFramesAlways == <<Frame("adopt", "cell")>>

\* adoptPendingHostState(FALSE) is refused inside a transaction.
AdoptFrames == IF UserTransaction THEN <<>> ELSE <<Frame("adopt", "cell")>>
AdoptPending(at) == stack' = AdoptFrames \o Rest(at)

MessageHolds ==
  \E i \in Calls : Admitted(stack[i]) \/ (stack[i].do = "adopt" /\ stack[i].at = "dispatch")
HostHolds == hpc \in {"writing", "saving"}

Init ==
  /\ kind = <<>> /\ ran = {} /\ interrupting = {}
  /\ edits = 0 /\ moves = 0 /\ pumps = 0 /\ saves = 0
  /\ stack = <<>>
  /\ deferredCommands = <<>> /\ queued = <<>> /\ spawned = <<>> /\ produced = <<>>
  /\ deferredSinkRefused = FALSE
  /\ hpc = "idle" /\ announced = 0 /\ pendingRestore = 0 /\ adoptedGeneration = 0
  /\ restoredLive = FALSE
  /\ latencyUpdateRequest = FALSE /\ stale = FALSE /\ apc = "idle"

-----------------------------------------------------------------------------
(* The message loop, the plug-in's own or one that the host pumps. *)

Deliver(frames) ==
  /\ stack # <<>> => Top.at \in {"dispatch", "callout"} /\ pumps < MaxPumps
  /\ pumps' = IF stack = <<>> THEN pumps ELSE pumps + 1
  /\ stack' = frames \o stack

\* The user gives a command.
Click(k) ==
  /\ Len(kind) < MaxCommands
  /\ kind' = Append(kind, k)
  /\ interrupting' = IF deferredSinkRefused \/ \E i \in Calls : stack[i].do = "adopt"
                     THEN interrupting \cup {Len(kind')} ELSE interrupting
  /\ Deliver(<<Command(Len(kind'))>>)
  /\ UNCHANGED <<ran, edits, moves, saves, queues, restores, latency>>

\* A knob writes a parameter; a burst writes several in one transaction.
Edit(what) ==
  /\ edits < MaxEdits
  /\ edits' = edits + 1
  /\ Deliver(<<Frame(what, "dispatch")>>)
  /\ UNCHANGED <<given, moves, saves, queues, restores, latency>>

\* timerCallback(), at 20 Hz.
Tick ==
  /\ Deliver(AdoptFrames \o <<Frame("tick", "flush")>>)
  /\ UNCHANGED <<given, edits, moves, saves, queues, restores, latency>>

\* pollUndoCoalesceFromTimer(), at 24 Hz while the editor is open.
EditorTick ==
  /\ ~InsideDispatch
  /\ Deliver(AdoptFrames \o <<Frame("editor", "poll")>>)
  /\ UNCHANGED <<given, edits, moves, saves, queues, restores, latency>>

\* The host has returned from the last store of a knob or a burst.
EditDone ==
  /\ At("knob", "dispatch") \/ At("burst", "dispatch")
  /\ Goto(IF Top.do = "knob" THEN "out" ELSE "close")
  /\ UNCHANGED <<given, bounds, queues, restores, latency>>

-----------------------------------------------------------------------------
(* Latency: requestLatencyUpdate(), updateLatency(), flushPendingLatency(). *)

\* With the calls from the i-th on still open.
LatencyDeliveryIsSafe(i) ==
  /\ \A j \in Calls : j >= i => ~Applying(stack[j]) /\ ~Admitted(stack[j])
  /\ pendingRestore = 0

\* A write that changes the latency, heard on the message thread.
UpdateLatency ==
  /\ stack # <<>> /\ Top.at = "dispatch" /\ moves < MaxMoves
  /\ moves' = moves + 1
  /\ stale' = TRUE
  /\ latencyUpdateRequest' = ~LatencyDeliveryIsSafe(1)
  /\ IF LatencyDeliveryIsSafe(1) THEN Call(Frame("latency", "deliver"), "dispatch")
     ELSE UNCHANGED stack
  /\ UNCHANGED <<given, edits, pumps, saves, queues, restores, apc>>

\* On the audio thread the value is written first and the flag raised after it.
AudioMove ==
  /\ apc = "idle" /\ moves < MaxMoves
  /\ moves' = moves + 1
  /\ stale' = TRUE
  /\ apc' = "request"
  /\ UNCHANGED <<given, edits, pumps, saves, stack, queues, restores, latencyUpdateRequest>>

RequestLatencyUpdate ==
  /\ apc = "request"
  /\ latencyUpdateRequest' = TRUE
  /\ apc' = "idle"
  /\ UNCHANGED <<given, bounds, stack, queues, restores, stale>>

\* The exchange that clears the flag, if there is something to deliver.
FlushPendingLatency(at) ==
  IF LatencyDeliveryIsSafe(2) /\ latencyUpdateRequest
  THEN /\ latencyUpdateRequest' = FALSE
       /\ Call(Frame("latency", "deliver"), at)
       /\ UNCHANGED <<stale, apc>>
  ELSE Goto(at) /\ UNCHANGED latency

\* deliverLatency(): the host is called only if the number is a new one.
DeliverLatency ==
  /\ At("latency", "deliver")
  /\ stale' = FALSE
  /\ IF stale THEN Goto("callout") ELSE Return
  /\ UNCHANGED <<given, bounds, queues, restores, latencyUpdateRequest, apc>>

CalloutReturns ==
  /\ At("latency", "callout")
  /\ Return
  /\ UNCHANGED <<given, bounds, queues, restores, latency>>

-----------------------------------------------------------------------------
(* A restored session: the host thread, and adoptPendingHostState(FALSE). *)

AnnounceRestore ==
  /\ hpc = "idle" /\ announced < MaxRestores
  /\ announced' = announced + 1
  /\ hpc' = "install"
  /\ UNCHANGED <<given, bounds, stack, queues, pendingRestore, adoptedGeneration,
                 restoredLive, latency>>

\* To install, or to capture the sound for a save.
HostLock ==
  /\ ~MessageHolds
  /\ \/ hpc = "install" /\ hpc' = "writing" /\ UNCHANGED saves
     \/ /\ hpc = "idle" /\ saves < MaxSaves
        /\ hpc' = "saving"
        /\ saves' = saves + 1
  /\ UNCHANGED <<given, edits, moves, pumps, stack, queues, announced, pendingRestore,
                 adoptedGeneration,
                 restoredLive, latency>>

HostUnlock ==
  /\ HostHolds
  /\ hpc' = IF hpc = "saving" THEN "idle" ELSE "put"
  /\ restoredLive' = (restoredLive \/ hpc = "writing")
  /\ UNCHANGED <<given, bounds, stack, queues, announced, pendingRestore, adoptedGeneration,
                 latency>>

HandOver ==
  /\ hpc = "put"
  /\ pendingRestore' = announced
  /\ hpc' = "idle"
  /\ UNCHANGED <<given, bounds, stack, queues, announced, adoptedGeneration, restoredLive,
                 latency>>

\* The lock is tried; the sound is written again unless it is still the restore's
\* own or a newer one is announced.
AdoptTake ==
  /\ At("adopt", "cell") /\ pendingRestore # 0 /\ ~HostHolds
  /\ adoptedGeneration' = pendingRestore
  /\ pendingRestore' = 0
  /\ Goto(IF announced = pendingRestore /\ ~restoredLive THEN "dispatch" ELSE "tail")
  /\ UNCHANGED <<given, bounds, queues, hpc, announced, restoredLive, latency>>

\* A failed try consumes nothing.
AdoptBlocked ==
  /\ At("adopt", "cell") /\ pendingRestore # 0 /\ HostHolds
  /\ Return
  /\ UNCHANGED <<given, bounds, queues, restores, latency>>

AdoptWritten ==
  /\ At("adopt", "dispatch")
  /\ restoredLive' = FALSE
  /\ Goto("tail")
  /\ UNCHANGED <<given, bounds, queues, hpc, announced, pendingRestore, adoptedGeneration,
                 latency>>

\* The settings may change the latency, which is put off.
AdoptTail ==
  /\ At("adopt", "tail")
  /\ Goto("cell")
  /\ \/ UNCHANGED <<moves, latency>>
     \/ /\ moves < MaxMoves /\ moves' = moves + 1
        /\ stale' = TRUE /\ latencyUpdateRequest' = TRUE
        /\ UNCHANGED apc
  /\ UNCHANGED <<given, edits, pumps, saves, queues, restores>>

\* The scope ends with the cell empty: a latency put off inside it is delivered.
AdoptDrained ==
  /\ At("adopt", "cell") /\ pendingRestore = 0
  /\ FlushPendingLatency("again")
  /\ UNCHANGED <<given, bounds, queues, restores>>

\* A restore that came meanwhile, even from the callout, is adopted too.
AdoptAgain ==
  /\ At("adopt", "again")
  /\ Goto(IF pendingRestore # 0 THEN "cell" ELSE "out")
  /\ UNCHANGED <<given, bounds, queues, restores, latency>>

-----------------------------------------------------------------------------
(* The gate. *)

\* Seen from the sink: the command in hand made no progress.
NoProgress ==
  /\ ~UserTransaction
  /\ \A i \in Calls : stack[i].do = "flush" => StateCommandDepth = DepthFrom(i)

\* enqueue: onto the queue, or into the sink of the flush that is running.
Defer(c) ==
  IF \E i \in Calls : stack[i].do = "flush" /\ stack[i].at = "after"
  THEN /\ produced' = Append(produced, c)
       /\ deferredSinkRefused' = (deferredSinkRefused \/ NoProgress)
       /\ UNCHANGED <<deferredCommands, queued, spawned>>
  ELSE /\ deferredCommands' = Append(deferredCommands, c)
       /\ UNCHANGED flushState

RefuseNow == UserTransaction \/ InsideDispatch

\* The refusal question comes first.
GateRefuses ==
  /\ At("command", "gate") /\ RefuseNow
  /\ Defer(Top.cmd)
  /\ Return
  /\ UNCHANGED <<given, bounds, restores, latency>>

\* A nested command is admitted and nothing is drained.
GateNests ==
  /\ At("command", "gate") /\ ~RefuseNow /\ StateCommandDepth > 0
  /\ Goto("begin")
  /\ UNCHANGED <<given, bounds, queues, restores, latency>>

GateDrains ==
  /\ At("command", "gate") /\ ~RefuseNow /\ StateCommandDepth = 0
  /\ AdoptPending("drained")
  /\ UNCHANGED <<given, bounds, queues, restores, latency>>

\* What the drain answers, and after it the try.
GateDrained ==
  /\ At("command", "drained")
  /\ IF pendingRestore = 0
     THEN Goto("try") /\ UNCHANGED queues
     ELSE Return /\ Defer(Top.cmd)
  /\ UNCHANGED <<given, bounds, restores, latency>>

GateTries ==
  /\ At("command", "try")
  /\ IF HostHolds
     THEN Return /\ Defer(Top.cmd)
     ELSE Goto("begin") /\ UNCHANGED queues
  /\ UNCHANGED <<given, bounds, restores, latency>>

-----------------------------------------------------------------------------
(* flushDeferredCommands(). *)

\* Called where Top goes on at "at", or at once answered by its guards.
FlushDeferredCommands(at) ==
  IF deferredCommands = <<>> \/ RunningDeferred \/ UserTransaction \/ InsideDispatch
  THEN Goto(at)
  ELSE Call(Frame("flush", "loop"), at)

FlushLoop ==
  /\ At("flush", "loop")
  /\ IF deferredCommands = <<>> THEN Return ELSE AdoptPending("try")
  /\ UNCHANGED <<given, bounds, queues, restores, latency>>

\* The poll is tried under the lock, then the queue is moved.
FlushMove ==
  /\ At("flush", "try")
  /\ IF HostHolds
     THEN Return /\ UNCHANGED <<deferredCommands, queued>>
     ELSE /\ Goto("next")
          /\ queued' = deferredCommands
          /\ deferredCommands' = <<>>
  /\ UNCHANGED <<given, bounds, spawned, produced, deferredSinkRefused, restores, latency>>

FlushRun ==
  /\ At("flush", "next") /\ queued # <<>>
  /\ produced' = <<>>
  /\ deferredSinkRefused' = FALSE
  /\ queued' = Tail(queued)
  /\ Call(Command(Head(queued)), "after")
  /\ UNCHANGED <<given, bounds, deferredCommands, spawned, restores, latency>>

FlushRan ==
  /\ At("flush", "after") /\ ~deferredSinkRefused
  /\ spawned' = spawned \o produced
  /\ produced' = <<>>
  /\ Goto("next")
  /\ UNCHANGED <<given, bounds, deferredCommands, queued, deferredSinkRefused, restores, latency>>

\* Mutant: the refused one goes behind what it stood before.
FlushRefusedToTail ==
  /\ At("flush", "after") /\ deferredSinkRefused
  /\ deferredCommands' = queued \o spawned \o produced \o deferredCommands
  /\ queued' = <<>> /\ spawned' = <<>> /\ produced' = <<>> /\ deferredSinkRefused' = FALSE
  /\ Return
  /\ UNCHANGED <<given, bounds, restores, latency>>

\* What the refused one queued goes to the head, and the next door retries.
FlushRefused ==
  /\ At("flush", "after") /\ deferredSinkRefused
  /\ deferredCommands' = produced \o queued \o spawned \o deferredCommands
  /\ queued' = <<>> /\ spawned' = <<>> /\ produced' = <<>> /\ deferredSinkRefused' = FALSE
  /\ Return
  /\ UNCHANGED <<given, bounds, restores, latency>>

FlushBatchDone ==
  /\ At("flush", "next") /\ queued = <<>>
  /\ deferredCommands' = spawned \o deferredCommands
  /\ spawned' = <<>>
  /\ Goto("loop")
  /\ UNCHANGED <<given, bounds, queued, produced, deferredSinkRefused, restores, latency>>

-----------------------------------------------------------------------------
(* The commands' bodies, as far as they call out. *)

\* Undo and redo poll first, which flushes; a preset save adopts first.
CommandBegins ==
  /\ At("command", "begin")
  /\ CASE kind[Top.cmd] = "undo" -> FlushDeferredCommands("apply")
       [] kind[Top.cmd] = "save" -> AdoptPending("apply")
       [] OTHER                  -> Goto("apply")
  /\ UNCHANGED <<given, bounds, queues, restores, latency>>

\* The target is derived from the session; there may be nothing to do.
CommandApplies ==
  /\ At("command", "apply")
  /\ ran' = ran \cup {Top.cmd}
  /\ \E at \in IF kind[Top.cmd] \in {"copy", "save"} THEN {"close"} ELSE {"dispatch", "exit"} :
       stack' = <<[Top EXCEPT !.at = at, !.seen = adoptedGeneration]>> \o Tail(stack)
  /\ UNCHANGED <<kind, interrupting, bounds, queues, restores, latency>>

\* The last parameter is written; Apply Gain is no replacement.
CommandWritten ==
  /\ At("command", "dispatch")
  /\ restoredLive' = (restoredLive /\ kind[Top.cmd] = "gain")
  /\ Goto("close")
  /\ UNCHANGED <<given, bounds, queues, hpc, announced, pendingRestore, adoptedGeneration,
                 latency>>

\* The end of Apply Gain's transaction and the new baseline of a save flush.
CommandCloses ==
  /\ At("command", "close")
  /\ IF kind[Top.cmd] \in {"gain", "save"} THEN FlushDeferredCommands("exit") ELSE Goto("exit")
  /\ UNCHANGED <<given, bounds, queues, restores, latency>>

\* The gate lets go.
CommandReturns ==
  /\ At("command", "exit")
  /\ kind' = [kind EXCEPT ![Top.cmd] = "done"]
  /\ Return
  /\ UNCHANGED <<ran, interrupting, bounds, queues, restores, latency>>

\* endUserTransaction()
BurstCloses ==
  /\ At("burst", "close")
  /\ FlushDeferredCommands("out")
  /\ UNCHANGED <<given, bounds, queues, restores, latency>>

\* Mutant: only the editor's tick flushes.
TickSkipsFlush ==
  /\ At("tick", "flush")
  /\ Goto("latency")
  /\ UNCHANGED <<given, bounds, queues, restores, latency>>

TickFlushes ==
  /\ At("tick", "flush")
  /\ FlushDeferredCommands("latency")
  /\ UNCHANGED <<given, bounds, queues, restores, latency>>

TickReports ==
  /\ At("tick", "latency")
  /\ FlushPendingLatency("out")
  /\ UNCHANGED <<given, bounds, queues, restores>>

\* The editor's poll needs the lock, and without it nothing is flushed.
EditorPolls ==
  /\ At("editor", "poll")
  /\ IF HostHolds THEN Return ELSE FlushDeferredCommands("out")
  /\ UNCHANGED <<given, bounds, queues, restores, latency>>

-----------------------------------------------------------------------------

Resume ==
  \/ EditDone \/ DeliverLatency \/ CalloutReturns
  \/ AdoptTake \/ AdoptBlocked \/ AdoptWritten \/ AdoptTail \/ AdoptDrained \/ AdoptAgain
  \/ GateRefuses \/ GateNests \/ GateDrains \/ GateDrained \/ GateTries
  \/ FlushLoop \/ FlushMove \/ FlushRun \/ FlushRan \/ FlushRefused \/ FlushBatchDone
  \/ CommandBegins \/ CommandApplies \/ CommandWritten \/ CommandCloses \/ CommandReturns
  \/ BurstCloses \/ TickFlushes \/ TickReports \/ EditorPolls

Next ==
  \/ Resume \/ UpdateLatency
  \/ \E k \in Kinds : Click(k)
  \/ \E what \in {"knob", "burst"} : Edit(what)
  \/ Tick \/ EditorTick
  \/ AudioMove \/ RequestLatencyUpdate
  \/ AnnounceRestore \/ HostLock \/ HostUnlock \/ HandOver

Spec == Init /\ [][Next]_vars

\* Calls return, the host and the audio thread finish what they began, and the
\* timer of the processor keeps ticking.
Fairness ==
  /\ WF_vars(Resume)
  /\ WF_vars(HostUnlock) /\ WF_vars(HandOver) /\ WF_vars(RequestLatencyUpdate)
  /\ SF_vars(stack = <<>> /\ Tick)

FairSpec == Spec /\ Fairness

-----------------------------------------------------------------------------
(* Properties. *)

Commands == 1..Len(kind)

\* What waits in a flush and behind it, in the order it will come to.
Line ==
  IF deferredSinkRefused THEN produced \o queued \o spawned \o deferredCommands
  ELSE queued \o spawned \o produced \o deferredCommands

InHand == {i \in Calls : stack[i].do = "command" /\ stack[i].cmd \notin ran}

\* The types, and that lock, sink and flush are in use by one caller at a time.
TypeOK ==
  /\ kind \in Seq(AllKinds \cup {"done"}) /\ Len(kind) <= MaxCommands
  /\ ran \subseteq Commands /\ interrupting \subseteq Commands
  /\ edits \in 0..MaxEdits /\ moves \in 0..MaxMoves /\ pumps \in 0..MaxPumps
  /\ saves \in 0..MaxSaves
  /\ \A i \in Calls :
       /\ stack[i].do \in {"adopt", "command", "flush", "knob", "burst", "tick", "editor",
                           "latency"}
       /\ stack[i].cmd \in 0..MaxCommands /\ stack[i].seen \in 0..MaxRestores
  /\ Line \in Seq(Commands)
  /\ hpc \in {"idle", "install", "writing", "put", "saving"} /\ apc \in {"idle", "request"}
  /\ {announced, pendingRestore, adoptedGeneration} \subseteq 0..MaxRestores
  /\ {restoredLive, latencyUpdateRequest, stale, deferredSinkRefused} \subseteq BOOLEAN
  /\ ~(HostHolds /\ MessageHolds)
  /\ Cardinality({i \in Calls : stack[i].do = "flush"}) <= 1
  /\ RunningDeferred \/ flushState = <<<<>>, <<>>, <<>>, FALSE>>

\* No command is dropped and none is duplicated: it has taken effect, or it is
\* in exactly one place, a queue of the flush or a call of its own.
NothingDropped ==
  \A c \in Commands :
    Cardinality({i \in InHand : stack[i].cmd = c}) + Cardinality({i \in DOMAIN Line : Line[i] = c})
      = IF c \in ran THEN 0 ELSE 1

\* A command never begins to work inside a dispatch or a burst, of whatever
\* kind, that began before it: refuseNow comes before the nesting shortcut.
CommandsApart ==
  \A i, j \in Calls : i < j /\ Admitted(stack[i]) => stack[j].at # "dispatch"

\* Commands wait in the order the user gave them, however often a flush is
\* refused or interrupted, but for those given during an adoption and those
\* given under a command whose refusal a flush inferred, wrongly or not.
QueueInOrder ==
  \A i, j \in DOMAIN Line :
    i < j /\ {Line[i], Line[j]} \cap interrupting = {} => Line[i] < Line[j]

\* StateCommandGate.h:66: commands "queue behind each other in the order the
\* user gave them"; a flush "changes places" of none (PluginProcessor.cpp:944).
QueueAlwaysInOrder == \A i, j \in DOMAIN Line : i < j => Line[i] < Line[j]

\* No session is adopted while a burst, or Apply Gain, is between its stores.
SessionKept ==
  \A i \in Calls : Transacting(stack[i]) => adoptedGeneration' = adoptedGeneration
BurstsKeepSession == [][SessionKept]_vars

\* PluginProcessor.h:527: between deriving a target and applying it "nothing may
\* be adopted": the session a command derived from is the one it is writing over.
TargetKept ==
  \A i \in Calls : Admitted(stack[i]) /\ stack[i].at = "dispatch"
                     => stack[i].seen = adoptedGeneration

\* The host is not called about the latency from inside an adoption that still
\* has to write, nor under a command's lock (ADR-0068).
CalloutsOutside ==
  \A i, j \in Calls : i < j /\ stack[i].do = "latency"
                        => ~Applying(stack[j]) /\ ~Admitted(stack[j])

\* If the host was told another latency, a request stands or its delivery is
\* under way: no request is lost between the flag and the value.
NoRequestLost ==
  stale => \/ latencyUpdateRequest \/ apc = "request"
           \/ \E i \in Calls : stack[i].do = "latency" /\ stack[i].at = "deliver"

\* What the gate promises at any moment: its queue keeps every command once and
\* in the user's order, and what it runs or reports runs apart from the rest.
GateHolds ==
  /\ TypeOK /\ NothingDropped /\ QueueInOrder
  /\ CommandsApart /\ CalloutsOutside /\ NoRequestLost

\* Every command takes effect in the end, with no click after it.
EveryCommandRuns == \A c \in 1..MaxCommands : c \in Commands ~> c \in ran

\* The host learns the latency in the end, with no move after it.
LatencyReported == stale ~> ~stale

\* What is put off, a command or a report, is done in the end by the ticks
\* alone (timerCallback, flushDeferredCommands, flushPendingLatency).
PutOffIsDone == EveryCommandRuns /\ LatencyReported
=============================================================================
