----------------------------- MODULE UndoHistory -----------------------------
(***************************************************************************)
(* What the plug-in can undo.  The user's controls open a change gesture,  *)
(* store, and close it; a timer later turns all gestures that closed since *)
(* its last poll into one step, which owns the parameters the user took    *)
(* and both ends of each; a scroll of the wheel extends the step of its    *)
(* last notch; several stores bracketed as a transaction are one action.   *)
(* A preset load and an A/B copy are steps of the whole sound.  Undo, redo *)
(* and the A/B switch replace the sound, and each slot has a history.      *)
(* Meanwhile the host automates any parameter from the audio thread, which *)
(* belongs to no step: a store, then the count that announces it.          *)
(*                                                                         *)
(* Every value a parameter is given is new: the number of the write, in    *)
(* `log`.  Left out: refusals and the order of commands (StateCommands),   *)
(* how a sound is replaced (RestoreHandoff, BulkSwap), parameters that are *)
(* shown but not heard, values that differ without being rendered          *)
(* differently, and the two steps that lazily fill an A/B slot.            *)
(***************************************************************************)
EXTENDS Integers, SequencesExt

CONSTANTS
  Params,           \* the sound's parameters
  Declaring,        \* those whose stores declare themselves (the multiband display's)
  Depth,            \* kUndoDepth
  MaxStores,        \* bound: values written by the user
  MaxAutomation,    \* bound: values written by the host
  MaxGestures,      \* bound: gestures opened
  MaxActs,          \* bound: commands, transactions and restores
  MaxInputs         \* bound: all of these together

NoKey == "none"     \* key 0: not a wheel edit

ASSUME UndoAssumption ==
  /\ Params # {} /\ NoKey \notin Params /\ Declaring \subseteq Params /\ Depth \in Nat \ {0}
  /\ {MaxStores, MaxAutomation, MaxGestures, MaxActs, MaxInputs} \subseteq Nat

Slots == {0, 1}

VARIABLES
  live, preset,                     \* the sound, the preset it stands on
  marks,                            \* the copies of soundParamGen that are still its value
  automating,                       \* the parameters the host stored and has yet to announce
  restored,                         \* a restored session waits to be adopted
  held, wheelStepKey,               \* the controls that hold a gesture, the wheel edit in flight
  userTransaction,
  openGestures, foreignSinceEdge,
  owned,                            \* the parameters of the pending batch: both ends
  episode,                          \* what became of each since the last close
  pendingGestureCommit, pendingStepWheelKey, pendingStepNamed, lastStepWheelKey,
  committed, committedSig, committedNeedsResync,
  abActive, abSlot, abUndo,
  m,                                \* the message thread: where, on behalf of what, with what
  log,                              \* history: who wrote each value, of what action and scroll
  made,                             \* history: the writes of the pending batch
  scroll,                           \* history: the scroll in progress, and if it shares a poll
  opened, acted                     \* history: counters of the bounds

sound   == <<live, preset, marks, automating, restored>>
ui      == <<held, wheelStepKey, userTransaction>>
edges   == <<openGestures, foreignSinceEdge>>
batch   == <<owned, episode>>
request == <<pendingGestureCommit, pendingStepWheelKey, pendingStepNamed, lastStepWheelKey>>
base    == <<committed, committedSig, committedNeedsResync>>
ab      == <<abActive, abSlot, abUndo>>
history == <<log, made, scroll, opened, acted>>
undoVars    == <<sound, ui, edges, batch, request, base, ab, m, history>>

-----------------------------------------------------------------------------
(* Helpers. *)

Idle    == [pc |-> "idle"]
Nothing == [p \in {} |-> 0]
With(f, p, x) == [q \in DOMAIN f \cup {p} |-> IF q = p THEN x ELSE f[q]]

\* currentStateSet(), of what the step finds.
Current == [params |-> live, preset |-> preset]

Write(by, p, key, chain) ==
  [by |-> by, param |-> p, key |-> key, chain |-> chain,
   action |-> IF userTransaction THEN acted ELSE 0]
NewValue == Len(log) + 1
Inputs   == Len(log) + opened + acted
MayWrite(by) ==
  /\ Inputs < MaxInputs
  /\ Cardinality({v \in DOMAIN log : log[v].by = by})
       < IF by = "user" THEN MaxStores ELSE MaxAutomation
MayOpen == Inputs < MaxInputs /\ opened < MaxGestures
MayAsk  == Inputs < MaxInputs /\ acted < MaxActs

\* Is the store part of the batch that the next poll will commit?
InBatch == openGestures > 0 \/ (userTransaction /\ pendingGestureCommit)

\* Bookkeeping of the properties: the scroll a store belongs to, 0 if none. It ends
\* with anything that is not its next notch, and the writes that share a poll with
\* another edit, a drag that a jump cut short among them, or with one of the host's,
\* are of no scroll.
Alone == InBatch /\ \A v \in made : log[v].key = wheelStepKey
Chain(p) ==
  IF wheelStepKey = NoKey \/ scroll.shared # "no" \/ ~Alone THEN 0
  ELSE IF scroll.key = p THEN scroll.id ELSE scroll.id + 1
ScrollEnds   == scroll' = [scroll EXCEPT !.key = NoKey]
ScrollShared == scroll' = [scroll EXCEPT !.key = NoKey, !.shared = "yes"]
ScrollGoesOn(p) ==
  IF ~Alone THEN ScrollShared
  ELSE IF Chain(p) = 0 THEN ScrollEnds
  ELSE scroll' = [scroll EXCEPT !.key = p, !.id = Chain(p)]
ScrollPolled == scroll' = [scroll EXCEPT !.shared = IF @ = "poll" THEN "no" ELSE @]
OfNoScroll(l) == [v \in DOMAIN l |-> IF v \in made THEN [l[v] EXCEPT !.chain = 0] ELSE l[v]]

\* Something is counted; a copy of the count is taken: polledGen, gestureOpenGen or
\* gestureEdgeGen.  They are only ever compared for equality with the count.
Count      == marks' = {}
Mark(now)  == marks' = marks \cup now

IsWhole(e) == e.before.params # Nothing
Scoped(edits, from, to, writes) ==
  [owned |-> edits, made |-> writes, polls |-> 1,
   before |-> [params |-> Nothing, preset |-> from], after |-> [params |-> Nothing, preset |-> to]]
Whole(from, to) == [owned |-> Nothing, made |-> {}, polls |-> 1, before |-> from, after |-> to]

\* The oldest out, the newest kept.
PushCapped(stack, e) ==
  LET grown == Append(stack, e) IN IF Len(grown) > Depth THEN Tail(grown) ELSE grown

\* resetBatchOwnership()
ResetBatchOwnership == owned' = Nothing /\ episode' = [p \in Params |-> {}] /\ made' = {}

\* What every jump does once its sound is in: nothing of the user's is under way.
DropGestures ==
  /\ openGestures' = 0 /\ pendingGestureCommit' = FALSE
  /\ pendingStepWheelKey' = NoKey /\ lastStepWheelKey' = NoKey /\ pendingStepNamed' = FALSE
  /\ Mark({"edge"}) /\ foreignSinceEdge' = FALSE
  /\ ResetBatchOwnership

UndoInit ==
  /\ live = [p \in Params |-> 0] /\ preset = 0 /\ marks = {"edge"}
  /\ automating = {} /\ restored = FALSE
  /\ held = {} /\ wheelStepKey = NoKey /\ userTransaction = FALSE
  /\ openGestures = 0 /\ foreignSinceEdge = FALSE
  /\ owned = Nothing /\ episode = [p \in Params |-> {}]
  /\ pendingGestureCommit = FALSE /\ pendingStepWheelKey = NoKey
  /\ pendingStepNamed = FALSE /\ lastStepWheelKey = NoKey
  /\ committed = Current /\ committedSig = live /\ committedNeedsResync = FALSE
  /\ abActive = 0 /\ abSlot = [s \in Slots |-> Current]
  /\ abUndo = [s \in Slots |-> [undo |-> <<>>, redo |-> <<>>]]
  /\ m = Idle
  /\ log = <<>> /\ made = {} /\ scroll = [id |-> 0, key |-> NoKey, shared |-> "no"]
  /\ opened = 0 /\ acted = 0

-----------------------------------------------------------------------------
(* The host. *)

\* Automation: the value is stored, then the listener counts it.
Automate(p) ==
  /\ automating = {} /\ MayWrite("host")
  /\ live' = [live EXCEPT ![p] = NewValue]
  /\ log' = Append(OfNoScroll(log), Write("host", p, NoKey, 0))
  /\ automating' = {p}
  /\ ScrollShared
  /\ UNCHANGED <<preset, marks, restored, ui, edges, batch, request, base, ab, m, made,
                 opened, acted>>

parameterValueChanged ==
  /\ automating # {}
  /\ automating' = {} /\ Count
  /\ log' = OfNoScroll(log)
  /\ ScrollShared
  /\ UNCHANGED <<live, preset, restored, ui, edges, batch, request, base, ab, m, made,
                 opened, acted>>

\* A host thread installs a session's sound without notification, counts once,
\* and leaves the rest for the message thread, whose polls and commands hold the
\* lock it waits for.
Restore ==
  /\ m = Idle /\ ~restored /\ MayAsk
  /\ live' = [p \in Params |-> NewValue] /\ Count
  /\ log' = Append(OfNoScroll(log), Write("session", NoKey, NoKey, 0))
  /\ restored' = TRUE /\ acted' = acted + 1
  /\ ScrollShared
  /\ UNCHANGED <<preset, automating, ui, edges, batch, request, base, ab, m, made, opened>>

-----------------------------------------------------------------------------
(* The user's controls.  No poll runs inside one notch of the wheel. *)

\* A control opens its gesture: parameterGestureChanged(), with noteFirstOwnership().
\* A wheel notch comes alone, and names its control while it lasts.  The user has
\* one pointer: no new gesture opens while a drag that a jump cut short goes on.
Open(p, wheel) ==
  /\ m = Idle /\ p \notin held /\ wheelStepKey = NoKey /\ MayOpen
  /\ held # {} => openGestures > 0 /\ ~wheel
  /\ wheel => ~userTransaction
  /\ LET first == openGestures = 0
         fresh == first /\ ~pendingGestureCommit
         mine  == IF fresh THEN Nothing ELSE owned
         was   == IF fresh THEN [q \in Params |-> {}] ELSE episode
     IN  /\ owned' = IF p \in DOMAIN mine THEN mine
                     ELSE With(mine, p, [before |-> live[p], after |-> live[p]])
         /\ episode' = [was EXCEPT ![p] = @ \cup {"gesture"}]
         /\ made' = IF fresh THEN {} ELSE made
         /\ foreignSinceEdge' = (foreignSinceEdge \/ (first /\ "edge" \notin marks))
         /\ Mark(IF first THEN {"open", "edge"} ELSE {})
  /\ openGestures' = openGestures + 1
  /\ held' = held \cup {p} /\ wheelStepKey' = IF wheel THEN p ELSE NoKey
  /\ opened' = opened + 1
  /\ UNCHANGED <<live, preset, automating, restored, userTransaction, request, base, ab, m, log,
                 scroll, acted>>

\* noteOwnedParamWrite(): a store that stood takes the parameter and says its end.
DeclareWrite(p, value) ==
  /\ owned' = With(owned, p, [before |-> IF p \in DOMAIN owned THEN owned[p].before ELSE live[p],
                              after |-> value])
  /\ episode' = [episode EXCEPT ![p] = @ \cup {"declared"}]

\* noteOwnedParamEndpoint(): an attachment says what was asked for, of an owned parameter.
DeclareEndpoint(p, value) ==
  IF p \in DOMAIN owned
  THEN owned' = [owned EXCEPT ![p].after = value]
       /\ episode' = [episode EXCEPT ![p] = @ \cup {"declared"}]
  ELSE UNCHANGED batch

\* noteOwnedParamRefused()
DeclareRefused(p) == episode' = [episode EXCEPT ![p] = @ \cup {"refused"}] /\ UNCHANGED owned

\* A control stores a new value: storeOwned(), or an attachment's write.
Store(p) ==
  /\ m = Idle /\ MayWrite("user")
  /\ p \in held \/ (p \in Declaring /\ userTransaction /\ InBatch)
  /\ live' = [live EXCEPT ![p] = NewValue] /\ Count
  /\ IF p \in Declaring THEN DeclareWrite(p, NewValue) ELSE DeclareEndpoint(p, NewValue)
  /\ log' = Append(IF Alone THEN log ELSE OfNoScroll(log),
                   Write("user", p, wheelStepKey, Chain(p)))
  /\ ScrollGoesOn(p)
  /\ made' = IF InBatch /\ p \in DOMAIN owned' THEN made \cup {NewValue} ELSE made
  /\ UNCHANGED <<preset, automating, restored, ui, edges, request, base, ab, m, opened, acted>>

\* The same, and the host answers from inside the notification with a value of its own.
StoreAnswered(p) ==
  /\ m = Idle /\ MayWrite("user") /\ MayWrite("host") /\ p \in held /\ automating = {}
  /\ live' = [live EXCEPT ![p] = NewValue + 1] /\ Count
  /\ IF p \in Declaring THEN DeclareRefused(p) ELSE DeclareEndpoint(p, NewValue)
  /\ log' = OfNoScroll(log) \o <<Write("user", p, wheelStepKey, 0), Write("host", p, NoKey, 0)>>
  /\ ScrollShared
  /\ made' = IF InBatch /\ p \in DOMAIN owned \ Declaring THEN made \cup {NewValue} ELSE made
  /\ UNCHANGED <<preset, automating, restored, ui, edges, request, base, ab, m, opened,
                 acted>>

\* Mutant: the close reads every end from the live sound.
CloseReadingLive(p) ==
  /\ m = Idle /\ p \in held
  /\ held' = held \ {p} /\ wheelStepKey' = NoKey
  /\ LET said  == IF "declared" \in episode[p] THEN episode
                  ELSE [episode EXCEPT ![p] = @ \cup {"refused"}]
         moved == "open" \notin marks
     IN  IF openGestures # 1
         THEN /\ openGestures' = IF openGestures > 0 THEN openGestures - 1 ELSE 0
              /\ episode' = said
              /\ UNCHANGED <<owned, marks, request>>
         ELSE /\ openGestures' = 0
              /\ pendingStepWheelKey' =
                   IF ~moved THEN pendingStepWheelKey
                   ELSE IF pendingStepNamed /\ pendingStepWheelKey # wheelStepKey THEN NoKey
                   ELSE wheelStepKey
              /\ pendingStepNamed' = (pendingStepNamed \/ moved)
              /\ pendingGestureCommit' = TRUE
              /\ Mark({"edge"})
              /\ owned' = [q \in DOMAIN owned |->
                            IF "gesture" \in said[q] THEN [owned[q] EXCEPT !.after = live[q]]
                            ELSE owned[q]]
              /\ episode' = [q \in Params |-> {}]
              /\ UNCHANGED lastStepWheelKey
  /\ UNCHANGED <<live, preset, automating, restored, userTransaction, foreignSinceEdge, base, ab, m,
                 history>>

\* The control closes its gesture.  One that produced nothing says so first
\* (notePressEnded()); the last to close asks for a step, with the name of the
\* wheel edit, and reads the ends that nobody stated.
Close(p) ==
  /\ m = Idle /\ p \in held
  /\ held' = held \ {p} /\ wheelStepKey' = NoKey
  /\ LET said  == IF "declared" \in episode[p] THEN episode
                  ELSE [episode EXCEPT ![p] = @ \cup {"refused"}]
         moved == "open" \notin marks
     IN  IF openGestures # 1
         THEN /\ openGestures' = IF openGestures > 0 THEN openGestures - 1 ELSE 0
              /\ episode' = said
              /\ UNCHANGED <<owned, marks, request>>
         ELSE /\ openGestures' = 0
              /\ pendingStepWheelKey' =
                   IF ~moved THEN pendingStepWheelKey
                   ELSE IF pendingStepNamed /\ pendingStepWheelKey # wheelStepKey THEN NoKey
                   ELSE wheelStepKey
              /\ pendingStepNamed' = (pendingStepNamed \/ moved)
              /\ pendingGestureCommit' = TRUE
              /\ Mark({"edge"})
              /\ owned' = [q \in DOMAIN owned |->
                            IF said[q] = {"gesture"} THEN [owned[q] EXCEPT !.after = live[q]]
                            ELSE owned[q]]
              /\ episode' = [q \in Params |-> {}]
              /\ UNCHANGED lastStepWheelKey
  /\ UNCHANGED <<live, preset, automating, restored, userTransaction, foreignSinceEdge, base, ab, m,
                 history>>

\* Several stores that are one action (ScopedUserTransaction).
BeginUserTransaction ==
  /\ m = Idle /\ ~userTransaction /\ held = {} /\ MayAsk
  /\ userTransaction' = TRUE /\ acted' = acted + 1
  /\ UNCHANGED <<sound, held, wheelStepKey, edges, batch, request, base, ab, m, log, made,
                 scroll, opened>>

EndUserTransaction ==
  /\ m = Idle /\ userTransaction /\ held = {}
  /\ userTransaction' = FALSE
  /\ UNCHANGED <<sound, held, wheelStepKey, edges, batch, request, base, ab, m, history>>

-----------------------------------------------------------------------------
(* The poll: a timer's, and the first thing most commands do.               *)

\* Where the message thread goes on once the poll is over.
After(job) == IF job = "tick" THEN Idle ELSE [pc |-> job]

\* pollUndoCoalesceAdopted(), up to its capture of the sound: it looks only if
\* something was counted or asked for, and not into an open gesture or transaction.
Poll(job) ==
  /\ LET unseen == "polled" \notin marks \/ pendingGestureCommit
         busy   == openGestures > 0 \/ userTransaction
         moved  == live # committedSig
     IN  /\ committed' = IF committedNeedsResync THEN [Current EXCEPT !.preset = preset']
                         ELSE committed
         /\ m' = IF unseen /\ ~busy /\ moved THEN [pc |-> "poll", job |-> job, sig |-> live]
                 ELSE After(job)
         /\ IF unseen /\ ~busy /\ ~moved
            THEN /\ pendingGestureCommit' = FALSE
                 /\ pendingStepWheelKey' = NoKey /\ pendingStepNamed' = FALSE
                 /\ lastStepWheelKey' =
                      IF pendingStepNamed /\ pendingStepWheelKey # lastStepWheelKey THEN NoKey
                      ELSE lastStepWheelKey
                 /\ Mark({"polled", "edge"}) /\ foreignSinceEdge' = FALSE
                 /\ made' = {}
            ELSE Mark({"polled"}) /\ UNCHANGED <<request, foreignSinceEdge, made>>
         /\ scroll' = IF ~unseen \/ busy \/ scroll.shared = "no" THEN scroll
                      ELSE [scroll EXCEPT !.shared = IF moved THEN "poll" ELSE "no"]
  /\ committedNeedsResync' = FALSE
  /\ UNCHANGED <<live, automating, restored, ui, openGestures, batch,
                 committedSig, ab, log, opened>>

\* The timer's turn, once no session waits.
TimerTick ==
  /\ m = Idle /\ wheelStepKey = NoKey /\ ~restored /\ openGestures = 0 /\ ~userTransaction
  /\ committedNeedsResync \/ "polled" \notin marks \/ pendingGestureCommit
  /\ UNCHANGED <<preset, acted>>
  /\ Poll("tick")

PollCapture ==
  /\ m.pc = "poll"
  /\ m' = [pc |-> "captured", job |-> m.job, sig |-> m.sig, fresh |-> Current]
  /\ UNCHANGED <<sound, ui, edges, batch, request, base, ab, history>>

\* Nobody asked for a step: what moved was the host's, and joins the baseline.
PollFold ==
  /\ m.pc = "captured" /\ ~pendingGestureCommit
  /\ committed' = m.fresh /\ committedSig' = m.sig
  /\ lastStepWheelKey' = NoKey
  /\ Mark({"edge"}) /\ foreignSinceEdge' = FALSE
  /\ m' = After(m.job)
  /\ ScrollPolled
  /\ UNCHANGED <<live, preset, automating, restored, ui, openGestures, batch, pendingGestureCommit,
                 pendingStepWheelKey, pendingStepNamed, committedNeedsResync, ab, log,
                 made, opened, acted>>

\* Mutant: edits by hand, which have no key, look like one scroll.
ExtendsBare(foreign) ==
  LET steps == abUndo[abActive].undo
  IN  /\ pendingStepWheelKey = lastStepWheelKey
      /\ ~foreign /\ steps # <<>> /\ ~IsWhole(steps[Len(steps)])

\* Is the batch the next stretch of the last step's scroll?
Extends(foreign) ==
  LET steps == abUndo[abActive].undo
  IN  /\ pendingStepWheelKey # NoKey /\ pendingStepWheelKey = lastStepWheelKey
      /\ ~foreign /\ steps # <<>> /\ ~IsWhole(steps[Len(steps)])

\* The gestures that closed become one step, of what they moved, or a stretch of the
\* last one.
PollCommit ==
  /\ m.pc = "captured" /\ pendingGestureCommit
  /\ LET foreign == foreignSinceEdge \/ "edge" \notin marks
         edits   == [p \in {q \in DOMAIN owned : owned[q].before # owned[q].after} |-> owned[p]]
         steps   == abUndo[abActive].undo
         Onto(e) == [e EXCEPT !.owned = [p \in DOMAIN edits \cup DOMAIN @ |->
                                          IF p \notin DOMAIN @ THEN edits[p]
                                          ELSE IF p \notin DOMAIN edits THEN @[p]
                                          ELSE [@[p] EXCEPT !.after = edits[p].after]],
                              !.after.preset = m.fresh.preset,
                              !.made = @ \cup made, !.polls = @ + 1]
     IN  IF edits # Nothing
         THEN /\ abUndo' = [abUndo EXCEPT ![abActive] =
                   [undo |-> IF Extends(foreign) THEN [steps EXCEPT ![Len(steps)] = Onto(@)]
                             ELSE PushCapped(steps, Scoped(edits, committed.preset,
                                                          m.fresh.preset, made)),
                    redo |-> <<>>]]
              /\ lastStepWheelKey' = IF foreign THEN NoKey ELSE pendingStepWheelKey
         ELSE /\ lastStepWheelKey' = IF foreign THEN NoKey ELSE lastStepWheelKey
              /\ UNCHANGED abUndo
  /\ pendingGestureCommit' = FALSE /\ pendingStepWheelKey' = NoKey /\ pendingStepNamed' = FALSE
  /\ committed' = m.fresh /\ committedSig' = m.sig
  /\ Mark({"edge"}) /\ foreignSinceEdge' = FALSE
  /\ made' = {}
  /\ m' = After(m.job)
  /\ ScrollPolled
  /\ UNCHANGED <<live, preset, automating, restored, ui, openGestures, batch, committedNeedsResync,
                 abActive, abSlot, log, opened, acted>>

-----------------------------------------------------------------------------
(* The commands.  Each runs on the message thread to its end, while the host *)
(* goes on automating.                                                       *)

MayAct == /\ m = Idle /\ wheelStepKey = NoKey /\ ~userTransaction /\ ~restored
          /\ MayAsk

\* Mutant: a save does not poll.
CommandUnpolled(job) ==
  /\ MayAct
  /\ acted' = acted + 1
  /\ preset' = IF job = "save" THEN acted' ELSE preset
  /\ IF job = "save"
     THEN m' = [pc |-> job]
          /\ UNCHANGED <<live, marks, automating, restored, ui, edges, batch, request, base, ab,
                         log, made, scroll, opened>>
     ELSE Poll(job)

\* undo(), redo(), abSwitchTo(), onAboutToLoad and onSaved: they poll first; a
\* save has named the sound by then.
StateCommand(job) ==
  /\ MayAct
  /\ acted' = acted + 1
  /\ preset' = IF job = "save" THEN acted' ELSE preset
  /\ Poll(job)

\* A command installs `target`: every parameter that differs is stored and counted.
Install(target) ==
  /\ live' = target.params /\ preset' = target.preset
  /\ Count
  /\ UNCHANGED <<automating, restored>>

\* undo() and redo() take the last entry, and applyUndoEntry() makes the sound to
\* install: one end of it, or of a scoped one the live sound with that end's values.
TakeEntry(from, end) ==
  /\ m.pc = from
  /\ LET stack == abUndo[abActive][from]
         e     == stack[Len(stack)]
         to    == e[end]
         Ends  == [p \in Params |-> IF p \in DOMAIN e.owned THEN e.owned[p][end] ELSE live[p]]
     IN  IF stack = <<>> THEN m' = Idle /\ UNCHANGED abUndo
         ELSE /\ m' = [pc |-> "install", from |-> from, entry |-> e,
                       target |-> IF IsWhole(e) THEN to ELSE [to EXCEPT !.params = Ends]]
              /\ abUndo' = [abUndo EXCEPT ![abActive][from] = Front(stack)]
  /\ UNCHANGED <<sound, ui, edges, batch, request, base, abActive, abSlot, history>>

undo == TakeEntry("undo", "before")
redo == TakeEntry("redo", "after")

\* ... and the entry moves to the other stack.
ApplyUndoEntry ==
  /\ m.pc = "install"
  /\ Install(m.target)
  /\ LET other == IF m.from = "undo" THEN "redo" ELSE "undo"
     IN  abUndo' = [abUndo EXCEPT ![abActive][other] = Append(@, m.entry)]
  /\ m' = [pc |-> "baseline"]
  /\ UNCHANGED <<ui, edges, batch, request, base, abActive, abSlot, history>>

\* abSwitchToAdopted(): the sound goes to its slot, and the other's comes.
abSwitchTo ==
  /\ m.pc = "switch"
  /\ abSlot' = [abSlot EXCEPT ![abActive] = Current]
  /\ abActive' = 1 - abActive
  /\ Install(abSlot[1 - abActive])
  /\ m' = [pc |-> "baseline"]
  /\ UNCHANGED <<ui, edges, batch, request, base, abUndo, history>>

\* rebaselineAfterSave()
Saved ==
  /\ m.pc = "save" /\ m' = [pc |-> "baseline"]
  /\ UNCHANGED <<sound, ui, edges, batch, request, base, ab, history>>

\* What follows a jump: syncCommitted(), which takes the sound, then its signature.
\* Adopting from the timer does not wait for a host thread inside a restore.
Baseline ==
  /\ m.pc \in {"baseline", "adopted"}
  /\ \/ committed' = Current /\ committedNeedsResync' = FALSE
     \/ m.pc = "adopted" /\ committedNeedsResync' = TRUE /\ UNCHANGED committed
  /\ m' = [pc |-> "sync", of |-> m.pc]
  /\ UNCHANGED <<sound, ui, edges, batch, request, committedSig, ab, history>>

Sync ==
  /\ m.pc = "sync"
  /\ committedSig' = live
  /\ DropGestures
  /\ ScrollEnds
  /\ m' = Idle
  /\ UNCHANGED <<live, preset, automating, restored, ui, committed, committedNeedsResync, ab,
                 log, opened, acted>>

\* A preset replaces the sound, or is the one that plays already.
LoadPreset ==
  /\ m.pc = "load"
  /\ \/ /\ Install([params |-> [p \in Params |-> NewValue], preset |-> acted])
        /\ log' = Append(log, Write("preset", NoKey, NoKey, 0))
     \/ Install([params |-> live, preset |-> acted]) /\ UNCHANGED log
  /\ m' = [pc |-> "loaded"]
  /\ UNCHANGED <<ui, edges, batch, request, base, ab, made, scroll, opened, acted>>

\* commitPresetSwitchUndoStep(): a step of the whole sound, if it changed.
Loaded ==
  /\ m.pc = "loaded" /\ m' = [pc |-> "rebase", sig |-> live]
  /\ UNCHANGED <<sound, ui, edges, batch, request, base, ab, history>>

CommitPresetSwitchUndoStep ==
  /\ m.pc = "rebase"
  /\ committed' = Current
  /\ IF m.sig # committedSig
     THEN /\ committedSig' = m.sig
          /\ abUndo' = [abUndo EXCEPT ![abActive] =
               [undo |-> PushCapped(@.undo, Whole(committed, Current)), redo |-> <<>>]]
     ELSE /\ abUndo' = IF preset = committed.preset THEN abUndo
                       ELSE [abUndo EXCEPT ![abActive].redo = <<>>]
          /\ UNCHANGED committedSig
  /\ DropGestures
  /\ ScrollEnds
  /\ m' = Idle
  /\ UNCHANGED <<live, preset, automating, restored, ui, committedNeedsResync, abActive,
                 abSlot, log, opened, acted>>

\* abCopyToOther(), which the other slot can undo.
abCopyToOther ==
  /\ MayAct
  /\ LET other == 1 - abActive
     IN  /\ abSlot' = [s \in Slots |-> Current]
         /\ abUndo' = [abUndo EXCEPT ![other] =
              [undo |-> PushCapped(@.undo, Whole(abSlot[other], Current)), redo |-> <<>>]]
  /\ acted' = acted + 1
  /\ UNCHANGED <<sound, ui, edges, batch, request, base, abActive, m, log, made, scroll,
                 opened>>

\* adoptRestoreTail(): a restored session brings its slots, and no history.
Adopt ==
  /\ m = Idle /\ wheelStepKey = NoKey /\ ~userTransaction /\ restored
  /\ restored' = FALSE
  /\ abActive' = 0 /\ preset' = acted
  /\ abSlot' = [s \in Slots |-> [params |-> live, preset |-> acted]]
  /\ abUndo' = [s \in Slots |-> [undo |-> <<>>, redo |-> <<>>]]
  /\ m' = [pc |-> "adopted"]
  /\ UNCHANGED <<live, marks, automating, ui, edges, batch, request, base, history>>

-----------------------------------------------------------------------------
Host == \/ \E p \in Params : Automate(p)
        \/ parameterValueChanged
        \/ Restore

Controls == \/ \E p \in Params, wheel \in BOOLEAN : Open(p, wheel)
            \/ \E p \in Params : Store(p) \/ StoreAnswered(p) \/ Close(p)
            \/ BeginUserTransaction
            \/ EndUserTransaction

Message == \/ TimerTick
           \/ PollCapture
           \/ PollFold
           \/ PollCommit
           \/ \E job \in {"undo", "redo", "switch", "load", "save"} : StateCommand(job)
           \/ undo
           \/ redo
           \/ ApplyUndoEntry
           \/ abSwitchTo
           \/ Saved
           \/ Baseline
           \/ Sync
           \/ LoadPreset
           \/ Loaded
           \/ CommitPresetSwitchUndoStep
           \/ abCopyToOther
           \/ Adopt

UndoNext == Host \/ Controls \/ Message
UndoSpec == UndoInit /\ [][UndoNext]_undoVars

-----------------------------------------------------------------------------
(* Properties. *)

Values == 0..MaxInputs + 1
Sounds == [params : [Params -> Values], preset : Values]
Edits(f) == DOMAIN f \subseteq Params /\ \A p \in DOMAIN f : {f[p].before, f[p].after} \subseteq Values

Steps(s) == abUndo[s].undo \o abUndo[s].redo
AllSteps == UNION {Range(Steps(s)) : s \in Slots}

\* The end a step goes forward to is the user's: the value the user last gave that
\* very parameter.  What the host wrote to it, or to any other, during the gesture or
\* before the poll is in no step.
EndpointsAreTheUsers ==
  \A e \in AllSteps : \A p \in DOMAIN e.owned :
    LET v == e.owned[p].after
    IN  v \in DOMAIN log /\ log[v].by = "user" /\ log[v].param = p

\* One action of the user's is one step: the stores of a transaction, and the
\* notches of an uninterrupted scroll that shared no poll with anything else, are
\* never found in two; and several polls made one step only of one control's notches.
Undivided(name) ==
  \A s \in Slots : \A i, j \in DOMAIN Steps(s) :
    i # j => \A v \in Steps(s)[i].made, w \in Steps(s)[j].made :
               log[v][name] # log[w][name] \/ log[v][name] = 0
StepsAreActions ==
  /\ Undivided("action")
  /\ Undivided("chain")
  /\ \A e \in AllSteps :
       e.polls > 1 => \E k \in Params : \A v \in e.made : log[v].key = k

\* The types, and what belongs together: a wheel notch is one control's, and no
\* poll is under way inside it or a transaction.
UndoTypeOK ==
  /\ live \in [Params -> Values] /\ preset \in Values
  /\ {committed, abSlot[0], abSlot[1]} \subseteq Sounds
  /\ committedSig \in [Params -> Values] /\ committedNeedsResync \in BOOLEAN
  /\ marks \subseteq {"polled", "open", "edge"}
  /\ automating \subseteq Params /\ held \subseteq Params /\ openGestures \in 0..Cardinality(held)
  /\ Edits(owned) /\ episode \in [Params -> SUBSET {"gesture", "declared", "refused"}]
  /\ {wheelStepKey, pendingStepWheelKey, lastStepWheelKey} \subseteq Params \cup {NoKey}
  /\ abActive \in Slots
  /\ \A e \in AllSteps : Edits(e.owned) /\ (IsWhole(e) => {e.before, e.after} \subseteq Sounds)
  /\ wheelStepKey # NoKey => held = {wheelStepKey} /\ m = Idle
  /\ userTransaction => m = Idle

\* The memory of each slot's history is bounded, over both directions together.
HistoryIsBounded ==
  UndoTypeOK /\ \A s \in Slots : Len(Steps(s)) <= Depth

\* Whatever was pushed, dropped, undone and redone, every step the history holds goes
\* forward to the user's values, and no slot's history outgrows its cap (PushCapped(),
\* undo(), redo(), commitUndoStepFromOwned()).
HistoryHolds == EndpointsAreTheUsers /\ HistoryIsBounded

\* A closed batch is never forgotten: whatever ends it (a poll of the timer's, or
\* any command that moves the baseline) first leaves each of its edits in a step
\* that can be undone.  Only a restored session drops it, with all of history.
EditsKept ==
  made # {} /\ made' = {} /\ openGestures = 0 /\ ~(m.pc = "sync" /\ m.of = "adopted")
    => made \subseteq UNION {e.made : e \in Range(abUndo'[abActive].undo)}
EditsAreRecorded == [][EditsKept]_undoVars

\* ADR-0008: an Undo writes only its step's own parameters, and a host value on any
\* other parameter stands.
UndoKeepsAutomation ==
  m.pc = "install" /\ ~IsWhole(m.entry)
    => \A p \in Params \ DOMAIN m.entry.owned : m.target.params[p] = live[p]
=============================================================================
