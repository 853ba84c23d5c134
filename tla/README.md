# Anamorph: a verification development

Anamorph is a stereo-image audio plug-in (C++, JUCE) with a large body of Python
that builds, gates and releases it. Two things can go wrong in it. In the
plug-in, between its threads: the host's audio thread runs the engine, the
message thread edits, switches, undoes and restores the sound, host worker
threads save and restore sessions, and the GUI draws what the audio thread
pushed. In the scripts, between what a program says and what it saw: a green
gate that measured nothing, a certified run that left a process behind, a repair
that breaks what it repaired. This project models both in TLA+, checks them with
TLC on small instances, and proves the main properties of nineteen modules with
TLAPS for every instance.

## Inventory

| Component | State | Operations | Hard behaviour | What makes it correct |
|---|---|---|---|---|
| Bulk-swap handshake and duck (`dsp/AnamorphEngine`, `PluginProcessor`) | parameter atomics, one atomic request word, the awaited sequence, the engine's parameters `p`, the duck's target `pendingP` and its state | undo, redo, A/B switch, preset load; block, prepare, reset | one-by-one stores against one-by-one loads; requests at any point; ducks in flight | no mixture, no swap lost, swaps masked, dry cover aligned, Level-Match of the right slot, every swap lands |
| Scope history ring (`dsp/ScopeBuffer.h`, `gui/ScopeSnapshotCache.h`) | slots of tag and frame, write index; the reader's scratch and accepted window | pushBlock; readLatest, readSince, accept | writer laps reader during a copy; blocks longer than the ring | accepted windows exact; no spurious rejection; implements an atomic window |
| Scope displays' idle gates (`gui/Vectorscope`, `gui/SpectrumImager`) | counts seen, silence and dirty flags, the picture, the FFT data | tick, poll, paint, pushFFT, setPersistence | paint and poll read at different times; rejected reads; two-read wake-up | what is shown is what there is; displays settle |
| Session restore and program state (`PluginProcessor`, `InternalState.h`) | two exchange cells, generations, the published program, settings | getStateInformation, setStateInformation, adoption | host threads against the message thread; deferred tail | a save answers the newest state; no older restore over newer work |
| State-command gate (`StateCommandGate.h`) | transaction depth, dispatch ownership, deferred queue | admit, defer, flush | re-entrancy, commands that run later | order kept, none lost, none inside a transaction |
| Undo history and A/B slots (`PluginProcessor`) | stacks per slot, committed state, gesture and ownership flags | gesture begin and end, poll, undo, redo, copy | timer against gestures, automation and wheel steps | each step once, owner right, undo restores exactly |
| Latency reporting (`PluginProcessor`) | pending flag | request, flush, timer | lost request between take and report | last latency is reported |
| Preset manager (`PresetManager`) | list, selection, baseline, dirty flag | load, step, save, delete | a load is a bulk swap and one undo step | the step holds both whole sounds |
| Meters, seek detection, loudness match | holds, transport flags, evidence | process block, reset | transport jumps, missed edges | holds reset exactly on starts and seeks |
| Text and XML boundary (`SerializedNumber.h`, `XmlBoundary.h`) | none | parse, clamp | edges of formats | every accepted value is in range |
| Diagnosis drivers (`diagnose-*.py`) | a process group, a deadline, a record | spawn, wait, observe, signal, reap; the stages of a campaign | helpers that leave or ignore signals, a census that overruns, cancellation | certified means gone; complete means the whole plan |
| Memcheck runner (`run-memcheck.py`) | two workers' results, the signal seen | start, read, wait, cancel | a signal between start and registration; a pipe held open | green is earned, an interrupt ends |
| Pluginval cache (`acquire-pluginval.py`) | the published directory, each invocation's own | look, fetch, check, unpack, rename | races for the rename, deaths, damage | what is returned is the locked tool |
| Native measurements (`native_validation.py`) | plan, status, records, summary, digests | build, measure, summarize, analyze | timeouts, signals, changed binaries, altered files | evidence is of unchanged, finished runs, and says what was measured |
| Receipt test (`test-macos-receipts.py`) | receipts and bundles before and after | snapshot, refuse, install, validate | an installer that does something else | never over somebody's product; a pass proves the install |
| Artifact gates (`check-dsp-dump`, `-linux-abi`, `-portability`) | inputs of another job, report and summary | parse, compare, write | empty inputs, unwritable or aliased outputs | 0 means measured and equal |
| Warning ratchets (`check-gcc-`, `check-clang-warnings`) | a baseline in the repository | scan, compare, rewrite | spellings, moved lines, other compilers | a green push is no worse |
| Source lints (`check-realtime`, `-dispatch`, `-state-coverage`) | the text, the bodies entered, the tables | strip, walk, compare | literals and comments misread, code reached through helpers | code is seen, findings are reached, merged is answered |
| Documentation checks (`check-docs.py`, `changelog-section.awk`) | containers and fences open, tags, links | read a line, classify, extract | two programs read one file; tags of branches and merges | notes are the entry; main stays green |
| Citation check (`check-citations.py`) | anchors at a base and now | check, fix | repeated and killed repairs, edited lines | green is true, right is left alone |
| Icon check (`check-icons.py`) | inputs, generated container, products; a renderer and measurements it keeps | check, preflight, compile, render, judge | builds, packers and checks stopped halfway; measurements of an earlier check | green is approved, generated and measured now |
| DSP, drawing, packaging | | | | not modelled (below) |

The interactions: the message thread calls into the engine only through the
request word and the parameter atomics; the audio thread calls nothing back,
it pushes frames to the ring; the displays only read. Host threads reach the
program state through the exchange cells. The scripts share files and the exit
status with one another, and nothing with the plug-in. `PROJECT.json` lists the
hazards, each at its line.

## Modules

| Module | What it is |
|---|---|
| `BulkSwap`, `BulkSwapProofs` | the handshake of ADR-0057 with the duck, prepare and reset; inductive invariants, six theorems |
| `ScopeWindow` | abstract: the history read atomically or rejected |
| `ScopeBuffer` | the ring, one action per atomic access |
| `ScopeDisplays` | both displays over the atomic window |
| `ScopeProofs` | proofs about the ring (invariant, three theorems and the refinement of `ScopeWindow`) and the displays (invariant, two more theorems) |
| `RestoreHandoff`, `RestoreHandoffProofs` | sessions restored and saved by host threads while the message thread works; invariant, three more theorems |
| `StateCommands`, `StateCommandsProofs` | the command gate, its queue, re-entrancy on the message thread, and the latency flag; invariant, two more theorems |
| `UndoHistory`, `UndoHistoryProofs` | gestures, what they own, the poll, both stacks of each slot, and the commands that move them; two invariants, five more theorems |
| `Invocation`, `Campaign` | one command of a diagnosis driver; the campaigns made of them |
| `NativeValidation` | the collector of the native measurements and its analysis |
| `Memcheck`, `Receipts` | the Memcheck runner and the receipt test |
| `PluginvalCache` | the cache of the release tool |
| `ScriptsProofs` | proofs about these six; an invariant each, seven more theorems |
| `ArtifactGates`, `IconGate`, `WarningGate` | the gates over what a build leaves |
| `LintText`, `RealtimeLint`, `StateCoverage` | what a lint reads as code, what the audio thread reaches, what the lists cover |
| `DocLinks`, `ReleaseNotes`, `ReleaseLinks`, `Citations` | the documents against the code and the history |
| `GatesProofs` | proofs about `IconGate`, `WarningGate`, `StateCoverage` and `ArtifactGates`; an invariant each, four more theorems |
| `DocsProofs` | proofs about `ReleaseLinks`, `Citations` and `ReleaseNotes`; an invariant each, five more theorems |
| `MC*` | instances for TLC; most play several modules that share no state, one per behaviour (`program`, `part`), while the variables of the others keep one initial state |

### BulkSwap

The audio side is a cycle of `pc`: `idle`, `AcquireBefore` (take the request
word), `ReadParam` once per parameter, `AcquireAfter` (take it again), then one
adoption action per branch of `adoptSnapshot`, then `Bottom`, `FinishFadeIn` or
`Advance` for each slice of `process`. `prepareFrom` is `AcquireBefore` with
purpose `prime`, `Prime`, `Prepare`, then a second read with purpose `settle`.
The message thread opens a swap, writes what it owes, and ends it; nested swaps
join. Edits come from any thread at any time.

A parameter's value is the number of the swap that last wrote it and a small
payload, so that a mixture of two sounds can be seen in the values. `swap`,
`changed`, `slotOf` and `events` are history. Memory is sequentially consistent
(module comment). The request word keeps its fields, not its bits. Left out:
requests with sequence 0, which nothing under `src/src` makes, the mask by which
a solo preview overrides one parameter of the snapshot, flags that steer DSP
only, and a session adopted by a tick that the host pumps inside a swap's writes
(`PluginProcessor.cpp:370`, below): `ForgetMemory` comes between swaps.

Bounds: `MaxSwaps`, `MaxEvents`, `Top` (steps of a fade), `SeqCount`.
Parameters are in kinds, not in number: discrete, continuous, and held by an
ordinary duck without being compared. Two swaps with one other event (an edit, a
restore, a prepare or a reset) overlap in every way two can; both runs stay
there. The sequence wraps from the third swap on with two numbers: the theorems
hold for every number of swaps, and `bulk_ab` with three swaps and no other
event (198 thousand states), or with one payload and one event (410 thousand),
passes too, outside the list of runs for its length.

| Run | What it shows |
|---|---|
| `bulk_swaps` | two parameters: `NoMixture`, `NoSwapLost`, `SwapMasked` |
| `bulk_ab` | one parameter, two payloads and so two latencies: `DryPathAligned`, `RestoredMatchFits`; under fairness `SwapLands` |

Fairness: a swap is a loop on the message thread that returns
(`EndSwap`, `WriteParam`); the host keeps calling, a read and an adoption are
straight-line code, and a block reaches its last slice (`Process` that ends in
`idle`). No fairness is put on swaps, edits, resets or prepares themselves.
Deadlock checking is off because the message thread's bounds end its part; the
audio side never blocks.

Proofs. `IInv` conjoins the types with four parts. `RequestInv` relates the
word, the awaited sequence and the pending start to the newest swap: with
nothing pending, none is open. `StoreInv` says which parameters the atomics
already show of each swap: all it moved, save what the open swap still owes.
`ReadInv` says of a snapshot in progress that, if it is still trusted, it has
seen only whole swaps and exactly the live ones. `DuckInv` says of `p` and
`pendingP` that they are whole and that a target that differs in its swaps is
under a forced duck. None of the five properties is inductive without the
others: a trusted snapshot is whole because no swap was open at its start and
none can begin unseen before its end, which is a fact about the word. The
conjunction was checked by TLC before it was proved.

`RestoredMatchFits` rests on two more. `SlotInv`: a swap that moved nothing left the
slot as it was, so a sound's newest swap tells its slot. `MatchInv` follows the
switches along the way from the word through the stash to the duck: what the engine
heads for is of the slot that the first switch still to be started leaves (`From`), a
trusted snapshot of the slot that the taken ones lead to (`Near`), a record waiting to
be restored is the target's, and with none waiting what is heard is of that slot too,
so the next switch records the right sound. A session restore voids all that until
its word is taken.

### ScopeBuffer

Every store of `pushBlock` (tag 0, payload, tag, index) and every load of
`copyAt` (tag, payload, tag) is an action. A frame is its position in the
stream. `scope` takes a ring of three slots, a cache of two frames, blocks up to
four frames and eight frames in all, more than twice round the ring:
`RejectOnlyWhenLapped` (a reader that is not lapped succeeds), and `Refinement`
to `ScopeWindow` (an accepted window is exact; reject and an unused copy are
both the abstract `Reject`).

Proofs. `SlotInv`: a tag vouches for its frame. `WriterInv`: the slot being
written is claimed. `ReaderInv`: if the tag still stands at the second check,
the payload loaded is the one of that position, because a committed position
never gets its tag again. `KeptInv`: every published position still has its tag
or the writer claimed its slot a lap later; it rests on `LapApart`, that two
positions share a slot only whole laps apart. They give the exactness, the
rejection theorem and the step refinement, for every capacity, cache limit and
block length.

### ScopeDisplays

A frame is loud or zero, a picture is the set of ages of its loud frames. Reads
are atomic or rejected, which `ScopeBuffer` justifies, and rejected only while
the host plays. The vectorscope polls and paints at different times; the
spectrum's `pushFFT` has a second read after its tail scan, between which frames
are pushed. Opening the editor constructs both anew. The smoothing of the
spectrum, drawing and visibility are left out.

Of the displays, `scope` checks `DisplaysFresh` (the vectorscope's picture and the spectrum's
data are of the newest frames whenever they claim to be) and, under fairness of
the tick, of repaints asked for and of `pushFFT`, `DisplaysSettle`. A history
of three frames, windows of two and blocks up to two cover filling, silence,
return and overflow of a window. The run uses one window size and polls no further
apart (`MaxStall`) than the history is long, because without either limit the
vectorscope can go idle with an old picture:

- `displays_grow`: `lastFrameSilent` belongs to the window length of the last
  poll. Poll silence, lengthen the persistence, paint (older loud frames come
  into view, the view is clean), poll again when the longer window is silent
  too: the gate believes the silent picture is up.
- With `MaxStall` above the capacity, and no run of its own: poll silence, loud
  frames, paint, then more than a ring of zeros before the next poll: the capped
  scan sees no loud frame.

Both contradict the comment in `Vectorscope.cpp` that the all-zero image must be
accepted before the view goes idle. The spectrum does not have the defect: it
shows only what its own poll read.

Proofs. `SpectrumInv` says what `pushFFT` knows: no frame within a window of its
last read is loud unless the counter of the last loud read is past it, a silent
window has no data, a wake-up is only between its two reads. `PictureInv` says
that nothing polled is loud past its counter and that a clean picture is the
window of some moment since the last poll; a poll then either finds silence
before and after, in which case both moments look the same, or makes it dirty.
`SpectrumAlwaysUpToDate` needs no condition. `DisplaysAlwaysFresh` assumes
`Steady`, that windows have one size and no poll misses frames: the two limits
above are exactly what the step of a poll needs.

### RestoreHandoff

A session is sound, program and settings. Two actors share them. The host thread
(`hpc`) restores in the order of `setStateInformation`: `AnnounceRestore` (the
generation goes into `engineConfig`), `LockToInstall`, `InstallParam` once per
parameter, `Installed` (the token), `HandOver` (into `pendingRestore`). It saves
with `TakeProgram` from `programMailbox`, `CaptureSave` under the lock, and
`ReturnSave`. The message thread (`mpc`) enters by a `door`: the timer, a
command, a save, or a restore of its own. Each first drains the cell, one action
per step of `adoptPendingHostState`: `TakeRestore`, `Reinstall` or `KeepSound`,
`AdoptRestoreTail`, and again until `Drained`; the doors that may not wait can
`RefuseDrain`. Then come `AdmitCommand` or `DeferCommand`, `SaveHere`,
`InstallInline`. Edits of settings and of the sound, and topology bursts
(`Transaction`), happen in between. Messages that the host pumps inside these
steps are the subject of `StateCommands`.

Values are the numbers of the arrivals that made them, so a mixture of two
sessions, or an older one over a newer, can be seen. The host never has two
state calls at once, the contract that `PluginProcessor.h` states where it
counts them. A deferred command is one that comes again. Left out: lazily seeded
slots, the committed baseline, latency, a restore that brings no settings, the
wrap of the 32-bit generations, and commands that change only metadata.

`handoff` checks four properties, two of them made of several parts.
`SessionIsWhole`: what is settled is one session and not older than the newest
restore, settings follow the order of arrival field by field, as does the
engine's oversampling at every moment. `SaveIsTrue`: the host's next save sees
all the message thread did, is of the newest restore with the edits known to it,
and of one session. `EditsSurvive`: adoption does not undo edits of the restored
sound. `RestoreAdopted`: each restore is adopted. A save may pair an old program
with the sound of a command that ran during the save: ADR-0036 records this, so
the part of one session excepts sounds of commands.

Bounds: three arrivals (`MaxEvents`) allow two restores overlapping with a
command or a save, in any order; two parameters suffice for a mixture;
`MaxEdits` of one allows an edit of the sound or a burst. Fairness: calls in
progress return (`HostStep`, `MessageStep`); the timer recurs, so it gets in
between other calls infinitely often (strong fairness of `Enter("tick")`); a
burst, which is a loop of stores, ends. Nothing is assumed of restores, saves,
commands or edits. Deadlock checking is off because the bounds end them. The same
run plays the gate of `StateCommands` under its own fairness, for `PutOffIsDone`.

Proofs. `IInv` says of every arrival where it is: what each cell holds and in
which order (`NumbersGiven`, `GenerationInv`), which calls may be inside together
(`DoorInv`), that the token names the restore whose sound is live until something
replaced it (`TokenInv`, `ReplaceInv`), and what settings, sound and the published
program can then answer (`SettingsInv`, `SessionInv`, `SnapshotInv`).
`SessionIsWhole` is not inductive: between the install on the host's thread and
the adoption of its tail the sound is of a session whose program is still in the
cell, and that it will be this program that arrives, and not an older one after
it, is a fact about generations and tokens. The theorems hold for any number of
restores, commands and edits and any set of parameters.

### StateCommands

Undo, switches, copies, loads, saves and Apply Gain pass `StateCommandGate`. Each
write of a parameter calls the host, and the host may run the message loop
before it returns, so the message thread is re-entered at any write: a click, a
tick or a whole burst of edits on top of half a command. The module makes this
explicit: `stack` is the thread's calls, innermost first, each with the point
(`at`) where it goes on. A pumped message may start only over a frame that is in
a `dispatch` or in a latency `callout`. The counters that the code keeps in
scopes (`userTransactionDepth`, `stateCommandDepth`, `dispatchDepth`,
`restoreApplicationDepth`, `runningDeferredCommands`, the depth of the recursive
lock) are the numbers of such frames, which is what their constructors and
destructors make them.

The gate is `GateRefuses`, `GateNests`, `GateDrains`, `GateDrained`,
`GateTries`, in the order of the constructor. The flush is `FlushLoop` (adopt),
`FlushMove` (try the lock, take the queue), `FlushRun` and `FlushRan` or
`FlushRefused` for each command, `FlushBatchDone`. Adoption is the non-blocking
arm of `adoptPendingHostState`. A command's body is reduced to the points where
it calls out: what it polls first, whether it writes, what it flushes when it
ends. `switch` stands for the switches and for loading or stepping a preset.
The host thread restores (announce, install under the lock, hand over) or holds
the lock for a save. The latency is `stale` while the host knows another one.
`ran` and `interrupting` are
history; `interrupting` counts a click given over a command in hand, and one under a
command that a flush took for refused.

Left out: what commands do to sound, slots and history, which `UndoHistory`
has; the doors that wait for the lock, which `RestoreHandoff` has; two sessions
restored while the stack is deep (one restore at a time is what the lock leaves
possible inside a write). A command given directly may run before older ones
that wait: the gate promises order among those it puts off only.

| Run | What it shows |
|---|---|
| `commands` | every nesting of three commands (undo, a preset save, Apply Gain) with a restore, an edit, a latency change and a pumped message: `GateHolds` (none dropped or doubled, none inside a write, a flush keeps order, callouts outside the lock, no latency request lost) and `BurstsKeepSession` |
| `commands_order` | three undos, a restore and a save: `QueueAlwaysInOrder` is violated (below) |
| `handoff` | two undos, a restore, a save of the host and a pumped message: `PutOffIsDone`, each command takes effect and each latency is reported |

Bounds: three commands are the least with one in a flush, one behind it and one
pumped over it; one pumped message already gives a second command, tick or burst
over the first, and further depth comes from the calls themselves. The save of
the host and its lock are in `handoff`. One latency change is enough to
lose; more would show only repetition. `switch` and `copy` are not in
the runs: a switch is an undo that does not poll, a copy a save that does not adopt.

Fairness: calls return (`Resume`), the host and the audio thread finish what
they began, and the processor's timer ticks: the top-level `Tick` is strongly
fair, since the editor's tick, edits and clicks may alternate with it and it is
enabled again after each. No fairness on clicks, edits, restores or pumping.
`commands` checks deadlock: a tick is always possible (the history, which stops at
its bounds, may rest there).

`commands_order` shows that the queue can lose the user's order, which
`StateCommandGate.h:65-67` and `THREADING_POLICY.md:224` promise and which the code
of the flush sets out to keep (`PluginProcessor.cpp:944`). The gate drains the cell
before the command is queued or admitted (`StateCommandGate.h:155`); a click pumped
by the drain is queued in front of the one that is still being asked about. A
second way: a click refused inside a callout of a command that a flush has in hand
makes the flush take that command for refused (`PluginProcessor.cpp:145`, `:933`);
it runs, and a click given during its writes is put back at the head, before older
ones (`:954`). `GateHolds` excepts the clicks of these two kinds (`interrupting`)
and holds, so within the model there is no third.

Proofs. The stack of calls has any height, so the invariant speaks of frames, of
neighbours (what a call may interrupt) and of pairs (what a call has to do with
any below it). `IInv` conjoins `DataTyped`, `StackHolds` (the types of frames,
which points each kind of call has, what is open below a callout, how far a flush
has come and which commands it holds, who may be below an adoption),
`QueuesInv` (where each command is: to be run, in hand, put off or done, and in
one place only), `LockInv` (host and message thread), `DoneInv` and `LatencyInv`.
`GateHolds` is not inductive alone: that none is doubled rests on where each
command is, and that a flush keeps order rests on the batch it took being older
than everything queued since, except behind an interruption. The theorems are for
any number of clicks, restores, saves, edits and pumped messages.

### UndoHistory

A control opens a gesture (`Open`, with first ownership), stores (`Store`, or
`StoreAnswered` when the host answers from inside the notification), and closes
it (`Close`); a wheel notch is a gesture of its own that names its control. The
multiband display's stores declare themselves (`DeclareWrite`, also between
gestures of one transaction), an attachment declares only the end it asked for
(`DeclareEndpoint`), a press that produced nothing is refused. Meanwhile the host
automates in two steps, the store (`Automate`) and the count that announces it
(`parameterValueChanged`), and may install a session (`Restore`).

The poll is `Poll` (what it reads before its capture), `PollCapture`, and
`PollFold` or `PollCommit`; it runs for the timer (`TimerTick`) and first in each
command. Automation may land between any two. A command is `StateCommand`, then its
own steps: `undo` or `redo` (the target is made), `ApplyUndoEntry`,
`abSwitchTo`, `LoadPreset` and `CommitPresetSwitchUndoStep`, `Saved`, `Adopt`,
and `Baseline` and `Sync` for `syncCommitted`.

Each value written is a new number, and `log` says who wrote it, on which
parameter, and of which action and scroll; so a wrong end, a step of the host's
or a split action can be seen. `marks` replaces the copies of `soundParamGen`,
which the code only compares for equality with the counter. Reductions: a poll
reads count and signature in one step, a capture of all parameters and an
install of a target are one step each, a tick over an open gesture or
transaction, which would leave everything as it is, is not taken. The user has
one pointer: no new gesture opens while a drag that a jump cut short goes on.
Left out: view parameters, values that differ without being rendered differently,
lazily seeded slots, and a save while a host thread holds the lock (it only asks
for a new baseline).

Of the history, `commands` checks `HistoryHolds` (the end a step goes forward to is
the value the user gave that parameter, `EndpointsAreTheUsers`, and every history
keeps within its cap, `HistoryIsBounded`), `StepsAreActions` (a transaction or an
uninterrupted scroll is one step, only notches of one control share a step across
polls), and `EditsAreRecorded` (whatever ends a closed batch leaves its edits in a step first;
only a restored session drops it). Two parameters, one of each kind, a depth of
two, two stores, three gestures, three acts, one value of the host's and five
inputs in all reach each mutant; six inputs with three stores (6.9 million
states) was checked as well, outside the list of runs.

`undo_automation` shows the one disagreement found: an undo reads the live sound,
puts its own parameters in, and writes the whole back, so a host value on another
parameter that lands in between is overwritten, which ADR-0008 says it is not.

Proofs. Values are typed over the log so far, so a new one is newer than all the
history holds. `IInv` conjoins the types with `GestureInv` (who holds what while a
batch is open), `RoomInv` (both stacks of a slot leave room for the step in hand),
`EndInv` (whose each end is) and `MadeInv` (where the edits of the pending batch
are). Three arguments carry it. When the last gesture closes, no owned parameter
is left for which only a gesture speaks, so no end is read from a sound that the
host may have moved (`BatchEnds`). A jump takes a step off one stack before it
puts it on the other, so the cap has to hold of the stacks and the step together.
And `EditsAreRecorded` needs that each edit of the batch lies between the two ends
its parameter will have and has not been seen by `committedSig`, so a poll cannot
find the sound unmoved, and that a jump has polled first (`MadeIs`, `MadeWaits`).

`StepsAreActions` has an invariant of its own, `StepInv`, since the code tells
scrolls apart by names alone. While nobody else writes, every gesture counted is a
write of the batch and all that is pending is the scroll in progress, whose last
notch its poll sees (`ScrollInv`); the name of the pending step is then that of each
of its writes, unless the next close takes it away (`KeyInv`); what there is of the
scroll is in the last step, which has its name (`LastInv`); and no two steps of a slot
share an action or a scroll, nor does the step a jump holds (`DividedInv`). The proof
first failed beyond the bounds of the run: a store of a drag that a jump cut short, or
a restored session, can share its poll with a later notch, and the model counted that
notch with the scroll. Such a notch is of no scroll, as the code has it: `Alone` and
`Restore` say so now.

### The scripts that run programs (`runners`)

`Invocation` is one command of `diagnose-rosetta-*.py`: the launch, the wait
within its budget, the census of whom it owns, and the cleanup (`Term`, grace,
`Kill`, `Reap`, `Final`) against a fixed deadline. The command exits, hangs,
forks a helper; the helper leaves the group or ignores TERM; the census may
overrun. A helper that has left is a backend if its program is called debugserver,
which is all that the handshake driver can name outside its command
(`diagnose-rosetta-handshake.py:222-223`); another one it may leave, as the others do.
Time counts twentieths of a second, and a call that fails takes all it was given. `NothingLeft`: a certified command has an empty group, each member was
sent a signal that ends it, and the last look has some time however the stages
share it. `Campaign` takes commands as sets of facts and walks the plans of the
four campaigns, with cancellation anywhere: `CampaignHolds` (`CompletionEarned`, and
`CleanupWithholds`: no target is started on a machine where something was left).

`PluginvalCache` has up to two
processes with three invocations among them race, die and retry over a cache that
may be damaged: `CacheIsSound`.

`Memcheck`: two workers and the main thread, a suite that may leave a helper on
its output; `GreenIsEarned`, and under fairness of the workers and of suites that
get a signal they cannot ignore, `InterruptEnds`. `Receipts` installs a package of
three components on a machine that may hold a product, by an installer that may do
anything, with questions that may fail: `InstallIsProven`, `NeverOverExisting`.

Bounds: one cap and one budget per driver, since only their order matters; two
members of an archive. The programs end, so deadlock is not checked.

`NativeValidation` measures a plan of rows, saves its status after
each, summarises, and is analysed afterwards. `EvidenceIsEarned`: the accepted
directory is a complete measurement of unchanged programs, and its figures are those
that were measured (`EvidenceIsWhole`); no probe runs on (`ProbeIsReaped`). One
alteration may come before the analysis, and some pass. `analyze()` reads of the
machine, source and build files whether some fields are there and what a normal
collection must fulfil; any other text of theirs may change (`wording`). A summary
keeps of each group of repetitions the median, the least and the greatest time
(`Figures`; the worst call behaves as the greatest), so a record whose time moves none
of these is not found out. A forged status passes where a signal came after the
summary was written. Two files altered to match are not found out either, and are left
out (bound: one). `Popen` and the `try` behind it are two steps: a signal between them
leaves the probe, and `ProbeIsReaped` excepts that and a second signal during the
cleanup (`abandoned`).

Its bounds: five repetitions, the least that a normal collection accepts; one cell and
one block with its readers, thirty rows in six groups; one row with two possible times;
one fault or altered record, at one of four rows that differ in place, reader and
direction (`Troubled`); one signal. Left out: the memory figures, which a summary keeps row by row.

Proofs (`ScriptsProofs`). `MemInv`: a worker that waits has seen its suite and
whoever held the pipe end, and one that recorded a completion is done with it, so
neither the next pass of the main thread nor a late helper can undo it.
`ReceiptsInv`: what the report says of each component was read from the machine as
it still is, and the machine is the one of the snapshot until the installer runs.

`InvInv`: a group once seen empty stays empty, because its leader is reaped and no
member is left to fork (`ProcessInv`); after KILL every member is doomed, so none
forks again (`DoomInv`); a verdict rests on what the last look saw (`VerdictInv`); and
each stage begins with what the stages after it may take still on the clock
(`TimeInv`), so that the time of the last look is a sum over them, with every cap and
budget and the overrun of a census as parameters.

`NvInv`: each row read is good or the one that differs (`RowInv`). A status of
completion was written only when the whole plan had been measured, nothing had changed
and no signal had come, and a summary only with the figures then measured
(`StatusInv`); an alteration spoils one of the two at most. So whoever accepts has one
that says the plan was measured: the records are then as they were read, or the
summary, which they must fit, is (`AcceptedIsWhole`). One row that differs makes its
pair disagree; and no place from which the collector ends by itself has a probe running
(`ChildInv`). The plan is a concatenation over any cells and repetitions; that it is a
sequence comes first (`ChainIsSequence`).

`CamInv`: whoever is at the next stage has passed all before it, save the focused
runs, and an entry of `unclean` is either the debugger's focused run, behind which
the plan has no further target, or the last thing done. What `FirstOf` returns is the
least of the facts that hold, which exists because the naturals are well founded
(`LeastExists`); hence a run that left something cannot be judged good
(`FocusedIsJudged`, `LaunchIsJudged`, `TraceIsJudged`).

### The gates (`gates`)

`ArtifactGates`: the exit status of three gates over small dumps, binaries and
packages with outputs that fail at any write; `ZeroIsMeasured` compares it with a
reference reading, and says that dumps are never written over and the report
tells what was answered. `IconGate`: checks of a build and of its staged copy,
between which the generator, a build or a packer run in whole or in part, the art
or the renderer change, and a check itself may be stopped while it compiles or
measures; `IconsHold`. Two such changes, six containers (macOS's modern kinds and
its old ones, one without a size, one without its mask, one misnamed in its listing,
and the frames of Windows) and, for `icns_rle`, strings of up to six of
four bytes that fill two channels of three pixels. What the renderer measures is
external: near the approved art or not. `WarningGate`: pushes between which warnings appear, are
fixed, move and are spelled otherwise, compilers change and the baseline is
edited; `RatchetHolds`. `LintText`: the strippers of four C++ lints and of
`check-docs.py` over runs of fragments that say which characters are code;
`CodeIsSeen`. `RealtimeLint`: the definitions a file really has against the bodies
the lint enters; `FindingsAreReached`. `StateCoverage`: commits to the engine's
lists and the lint's tables, with the engine's own functions run on what is let
through; `MergedIsAnswered`. `DocLinks`: pages of pieces that say what a renderer
makes of them; `DefectsAreFound`.

Proofs (`GatesProofs`), of the two gates that remember. `WarnInv`: a baseline of a
compiler holds the counts of what was accepted for it (`Describes`), and while all that
happened since a green push is harmless, what is seen stays within it (`Fine`). That a
scan counts each warning once (`ScanIs`) rests on the assumption that every spelling
of a file leads to it; a moved line trades one site of its key for another, which
keeps the number. `IconInv`: no program is newer than its source, so one of the same
time was made from it; what a check asked of the tree still stands when it answers,
since nothing else runs meanwhile (`FirstChecks`); and the measurements it judges are its
own. `GreenIsAlwaysMeasured` then needs that an accepted container can be drawn at
every size (`AcceptedIsDrawable`). The half of `IconsHold` about `icns_rle`
(`RleDecodes`) is induction over the bytes and stays with TLC.

And of two gates over given inputs. `CovInv`: what landed compiles and the lint found
nothing in it. That every field is then answered (`ChangeIsAnswered`) follows from the
lists of problems being empty one by one, and from the scopes being a dictionary, in
which a field has one answer. `GatesInv`: the dumps are as they were, and a comparison
that has an answer has left its evidence. A portability gate that says 0 has looked at
the highest version of each family; that one exists in a finite set of references
since versions are totally ordered (`AboveOrders`, `AboveIsTotal`, `HighestIs`), and no
version of the family is above the floor when the highest is not (`NotAboveIsAtMost`).

The inputs are chosen, not enumerated: fragments and pieces are the constructs the
code has a branch for, in every order and pair, each with its truth beside it. The
reference is written from the language's rule, the definition from the script. A
fragment goes to the lints that claim to read it: a raw string to `check-realtime` and
`check-portability`, which alone know one. Two inputs are kept out because the scripts
misread them, and `CodeIsSeen` and `DefectsAreFound` are claimed without them: a
literal continued over lines in `check-realtime`, and a code span at the start of a quote's
line or of the line after it (both below).

`RatchetHolds` is about counts, which is all that a baseline keeps: a new warning can
take the place of a fixed one of its file and flag until the baseline is rewritten.

### The documents (`docs`)

`Citations`: a file with lines inserted, removed and edited, two documents of a
few citations, checks and repairs in any order, repairs that are killed.
`GreenIsTrue` (with the repaired being right), `RightIsLeftAlone`. `ReleaseNotes`
reads each line with two programs, the checker and the extractor:
`NotesAreTheEntry`, over documents of any length, since its state is what is
open. `ReleaseLinks`: every history of four commits with branches, merges, forks
and tags, and checkouts that hold some of them: `LinksGoForward`,
`MainStaysGreen`. With one slip of an author besides (`MaxSlips` of one, 140
thousand states) it passes too.

Proofs (`DocsProofs`, of `ReleaseLinks`, for any versions and number of commits,
where no branch lands a tag of its own). `LinksInv`: what a commit holds is a partial
order (`DagInv`); main has been a line of tips and its releases are on that line in
their order (`LineInv`); and every tip of main is green. A landing adds nothing to
main's releases, and a release tagged later has in its history each commit it does not
bind, so the set that binds an old commit never changes (`SameAnswers`,
`TagReleaseKeepsLinks`). For the links, the newest of the releases below a version
exists (`NewestBelow`), and where the line of main is unknown a file passes only if
it has one version and there is no other tag.

And of `Citations`, for any documents, declarations and edits, the lines of a file
being distinct (in the code `difflib` picks among equal ones; a line is its content
here). `CitInv`: what a run finds of the declarations, before it opens a document,
still holds while it visits them (`DeclarationsInv`), since a check writes nothing and
a repair relies on none but the pins (`PinsAgree`); the counters say what is true of
the documents visited (`VisitedInv`). A repair rewrites a citation to the one place
where its first and last lines are now, so the next look finds it right
(`RebuiltIsRight`), and writing one document leaves the others as they were found. The
property needs the counters: it speaks of the moment the run ends.

And of `ReleaseNotes`, for any lines: marks of any depth and width, in any order.
`NotesInv`, while the checker finds nothing: a fence open at the level of the document
is open for both programs (`FencesInv`), and print is on exactly in the entry wanted,
which comes once, since versions fall (`PrintInv`). The programs may disagree about a
fence in a quote or an item, where one of them opens what the other does not. It does
no harm: a line at column 0 leaves every such fence (`SurfaceLeaves`), and what is
opened on a line inside one is in a quote or an item too (`InsideIsDeep`), because the
items an open fence is in stay a prefix of those the lines sit in (`HeldStays`). That
both programs walk the marks of a line by a recursive function, and what holds after
each mark, is by the least mark at which it would fail (`WalkExists`, `WalkIsGood`).

Simpler than the code: a line that was removed and inserted again is found by its
content (`MapLine`), where `build_line_map` gives it up and so repairs less; the
extractor's own container chain is the checker's (`Extract`), the two agreeing line by
line; and a reconstructed heading names no release, though that of 0.7.5 would pass for
one (`check-docs.py:1166`), a version that is never tagged.

`citations_refix` shows a repair that exits 0 and is red on the next check: in a
document whose number of citations changed, a spelling the base also has is taken
for that very citation, although the repair has just moved another one there. The
script's comment promises the contrary of such repairs.

## Divergences without a run of their own

Seen by TLC while modelling, and kept as definitions or constants of the modules:

- `PluginProcessor.cpp:370`: a tick pumped inside a command's own writes adopts a
  session, and the command goes on with the slot or step of the one before.
  `PluginProcessor.h:527` says that nothing may be adopted there. `TargetKept`.
  Bursts and Apply Gain, which open a transaction, are safe (`BurstsKeepSession`).
- `Vectorscope.cpp:72`: the stall described above.
- `PluginProcessor.cpp:2162` and `:1047`: undo and `syncCommitted` take the sound and
  then its signature; automation in between stays out of `committed` until the next
  value moves, so a preset step's before-end can lack it (`:2026`).
- `check-docs.py:1279`: an older commit of main becomes bound by a tag that main gained
  with a branch tagged before its merge (`LandsTags = TRUE` in `ReleaseLinks`).
- `check-realtime.py:391-395`: a literal that a backslash continues on the next line loses
  its newline, and what follows is numbered one line less, against the docstring
  (`:315-316`). Given the fragment of the other lints, `CodeIsSeen` is violated.
- `check-docs.py:883`, `:886`: the quote check gets text whose code spans are blanked. A
  line that is only a code span looks blank after a quote, and within one looks like its
  end: what the quote then swallows (`:52-53`) is not reported. Given such a piece,
  `DefectsAreFound` is violated. A line that begins with one can also look like an item.

## What is proved and what is only checked

Proved for all constants: the theorems listed in `PROJECT.json`. Assumptions:
`ParamsAssumption`, `BoundsAssumption`, `ScopeAssumption`, `DisplaysAssumption`,
`HandoffAssumption`, `CommandsAssumption`, `UndoAssumption`, `InvocationAssumption`,
`NativeAssumption`, `RowsAssumption`, `CampaignAssumption`, `WarningAssumption`, `IconAssumption`,
`ReleasesAssumption`, `CitationsAssumption`, `CoverageAssumption`,
`ArtifactsAssumption`, `NotesAssumption`, and what `PluginvalCache` assumes of its constants: that sets
are sets of the right kind, bounds are numbers, markers are not parameters, every
spelling of a file's path leads to it, a binary has finitely many references, and the
lint's first tree compiles and passes. `Memcheck` and `Receipts` need
none. Some theorems have a condition of their own: `DisplaysAlwaysFresh` has
`Steady`, and the three about `ReleaseLinks` ask that `LandsTags` is false, without
which the code diverges from its docs (above).

Of the cache (`ScriptsProofs`), `PvInv` conjoins the types with what is in the published
directory, what each invocation has staged and read so far, and where a result
was reached. `CacheIsSound` is not inductive alone: that the loser of a rename
returns the tool rests on what it has verified of the winner's directory, and
that a published directory is whole rests on what each staged one is at each step.

Model-checked only: liveness (`SwapLands`, `DisplaysSettle`, `RestoreAdopted`,
`PutOffIsDone`, `InterruptEnds`), since fairness and ENABLED are outside the
prover; `RleDecodes`; and `LintText`, `RealtimeLint` and `DocLinks`, which are functions over
texts: what they are compared with is written beside each chosen text.

## Plan

1. A property for the one hazard that has none: a command derives its target from
   the session it drained to, and then writes while the host pumps ticks.
2. An abstract gate (commands that take effect one at a time), which
   `StateCommands` implements but for the two divergences.
3. The spectrum's band editor as a component of its own; level meters and seek
   detection; serialized numbers as operators against reference definitions.

## Not modelled

Floating-point DSP (sequential, numeric), drawing, layout and frame pacing,
parameter tables, file formats and file I/O of the plug-in, the pixels and bytes
of image files, packaging and tests. Of the scripts: the regular expressions
that take logs apart, the wording of what they print, the checks of single
documents' inventories, and their self-tests, which are tests and not behaviour.
