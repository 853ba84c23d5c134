--------------------------- MODULE RestoreHandoff ---------------------------
(***************************************************************************)
(* A session is its sound (the parameters), its program (preset name and   *)
(* identity, A/B slots, history) and its settings.  The message thread     *)
(* owns the program and the settings.  A host thread may restore a session *)
(* or save it at any time: it announces a restore in the engine's          *)
(* configuration word, installs the sound itself, and hands the rest over  *)
(* in a cell that the message thread empties; it saves from a snapshot     *)
(* that the message thread publishes in another cell.                      *)
(*                                                                         *)
(* Everything is named by what made it: each restore, command and edit has *)
(* a number, later ones higher ones.  A parameter holds the number of the  *)
(* session it was written for, the program the number of its session, a    *)
(* setting the number of the restore or edit that gave its value.  A       *)
(* command is an A/B switch, an undo or a preset load: it replaces sound   *)
(* and program.  What is left out: the committed baseline for undo, lazy   *)
(* slots, latency, a restore without settings, and the wrap of the         *)
(* 32-bit generations.  The host never has two state calls at once, which  *)
(* PluginProcessor.h:1036 assumes.                                         *)
(***************************************************************************)
EXTENDS Integers

CONSTANTS
  Params,         \* the sound's parameters
  MaxEvents,      \* bound: restores, commands, settings edits
  MaxEdits        \* bound: sound edits and transactions

ASSUME HandoffAssumption == Params # {} /\ MaxEvents \in Nat /\ MaxEdits \in Nat

Fields  == {"oversample", "other"}     \* one setting the engine reads, one it does not
NoTree  == [gen |-> -1]                \* an empty cell
TryOnly == {"tick", "command"}         \* the doors that may not wait for the lock

VARIABLES
  events, edits,                       \* history: counters of the bounds
  newest,                              \* history: the last arrival that set each field
  lastRestore,                         \* history: the last host restore announced
  commands,                            \* history: which numbers are commands
  sound,                               \* the live parameters
  edited,                              \* those touched since they were last replaced
  soundSetGen,                         \* whole-sound replacements completed
  soundReplacement,                    \* who holds the replacement lock
  engineConfig,                        \* the word: generation and oversampling
  pendingRestore, programMailbox,      \* the two exchange cells
  hpc, d, todoH,                       \* the host thread: where, its decode, left to write
  hostRestoreGen, hostProgramView, hostRestoreView,
  saved,                               \* the answer of a save being returned
  mpc, door, r, todo, writing,         \* the message thread: where, entered for what,
                                       \*   the restore taken, left to write, for whom
  userTransaction,                     \* a topology burst is open
  adoptedGeneration, program, settings, editGeneration

history == <<events, edits, newest, lastRestore, commands>>
live    == <<sound, edited, soundSetGen>>
host    == <<hpc, d, todoH, hostRestoreGen, hostProgramView, hostRestoreView>>
owned   == <<adoptedGeneration, program, settings, editGeneration>>
message == <<mpc, door, r, todo, writing>>
vars    == <<history, live, soundReplacement, engineConfig, pendingRestore, programMailbox,
             host, saved, message, userTransaction, owned>>

-----------------------------------------------------------------------------
(* Helpers. *)

NextEvent == events + 1

\* publishOversample(): the compare-exchange yields to a higher generation.
PublishOversample(value, gen) ==
  engineConfig' = IF engineConfig.gen > gen THEN engineConfig
                  ELSE [gen |-> gen, value |-> value]

\* editIsNewerThan()
EditIsNewerThan(editGen, gen) == editGen >= gen

\* adoptResolved(): a field edited at or after the restore's arrival stands.
AdoptResolved(restored) ==
  [f \in Fields |-> IF EditIsNewerThan(editGeneration[f], restored.gen)
                    THEN settings[f] ELSE restored.event]

\* resolvedWithEdits(): the same choice, for a save.
ResolvedWithEdits(view, snapshot, gen) ==
  [f \in Fields |-> IF EditIsNewerThan(snapshot.editGeneration[f], gen)
                    THEN snapshot.settings[f] ELSE view.settings[f]]

OwnedProgram ==
  [gen |-> adoptedGeneration, program |-> program,
   settings |-> settings, editGeneration |-> editGeneration]

\* publishProgram(), of what the step leaves behind.
PublishProgram == programMailbox' = OwnedProgram'

\* The host calls one state function at a time, on whichever thread.
HostFree == hpc = "idle" /\ ~(mpc # "idle" /\ door \in {"save", "inline"})

\* The call the message thread is in ends.
Return == mpc' = "idle" /\ door' = "tick" /\ writing' = 0

\* One parameter of a whole-sound replacement.
Replace(p, session) ==
  /\ sound' = [sound EXCEPT ![p] = session]
  /\ edited' = edited \ {p}

Init ==
  /\ events = 0 /\ edits = 0 /\ lastRestore = 0 /\ commands = {}
  /\ newest = [f \in Fields |-> 0]
  /\ sound = [p \in Params |-> 0] /\ edited = {} /\ soundSetGen = 1
  /\ soundReplacement = "none"
  /\ engineConfig = [gen |-> 0, value |-> 0]
  /\ pendingRestore = NoTree
  /\ hpc = "idle" /\ d = NoTree /\ todoH = {}
  /\ hostRestoreGen = 0 /\ hostProgramView = NoTree /\ hostRestoreView = NoTree
  /\ saved = NoTree
  /\ mpc = "idle" /\ door = "tick" /\ r = NoTree /\ todo = {} /\ writing = 0
  /\ userTransaction = FALSE
  /\ adoptedGeneration = 0 /\ program = 0
  /\ settings = [f \in Fields |-> 0] /\ editGeneration = [f \in Fields |-> 0]
  /\ programMailbox = OwnedProgram      \* the constructor publishes

-----------------------------------------------------------------------------
(* The host thread: setStateInformation(). *)

\* The generation is announced before anything is installed.
AnnounceRestore ==
  /\ HostFree /\ events < MaxEvents
  /\ events' = NextEvent /\ lastRestore' = NextEvent
  /\ newest' = [f \in Fields |-> NextEvent]
  /\ hostRestoreGen' = hostRestoreGen + 1
  /\ d' = [gen |-> hostRestoreGen + 1, event |-> NextEvent, token |-> 0]
  /\ PublishOversample(NextEvent, hostRestoreGen + 1)
  /\ hpc' = "install"
  /\ UNCHANGED <<edits, commands, live, soundReplacement, pendingRestore, programMailbox, todoH,
                 hostProgramView, hostRestoreView, saved, message, userTransaction, owned>>

\* installRestoredSound(): the token is first the counter as it stood before.
LockToInstall ==
  /\ hpc = "install" /\ soundReplacement = "none"
  /\ soundReplacement' = "host"
  /\ d' = [d EXCEPT !.token = soundSetGen]
  /\ todoH' = Params
  /\ hpc' = "write"
  /\ UNCHANGED <<history, live, engineConfig, pendingRestore, programMailbox, hostRestoreGen,
                 hostProgramView, hostRestoreView, saved, message, userTransaction, owned>>

InstallParam ==
  /\ hpc = "write"
  /\ \E p \in todoH : Replace(p, d.event) /\ todoH' = todoH \ {p}
  /\ UNCHANGED <<history, soundSetGen, soundReplacement, engineConfig, pendingRestore,
                 programMailbox, hpc, d, hostRestoreGen, hostProgramView, hostRestoreView,
                 saved, message, userTransaction, owned>>

\* soundReplacementToken(): its own number, or 0 if another replacement came between.
Installed ==
  /\ hpc = "write" /\ todoH = {}
  /\ soundSetGen' = soundSetGen + 1
  /\ d' = [d EXCEPT !.token = IF soundSetGen = d.token THEN soundSetGen + 1 ELSE 0]
  /\ soundReplacement' = "none"
  /\ hpc' = "put"
  /\ UNCHANGED <<history, sound, edited, engineConfig, pendingRestore, programMailbox, todoH,
                 hostRestoreGen, hostProgramView, hostRestoreView, saved, message,
                 userTransaction, owned>>

\* Mutant: the token is the counter as it stands at the hand-over.
HandOverReadBack ==
  /\ hpc = "put"
  /\ hostRestoreView' = [program |-> d.event, settings |-> [f \in Fields |-> d.event]]
  /\ pendingRestore' = [d EXCEPT !.token = soundSetGen]
  /\ d' = NoTree
  /\ hpc' = "idle"
  /\ UNCHANGED <<history, live, soundReplacement, engineConfig, programMailbox, todoH,
                 hostRestoreGen, hostProgramView, saved, message, userTransaction, owned>>

\* The host's own view of it, and the hand-over; an untaken older one is freed.
HandOver ==
  /\ hpc = "put"
  /\ hostRestoreView' = [program |-> d.event, settings |-> [f \in Fields |-> d.event]]
  /\ pendingRestore' = d
  /\ d' = NoTree
  /\ hpc' = "idle"
  /\ UNCHANGED <<history, live, soundReplacement, engineConfig, programMailbox, todoH,
                 hostRestoreGen, hostProgramView, saved, message, userTransaction, owned>>

-----------------------------------------------------------------------------
(* The host thread: getStateInformation(). *)

TakeProgram ==
  /\ HostFree
  /\ hostProgramView' = IF programMailbox = NoTree THEN hostProgramView ELSE programMailbox
  /\ programMailbox' = NoTree
  /\ hpc' = "capture"
  /\ UNCHANGED <<history, live, soundReplacement, engineConfig, pendingRestore, d, todoH,
                 hostRestoreGen, hostRestoreView, saved, message, userTransaction, owned>>

Covered == hostProgramView.gen >= hostRestoreGen

\* writeState(): the sound is captured live, under the lock.
CaptureSave ==
  /\ hpc = "capture" /\ soundReplacement = "none"
  /\ saved' = IF Covered
              THEN [program |-> hostProgramView.program, settings |-> hostProgramView.settings,
                    sound |-> sound]
              ELSE [program |-> hostRestoreView.program,
                    settings |-> ResolvedWithEdits(hostRestoreView, hostProgramView,
                                                   hostRestoreGen),
                    sound |-> sound]
  /\ hpc' = "answer"
  /\ UNCHANGED <<history, live, soundReplacement, engineConfig, pendingRestore, programMailbox,
                 d, todoH, hostRestoreGen, hostProgramView, hostRestoreView, message,
                 userTransaction, owned>>

ReturnSave ==
  /\ hpc = "answer"
  /\ saved' = NoTree
  /\ hpc' = "idle"
  /\ UNCHANGED <<history, live, soundReplacement, engineConfig, pendingRestore, programMailbox,
                 d, todoH, hostRestoreGen, hostProgramView, hostRestoreView, message,
                 userTransaction, owned>>

-----------------------------------------------------------------------------
(* The message thread: its doors, and adoptPendingHostState(). *)

\* The timer, a command, a save or a restore on the message thread.  A command
\* inside a transaction is deferred; a deferred command comes again later.  The
\* doors that wait are not entered inside one (ADR-0008's residual).
Enter(which) ==
  /\ mpc = "idle"
  /\ which \in {"save", "inline"} => hpc = "idle" /\ ~userTransaction
  /\ which = "command" => ~userTransaction
  /\ which \in {"command", "inline"} => events < MaxEvents
  /\ mpc' = "drain" /\ door' = which
  /\ UNCHANGED <<history, live, soundReplacement, engineConfig, pendingRestore, programMailbox,
                 host, saved, r, todo, writing, userTransaction, owned>>

Drained ==
  /\ mpc = "drain" /\ pendingRestore = NoTree
  /\ mpc' = IF door = "tick" THEN "idle" ELSE "drained"
  /\ UNCHANGED <<history, live, soundReplacement, engineConfig, pendingRestore, programMailbox,
                 host, saved, door, r, todo, writing, userTransaction, owned>>

\* A door that may not wait finds the lock held or a transaction open.
RefuseDrain ==
  /\ mpc = "drain" /\ pendingRestore # NoTree
  /\ door \in TryOnly
  /\ userTransaction \/ soundReplacement # "none"
  /\ Return
  /\ UNCHANGED <<history, live, soundReplacement, engineConfig, pendingRestore, programMailbox,
                 host, saved, r, todo, userTransaction, owned>>

TakeRestore ==
  /\ mpc = "drain" /\ pendingRestore # NoTree
  /\ door \in TryOnly => ~userTransaction
  /\ soundReplacement = "none"
  /\ soundReplacement' = "message"
  /\ r' = pendingRestore
  /\ pendingRestore' = NoTree
  /\ adoptedGeneration' = pendingRestore.gen
  /\ mpc' = "guard"
  /\ UNCHANGED <<history, live, engineConfig, programMailbox, host, saved, door, todo, writing,
                 userTransaction, program, settings, editGeneration>>

\* Mutant: whether a newer restore was announced is not asked.
MustReinstallOld == soundSetGen # r.token

\* reinstallRestoredSound()
MustReinstall == engineConfig.gen = r.gen /\ soundSetGen # r.token

KeepSound ==
  /\ mpc = "guard" /\ ~MustReinstall
  /\ soundReplacement' = "none"
  /\ mpc' = "tail"
  /\ UNCHANGED <<history, live, engineConfig, pendingRestore, programMailbox, host, saved, door,
                 r, todo, writing, userTransaction, owned>>

Reinstall ==
  /\ mpc = "guard" /\ MustReinstall
  /\ todo' = Params /\ writing' = r.event
  /\ mpc' = "write"
  /\ UNCHANGED <<history, live, soundReplacement, engineConfig, pendingRestore, programMailbox,
                 host, saved, door, r, userTransaction, owned>>

\* The loop of every replacement the message thread makes.
ReplaceParam ==
  /\ mpc = "write"
  /\ \E p \in todo : Replace(p, writing) /\ todo' = todo \ {p}
  /\ UNCHANGED <<history, soundSetGen, soundReplacement, engineConfig, pendingRestore,
                 programMailbox, host, saved, mpc, door, r, writing, userTransaction, owned>>

Reinstalled ==
  /\ mpc = "write" /\ todo = {} /\ r # NoTree
  /\ soundSetGen' = soundSetGen + 1
  /\ soundReplacement' = "none"
  /\ mpc' = "tail" /\ writing' = 0
  /\ UNCHANGED <<history, sound, edited, engineConfig, pendingRestore, programMailbox, host,
                 saved, door, r, todo, userTransaction, owned>>

\* adoptRestoreTail(), and the one publication that follows it.
AdoptRestoreTail ==
  /\ mpc = "tail"
  /\ settings' = AdoptResolved(r)
  /\ PublishOversample(settings'["oversample"], r.gen)
  /\ program' = r.event
  /\ r' = NoTree
  /\ mpc' = "drain"
  /\ UNCHANGED <<history, live, soundReplacement, pendingRestore, host, saved, door, todo,
                 writing, userTransaction, adoptedGeneration, editGeneration>>
  /\ PublishProgram

-----------------------------------------------------------------------------
(* The message thread: what the doors are for. *)

\* The gate admits a command with the lock in hand, after a drain that left
\* nothing; a restore handed over since then stays pending.
AdmitCommand ==
  /\ mpc = "drained" /\ door = "command"
  /\ soundReplacement = "none" /\ events < MaxEvents
  /\ soundReplacement' = "message"
  /\ events' = NextEvent /\ commands' = commands \cup {NextEvent}
  /\ todo' = Params /\ writing' = NextEvent
  /\ mpc' = "write"
  /\ UNCHANGED <<edits, newest, lastRestore, live, engineConfig, pendingRestore, programMailbox,
                 host, saved, door, r, userTransaction, owned>>

\* The cell seen full after the drain, or the lock held by the host.
DeferCommand ==
  /\ mpc = "drained" /\ door = "command"
  /\ pendingRestore # NoTree \/ soundReplacement # "none" \/ events = MaxEvents
  /\ Return
  /\ UNCHANGED <<history, live, soundReplacement, engineConfig, pendingRestore, programMailbox,
                 host, saved, r, todo, userTransaction, owned>>

\* The command's metadata is published before the gate lets go of the lock.
FinishCommand ==
  /\ mpc = "write" /\ todo = {} /\ r = NoTree /\ door = "command"
  /\ soundSetGen' = soundSetGen + 1
  /\ program' = writing
  /\ soundReplacement' = "none"
  /\ Return
  /\ UNCHANGED <<history, sound, edited, engineConfig, pendingRestore, host, saved, r, todo,
                 userTransaction, adoptedGeneration, settings, editGeneration>>
  /\ PublishProgram

\* setStateInformation() on the message thread, after its drain.
InstallInline ==
  /\ mpc = "drained" /\ door = "inline" /\ soundReplacement = "none"
  /\ soundReplacement' = "message"
  /\ events' = NextEvent
  /\ todo' = Params /\ writing' = NextEvent
  /\ mpc' = "write"
  /\ UNCHANGED <<edits, newest, lastRestore, commands, live, engineConfig, pendingRestore,
                 programMailbox, host, saved, door, r, userTransaction, owned>>

FinishInline ==
  /\ mpc = "write" /\ todo = {} /\ r = NoTree /\ door = "inline"
  /\ soundSetGen' = soundSetGen + 1
  /\ soundReplacement' = "none"
  /\ settings' = [f \in Fields |-> writing]
  /\ newest' = [f \in Fields |-> writing]
  /\ PublishOversample(writing, adoptedGeneration)
  /\ program' = writing
  /\ Return
  /\ UNCHANGED <<events, edits, lastRestore, commands, sound, edited, pendingRestore, host, saved,
                 r, todo, userTransaction, adoptedGeneration, editGeneration>>
  /\ PublishProgram

\* getStateInformation() on the message thread, after its drain.
SaveHere ==
  /\ mpc = "drained" /\ door = "save" /\ soundReplacement = "none"
  /\ saved' = [program |-> program, settings |-> settings, sound |-> sound]
  /\ mpc' = "answer"
  /\ UNCHANGED <<history, live, soundReplacement, engineConfig, pendingRestore, programMailbox,
                 host, door, r, todo, writing, userTransaction, owned>>

ReturnHere ==
  /\ mpc = "answer"
  /\ saved' = NoTree
  /\ Return
  /\ UNCHANGED <<history, live, soundReplacement, engineConfig, pendingRestore, programMailbox,
                 host, r, todo, userTransaction, owned>>

\* valueTreePropertyChanged(): an edit is stamped with the latest restore announced.
EditSetting(f) ==
  /\ mpc = "idle" /\ events < MaxEvents
  /\ events' = NextEvent
  /\ newest' = [newest EXCEPT ![f] = NextEvent]
  /\ settings' = [settings EXCEPT ![f] = NextEvent]
  /\ editGeneration' = [editGeneration EXCEPT ![f] = engineConfig.gen]
  /\ UNCHANGED <<edits, lastRestore, commands, live, soundReplacement, engineConfig,
                 pendingRestore, host, saved, door, r, todo, writing, userTransaction,
                 adoptedGeneration, program>>
  /\ IF f = "oversample"
     THEN mpc' = "publish" /\ UNCHANGED programMailbox
     ELSE PublishProgram /\ UNCHANGED mpc

\* publishField(), under the generation read before, and onChanged.
PublishField ==
  /\ mpc = "publish"
  /\ PublishOversample(settings["oversample"], editGeneration["oversample"])
  /\ mpc' = "idle"
  /\ UNCHANGED <<history, live, soundReplacement, pendingRestore, host, saved, door, r, todo,
                 writing, userTransaction, owned>>
  /\ PublishProgram

\* Mutant: a burst that never counts itself out.
TransactionLeaked ==
  /\ mpc = "idle"
  /\ userTransaction \/ edits < MaxEdits
  /\ userTransaction' = TRUE
  /\ edits' = IF userTransaction THEN edits ELSE edits + 1
  /\ UNCHANGED <<events, newest, lastRestore, commands, live, soundReplacement, engineConfig,
                 pendingRestore, programMailbox, host, saved, message, owned>>

\* A burst of stores during which the host may pump the message loop.
Transaction ==
  /\ mpc = "idle"
  /\ userTransaction \/ edits < MaxEdits
  /\ userTransaction' = ~userTransaction
  /\ edits' = IF userTransaction THEN edits ELSE edits + 1
  /\ UNCHANGED <<events, newest, lastRestore, commands, live, soundReplacement, engineConfig,
                 pendingRestore, programMailbox, host, saved, message, owned>>

\* Mutant: an edit counts as a replacement.
EditSoundCounted ==
  /\ edits < MaxEdits
  /\ edits' = edits + 1
  /\ soundSetGen' = soundSetGen + 1
  /\ \E p \in Params : edited' = edited \cup {p}
  /\ UNCHANGED <<events, newest, lastRestore, commands, sound, soundReplacement,
                 engineConfig, pendingRestore, programMailbox, host, saved, message,
                 userTransaction, owned>>

\* A knob or automation, from any thread, without the lock.
EditSound ==
  /\ edits < MaxEdits
  /\ edits' = edits + 1
  /\ \E p \in Params : edited' = edited \cup {p}
  /\ UNCHANGED <<events, newest, lastRestore, commands, sound, soundSetGen, soundReplacement,
                 engineConfig, pendingRestore, programMailbox, host, saved, message,
                 userTransaction, owned>>

HostStep ==
  \/ LockToInstall \/ InstallParam \/ Installed \/ HandOver
  \/ CaptureSave \/ ReturnSave

MessageStep ==
  \/ Drained \/ RefuseDrain \/ TakeRestore \/ KeepSound \/ Reinstall \/ ReplaceParam
  \/ Reinstalled \/ AdoptRestoreTail \/ AdmitCommand \/ DeferCommand \/ FinishCommand
  \/ InstallInline \/ FinishInline \/ SaveHere \/ ReturnHere \/ PublishField

Next ==
  \/ HostStep \/ AnnounceRestore \/ TakeProgram
  \/ MessageStep \/ \E which \in {"tick", "command", "save", "inline"} : Enter(which)
  \/ \E f \in Fields : EditSetting(f)
  \/ Transaction \/ EditSound

Spec == Init /\ [][Next]_vars

\* Calls in progress return, the timer keeps ticking, a burst of stores ends.
Fairness ==
  /\ WF_vars(HostStep) /\ WF_vars(MessageStep)
  /\ SF_vars(Enter("tick"))
  /\ SF_vars(userTransaction /\ Transaction)

FairSpec == Spec /\ Fairness

-----------------------------------------------------------------------------
(* Properties. *)

Numbers == 0..MaxEvents
Settled == mpc = "idle" /\ hpc \notin {"install", "write", "put"} /\ pendingRestore = NoTree

\* The types, where each thread can be, and that a lock is held only by who uses it.
TypeOK ==
  /\ events \in Numbers /\ edits \in 0..MaxEdits /\ lastRestore \in Numbers
  /\ newest \in [Fields -> Numbers] /\ commands \subseteq Numbers
  /\ sound \in [Params -> Numbers] /\ edited \subseteq Params
  /\ soundSetGen \in Nat /\ hostRestoreGen \in Numbers /\ adoptedGeneration \in Numbers
  /\ engineConfig \in [gen : Numbers, value : Numbers]
  /\ hpc \in {"idle", "install", "write", "put", "capture", "answer"}
  /\ mpc \in {"idle", "drain", "guard", "write", "tail", "drained", "answer", "publish"}
  /\ door \in {"tick", "command", "save", "inline"}
  /\ program \in Numbers /\ settings \in [Fields -> Numbers]
  /\ editGeneration \in [Fields -> Numbers]
  /\ todo \subseteq Params /\ todoH \subseteq Params /\ writing \in Numbers
  /\ soundReplacement = "host" <=> hpc = "write"
  /\ soundReplacement = "message" <=> mpc \in {"guard", "write"}

\* Once nothing is pending or in progress, the live sound and the program are
\* one session's, and no restore that arrived before it has been brought back:
\* adoptPendingHostState() commits sound and metadata together.
SessionCoherent ==
  Settled => /\ \A p \in Params : sound[p] = program
             /\ program >= lastRestore

\* Then every setting is the last arrival's too, restore or edit: the merge by
\* generations of adoptResolved() is precedence by arrival.
SettingsNewest == Settled => settings = newest

\* The engine never runs on the oversampling of anything but the last arrival,
\* however late an older restore is adopted: publishOversample() yields.
EngineConfigNewest ==
  mpc # "publish" => engineConfig.value = newest["oversample"]

\* Whatever the message thread did, the host's next save sees: the last
\* snapshot published is the program, settings and stamps as they stand.
PublishedIsOwned ==
  mpc = "idle" =>
    OwnedProgram = IF programMailbox = NoTree THEN hostProgramView ELSE programMailbox

\* Once no restore is in hand, sound, program, settings, engine and what the
\* host may save are one session's, whichever threads took part.
SessionIsWhole ==
  /\ TypeOK /\ SessionCoherent /\ SettingsNewest
  /\ EngineConfigNewest /\ PublishedIsOwned

\* A save is never of less than the newest restore, and each setting in it is
\* the last arrival among that restore and the edits published to it, even
\* while the restore waits to be adopted (getStateInformation()).
SaveIsNewest ==
  hpc = "answer" =>
    /\ saved.program >= lastRestore
    /\ \A f \in Fields :
         saved.settings[f] = IF hostProgramView.settings[f] > lastRestore
                             THEN hostProgramView.settings[f]
                             ELSE lastRestore

\* A save holds the sound of one session, and it is the session whose program
\* is saved unless a command of the message thread replaced it meanwhile.
SaveIsOneSession ==
  saved # NoTree => \A p \in Params :
    /\ \A q \in Params : saved.sound[p] = saved.sound[q]
    /\ saved.sound[p] = saved.program \/ (hpc = "answer" /\ saved.sound[p] \in commands)

\* A save the host takes at any moment is the newest state, of one session.
SaveIsTrue == SaveIsNewest /\ SaveIsOneSession

\* An edit is taken back only by a write over another session's sound.
EditsKept ==
  \A p \in edited \ edited' : r # NoTree /\ mpc = "write" => sound[p] # r.event

\* Adopting a restore never takes back an edit of that restore's own sound: it
\* is installed again only over another session's (reinstallRestoredSound()).
EditsSurvive == [][EditsKept]_vars

\* A restore that is handed over is taken by the message thread.
RestoreAdopted == pendingRestore # NoTree ~> pendingRestore = NoTree
=============================================================================
