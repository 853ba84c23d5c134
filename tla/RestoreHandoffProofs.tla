------------------------ MODULE RestoreHandoffProofs ------------------------
(***************************************************************************)
(* Proofs about RestoreHandoff for every set of parameters and any number  *)
(* of restores, commands and edits: however the host thread and the        *)
(* message thread interleave, a session stays whole, a save is of the      *)
(* newest one, and an adoption takes back no edit of its own session.      *)
(***************************************************************************)
EXTENDS RestoreHandoff, TLAPS

-----------------------------------------------------------------------------
(* The inductive invariant. *)

Restores  == [gen : Numbers, event : Numbers, token : Nat]
Snapshots == [gen : Numbers, program : Numbers, settings : [Fields -> Numbers],
              editGeneration : [Fields -> Numbers]]
Views     == [program : Numbers, settings : [Fields -> Numbers]]
Saves     == [program : Numbers, settings : [Fields -> Numbers], sound : [Params -> Numbers]]

\* A restore is announced and not handed over yet; one is anywhere on its way.
Announced   == hpc \in {"install", "write", "put"}
Outstanding == Announced \/ pendingRestore # NoTree \/ r # NoTree

\* The sound is partly of one session and partly of another.
Replacing == hpc = "write" \/ mpc = "write"

\* The snapshot that the host's next save will use.
Published == IF programMailbox = NoTree THEN hostProgramView ELSE programMailbox

CellsTyped ==
  /\ d \in Restores \cup {NoTree} /\ (d # NoTree <=> Announced)
  /\ pendingRestore \in Restores \cup {NoTree}
  /\ r \in Restores \cup {NoTree}
  /\ programMailbox \in Snapshots \cup {NoTree} /\ hostProgramView \in Snapshots \cup {NoTree}
  /\ Published # NoTree
  /\ hpc \in {"capture", "answer"} => hostProgramView # NoTree
  /\ hostRestoreView \in Views \cup {NoTree}
  /\ saved \in Saves \cup {NoTree}

\* What each door has behind it, and what it keeps out while it is open.
DoorInv ==
  /\ mpc \in {"idle", "publish"} => door = "tick"
  /\ mpc = "answer" => door = "save"
  /\ mpc \in {"guard", "tail"} => r # NoTree
  /\ r # NoTree => mpc \in {"guard", "write", "tail"}
  /\ mpc = "write" /\ r = NoTree => door \in {"command", "inline"}
  /\ mpc # "idle" /\ door \in {"save", "inline"} =>
       /\ hpc = "idle"
       /\ mpc \in {"drained", "answer"} \/ (mpc = "write" /\ r = NoTree) => pendingRestore = NoTree
  /\ mpc # "idle" /\ door = "inline" /\ ~(mpc = "write" /\ r = NoTree) => events < MaxEvents

\* No number is in use that was not given out.
NumbersGiven ==
  /\ hostRestoreGen <= events /\ lastRestore <= events
  /\ \A f \in Fields : newest[f] <= events /\ settings[f] <= events
  /\ program <= events /\ writing <= events
  /\ \A t \in {programMailbox, hostProgramView} \ {NoTree} :
       t.program <= events /\ \A f \in Fields : t.settings[f] <= events

\* Restores are in one order by generation and by arrival, and the newest is
\* the furthest from being adopted.
GenerationInv ==
  /\ engineConfig.gen = hostRestoreGen
  /\ \A f \in Fields : editGeneration[f] <= hostRestoreGen /\ newest[f] >= lastRestore
  /\ adoptedGeneration <= hostRestoreGen
  /\ Announced => d.gen = hostRestoreGen /\ d.event = lastRestore
  /\ pendingRestore # NoTree =>
       /\ adoptedGeneration < pendingRestore.gen
       /\ IF Announced
          THEN pendingRestore.gen < hostRestoreGen /\ pendingRestore.event < lastRestore
          ELSE pendingRestore.gen = hostRestoreGen /\ pendingRestore.event = lastRestore
  /\ r # NoTree =>
       /\ r.gen = adoptedGeneration
       /\ IF Announced \/ pendingRestore # NoTree
          THEN r.gen < hostRestoreGen /\ r.event < lastRestore
          ELSE r.gen = hostRestoreGen /\ r.event = lastRestore
       /\ pendingRestore # NoTree => r.event < pendingRestore.event
  /\ IF Announced \/ pendingRestore # NoTree
     THEN adoptedGeneration < hostRestoreGen
     ELSE adoptedGeneration = hostRestoreGen

\* The token of a restore is the live sound's if and only if the sound is its own.
TokenOf(t) ==
  /\ t.token <= soundSetGen
  /\ ~Replacing => \A x \in Params : sound[x] = t.event <=> t.token = soundSetGen

TokenInv ==
  /\ hpc = "put" => TokenOf(d)
  /\ pendingRestore # NoTree => TokenOf(pendingRestore)
  /\ mpc = "guard" => TokenOf(r)

\* A replacement in progress.
ReplaceInv ==
  /\ ~Replacing => \A x, y \in Params : sound[x] = sound[y]
  /\ hpc = "write" => d.token = soundSetGen /\ \A x \in Params \ todoH : sound[x] = d.event
  /\ mpc = "write" =>
       /\ \A x \in Params \ todo : sound[x] = writing
       /\ IF r # NoTree
          THEN /\ writing = r.event
               /\ pendingRestore = NoTree /\ hpc # "put"
               /\ \A x \in todo : sound[x] # r.event
          ELSE /\ Announced => writing # d.event
               /\ pendingRestore # NoTree => writing # pendingRestore.event
               /\ ~Announced /\ pendingRestore = NoTree => writing > lastRestore
               /\ door = "command" => writing \in commands

\* The session that the message thread has, and the one that the host waits for.
SessionInv ==
  /\ ~Outstanding => /\ mpc # "write" => \A x \in Params : sound[x] = program
                     /\ program >= lastRestore
                     /\ settings = newest
  /\ mpc = "tail" /\ ~Announced /\ pendingRestore = NoTree => \A x \in Params : sound[x] = r.event
  /\ Outstanding /\ hpc \notin {"install", "write"} /\ mpc # "write" =>
       \A x \in Params : sound[x] = lastRestore \/ sound[x] \in commands

\* A field edited since the newest restore arrived stands; another is the restore's.
SettingsInv ==
  /\ \A f \in Fields :
       /\ editGeneration[f] = hostRestoreGen => settings[f] = newest[f]
       /\ editGeneration[f] # hostRestoreGen /\ Outstanding => newest[f] = lastRestore
       /\ editGeneration[f] # hostRestoreGen /\ adoptedGeneration # hostRestoreGen =>
            settings[f] <= lastRestore
  /\ mpc # "publish" \/ editGeneration["oversample"] # hostRestoreGen =>
       engineConfig.value = newest["oversample"]

\* A snapshot covers the newest restore, or tells the edits made after it.
SnapshotTells(t) ==
  /\ t.gen <= adoptedGeneration /\ (r # NoTree => t.gen < adoptedGeneration)
  /\ \A f \in Fields : t.editGeneration[f] <= hostRestoreGen
  /\ t.gen = hostRestoreGen =>
       t.program >= lastRestore /\ \A f \in Fields : t.settings[f] >= lastRestore
  /\ t.gen # hostRestoreGen =>
       \A f \in Fields : IF t.editGeneration[f] >= hostRestoreGen
                         THEN t.settings[f] >= lastRestore
                         ELSE t.settings[f] <= lastRestore

SnapshotInv ==
  /\ programMailbox # NoTree => SnapshotTells(programMailbox)
  /\ hostProgramView # NoTree => SnapshotTells(hostProgramView)
  /\ Published.program = program
  /\ r = NoTree => Published.gen = adoptedGeneration
  /\ r = NoTree /\ mpc # "publish" => Published = OwnedProgram
  /\ ~Announced /\ hostRestoreGen > 0 =>
       /\ hostRestoreView # NoTree
       /\ hostRestoreView.program = lastRestore
       /\ \A f \in Fields : hostRestoreView.settings[f] = lastRestore
  /\ hpc = "capture" /\ ~Outstanding =>
       program \in commands \/ program = IF Covered THEN hostProgramView.program ELSE lastRestore

IInv ==
  /\ TypeOK /\ CellsTyped /\ DoorInv /\ NumbersGiven /\ GenerationInv /\ TokenInv /\ ReplaceInv
  /\ SessionInv /\ SettingsInv /\ SnapshotInv /\ SaveIsTrue

-----------------------------------------------------------------------------
(* Types. *)

\* An empty cell holds no restore, snapshot, view or save.
LEMMA NoTreeIsEmpty ==
  NoTree \notin Restores /\ NoTree \notin Snapshots /\ NoTree \notin Views /\ NoTree \notin Saves
BY DEF NoTree, Restores, Snapshots, Views, Saves, Numbers

\* Whatever is compared or counted is a natural number.
LEMMA Counters ==
  ASSUME IInv
  PROVE  /\ {events, lastRestore, hostRestoreGen, adoptedGeneration, soundSetGen, program, writing,
             engineConfig.gen, engineConfig.value} \subseteq Nat
         /\ \A f \in Fields : {newest[f], settings[f], editGeneration[f]} \subseteq Nat
         /\ \A x \in Params : sound[x] \in Nat
         /\ \A t \in {d, pendingRestore, r} \ {NoTree} : {t.gen, t.event, t.token} \subseteq Nat
         /\ \A t \in {programMailbox, hostProgramView} \ {NoTree} :
              /\ {t.gen, t.program} \subseteq Nat
              /\ \A f \in Fields : {t.settings[f], t.editGeneration[f]} \subseteq Nat
BY HandoffAssumption DEF IInv, TypeOK, CellsTyped, Numbers, Restores, Snapshots

\* What is published once an adoption is over tells what there is to tell.
LEMMA OwnedTells ==
  ASSUME IInv, TypeOK', GenerationInv', SessionInv', SettingsInv', r' = NoTree
  PROVE  SnapshotTells(OwnedProgram)'
<1>1. /\ OwnedProgram'.gen = adoptedGeneration' /\ OwnedProgram'.program = program'
      /\ OwnedProgram'.settings = settings' /\ OwnedProgram'.editGeneration = editGeneration'
  BY DEF OwnedProgram
<1>2. /\ {adoptedGeneration', hostRestoreGen', lastRestore', program'} \subseteq Nat
      /\ \A f \in Fields : {newest'[f], settings'[f], editGeneration'[f]} \subseteq Nat
  BY HandoffAssumption DEF TypeOK, Numbers
<1>3. adoptedGeneration' = hostRestoreGen' => ~Outstanding'
  BY <1>2 DEF GenerationInv, Outstanding, Announced
<1> QED
  BY <1>1, <1>2, <1>3 DEF SnapshotTells, GenerationInv, SessionInv, SettingsInv

\* ... and it is what the host's next save will use.
LEMMA PublishTells ==
  ASSUME IInv, TypeOK', GenerationInv', SessionInv', SettingsInv', r' = NoTree,
         PublishProgram, hostProgramView' = hostProgramView, lastRestore' = lastRestore,
         hostRestoreGen' = hostRestoreGen, adoptedGeneration' = adoptedGeneration
  PROVE  /\ programMailbox' # NoTree => SnapshotTells(programMailbox)'
         /\ hostProgramView' # NoTree => SnapshotTells(hostProgramView)'
         /\ Published' = OwnedProgram'
<1>1. SnapshotTells(OwnedProgram)'
  BY OwnedTells
<1>2. hostProgramView # NoTree => SnapshotTells(hostProgramView)'
  BY DEF IInv, SnapshotInv, SnapshotTells
<1>3. OwnedProgram' # NoTree
  BY DEF OwnedProgram, TypeOK, Numbers, NoTree
<1> QED
  BY <1>1, <1>2, <1>3 DEF PublishProgram, Published

-----------------------------------------------------------------------------
(* The host thread keeps the invariant. *)

LEMMA AnnounceRestoreKeeps ==
  ASSUME IInv, AnnounceRestore
  PROVE  IInv'
<1> USE DEF IInv, AnnounceRestore, NextEvent, PublishOversample, HostFree, live, owned, message
<1>1. TypeOK'
  BY HandoffAssumption DEF TypeOK, NumbersGiven, Numbers
<1>2. CellsTyped'
  BY HandoffAssumption, Counters, NoTreeIsEmpty DEF CellsTyped, Announced, Published,
     NumbersGiven, Numbers, Restores
<1>3. DoorInv'
  BY DEF DoorInv
<1>4. NumbersGiven'
  BY Counters DEF NumbersGiven
<1>5. GenerationInv'
  BY Counters DEF GenerationInv, Announced, NumbersGiven
<1>6. TokenInv'
  BY DEF TokenInv, TokenOf, Replacing
<1>7. ReplaceInv'
  BY Counters DEF ReplaceInv, Replacing, Announced, NumbersGiven
<1>8. SessionInv'
  BY DEF SessionInv, Outstanding, Announced
<1>9. SettingsInv'
  BY Counters DEF SettingsInv, GenerationInv, NumbersGiven, Fields
<1>10. SnapshotInv'
  BY Counters DEF SnapshotInv, SnapshotTells, Published, OwnedProgram, Announced, GenerationInv,
     NumbersGiven
<1>11. SaveIsTrue'
  BY DEF SaveIsTrue, SaveIsNewest, SaveIsOneSession
<1> QED
  BY <1>1, <1>2, <1>3, <1>4, <1>5, <1>6, <1>7, <1>8, <1>9, <1>10, <1>11

LEMMA LockToInstallKeeps ==
  ASSUME IInv, LockToInstall
  PROVE  IInv'
<1> USE DEF IInv, LockToInstall, history, live, host, owned, message
<1>1. NumbersGiven'
  BY DEF NumbersGiven
<1>2. TypeOK'
  BY DEF TypeOK
<1>3. CellsTyped'
  BY Counters, NoTreeIsEmpty DEF CellsTyped, Announced, Published, Restores
<1>4. DoorInv'
  BY DEF DoorInv
<1>5. GenerationInv'
  BY DEF GenerationInv, Announced
<1>6. TokenInv'
  BY DEF TokenInv, TokenOf, Replacing
<1>7. ReplaceInv'
  BY DEF ReplaceInv, Replacing, Announced
<1>8. SessionInv'
  BY DEF SessionInv, Outstanding, Announced
<1>9. SettingsInv'
  BY DEF SettingsInv, Outstanding, Announced
<1>10. SnapshotInv'
  BY DEF SnapshotInv, SnapshotTells, Published, OwnedProgram, Announced, Outstanding, Covered
<1>11. SaveIsTrue'
  BY DEF SaveIsTrue, SaveIsNewest, SaveIsOneSession
<1> QED
  BY <1>1, <1>2, <1>3, <1>4, <1>5, <1>6, <1>7, <1>8, <1>9, <1>10, <1>11

LEMMA InstallParamKeeps ==
  ASSUME IInv, InstallParam
  PROVE  IInv'
<1> USE DEF IInv, InstallParam, Replace, history, owned, message
<1>1. DoorInv' /\ NumbersGiven' /\ GenerationInv' /\ SettingsInv' /\ SnapshotInv'
  BY DEF DoorInv, NumbersGiven, GenerationInv, Announced, SettingsInv, Outstanding, SnapshotInv,
     SnapshotTells, Published, OwnedProgram, Covered
<1>2. TypeOK'
  BY DEF TypeOK, GenerationInv, Announced
<1>3. CellsTyped'
  BY DEF CellsTyped, Announced, Published
<1>4. TokenInv'
  BY DEF TokenInv, TokenOf, Replacing
<1>5. ReplaceInv'
  BY DEF ReplaceInv, Replacing, TypeOK
<1>6. SessionInv'
  BY DEF SessionInv, Outstanding, Announced
<1>7. SaveIsTrue'
  BY DEF SaveIsTrue, SaveIsNewest, SaveIsOneSession
<1> QED
  BY <1>1, <1>2, <1>3, <1>4, <1>5, <1>6, <1>7

LEMMA InstalledKeeps ==
  ASSUME IInv, Installed
  PROVE  IInv'
<1> USE DEF IInv, Installed, history, owned, message
<1>1. NumbersGiven'
  BY DEF NumbersGiven
<1>2. TypeOK'
  BY DEF TypeOK
<1>3. CellsTyped'
  BY NoTreeIsEmpty DEF CellsTyped, Announced, Published, Restores
<1>4. DoorInv'
  BY DEF DoorInv
<1>5. GenerationInv'
  BY DEF GenerationInv, Announced
<1>6. TokenInv'
  BY Counters DEF TokenInv, TokenOf, ReplaceInv, GenerationInv, Announced, TypeOK
<1>7. ReplaceInv'
  BY DEF ReplaceInv, TypeOK
<1>8. SessionInv'
  BY DEF SessionInv, Outstanding, Announced, ReplaceInv, GenerationInv
<1>9. SettingsInv'
  BY DEF SettingsInv, Outstanding, Announced
<1>10. SnapshotInv'
  BY DEF SnapshotInv, SnapshotTells, Published, OwnedProgram, Announced, Outstanding, Covered
<1>11. SaveIsTrue'
  BY DEF SaveIsTrue, SaveIsNewest, SaveIsOneSession
<1> QED
  BY <1>1, <1>2, <1>3, <1>4, <1>5, <1>6, <1>7, <1>8, <1>9, <1>10, <1>11

LEMMA HandOverKeeps ==
  ASSUME IInv, HandOver
  PROVE  IInv'
<1> USE DEF IInv, HandOver, history, live, owned, message
<1>1. NumbersGiven'
  BY DEF NumbersGiven
<1>2. TypeOK'
  BY DEF TypeOK
<1>3. CellsTyped'
  BY DEF CellsTyped, Announced, Published, Restores, Views
<1>4. DoorInv'
  BY DEF DoorInv
<1>5. GenerationInv'
  BY DEF GenerationInv, Announced, CellsTyped
<1>6. TokenInv'
  BY DEF TokenInv, TokenOf, Replacing
<1>7. ReplaceInv'
  BY DEF ReplaceInv, Replacing, Announced, CellsTyped
<1>8. SessionInv'
  BY DEF SessionInv, Outstanding, Announced, CellsTyped
<1>9. SettingsInv'
  BY DEF SettingsInv, Outstanding, Announced
<1>10. SnapshotInv'
  BY NoTreeIsEmpty DEF SnapshotInv, SnapshotTells, Published, OwnedProgram, Announced,
     CellsTyped, GenerationInv, Restores, Views
<1>11. SaveIsTrue'
  BY DEF SaveIsTrue, SaveIsNewest, SaveIsOneSession
<1> QED
  BY <1>1, <1>2, <1>3, <1>4, <1>5, <1>6, <1>7, <1>8, <1>9, <1>10, <1>11

LEMMA TakeProgramKeeps ==
  ASSUME IInv, TakeProgram
  PROVE  IInv'
<1> USE DEF IInv, TakeProgram, HostFree, history, live, owned, message
<1>1. TypeOK'
  BY DEF TypeOK
<1>2. CellsTyped'
  BY DEF CellsTyped, Announced, Published
<1>3. DoorInv'
  BY DEF DoorInv
<1>4. NumbersGiven'
  BY DEF NumbersGiven
<1>5. GenerationInv'
  BY DEF GenerationInv, Announced
<1>6. TokenInv'
  BY DEF TokenInv, TokenOf, Replacing
<1>7. ReplaceInv'
  BY DEF ReplaceInv, Replacing, Announced
<1>8. SessionInv'
  BY DEF SessionInv, Outstanding, Announced
<1>9. SettingsInv'
  BY DEF SettingsInv, Outstanding, Announced
<1>10. SnapshotInv'
  BY DEF SnapshotInv, SnapshotTells, Published, OwnedProgram, Announced, Outstanding, Covered,
     GenerationInv
<1>11. SaveIsTrue'
  BY DEF SaveIsTrue, SaveIsNewest, SaveIsOneSession
<1> QED
  BY <1>1, <1>2, <1>3, <1>4, <1>5, <1>6, <1>7, <1>8, <1>9, <1>10, <1>11

LEMMA CaptureSaveKeeps ==
  ASSUME IInv, CaptureSave
  PROVE  IInv'
<1> USE DEF IInv, CaptureSave, ResolvedWithEdits, EditIsNewerThan, Covered, history, live,
   owned, message
<1>1. NumbersGiven'
  BY DEF NumbersGiven
<1>2. TypeOK'
  BY DEF TypeOK
<1>3. CellsTyped'
  <2>1. hostProgramView \in Snapshots
    BY DEF CellsTyped
  <2>2. ~Covered => hostRestoreView \in Views
    BY <2>1, Counters DEF SnapshotInv, CellsTyped, Announced, GenerationInv, TypeOK, Snapshots,
                          Numbers
  <2>3. sound \in [Params -> Numbers]
    BY DEF TypeOK
  <2>4. saved' \in Saves
    BY <2>1, <2>2, <2>3 DEF Snapshots, Views, Saves
  <2> QED
    BY <2>4 DEF CellsTyped, Published, Announced
<1>4. DoorInv'
  BY DEF DoorInv
<1>5. GenerationInv'
  BY DEF GenerationInv, Announced
<1>6. TokenInv'
  BY DEF TokenInv, TokenOf, Replacing
<1>7. ReplaceInv'
  BY DEF ReplaceInv, Replacing, Announced
<1>8. SessionInv'
  BY DEF SessionInv, Outstanding, Announced
<1>9. SettingsInv'
  BY DEF SettingsInv, Outstanding, Announced
<1>10. SnapshotInv'
  BY DEF SnapshotInv, SnapshotTells, Published, OwnedProgram, Announced, Outstanding
<1>11. SaveIsTrue'
  BY Counters DEF SaveIsTrue, SaveIsNewest, SaveIsOneSession, SnapshotInv, SnapshotTells,
     SessionInv, Announced, Outstanding, ReplaceInv, Replacing, TypeOK, CellsTyped,
     GenerationInv
<1> QED
  BY <1>1, <1>2, <1>3, <1>4, <1>5, <1>6, <1>7, <1>8, <1>9, <1>10, <1>11

LEMMA ReturnSaveKeeps ==
  ASSUME IInv, ReturnSave
  PROVE  IInv'
<1> USE DEF IInv, ReturnSave, history, live, owned, message
<1>1. NumbersGiven'
  BY DEF NumbersGiven
<1>2. TypeOK'
  BY DEF TypeOK
<1>3. CellsTyped'
  BY DEF CellsTyped, Announced, Published
<1>4. DoorInv'
  BY DEF DoorInv
<1>5. GenerationInv'
  BY DEF GenerationInv, Announced
<1>6. TokenInv'
  BY DEF TokenInv, TokenOf, Replacing
<1>7. ReplaceInv'
  BY DEF ReplaceInv, Replacing, Announced
<1>8. SessionInv'
  BY DEF SessionInv, Outstanding, Announced
<1>9. SettingsInv'
  BY DEF SettingsInv, Outstanding, Announced
<1>10. SnapshotInv'
  BY DEF SnapshotInv, SnapshotTells, Published, OwnedProgram, Announced, Outstanding, Covered
<1>11. SaveIsTrue'
  BY DEF SaveIsTrue, SaveIsNewest, SaveIsOneSession
<1> QED
  BY <1>1, <1>2, <1>3, <1>4, <1>5, <1>6, <1>7, <1>8, <1>9, <1>10, <1>11

-----------------------------------------------------------------------------
(* So does the message thread in its doors and in an adoption. *)

LEMMA EnterKeeps ==
  ASSUME IInv, NEW which \in {"tick", "command", "save", "inline"}, Enter(which)
  PROVE  IInv'
<1> USE DEF IInv, Enter, history, live, host, owned
<1>1. CellsTyped' /\ NumbersGiven' /\ GenerationInv' /\ SaveIsTrue'
  BY DEF CellsTyped, Announced, Published, NumbersGiven, GenerationInv, SaveIsTrue,
     SaveIsNewest, SaveIsOneSession
<1>2. TypeOK'
  BY DEF TypeOK
<1>3. DoorInv'
  BY DEF DoorInv
<1>4. TokenInv'
  BY DEF TokenInv, TokenOf, Replacing
<1>5. ReplaceInv'
  BY DEF ReplaceInv, Replacing, Announced
<1>6. SessionInv'
  BY DEF SessionInv, Outstanding, Announced
<1>7. SettingsInv'
  BY DEF SettingsInv, Outstanding, Announced
<1>8. SnapshotInv'
  BY DEF SnapshotInv, SnapshotTells, Published, OwnedProgram, Announced, Outstanding, Covered
<1> QED
  BY <1>1, <1>2, <1>3, <1>4, <1>5, <1>6, <1>7, <1>8

LEMMA DrainedKeeps ==
  ASSUME IInv, Drained
  PROVE  IInv'
<1> USE DEF IInv, Drained, history, live, host, owned
<1>1. CellsTyped' /\ NumbersGiven' /\ GenerationInv' /\ SaveIsTrue'
  BY DEF CellsTyped, Announced, Published, NumbersGiven, GenerationInv, SaveIsTrue,
     SaveIsNewest, SaveIsOneSession
<1>2. TypeOK'
  BY DEF TypeOK
<1>3. DoorInv'
  BY DEF DoorInv
<1>4. TokenInv'
  BY DEF TokenInv, TokenOf, Replacing
<1>5. ReplaceInv'
  BY DEF ReplaceInv, Replacing, Announced
<1>6. SessionInv'
  BY DEF SessionInv, Outstanding, Announced
<1>7. SettingsInv'
  BY DEF SettingsInv, Outstanding, Announced
<1>8. SnapshotInv'
  BY DEF SnapshotInv, SnapshotTells, Published, OwnedProgram, Announced, Outstanding, Covered
<1> QED
  BY <1>1, <1>2, <1>3, <1>4, <1>5, <1>6, <1>7, <1>8

LEMMA RefuseDrainKeeps ==
  ASSUME IInv, RefuseDrain
  PROVE  IInv'
<1> USE DEF IInv, RefuseDrain, Return, history, live, host, owned
<1>1. CellsTyped' /\ GenerationInv' /\ SaveIsTrue'
  BY DEF CellsTyped, Announced, Published, GenerationInv, SaveIsTrue, SaveIsNewest,
     SaveIsOneSession
<1>2. TypeOK'
  BY HandoffAssumption DEF TypeOK, Numbers
<1>3. DoorInv'
  BY DEF DoorInv
<1>4. NumbersGiven'
  BY Counters DEF NumbersGiven
<1>5. TokenInv'
  BY DEF TokenInv, TokenOf, Replacing
<1>6. ReplaceInv'
  BY DEF ReplaceInv, Replacing, Announced
<1>7. SessionInv'
  BY DEF SessionInv, Outstanding, Announced
<1>8. SettingsInv'
  BY DEF SettingsInv, Outstanding, Announced
<1>9. SnapshotInv'
  BY DEF SnapshotInv, SnapshotTells, Published, OwnedProgram, Announced, Outstanding, Covered
<1> QED
  BY <1>1, <1>2, <1>3, <1>4, <1>5, <1>6, <1>7, <1>8, <1>9

LEMMA TakeRestoreKeeps ==
  ASSUME IInv, TakeRestore
  PROVE  IInv'
<1> USE DEF IInv, TakeRestore, history, live, host, message
<1>1. NumbersGiven' /\ SaveIsTrue'
  BY DEF NumbersGiven, SaveIsTrue, SaveIsNewest, SaveIsOneSession
<1>2. TypeOK'
  BY DEF TypeOK, CellsTyped, Restores
<1>3. CellsTyped'
  BY DEF CellsTyped, Announced, Published
<1>4. DoorInv'
  BY DEF DoorInv
<1>5. GenerationInv'
  BY Counters DEF GenerationInv, Announced
<1>6. TokenInv'
  BY DEF TokenInv, TokenOf, Replacing
<1>7. ReplaceInv'
  BY DEF ReplaceInv, Replacing, Announced
<1>8. SessionInv'
  BY DEF SessionInv, Outstanding, Announced
<1>9. SettingsInv'
  BY Counters DEF SettingsInv, Outstanding, GenerationInv
<1>10. SnapshotInv'
  BY Counters DEF SnapshotInv, SnapshotTells, Published, Announced, Outstanding, GenerationInv
<1> QED
  BY <1>1, <1>2, <1>3, <1>4, <1>5, <1>6, <1>7, <1>8, <1>9, <1>10

LEMMA KeepSoundKeeps ==
  ASSUME IInv, KeepSound
  PROVE  IInv'
<1> USE DEF IInv, KeepSound, MustReinstall, history, live, host, owned
<1>1. CellsTyped' /\ NumbersGiven' /\ GenerationInv' /\ SaveIsTrue'
  BY DEF CellsTyped, Announced, Published, NumbersGiven, GenerationInv, SaveIsTrue,
     SaveIsNewest, SaveIsOneSession
<1>2. TypeOK'
  BY DEF TypeOK
<1>3. DoorInv'
  BY DEF DoorInv
<1>4. TokenInv'
  BY DEF TokenInv, TokenOf, Replacing
<1>5. ReplaceInv'
  BY DEF ReplaceInv, Replacing, Announced
<1>6. SessionInv'
  BY DEF SessionInv, Outstanding, Announced, TokenInv, TokenOf, Replacing, GenerationInv,
     DoorInv
<1>7. SettingsInv'
  BY DEF SettingsInv, Outstanding, Announced
<1>8. SnapshotInv'
  BY DEF SnapshotInv, SnapshotTells, Published, OwnedProgram, Announced, Outstanding, Covered
<1> QED
  BY <1>1, <1>2, <1>3, <1>4, <1>5, <1>6, <1>7, <1>8

LEMMA ReinstallKeeps ==
  ASSUME IInv, Reinstall
  PROVE  IInv'
<1> USE DEF IInv, Reinstall, MustReinstall, history, live, host, owned
<1>1. CellsTyped' /\ GenerationInv' /\ SaveIsTrue'
  BY DEF CellsTyped, Announced, Published, GenerationInv, SaveIsTrue, SaveIsNewest,
     SaveIsOneSession
<1>2. TypeOK'
  BY DEF TypeOK, CellsTyped, Restores, DoorInv
<1>3. DoorInv'
  BY DEF DoorInv
<1>4. NumbersGiven'
  <2>1. r.event <= events
    BY Counters DEF GenerationInv, DoorInv, NumbersGiven
  <2> QED
    BY <2>1 DEF NumbersGiven
<1>5. TokenInv'
  BY DEF TokenInv, TokenOf, Replacing
<1>6. ReplaceInv'
  BY Counters DEF ReplaceInv, Replacing, Announced, TokenInv, TokenOf, DoorInv, GenerationInv
<1>7. SessionInv'
  BY DEF SessionInv, Outstanding, Announced
<1>8. SettingsInv'
  BY DEF SettingsInv, Outstanding, Announced
<1>9. SnapshotInv'
  BY DEF SnapshotInv, SnapshotTells, Published, OwnedProgram, Announced, Outstanding, Covered
<1> QED
  BY <1>1, <1>2, <1>3, <1>4, <1>5, <1>6, <1>7, <1>8, <1>9

LEMMA ReplaceParamKeeps ==
  ASSUME IInv, ReplaceParam
  PROVE  IInv'
<1> USE DEF IInv, ReplaceParam, Replace, history, host, owned
<1>1. DoorInv' /\ NumbersGiven' /\ GenerationInv' /\ SettingsInv' /\ SnapshotInv'
  BY DEF DoorInv, NumbersGiven, GenerationInv, Announced, SettingsInv, Outstanding, SnapshotInv,
     SnapshotTells, Published, OwnedProgram, Covered
<1>2. TypeOK'
  BY DEF TypeOK
<1>3. CellsTyped'
  BY DEF CellsTyped, Announced, Published
<1>4. TokenInv'
  BY DEF TokenInv, TokenOf, Replacing
<1>5. ReplaceInv'
  BY DEF ReplaceInv, Replacing, Announced, TypeOK
<1>6. SessionInv'
  BY DEF SessionInv, Outstanding, Announced
<1>7. SaveIsTrue'
  BY DEF SaveIsTrue, SaveIsNewest, SaveIsOneSession
<1> QED
  BY <1>1, <1>2, <1>3, <1>4, <1>5, <1>6, <1>7

LEMMA ReinstalledKeeps ==
  ASSUME IInv, Reinstalled
  PROVE  IInv'
<1> USE DEF IInv, Reinstalled, history, host, owned
<1>1. CellsTyped' /\ GenerationInv' /\ SaveIsTrue'
  BY DEF CellsTyped, Announced, Published, GenerationInv, SaveIsTrue, SaveIsNewest,
     SaveIsOneSession
<1>2. TypeOK'
  BY HandoffAssumption DEF TypeOK, Numbers
<1>3. DoorInv'
  BY DEF DoorInv
<1>4. NumbersGiven'
  BY Counters DEF NumbersGiven
<1>5. TokenInv'
  BY DEF TokenInv, ReplaceInv
<1>6. ReplaceInv'
  BY DEF ReplaceInv, TypeOK
<1>7. SessionInv'
  BY DEF SessionInv, Outstanding, Announced, ReplaceInv, GenerationInv
<1>8. SettingsInv'
  BY DEF SettingsInv, Outstanding, Announced
<1>9. SnapshotInv'
  BY DEF SnapshotInv, SnapshotTells, Published, OwnedProgram, Announced, Outstanding, Covered
<1> QED
  BY <1>1, <1>2, <1>3, <1>4, <1>5, <1>6, <1>7, <1>8, <1>9

LEMMA AdoptRestoreTailKeeps ==
  ASSUME IInv, AdoptRestoreTail
  PROVE  IInv'
<1> USE DEF IInv, AdoptRestoreTail, PublishOversample, AdoptResolved, EditIsNewerThan,
   PublishProgram, OwnedProgram, history, live, host
<1>1. TypeOK'
  BY HandoffAssumption, Counters DEF TypeOK, DoorInv, GenerationInv, Fields, Numbers
<1>2. CellsTyped'
  BY NoTreeIsEmpty DEF CellsTyped, Announced, Published, TypeOK, DoorInv, Restores, Snapshots
<1>3. DoorInv'
  BY DEF DoorInv
<1>4. NumbersGiven'
  BY Counters DEF NumbersGiven, DoorInv, GenerationInv
<1>5. GenerationInv'
  BY DEF GenerationInv, Announced, DoorInv
<1>6. TokenInv'
  BY DEF TokenInv, TokenOf, Replacing
<1>7. ReplaceInv'
  BY DEF ReplaceInv, Replacing, Announced
<1>8. SessionInv'
  BY Counters DEF SessionInv, Outstanding, Announced, SettingsInv, GenerationInv, DoorInv,
     TypeOK
<1>9. SettingsInv'
  BY Counters DEF SettingsInv, Outstanding, TypeOK, DoorInv, GenerationInv
<1>10. SnapshotInv'
  <2>1. r # NoTree /\ (hpc = "capture" => hostProgramView # NoTree)
    BY DEF DoorInv, CellsTyped
  <2>2. hpc = "capture" /\ ~Outstanding' => program' = lastRestore /\ ~Covered'
    BY <2>1, Counters DEF SnapshotInv, SnapshotTells, GenerationInv, Covered, Outstanding, Announced
  <2> QED
    BY <1>1, <1>2, <1>5, <1>8, <1>9, <2>2, PublishTells DEF SnapshotInv, OwnedProgram, Announced
<1>11. SaveIsTrue'
  BY DEF SaveIsTrue, SaveIsNewest, SaveIsOneSession
<1> QED
  BY <1>1, <1>2, <1>3, <1>4, <1>5, <1>6, <1>7, <1>8, <1>9, <1>10, <1>11

-----------------------------------------------------------------------------
(* And in what the doors are for. *)

LEMMA AdmitCommandKeeps ==
  ASSUME IInv, AdmitCommand
  PROVE  IInv'
<1> USE DEF IInv, AdmitCommand, NextEvent, live, host, owned, message
<1>1. CellsTyped' /\ GenerationInv'
  BY DEF CellsTyped, Announced, Published, GenerationInv
<1>2. TypeOK'
  BY HandoffAssumption DEF TypeOK, Numbers
<1>3. DoorInv'
  BY DEF DoorInv
<1>4. NumbersGiven'
  BY Counters DEF NumbersGiven
<1>5. TokenInv'
  BY DEF TokenInv, TokenOf, Replacing
<1>6. ReplaceInv'
  BY Counters DEF ReplaceInv, Replacing, Announced, DoorInv, GenerationInv, NumbersGiven
<1>7. SessionInv'
  BY DEF SessionInv, Outstanding, Announced
<1>8. SettingsInv'
  BY DEF SettingsInv, Outstanding, Announced
<1>9. SnapshotInv'
  BY DEF SnapshotInv, SnapshotTells, Published, OwnedProgram, Announced, Outstanding, Covered
<1>10. SaveIsTrue'
  BY DEF SaveIsTrue, SaveIsNewest, SaveIsOneSession
<1> QED
  BY <1>1, <1>2, <1>3, <1>4, <1>5, <1>6, <1>7, <1>8, <1>9, <1>10

LEMMA DeferCommandKeeps ==
  ASSUME IInv, DeferCommand
  PROVE  IInv'
<1> USE DEF IInv, DeferCommand, Return, history, live, host, owned
<1>1. CellsTyped' /\ GenerationInv' /\ SaveIsTrue'
  BY DEF CellsTyped, Announced, Published, GenerationInv, SaveIsTrue, SaveIsNewest,
     SaveIsOneSession
<1>2. TypeOK'
  BY HandoffAssumption DEF TypeOK, Numbers
<1>3. DoorInv'
  BY DEF DoorInv
<1>4. NumbersGiven'
  BY Counters DEF NumbersGiven
<1>5. TokenInv'
  BY DEF TokenInv, TokenOf, Replacing
<1>6. ReplaceInv'
  BY DEF ReplaceInv, Replacing, Announced
<1>7. SessionInv'
  BY DEF SessionInv, Outstanding, Announced
<1>8. SettingsInv'
  BY DEF SettingsInv, Outstanding, Announced
<1>9. SnapshotInv'
  BY DEF SnapshotInv, SnapshotTells, Published, OwnedProgram, Announced, Outstanding, Covered
<1> QED
  BY <1>1, <1>2, <1>3, <1>4, <1>5, <1>6, <1>7, <1>8, <1>9

LEMMA FinishCommandKeeps ==
  ASSUME IInv, FinishCommand
  PROVE  IInv'
<1> USE DEF IInv, FinishCommand, PublishProgram, OwnedProgram, Return, history, host
<1>1. GenerationInv'
  BY DEF GenerationInv, Announced
<1>2. TypeOK'
  BY HandoffAssumption DEF TypeOK, Numbers
<1>3. CellsTyped'
  BY NoTreeIsEmpty DEF CellsTyped, Announced, Published, TypeOK, Snapshots
<1>4. DoorInv'
  BY DEF DoorInv
<1>5. NumbersGiven'
  BY Counters DEF NumbersGiven
<1>6. TokenInv'
  <2>1. \A x \in Params : sound'[x] = writing
    BY DEF ReplaceInv
  <2>2. ASSUME NEW t \in {d, pendingRestore} \ {NoTree}, TokenOf(t)
        PROVE  t.token <= soundSetGen' /\ t.token # soundSetGen'
    BY <2>2, Counters DEF TokenOf
  <2>3. hpc = "put" => d # NoTree /\ writing # d.event
    BY DEF CellsTyped, ReplaceInv, Announced
  <2>4. pendingRestore # NoTree => writing # pendingRestore.event
    BY DEF ReplaceInv, Announced
  <2> QED
    BY <2>1, <2>2, <2>3, <2>4 DEF TokenInv, TokenOf
<1>7. ReplaceInv'
  BY DEF ReplaceInv, TypeOK
<1>8. SessionInv'
  BY Counters DEF SessionInv, Outstanding, Announced, ReplaceInv
<1>9. SettingsInv'
  BY DEF SettingsInv, Outstanding, Announced
<1>10. SnapshotInv'
  <2>1. program' \in commands
    BY DEF ReplaceInv
  <2> QED
    BY <1>1, <1>2, <1>3, <1>8, <1>9, <2>1, PublishTells DEF SnapshotInv, OwnedProgram, Announced
<1>11. SaveIsTrue'
  BY DEF SaveIsTrue, SaveIsNewest, SaveIsOneSession
<1> QED
  BY <1>1, <1>2, <1>3, <1>4, <1>5, <1>6, <1>7, <1>8, <1>9, <1>10, <1>11

LEMMA InstallInlineKeeps ==
  ASSUME IInv, InstallInline
  PROVE  IInv'
<1> USE DEF IInv, InstallInline, NextEvent, live, host, owned, message
<1>1. CellsTyped' /\ GenerationInv' /\ SaveIsTrue'
  BY DEF CellsTyped, Announced, Published, GenerationInv, SaveIsTrue, SaveIsNewest,
     SaveIsOneSession
<1>2. TypeOK'
  BY HandoffAssumption DEF TypeOK, DoorInv, Numbers
<1>3. DoorInv'
  BY DEF DoorInv
<1>4. NumbersGiven'
  BY Counters DEF NumbersGiven
<1>5. TokenInv'
  BY DEF TokenInv, TokenOf, Replacing
<1>6. ReplaceInv'
  BY Counters DEF ReplaceInv, Replacing, Announced, DoorInv, NumbersGiven
<1>7. SessionInv'
  BY DEF SessionInv, Outstanding, Announced
<1>8. SettingsInv'
  BY DEF SettingsInv, Outstanding, Announced
<1>9. SnapshotInv'
  BY DEF SnapshotInv, SnapshotTells, Published, OwnedProgram, Announced, Outstanding, Covered
<1> QED
  BY <1>1, <1>2, <1>3, <1>4, <1>5, <1>6, <1>7, <1>8, <1>9

LEMMA FinishInlineKeeps ==
  ASSUME IInv, FinishInline
  PROVE  IInv'
<1> USE DEF IInv, FinishInline, PublishOversample, PublishProgram, OwnedProgram, Return, host
<1>1. TypeOK'
  BY HandoffAssumption DEF TypeOK, Numbers
<1>2. CellsTyped'
  BY NoTreeIsEmpty DEF CellsTyped, Announced, Published, TypeOK, Snapshots
<1>3. DoorInv'
  BY DEF DoorInv
<1>4. NumbersGiven'
  BY Counters DEF NumbersGiven
<1>5. GenerationInv'
  BY Counters DEF GenerationInv, Announced, DoorInv, ReplaceInv
<1>6. TokenInv'
  BY DEF TokenInv, DoorInv
<1>7. ReplaceInv'
  BY DEF ReplaceInv, DoorInv
<1>8. SessionInv'
  BY Counters DEF SessionInv, Outstanding, Announced, ReplaceInv, DoorInv
<1>9. SettingsInv'
  BY Counters DEF SettingsInv, Outstanding, Announced, DoorInv, GenerationInv, Fields
<1>10. SnapshotInv'
  <2>1. hpc = "idle"
    BY DEF DoorInv
  <2> QED
    BY <1>1, <1>2, <1>5, <1>8, <1>9, <2>1, PublishTells DEF SnapshotInv, OwnedProgram, Announced
<1>11. SaveIsTrue'
  BY DEF SaveIsTrue, SaveIsNewest, SaveIsOneSession
<1> QED
  BY <1>1, <1>2, <1>3, <1>4, <1>5, <1>6, <1>7, <1>8, <1>9, <1>10, <1>11

LEMMA SaveHereKeeps ==
  ASSUME IInv, SaveHere
  PROVE  IInv'
<1> USE DEF IInv, SaveHere, history, live, host, owned
<1>1. NumbersGiven' /\ GenerationInv'
  BY DEF NumbersGiven, GenerationInv, Announced
<1>2. TypeOK'
  BY DEF TypeOK
<1>3. CellsTyped'
  BY DEF CellsTyped, Announced, Published, TypeOK, Saves
<1>4. DoorInv'
  BY DEF DoorInv
<1>5. TokenInv'
  BY DEF TokenInv, TokenOf, Replacing
<1>6. ReplaceInv'
  BY DEF ReplaceInv, Replacing, Announced
<1>7. SessionInv'
  BY DEF SessionInv, Outstanding, Announced
<1>8. SettingsInv'
  BY DEF SettingsInv, Outstanding, Announced
<1>9. SnapshotInv'
  BY DEF SnapshotInv, SnapshotTells, Published, OwnedProgram, Announced, Outstanding, Covered
<1>10. SaveIsTrue'
  BY DEF SaveIsTrue, SaveIsNewest, SaveIsOneSession, SessionInv, Outstanding, Announced, DoorInv
<1> QED
  BY <1>1, <1>2, <1>3, <1>4, <1>5, <1>6, <1>7, <1>8, <1>9, <1>10

LEMMA ReturnHereKeeps ==
  ASSUME IInv, ReturnHere
  PROVE  IInv'
<1> USE DEF IInv, ReturnHere, Return, history, live, host, owned
<1>1. GenerationInv'
  BY DEF GenerationInv, Announced
<1>2. TypeOK'
  BY HandoffAssumption DEF TypeOK, Numbers
<1>3. CellsTyped'
  BY DEF CellsTyped, Announced, Published
<1>4. DoorInv'
  BY DEF DoorInv
<1>5. NumbersGiven'
  BY Counters DEF NumbersGiven
<1>6. TokenInv'
  BY DEF TokenInv, TokenOf, Replacing
<1>7. ReplaceInv'
  BY DEF ReplaceInv, Replacing, Announced
<1>8. SessionInv'
  BY DEF SessionInv, Outstanding, Announced
<1>9. SettingsInv'
  BY DEF SettingsInv, Outstanding, Announced
<1>10. SnapshotInv'
  BY DEF SnapshotInv, SnapshotTells, Published, OwnedProgram, Announced, Outstanding, Covered
<1>11. SaveIsTrue'
  BY DEF SaveIsTrue, SaveIsNewest, SaveIsOneSession, DoorInv
<1> QED
  BY <1>1, <1>2, <1>3, <1>4, <1>5, <1>6, <1>7, <1>8, <1>9, <1>10, <1>11

LEMMA EditSettingKeeps ==
  ASSUME IInv, NEW f \in Fields, EditSetting(f)
  PROVE  IInv'
<1> USE DEF IInv, EditSetting, NextEvent, PublishProgram, OwnedProgram, live, host
<1>1. TypeOK'
  BY HandoffAssumption DEF TypeOK, Numbers
<1>2. CellsTyped'
  BY HandoffAssumption, NoTreeIsEmpty DEF CellsTyped, Announced, Published, TypeOK, Numbers,
     Snapshots
<1>3. DoorInv'
  BY DEF DoorInv
<1>4. NumbersGiven'
  BY Counters DEF NumbersGiven, TypeOK
<1>5. GenerationInv'
  BY Counters DEF GenerationInv, Announced, NumbersGiven
<1>6. TokenInv'
  BY DEF TokenInv, TokenOf, Replacing
<1>7. ReplaceInv'
  BY DEF ReplaceInv, Replacing, Announced
<1>8. SessionInv'
  <2>1. Outstanding' <=> Outstanding
    BY DEF Outstanding, Announced
  <2>2. mpc # "write" /\ mpc' # "write" /\ mpc' # "tail"
    BY DEF TypeOK
  <2>3. ~Outstanding => settings' = newest'
    BY DEF TypeOK, SessionInv
  <2> QED
    BY <2>1, <2>2, <2>3 DEF SessionInv
<1>9. SettingsInv'
  BY DEF SettingsInv, Outstanding, Announced, TypeOK, GenerationInv
<1>10. SnapshotInv'
  BY HandoffAssumption, Counters, NoTreeIsEmpty DEF SnapshotInv, SnapshotTells, Published,
     Announced, Outstanding, Covered, CellsTyped, DoorInv, GenerationInv, NumbersGiven, Numbers,
     Snapshots
<1>11. SaveIsTrue'
  BY DEF SaveIsTrue, SaveIsNewest, SaveIsOneSession
<1> QED
  BY <1>1, <1>2, <1>3, <1>4, <1>5, <1>6, <1>7, <1>8, <1>9, <1>10, <1>11

LEMMA PublishFieldKeeps ==
  ASSUME IInv, PublishField
  PROVE  IInv'
<1> USE DEF IInv, PublishField, PublishOversample, PublishProgram, OwnedProgram, history, live,
   host, owned
<1>1. SaveIsTrue'
  BY DEF SaveIsTrue, SaveIsNewest, SaveIsOneSession
<1>2. TypeOK'
  BY DEF TypeOK, Fields
<1>3. CellsTyped'
  BY NoTreeIsEmpty DEF CellsTyped, Announced, Published, TypeOK, Snapshots
<1>4. DoorInv'
  BY DEF DoorInv
<1>5. NumbersGiven'
  BY DEF NumbersGiven
<1>6. GenerationInv'
  BY Counters DEF GenerationInv, Announced, Fields
<1>7. TokenInv'
  BY DEF TokenInv, TokenOf, Replacing
<1>8. ReplaceInv'
  BY DEF ReplaceInv, Replacing, Announced
<1>9. SessionInv'
  BY DEF SessionInv, Outstanding, Announced
<1>10. SettingsInv'
  BY Counters DEF SettingsInv, Outstanding, Announced, GenerationInv, Fields
<1>11. SnapshotInv'
  <2>1. r' = NoTree
    BY DEF DoorInv
  <2>2. hpc = "capture" /\ ~Outstanding' =>
          program' \in commands \/ program' = IF Covered' THEN hostProgramView'.program ELSE lastRestore'
    BY DEF SnapshotInv, Covered, Outstanding, Announced
  <2> QED
    BY <1>2, <1>3, <1>6, <1>9, <1>10, <2>1, <2>2, PublishTells DEF SnapshotInv, OwnedProgram, Announced
<1> QED
  BY <1>1, <1>2, <1>3, <1>4, <1>5, <1>6, <1>7, <1>8, <1>9, <1>10, <1>11

LEMMA TransactionKeeps ==
  ASSUME IInv, Transaction
  PROVE  IInv'
<1> USE DEF IInv, Transaction, live, host, owned, message
<1>1. CellsTyped' /\ DoorInv' /\ NumbersGiven' /\ GenerationInv' /\ TokenInv' /\ ReplaceInv' /\
   SessionInv' /\ SettingsInv' /\ SnapshotInv' /\ SaveIsTrue'
  BY DEF CellsTyped, Announced, Published, DoorInv, NumbersGiven, GenerationInv, TokenInv,
     TokenOf, Replacing, ReplaceInv, SessionInv, Outstanding, SettingsInv, SnapshotInv,
     SnapshotTells, OwnedProgram, Covered, SaveIsTrue, SaveIsNewest, SaveIsOneSession
<1>2. TypeOK'
  BY HandoffAssumption DEF TypeOK
<1> QED
  BY <1>1, <1>2

LEMMA EditSoundKeeps ==
  ASSUME IInv, EditSound
  PROVE  IInv'
<1> USE DEF IInv, EditSound, host, owned, message
<1>1. CellsTyped' /\ DoorInv' /\ NumbersGiven' /\ GenerationInv' /\ TokenInv' /\ ReplaceInv' /\
   SessionInv' /\ SettingsInv' /\ SnapshotInv' /\ SaveIsTrue'
  BY DEF CellsTyped, Announced, Published, DoorInv, NumbersGiven, GenerationInv, TokenInv,
     TokenOf, Replacing, ReplaceInv, SessionInv, Outstanding, SettingsInv, SnapshotInv,
     SnapshotTells, OwnedProgram, Covered, SaveIsTrue, SaveIsNewest, SaveIsOneSession
<1>2. TypeOK'
  BY HandoffAssumption DEF TypeOK
<1> QED
  BY <1>1, <1>2

-----------------------------------------------------------------------------
(* The theorems. *)

LEMMA InitHolds == Init => IInv
<1> SUFFICES ASSUME Init PROVE IInv
  OBVIOUS
<1> USE HandoffAssumption DEF Init
<1>1. OwnedProgram # NoTree /\ OwnedProgram \in Snapshots
  BY DEF OwnedProgram, NoTree, Snapshots, Numbers, Fields
<1>2. TypeOK /\ CellsTyped
  BY <1>1 DEF TypeOK, CellsTyped, Announced, Published, Numbers
<1>3. DoorInv /\ NumbersGiven /\ GenerationInv /\ TokenInv /\ ReplaceInv
  BY DEF DoorInv, NumbersGiven, GenerationInv, TokenInv, ReplaceInv, Announced, Replacing, OwnedProgram
<1>4. SessionInv /\ SettingsInv /\ SaveIsTrue
  BY DEF SessionInv, SettingsInv, SaveIsTrue, SaveIsNewest, SaveIsOneSession, Outstanding, Announced,
         Fields
<1>5. SnapshotInv
  BY <1>1 DEF SnapshotInv, SnapshotTells, OwnedProgram, Published, Announced, Fields
<1> QED
  BY <1>2, <1>3, <1>4, <1>5 DEF IInv

LEMMA NextKeeps == IInv /\ [Next]_vars => IInv'
<1> SUFFICES ASSUME IInv, [Next]_vars PROVE IInv'
  OBVIOUS
<1>1. CASE HostStep
  BY <1>1, LockToInstallKeeps, InstallParamKeeps, InstalledKeeps, HandOverKeeps, CaptureSaveKeeps,
     ReturnSaveKeeps DEF HostStep
<1>2. CASE MessageStep
  <2>1. CASE Drained \/ RefuseDrain \/ TakeRestore \/ KeepSound \/ Reinstall \/ ReplaceParam
    BY <2>1, DrainedKeeps, RefuseDrainKeeps, TakeRestoreKeeps, KeepSoundKeeps, ReinstallKeeps,
       ReplaceParamKeeps
  <2>2. CASE Reinstalled \/ AdoptRestoreTail \/ AdmitCommand \/ DeferCommand \/ FinishCommand
    BY <2>2, ReinstalledKeeps, AdoptRestoreTailKeeps, AdmitCommandKeeps, DeferCommandKeeps,
       FinishCommandKeeps
  <2>3. CASE InstallInline \/ FinishInline \/ SaveHere \/ ReturnHere \/ PublishField
    BY <2>3, InstallInlineKeeps, FinishInlineKeeps, SaveHereKeeps, ReturnHereKeeps, PublishFieldKeeps
  <2> QED
    BY <1>2, <2>1, <2>2, <2>3 DEF MessageStep
<1>3. CASE AnnounceRestore \/ TakeProgram
  BY <1>3, AnnounceRestoreKeeps, TakeProgramKeeps
<1>4. CASE \E which \in {"tick", "command", "save", "inline"} : Enter(which)
  BY <1>4, EnterKeeps
<1>5. CASE \E f \in Fields : EditSetting(f)
  BY <1>5, EditSettingKeeps
<1>6. CASE Transaction \/ EditSound
  BY <1>6, TransactionKeeps, EditSoundKeeps
<1>7. CASE UNCHANGED vars
  <2> USE <1>7 DEF IInv, vars, history, live, host, owned, message
  <2>1. TypeOK' /\ CellsTyped' /\ DoorInv' /\ NumbersGiven' /\ GenerationInv'
    BY DEF TypeOK, CellsTyped, DoorInv, NumbersGiven, GenerationInv, Announced, Published
  <2>2. TokenInv' /\ ReplaceInv' /\ SessionInv' /\ SettingsInv'
    BY DEF TokenInv, TokenOf, ReplaceInv, Replacing, SessionInv, SettingsInv, Outstanding, Announced
  <2>3. SnapshotInv' /\ SaveIsTrue'
    BY DEF SnapshotInv, SnapshotTells, OwnedProgram, Published, Covered, Outstanding, Announced,
           SaveIsTrue, SaveIsNewest, SaveIsOneSession
  <2> QED
    BY <2>1, <2>2, <2>3
<1> QED
  BY <1>1, <1>2, <1>3, <1>4, <1>5, <1>6, <1>7 DEF Next

\* Every reachable state satisfies the inductive invariant: the order of the
\* restores on their way, the tokens that tell whose the sound is, and what
\* each snapshot can answer, for any number of restores, commands and edits.
THEOREM HandoffInvariant == Spec => []IInv
BY InitHolds, NextKeeps, PTL DEF Spec

\* Once no restore is in hand, sound, program, settings, engine and snapshot are
\* one session's, the newest (adoptPendingHostState(), publishOversample()).
THEOREM SessionStaysWhole == Spec => []SessionIsWhole
<1>1. IInv => SessionIsWhole
  <2> SUFFICES ASSUME IInv PROVE SessionIsWhole
    OBVIOUS
  <2>1. Settled => ~Outstanding
    BY DEF IInv, DoorInv, Settled, Outstanding, Announced
  <2>2. SessionCoherent /\ SettingsNewest
    BY <2>1, Counters DEF IInv, SessionInv, SessionCoherent, SettingsNewest, Settled
  <2>3. EngineConfigNewest /\ PublishedIsOwned
    BY DEF IInv, DoorInv, SettingsInv, SnapshotInv, Published, EngineConfigNewest, PublishedIsOwned
  <2> QED
    BY <2>2, <2>3 DEF IInv, SessionIsWhole
<1> QED
  BY <1>1, HandoffInvariant, PTL

\* A save at any moment answers the newest restore with the edits made since,
\* and holds the sound of one session (getStateInformation(), writeState()).
THEOREM SavesAreTrue == Spec => []SaveIsTrue
<1>1. IInv => SaveIsTrue
  BY DEF IInv
<1> QED
  BY <1>1, HandoffInvariant, PTL

\* An adoption installs a sound again only over another session's, so that no
\* edit of the restored sound itself is taken back (reinstallRestoredSound()).
THEOREM EditsAlwaysSurvive == Spec => EditsSurvive
<1>1. ASSUME IInv, [Next]_vars, NEW x \in edited \ edited', r # NoTree, mpc = "write"
      PROVE  sound[x] # r.event
  <2>1. CASE InstallParam
    BY <1>1, <2>1 DEF IInv, TypeOK, InstallParam
  <2>2. CASE ReplaceParam
    BY <1>1, <2>2 DEF IInv, ReplaceInv, ReplaceParam, Replace
  <2>3. edited' = edited \/ EditSound \/ InstallParam \/ ReplaceParam
    BY <1>1 DEF Next, HostStep, MessageStep, vars, history, live, host, owned, message,
         LockToInstall, Installed, HandOver, CaptureSave, ReturnSave, AnnounceRestore, TakeProgram,
         Drained, RefuseDrain, TakeRestore, KeepSound, Reinstall, Reinstalled, AdoptRestoreTail,
         AdmitCommand, DeferCommand, FinishCommand, InstallInline, FinishInline, SaveHere,
         ReturnHere, PublishField, Enter, EditSetting, Transaction
  <2> QED
    BY <1>1, <2>1, <2>2, <2>3 DEF EditSound
<1>2. IInv /\ [Next]_vars => [EditsKept]_vars
  BY <1>1 DEF EditsKept
<1> QED
  BY <1>2, HandoffInvariant, PTL DEF Spec, EditsSurvive
=============================================================================
