-------------------------- MODULE MixerStateProofs --------------------------
(* Safety of MixerStateRuntime for any number of handlers, buses, positions *)
(* and updates, from what AtomicFileProofs shows of the file.               *)
EXTENDS MixerStateRuntime, TLAPS

File == INSTANCE AtomicFileProofs WITH Writers <- {Task}, Payloads <- MixerState

Storing == {"open", "fill", "sync", "rename", "syncdir"}
Over == {"idle", "ok", "failed"}

\* A change the writer has yet to look at.
Pending == notify # {} \/ changes # seen

\* The writer's save holds the mixer, or a pending change brings it back.
SaveInv ==
  /\ writer # "saving" => ctl[Task].pc \in Over
  /\ writer = "saving" => ctl[Task].pc # "idle"
  /\ ctl[Task].pc \in Storing => Pending \/ ctl[Task].payload = mixer
  /\ ctl[Task].pc = "syncdir" => file.payload = ctl[Task].payload
  /\ writer = "wait" \/ (ctl[Task].pc = "ok" /\ writer = "saving") =>
       Pending \/ SaveFailed \/ Load(file) = mixer

\* What a restart may load was held since the last acknowledged snapshot.
HeldInv ==
  /\ mixer \in heldSince /\ heldSince \subseteq held
  /\ \A i \in entries : Load(i) \in held
  /\ ctl[Task].pc \in Storing => ctl[Task].payload \in heldSince

IInv ==
  /\ File!IInv /\ TypeOK /\ seen <= changes
  /\ SaveInv /\ HeldInv

USE MixerAssumption DEF Task

\* The file's actions are those AtomicFileProofs speaks of.
LEMMA SameFile ==
  /\ Disk!Init => File!Init
  /\ \A w \in {Task}, p \in MixerState : Disk!Write(w, p) => File!Write(w, p)
  /\ \A w \in {Task} : Disk!Step(w) => File!Step(w)
  /\ Disk!ProcessDies => File!ProcessDies
  /\ Disk!PowerLoss => File!PowerLoss
  /\ Disk!TypeOK <=> File!TypeOK
  /\ File!AtomicFileAssumption /\ File!AbsentAssumption
  <1>1. Disk!Init => File!Init
    BY DEF Disk!Init, File!Init, Disk!Missing, File!Missing, Disk!Names,
      File!Names, Disk!Idle, File!Idle
  <1>2. \A w \in {Task}, p \in MixerState : Disk!Write(w, p) => File!Write(w, p)
    BY DEF Disk!Write, File!Write, Disk!Idle, File!Idle, Disk!disk, File!disk
  <1>3. ASSUME NEW w \in {Task}, Disk!Step(w) PROVE File!Step(w)
    <2>1. Disk!Open(w) => File!Open(w)
      BY DEF Disk!Open, File!Open, Disk!Fresh, File!Fresh
    <2>2. Disk!Fill(w) => File!Fill(w)
      BY DEF Disk!Fill, File!Fill, Disk!Goto, File!Goto
    <2>3. Disk!Sync(w) => File!Sync(w)
      BY DEF Disk!Sync, File!Sync, Disk!Goto, File!Goto
    <2>4. Disk!Rename(w) => File!Rename(w)
      BY DEF Disk!Rename, File!Rename
    <2>5. Disk!SyncDirectory(w) => File!SyncDirectory(w)
      BY DEF Disk!SyncDirectory, File!SyncDirectory, Disk!Return, File!Return,
        Disk!Idle, File!Idle
    <2>6. Disk!StepFails(w) => File!StepFails(w)
      BY DEF Disk!StepFails, File!StepFails, Disk!Return, File!Return,
        Disk!Goto, File!Goto, Disk!Idle, File!Idle, Disk!disk, File!disk
    <2>7. Disk!Remove(w) => File!Remove(w)
      BY DEF Disk!Remove, File!Remove, Disk!Return, File!Return, Disk!Idle,
        File!Idle
    <2> QED BY <1>3, <2>1, <2>2, <2>3, <2>4, <2>5, <2>6, <2>7 DEF Disk!Step, File!Step
  <1>4. Disk!Restart => File!Restart
    BY DEF Disk!Restart, File!Restart, Disk!Idle, File!Idle
  <1>5. Disk!ProcessDies => File!ProcessDies
    BY <1>4 DEF Disk!ProcessDies, File!ProcessDies, Disk!disk, File!disk
  <1>6. Disk!PowerLoss => File!PowerLoss
    BY <1>4 DEF Disk!PowerLoss, File!PowerLoss, Disk!Survives, File!Survives,
                Disk!Names, File!Names
  <1>7. Disk!TypeOK <=> File!TypeOK
    BY DEF Disk!TypeOK, File!TypeOK, Disk!Inode, File!Inode, Disk!Names,
      File!Names, Disk!Labels, File!Labels
  <1>8. File!AtomicFileAssumption /\ File!AbsentAssumption
    BY MixerAssumption DEF Disk!AtomicFileAssumption, File!AtomicFileAssumption,
       Disk!AbsentAssumption, File!AbsentAssumption, Disk!Inode, File!Inode,
       Disk!Names, File!Names
  <1> QED BY <1>1, <1>2, <1>3, <1>5, <1>6, <1>7, <1>8

LEMMA SameTypes == File!IInv' => Disk!TypeOK'
  BY DEF File!IInv, Disk!TypeOK, File!TypeOK, Disk!Inode, File!Inode, Disk!Names,
         File!Names, Disk!Labels, File!Labels

LEMMA Types ==
  ASSUME File!TypeOK
  PROVE  /\ ctl \in [{Task} -> File!Control] /\ file \in File!Inode
         /\ ctl[Task] \in File!Control
         /\ ctl[Task].payload \in MixerState \cup {Absent}
  BY DEF File!TypeOK, File!Control

LEMMA Loads ==
  ASSUME NEW i, i.payload \in MixerState
  PROVE  Load(i) = i.payload
  BY DEF Load, Disk!AbsentAssumption

\* What one step of the save does to the file and to the call.
LEMMA StepShape ==
  ASSUME File!IInv, File!Step(Task)
  PROVE  /\ File!IInv'
         /\ \/ /\ UNCHANGED <<file, entries>>
               /\ ctl[Task].pc \in {"open", "fill", "sync"}
               /\ ctl'[Task].pc \in {"open", "fill", "sync", "rename"}
               /\ ctl'[Task].payload = ctl[Task].payload
            \/ /\ ctl[Task].pc = "rename" /\ ctl'[Task].pc = "syncdir"
               /\ file'.payload = ctl[Task].payload
               /\ entries' = entries \cup {file'}
               /\ ctl'[Task].payload = ctl[Task].payload
            \/ /\ ctl[Task].pc = "syncdir" /\ ctl'[Task].pc = "ok"
               /\ entries' = {file} /\ file' = file
            \/ /\ UNCHANGED <<file, entries>>
               /\ ctl[Task].pc \in Storing \cup {"remove"}
               /\ ctl'[Task].pc \in {"failed", "remove"}
  <1> USE SameFile
  <1> DEFINE c == ctl[Task]
  <1>0. /\ Task \in {Task} /\ File!TypeOK
        /\ ctl \in [{Task} -> File!Control]
    BY Types DEF File!IInv
  <1>1. CASE File!Open(Task)
    <2>1. File!IInv'
      BY <1>0, <1>1, File!OpenStep
    <2>2. /\ UNCHANGED <<file, entries>> /\ ctl[Task].pc = "open"
          /\ \/ ctl' = ctl
             \/ ctl' = [ctl EXCEPT ![Task].pc = "fill", ![Task].temp = <<pid, sequence>>]
      BY <1>1 DEF File!Open
    <2>3. ctl'[Task].pc \in {"open", "fill"} /\ ctl'[Task].payload = ctl[Task].payload
      BY <1>0, <2>2 DEF File!Control
    <2> QED BY <2>1, <2>2, <2>3
  <1>2. CASE File!Fill(Task)
    <2>1. File!IInv'
      BY <1>0, <1>2, File!FillStep
    <2>2. UNCHANGED <<file, entries>> /\ ctl[Task].pc = "fill" /\ File!Goto(Task, "sync")
      BY <1>2 DEF File!Fill
    <2>3. "sync" \in File!Labels
      BY DEF File!Labels
    <2> QED BY <1>0, <2>1, <2>2, <2>3, File!GotoFacts
  <1>3. CASE File!Sync(Task)
    <2>1. File!IInv'
      BY <1>0, <1>3, File!SyncStep
    <2>2. UNCHANGED <<file, entries>> /\ ctl[Task].pc = "sync" /\ File!Goto(Task, "rename")
      BY <1>3 DEF File!Sync
    <2>3. "rename" \in File!Labels
      BY DEF File!Labels
    <2> QED BY <1>0, <2>1, <2>2, <2>3, File!GotoFacts
  <1>4. CASE File!Rename(Task)
    <2>1. File!IInv'
      BY <1>0, <1>4, File!RenameStep
    <2>2. file'.payload = ctl[Task].payload
      BY <1>0, <1>4, File!Renamed
    <2>3. /\ ctl[Task].pc = "rename" /\ entries' = entries \cup {file'}
          /\ ctl' = [ctl EXCEPT ![Task] = [@ EXCEPT !.pc = "syncdir", !.stamp = turn']]
      BY <1>4 DEF File!Rename
    <2>4. ctl'[Task].pc = "syncdir" /\ ctl'[Task].payload = ctl[Task].payload
      BY <1>0, <2>3 DEF File!Control
    <2> QED BY <2>1, <2>2, <2>3, <2>4
  <1>5. CASE File!SyncDirectory(Task)
    <2>1. File!IInv'
      BY <1>0, <1>5, File!SyncDirectoryStep
    <2>2. /\ ctl[Task].pc = "syncdir" /\ entries' = {file} /\ file' = file
          /\ File!Return(Task, "ok")
      BY <1>5 DEF File!SyncDirectory
    <2>3. "ok" \in File!Labels
      BY DEF File!Labels
    <2> QED BY <1>0, <2>1, <2>2, <2>3, File!ReturnFacts
  <1>6. CASE File!StepFails(Task)
    <2>1. File!IInv'
      BY <1>0, <1>6, File!StepFailsStep
    <2>2. UNCHANGED <<file, entries>>
      BY <1>6 DEF File!StepFails, File!disk
    <2>3. {"failed", "remove"} \subseteq File!Labels
      BY DEF File!Labels
    <2>4. ctl[Task].pc \in Storing /\ ctl'[Task].pc \in {"failed", "remove"}
      BY <1>0, <1>6, <2>3, File!GotoFacts, File!ReturnFacts DEF File!StepFails, Storing
    <2> QED BY <2>1, <2>2, <2>4
  <1>7. CASE File!Remove(Task)
    <2>1. File!IInv'
      BY <1>0, <1>7, File!RemoveStep
    <2>2. /\ ctl[Task].pc = "remove" /\ UNCHANGED <<file, entries>>
          /\ File!Return(Task, "failed")
      BY <1>7 DEF File!Remove
    <2>3. "failed" \in File!Labels
      BY DEF File!Labels
    <2> QED BY <1>0, <2>1, <2>2, <2>3, File!ReturnFacts
  <1> QED BY <1>1, <1>2, <1>3, <1>4, <1>5, <1>6, <1>7 DEF File!Step

LEMMA DefaultTypes == Default \in MixerState
  BY DEF Default, MixerState, Optional

LEMMA InitialInv == Init => IInv
  <1> SUFFICES ASSUME Init PROVE IInv
    OBVIOUS
  <1>1. File!Init /\ File!IInv /\ File!TypeOK /\ Disk!TypeOK
    BY SameFile, File!InitialInv DEF Init, File!IInv
  <1>2. ctl[Task].pc = "idle" /\ file.payload = Absent /\ entries = {file}
    BY <1>1 DEF File!Init, File!Idle, File!Missing
  <1>3. Load(file) = Default
    BY <1>2 DEF Load
  <1>4. TypeOK
    BY <1>1, <1>3, DefaultTypes DEF Init, TypeOK
  <1>5. SaveInv
    BY <1>2 DEF Init, SaveInv, Storing, Over
  <1>6. HeldInv
    BY <1>2 DEF Init, HeldInv, Storing
  <1> QED BY <1>1, <1>4, <1>5, <1>6 DEF Init, IInv

\* The file is left alone.
LEMMA FileKept ==
  ASSUME IInv, UNCHANGED diskVars
  PROVE  File!IInv' /\ Disk!TypeOK'
  <1>1. File!IInv'
    BY SameFile, File!InductiveStep DEF IInv, diskVars, File!vars
  <1>2. Disk!TypeOK'
    BY DEF IInv, TypeOK, diskVars, Disk!TypeOK
  <1> QED BY <1>1, <1>2

\* An update, announced or not, and the announcement that follows it.
LEMMA UpdateStep ==
  ASSUME IInv, NEW h \in Handlers, NEW new \in MixerState, Update(h, new)
  PROVE  IInv' /\ mixer' \in held'
  <1>1. File!IInv' /\ Disk!TypeOK'
    BY FileKept DEF Update
  <1>2. /\ mixer' = new
        /\ notify' = IF new # mixer THEN notify \cup {h} ELSE notify
        /\ held' = held \cup {new} /\ heldSince' = heldSince \cup {new}
        /\ UNCHANGED <<changes, seen, writer, file, entries, ctl>>
        /\ updates' = updates + 1 /\ updates < MaxUpdates
    BY DEF Update, diskVars
  <1>3. TypeOK'
    BY <1>1, <1>2 DEF IInv, TypeOK
  <1>4. mixer' = mixer \/ notify' # {}
    BY <1>2
  <1>5. SaveInv'
    BY <1>2, <1>4 DEF IInv, SaveInv, Pending, SaveFailed, Load
  <1>6. HeldInv'
    BY <1>2 DEF IInv, HeldInv, Load
  <1> QED BY <1>1, <1>2, <1>3, <1>5, <1>6 DEF IInv

LEMMA SetStep ==
  ASSUME IInv, NEW h \in Handlers, NEW b \in Buses, SetPercent(h, b) \/ SetMuted(h, b)
  PROVE  IInv'
  <1>1. \A p \in Percents : [mixer EXCEPT ![b].percent = p] \in MixerState
    BY DEF IInv, TypeOK, MixerState, Optional
  <1>2. \A m \in BOOLEAN : [mixer EXCEPT ![b].muted = m] \in MixerState
    BY DEF IInv, TypeOK, MixerState, Optional
  <1> QED BY <1>1, <1>2, UpdateStep DEF SetPercent, SetMuted

LEMMA NotifyStep ==
  ASSUME IInv, NEW h \in Handlers, Notify(h)
  PROVE  IInv'
  <1>1. File!IInv' /\ Disk!TypeOK'
    BY FileKept DEF Notify
  <1>2. /\ notify' = notify \ {h} /\ changes' = changes + 1
        /\ UNCHANGED <<mixer, seen, writer, updates, held, heldSince, file, entries, ctl>>
    BY DEF Notify, diskVars
  <1>3. changes \in Nat /\ seen \in Nat /\ seen <= changes
    BY DEF IInv, TypeOK
  <1>4. TypeOK'
    BY <1>1, <1>2, <1>3 DEF IInv, TypeOK
  <1>5. changes' # seen' /\ seen' <= changes'
    BY <1>2, <1>3
  <1>6. SaveInv'
    BY <1>2, <1>5 DEF IInv, SaveInv, Pending
  <1>7. HeldInv'
    BY <1>2 DEF IInv, HeldInv, Load
  <1> QED BY <1>1, <1>4, <1>5, <1>6, <1>7 DEF IInv

\* The writer looks at the channel before it saves, when nothing is stored.
LEMMA LookStep ==
  ASSUME IInv, Wake \/ Settle
  PROVE  IInv'
  <1>1. File!IInv' /\ Disk!TypeOK'
    BY FileKept DEF Wake, Settle
  <1>2. /\ writer \in {"wait", "settle"} /\ writer' \in {"settle", "snapshot"}
        /\ seen' \in {seen, changes}
        /\ UNCHANGED <<mixer, notify, changes, updates, held, heldSince,
                       file, entries, ctl>>
    BY DEF Wake, Settle, diskVars
  <1>3. TypeOK' /\ seen' <= changes'
    BY <1>1, <1>2 DEF IInv, TypeOK
  <1>4. SaveInv'
    BY <1>2 DEF IInv, SaveInv, Over, Storing
  <1>5. HeldInv'
    BY <1>2 DEF IInv, HeldInv, Load
  <1> QED BY <1>1, <1>3, <1>4, <1>5 DEF IInv

LEMMA SnapshotStep ==
  ASSUME IInv, Snapshot
  PROVE  IInv'
  <1> USE SameFile
  <1>1. /\ Disk!Write(Task, mixer) /\ mixer \in MixerState
        /\ writer = "snapshot" /\ writer' = "saving" /\ heldSince' = {mixer}
        /\ UNCHANGED <<mixer, notify, changes, seen, updates, held>>
    BY DEF Snapshot, IInv, TypeOK
  <1>2. File!Write(Task, mixer)
    BY <1>1
  <1>3. File!IInv'
    BY <1>1, <1>2, File!WriteStep DEF IInv
  <1>4. /\ ctl'[Task].pc = "open" /\ ctl'[Task].payload = mixer
        /\ UNCHANGED <<file, entries>>
    BY <1>2, Types DEF File!Write, File!Idle, File!disk, File!IInv, IInv
  <1>5. TypeOK'
    BY <1>1, <1>3, SameTypes DEF IInv, TypeOK
  <1>6. SaveInv'
    BY <1>1, <1>4 DEF IInv, SaveInv, Pending
  <1>7. HeldInv'
    BY <1>1, <1>4 DEF IInv, HeldInv, Load
  <1> QED BY <1>1, <1>3, <1>5, <1>6, <1>7 DEF IInv

LEMMA SaveStepStep ==
  ASSUME IInv, SaveStep
  PROVE  IInv'
  <1>1. /\ writer = "saving" /\ File!Step(Task)
        /\ held' = IF ctl'[Task].pc = "ok" THEN heldSince ELSE held
        /\ UNCHANGED <<mixer, notify, changes, seen, writer, updates, heldSince>>
    BY SameFile DEF SaveStep
  <1>2. File!IInv'
    BY <1>1, StepShape DEF IInv
  <1>3. TypeOK' /\ seen' <= changes'
    BY <1>1, <1>2, SameTypes DEF IInv, TypeOK
  <1>4. CASE /\ UNCHANGED <<file, entries>>
             /\ ctl[Task].pc \in {"open", "fill", "sync"}
             /\ ctl'[Task].pc \in {"open", "fill", "sync", "rename"}
             /\ ctl'[Task].payload = ctl[Task].payload
    BY <1>1, <1>2, <1>3, <1>4
    DEF IInv, SaveInv, HeldInv, Pending, Storing, Over, Load
  <1>5. CASE /\ ctl[Task].pc = "rename" /\ ctl'[Task].pc = "syncdir"
             /\ file'.payload = ctl[Task].payload
             /\ entries' = entries \cup {file'}
             /\ ctl'[Task].payload = ctl[Task].payload
    <2>1. Load(file') = ctl[Task].payload /\ ctl[Task].payload \in heldSince
      BY <1>1, <1>5, Loads DEF IInv, TypeOK, HeldInv, Storing
    <2>2. SaveInv'
      BY <1>1, <1>5 DEF IInv, SaveInv, Pending, Storing
    <2>3. HeldInv'
      BY <1>1, <1>5, <2>1 DEF IInv, HeldInv, Storing, Load
    <2> QED BY <1>2, <1>3, <2>2, <2>3 DEF IInv
  <1>6. CASE /\ ctl[Task].pc = "syncdir" /\ ctl'[Task].pc = "ok"
             /\ entries' = {file} /\ file' = file
    <2>1. /\ file.payload = ctl[Task].payload
          /\ ctl[Task].payload \in heldSince
          /\ Pending \/ ctl[Task].payload = mixer
      BY <1>6 DEF IInv, SaveInv, HeldInv, Storing
    <2>2. Load(file) = ctl[Task].payload
      BY <2>1, Loads DEF IInv, TypeOK
    <2>3. SaveInv'
      BY <1>1, <1>6, <2>1, <2>2 DEF SaveInv, Pending, Storing, Load
    <2>4. HeldInv'
      BY <1>1, <1>6, <2>1, <2>2 DEF IInv, HeldInv, Storing, Load
    <2> QED BY <1>2, <1>3, <2>3, <2>4 DEF IInv
  <1>7. CASE /\ UNCHANGED <<file, entries>>
             /\ ctl[Task].pc \in Storing \cup {"remove"}
             /\ ctl'[Task].pc \in {"failed", "remove"}
    BY <1>1, <1>2, <1>3, <1>7
    DEF IInv, SaveInv, HeldInv, Pending, Storing, Over, Load
  <1> QED BY <1>1, <1>4, <1>5, <1>6, <1>7, StepShape DEF IInv

LEMMA SavedStep ==
  ASSUME IInv, Saved
  PROVE  IInv'
  <1>1. File!IInv' /\ Disk!TypeOK'
    BY FileKept DEF Saved
  <1>2. /\ writer = "saving" /\ writer' = "wait" /\ ctl[Task].pc \in {"ok", "failed"}
        /\ UNCHANGED <<mixer, notify, changes, seen, updates, held, heldSince,
                       file, entries, ctl>>
    BY DEF Saved, diskVars
  <1>3. TypeOK' /\ seen' <= changes'
    BY <1>1, <1>2 DEF IInv, TypeOK
  <1>4. SaveInv'
    BY <1>2 DEF IInv, SaveInv, Pending, SaveFailed, Storing, Over, Load
  <1>5. HeldInv'
    BY <1>2 DEF IInv, HeldInv, Load
  <1> QED BY <1>1, <1>3, <1>4, <1>5 DEF IInv

\* The file a restart finds is one of those the power may have left.
LEMMA RestartFacts ==
  ASSUME IInv, Restart
  PROVE  /\ File!IInv' /\ file' \in entries /\ entries' \subseteq entries
         /\ ctl'[Task].pc = "idle"
         /\ mixer' = Load(file') /\ mixer' \in held
  <1> USE SameFile
  <1>1. File!ProcessDies \/ File!PowerLoss
    BY DEF Restart
  <1>2. File!IInv'
    BY <1>1, File!ProcessDiesStep, File!PowerLossStep DEF IInv
  <1>4. file' \in entries /\ entries' \subseteq entries
    <2>1. CASE File!ProcessDies
      BY <2>1 DEF File!ProcessDies, File!disk, IInv, File!IInv, File!PathInv
    <2>2. CASE File!PowerLoss
      BY <2>2, File!SurvivorFacts DEF IInv, File!PowerLoss
    <2> QED BY <1>1, <2>1, <2>2
  <1>5. File!Restart
    BY <1>1 DEF File!ProcessDies, File!PowerLoss
  <1>6. ctl'[Task].pc = "idle"
    BY <1>5 DEF File!Restart, File!Idle
  <1>7. mixer' = Load(file')
    BY DEF Restart
  <1> QED BY <1>2, <1>4, <1>6, <1>7 DEF IInv, HeldInv

LEMMA RestartStep ==
  ASSUME IInv, Restart
  PROVE  IInv'
  <1>1. /\ notify' = {} /\ changes' = 0 /\ seen' = 0 /\ writer' = "wait"
        /\ updates' = 0 /\ held' = held /\ heldSince' = {mixer'}
    BY DEF Restart
  <1>2. mixer' \in MixerState
    BY RestartFacts DEF IInv, TypeOK
  <1>3. TypeOK'
    BY <1>1, <1>2, RestartFacts, SameTypes DEF IInv, TypeOK
  <1>4. SaveInv'
    BY <1>1, RestartFacts DEF SaveInv, Over, Storing, Load
  <1>5. HeldInv'
    BY <1>1, RestartFacts DEF IInv, HeldInv, Storing, Load
  <1> QED BY <1>1, <1>3, <1>4, <1>5, RestartFacts DEF IInv

LEMMA InductiveStep == IInv /\ [Next]_vars => IInv'
  <1> SUFFICES ASSUME IInv, [Next]_vars PROVE IInv'
    OBVIOUS
  <1>1. CASE UNCHANGED vars
    <2>1. File!IInv' /\ Disk!TypeOK'
      BY <1>1, FileKept DEF vars
    <2> QED
      BY <1>1, <2>1
      DEF vars, diskVars, IInv, TypeOK, SaveInv, HeldInv, Pending, SaveFailed, Load
  <1> QED
    BY <1>1, SetStep, NotifyStep, LookStep, SnapshotStep, SaveStepStep, SavedStep,
       RestartStep DEF Next

LEMMA Inductive == Spec => []IInv
  BY InitialInv, InductiveStep, PTL DEF Spec

\* No update is lost between the handlers, the channel and the writer: once
\* the writer has nothing to see, the file holds the mixer unless saving failed.
THEOREM NothingUnsaved == Spec => []QuiescentIsSaved
  <1>1. IInv => QuiescentIsSaved
    <2>1. SUFFICES ASSUME IInv, writer = "wait", changes = seen, notify = {}, ~SaveFailed
                   PROVE  Load(file) = mixer
      BY DEF QuiescentIsSaved
    <2>2. Pending \/ SaveFailed \/ Load(file) = mixer
      BY <2>1 DEF IInv, SaveInv
    <2> QED BY <2>1, <2>2 DEF Pending
  <1> QED BY <1>1, Inductive, PTL

\* However often the process dies and the power goes, a restart never goes
\* back before the snapshot of the last acknowledged save.
THEOREM RestartsAreRecent == Spec => RestartIsRecent
  <1>1. IInv /\ [Next]_vars => [Restart => mixer' \in held]_vars
    BY RestartFacts
  <1> QED BY <1>1, Inductive, PTL DEF Spec, RestartIsRecent
=============================================================================
