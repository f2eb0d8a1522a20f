-------------------------- MODULE AtomicFileProofs --------------------------
(* Safety of AtomicFile, and that it implements DurableFile, for any number *)
(* of writers, values, process identifiers, faults and crashes.             *)
EXTENDS AtomicFile, TLAPS

Busy == {"fill", "sync", "rename", "syncdir", "remove"}

\* A call owns its temporary name from the moment it creates the file until
\* it returns; the names a process has taken lie below its sequence.
NamesInv ==
  /\ \A w \in Writers : ctl[w].pc \in Busy =>
       /\ ctl[w].temp \in Names
       /\ ctl[w].temp[1] = pid /\ ctl[w].temp[2] < sequence
  /\ \A v, w \in Writers :
       ctl[v].pc \in Busy /\ ctl[w].pc \in Busy /\ ctl[v].temp = ctl[w].temp => v = w

\* What the temporary file of a call holds at each step of the call.
ContentsInv ==
  \A w \in Writers :
    /\ ctl[w].pc \in Owning \cup {"open", "syncdir"} => ctl[w].payload \in Payloads
    /\ ctl[w].pc \in Owning => temps[ctl[w].temp] # Absent
    /\ ctl[w].pc \in {"sync", "rename"} => temps[ctl[w].temp].payload = ctl[w].payload
    /\ ctl[w].pc = "rename" => temps[ctl[w].temp].synced

\* What the path names, and may name after a power loss.
Whole(i) == i.payload # Partial /\ i.synced /\ i.stamp >= acked /\ i.stamp <= turn

PathInv ==
  /\ file \in entries
  /\ \A i \in entries : Whole(i)
  /\ \A w \in Writers : ctl[w].pc = "syncdir" => ctl[w].stamp <= file.stamp

IInv == TypeOK /\ NamesInv /\ ContentsInv /\ PathInv

USE AtomicFileAssumption, AbsentAssumption

Control == [pc : Labels, payload : Payloads \cup {Absent},
            temp : Names \cup {Absent}, stamp : Nat]

LEMMA Constants ==
  /\ Missing \in Inode /\ Fresh \in Inode /\ Idle \in Control
  /\ Idle.pc = "idle" /\ Whole(Missing) = (0 >= acked /\ 0 <= turn)
  BY DEF Missing, Fresh, Idle, Inode, Control, Labels, Whole

\* A step of one call leaves the other calls as they are.
LEMMA GotoFacts ==
  ASSUME NEW w \in Writers, NEW label \in Labels, TypeOK, Goto(w, label)
  PROVE  /\ ctl' \in [Writers -> Control]
         /\ \A v \in Writers : v # w => ctl'[v] = ctl[v]
         /\ ctl'[w].pc = label /\ ctl'[w].payload = ctl[w].payload
         /\ ctl'[w].temp = ctl[w].temp /\ ctl'[w].stamp = ctl[w].stamp
  BY DEF Goto, TypeOK, Control

LEMMA ReturnFacts ==
  ASSUME NEW w \in Writers, NEW label \in Labels, TypeOK, Return(w, label)
  PROVE  /\ ctl' \in [Writers -> Control]
         /\ \A v \in Writers : v # w => ctl'[v] = ctl[v]
         /\ ctl'[w].pc = label /\ ctl'[w].payload = Absent
         /\ ctl'[w].temp = Absent /\ ctl'[w].stamp = 0
  BY Constants DEF Return, TypeOK, Control, Idle

LEMMA InitialInv == Init => IInv
  <1> SUFFICES ASSUME Init PROVE IInv
    OBVIOUS
  <1>1. TypeOK
    BY Constants DEF Init, TypeOK, Labels, Control
  <1>2. \A w \in Writers : ctl[w].pc = "idle"
    BY DEF Init, Idle
  <1>3. NamesInv /\ ContentsInv
    BY <1>2 DEF NamesInv, ContentsInv, Busy, Owning
  <1>4. PathInv
    BY <1>2 DEF Init, PathInv, Whole, Missing
  <1> QED BY <1>1, <1>3, <1>4 DEF IInv

LEMMA WriteStep ==
  ASSUME IInv, NEW w \in Writers, NEW p \in Payloads, Write(w, p)
  PROVE  IInv'
  <1>1. /\ ctl' \in [Writers -> Control]
        /\ \A v \in Writers : v # w => ctl'[v] = ctl[v]
        /\ ctl'[w].pc = "open" /\ ctl'[w].payload = p
    BY DEF IInv, TypeOK, Write, Idle, Control, Labels
  <1>2. UNCHANGED <<file, entries, temps, pid, sequence, turn, acked, faults, crashes>>
    BY DEF Write, disk
  <1>3. TypeOK'
    BY <1>1, <1>2 DEF IInv, TypeOK, Control
  <1>4. NamesInv'
    BY <1>1, <1>2 DEF IInv, NamesInv, Busy
  <1>5. ContentsInv'
    BY <1>1, <1>2 DEF IInv, ContentsInv, Owning
  <1>6. PathInv'
    BY <1>1, <1>2 DEF IInv, PathInv, Whole
  <1> QED BY <1>3, <1>4, <1>5, <1>6 DEF IInv

LEMMA OpenStep ==
  ASSUME IInv, NEW w \in Writers, Open(w)
  PROVE  IInv'
  <1> DEFINE name == <<pid, sequence>>
  <1>1. /\ UNCHANGED <<file, entries, pid, turn, acked, faults, crashes>>
        /\ sequence \in Nat /\ sequence' = sequence + 1 /\ sequence' \in 0..MaxSequence
        /\ ctl[w].pc = "open" /\ name \in Names
    BY DEF Open, IInv, TypeOK, Names
  <1>2. CASE UNCHANGED <<temps, ctl>>
    <2>1. TypeOK'
      BY <1>1, <1>2 DEF IInv, TypeOK
    <2>2. NamesInv'
      BY <1>1, <1>2 DEF IInv, NamesInv, Names
    <2>3. ContentsInv' /\ PathInv'
      BY <1>1, <1>2 DEF IInv, ContentsInv, PathInv, Whole
    <2> QED BY <2>1, <2>2, <2>3 DEF IInv
  <1>3. CASE /\ temps[name] = Absent
             /\ temps' = [temps EXCEPT ![name] = Fresh]
             /\ ctl' = [ctl EXCEPT ![w].pc = "fill", ![w].temp = name]
    <2>1. /\ ctl' \in [Writers -> Control]
          /\ \A v \in Writers : v # w => ctl'[v] = ctl[v]
          /\ ctl'[w].pc = "fill" /\ ctl'[w].payload = ctl[w].payload
          /\ ctl'[w].temp = name /\ ctl'[w].stamp = ctl[w].stamp
      BY <1>1, <1>3 DEF IInv, TypeOK, Control, Labels
    <2>2. /\ temps' \in [Names -> Inode \cup {Absent}]
          /\ \A n \in Names : n # name => temps'[n] = temps[n]
          /\ temps'[name] = Fresh /\ Fresh # Absent
      BY <1>1, <1>3, Constants DEF IInv, TypeOK
    <2>3. TypeOK'
      BY <1>1, <2>1, <2>2 DEF IInv, TypeOK, Control
    <2>4. \A v \in Writers : v # w /\ ctl[v].pc \in Busy => ctl[v].temp # name
      BY <1>1 DEF IInv, NamesInv, Names
    <2>5. NamesInv'
      <3>1. \A v \in Writers : v # w /\ ctl[v].pc \in Busy =>
              /\ ctl[v].temp \in Names /\ ctl[v].temp[1] = pid
              /\ ctl[v].temp[2] \in Nat /\ ctl[v].temp[2] < sequence
        BY DEF IInv, NamesInv, Names
      <3>2. name[1] = pid /\ name[2] = sequence
        OBVIOUS
      <3> HIDE DEF name
      <3> QED BY <1>1, <2>1, <2>4, <3>1, <3>2 DEF IInv, NamesInv
    <2> HIDE DEF name
    <2>6. ContentsInv'
      BY <1>1, <2>1, <2>2, <2>4 DEF IInv, ContentsInv, NamesInv, Owning, Busy
    <2>7. PathInv'
      BY <1>1, <2>1 DEF IInv, PathInv, Whole
    <2> QED BY <2>3, <2>5, <2>6, <2>7 DEF IInv
  <1> QED BY <1>2, <1>3 DEF Open

\* Filling and syncing change the call's own temporary file only.
LEMMA OwnStep ==
  ASSUME IInv, NEW w \in Writers, NEW label \in {"sync", "rename"},
         NEW inode \in Inode,
         ctl[w].pc \in {"fill", "sync"},
         inode.payload = ctl[w].payload, label = "rename" => inode.synced,
         temps' = [temps EXCEPT ![ctl[w].temp] = inode],
         Goto(w, label),
         UNCHANGED <<file, entries, pid, sequence, turn, acked, faults, crashes>>
  PROVE  IInv'
  <1>1. /\ ctl' \in [Writers -> Control]
        /\ \A v \in Writers : v # w => ctl'[v] = ctl[v]
        /\ ctl'[w].pc = label /\ ctl'[w].payload = ctl[w].payload
        /\ ctl'[w].temp = ctl[w].temp /\ ctl'[w].stamp = ctl[w].stamp
    BY GotoFacts DEF IInv, Labels
  <1>2. ctl[w].temp \in Names
    BY DEF IInv, NamesInv, Busy
  <1>3. /\ temps' \in [Names -> Inode \cup {Absent}]
        /\ \A n \in Names : n # ctl[w].temp => temps'[n] = temps[n]
        /\ temps'[ctl[w].temp] = inode /\ inode # Absent
    BY <1>2 DEF IInv, TypeOK
  <1>4. TypeOK'
    BY <1>1, <1>3 DEF IInv, TypeOK, Control
  <1>5. NamesInv'
    BY <1>1 DEF IInv, NamesInv, Busy
  <1>6. ContentsInv'
    <2>1. \A v \in Writers : v # w /\ ctl[v].pc \in Owning =>
            ctl[v].temp \in Names /\ ctl[v].temp # ctl[w].temp
      BY DEF IInv, NamesInv, Owning, Busy
    <2> QED BY <1>1, <1>3, <2>1 DEF IInv, ContentsInv, Owning
  <1>7. PathInv'
    BY <1>1 DEF IInv, PathInv, Whole
  <1> QED BY <1>4, <1>5, <1>6, <1>7 DEF IInv

LEMMA FillStep ==
  ASSUME IInv, NEW w \in Writers, Fill(w)
  PROVE  IInv'
  <1> DEFINE inode == [temps[ctl[w].temp] EXCEPT !.payload = ctl[w].payload]
  <1>1. ctl[w].temp \in Names /\ temps[ctl[w].temp] \in Inode
    BY DEF Fill, IInv, TypeOK, NamesInv, ContentsInv, Owning, Busy
  <1>2. inode \in Inode /\ inode.payload = ctl[w].payload
    BY <1>1 DEF IInv, TypeOK, Inode
  <1>3. temps' = [temps EXCEPT ![ctl[w].temp] = inode]
    BY <1>1 DEF Fill, IInv, TypeOK
  <1> HIDE DEF inode
  <1> QED BY <1>2, <1>3, OwnStep DEF Fill

LEMMA SyncStep ==
  ASSUME IInv, NEW w \in Writers, Sync(w)
  PROVE  IInv'
  <1> DEFINE inode == [temps[ctl[w].temp] EXCEPT !.synced = TRUE]
  <1>1. /\ ctl[w].temp \in Names /\ temps[ctl[w].temp] \in Inode
        /\ temps[ctl[w].temp].payload = ctl[w].payload
    BY DEF Sync, IInv, TypeOK, NamesInv, ContentsInv, Owning, Busy
  <1>2. inode \in Inode /\ inode.payload = ctl[w].payload /\ inode.synced
    BY <1>1 DEF Inode
  <1>3. temps' = [temps EXCEPT ![ctl[w].temp] = inode]
    BY <1>1 DEF Sync, IInv, TypeOK
  <1> HIDE DEF inode
  <1> QED BY <1>2, <1>3, OwnStep DEF Sync

\* What the renamed file holds.
LEMMA Renamed ==
  ASSUME IInv, NEW w \in Writers, Rename(w)
  PROVE  /\ file' \in Inode
         /\ file'.payload = ctl[w].payload /\ ctl[w].payload \in Payloads
         /\ file'.synced /\ file'.stamp = turn + 1
  <1>1. /\ ctl[w].temp \in Names /\ temps[ctl[w].temp] \in Inode
        /\ temps[ctl[w].temp].payload = ctl[w].payload
        /\ temps[ctl[w].temp].synced
        /\ ctl[w].payload \in Payloads
    BY DEF Rename, IInv, TypeOK, NamesInv, ContentsInv, Owning, Busy
  <1> QED BY <1>1 DEF Rename, IInv, TypeOK, Inode

LEMMA RenameStep ==
  ASSUME IInv, NEW w \in Writers, Rename(w)
  PROVE  IInv'
  <1>1. /\ turn \in Nat /\ acked \in Nat /\ turn' = turn + 1 /\ acked <= turn
        /\ file \in Inode /\ file.stamp \in Nat /\ file.stamp <= turn
    BY DEF Rename, IInv, TypeOK, PathInv, Whole, Inode
  <1>2. /\ ctl' \in [Writers -> Control]
        /\ \A v \in Writers : v # w => ctl'[v] = ctl[v]
        /\ ctl'[w].pc = "syncdir" /\ ctl'[w].payload = ctl[w].payload
        /\ ctl'[w].temp = ctl[w].temp /\ ctl'[w].stamp = turn + 1
    <2> DEFINE c == [ctl[w] EXCEPT !.pc = "syncdir", !.stamp = turn + 1]
    <2>1. ctl \in [Writers -> Control]
      BY DEF IInv, TypeOK, Control
    <2>2. /\ c \in Control /\ c.pc = "syncdir" /\ c.payload = ctl[w].payload
          /\ c.temp = ctl[w].temp /\ c.stamp = turn + 1
      <3>1. ctl[w] \in Control /\ turn + 1 \in Nat /\ "syncdir" \in Labels
        BY <1>1, <2>1 DEF Labels
      <3> QED BY <3>1 DEF Control
    <2>3. ctl' = [ctl EXCEPT ![w] = c]
      BY <1>1, <2>1 DEF Rename
    <2> HIDE DEF c
    <2> QED BY <2>1, <2>2, <2>3
  <1>3. /\ ctl[w].pc = "rename"
        /\ entries' = entries \cup {file'}
        /\ temps' = [temps EXCEPT ![ctl[w].temp] = Absent]
        /\ UNCHANGED <<pid, sequence, acked, faults, crashes>>
    BY DEF Rename
  <1>4. TypeOK'
    <2>1. file' \in Inode
      BY Renamed
    <2>2. temps' \in [Names -> Inode \cup {Absent}]
      BY <1>3 DEF IInv, TypeOK
    <2>3. entries' \subseteq Inode
      BY <1>3, <2>1 DEF IInv, TypeOK
    <2> QED BY <1>1, <1>2, <1>3, <2>1, <2>2, <2>3 DEF IInv, TypeOK, Control
  <1>5. NamesInv'
    BY <1>2, <1>3 DEF IInv, NamesInv, Busy
  <1>6. ContentsInv'
    <2>1. \A v \in Writers : v # w /\ ctl[v].pc \in Owning =>
            /\ ctl[v].temp \in Names /\ ctl[v].temp # ctl[w].temp
            /\ temps'[ctl[v].temp] = temps[ctl[v].temp]
      BY <1>3 DEF IInv, TypeOK, NamesInv, Owning, Busy
    <2>2. ctl[w].payload \in Payloads
      BY <1>3 DEF IInv, ContentsInv, Owning
    <2> QED BY <1>2, <2>1, <2>2 DEF IInv, ContentsInv, Owning
  <1>7. PathInv'
    <2>1. Whole(file)'
      BY <1>1, <1>3, Renamed DEF Whole
    <2>2. \A i \in entries : Whole(i)'
      BY <1>1, <1>3 DEF IInv, PathInv, Whole, TypeOK, Inode
    <2>3. \A v \in Writers : ctl'[v].pc = "syncdir" => ctl'[v].stamp <= file'.stamp
      BY <1>1, <1>2, Renamed DEF IInv, PathInv, TypeOK, Control
    <2> QED BY <1>3, <2>1, <2>2, <2>3 DEF PathInv, Whole
  <1> QED BY <1>4, <1>5, <1>6, <1>7 DEF IInv

LEMMA SyncDirectoryStep ==
  ASSUME IInv, NEW w \in Writers, SyncDirectory(w)
  PROVE  IInv'
  <1>1. /\ ctl[w].pc = "syncdir" /\ entries' = {file}
        /\ acked' = IF ctl[w].stamp > acked THEN ctl[w].stamp ELSE acked
        /\ Return(w, "ok")
        /\ UNCHANGED <<file, temps, pid, sequence, turn, faults, crashes>>
    BY DEF SyncDirectory
  <1>2. /\ ctl' \in [Writers -> Control]
        /\ \A v \in Writers : v # w => ctl'[v] = ctl[v]
        /\ ctl'[w].pc = "ok"
    BY <1>1, ReturnFacts DEF IInv, Labels
  <1>3. ctl[w].stamp \in Nat /\ acked \in Nat /\ file \in Inode /\ Whole(file)
    BY DEF IInv, TypeOK, PathInv
  <1>4. TypeOK'
    BY <1>1, <1>2, <1>3 DEF IInv, TypeOK, Control
  <1>5. NamesInv'
    BY <1>1, <1>2 DEF IInv, NamesInv, Busy
  <1>6. ContentsInv'
    BY <1>1, <1>2 DEF IInv, ContentsInv, Owning
  <1>7. PathInv'
    <2>1. ctl[w].stamp <= file.stamp
      BY <1>1 DEF IInv, PathInv
    <2>2. Whole(file)'
      BY <1>1, <1>3, <2>1 DEF Whole
    <2> QED BY <1>1, <1>2, <2>2 DEF IInv, PathInv, Whole
  <1> QED BY <1>4, <1>5, <1>6, <1>7 DEF IInv

LEMMA StepFailsStep ==
  ASSUME IInv, NEW w \in Writers, StepFails(w)
  PROVE  IInv'
  <1>1. /\ UNCHANGED <<file, entries, temps, pid, sequence, turn, acked, crashes>>
        /\ faults' \in 0..MaxFaults
    BY DEF StepFails, disk, IInv, TypeOK
  <1>2. /\ ctl' \in [Writers -> Control]
        /\ \A v \in Writers : v # w => ctl'[v] = ctl[v]
        /\ \/ ctl'[w].pc = "failed"
           \/ ctl'[w].pc = "remove" /\ ctl'[w].temp = ctl[w].temp /\ ctl[w].pc \in Busy
    <2>1. CASE ctl[w].pc = "open" /\ Return(w, "failed")
      BY <2>1, ReturnFacts DEF IInv, Labels
    <2>2. CASE ctl[w].pc \in {"fill", "sync", "rename", "syncdir"} /\ Goto(w, "remove")
      BY <2>2, GotoFacts DEF IInv, Labels, Busy
    <2> QED BY <2>1, <2>2 DEF StepFails
  <1>3. TypeOK'
    BY <1>1, <1>2 DEF IInv, TypeOK, Control
  <1>4. NamesInv'
    BY <1>1, <1>2 DEF IInv, NamesInv, Busy
  <1>5. ContentsInv'
    BY <1>1, <1>2 DEF IInv, ContentsInv, Owning
  <1>6. PathInv'
    BY <1>1, <1>2 DEF IInv, PathInv, Whole
  <1> QED BY <1>3, <1>4, <1>5, <1>6 DEF IInv

LEMMA RemoveStep ==
  ASSUME IInv, NEW w \in Writers, Remove(w)
  PROVE  IInv'
  <1>1. /\ ctl[w].pc = "remove" /\ Return(w, "failed")
        /\ temps' = [temps EXCEPT ![ctl[w].temp] = Absent]
        /\ UNCHANGED <<file, entries, pid, sequence, turn, acked, faults, crashes>>
    BY DEF Remove
  <1>2. /\ ctl' \in [Writers -> Control]
        /\ \A v \in Writers : v # w => ctl'[v] = ctl[v]
        /\ ctl'[w].pc = "failed"
    BY <1>1, ReturnFacts DEF IInv, Labels
  <1>3. TypeOK'
    BY <1>1, <1>2 DEF IInv, TypeOK, Control
  <1>4. NamesInv'
    BY <1>1, <1>2 DEF IInv, NamesInv, Busy
  <1>5. ContentsInv'
    <2>1. \A v \in Writers : v # w /\ ctl[v].pc \in Owning =>
            temps'[ctl[v].temp] = temps[ctl[v].temp]
      BY <1>1 DEF IInv, TypeOK, NamesInv, Owning, Busy
    <2> QED BY <1>2, <2>1 DEF IInv, ContentsInv, Owning
  <1>6. PathInv'
    BY <1>1, <1>2 DEF IInv, PathInv, Whole
  <1> QED BY <1>3, <1>4, <1>5, <1>6 DEF IInv

LEMMA RestartFacts ==
  ASSUME IInv, Restart
  PROVE  /\ pid' \in Pids /\ sequence' \in 0..MaxSequence /\ crashes' \in 0..MaxCrashes
         /\ ctl' \in [Writers -> Control]
         /\ \A w \in Writers : ctl'[w].pc = "idle"
         /\ UNCHANGED <<turn, acked, faults>>
         /\ NamesInv' /\ ContentsInv'
  <1>1. /\ pid' \in Pids /\ sequence' = 0 /\ crashes' = crashes + 1
        /\ crashes < MaxCrashes /\ ctl' = [w \in Writers |-> Idle]
        /\ UNCHANGED <<turn, acked, faults>>
    BY DEF Restart
  <1>2. /\ ctl' \in [Writers -> Control]
        /\ \A w \in Writers : ctl'[w].pc = "idle"
    BY <1>1, Constants
  <1>3. NamesInv' /\ ContentsInv'
    BY <1>2 DEF NamesInv, ContentsInv, Busy, Owning
  <1> QED BY <1>1, <1>2, <1>3 DEF IInv, TypeOK

LEMMA ProcessDiesStep == IInv /\ ProcessDies => IInv'
  BY RestartFacts DEF ProcessDies, disk, IInv, TypeOK, Control, PathInv, Whole

\* Only whole files are renamed over the path, so the power can cut none.
LEMMA SurvivorFacts ==
  ASSUME IInv, PowerLoss
  PROVE  \E i \in entries : file' = i
  BY DEF PowerLoss, Survives, IInv, PathInv, Whole

LEMMA PowerLossStep == IInv /\ PowerLoss => IInv'
  <1> SUFFICES ASSUME IInv, PowerLoss PROVE IInv'
    OBVIOUS
  <1>1. file' \in entries /\ entries' = {file'}
    BY SurvivorFacts DEF PowerLoss
  <1>2. temps' \in [Names -> Inode \cup {Absent}]
    <2>1. PICK kept \in SUBSET {n \in Names : temps[n] # Absent} :
            temps' = [n \in Names |-> IF n \in kept THEN Survives(temps[n]) ELSE Absent]
      BY DEF PowerLoss
    <2>2. \A i \in Inode : Survives(i) \in Inode
      BY DEF Survives, Inode
    <2> QED BY <2>1, <2>2 DEF IInv, TypeOK
  <1>3. Restart
    BY DEF PowerLoss
  <1>4. TypeOK'
    BY <1>1, <1>2, <1>3, RestartFacts DEF IInv, TypeOK, Control
  <1>5. PathInv'
    BY <1>1, <1>3, RestartFacts DEF IInv, PathInv, Whole
  <1> QED BY <1>3, <1>4, <1>5, RestartFacts DEF IInv

LEMMA InductiveStep == IInv /\ [Next]_vars => IInv'
  <1> SUFFICES ASSUME IInv, [Next]_vars PROVE IInv'
    OBVIOUS
  <1>1. CASE UNCHANGED vars
    BY <1>1
    DEF vars, IInv, TypeOK, NamesInv, ContentsInv, PathInv, Whole
  <1>2. ASSUME NEW w \in Writers, Step(w) PROVE IInv'
    BY <1>2, OpenStep, FillStep, SyncStep, RenameStep, SyncDirectoryStep,
       StepFailsStep, RemoveStep DEF Step
  <1> QED
    BY <1>1, <1>2, WriteStep, ProcessDiesStep, PowerLossStep DEF Next

LEMMA Inductive == Spec => []IInv
  BY InitialInv, InductiveStep, PTL DEF Spec

\* The file writer keeps to its types.
THEOREM TypeCorrect == Spec => []TypeOK
  BY Inductive, PTL DEF IInv

\* No two calls ever share a temporary file, and what a call renames over
\* the path is what it was asked to store.
THEOREM TemporariesOwned == Spec => []TempsAreOwned
  <1>1. IInv => TempsAreOwned
    BY DEF IInv, NamesInv, ContentsInv, TempsAreOwned, Owning, Busy
  <1> QED BY <1>1, Inductive, PTL

\* Whatever fails or dies, a reader and a restart find a whole value no older
\* than the last acknowledged one.
THEOREM AcknowledgedIsDurable == Spec => []AcknowledgedSurvives
  <1>1. IInv => AcknowledgedSurvives
    BY DEF IInv, PathInv, Whole, AcknowledgedSurvives
  <1> QED BY <1>1, Inductive, PTL

-----------------------------------------------------------------------------
(* The refinement. *)

NoStage == [stage |-> "none", payload |-> Absent, stamp |-> 0]

\* Every label stands for one stage of the abstract call.
LEMMA Stages ==
  ASSUME NEW c \in Control
  PROVE  /\ c.pc \in {"open", "fill", "sync", "rename"} =>
              Stage(c) = [stage |-> "called", payload |-> c.payload, stamp |-> 0]
         /\ c.pc = "syncdir" =>
              Stage(c) = [stage |-> "committed", payload |-> c.payload, stamp |-> c.stamp]
         /\ c.pc \in {"idle", "remove", "ok", "failed"} => Stage(c) = NoStage
  BY DEF Stage, NoStage

\* A step of one call changes one abstract call.
LEMMA OneCall ==
  ASSUME TypeOK, NEW w \in Writers,
         ctl' \in [Writers -> Control],
         \A v \in Writers : v # w => ctl'[v] = ctl[v]
  PROVE  /\ Calls' = [Calls EXCEPT ![w] = Stage(ctl'[w])]
         /\ Stage(ctl'[w]) = Stage(ctl[w]) => Calls' = Calls
         /\ Calls[w] = Stage(ctl[w])
  BY DEF Calls, TypeOK, Control

LEMMA PathKept ==
  ASSUME UNCHANGED <<file, entries>>
  PROVE  UNCHANGED <<Value, Stable>>
  BY DEF Value, Stable, Contents

LEMMA InitialPromise == Init => Promise!Init
  <1> SUFFICES ASSUME Init PROVE Promise!Init
    OBVIOUS
  <1>1. Value = [payload |-> Absent, stamp |-> 0] /\ Stable = {Value}
    BY DEF Init, Value, Stable, Contents, Missing
  <1>2. Calls = [w \in Writers |-> NoStage]
    BY DEF Init, Calls, Stage, Idle, NoStage
  <1> QED BY <1>1, <1>2 DEF Init, Promise!Init, Promise!NoCall, NoStage

LEMMA WriteKeeps ==
  ASSUME IInv, NEW w \in Writers, NEW p \in Payloads, Write(w, p)
  PROVE  Promise!Request(w, p)
  <1>1. /\ ctl' \in [Writers -> Control]
        /\ \A v \in Writers : v # w => ctl'[v] = ctl[v]
        /\ ctl'[w].pc = "open" /\ ctl'[w].payload = p
    BY DEF IInv, TypeOK, Write, Idle, Control, Labels
  <1>2. Stage(ctl[w]) = NoStage
    BY Stages DEF IInv, TypeOK, Write, Control
  <1>3. Stage(ctl'[w]) = [stage |-> "called", payload |-> p, stamp |-> 0]
    BY <1>1, Stages
  <1>4. UNCHANGED <<file, entries, turn, acked>>
    BY DEF Write, disk
  <1> QED
    BY <1>1, <1>2, <1>3, <1>4, OneCall, PathKept DEF Promise!Request, IInv, NoStage

\* Steps that stay within a stage.
LEMMA StageKept ==
  ASSUME IInv, NEW w \in Writers,
         ctl' \in [Writers -> Control],
         \A v \in Writers : v # w => ctl'[v] = ctl[v],
         Stage(ctl'[w]) = Stage(ctl[w]),
         UNCHANGED <<file, entries, turn, acked>>
  PROVE  UNCHANGED Promise!vars
  BY OneCall, PathKept DEF Promise!vars, IInv

LEMMA OpenKeeps ==
  ASSUME IInv, NEW w \in Writers, Open(w)
  PROVE  UNCHANGED Promise!vars
  <1>1. UNCHANGED <<file, entries, turn, acked>> /\ ctl[w].pc = "open"
    BY DEF Open
  <1>2. CASE UNCHANGED ctl
    BY <1>1, <1>2, StageKept DEF IInv, TypeOK, Control
  <1>3. CASE ctl' = [ctl EXCEPT ![w].pc = "fill", ![w].temp = <<pid, sequence>>]
    <2> DEFINE name == <<pid, sequence>>
    <2>0. name \in Names /\ ctl \in [Writers -> Control] /\ "fill" \in Labels
      BY DEF IInv, TypeOK, Control, Names, Labels
    <2> HIDE DEF name
    <2>1. /\ ctl' \in [Writers -> Control]
          /\ \A v \in Writers : v # w => ctl'[v] = ctl[v]
          /\ ctl'[w].pc = "fill" /\ ctl'[w].payload = ctl[w].payload
      BY <1>3, <2>0 DEF Control, name
    <2>2. ctl[w] \in Control
      BY DEF IInv, TypeOK, Control
    <2>3. Stage(ctl'[w]) = Stage(ctl[w])
      BY <1>1, <2>1, <2>2, Stages
    <2> QED BY <1>1, <2>1, <2>3, StageKept
  <1> QED BY <1>2, <1>3 DEF Open

LEMMA FillSyncKeep ==
  ASSUME IInv, NEW w \in Writers, Fill(w) \/ Sync(w)
  PROVE  UNCHANGED Promise!vars
  <1>1. PICK label \in {"sync", "rename"} : Goto(w, label)
    BY DEF Fill, Sync
  <1>2. UNCHANGED <<file, entries, turn, acked>> /\ ctl[w].pc \in {"fill", "sync"}
    BY DEF Fill, Sync
  <1>3. /\ ctl' \in [Writers -> Control]
        /\ \A v \in Writers : v # w => ctl'[v] = ctl[v]
        /\ ctl'[w].pc = label /\ ctl'[w].payload = ctl[w].payload
    BY <1>1, GotoFacts DEF IInv, Labels
  <1>4. ctl[w] \in Control
    BY DEF IInv, TypeOK, Control
  <1>5. Stage(ctl'[w]) = Stage(ctl[w])
    BY <1>2, <1>3, <1>4, Stages
  <1> QED BY <1>2, <1>3, <1>5, StageKept

LEMMA RenameKeeps ==
  ASSUME IInv, NEW w \in Writers, Rename(w)
  PROVE  Promise!Commit(w)
  <1>1. /\ ctl[w] \in Control /\ turn \in Nat /\ ctl[w].pc = "rename"
        /\ ctl \in [Writers -> Control]
    BY DEF Rename, IInv, TypeOK, Control
  <1>2. /\ turn' = turn + 1 /\ entries' = entries \cup {file'} /\ UNCHANGED acked
        /\ ctl' = [ctl EXCEPT ![w] = [@ EXCEPT !.pc = "syncdir", !.stamp = turn + 1]]
    BY DEF Rename
  <1> DEFINE c == [ctl[w] EXCEPT !.pc = "syncdir", !.stamp = turn + 1]
  <1>3. /\ c \in Control /\ c.pc = "syncdir"
        /\ c.payload = ctl[w].payload /\ c.stamp = turn + 1
    <2>1. turn + 1 \in Nat /\ "syncdir" \in Labels
      BY <1>1 DEF Labels
    <2> QED BY <1>1, <2>1 DEF Control
  <1>4. ctl' = [ctl EXCEPT ![w] = c]
    BY <1>2
  <1> HIDE DEF c
  <1>5. /\ ctl' \in [Writers -> Control] /\ ctl'[w] = c
        /\ \A v \in Writers : v # w => ctl'[v] = ctl[v]
    BY <1>1, <1>3, <1>4
  <1>6. Calls[w] = [stage |-> "called", payload |-> ctl[w].payload, stamp |-> 0]
    BY <1>1, <1>5, Stages, OneCall DEF IInv
  <1>7. Stage(c) = [stage |-> "committed", payload |-> ctl[w].payload, stamp |-> turn + 1]
    BY <1>3, Stages
  <1>8. Calls' = [Calls EXCEPT ![w] = Stage(c)]
    BY <1>5, OneCall DEF IInv
  <1>9. Calls' = [Calls EXCEPT
          ![w] = [stage |-> "committed", payload |-> Calls[w].payload, stamp |-> turn']]
    BY <1>2, <1>6, <1>7, <1>8
  <1>10. Value' = [payload |-> Calls[w].payload, stamp |-> turn']
    BY <1>2, <1>6, Renamed DEF Value, Contents
  <1>11. Stable' = Stable \cup {Value'}
    BY <1>2 DEF Stable, Value, Contents
  <1> QED BY <1>2, <1>6, <1>9, <1>10, <1>11 DEF Promise!Commit

LEMMA SyncDirectoryKeeps ==
  ASSUME IInv, NEW w \in Writers, SyncDirectory(w)
  PROVE  Promise!Acknowledge(w)
  <1>1. /\ ctl[w] \in Control /\ ctl[w].pc = "syncdir"
        /\ entries' = {file} /\ UNCHANGED <<file, turn>>
        /\ acked' = IF ctl[w].stamp > acked THEN ctl[w].stamp ELSE acked
        /\ Return(w, "ok")
    BY DEF SyncDirectory, IInv, TypeOK, Control
  <1>2. /\ ctl' \in [Writers -> Control] /\ ctl'[w].pc = "ok"
        /\ \A v \in Writers : v # w => ctl'[v] = ctl[v]
    BY <1>1, ReturnFacts DEF IInv, Labels
  <1>3. Calls[w].stage = "committed" /\ Calls[w].stamp = ctl[w].stamp
    BY <1>1, <1>2, Stages, OneCall DEF IInv
  <1>4. Calls' = [Calls EXCEPT ![w] = NoStage]
    BY <1>2, Stages, OneCall DEF IInv
  <1>5. Value' = Value /\ Stable' = {Value}
    BY <1>1 DEF Value, Stable, Contents
  <1> QED
    BY <1>1, <1>3, <1>4, <1>5 DEF Promise!Acknowledge, Promise!NoCall, NoStage

LEMMA StepFailsKeeps ==
  ASSUME IInv, NEW w \in Writers, StepFails(w)
  PROVE  Promise!Fail(w)
  <1>1. UNCHANGED <<file, entries, turn, acked>> /\ ctl[w] \in Control
    BY DEF StepFails, disk, IInv, TypeOK, Control
  <1>2. /\ ctl' \in [Writers -> Control] /\ ctl'[w].pc \in {"failed", "remove"}
        /\ \A v \in Writers : v # w => ctl'[v] = ctl[v]
        /\ ctl[w].pc \in {"open", "fill", "sync", "rename", "syncdir"}
    BY GotoFacts, ReturnFacts DEF StepFails, IInv, Labels
  <1>3. Calls[w].stage \in {"called", "committed"}
    BY <1>1, <1>2, Stages, OneCall DEF IInv
  <1>4. Calls' = [Calls EXCEPT ![w] = NoStage]
    BY <1>2, Stages, OneCall DEF IInv
  <1> QED
    BY <1>1, <1>3, <1>4, PathKept DEF Promise!Fail, Promise!NoCall, NoStage

LEMMA RemoveKeeps ==
  ASSUME IInv, NEW w \in Writers, Remove(w)
  PROVE  UNCHANGED Promise!vars
  <1>1. /\ UNCHANGED <<file, entries, turn, acked>> /\ ctl[w] \in Control
        /\ ctl[w].pc = "remove" /\ Return(w, "failed")
    BY DEF Remove, IInv, TypeOK, Control
  <1>2. /\ ctl' \in [Writers -> Control] /\ ctl'[w].pc = "failed"
        /\ \A v \in Writers : v # w => ctl'[v] = ctl[v]
    BY <1>1, ReturnFacts DEF IInv, Labels
  <1>3. Stage(ctl'[w]) = Stage(ctl[w])
    BY <1>1, <1>2, Stages
  <1> QED BY <1>1, <1>2, <1>3, StageKept

LEMMA RestartCalls ==
  ASSUME Restart
  PROVE  Calls' = [w \in Writers |-> NoStage] /\ UNCHANGED <<turn, acked>>
  BY DEF Restart, Calls, Stage, Idle, NoStage

LEMMA CrashesKeep ==
  ASSUME IInv
  PROVE  /\ ProcessDies => Promise!ProcessDies
         /\ PowerLoss => Promise!PowerLoss
  <1>1. ASSUME ProcessDies PROVE Promise!ProcessDies
    BY <1>1, RestartCalls, PathKept
    DEF ProcessDies, disk, Promise!ProcessDies, Promise!NoCall, NoStage
  <1>2. ASSUME PowerLoss PROVE Promise!PowerLoss
    <2>1. Value' \in Stable
      BY <1>2, SurvivorFacts DEF Value, Stable, Contents
    <2>2. Stable' = {Value'}
      BY <1>2 DEF PowerLoss, Value, Stable, Contents
    <2> QED
      BY <1>2, <2>1, <2>2, RestartCalls
      DEF PowerLoss, Promise!PowerLoss, Promise!NoCall, NoStage
  <1> QED BY <1>1, <1>2

LEMMA StepKeepsPromise == IInv /\ [Next]_vars => [Promise!Next]_(Promise!vars)
  <1> SUFFICES ASSUME IInv, [Next]_vars PROVE [Promise!Next]_(Promise!vars)
    OBVIOUS
  <1>1. CASE UNCHANGED vars
    BY <1>1 DEF vars, Promise!vars, Value, Stable, Calls, Contents, Stage
  <1>2. ASSUME NEW w \in Writers, Step(w) PROVE [Promise!Next]_(Promise!vars)
    BY <1>2, OpenKeeps, FillSyncKeep, RenameKeeps, SyncDirectoryKeeps,
       StepFailsKeeps, RemoveKeeps DEF Step, Promise!Next
  <1>3. ASSUME NEW w \in Writers, NEW p \in Payloads, Write(w, p)
        PROVE  [Promise!Next]_(Promise!vars)
    BY <1>3, WriteKeeps DEF Promise!Next
  <1>4. CASE ProcessDies \/ PowerLoss
    BY <1>4, CrashesKeep DEF Promise!Next
  <1> QED BY <1>1, <1>2, <1>3, <1>4 DEF Next

\* The temporary file, the two syncs and the rename implement one durable
\* indivisible replacement: DurableFile, with the rename as the instant.
THEOREM ImplementsPromise == Spec => KeepsPromise
  BY Inductive, InitialPromise, StepKeepsPromise, PTL
  DEF Spec, KeepsPromise, Promise!Spec
=============================================================================
