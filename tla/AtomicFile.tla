----------------------------- MODULE AtomicFile -----------------------------
(* src/src/atomic_file.rs: a small file replaced by writing a temporary one  *)
(* beside it, syncing it, renaming it over the path and syncing the          *)
(* directory.  Several callers may replace the same path at once (the        *)
(* settings handlers of the API take no lock), any call may fail, the        *)
(* process may die and the power may go.                                     *)
(*                                                                           *)
(* A file's data is an inode; the path and the temporary names point at      *)
(* inodes.  The inode carries, for the properties only, the turn in which    *)
(* it was renamed over the path.                                             *)
EXTENDS Naturals

CONSTANTS
  Writers,      \* callers of write
  Payloads,     \* what they store
  Pids,         \* process identifiers, which a restart may reuse
  MaxSequence,  \* bound: temporary names one process takes
  MaxFaults,    \* bound: failing file system calls
  MaxCrashes,   \* bound: deaths of the process or of the power
  Absent,       \* nothing there
  Partial       \* data cut short

ASSUME AtomicFileAssumption ==
  /\ MaxSequence \in Nat
  /\ MaxFaults \in Nat
  /\ MaxCrashes \in Nat
  /\ Partial \notin Payloads \cup {Absent}

VARIABLES
  file,     \* the inode at the path, as a reader finds it
  entries,  \* the inodes the path may name after a power loss
  temps,    \* temporary name -> inode, Absent when there is no such file
  pid,      \* of the running process
  sequence, \* TEMP_SEQUENCE
  ctl,      \* writer -> [pc, payload, temp, stamp]
  turn,     \* ghost: renames so far
  acked,    \* ghost: the latest turn whose write returned Ok
  faults, crashes

disk == <<file, entries, temps>>
vars == <<file, entries, temps, pid, sequence, ctl, turn, acked, faults, crashes>>

Names == Pids \X (0..MaxSequence)
Inode == [payload : Payloads \cup {Absent, Partial}, synced : BOOLEAN, stamp : Nat]

ASSUME AbsentAssumption == Absent \notin Payloads \cup Inode \cup Names

Missing == [payload |-> Absent, synced |-> TRUE, stamp |-> 0]
Fresh == [payload |-> Partial, synced |-> FALSE, stamp |-> 0]
Idle == [pc |-> "idle", payload |-> Absent, temp |-> Absent, stamp |-> 0]

Goto(w, label) == ctl' = [ctl EXCEPT ![w].pc = label]
Return(w, result) == ctl' = [ctl EXCEPT ![w] = [Idle EXCEPT !.pc = result]]

Init ==
  /\ file = Missing
  /\ entries = {Missing}
  /\ temps = [n \in Names |-> Absent]
  /\ pid \in Pids
  /\ sequence = 0
  /\ ctl = [w \in Writers |-> Idle]
  /\ turn = 0 /\ acked = 0 /\ faults = 0 /\ crashes = 0

Write(w, p) ==
  /\ ctl[w].pc \in {"idle", "ok", "failed"}
  /\ ctl' = [ctl EXCEPT ![w] = [Idle EXCEPT !.pc = "open", !.payload = p]]
  /\ UNCHANGED <<disk, pid, sequence, turn, acked, faults, crashes>>

\* Mutant: one fixed temporary name, opened whether or not it exists.
MutantOpen(w) ==
  LET name == <<pid, 0>>
  IN  /\ ctl[w].pc = "open"
      /\ temps' = [temps EXCEPT ![name] = Fresh]
      /\ ctl' = [ctl EXCEPT ![w].pc = "fill", ![w].temp = name]
      /\ UNCHANGED <<file, entries, pid, sequence, turn, acked, faults, crashes>>

\* create_new: a name left behind by an earlier process is skipped.
Open(w) ==
  LET name == <<pid, sequence>>
  IN  /\ ctl[w].pc = "open"
      /\ sequence < MaxSequence
      /\ sequence' = sequence + 1
      /\ \/ /\ temps[name] # Absent
            /\ UNCHANGED <<temps, ctl>>
         \/ /\ temps[name] = Absent
            /\ temps' = [temps EXCEPT ![name] = Fresh]
            /\ ctl' = [ctl EXCEPT ![w].pc = "fill", ![w].temp = name]
      /\ UNCHANGED <<file, entries, pid, turn, acked, faults, crashes>>

Fill(w) ==
  /\ ctl[w].pc = "fill"
  /\ temps' = [temps EXCEPT ![ctl[w].temp].payload = ctl[w].payload]
  /\ Goto(w, "sync")
  /\ UNCHANGED <<file, entries, pid, sequence, turn, acked, faults, crashes>>

\* Mutant: no sync_all on the file.
MutantSync(w) ==
  /\ ctl[w].pc = "sync"
  /\ Goto(w, "rename")
  /\ UNCHANGED <<disk, pid, sequence, turn, acked, faults, crashes>>

Sync(w) ==
  /\ ctl[w].pc = "sync"
  /\ temps' = [temps EXCEPT ![ctl[w].temp].synced = TRUE]
  /\ Goto(w, "rename")
  /\ UNCHANGED <<file, entries, pid, sequence, turn, acked, faults, crashes>>

Rename(w) ==
  /\ ctl[w].pc = "rename"
  /\ turn' = turn + 1
  /\ file' = [temps[ctl[w].temp] EXCEPT !.stamp = turn']
  /\ entries' = entries \cup {file'}
  /\ temps' = [temps EXCEPT ![ctl[w].temp] = Absent]
  /\ ctl' = [ctl EXCEPT ![w] = [@ EXCEPT !.pc = "syncdir", !.stamp = turn']]
  /\ UNCHANGED <<pid, sequence, acked, faults, crashes>>

\* Mutant: no sync_all on the directory.
MutantSyncDirectory(w) ==
  /\ ctl[w].pc = "syncdir"
  /\ acked' = IF ctl[w].stamp > acked THEN ctl[w].stamp ELSE acked
  /\ Return(w, "ok")
  /\ UNCHANGED <<disk, pid, sequence, turn, faults, crashes>>

SyncDirectory(w) ==
  /\ ctl[w].pc = "syncdir"
  /\ entries' = {file}
  /\ acked' = IF ctl[w].stamp > acked THEN ctl[w].stamp ELSE acked
  /\ Return(w, "ok")
  /\ UNCHANGED <<file, temps, pid, sequence, turn, faults, crashes>>

\* Opening that fails returns at once, a later call goes through the clean-up.
StepFails(w) ==
  /\ faults < MaxFaults
  /\ faults' = faults + 1
  /\ \/ ctl[w].pc = "open" /\ Return(w, "failed")
     \/ ctl[w].pc \in {"fill", "sync", "rename", "syncdir"} /\ Goto(w, "remove")
  /\ UNCHANGED <<disk, pid, sequence, turn, acked, crashes>>

\* remove_file, whose own result is ignored; after the rename there is
\* nothing left under the temporary name.
Remove(w) ==
  /\ ctl[w].pc = "remove"
  /\ temps' = [temps EXCEPT ![ctl[w].temp] = Absent]
  /\ Return(w, "failed")
  /\ UNCHANGED <<file, entries, pid, sequence, turn, acked, faults, crashes>>

Restart ==
  /\ crashes < MaxCrashes
  /\ crashes' = crashes + 1
  /\ pid' \in Pids
  /\ sequence' = 0
  /\ ctl' = [w \in Writers |-> Idle]
  /\ UNCHANGED <<turn, acked, faults>>

ProcessDies == Restart /\ UNCHANGED disk

\* Data that was never synced may be cut short, and a temporary file may
\* never have reached the directory on disk.
Survives(i) == IF i.synced THEN i ELSE [i EXCEPT !.payload = Partial, !.synced = TRUE]

PowerLoss ==
  /\ Restart
  /\ \E i \in entries : file' = Survives(i)
  /\ entries' = {file'}
  /\ \E kept \in SUBSET {n \in Names : temps[n] # Absent} :
       temps' = [n \in Names |-> IF n \in kept THEN Survives(temps[n]) ELSE Absent]

Step(w) ==
  \/ Open(w) \/ Fill(w) \/ Sync(w) \/ Rename(w) \/ SyncDirectory(w)
  \/ StepFails(w) \/ Remove(w)

Next ==
  \/ \E w \in Writers, p \in Payloads : Write(w, p)
  \/ \E w \in Writers : Step(w)
  \/ ProcessDies \/ PowerLoss

Spec == Init /\ [][Next]_vars

-----------------------------------------------------------------------------
Labels == {"idle", "open", "fill", "sync", "rename", "syncdir", "remove", "ok", "failed"}

\* The type of every variable of the file writer.
TypeOK ==
  /\ file \in Inode
  /\ entries \subseteq Inode
  /\ temps \in [Names -> Inode \cup {Absent}]
  /\ pid \in Pids
  /\ sequence \in 0..MaxSequence
  /\ ctl \in [Writers -> [pc : Labels, payload : Payloads \cup {Absent},
                          temp : Names \cup {Absent}, stamp : Nat]]
  /\ turn \in Nat /\ acked \in Nat
  /\ faults \in 0..MaxFaults /\ crashes \in 0..MaxCrashes

Owning == {"fill", "sync", "rename"}

\* Two calls never hold the same temporary file, and the file a call is
\* about to rename holds what that call was asked to store, whatever other
\* callers, earlier processes and clean-ups did (atomic_file.rs:30-46).
TempsAreOwned ==
  /\ \A v, w \in Writers :
       ctl[v].pc \in Owning /\ ctl[w].pc \in Owning /\ ctl[v].temp = ctl[w].temp => v = w
  /\ \A w \in Writers :
       ctl[w].pc = "rename" =>
         /\ temps[ctl[w].temp] # Absent
         /\ temps[ctl[w].temp].payload = ctl[w].payload

\* A reader, and a restart after the power went, find a whole value under
\* the path and never one older than the last write that returned Ok
\* (atomic_file.rs:20-24).
AcknowledgedSurvives ==
  \A i \in entries \cup {file} : i.payload # Partial /\ i.synced /\ i.stamp >= acked

-----------------------------------------------------------------------------
(* The promise: between its rename and its return a call is committed.  A  *)
(* failing call counts as over where it fails.                             *)
Stage(c) ==
  CASE c.pc \in {"open", "fill", "sync", "rename"} ->
         [stage |-> "called", payload |-> c.payload, stamp |-> 0]
    [] c.pc = "syncdir" ->
         [stage |-> "committed", payload |-> c.payload, stamp |-> c.stamp]
    [] OTHER -> [stage |-> "none", payload |-> Absent, stamp |-> 0]

Contents(i) == [payload |-> i.payload, stamp |-> i.stamp]

Value == Contents(file)
Stable == {Contents(i) : i \in entries}
Calls == [w \in Writers |-> Stage(ctl[w])]

Promise == INSTANCE DurableFile WITH
  value <- Value, stable <- Stable, calls <- Calls

\* Replacing the file behaves as one indivisible, durable replacement.
KeepsPromise == Promise!Spec
=============================================================================
