-------------------------- MODULE MixerStateRuntime --------------------------
(* src/src/state.rs, lines 100 to 246: the user's mixer, kept in memory and  *)
(* written to disk behind the faders.  Any handler updates it under a mutex  *)
(* and announces the change on a watch channel after letting go of the       *)
(* mutex; one writer task wakes on the channel, lets the faders settle,      *)
(* takes a snapshot and saves it, and does not try again when that fails.    *)
(* The file is AtomicFile with that task as its only writer.                 *)
EXTENDS Naturals

CONSTANTS
  Handlers,     \* tasks that move faders
  Buses,        \* MUSIC, MASTER, ALERT
  Percents,     \* fader positions
  Unset,        \* None of an Option
  MaxUpdates,   \* bound: updates over all handlers, per process
  Pids, MaxSequence, MaxFaults, MaxCrashes, Absent, Partial

VARIABLES
  mixer,        \* the MixerState behind the mutex
  notify,       \* handlers that changed it and have yet to say so
  changes,      \* the watch channel: sends so far
  seen,         \* the send the writer has seen
  writer,       \* what the writer task is doing
  updates,      \* updates so far
  held,         \* ghost: mixers held since the last acknowledged snapshot
  heldSince,    \* ghost: mixers held since the latest snapshot
  file, entries, temps, pid, sequence, ctl, turn, acked, faults, crashes

diskVars == <<file, entries, temps, pid, sequence, ctl, turn, acked, faults, crashes>>
vars == <<mixer, notify, changes, seen, writer, updates, held, heldSince, diskVars>>

Optional(S) == S \cup {Unset}
MixerState ==
  [Buses -> [percent : Optional(Percents), muted : Optional(BOOLEAN)]]
Default == [b \in Buses |-> [percent |-> Unset, muted |-> Unset]]

Task == "writer"
Disk == INSTANCE AtomicFile WITH Writers <- {Task}, Payloads <- MixerState

ASSUME MixerAssumption ==
  MaxUpdates \in Nat /\ Disk!AtomicFileAssumption /\ Disk!AbsentAssumption

\* What update stores is in range, so sanitize finds nothing to drop.
Load(inode) == IF inode.payload = Absent THEN Default ELSE inode.payload

Init ==
  /\ Disk!Init
  /\ mixer = Load(file)
  /\ notify = {}
  /\ changes = 0 /\ seen = 0
  /\ writer = "wait"
  /\ updates = 0
  /\ held = {mixer} /\ heldSince = {mixer}

\* update: the mutation under the mutex.  Only a change is announced, and
\* after the mutex is free.
Update(h, new) ==
  /\ h \notin notify
  /\ updates < MaxUpdates
  /\ updates' = updates + 1
  /\ mixer' = new
  /\ notify' = IF new # mixer THEN notify \cup {h} ELSE notify
  /\ held' = held \cup {new} /\ heldSince' = heldSince \cup {new}
  /\ UNCHANGED <<changes, seen, writer, diskVars>>

SetPercent(h, b) == \E p \in Percents : Update(h, [mixer EXCEPT ![b].percent = p])
SetMuted(h, b) == \E m \in BOOLEAN : Update(h, [mixer EXCEPT ![b].muted = m])

Notify(h) ==
  /\ h \in notify
  /\ notify' = notify \ {h}
  /\ changes' = changes + 1
  /\ UNCHANGED <<mixer, seen, writer, updates, held, heldSince, diskVars>>

\* changed() marks what it reports as seen.
Wake ==
  /\ writer = "wait"
  /\ changes # seen
  /\ seen' = changes
  /\ writer' = "settle"
  /\ UNCHANGED <<mixer, notify, changes, updates, held, heldSince, diskVars>>

\* Mutant: a change seen while the faders settle restarts the wait for one.
MutantSettle ==
  /\ writer = "settle"
  /\ \/ changes # seen /\ seen' = changes /\ writer' = "wait"
     \/ changes = seen /\ writer' = "snapshot" /\ UNCHANGED seen
  /\ UNCHANGED <<mixer, notify, changes, updates, held, heldSince, diskVars>>

\* After the first pause, and after each 100 ms one, the writer looks again.
Settle ==
  /\ writer = "settle"
  /\ \/ changes # seen /\ seen' = changes /\ UNCHANGED writer
     \/ changes = seen /\ writer' = "snapshot" /\ UNCHANGED seen
  /\ UNCHANGED <<mixer, notify, changes, updates, held, heldSince, diskVars>>

Snapshot ==
  /\ writer = "snapshot"
  /\ Disk!Write(Task, mixer)
  /\ writer' = "saving"
  /\ heldSince' = {mixer}
  /\ UNCHANGED <<mixer, notify, changes, seen, updates, held>>

SaveStep ==
  /\ writer = "saving"
  /\ Disk!Step(Task)
  /\ held' = IF ctl'[Task].pc = "ok" THEN heldSince ELSE held
  /\ UNCHANGED <<mixer, notify, changes, seen, writer, updates, heldSince>>

\* Mutant: what came in during the save is marked as seen after it.
MutantSaved ==
  /\ writer = "saving"
  /\ ctl[Task].pc \in {"ok", "failed"}
  /\ seen' = changes
  /\ writer' = "wait"
  /\ UNCHANGED <<mixer, notify, changes, updates, held, heldSince, diskVars>>

\* An error is logged; nothing brings the save back until the next change.
Saved ==
  /\ writer = "saving"
  /\ ctl[Task].pc \in {"ok", "failed"}
  /\ writer' = "wait"
  /\ UNCHANGED <<mixer, notify, changes, seen, updates, held, heldSince, diskVars>>

Restart ==
  /\ Disk!ProcessDies \/ Disk!PowerLoss
  /\ mixer' = Load(file')
  /\ notify' = {}
  /\ changes' = 0 /\ seen' = 0
  /\ writer' = "wait"
  /\ updates' = 0
  /\ held' = held /\ heldSince' = {mixer'}

Next ==
  \/ \E h \in Handlers, b \in Buses : SetPercent(h, b) \/ SetMuted(h, b)
  \/ \E h \in Handlers : Notify(h)
  \/ Wake \/ Settle \/ Snapshot \/ SaveStep \/ Saved
  \/ Restart

Spec == Init /\ [][Next]_vars

\* Handlers and the writer are runnable tasks, the sleeps end, and a system
\* call returns: with a result, or with an error.
Fairness ==
  /\ \A h \in Handlers : WF_vars(Notify(h))
  /\ WF_vars(Wake) /\ WF_vars(Settle) /\ WF_vars(Snapshot)
  /\ WF_vars(SaveStep) /\ WF_vars(Saved)

FairSpec == Spec /\ Fairness

-----------------------------------------------------------------------------
\* The type of every variable of the mixer state runtime.
TypeOK ==
  /\ Disk!TypeOK
  /\ mixer \in MixerState
  /\ notify \subseteq Handlers
  /\ changes \in Nat /\ seen \in Nat
  /\ writer \in {"wait", "settle", "snapshot", "saving"}
  /\ updates \in 0..MaxUpdates
  /\ held \subseteq MixerState /\ heldSince \subseteq MixerState

SaveFailed == ctl[Task].pc = "failed"

\* When the writer waits with nothing left to see and no handler is about
\* to announce a change, the file holds the mixer the user set, unless the
\* last save failed: no update slips between the writer's look at the
\* channel and its snapshot (state.rs:174-186, 216-234).
QuiescentIsSaved ==
  writer = "wait" /\ changes = seen /\ notify = {} /\ ~SaveFailed =>
    Load(file) = mixer

\* A restart brings back a mixer the user really had, no older than the
\* snapshot of the last acknowledged save (state.rs:133-145, 228-233).
RestartIsRecent == [][Restart => mixer' \in held]_vars

\* A change reaches the disk, however busy the faders were, unless saving
\* it fails (state.rs:216-240).
EventuallySaved == Load(file) # mixer ~> (Load(file) = mixer \/ SaveFailed)
=============================================================================
