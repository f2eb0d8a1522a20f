--------------------------- MODULE PriorityModes ---------------------------
(* What the priority-audio controller promises about its modes, however its *)
(* tasks, aborts, saves and restarts interleave: when an alert or a minute  *)
(* of silence may begin and what may end it.  AlertController, the          *)
(* controller of src/src/alerts.rs, implements this.                        *)
EXTENDS Naturals

CONSTANTS Confirmations,  \* clear results in a row that end an alert
          Days            \* the dates of minutes of silence

VARIABLES
  mode,       \* normal, alert, or minute
  file,       \* the mode a restart begins in
  copies,     \* modes that saves under way are to store
  quiet,      \* clear results since the last active one
  enabled,    \* notifications are on
  asked,      \* an answer is awaited that was asked for while they were on
  leaving,    \* they were found off, and priority audio is being left
  played,     \* dates whose minute was started
  restarted   \* the daemon has been restarted

vars == <<mode, file, copies, quiet, enabled, asked, leaving, played, restarted>>

Init ==
  /\ mode = "normal" /\ file = "normal" /\ copies = {}
  /\ quiet = Confirmations
  /\ enabled \in BOOLEAN
  /\ asked = FALSE /\ leaving = FALSE
  /\ played = {}
  /\ restarted = FALSE

\* A step may leave a copy of the mode it ends in to be saved.
Copied == copies' \subseteq copies \cup {mode'}

\* The provider is asked while notifications are on; its answer may come later.
Ask ==
  /\ enabled /\ ~leaving
  /\ asked' = TRUE
  /\ UNCHANGED <<mode, file, copies, quiet, enabled, leaving, played, restarted>>

\* An active answer, a clear one, or none.
Answer ==
  /\ asked /\ asked' = FALSE
  /\ quiet' \in {0, IF quiet < Confirmations THEN quiet + 1 ELSE quiet, quiet}
  /\ Copied
  /\ UNCHANGED <<mode, file, enabled, leaving, played, restarted>>

\* An alert begins upon an active answer, when no minute is in force.
Alert ==
  /\ mode = "normal" /\ quiet = 0 /\ ~leaving
  /\ mode' = "alert" /\ Copied
  /\ UNCHANGED <<file, quiet, enabled, asked, leaving, played, restarted>>

\* It ends after the confirmations; a restart forgets how many there were.
Clear ==
  /\ mode = "alert" /\ ~leaving
  /\ quiet >= Confirmations \/ restarted
  /\ mode' = "normal" /\ Copied
  /\ UNCHANGED <<file, quiet, enabled, asked, leaving, played, restarted>>

\* A minute is marked in normal mode only, and started once for a date.
Minute ==
  /\ mode = "normal" /\ ~leaving
  /\ mode' = "minute" /\ Copied
  /\ UNCHANGED <<file, quiet, enabled, asked, leaving, played, restarted>>

Start(d) ==
  /\ mode = "minute" /\ ~leaving /\ d \notin played
  /\ played' = played \cup {d}
  /\ UNCHANGED <<mode, file, copies, quiet, enabled, asked, leaving, restarted>>

\* It ends by itself, or is cancelled.
Over ==
  /\ mode = "minute"
  /\ mode' = "normal" /\ Copied
  /\ UNCHANGED <<file, quiet, enabled, asked, leaving, played, restarted>>

\* Notifications are found off: any mode may be left for that, or the attempt
\* given up.
FoundOff ==
  /\ ~enabled
  /\ leaving' = TRUE
  /\ UNCHANGED <<mode, file, copies, quiet, enabled, asked, played, restarted>>

Leave ==
  /\ leaving /\ ~leaving'
  /\ mode' \in {mode, "normal"} /\ Copied
  /\ UNCHANGED <<file, quiet, enabled, asked, played, restarted>>

\* A copy of the state is taken to be saved, then stored, or not.
Copy ==
  /\ Copied
  /\ UNCHANGED <<mode, file, quiet, enabled, asked, leaving, played, restarted>>

Save ==
  /\ file' \in copies \cup {file} /\ copies' \subseteq copies
  /\ leaving' \in {leaving, FALSE}
  /\ UNCHANGED <<mode, quiet, enabled, asked, played, restarted>>

Switch ==
  /\ enabled' = ~enabled
  /\ UNCHANGED <<mode, file, copies, quiet, asked, leaving, played, restarted>>

Restart ==
  /\ mode' = file /\ copies' = {} /\ asked' = FALSE
  /\ leaving' = FALSE /\ restarted' = TRUE
  /\ UNCHANGED <<file, quiet, enabled, played>>

Next ==
  \/ Ask \/ Answer \/ Alert \/ Clear \/ Minute \/ Over \/ FoundOff \/ Leave
  \/ Copy \/ Save \/ Switch \/ Restart
  \/ \E d \in Days : Start(d)

Spec == Init /\ [][Next]_vars
=============================================================================
