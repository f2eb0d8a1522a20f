--------------------------- MODULE AlertController ---------------------------
(***************************************************************************)
(* The priority-audio controller of src/alerts.rs: air-raid alerts, the    *)
(* daily minute of silence, recovery from state.json after a restart.      *)
(*                                                                         *)
(* Four parties share the MUSIC sink.  The controller task runs            *)
(* run_forever; the minute of silence is a task of its own that the        *)
(* controller spawns and aborts; the mixer task of src/main.rs puts the    *)
(* user's level back once per new sink topology; HTTP requests move the    *)
(* fader and the settings.  One step of the model is what a task does      *)
(* between two awaits at which another task can matter.                    *)
(*                                                                         *)
(* The mix-policy lock of src/audio.rs is held through every operation on  *)
(* the sink.  Fades are single steps that need it free; playing a file     *)
(* takes two steps, so the lock is held exactly while one is played.       *)
(*                                                                         *)
(* MUSIC's level is a number 0..MaxLevel standing for the fader, 0 for     *)
(* silence.  Mute flags, the mix budget and the ALERT fader are the        *)
(* subject of MixPolicy.  Timestamps, matched_uids and last_error are left *)
(* out of RuntimeState: nothing branches on them.                          *)
(***************************************************************************)
EXTENDS Integers

CONSTANTS
  None,           \* the absent snapshot or request
  MaxLevel,       \* loudest position of the MUSIC fader
  Duck,           \* Duck[l]: the level policy sets for a snapshot of level l
  DefaultLevel,   \* default_restore_volume_percent
  FreshLevel,     \* level of a newly created MUSIC sink
  UserLevel,      \* level saved in the mixer state when the daemon starts
  Confirmations,  \* clear_confirmations
  Settings,       \* the audio settings the API may save
  ColdStart,      \* TRUE: the sinks are new and the mixer task has not run yet
  MaxDay,         \* bound: days of the schedule
  Limit           \* bound: how often each hazard may strike

Level  == 0 .. MaxLevel
Silent == 0
Hazard == {"fault", "crash", "setting", "request", "graph"}

ASSUME ControllerAssumption ==
  /\ MaxLevel \in Nat
  /\ None \notin Level
  /\ Duck \in [Level -> Level]
  /\ {DefaultLevel, FreshLevel, UserLevel} \subseteq Level
  /\ Confirmations \in Nat \ {0}
  /\ Settings # {}
  /\ Settings \subseteq
       [enabled: BOOLEAN, minute: BOOLEAN, talkover: BOOLEAN]
  /\ ColdStart \in BOOLEAN
  /\ MaxDay \in Nat \ {0}
  /\ Limit \in [Hazard -> Nat]

VARIABLES
  st,          \* RuntimeState in memory
  disk,        \* RuntimeState in state.json
  pc,          \* where the controller task stands
  ctl,         \* its locals
  minute,      \* the minute-of-silence task
  music,       \* level of the MUSIC sink
  userLevel,   \* music_percent of the mixer state: what the user last chose
  mixPending,  \* the mixer task has yet to restore the present sinks
  request,     \* a fader request that passed its check and waits for the lock
  cfg,         \* the effective audio settings
  clock,       \* the day, and whether the catch-up window is open
  left,        \* hazards that may still strike
  played,      \* history: dates whose minute of silence was started
  quiet,       \* history: clear results since the last active one
  guessed      \* history: MUSIC was restored with no snapshot to go by

memory  == <<st, disk>>
sink    == <<music, userLevel, mixPending, request>>
env     == <<cfg, clock>>
history == <<played, quiet, guessed>>
vars    == <<memory, pc, ctl, minute, sink, env, left, history>>

Snapshot == Level \cup {None}

RuntimeState ==
  [mode: {"normal", "alert"},
   clear_count: 0 .. Confirmations,
   entry_announced: BOOLEAN,
   clear_announced: BOOLEAN,
   audio_snapshot: Snapshot,
   last_minute_silence_date: 0 .. MaxDay,
   minute_silence_active: BOOLEAN,
   minute_silence_snapshot: Snapshot]

DefaultState ==
  [mode |-> "normal", clear_count |-> 0,
   entry_announced |-> FALSE, clear_announced |-> FALSE,
   audio_snapshot |-> None, last_minute_silence_date |-> 0,
   minute_silence_active |-> FALSE, minute_silence_snapshot |-> None]

IsAlert(s) == s.mode = "alert"

MutantWithoutMinute(s) == [s EXCEPT !.minute_silence_snapshot = None]

WithoutMinute(s) == [s EXCEPT !.minute_silence_active = FALSE,
                              !.minute_silence_snapshot = None]

MutantWithoutClears(s) == s

WithoutClears(s) == [s EXCEPT !.clear_count = 0]

MutantResetState(s) == DefaultState

\* What clear_alert and deactivate_notifications leave of a state.
ResetState(s) ==
  [DefaultState EXCEPT !.last_minute_silence_date = s.last_minute_silence_date]

IdleMinute == [pc |-> "idle", snapshot |-> None, talkover |-> FALSE,
               copy |-> DefaultState]

\* The task exists and is not yet past its final state update.
MinuteRunning == minute.pc \notin {"idle", "save"}

IdleControl ==
  [held |-> None, talkover |-> FALSE, site |-> "begin", copy |-> DefaultState,
   ok |-> "loop", ko |-> "loop", recovering |-> FALSE]

Playing  == pc = "announcing" \/ minute.pc = "playing"
LockFree == ~Playing

-----------------------------------------------------------------------------
(* Building blocks. *)

Spend(h) == left[h] > 0 /\ left' = [left EXCEPT ![h] = @ - 1]

Between(a, b) == {l \in Level : (a <= l /\ l <= b) \/ (b <= l /\ l <= a)}

\* What restore makes of an absent snapshot.
RestoreLevel(snapshot) == IF snapshot = None THEN DefaultLevel ELSE snapshot

MutantDucked == Duck[music]

\* enter_alert and ensure_alert duck the snapshot's level, not the present one.
Ducked == Duck[st.audio_snapshot]

\* A fade reaches its target, or a Pulse call fails on the way.
FadeDone(target)  == LockFree /\ music' = target /\ UNCHANGED left
FadeFails(target) == LockFree /\ Spend("fault") /\ music' \in Between(music, target)

\* Leave the memory in state s and save a clone of it: persist() clones under
\* the state lock and writes after it.
Persist(s, locals, ok, ko) ==
  /\ st' = s
  /\ pc' = "save"
  /\ ctl' = [locals EXCEPT !.copy = s, !.ok = ok, !.ko = ko]
  /\ UNCHANGED disk

Goto(label) == pc' = label /\ UNCHANGED <<memory, ctl>>

\* An error on the way through recover is retried by recover, later ones are
\* logged by the loop.
OnError == IF ctl.recovering THEN "recover" ELSE "loop"

-----------------------------------------------------------------------------
(* The controller task. *)

\* StateStore::save, then the caller's next step.
Save ==
  /\ pc = "save"
  /\ \/ disk' = ctl.copy /\ pc' = ctl.ok /\ UNCHANGED left
     \/ Spend("fault") /\ pc' = ctl.ko /\ UNCHANGED disk
  /\ ctl' = [ctl EXCEPT !.copy = DefaultState]
  /\ UNCHANGED <<st, minute, sink, env, history>>

MutantAbortedMinute == minute

\* The minute's task once it has been aborted and awaited.
AbortedMinute == IdleMinute

\* cancel_minute_silence.  Awaiting the aborted task waits for a save it has
\* begun; a fade it was in stays where it was.
CancelMinute(ok, ko) ==
  /\ minute.pc # "save"
  /\ minute' = AbortedMinute
  /\ music' \in CASE minute.pc = "fade" -> Between(music, Silent)
                  [] minute.pc \in {"restore", "rescue"} ->
                       Between(music, minute.snapshot)
                  [] OTHER -> {music}
  /\ Persist(WithoutMinute(st),
             [ctl EXCEPT !.held = st.minute_silence_snapshot], ok, ko)
  /\ UNCHANGED <<userLevel, mixPending, request, env, left, history>>

\* recover, up to its first save.
Recover ==
  /\ pc = "recover"
  /\ IF ~cfg.enabled THEN Goto("deactivate")
     ELSE IF st.minute_silence_active
     THEN Persist(WithoutMinute(st),
                  [ctl EXCEPT !.held = st.minute_silence_snapshot],
                  "recoverAudio", "recover")
     ELSE Goto(IF IsAlert(st) THEN "recoverAudio" ELSE "loop")
  /\ UNCHANGED <<disk, minute, sink, env, left, history>>

\* recover's audio half: what the alert or the interrupted minute asks for.
RecoverTarget ==
  IF ~IsAlert(st) THEN RestoreLevel(ctl.held)
  ELSE IF st.audio_snapshot = None THEN music
  ELSE IF cfg.talkover THEN st.audio_snapshot ELSE Ducked

RecoverAudio ==
  /\ pc = "recoverAudio"
  /\ \/ FadeDone(RecoverTarget) /\ Goto("loop")
     \/ FadeFails(RecoverTarget) /\ Goto("recover")
  /\ UNCHANGED <<minute, userLevel, mixPending, request, env, history>>

MutantDeactivate ==
  /\ pc = "deactivate"
  /\ pc' = IF IsAlert(st) THEN "deactivateRestore" ELSE "loop"
  /\ ctl' = [ctl EXCEPT !.held = None]
  /\ UNCHANGED <<memory, minute, sink, env, left, history>>

\* deactivate_notifications: the early return, and the branch on the minute.
Deactivate ==
  /\ pc = "deactivate"
  /\ pc' = IF st.minute_silence_active THEN "deactivateCancel"
           ELSE IF IsAlert(st)         THEN "deactivateRestore"
           ELSE "loop"
  /\ ctl' = [ctl EXCEPT !.held = None]
  /\ UNCHANGED <<memory, minute, sink, env, left, history>>

DeactivateCancel ==
  /\ pc = "deactivateCancel"
  /\ CancelMinute("deactivateRestore", OnError)

DeactivateRestore ==
  LET target == RestoreLevel(IF ctl.held # None THEN ctl.held
                                                ELSE st.audio_snapshot)
  IN /\ pc = "deactivateRestore"
     /\ \/ FadeDone(target) /\ Persist(ResetState(st), ctl, "loop", OnError)
        \/ FadeFails(target) /\ Goto(OnError)
     /\ guessed' = (guessed \/ {ctl.held, st.audio_snapshot} = {None})
     /\ UNCHANGED <<minute, userLevel, mixPending, request, env, played, quiet>>

MutantMinuteDue ==
  /\ st.last_minute_silence_date # clock.day
  /\ clock.open

\* minute_due, for an enabled minute.
MinuteDue ==
  /\ ~IsAlert(st)
  /\ st.last_minute_silence_date # clock.day
  /\ clock.open

\* One turn of run_forever, up to the poll.
Loop ==
  /\ pc = "loop"
  /\ pc' = IF ~cfg.enabled THEN "deactivate"
           ELSE IF ~cfg.minute
           THEN IF st.minute_silence_active THEN "stopMinute" ELSE "poll"
           ELSE IF ~MinuteRunning /\ minute.pc # "save" /\ MinuteDue
           THEN "startMinute" ELSE "poll"
  /\ ctl' = IdleControl
  /\ UNCHANGED <<memory, minute, sink, env, left, history>>

\* stop_disabled_minute_silence.
StopMinute == pc = "stopMinute" /\ CancelMinute("stopRestore", "poll")

StopRestore ==
  /\ pc = "stopRestore"
  /\ \/ FadeDone(RestoreLevel(ctl.held))
     \/ FadeFails(RestoreLevel(ctl.held))
  /\ Goto("poll")
  /\ guessed' = (guessed \/ ctl.held = None)
  /\ UNCHANGED <<minute, userLevel, mixPending, request, env, played, quiet>>

\* maybe_start_minute_silence up to persist: the snapshot is read from the
\* sink as it is, without the mix-policy lock.
StartMinute ==
  /\ pc = "startMinute"
  /\ \/ /\ Persist([st EXCEPT !.last_minute_silence_date = clock.day,
                              !.minute_silence_active    = TRUE,
                              !.minute_silence_snapshot  = music],
                   [ctl EXCEPT !.talkover = cfg.talkover], "spawn", "poll")
        /\ UNCHANGED left
     \/ Spend("fault") /\ Goto("poll")
  /\ UNCHANGED <<minute, sink, env, history>>

SpawnMinute ==
  /\ pc = "spawn"
  /\ Goto("poll")
  /\ minute' = [IdleMinute EXCEPT !.pc = "fade",
                                  !.snapshot = st.minute_silence_snapshot,
                                  !.talkover = ctl.talkover]
  /\ played' = played \cup {st.last_minute_silence_date}
  /\ UNCHANGED <<sink, env, left, quiet, guessed>>

\* The next poll is not due yet.
PollNotDue ==
  /\ pc = "poll"
  /\ Goto("loop")
  /\ UNCHANGED <<minute, sink, env, left, history>>

\* run_once: notifications are looked at before the provider is asked, and not
\* again when its answer is there.
PollDisabled ==
  /\ pc = "poll"
  /\ ~cfg.enabled
  /\ Goto("deactivate")
  /\ UNCHANGED <<minute, sink, env, left, history>>

PollAsks ==
  /\ pc = "poll"
  /\ cfg.enabled
  /\ Goto("fetch")
  /\ UNCHANGED <<minute, sink, env, left, history>>

\* process for the three answers of the provider: an active alert, none, no answer.
PollActive ==
  /\ pc = "fetch"
  /\ st' = WithoutClears(st)
  /\ quiet' = 0
  /\ pc' = IF IsAlert(st) THEN "continue"
           ELSE IF st.minute_silence_active THEN "preempt" ELSE "begin"
  /\ ctl' = [ctl EXCEPT !.held = None]
  /\ UNCHANGED <<disk, minute, sink, env, left, played, guessed>>

\* clear_count is only compared with clear_confirmations and is capped there.
PollClear ==
  LET seen == IF st.clear_count < Confirmations THEN st.clear_count + 1
                                                ELSE Confirmations
  IN /\ pc = "fetch"
     /\ quiet' = IF quiet < Confirmations THEN quiet + 1 ELSE quiet
     /\ IF IsAlert(st)
        THEN Persist([st EXCEPT !.clear_count = seen], ctl,
                     IF seen >= Confirmations THEN "clear" ELSE "loop", "loop")
        ELSE Persist(WithoutClears(st), ctl, "loop", "loop")
     /\ UNCHANGED <<minute, sink, env, left, played, guessed>>

PollError ==
  /\ pc = "fetch"
  /\ Persist(st, ctl, "hold", "loop")
  /\ UNCHANGED <<minute, sink, env, left, history>>

\* After a failed fetch an alert that ducks throughout is ducked again.
HoldAlert ==
  /\ pc = "hold"
  /\ IF IsAlert(st) /\ ~st.minute_silence_active /\ ~cfg.talkover
        /\ st.audio_snapshot # None
     THEN FadeDone(Ducked) \/ FadeFails(Ducked)
     ELSE UNCHANGED <<music, left>>
  /\ Goto("loop")
  /\ UNCHANGED <<minute, userLevel, mixPending, request, env, history>>

\* An alert cancels a running minute and inherits its snapshot.
Preempt == pc = "preempt" /\ CancelMinute("begin", "loop")

MutantAlertSnapshot == music

\* An inherited snapshot comes before the sink's present level.
AlertSnapshot == IF ctl.held # None THEN ctl.held ELSE music

BeginAlert ==
  /\ pc = "begin"
  /\ \/ /\ Persist([st EXCEPT !.mode = "alert", !.clear_count = 0,
                              !.entry_announced = FALSE,
                              !.clear_announced = FALSE,
                              !.audio_snapshot = AlertSnapshot],
                   ctl, "enter", "loop")
        /\ UNCHANGED left
     \/ ctl.held = None /\ Spend("fault") /\ Goto("loop")
  /\ UNCHANGED <<minute, sink, env, history>>

EnterAlert ==
  /\ pc = "enter"
  /\ UNCHANGED memory
  /\ \/ /\ IF cfg.talkover THEN UNCHANGED <<music, left>>
                           ELSE FadeDone(Ducked)
        /\ pc' = "announce"
        /\ ctl' = [ctl EXCEPT !.talkover = cfg.talkover, !.site = "begin"]
     \/ /\ ~cfg.talkover
        /\ FadeFails(Ducked)
        /\ pc' = "loop"
        /\ UNCHANGED ctl
  /\ UNCHANGED <<minute, userLevel, mixPending, request, env, history>>

\* continue_alert.  The announcement repeats when its interval is over, which
\* may be at any poll; it is made up for when the first one failed.
ContinueAlert ==
  /\ pc = "continue"
  /\ UNCHANGED memory
  /\ \/ /\ IF ~st.minute_silence_active /\ ~cfg.talkover /\ st.audio_snapshot # None
           THEN FadeDone(Ducked)
           ELSE UNCHANGED <<music, left>>
        /\ \/ ~st.minute_silence_active /\ st.audio_snapshot # None /\ pc' = "announce"
           \/ (st.minute_silence_active \/ st.entry_announced) /\ pc' = "settle"
        /\ ctl' = [ctl EXCEPT !.talkover = cfg.talkover, !.site = "continue"]
     \/ /\ ~st.minute_silence_active /\ ~cfg.talkover /\ st.audio_snapshot # None
        /\ FadeFails(Ducked)
        /\ pc' = "loop"
        /\ UNCHANGED ctl
  /\ UNCHANGED <<minute, userLevel, mixPending, request, env, history>>

\* process saves once more after continue_alert.
Settle ==
  /\ pc = "settle"
  /\ Persist(st, ctl, "loop", "loop")
  /\ UNCHANGED <<minute, sink, env, left, history>>

\* play_alert_announcement.  Talkover ducks, plays and restores under one hold
\* of the lock; otherwise only the file is played under it.
AnnounceFailed == IF ctl.site = "clear" THEN "clearRestore" ELSE "loop"

AnnounceStart ==
  /\ pc = "announce"
  /\ LockFree
  /\ \/ /\ cfg.enabled
        /\ music' = IF ctl.talkover THEN Ducked ELSE music
        /\ Goto("announcing")
        /\ UNCHANGED left
     \/ /\ ~cfg.enabled
        /\ music' = IF ctl.talkover THEN st.audio_snapshot ELSE music
        /\ Goto(AnnounceFailed)
        /\ UNCHANGED left
     \/ /\ Spend("fault")
        /\ music' \in IF ctl.talkover
                      THEN Between(music, Ducked) ELSE {music}
        /\ Goto(AnnounceFailed)
  /\ UNCHANGED <<minute, userLevel, mixPending, request, env, history>>

Announced(s) == IF ctl.site = "clear" THEN [s EXCEPT !.clear_announced = TRUE]
                                      ELSE [s EXCEPT !.entry_announced = TRUE]

\* The player ends well, or fails, or is cancelled by a request that switched
\* notifications off; a failing restore after talkover is an error as well.
AnnounceEnd ==
  /\ pc = "announcing"
  /\ \/ /\ music' = IF ctl.talkover THEN st.audio_snapshot ELSE music
        /\ Persist(Announced(st), ctl,
                   CASE ctl.site = "begin"    -> "loop"
                     [] ctl.site = "continue" -> "settle"
                     [] ctl.site = "clear"    -> "clearRestore",
                   "loop")
        /\ UNCHANGED left
     \/ /\ ~cfg.enabled
        /\ music' = IF ctl.talkover THEN st.audio_snapshot ELSE music
        /\ Goto(AnnounceFailed)
        /\ UNCHANGED left
     \/ /\ Spend("fault")
        /\ music' \in IF ctl.talkover THEN Between(music, st.audio_snapshot)
                                      ELSE {music}
        /\ Goto(AnnounceFailed)
  /\ UNCHANGED <<minute, userLevel, mixPending, request, env, history>>

\* clear_alert.
ClearAlert ==
  /\ pc = "clear"
  /\ IF st.minute_silence_active THEN CancelMinute("clear", "loop")
     ELSE /\ pc' = IF st.clear_announced THEN "clearRestore" ELSE "announce"
          /\ ctl' = [ctl EXCEPT !.talkover = cfg.talkover, !.site = "clear"]
          /\ UNCHANGED <<memory, minute, sink, env, left, history>>

\* The mode returns to normal whether or not the fade succeeded.
ClearRestore ==
  /\ pc = "clearRestore"
  /\ FadeDone(RestoreLevel(st.audio_snapshot))
       \/ FadeFails(RestoreLevel(st.audio_snapshot))
  /\ Persist(ResetState(st), ctl, "loop", "loop")
  /\ UNCHANGED <<minute, userLevel, mixPending, request, env, history>>

Controller ==
  \/ Save \/ Recover \/ RecoverAudio
  \/ Deactivate \/ DeactivateCancel \/ DeactivateRestore
  \/ Loop \/ StopMinute \/ StopRestore \/ StartMinute \/ SpawnMinute
  \/ PollNotDue \/ PollDisabled \/ PollAsks \/ PollActive \/ PollClear \/ PollError
  \/ HoldAlert \/ Preempt \/ BeginAlert \/ EnterAlert \/ ContinueAlert \/ Settle
  \/ AnnounceStart \/ AnnounceEnd \/ ClearAlert \/ ClearRestore

-----------------------------------------------------------------------------
(* The minute-of-silence task. *)

MinuteGoto(label) == minute' = [minute EXCEPT !.pc = label]

MinuteFade ==
  /\ minute.pc = "fade"
  /\ \/ FadeDone(Silent)  /\ MinuteGoto("play")
     \/ FadeFails(Silent) /\ MinuteGoto("rescue")
  /\ UNCHANGED <<memory, pc, ctl, userLevel, mixPending, request, env, history>>

MinutePlay ==
  /\ minute.pc = "play"
  /\ LockFree
  /\ \/ cfg.enabled  /\ MinuteGoto("playing") /\ UNCHANGED left
     \/ ~cfg.enabled /\ MinuteGoto("rescue") /\ UNCHANGED left
     \/ Spend("fault") /\ MinuteGoto("rescue")
  /\ UNCHANGED <<memory, pc, ctl, sink, env, history>>

MinutePlayed ==
  /\ minute.pc = "playing"
  /\ \/ MinuteGoto("restore") /\ UNCHANGED left
     \/ ~cfg.enabled /\ MinuteGoto("rescue") /\ UNCHANGED left
     \/ Spend("fault") /\ MinuteGoto("rescue")
  /\ UNCHANGED <<memory, pc, ctl, sink, env, history>>

\* Where the minute leaves MUSIC: to the alert if there is one by now.
MinuteTarget ==
  IF ~IsAlert(st) THEN minute.snapshot
  ELSE IF st.audio_snapshot = None THEN music
  ELSE IF minute.talkover THEN st.audio_snapshot ELSE Ducked

\* The restore after the file, and the one more attempt after any error.
MinuteRestore ==
  /\ minute.pc \in {"restore", "rescue"}
  /\ \/ FadeDone(MinuteTarget) /\ MinuteGoto("finish")
     \/ /\ FadeFails(MinuteTarget)
        /\ MinuteGoto(IF minute.pc = "restore" THEN "rescue" ELSE "finish")
  /\ UNCHANGED <<memory, pc, ctl, userLevel, mixPending, request, env, history>>

\* The last update clones the state under its lock and saves the clone later.
MinuteFinish ==
  /\ minute.pc = "finish"
  /\ st' = WithoutMinute(st)
  /\ minute' = [IdleMinute EXCEPT !.pc = "save", !.copy = WithoutMinute(st)]
  /\ UNCHANGED <<disk, pc, ctl, sink, env, left, history>>

MinuteSave ==
  /\ minute.pc = "save"
  /\ minute' = IdleMinute
  /\ \/ disk' = minute.copy /\ UNCHANGED left
     \/ Spend("fault") /\ UNCHANGED disk
  /\ UNCHANGED <<st, pc, ctl, sink, env, history>>

MinuteTask ==
  \/ MinuteFade \/ MinutePlay \/ MinutePlayed \/ MinuteRestore
  \/ MinuteFinish \/ MinuteSave

-----------------------------------------------------------------------------
(* The mixer task, requests, settings, time, crashes. *)

\* keep_user_mixer_restored: once per new topology, and again when the restore
\* failed after MUSIC had been set.
RestoreUserMixer ==
  /\ mixPending
  /\ LockFree
  /\ music' = userLevel
  /\ \/ mixPending' = FALSE /\ UNCHANGED left
     \/ Spend("fault") /\ UNCHANGED mixPending
  /\ UNCHANGED <<memory, pc, ctl, minute, userLevel, request, env, history>>

\* The bus service rebuilds the sinks, or the sound server restarts.
GraphRestart ==
  /\ Spend("graph")
  /\ music' = FreshLevel
  /\ mixPending' = TRUE
  /\ UNCHANGED <<memory, pc, ctl, minute, userLevel, request, env, history>>

\* POST /volume: the check that controls are available ...
ControlsAvailable ==
  ~(st.minute_silence_active \/ (IsAlert(st) /\ ~cfg.talkover))

RequestLevel(l) ==
  /\ ControlsAvailable
  /\ request = None
  /\ Spend("request")
  /\ request' = l
  /\ UNCHANGED <<memory, pc, ctl, minute, music, userLevel, mixPending, env, history>>

\* ... and, when the mix-policy lock is free, the fader and the mixer state.
ApplyLevel ==
  /\ request # None
  /\ LockFree
  /\ music' = request
  /\ userLevel' = request
  /\ request' = None
  /\ UNCHANGED <<memory, pc, ctl, minute, mixPending, env, left, history>>

\* PUT /settings/audio.
SaveSettings(new) ==
  /\ new # cfg
  /\ Spend("setting")
  /\ cfg' = new
  /\ UNCHANGED <<memory, pc, ctl, minute, sink, clock, history>>

\* The catch-up window opens; it closes and the next day begins.
Tick ==
  /\ \/ ~clock.open /\ clock' = [clock EXCEPT !.open = TRUE]
     \/ /\ clock.open
        /\ clock.day < MaxDay
        /\ clock' = [day |-> clock.day + 1, open |-> FALSE]
  /\ UNCHANGED <<memory, pc, ctl, minute, sink, cfg, left, history>>

StartControl == [IdleControl EXCEPT !.recovering = TRUE]

\* The daemon dies and the service manager starts it again.  The sinks live on
\* in the sound server; the new mixer task takes them for a new topology.
Crash ==
  /\ Spend("crash")
  /\ st' = disk
  /\ pc' = "recover"
  /\ ctl' = StartControl
  /\ minute' = IdleMinute
  /\ mixPending' = TRUE
  /\ request' = None
  /\ UNCHANGED <<disk, music, userLevel, env, history>>

Environment ==
  \/ RestoreUserMixer \/ GraphRestart \/ ApplyLevel \/ Tick \/ Crash
  \/ \E l \in Level : RequestLevel(l)
  \/ \E new \in Settings : SaveSettings(new)

Init ==
  /\ st = DefaultState
  /\ disk = DefaultState
  /\ pc = "recover"
  /\ ctl = StartControl
  /\ minute = IdleMinute
  /\ music = IF ColdStart THEN FreshLevel ELSE UserLevel
  /\ userLevel = UserLevel
  /\ mixPending = ColdStart
  /\ request = None
  /\ cfg \in Settings
  /\ clock = [day |-> 1, open |-> FALSE]
  /\ left = Limit
  /\ played = {}
  /\ quiet = Confirmations
  /\ guessed = FALSE

Next == Controller \/ MinuteTask \/ Environment

\* Each task is scheduled while it can run: the state and mix-policy locks are
\* fair queues, the player is bounded by a timeout, Pulse calls by theirs.
Fairness ==
  /\ WF_vars(Controller)
  /\ WF_vars(MinuteTask)
  /\ WF_vars(RestoreUserMixer)
  /\ WF_vars(ApplyLevel)

Spec     == Init /\ [][Next]_vars
FairSpec == Spec /\ Fairness

-----------------------------------------------------------------------------
(* Properties. *)

Labels ==
  {"save", "recover", "recoverAudio", "deactivate", "deactivateCancel",
   "deactivateRestore", "loop", "stopMinute", "stopRestore", "startMinute",
   "spawn", "poll", "fetch", "hold", "preempt", "begin", "enter", "continue", "settle",
   "announce", "announcing", "clear", "clearRestore"}

ControlState ==
  [held: Snapshot, talkover: BOOLEAN, site: {"begin", "continue", "clear"},
   copy: RuntimeState, ok: Labels, ko: Labels, recovering: BOOLEAN]

MinuteState ==
  [pc: {"idle", "fade", "play", "playing", "restore", "rescue", "finish", "save"},
   snapshot: Snapshot, talkover: BOOLEAN, copy: RuntimeState]

\* The variables keep the types of the code's values.
TypeOK ==
  /\ st \in RuntimeState
  /\ disk \in RuntimeState
  /\ pc \in Labels
  /\ ctl \in ControlState
  /\ minute \in MinuteState
  /\ music \in Level
  /\ userLevel \in Level
  /\ mixPending \in BOOLEAN
  /\ request \in Snapshot
  /\ cfg \in Settings
  /\ clock \in [day: 1 .. MaxDay, open: BOOLEAN]
  /\ left \in [Hazard -> Nat]
  /\ played \subseteq 0 .. MaxDay
  /\ quiet \in 0 .. Confirmations
  /\ guessed \in BOOLEAN

\* Alerts have strictly higher priority than the minute of silence (the comment
\* in minute_due): no alert is in force while a minute is marked active or its
\* task still acts on MUSIC, in whatever order polls, the schedule, aborts,
\* settings and restarts come.
AlertExcludesMinute ==
  /\ IsAlert(st) => ~st.minute_silence_active /\ ~MinuteRunning
  /\ MinuteRunning => st.minute_silence_active

\* A state that recover can work from.
Sound(s) ==
  /\ IsAlert(s) => s.audio_snapshot # None /\ ~s.minute_silence_active
  /\ s.minute_silence_active => s.minute_silence_snapshot # None

\* Whatever is on disk when the daemon dies can be recovered from: an alert has
\* its snapshot, an active minute its own, and never both at once.
Recoverable == Sound(st) /\ Sound(disk)

\* The minute of silence starts at most once for a date, across restarts: the
\* date is on disk before the task is spawned and no later save loses it.
OneMinuteADay ==
  [][pc = "spawn" /\ MinuteRunning' =>
       st.last_minute_silence_date \notin played]_vars

\* The daemon is the one that found the sinks with the user's level: a new one
\* restores the mixer in a task that takes no heed of alerts and minutes.
Uninterrupted == left["crash"] = Limit["crash"]

\* An alert is lifted by the provider only after clear_confirmations clear
\* results without an active one among them, whatever fails on the way.
ClearIsConfirmed ==
  [][Uninterrupted /\ pc = "clearRestore" /\ ~IsAlert(st)' => quiet >= Confirmations]_vars

\* The modes by which PriorityModes goes: of a state, of those about to be saved,
\* and whether the controller is on its way out of priority audio.
ModeOf(s) == IF IsAlert(s) THEN "alert"
           ELSE IF s.minute_silence_active THEN "minute" ELSE "normal"

ModesToSave ==
  {ModeOf(s) : s \in (IF pc = "save" THEN {ctl.copy} ELSE {})
                   \cup (IF minute.pc = "save" THEN {minute.copy} ELSE {})}

\* The step the controller takes next, looking through a save that succeeds.
Upcoming == IF pc = "save" THEN ctl.ok ELSE pc

Leaving == Upcoming \in {"deactivate", "deactivateCancel", "deactivateRestore"}

\* The provider's answer is awaited.
Asked == pc = "fetch"

Modes == INSTANCE PriorityModes WITH
  Days      <- 0 .. MaxDay,
  mode      <- ModeOf(st),
  file      <- ModeOf(disk),
  copies    <- ModesToSave,
  enabled   <- cfg.enabled,
  asked     <- Asked,
  leaving   <- Leaving,
  restarted <- ~Uninterrupted

\* The controller implements PriorityModes: an alert begins upon an active
\* answer and ends by confirmed clear results or because notifications were
\* found off, a minute begins in normal mode and once for a date, and a restart
\* begins in a mode that was being saved, wherever tasks are aborted, saves fail
\* and the daemon dies.
KeepsModes == Modes!Spec

\* Nor has anything else moved MUSIC or replaced it: the model's other hands.
Undisturbed ==
  /\ Uninterrupted /\ ~ColdStart
  /\ left["request"] = Limit["request"] /\ left["graph"] = Limit["graph"]

\* "Alert playback finishes normal MUSIC ducking before ALERT becomes audible"
\* (docs/verification.md): the announcement of an alert, first or repeated, is
\* heard over MUSIC at the ducked level of the snapshot, whichever mode the
\* settings ask for, however they change and whatever failed before.  Under
\* talkover, which ducks and plays in one hold of the lock, this goes for the
\* announcement of the end as well, and requests, restarts and the mixer task
\* cannot break it: only new sinks can.
AnnouncedDucked ==
  /\ pc = "announcing"
  /\ \/ Undisturbed /\ ctl.site # "clear"
     \/ left["graph"] = Limit["graph"] /\ ctl.talkover
  => music = Duck[st.audio_snapshot]

\* The minute's file plays over silent MUSIC, whatever failed before.
MinuteIsSilent == Undisturbed /\ minute.pc = "playing" => music = Silent

\* Priority audio leaves no trace: whenever the daemon is back in normal mode
\* with nothing in progress, MUSIC stands where the user put it, as long as
\* nothing has failed, and no cancelled minute came to its end in the moment
\* between the look at its mark and the look at its snapshot (alerts.rs:139-143
\* and 107-116): restore(None) then takes the configured default.
AtRest ==
  /\ ~IsAlert(st) /\ ~st.minute_silence_active
  /\ ~MinuteRunning
  /\ pc \in {"loop", "poll", "fetch"}
  /\ ~mixPending /\ request = None

UserLevelKept ==
  Undisturbed /\ left["fault"] = Limit["fault"] /\ ~guessed /\ AtRest => music = userLevel

\* Once notifications stay off, every priority mode comes to an end for good.
DisablingEndsPriority ==
  <>[](~cfg.enabled) =>
     <>[](~IsAlert(st) /\ ~st.minute_silence_active /\ ~MinuteRunning)

\* A minute of silence that is marked active does not stay so, crashes and
\* changes of the settings included, unless an operation fails.
MinuteEnds ==
  st.minute_silence_active ~>
    ~st.minute_silence_active \/ left["fault"] < Limit["fault"]
=============================================================================
