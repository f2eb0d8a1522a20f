------------------------ MODULE AlertControllerProofs ------------------------
(* Safety of AlertController for every value of its constants. *)
EXTENDS AlertController, TLAPS

AlertLabels == {"enter", "continue", "announce", "announcing", "clear", "clearRestore"}

RecoverLabels == {"recover", "recoverAudio"}

\* What must hold of the state and of the minute's task before a step.  The
\* controller is the only task that changes the mode or marks a minute active.
Ready(label, s, m) ==
  /\ label \in AlertLabels => IsAlert(s)
  /\ label \in {"preempt", "begin", "startMinute"} => ~IsAlert(s)
  /\ label \in {"begin", "deactivateRestore"} => ~s.minute_silence_active
  /\ label = "startMinute" => m.pc = "idle"
  /\ label = "spawn" => s.minute_silence_active /\ m.pc = "idle"

ControlInv ==
  /\ pc = "save" => ctl.ok \notin {"save", "fetch"} /\ ctl.ko \in {"loop", "poll", "recover"}
  /\ Ready(Upcoming, st, minute)
  /\ ctl.recovering => minute.pc = "idle" /\ Upcoming \notin {"startMinute", "spawn"}
  /\ (pc \in RecoverLabels \/ (pc = "save" /\ {ctl.ok, ctl.ko} \cap RecoverLabels # {}))
       => ctl.recovering

\* Saves under way write states that recover can work from; a task past its
\* first step has a level to return to.
TaskInv ==
  /\ Sound(ctl.copy)
  /\ Sound(minute.copy)
  /\ MinuteRunning => minute.snapshot # None

IInv == TypeOK /\ AlertExcludesMinute /\ Recoverable /\ ControlInv /\ TaskInv

USE ControllerAssumption DEF ControllerAssumption

LEMMA RuntimeStates ==
  /\ DefaultState \in RuntimeState /\ Sound(DefaultState)
  /\ \A s \in RuntimeState :
       /\ WithoutMinute(s) \in RuntimeState
       /\ WithoutClears(s) \in RuntimeState
       /\ ResetState(s) \in RuntimeState
       /\ Sound(s) => Sound(WithoutMinute(s))
       /\ Sound(s) => Sound(WithoutClears(s))
       /\ Sound(ResetState(s))
       /\ ~WithoutMinute(s).minute_silence_active
       /\ WithoutMinute(s).mode = s.mode
       /\ WithoutClears(s).mode = s.mode
       /\ WithoutClears(s).minute_silence_active = s.minute_silence_active
       /\ ~IsAlert(ResetState(s)) /\ ~ResetState(s).minute_silence_active
  <1> USE DEF RuntimeState, Sound, IsAlert
  <1>1. DefaultState \in RuntimeState /\ Sound(DefaultState)
    BY DEF DefaultState, Snapshot
  <1>2. ASSUME NEW s \in RuntimeState
        PROVE  /\ WithoutMinute(s) \in RuntimeState
               /\ Sound(s) => Sound(WithoutMinute(s))
               /\ ~WithoutMinute(s).minute_silence_active
               /\ WithoutMinute(s).mode = s.mode
    BY DEF WithoutMinute, Snapshot
  <1>3. ASSUME NEW s \in RuntimeState
        PROVE  /\ WithoutClears(s) \in RuntimeState
               /\ Sound(s) => Sound(WithoutClears(s))
               /\ WithoutClears(s).mode = s.mode
               /\ WithoutClears(s).minute_silence_active = s.minute_silence_active
    BY DEF WithoutClears
  <1>4. ASSUME NEW s \in RuntimeState
        PROVE  /\ ResetState(s) \in RuntimeState
               /\ Sound(ResetState(s))
               /\ ~IsAlert(ResetState(s)) /\ ~ResetState(s).minute_silence_active
    <2>1. ASSUME NEW d \in RuntimeState, NEW day \in 0 .. MaxDay
          PROVE  /\ [d EXCEPT !.last_minute_silence_date = day] \in RuntimeState
                 /\ [d EXCEPT !.last_minute_silence_date = day].mode = d.mode
                 /\ [d EXCEPT !.last_minute_silence_date = day].minute_silence_active
                      = d.minute_silence_active
      OBVIOUS
    <2>2. s.last_minute_silence_date \in 0 .. MaxDay
      OBVIOUS
    <2>3. DefaultState.mode = "normal" /\ ~DefaultState.minute_silence_active
      BY DEF DefaultState
    <2> QED
      BY <1>1, <2>1, <2>2, <2>3 DEF ResetState
  <1> QED
    BY <1>1, <1>2, <1>3, <1>4

LEMMA Levels ==
  /\ \A a, b \in Level : Between(a, b) \subseteq Level
  /\ \A s \in Snapshot : RestoreLevel(s) \in Level
  /\ \A l \in Level : Duck[l] \in Level
  /\ Silent \in Level
  <1>1. \A a, b \in Level : Between(a, b) \subseteq Level
    BY DEF Between
  <1>2. \A s \in Snapshot : RestoreLevel(s) \in Level
    BY DEF Snapshot, RestoreLevel
  <1>3. \A l \in Level : Duck[l] \in Level
    OBVIOUS
  <1>4. Silent \in Level
    BY DEF Silent, Level
  <1> QED BY <1>1, <1>2, <1>3, <1>4

\* What persist() does to the memory and to the controller's locals.
LEMMA PersistFacts ==
  ASSUME NEW s \in RuntimeState, NEW locals \in ControlState,
         NEW ok \in Labels, NEW ko \in Labels,
         Persist(s, locals, ok, ko)
  PROVE  /\ st' = s /\ disk' = disk /\ pc' = "save"
         /\ ctl' \in ControlState
         /\ ctl'.copy = s /\ ctl'.ok = ok /\ ctl'.ko = ko
         /\ ctl'.held = locals.held /\ ctl'.recovering = locals.recovering
         /\ ctl'.talkover = locals.talkover /\ ctl'.site = locals.site
  BY DEF Persist, ControlState

LEMMA SpendFacts ==
  ASSUME left \in [Hazard -> Nat], NEW h \in Hazard, Spend(h)
  PROVE  left' \in [Hazard -> Nat]
  BY DEF Spend

LEMMA FadeFacts ==
  ASSUME left \in [Hazard -> Nat], music \in Level, NEW target \in Level
  PROVE  /\ FadeDone(target)  => music' \in Level /\ left' \in [Hazard -> Nat]
         /\ FadeFails(target) => music' \in Level /\ left' \in [Hazard -> Nat]
  BY Levels, SpendFacts DEF FadeDone, FadeFails, Hazard

-----------------------------------------------------------------------------
(* The shapes the steps have: the controller saves a state, or goes on; the   *)
(* minute's task moves along; something else happens around them.             *)

LEMMA PersistStep ==
  ASSUME IInv,
         NEW s \in RuntimeState, Sound(s),
         NEW locals \in ControlState,
         NEW ok \in Labels \ {"save", "fetch"}, NEW ko \in {"loop", "poll", "recover"},
         Persist(s, locals, ok, ko),
         minute' \in {minute, IdleMinute},
         minute'.pc \notin {"idle", "save"} => ~IsAlert(s) /\ s.minute_silence_active,
         Ready(ok, s, minute'),
         locals.recovering => minute'.pc = "idle" /\ ok \notin {"startMinute", "spawn"},
         {ok, ko} \cap RecoverLabels # {} => locals.recovering,
         music' \in Level, left' \in [Hazard -> Nat],
         quiet' \in 0 .. Confirmations, guessed' \in BOOLEAN,
         UNCHANGED <<userLevel, mixPending, request, env, played>>
  PROVE  IInv'
  <1>1. ko \in Labels
    BY DEF Labels
  <1>2. /\ st' = s /\ disk' = disk /\ pc' = "save"
        /\ ctl' \in ControlState
        /\ ctl'.copy = s /\ ctl'.ok = ok /\ ctl'.ko = ko
        /\ ctl'.recovering = locals.recovering
    BY <1>1, PersistFacts
  <1>3. IdleMinute \in MinuteState /\ IdleMinute.copy = DefaultState /\ IdleMinute.pc = "idle"
    BY RuntimeStates DEF IdleMinute, MinuteState, Snapshot
  <1>4. TypeOK'
    BY <1>2, <1>3 DEF IInv, TypeOK, env, Labels
  <1>5. AlertExcludesMinute' /\ Recoverable'
    BY <1>2 DEF IInv, AlertExcludesMinute, Recoverable, MinuteRunning, Sound
  <1>6. ControlInv'
    BY <1>2 DEF ControlInv, Upcoming, RecoverLabels
  <1>7. TaskInv'
    BY <1>2, <1>3, RuntimeStates DEF IInv, TaskInv, MinuteRunning
  <1> QED BY <1>4, <1>5, <1>6, <1>7 DEF IInv

LEMMA GotoStep ==
  ASSUME IInv,
         NEW label \in Labels \ {"save"}, pc' = label,
         ctl' \in ControlState, ctl'.copy \in {ctl.copy, DefaultState},
         Ready(label, st, minute),
         ctl'.recovering => ctl.recovering /\ label \notin {"startMinute", "spawn"},
         label \in RecoverLabels => ctl'.recovering,
         music' \in Level, left' \in [Hazard -> Nat],
         quiet' \in 0 .. Confirmations, guessed' \in BOOLEAN,
         UNCHANGED <<memory, minute, userLevel, mixPending, request, env, played>>
  PROVE  IInv'
  <1>1. TypeOK'
    BY DEF IInv, TypeOK, env, memory
  <1>2. AlertExcludesMinute' /\ Recoverable'
    BY DEF IInv, AlertExcludesMinute, Recoverable, MinuteRunning, Sound, memory
  <1>3. ControlInv'
    BY DEF IInv, ControlInv, Upcoming, memory
  <1>4. TaskInv'
    BY RuntimeStates DEF IInv, TaskInv, MinuteRunning
  <1> QED BY <1>1, <1>2, <1>3, <1>4 DEF IInv

LEMMA MinuteStep ==
  ASSUME IInv, MinuteRunning, minute' \in MinuteState,
         minute'.pc \notin {"idle", "save"},
         minute'.copy = minute.copy, minute'.snapshot = minute.snapshot,
         music' \in Level, left' \in [Hazard -> Nat],
         UNCHANGED <<memory, pc, ctl, userLevel, mixPending, request, env, history>>
  PROVE  IInv'
  <1>1. TypeOK'
    BY DEF IInv, TypeOK, env, memory, history
  <1>2. AlertExcludesMinute' /\ Recoverable'
    BY DEF IInv, AlertExcludesMinute, Recoverable, MinuteRunning, Sound, memory
  <1>3. ControlInv'
    BY DEF IInv, ControlInv, Upcoming, memory, MinuteRunning, Ready
  <1>4. TaskInv'
    BY DEF IInv, TaskInv, MinuteRunning
  <1> QED BY <1>1, <1>2, <1>3, <1>4 DEF IInv

LEMMA OtherStep ==
  ASSUME IInv, music' \in Level, userLevel' \in Level, mixPending' \in BOOLEAN,
         request' \in Snapshot, cfg' \in Settings,
         clock' \in [day: 1 .. MaxDay, open: BOOLEAN], left' \in [Hazard -> Nat],
         UNCHANGED <<memory, pc, ctl, minute, history>>
  PROVE  IInv'
  BY DEF IInv, TypeOK, AlertExcludesMinute, Recoverable, ControlInv, TaskInv,
         MinuteRunning, Upcoming, memory, history

LEMMA Fields ==
  ASSUME IInv
  PROVE  /\ st \in RuntimeState /\ Sound(st) /\ ctl \in ControlState
         /\ minute \in MinuteState /\ left \in [Hazard -> Nat]
         /\ music \in Level /\ quiet \in 0 .. Confirmations /\ guessed \in BOOLEAN
         /\ IsAlert(st) => st.audio_snapshot \in Level /\ Ducked \in Level
         /\ st.audio_snapshot \in Snapshot
         /\ st.minute_silence_snapshot \in Snapshot
         /\ ctl.held \in Snapshot
         /\ minute.snapshot \in Snapshot
         /\ MinuteRunning => minute.snapshot \in Level
         /\ cfg.enabled \in BOOLEAN /\ cfg.minute \in BOOLEAN /\ cfg.talkover \in BOOLEAN
  <1>1. st \in RuntimeState /\ Sound(st) /\ ctl \in ControlState
    BY DEF IInv, TypeOK, Recoverable
  <1>2. minute \in MinuteState /\ left \in [Hazard -> Nat] /\ music \in Level
        /\ quiet \in 0 .. Confirmations /\ guessed \in BOOLEAN
    BY DEF IInv, TypeOK
  <1>3. st.audio_snapshot \in Snapshot /\ st.minute_silence_snapshot \in Snapshot
    BY <1>1 DEF RuntimeState
  <1>4. IsAlert(st) => st.audio_snapshot \in Level /\ Ducked \in Level
    BY <1>1, <1>3, Levels DEF Sound, Snapshot, Ducked
  <1>5. ctl.held \in Snapshot /\ minute.snapshot \in Snapshot
    BY <1>1, <1>2 DEF ControlState, MinuteState
  <1>6. MinuteRunning => minute.snapshot \in Level
    BY <1>5 DEF IInv, TaskInv, Snapshot
  <1>7. cfg.enabled \in BOOLEAN /\ cfg.minute \in BOOLEAN /\ cfg.talkover \in BOOLEAN
    BY DEF IInv, TypeOK
  <1> QED BY <1>1, <1>2, <1>3, <1>4, <1>5, <1>6, <1>7

LEMMA HeldFacts ==
  ASSUME ctl \in ControlState, NEW h \in Snapshot
  PROVE  /\ [ctl EXCEPT !.held = h] \in ControlState
         /\ [ctl EXCEPT !.held = h].recovering = ctl.recovering
         /\ [ctl EXCEPT !.held = h].copy = ctl.copy
  BY DEF ControlState

\* The save that cancel_minute_silence ends in.
LEMMA CancelStep ==
  ASSUME IInv, NEW ok \in {"deactivateRestore", "stopRestore", "begin", "clear"},
         NEW ko \in {"loop", "poll", "recover"}, CancelMinute(ok, ko),
         ok = "clear" => IsAlert(st), ok = "begin" => ~IsAlert(st),
         ko = "recover" => ctl.recovering
  PROVE  IInv'
  <1> DEFINE s == WithoutMinute(st)
             locals == [ctl EXCEPT !.held = st.minute_silence_snapshot]
  <1>1. Persist(s, locals, ok, ko) /\ minute' = IdleMinute
    BY DEF CancelMinute, AbortedMinute
  <1>2. s \in RuntimeState /\ Sound(s) /\ ~s.minute_silence_active
        /\ (IsAlert(s) <=> IsAlert(st))
    BY Fields, RuntimeStates DEF IsAlert
  <1>3. locals \in ControlState /\ locals.recovering = ctl.recovering
    BY Fields, HeldFacts
  <1>4. music' \in Level
    <2>1. CASE minute.pc = "fade"
      BY <2>1, Fields, Levels DEF CancelMinute
    <2>2. CASE minute.pc \in {"restore", "rescue"}
      BY <2>2, Fields, Levels DEF CancelMinute, MinuteRunning
    <2>3. CASE minute.pc \notin {"fade", "restore", "rescue"}
      BY <2>3, Fields DEF CancelMinute
    <2> QED BY <2>1, <2>2, <2>3
  <1>5. IdleMinute.pc = "idle"
    BY DEF IdleMinute
  <1>6. ok \in Labels \ {"save"} /\ ok \notin {"startMinute", "spawn"}
    BY DEF Labels
  <1>7. Ready(ok, s, minute')
    BY <1>2 DEF Ready, AlertLabels
  <1>8. {ok, ko} \cap RecoverLabels # {} => ctl.recovering
    BY DEF RecoverLabels
  <1>9. left' \in [Hazard -> Nat] /\ quiet' \in 0 .. Confirmations /\ guessed' \in BOOLEAN
        /\ UNCHANGED <<userLevel, mixPending, request, env, played>>
    BY Fields DEF CancelMinute, history
  <1> QED BY <1>1, <1>2, <1>3, <1>4, <1>5, <1>6, <1>7, <1>8, <1>9, PersistStep

-----------------------------------------------------------------------------
(* One lemma for each action. *)

LEMMA SaveStep == IInv /\ Save => IInv'
  <1> SUFFICES ASSUME IInv, Save PROVE IInv'
    OBVIOUS
  <1>1. TypeOK'
    BY RuntimeStates DEF IInv, TypeOK, Save, Spend, ControlState, sink, env, history, Labels
  <1>2. AlertExcludesMinute' /\ Recoverable'
    BY DEF IInv, AlertExcludesMinute, Recoverable, Save, MinuteRunning, TaskInv, Sound, IsAlert
  <1>3. ControlInv' /\ TaskInv'
    BY RuntimeStates DEF IInv, TypeOK, ControlInv, TaskInv, Save, MinuteRunning, ControlState,
       Upcoming, Ready, RecoverLabels, AlertLabels, Labels
  <1> QED BY <1>1, <1>2, <1>3 DEF IInv

LEMMA RecoverStep == IInv /\ Recover => IInv'
  <1> SUFFICES ASSUME IInv, Recover PROVE IInv'
    OBVIOUS
  <1>1. /\ pc = "recover" /\ ctl.recovering
        /\ UNCHANGED <<minute, sink, env, left, history>>
        /\ minute.pc = "idle"
    BY DEF Recover, IInv, ControlInv, RecoverLabels
  <1>2. CASE ~cfg.enabled
    <2>1. Goto("deactivate")
      BY <1>2 DEF Recover
    <2> QED
      BY <1>1, <2>1, Fields, GotoStep DEF Goto, sink, history, Ready, AlertLabels, RecoverLabels, Labels
  <1>3. CASE cfg.enabled /\ st.minute_silence_active
    <2> DEFINE locals == [ctl EXCEPT !.held = st.minute_silence_snapshot]
    <2>1. Persist(WithoutMinute(st), locals, "recoverAudio", "recover")
      BY <1>3 DEF Recover
    <2>2. locals \in ControlState /\ locals.recovering
      BY <1>1, Fields, HeldFacts
    <2>3. WithoutMinute(st) \in RuntimeState /\ Sound(WithoutMinute(st))
      BY Fields, RuntimeStates
    <2>4. Ready("recoverAudio", WithoutMinute(st), minute')
      BY DEF Ready, AlertLabels
    <2> HIDE DEF locals
    <2> QED
      BY <1>1, <2>1, <2>2, <2>3, <2>4, Fields, PersistStep DEF sink, history, Labels
  <1>4. CASE cfg.enabled /\ ~st.minute_silence_active
    <2> DEFINE label == IF IsAlert(st) THEN "recoverAudio" ELSE "loop"
    <2>1. Goto(label)
      BY <1>4 DEF Recover
    <2> QED
      BY <1>1, <2>1, Fields, GotoStep DEF Goto, sink, history, Ready, AlertLabels, RecoverLabels, Labels
  <1> QED BY <1>2, <1>3, <1>4

LEMMA RecoverAudioStep == IInv /\ RecoverAudio => IInv'
  <1> SUFFICES ASSUME IInv, RecoverAudio PROVE IInv'
    OBVIOUS
  <1>1. RecoverTarget \in Level
    BY Fields, Levels DEF RecoverTarget, Snapshot
  <1>2. music' \in Level /\ left' \in [Hazard -> Nat]
    BY <1>1, Fields, FadeFacts DEF RecoverAudio
  <1>3. ctl.recovering
    BY DEF RecoverAudio, IInv, ControlInv, RecoverLabels
  <1>4. PICK label \in {"loop", "recover"} : Goto(label)
    BY DEF RecoverAudio
  <1> QED
    BY <1>2, <1>3, <1>4, Fields, GotoStep
    DEF RecoverAudio, Goto, history, Ready, AlertLabels, Labels

LEMMA DeactivateStep == IInv /\ Deactivate => IInv'
  <1> SUFFICES ASSUME IInv, Deactivate PROVE IInv'
    OBVIOUS
  <1>1. PICK label \in {"deactivateCancel", "deactivateRestore", "loop"} :
          pc' = label /\ (label = "deactivateRestore" => ~st.minute_silence_active)
    BY DEF Deactivate
  <1>2. ctl' \in ControlState /\ ctl'.recovering = ctl.recovering /\ ctl'.copy = ctl.copy
    BY Fields, HeldFacts DEF Deactivate, Snapshot
  <1> QED
    BY <1>1, <1>2, Fields, GotoStep
    DEF Deactivate, history, sink, Ready, AlertLabels, RecoverLabels, Labels

LEMMA OnErrorFacts ==
  ASSUME IInv
  PROVE  /\ OnError \in {"loop", "poll", "recover"}
         /\ OnError = "recover" => ctl.recovering
  BY DEF OnError

LEMMA DeactivateCancelStep == IInv /\ DeactivateCancel => IInv'
  BY OnErrorFacts, CancelStep DEF DeactivateCancel

LEMMA DeactivateRestoreStep == IInv /\ DeactivateRestore => IInv'
  <1> SUFFICES ASSUME IInv, DeactivateRestore PROVE IInv'
    OBVIOUS
  <1> DEFINE target == RestoreLevel(IF ctl.held # None THEN ctl.held
                                                       ELSE st.audio_snapshot)
  <1>1. target \in Level
    BY Fields, Levels
  <1>2. UNCHANGED <<minute, userLevel, mixPending, request, env, played, quiet>>
        /\ guessed' \in BOOLEAN
    BY Fields DEF DeactivateRestore
  <1>3. ~MinuteRunning
    BY DEF DeactivateRestore, IInv, ControlInv, Ready, Upcoming, AlertExcludesMinute
  <1>4. CASE FadeDone(target) /\ Persist(ResetState(st), ctl, "loop", OnError)
    <2>1. ResetState(st) \in RuntimeState /\ Sound(ResetState(st))
      BY Fields, RuntimeStates
    <2>2. music' \in Level /\ left' \in [Hazard -> Nat]
      BY <1>1, <1>4, Fields, FadeFacts
    <2>3. Ready("loop", ResetState(st), minute')
      BY DEF Ready, AlertLabels
    <2>4. ctl.recovering => minute'.pc = "idle"
      BY <1>2 DEF IInv, ControlInv
    <2>5. {"loop", OnError} \cap RecoverLabels # {} => ctl.recovering
      BY OnErrorFacts DEF RecoverLabels
    <2> QED
      BY <1>2, <1>3, <1>4, <2>1, <2>2, <2>3, <2>4, <2>5, Fields, OnErrorFacts, PersistStep
      DEF MinuteRunning, history, Labels
  <1>5. CASE FadeFails(target) /\ Goto(OnError)
    <2>1. music' \in Level /\ left' \in [Hazard -> Nat]
      BY <1>1, <1>5, Fields, FadeFacts
    <2> QED
      BY <1>2, <1>5, <2>1, Fields, OnErrorFacts, GotoStep
      DEF Goto, history, Ready, AlertLabels, RecoverLabels, Labels
  <1> QED BY <1>4, <1>5 DEF DeactivateRestore

LEMMA IdleControlFacts ==
  /\ IdleControl \in ControlState /\ IdleControl.copy = DefaultState
  /\ ~IdleControl.recovering
  /\ StartControl \in ControlState /\ StartControl.copy = DefaultState
  <1>1. IdleControl \in ControlState /\ IdleControl.copy = DefaultState
        /\ ~IdleControl.recovering
    BY RuntimeStates DEF IdleControl, ControlState, Snapshot, Labels
  <1>2. StartControl \in ControlState /\ StartControl.copy = DefaultState
    BY <1>1 DEF StartControl, ControlState
  <1> QED BY <1>1, <1>2

LEMMA LoopStep == IInv /\ Loop => IInv'
  <1> SUFFICES ASSUME IInv, Loop PROVE IInv'
    OBVIOUS
  <1>1. PICK label \in {"deactivate", "stopMinute", "poll", "startMinute"} :
          /\ pc' = label
          /\ label = "startMinute" => ~MinuteRunning /\ minute.pc # "save" /\ ~IsAlert(st)
    BY DEF Loop, MinuteDue
  <1>2. Ready(label, st, minute)
    BY <1>1 DEF Ready, AlertLabels, MinuteRunning
  <1> QED
    BY <1>1, <1>2, Fields, IdleControlFacts, GotoStep
    DEF Loop, sink, history, RecoverLabels, Labels

LEMMA StopMinuteStep == IInv /\ StopMinute => IInv'
  BY CancelStep DEF StopMinute

LEMMA StopRestoreStep == IInv /\ StopRestore => IInv'
  <1> SUFFICES ASSUME IInv, StopRestore PROVE IInv'
    OBVIOUS
  <1>1. music' \in Level /\ left' \in [Hazard -> Nat] /\ guessed' \in BOOLEAN
    BY Fields, Levels, FadeFacts DEF StopRestore
  <1> QED
    BY <1>1, Fields, GotoStep
    DEF StopRestore, Goto, history, Ready, AlertLabels, RecoverLabels, Labels

LEMMA StartMinuteStep == IInv /\ StartMinute => IInv'
  <1> SUFFICES ASSUME IInv, StartMinute PROVE IInv'
    OBVIOUS
  <1> DEFINE s == [st EXCEPT !.last_minute_silence_date = clock.day,
                             !.minute_silence_active    = TRUE,
                             !.minute_silence_snapshot  = music]
             locals == [ctl EXCEPT !.talkover = cfg.talkover]
  <1>1. /\ ~IsAlert(st) /\ minute.pc = "idle" /\ ~ctl.recovering
        /\ UNCHANGED <<minute, sink, env, history>>
    BY DEF StartMinute, IInv, ControlInv, Ready, Upcoming
  <1>2. CASE Persist(s, locals, "spawn", "poll") /\ UNCHANGED left
    <2>1. clock.day \in 0 .. MaxDay
      BY DEF IInv, TypeOK
    <2>2. s \in RuntimeState /\ s.minute_silence_active /\ ~IsAlert(s) /\ Sound(s)
      BY <1>1, <2>1, Fields DEF RuntimeState, Sound, IsAlert, Snapshot
    <2>3. locals \in ControlState /\ locals.recovering = ctl.recovering
      BY Fields DEF ControlState
    <2>4. Ready("spawn", s, minute')
      BY <1>1, <2>2 DEF Ready, AlertLabels
    <2> HIDE DEF s, locals
    <2> QED
      BY <1>1, <1>2, <2>2, <2>3, <2>4, Fields, PersistStep
      DEF sink, history, RecoverLabels, Labels
  <1>3. CASE Spend("fault") /\ Goto("poll")
    BY <1>1, <1>3, Fields, SpendFacts, GotoStep
    DEF Goto, Hazard, sink, history, Ready, AlertLabels, RecoverLabels, Labels
  <1> QED BY <1>2, <1>3 DEF StartMinute

\* The only step that starts the task: the minute has been marked and saved.
LEMMA SpawnMinuteStep == IInv /\ SpawnMinute => IInv'
  <1> SUFFICES ASSUME IInv, SpawnMinute PROVE IInv'
    OBVIOUS
  <1>1. /\ pc' = "poll" /\ UNCHANGED <<memory, ctl, sink, env, left, quiet, guessed>>
        /\ played' = played \cup {st.last_minute_silence_date}
        /\ st.minute_silence_active /\ minute.pc = "idle"
    BY DEF SpawnMinute, Goto, IInv, ControlInv, Ready, Upcoming
  <1>2. /\ minute' \in MinuteState /\ minute'.pc = "fade"
        /\ minute'.snapshot = st.minute_silence_snapshot
        /\ minute'.copy = DefaultState
    BY Fields, RuntimeStates DEF SpawnMinute, IdleMinute, MinuteState, ControlState
  <1>3. ~IsAlert(st) /\ st.minute_silence_snapshot # None
    BY <1>1, Fields DEF Sound
  <1>4. ~ctl.recovering
    BY DEF SpawnMinute, IInv, ControlInv, Upcoming
  <1>5. TypeOK'
    BY <1>1, <1>2, Fields DEF IInv, TypeOK, memory, sink, env, RuntimeState, Labels
  <1>6. AlertExcludesMinute' /\ Recoverable'
    BY <1>1, <1>3 DEF IInv, AlertExcludesMinute, Recoverable, Sound, IsAlert, memory
  <1>7. ControlInv'
    BY <1>1, <1>4 DEF IInv, ControlInv, Ready, Upcoming, AlertLabels, RecoverLabels, memory
  <1>8. TaskInv'
    BY <1>1, <1>2, <1>3, RuntimeStates DEF IInv, TaskInv, memory
  <1> QED BY <1>5, <1>6, <1>7, <1>8 DEF IInv

LEMMA PollNotDueStep == IInv /\ PollNotDue => IInv'
  <1> SUFFICES ASSUME IInv, PollNotDue PROVE IInv'
    OBVIOUS
  <1> QED
    BY Fields, GotoStep
    DEF PollNotDue, Goto, sink, history, Ready, AlertLabels, RecoverLabels, Labels

LEMMA PollDisabledStep == IInv /\ PollDisabled => IInv'
  <1> SUFFICES ASSUME IInv, PollDisabled PROVE IInv'
    OBVIOUS
  <1> QED
    BY Fields, GotoStep
    DEF PollDisabled, Goto, sink, history, Ready, AlertLabels, RecoverLabels, Labels

LEMMA PollAsksStep == IInv /\ PollAsks => IInv'
  <1> SUFFICES ASSUME IInv, PollAsks PROVE IInv'
    OBVIOUS
  <1> QED
    BY Fields, GotoStep
    DEF PollAsks, Goto, sink, history, Ready, AlertLabels, RecoverLabels, Labels

LEMMA PollActiveStep == IInv /\ PollActive => IInv'
  <1> SUFFICES ASSUME IInv, PollActive PROVE IInv'
    OBVIOUS
  <1>1. /\ st' \in RuntimeState /\ Sound(st') /\ (IsAlert(st') <=> IsAlert(st))
        /\ st'.minute_silence_active = st.minute_silence_active
        /\ quiet' = 0
        /\ UNCHANGED <<disk, minute, sink, env, left, played, guessed>>
    BY Fields, RuntimeStates DEF PollActive, IsAlert
  <1>2. /\ ctl' \in ControlState /\ ctl'.copy = ctl.copy
        /\ ctl'.recovering = ctl.recovering
    BY Fields, HeldFacts DEF PollActive, Snapshot
  <1>3. PICK label \in {"continue", "preempt", "begin"} :
          /\ pc' = label
          /\ label = "continue" <=> IsAlert(st)
          /\ label = "begin" => ~st.minute_silence_active
    BY DEF PollActive
  <1>4. TypeOK'
    BY <1>1, <1>2, <1>3 DEF IInv, TypeOK, sink, env, Labels
  <1>5. AlertExcludesMinute' /\ Recoverable'
    BY <1>1 DEF IInv, AlertExcludesMinute, Recoverable, MinuteRunning, Sound
  <1>6. ControlInv'
    BY <1>1, <1>2, <1>3
    DEF IInv, ControlInv, Ready, Upcoming, AlertLabels, RecoverLabels
  <1>7. TaskInv'
    BY <1>1, <1>2 DEF IInv, TaskInv, MinuteRunning
  <1> QED BY <1>4, <1>5, <1>6, <1>7 DEF IInv

LEMMA PollClearStep == IInv /\ PollClear => IInv'
  <1> SUFFICES ASSUME IInv, PollClear PROVE IInv'
    OBVIOUS
  <1> DEFINE seen == IF st.clear_count < Confirmations THEN st.clear_count + 1
                                                       ELSE Confirmations
             counted == [st EXCEPT !.clear_count = seen]
  <1>1. quiet' \in 0 .. Confirmations
    BY Fields DEF PollClear
  <1>2. UNCHANGED <<minute, sink, env, left, played, guessed>>
    BY DEF PollClear
  <1>3. ctl.recovering => minute'.pc = "idle"
    BY <1>2 DEF IInv, ControlInv
  <1>4. MinuteRunning => ~IsAlert(st) /\ st.minute_silence_active
    BY DEF IInv, AlertExcludesMinute
  <1>5. CASE IsAlert(st)
    <2> DEFINE ok == IF seen >= Confirmations THEN "clear" ELSE "loop"
    <2>1. Persist(counted, ctl, ok, "loop")
      BY <1>5 DEF PollClear
    <2>2. seen \in 0 .. Confirmations
      BY Fields DEF RuntimeState
    <2>3. counted \in RuntimeState /\ Sound(counted) /\ IsAlert(counted)
      BY <1>5, <2>2, Fields DEF RuntimeState, Sound, IsAlert
    <2>4. ok \in {"clear", "loop"}
      OBVIOUS
    <2> HIDE DEF counted, ok
    <2>5. Ready(ok, counted, minute')
      BY <2>3, <2>4 DEF Ready, AlertLabels
    <2> QED
      BY <1>1, <1>2, <1>3, <1>4, <1>5, <2>1, <2>3, <2>4, <2>5, Fields, PersistStep
      DEF MinuteRunning, sink, history, RecoverLabels, Labels
  <1>6. CASE ~IsAlert(st)
    <2> DEFINE s == WithoutClears(st)
    <2>1. Persist(s, ctl, "loop", "loop")
      BY <1>6 DEF PollClear
    <2>2. /\ s \in RuntimeState /\ Sound(s) /\ ~IsAlert(s)
          /\ s.minute_silence_active = st.minute_silence_active
      BY <1>6, Fields, RuntimeStates DEF IsAlert
    <2>3. Ready("loop", s, minute')
      BY DEF Ready, AlertLabels
    <2> HIDE DEF s
    <2> QED
      BY <1>1, <1>2, <1>3, <1>4, <2>1, <2>2, <2>3, Fields, PersistStep
      DEF MinuteRunning, sink, history, RecoverLabels, Labels
  <1> QED BY <1>5, <1>6

\* Saves of the state as it is: after a failed poll, and at the end of process.
LEMMA ResaveStep ==
  ASSUME IInv, NEW ok \in {"hold", "loop"}, Persist(st, ctl, ok, "loop"),
         UNCHANGED <<minute, sink, env, left, history>>
  PROVE  IInv'
  <1>1. MinuteRunning => ~IsAlert(st) /\ st.minute_silence_active
    BY DEF IInv, AlertExcludesMinute
  <1>2. ctl.recovering => minute.pc = "idle"
    BY DEF IInv, ControlInv
  <1>3. Ready(ok, st, minute)
    BY DEF Ready, AlertLabels
  <1> QED
    BY <1>1, <1>2, <1>3, Fields, PersistStep
    DEF MinuteRunning, sink, history, RecoverLabels, Labels

LEMMA PollErrorStep == IInv /\ PollError => IInv'
  BY ResaveStep DEF PollError

LEMMA SettleStep == IInv /\ Settle => IInv'
  BY ResaveStep DEF Settle

LEMMA HoldAlertStep == IInv /\ HoldAlert => IInv'
  <1> SUFFICES ASSUME IInv, HoldAlert PROVE IInv'
    OBVIOUS
  <1>1. music' \in Level /\ left' \in [Hazard -> Nat]
    BY Fields, FadeFacts DEF HoldAlert
  <1> QED
    BY <1>1, Fields, GotoStep
    DEF HoldAlert, Goto, history, Ready, AlertLabels, RecoverLabels, Labels

LEMMA PreemptStep == IInv /\ Preempt => IInv'
  <1> SUFFICES ASSUME IInv, Preempt PROVE IInv'
    OBVIOUS
  <1>1. ~IsAlert(st)
    BY DEF Preempt, IInv, ControlInv, Ready, Upcoming
  <1> QED BY <1>1, CancelStep DEF Preempt

LEMMA BeginAlertStep == IInv /\ BeginAlert => IInv'
  <1> SUFFICES ASSUME IInv, BeginAlert PROVE IInv'
    OBVIOUS
  <1> DEFINE s == [st EXCEPT !.mode = "alert", !.clear_count = 0,
                             !.entry_announced = FALSE,
                             !.clear_announced = FALSE,
                             !.audio_snapshot = AlertSnapshot]
  <1>1. /\ ~IsAlert(st) /\ ~st.minute_silence_active /\ ~MinuteRunning
        /\ UNCHANGED <<minute, sink, env, history>>
    BY DEF BeginAlert, IInv, ControlInv, Ready, Upcoming, AlertExcludesMinute
  <1>2. CASE Persist(s, ctl, "enter", "loop") /\ UNCHANGED left
    <2>1. AlertSnapshot \in Level
      BY Fields DEF AlertSnapshot, Snapshot
    <2>2. AlertSnapshot \in Snapshot /\ AlertSnapshot # None
      BY <2>1 DEF Snapshot
    <2>3. s \in RuntimeState
      <3>1. 0 \in 0 .. Confirmations
        OBVIOUS
      <3>2. [st EXCEPT !.mode = "alert", !.clear_count = 0] \in RuntimeState
        BY <3>1, Fields DEF RuntimeState
      <3>3. ASSUME NEW d \in RuntimeState, NEW a \in Snapshot
            PROVE  [d EXCEPT !.entry_announced = FALSE, !.clear_announced = FALSE,
                             !.audio_snapshot = a] \in RuntimeState
        BY DEF RuntimeState
      <3> QED BY <2>2, <3>2, <3>3
    <2>4. s \in RuntimeState /\ IsAlert(s) /\ Sound(s)
      BY <1>1, <2>2, <2>3, Fields DEF RuntimeState, Sound, IsAlert
    <2>5. Ready("enter", s, minute')
      BY <2>4 DEF Ready
    <2>6. ctl.recovering => minute'.pc = "idle"
      BY <1>1 DEF IInv, ControlInv
    <2> HIDE DEF s
    <2> QED
      BY <1>1, <1>2, <2>4, <2>5, <2>6, Fields, PersistStep
      DEF MinuteRunning, sink, history, RecoverLabels, Labels
  <1>3. CASE Spend("fault") /\ Goto("loop")
    BY <1>1, <1>3, Fields, SpendFacts, GotoStep
    DEF Goto, Hazard, sink, history, Ready, AlertLabels, RecoverLabels, Labels
  <1> QED BY <1>2, <1>3 DEF BeginAlert

LEMMA SiteFacts ==
  ASSUME ctl \in ControlState, NEW t \in BOOLEAN,
         NEW site \in {"begin", "continue", "clear"}
  PROVE  /\ [ctl EXCEPT !.talkover = t, !.site = site] \in ControlState
         /\ [ctl EXCEPT !.talkover = t, !.site = site].recovering = ctl.recovering
         /\ [ctl EXCEPT !.talkover = t, !.site = site].copy = ctl.copy
  BY DEF ControlState

LEMMA EnterAlertStep == IInv /\ EnterAlert => IInv'
  <1> SUFFICES ASSUME IInv, EnterAlert PROVE IInv'
    OBVIOUS
  <1>1. IsAlert(st)
    BY DEF EnterAlert, IInv, ControlInv, Ready, Upcoming, AlertLabels
  <1>2. music' \in Level /\ left' \in [Hazard -> Nat]
    BY <1>1, Fields, FadeFacts DEF EnterAlert
  <1>3. ctl' \in ControlState /\ ctl'.recovering = ctl.recovering /\ ctl'.copy = ctl.copy
    BY Fields, SiteFacts DEF EnterAlert
  <1>4. PICK label \in {"announce", "loop"} : pc' = label
    BY DEF EnterAlert
  <1>5. Ready(label, st, minute)
    BY <1>1 DEF Ready
  <1> QED
    BY <1>2, <1>3, <1>4, <1>5, Fields, GotoStep
    DEF EnterAlert, history, RecoverLabels, Labels

LEMMA ContinueAlertStep == IInv /\ ContinueAlert => IInv'
  <1> SUFFICES ASSUME IInv, ContinueAlert PROVE IInv'
    OBVIOUS
  <1>1. IsAlert(st)
    BY DEF ContinueAlert, IInv, ControlInv, Ready, Upcoming, AlertLabels
  <1>2. music' \in Level /\ left' \in [Hazard -> Nat]
    BY <1>1, Fields, FadeFacts DEF ContinueAlert
  <1>3. ctl' \in ControlState /\ ctl'.recovering = ctl.recovering /\ ctl'.copy = ctl.copy
    BY Fields, SiteFacts DEF ContinueAlert
  <1>4. PICK label \in {"announce", "settle", "loop"} : pc' = label
    BY DEF ContinueAlert
  <1>5. Ready(label, st, minute)
    BY <1>1 DEF Ready
  <1> QED
    BY <1>2, <1>3, <1>4, <1>5, Fields, GotoStep
    DEF ContinueAlert, history, RecoverLabels, Labels

LEMMA AnnounceFailedFacts ==
  ASSUME IsAlert(st)
  PROVE  /\ AnnounceFailed \in Labels \ {"save"}
         /\ AnnounceFailed \notin {"startMinute", "spawn"} \cup RecoverLabels
         /\ \A m : Ready(AnnounceFailed, st, m)
  BY DEF AnnounceFailed, Ready, RecoverLabels, Labels

LEMMA AnnounceStartStep == IInv /\ AnnounceStart => IInv'
  <1> SUFFICES ASSUME IInv, AnnounceStart PROVE IInv'
    OBVIOUS
  <1>1. IsAlert(st) /\ st.audio_snapshot \in Level /\ Ducked \in Level
    BY Fields DEF AnnounceStart, IInv, ControlInv, Ready, Upcoming, AlertLabels
  <1>2. music' \in Level
    BY <1>1, Fields, Levels DEF AnnounceStart
  <1>3. left' \in [Hazard -> Nat]
    BY Fields, SpendFacts DEF AnnounceStart, Hazard
  <1>4. CASE Goto("announcing")
    <2>1. Ready("announcing", st, minute)
      BY <1>1 DEF Ready
    <2> QED
      BY <1>2, <1>3, <1>4, <2>1, Fields, GotoStep
      DEF AnnounceStart, Goto, history, RecoverLabels, Labels
  <1>5. CASE Goto(AnnounceFailed)
    BY <1>1, <1>2, <1>3, <1>5, Fields, AnnounceFailedFacts, GotoStep
    DEF AnnounceStart, Goto, history
  <1> QED BY <1>4, <1>5 DEF AnnounceStart

LEMMA AnnounceEndStep == IInv /\ AnnounceEnd => IInv'
  <1> SUFFICES ASSUME IInv, AnnounceEnd PROVE IInv'
    OBVIOUS
  <1>1. IsAlert(st) /\ st.audio_snapshot \in Level /\ Ducked \in Level
    BY Fields DEF AnnounceEnd, IInv, ControlInv, Ready, Upcoming, AlertLabels
  <1>2. music' \in Level
    BY <1>1, Fields, Levels DEF AnnounceEnd
  <1>3. left' \in [Hazard -> Nat]
    BY Fields, SpendFacts DEF AnnounceEnd, Hazard
  <1>4. ~MinuteRunning
    BY <1>1 DEF IInv, AlertExcludesMinute
  <1>5. CASE Goto(AnnounceFailed)
    BY <1>1, <1>2, <1>3, <1>5, Fields, AnnounceFailedFacts, GotoStep
    DEF AnnounceEnd, Goto, history
  <1>6. CASE ~Goto(AnnounceFailed)
    <2> DEFINE s == Announced(st)
    <2>1. PICK ok \in {"loop", "settle", "clearRestore"} : Persist(s, ctl, ok, "loop")
      BY <1>6, Fields DEF AnnounceEnd, ControlState
    <2>2. s \in RuntimeState /\ IsAlert(s) /\ Sound(s)
      <3>1. CASE ctl.site = "clear"
        BY <1>1, <3>1, Fields DEF Announced, RuntimeState, Sound, IsAlert
      <3>2. CASE ctl.site # "clear"
        BY <1>1, <3>2, Fields DEF Announced, RuntimeState, Sound, IsAlert
      <3> QED BY <3>1, <3>2
    <2>3. Ready(ok, s, minute')
      BY <2>2 DEF Ready
    <2>4. ctl.recovering => minute.pc = "idle"
      BY DEF IInv, ControlInv
    <2> HIDE DEF s
    <2> QED
      BY <1>2, <1>3, <1>4, <2>1, <2>2, <2>3, <2>4, Fields, PersistStep
      DEF AnnounceEnd, MinuteRunning, history, RecoverLabels, Labels
  <1> QED BY <1>5, <1>6

LEMMA ClearAlertStep == IInv /\ ClearAlert => IInv'
  <1> SUFFICES ASSUME IInv, ClearAlert PROVE IInv'
    OBVIOUS
  <1>1. IsAlert(st)
    BY DEF ClearAlert, IInv, ControlInv, Ready, Upcoming, AlertLabels
  <1>2. CASE st.minute_silence_active
    BY <1>1, <1>2, CancelStep DEF ClearAlert
  <1>3. CASE ~st.minute_silence_active
    <2>1. PICK label \in {"clearRestore", "announce"} : pc' = label
      BY <1>3 DEF ClearAlert
    <2>2. Ready(label, st, minute)
      BY <1>1, <2>1 DEF Ready
    <2>3. ctl' \in ControlState /\ ctl'.recovering = ctl.recovering /\ ctl'.copy = ctl.copy
      BY <1>3, Fields, SiteFacts DEF ClearAlert
    <2> QED
      BY <1>3, <2>1, <2>2, <2>3, Fields, GotoStep
      DEF ClearAlert, sink, history, RecoverLabels, Labels
  <1> QED BY <1>2, <1>3

LEMMA ClearRestoreStep == IInv /\ ClearRestore => IInv'
  <1> SUFFICES ASSUME IInv, ClearRestore PROVE IInv'
    OBVIOUS
  <1> DEFINE s == ResetState(st)
  <1>1. IsAlert(st)
    BY DEF ClearRestore, IInv, ControlInv, Ready, Upcoming, AlertLabels
  <1>2. ~MinuteRunning /\ (ctl.recovering => minute.pc = "idle")
    BY <1>1 DEF IInv, AlertExcludesMinute, ControlInv
  <1>3. music' \in Level /\ left' \in [Hazard -> Nat]
    BY Fields, Levels, FadeFacts DEF ClearRestore
  <1>4. s \in RuntimeState /\ Sound(s)
    BY Fields, RuntimeStates
  <1>5. Ready("loop", s, minute')
    BY DEF Ready, AlertLabels
  <1> HIDE DEF s
  <1>6. Persist(s, ctl, "loop", "loop")
    BY DEF ClearRestore, s
  <1> QED
    BY <1>2, <1>3, <1>4, <1>5, <1>6, Fields, PersistStep
    DEF ClearRestore, MinuteRunning, history, RecoverLabels, Labels

LEMMA ControllerStep == IInv /\ Controller => IInv'
  BY SaveStep, RecoverStep, RecoverAudioStep, DeactivateStep, DeactivateCancelStep,
     DeactivateRestoreStep, LoopStep, StopMinuteStep, StopRestoreStep,
     StartMinuteStep, SpawnMinuteStep, PollNotDueStep, PollDisabledStep,
     PollAsksStep, PollActiveStep, PollClearStep, PollErrorStep, HoldAlertStep, PreemptStep, BeginAlertStep,
     EnterAlertStep, ContinueAlertStep, SettleStep, AnnounceStartStep,
     AnnounceEndStep, ClearAlertStep, ClearRestoreStep
  DEF Controller

LEMMA MinuteGotoFacts ==
  ASSUME minute \in MinuteState,
         NEW label \in {"play", "playing", "restore", "rescue", "finish"},
         MinuteGoto(label)
  PROVE  /\ minute' \in MinuteState /\ minute'.pc \notin {"idle", "save"}
         /\ minute'.copy = minute.copy /\ minute'.snapshot = minute.snapshot
  BY DEF MinuteGoto, MinuteState

LEMMA MinuteFadeStep == IInv /\ MinuteFade => IInv'
  <1> SUFFICES ASSUME IInv, MinuteFade PROVE IInv'
    OBVIOUS
  <1>1. MinuteRunning
    BY DEF MinuteFade, MinuteRunning
  <1>2. music' \in Level /\ left' \in [Hazard -> Nat]
    BY Fields, Levels, FadeFacts DEF MinuteFade
  <1>3. PICK label \in {"play", "rescue"} : MinuteGoto(label)
    BY DEF MinuteFade
  <1> QED BY <1>1, <1>2, <1>3, Fields, MinuteGotoFacts, MinuteStep DEF MinuteFade

LEMMA MinutePlayStep == IInv /\ MinutePlay => IInv'
  <1> SUFFICES ASSUME IInv, MinutePlay PROVE IInv'
    OBVIOUS
  <1>1. MinuteRunning
    BY DEF MinutePlay, MinuteRunning
  <1>2. music' \in Level /\ left' \in [Hazard -> Nat]
    BY Fields, SpendFacts DEF MinutePlay, Hazard, sink
  <1>3. PICK label \in {"playing", "rescue"} : MinuteGoto(label)
    BY DEF MinutePlay
  <1> QED BY <1>1, <1>2, <1>3, Fields, MinuteGotoFacts, MinuteStep DEF MinutePlay, sink

LEMMA MinutePlayedStep == IInv /\ MinutePlayed => IInv'
  <1> SUFFICES ASSUME IInv, MinutePlayed PROVE IInv'
    OBVIOUS
  <1>1. MinuteRunning
    BY DEF MinutePlayed, MinuteRunning
  <1>2. music' \in Level /\ left' \in [Hazard -> Nat]
    BY Fields, SpendFacts DEF MinutePlayed, Hazard, sink
  <1>3. PICK label \in {"restore", "rescue"} : MinuteGoto(label)
    BY DEF MinutePlayed
  <1> QED BY <1>1, <1>2, <1>3, Fields, MinuteGotoFacts, MinuteStep DEF MinutePlayed, sink

LEMMA MinuteRestoreStep == IInv /\ MinuteRestore => IInv'
  <1> SUFFICES ASSUME IInv, MinuteRestore PROVE IInv'
    OBVIOUS
  <1>1. MinuteRunning
    BY DEF MinuteRestore, MinuteRunning
  <1>2. MinuteTarget \in Level
    BY <1>1, Fields DEF MinuteTarget
  <1>3. music' \in Level /\ left' \in [Hazard -> Nat]
    BY <1>2, Fields, FadeFacts DEF MinuteRestore
  <1>4. PICK label \in {"rescue", "finish"} : MinuteGoto(label)
    BY DEF MinuteRestore
  <1> QED BY <1>1, <1>3, <1>4, Fields, MinuteGotoFacts, MinuteStep DEF MinuteRestore

\* The task takes the mark back and leaves with a copy of the state to save.
LEMMA MinuteFinishStep == IInv /\ MinuteFinish => IInv'
  <1> SUFFICES ASSUME IInv, MinuteFinish PROVE IInv'
    OBVIOUS
  <1> DEFINE s == WithoutMinute(st)
  <1>1. /\ st' = s /\ UNCHANGED <<disk, pc, ctl, sink, env, left, history>>
        /\ minute.pc = "finish" /\ ~IsAlert(st)
    BY DEF MinuteFinish, IInv, AlertExcludesMinute, MinuteRunning
  <1>2. /\ s \in RuntimeState /\ Sound(s) /\ ~s.minute_silence_active /\ ~IsAlert(s)
    BY <1>1, Fields, RuntimeStates DEF IsAlert
  <1>3. minute' \in MinuteState /\ minute'.pc = "save" /\ minute'.copy = s
    BY <1>2, RuntimeStates DEF MinuteFinish, IdleMinute, MinuteState, Snapshot
  <1> HIDE DEF s
  <1>4. TypeOK'
    BY <1>1, <1>2, <1>3 DEF IInv, TypeOK, sink, env, history
  <1>5. AlertExcludesMinute' /\ Recoverable'
    BY <1>1, <1>2, <1>3 DEF IInv, AlertExcludesMinute, Recoverable, MinuteRunning, Sound
  <1>6. ControlInv'
    BY <1>1, <1>2, <1>3 DEF IInv, ControlInv, Ready, Upcoming
  <1>7. TaskInv'
    BY <1>1, <1>2, <1>3 DEF IInv, TaskInv, MinuteRunning
  <1> QED BY <1>4, <1>5, <1>6, <1>7 DEF IInv

LEMMA IdleMinuteFacts ==
  /\ IdleMinute \in MinuteState /\ IdleMinute.pc = "idle"
  /\ IdleMinute.copy = DefaultState
  BY RuntimeStates DEF IdleMinute, MinuteState, Snapshot

LEMMA MinuteSaveStep == IInv /\ MinuteSave => IInv'
  <1> SUFFICES ASSUME IInv, MinuteSave PROVE IInv'
    OBVIOUS
  <1>1. left' \in [Hazard -> Nat]
    BY Fields, SpendFacts DEF MinuteSave, Hazard
  <1>2. disk' \in RuntimeState /\ Sound(disk')
    BY Fields DEF MinuteSave, MinuteState, IInv, TypeOK, Recoverable, TaskInv
  <1>3. TypeOK'
    BY <1>1, <1>2, IdleMinuteFacts DEF IInv, TypeOK, MinuteSave, sink, env, history
  <1>4. AlertExcludesMinute' /\ Recoverable'
    BY <1>2, IdleMinuteFacts
    DEF IInv, AlertExcludesMinute, Recoverable, MinuteRunning, MinuteSave, Sound
  <1>5. ControlInv'
    BY IdleMinuteFacts DEF IInv, ControlInv, Ready, Upcoming, MinuteSave
  <1>6. TaskInv'
    BY IdleMinuteFacts, RuntimeStates DEF IInv, TaskInv, MinuteRunning, MinuteSave
  <1> QED BY <1>3, <1>4, <1>5, <1>6 DEF IInv

LEMMA CrashStep == IInv /\ Crash => IInv'
  <1> SUFFICES ASSUME IInv, Crash PROVE IInv'
    OBVIOUS
  <1>1. left' \in [Hazard -> Nat]
    BY Fields, SpendFacts DEF Crash, Hazard
  <1>2. /\ st' = disk /\ disk' = disk /\ pc' = "recover" /\ ctl' = StartControl
        /\ minute' = IdleMinute /\ StartControl.recovering
    BY DEF Crash, StartControl, IdleControl
  <1>3. disk \in RuntimeState /\ Sound(disk)
    BY DEF IInv, TypeOK, Recoverable
  <1>4. TypeOK'
    BY <1>1, <1>2, <1>3, IdleMinuteFacts, IdleControlFacts
    DEF IInv, TypeOK, Crash, env, history, Labels, Snapshot
  <1>5. AlertExcludesMinute' /\ Recoverable'
    BY <1>2, <1>3, IdleMinuteFacts DEF AlertExcludesMinute, Recoverable, MinuteRunning, Sound
  <1>6. ControlInv'
    BY <1>2, IdleMinuteFacts DEF ControlInv, Ready, Upcoming, AlertLabels
  <1>7. TaskInv'
    BY <1>2, IdleMinuteFacts, IdleControlFacts, RuntimeStates DEF TaskInv, MinuteRunning
  <1> QED BY <1>4, <1>5, <1>6, <1>7 DEF IInv

LEMMA EnvironmentStep == IInv /\ Environment => IInv'
  <1> SUFFICES ASSUME IInv, Environment PROVE IInv'
    OBVIOUS
  <1>1. /\ userLevel \in Level /\ mixPending \in BOOLEAN /\ request \in Snapshot
        /\ cfg \in Settings /\ clock \in [day: 1 .. MaxDay, open: BOOLEAN]
    BY DEF IInv, TypeOK
  <1>2. CASE RestoreUserMixer
    BY <1>1, <1>2, Fields, SpendFacts, OtherStep DEF RestoreUserMixer, Hazard, env
  <1>3. CASE GraphRestart
    BY <1>1, <1>3, Fields, SpendFacts, OtherStep DEF GraphRestart, Hazard, env
  <1>4. CASE ApplyLevel
    BY <1>1, <1>4, Fields, OtherStep DEF ApplyLevel, Snapshot, env
  <1>5. CASE Tick
    <2>1. clock' \in [day: 1 .. MaxDay, open: BOOLEAN]
      <3>1. CASE ~clock.open
        BY <1>1, <1>5, <3>1 DEF Tick
      <3>2. CASE clock.open
        <4>1. clock.day \in 1 .. MaxDay /\ clock.day < MaxDay
          BY <1>1, <1>5, <3>2 DEF Tick
        <4>2. clock.day + 1 \in 1 .. MaxDay
          BY <4>1
        <4>3. clock' = [day |-> clock.day + 1, open |-> FALSE]
          BY <1>5, <3>2 DEF Tick
        <4> QED BY <4>2, <4>3
      <3> QED BY <3>1, <3>2
    <2> QED
      BY <1>1, <1>5, <2>1, Fields, OtherStep DEF Tick, sink
  <1>6. CASE Crash
    BY <1>6, CrashStep
  <1>7. CASE \E l \in Level : RequestLevel(l)
    BY <1>1, <1>7, Fields, SpendFacts, OtherStep DEF RequestLevel, Snapshot, Hazard, env
  <1>8. CASE \E new \in Settings : SaveSettings(new)
    BY <1>1, <1>8, Fields, SpendFacts, OtherStep DEF SaveSettings, Hazard, sink
  <1> QED BY <1>2, <1>3, <1>4, <1>5, <1>6, <1>7, <1>8 DEF Environment

-----------------------------------------------------------------------------

LEMMA InitialInv == Init => IInv
  <1> SUFFICES ASSUME Init PROVE IInv
    OBVIOUS
  <1>1. TypeOK
    <2>1. /\ st \in RuntimeState /\ disk \in RuntimeState
          /\ ctl \in ControlState /\ minute \in MinuteState
      BY RuntimeStates, IdleMinuteFacts, IdleControlFacts DEF Init
    <2>2. music \in Level /\ userLevel \in Level /\ request \in Snapshot
      BY DEF Init, Snapshot
    <2>3. clock \in [day: 1 .. MaxDay, open: BOOLEAN] /\ quiet \in 0 .. Confirmations
      BY DEF Init
    <2> QED
      BY <2>1, <2>2, <2>3 DEF Init, TypeOK, Labels
  <1>2. AlertExcludesMinute /\ Recoverable
    BY RuntimeStates, IdleMinuteFacts
    DEF Init, AlertExcludesMinute, Recoverable, MinuteRunning, IsAlert, DefaultState
  <1>3. ControlInv
    BY IdleMinuteFacts DEF Init, ControlInv, Ready, Upcoming, AlertLabels, StartControl, IdleControl
  <1>4. TaskInv
    BY RuntimeStates, IdleMinuteFacts, IdleControlFacts DEF Init, TaskInv, MinuteRunning
  <1> QED BY <1>1, <1>2, <1>3, <1>4 DEF IInv

LEMMA InductiveStep == IInv /\ [Next]_vars => IInv'
  <1> SUFFICES ASSUME IInv, [Next]_vars PROVE IInv'
    OBVIOUS
  <1>1. CASE Controller
    BY <1>1, ControllerStep
  <1>2. CASE MinuteTask
    BY <1>2, MinuteFadeStep, MinutePlayStep, MinutePlayedStep, MinuteRestoreStep,
       MinuteFinishStep, MinuteSaveStep
    DEF MinuteTask
  <1>3. CASE Environment
    BY <1>3, EnvironmentStep
  <1>4. CASE UNCHANGED vars
    <2>1. UNCHANGED <<memory, pc, ctl, minute, history>> /\ UNCHANGED <<sink, env, left>>
      BY <1>4 DEF vars
    <2> QED
      BY <2>1, OtherStep DEF IInv, TypeOK, sink, env
  <1> QED BY <1>1, <1>2, <1>3, <1>4 DEF Next

LEMMA Inductive == Spec => []IInv
  BY InitialInv, InductiveStep, PTL DEF Spec

\* The code keeps its state in the types it declares, in every execution.
THEOREM TypeCorrect == Spec => []TypeOK
  <1>1. IInv => TypeOK
    BY DEF IInv
  <1> QED BY <1>1, Inductive, PTL

\* No alert is ever in force beside a minute of silence, in whatever order
\* polls, the schedule, aborts, settings, failures and restarts come.
THEOREM PriorityIsExclusive == Spec => []AlertExcludesMinute
  <1>1. IInv => AlertExcludesMinute
    BY DEF IInv
  <1> QED BY <1>1, Inductive, PTL

\* recover never meets a state it cannot work from, whenever the daemon dies
\* and whichever saves failed before.
THEOREM AlwaysRecoverable == Spec => []Recoverable
  <1>1. IInv => Recoverable
    BY DEF IInv
  <1> QED BY <1>1, Inductive, PTL

-----------------------------------------------------------------------------
(* OneMinuteADay: the date is in every copy of the state a restart may find.  *)

Date(s) == s.last_minute_silence_date

\* No date is forgotten, and none lies in the future.
Dates(s) ==
  /\ \A d \in played : d <= Date(s)
  /\ Date(s) <= clock.day

DateInv ==
  /\ Dates(st) /\ Dates(disk)
  /\ pc = "save" => Dates(ctl.copy)
  /\ minute.pc = "save" => Dates(minute.copy)
  /\ Upcoming = "startMinute" => Date(st) # clock.day
  /\ Upcoming = "spawn" => Date(st) \notin played
  /\ pc = "save" /\ ctl.ok = "spawn" => Date(ctl.copy) = Date(st)
  /\ pc = "spawn" => Date(disk) = Date(st)

\* Most steps of the controller touch no date and start no minute.
KeepsDates ==
  /\ UNCHANGED <<disk, played, clock>>
  /\ Date(st') = Date(st)
  /\ minute'.pc = "save" => minute' = minute
  /\ pc' \notin {"startMinute", "spawn"}
  /\ pc' = "save" => ctl'.copy = st' /\ ctl'.ok \notin {"startMinute", "spawn"}

LEMMA KeptDates == DateInv /\ KeepsDates => DateInv'
  BY DEF DateInv, KeepsDates, Dates, Upcoming

LEMMA StateDates ==
  ASSUME NEW s \in RuntimeState
  PROVE  /\ Date(WithoutMinute(s)) = Date(s)
         /\ Date(WithoutClears(s)) = Date(s)
         /\ Date(ResetState(s)) = Date(s)
         /\ Date(Announced(s)) = Date(s)
  <1>1. Date(WithoutMinute(s)) = Date(s)
    BY DEF Date, WithoutMinute, RuntimeState
  <1>2. Date(WithoutClears(s)) = Date(s)
    BY DEF Date, WithoutClears, RuntimeState
  <1>3. Date(ResetState(s)) = Date(s)
    BY DEF Date, ResetState, DefaultState, RuntimeState
  <1>4. Date(Announced(s)) = Date(s)
    BY DEF Date, Announced, RuntimeState
  <1> QED BY <1>1, <1>2, <1>3, <1>4

\* A save of a state with the same date.
LEMMA PersistKeeps ==
  ASSUME ctl \in ControlState, NEW s, NEW locals \in ControlState,
         NEW ok \in Labels \ {"startMinute", "spawn"}, NEW ko,
         Persist(s, locals, ok, ko), Date(s) = Date(st),
         minute' \in {minute, IdleMinute}, UNCHANGED <<played, clock>>
  PROVE  KeepsDates
  BY IdleMinuteFacts DEF KeepsDates, Persist, ControlState

LEMMA GotoKeeps ==
  ASSUME NEW label, label \notin {"save", "startMinute", "spawn"}, pc' = label,
         UNCHANGED <<memory, minute, played, clock>>
  PROVE  KeepsDates
  BY DEF KeepsDates, memory

LEMMA CancelKeeps ==
  ASSUME IInv, NEW ok \in {"deactivateRestore", "stopRestore", "begin", "clear"},
         NEW ko, CancelMinute(ok, ko)
  PROVE  KeepsDates
  <1> DEFINE locals == [ctl EXCEPT !.held = st.minute_silence_snapshot]
  <1>1. Persist(WithoutMinute(st), locals, ok, ko)
    BY DEF CancelMinute
  <1>2. locals \in ControlState /\ ctl \in ControlState
    BY Fields, HeldFacts
  <1>3. Date(WithoutMinute(st)) = Date(st)
    BY Fields, StateDates
  <1>4. minute' \in {minute, IdleMinute} /\ UNCHANGED <<played, clock>>
    BY DEF CancelMinute, AbortedMinute, env, history
  <1>5. ok \in Labels \ {"startMinute", "spawn"}
    BY DEF Labels
  <1> HIDE DEF locals
  <1> QED BY <1>1, <1>2, <1>3, <1>4, <1>5, PersistKeeps

LEMMA ControllerKeeps ==
  ASSUME IInv, Controller, ~Save, ~Loop, ~StartMinute, ~SpawnMinute
  PROVE  KeepsDates
  <1> USE DEF history, env, memory, Goto
  <1>1. CASE Recover
    <2>1. CASE cfg.enabled /\ st.minute_silence_active
      <3> DEFINE locals == [ctl EXCEPT !.held = st.minute_silence_snapshot]
      <3>1. Persist(WithoutMinute(st), locals, "recoverAudio", "recover")
        BY <1>1, <2>1 DEF Recover
      <3>2. locals \in ControlState
        BY Fields, HeldFacts
      <3> HIDE DEF locals
      <3> QED BY <1>1, <3>1, <3>2, Fields, StateDates, PersistKeeps DEF Recover, Labels
    <2>2. CASE ~(cfg.enabled /\ st.minute_silence_active)
      BY <1>1, <2>2, GotoKeeps DEF Recover
    <2> QED BY <2>1, <2>2
  <1>2. CASE RecoverAudio
    BY <1>2, GotoKeeps DEF RecoverAudio
  <1>3. CASE Deactivate
    BY <1>3, GotoKeeps DEF Deactivate
  <1>4. CASE DeactivateCancel
    BY <1>4, CancelKeeps DEF DeactivateCancel
  <1>5. CASE DeactivateRestore
    <2>1. UNCHANGED <<minute, played, clock>>
      BY <1>5 DEF DeactivateRestore
    <2>2. CASE Persist(ResetState(st), ctl, "loop", OnError)
      BY <2>1, <2>2, Fields, StateDates, PersistKeeps DEF Labels
    <2>3. CASE Goto(OnError)
      BY <2>1, <2>3, GotoKeeps DEF OnError
    <2> QED BY <1>5, <2>2, <2>3 DEF DeactivateRestore
  <1>6. CASE StopMinute
    BY <1>6, CancelKeeps DEF StopMinute
  <1>7. CASE StopRestore
    BY <1>7, GotoKeeps DEF StopRestore
  <1>8. CASE PollDisabled \/ PollAsks
    BY <1>8, GotoKeeps DEF PollDisabled, PollAsks
  <1>9. CASE PollActive
    BY <1>9, Fields, StateDates DEF PollActive, KeepsDates
  <1>10. CASE PollClear
    <2>1. UNCHANGED <<minute, played, clock>>
      BY <1>10 DEF PollClear
    <2>2. CASE ~IsAlert(st)
      BY <1>10, <2>1, <2>2, Fields, StateDates, PersistKeeps DEF PollClear, Labels
    <2>3. CASE IsAlert(st)
      <3> DEFINE seen == IF st.clear_count < Confirmations THEN st.clear_count + 1
                                                           ELSE Confirmations
                 s == [st EXCEPT !.clear_count = seen]
                 ok == IF seen >= Confirmations THEN "clear" ELSE "loop"
      <3>1. Persist(s, ctl, ok, "loop") /\ ok \in {"clear", "loop"}
        BY <1>10, <2>3 DEF PollClear
      <3>2. Date(s) = Date(st)
        BY Fields DEF Date, RuntimeState
      <3> HIDE DEF s, ok
      <3> QED BY <2>1, <3>1, <3>2, Fields, PersistKeeps DEF Labels
    <2> QED BY <2>2, <2>3
  <1>11. CASE PollError
    BY <1>11, Fields, PersistKeeps DEF PollError, Labels
  <1>12. CASE HoldAlert
    BY <1>12, GotoKeeps DEF HoldAlert
  <1>13. CASE Preempt
    BY <1>13, CancelKeeps DEF Preempt
  <1>14. CASE BeginAlert
    <2>1. UNCHANGED <<minute, played, clock>>
      BY <1>14 DEF BeginAlert
    <2>2. CASE Goto("loop")
      BY <2>1, <2>2, GotoKeeps
    <2>3. CASE ~Goto("loop")
      <3> DEFINE s == [st EXCEPT !.mode = "alert", !.clear_count = 0,
                                 !.entry_announced = FALSE,
                                 !.clear_announced = FALSE,
                                 !.audio_snapshot = AlertSnapshot]
      <3>1. Persist(s, ctl, "enter", "loop")
        BY <1>14, <2>3 DEF BeginAlert
      <3>2. Date(s) = Date(st)
        BY Fields DEF Date, RuntimeState
      <3> HIDE DEF s
      <3> QED BY <2>1, <3>1, <3>2, Fields, PersistKeeps DEF Labels
    <2> QED BY <2>2, <2>3
  <1>15. CASE EnterAlert
    BY <1>15, GotoKeeps DEF EnterAlert
  <1>16. CASE ContinueAlert
    BY <1>16, GotoKeeps DEF ContinueAlert
  <1>17. CASE Settle
    BY <1>17, Fields, PersistKeeps DEF Settle, Labels
  <1>18. CASE AnnounceStart
    BY <1>18, GotoKeeps DEF AnnounceStart, AnnounceFailed
  <1>19. CASE AnnounceEnd
    <2>1. UNCHANGED <<minute, played, clock>>
      BY <1>19 DEF AnnounceEnd
    <2>2. CASE Goto(AnnounceFailed)
      BY <2>1, <2>2, GotoKeeps DEF AnnounceFailed
    <2>3. CASE ~Goto(AnnounceFailed)
      <3>1. PICK ok \in {"loop", "settle", "clearRestore"} :
              Persist(Announced(st), ctl, ok, "loop")
        BY <1>19, <2>3, Fields DEF AnnounceEnd, ControlState
      <3> QED BY <2>1, <3>1, Fields, StateDates, PersistKeeps DEF Labels
    <2> QED BY <2>2, <2>3
  <1>20. CASE ClearAlert
    <2>1. CASE st.minute_silence_active
      BY <1>20, <2>1, CancelKeeps DEF ClearAlert
    <2>2. CASE ~st.minute_silence_active
      BY <1>20, <2>2, GotoKeeps DEF ClearAlert
    <2> QED BY <2>1, <2>2
  <1>21. CASE ClearRestore
    BY <1>21, Fields, StateDates, PersistKeeps DEF ClearRestore, Labels
  <1>22. CASE PollNotDue
    BY <1>22, GotoKeeps DEF PollNotDue
  <1> QED
    BY <1>1, <1>2, <1>3, <1>4, <1>5, <1>6, <1>7, <1>8, <1>9, <1>10, <1>11, <1>12,
       <1>13, <1>14, <1>15, <1>16, <1>17, <1>18, <1>19, <1>20, <1>21,
       <1>22
    DEF Controller

LEMMA DateTypes ==
  ASSUME IInv
  PROVE  /\ Date(st) \in Nat /\ Date(disk) \in Nat /\ Date(ctl.copy) \in Nat
         /\ Date(minute.copy) \in Nat /\ clock.day \in Nat \ {0}
         /\ played \subseteq Nat
  BY DEF IInv, TypeOK, ControlState, MinuteState, RuntimeState, Date

LEMMA InitialDates == Init => DateInv
  BY DEF Init, DateInv, Dates, Date, Upcoming, DefaultState, IdleMinute

LEMMA DateStep == IInv /\ DateInv /\ [Next]_vars => DateInv'
  <1> SUFFICES ASSUME IInv, DateInv, [Next]_vars PROVE DateInv'
    OBVIOUS
  <1>1. CASE Save
    <2>1. /\ UNCHANGED <<st, minute, clock, played>> /\ pc = "save"
          /\ \/ disk' = ctl.copy /\ pc' = ctl.ok
             \/ disk' = disk /\ pc' = ctl.ko
      BY <1>1 DEF Save, env, history
    <2>2. ctl.ok # "save" /\ ctl.ko \in {"loop", "poll", "recover"}
      BY <2>1 DEF IInv, ControlInv
    <2> QED
      BY <2>1, <2>2 DEF DateInv, Dates, Upcoming
  <1>2. CASE Loop
    BY <1>2, DateTypes
    DEF Loop, MinuteDue, Date, DateInv, Dates, Upcoming, memory, env, history
  <1>3. CASE StartMinute
    <2>1. CASE Goto("poll")
      <3>1. UNCHANGED <<minute, played, clock>>
        BY <1>3 DEF StartMinute, env, history
      <3> QED BY <2>1, <3>1, GotoKeeps, KeptDates DEF Goto
    <2>2. CASE ~Goto("poll")
      <3> DEFINE s == [st EXCEPT !.last_minute_silence_date = clock.day,
                                 !.minute_silence_active    = TRUE,
                                 !.minute_silence_snapshot  = music]
                 locals == [ctl EXCEPT !.talkover = cfg.talkover]
      <3>1. Persist(s, locals, "spawn", "poll") /\ UNCHANGED <<minute, played, clock>>
        BY <1>3, <2>2 DEF StartMinute, env, history
      <3>2. Date(s) = clock.day /\ clock.day \notin played
        BY <1>3, Fields, DateTypes
        DEF StartMinute, DateInv, Dates, Upcoming, Date, RuntimeState
      <3>3. locals \in ControlState
        BY Fields DEF ControlState
      <3> HIDE DEF s, locals
      <3>4. /\ st' = s /\ disk' = disk /\ pc' = "save"
            /\ ctl'.copy = s /\ ctl'.ok = "spawn"
        BY <3>1, <3>3 DEF Persist, ControlState
      <3> QED BY <3>1, <3>2, <3>4, DateTypes DEF DateInv, Dates, Upcoming
    <2> QED BY <2>1, <2>2
  <1>4. CASE SpawnMinute
    <2>1. minute'.pc = "fade"
      BY <1>4 DEF SpawnMinute, IdleMinute
    <2> QED
      BY <1>4, <2>1, DateTypes
      DEF SpawnMinute, DateInv, Dates, Date, Upcoming, Goto, memory, env
  <1>5. CASE Controller /\ ~Save /\ ~Loop /\ ~StartMinute /\ ~SpawnMinute
    BY <1>5, ControllerKeeps, KeptDates
  <1>6. CASE MinuteFinish
    <2>1. minute'.pc = "save" /\ Date(minute'.copy) = Date(st) /\ Date(st') = Date(st)
      BY <1>6, Fields, StateDates DEF MinuteFinish, IdleMinute
    <2> QED
      BY <1>6, <2>1 DEF MinuteFinish, DateInv, Dates, Upcoming, env, history
  <1>7. CASE MinuteSave
    BY <1>7, IdleMinuteFacts
    DEF MinuteSave, DateInv, Dates, Upcoming, IInv, ControlInv, Ready, env, history
  <1>8. CASE MinuteFade \/ MinutePlay \/ MinutePlayed \/ MinuteRestore
    <2>1. PICK label \in {"play", "playing", "restore", "rescue", "finish"} : MinuteGoto(label)
      BY <1>8 DEF MinuteFade, MinutePlay, MinutePlayed, MinuteRestore
    <2>2. minute'.pc # "save"
      BY <2>1, Fields, MinuteGotoFacts
    <2>3. UNCHANGED <<st, disk, pc, ctl, clock, played>>
      BY <1>8 DEF MinuteFade, MinutePlay, MinutePlayed, MinuteRestore, memory, env, history
    <2> QED BY <2>2, <2>3 DEF DateInv, Dates, Upcoming
  <1>9. CASE Crash
    BY <1>9, IdleMinuteFacts DEF Crash, DateInv, Dates, Upcoming, env, history
  <1>10. CASE Tick
    <2>1. clock'.day \in Nat /\ clock.day <= clock'.day
      <3>1. CASE ~clock.open
        BY <1>10, <3>1, DateTypes DEF Tick, IInv, TypeOK
      <3>2. CASE clock.open
        BY <1>10, <3>2, DateTypes DEF Tick
      <3> QED BY <3>1, <3>2
    <2>2. Date(st) < clock'.day \/ clock'.day = clock.day
      <3>1. CASE ~clock.open
        BY <1>10, <3>1 DEF Tick, IInv, TypeOK
      <3>2. CASE clock.open
        BY <1>10, <3>2, DateTypes DEF Tick, DateInv, Dates
      <3> QED BY <3>1, <3>2
    <2> QED
      BY <1>10, <2>1, <2>2, DateTypes
      DEF Tick, DateInv, Dates, Upcoming, memory, history
  <1>11. CASE UNCHANGED <<st, disk, pc, ctl, minute, clock, played>>
    BY <1>11 DEF DateInv, Dates, Upcoming
  <1>12. CASE \/ RestoreUserMixer \/ GraphRestart \/ ApplyLevel \/ UNCHANGED vars
              \/ \E l \in Level : RequestLevel(l)
              \/ \E new \in Settings : SaveSettings(new)
    BY <1>11, <1>12
    DEF RestoreUserMixer, GraphRestart, ApplyLevel, RequestLevel, SaveSettings,
        vars, memory, env, history
  <1> QED
    BY <1>1, <1>2, <1>3, <1>4, <1>5, <1>6, <1>7, <1>8, <1>9, <1>10, <1>12
    DEF Next, MinuteTask, Environment

\* The minute of silence is started at most once for a date, whatever saves
\* fail and whenever the daemon dies between marking, saving and starting it.
THEOREM AtMostOneMinuteADay == Spec => OneMinuteADay
  <1>1. IInv /\ DateInv /\ [Next]_vars
          => [pc = "spawn" /\ MinuteRunning' =>
                st.last_minute_silence_date \notin played]_vars
    BY DEF DateInv, Upcoming, Date
  <1> QED
    BY <1>1, InitialInv, InductiveStep, InitialDates, DateStep, PTL DEF Spec, OneMinuteADay

-----------------------------------------------------------------------------
(* What hazards have left of an undisturbed daemon, and the fields of states. *)

BudgetInv == \A h \in Hazard : left[h] <= Limit[h]

\* A step spends one hazard or none.
OneHazard == left' = left \/ \E h \in Hazard : Spend(h)

LEMMA SpendsOne == Next => OneHazard
  <1> SUFFICES ASSUME Next PROVE OneHazard
    OBVIOUS
  <1> USE DEF OneHazard, Hazard, FadeDone, FadeFails
  <1>1. CASE Controller
    <2>1. CASE CancelMinute("stopRestore", "poll") \/ CancelMinute("begin", "loop")
               \/ CancelMinute("deactivateRestore", OnError) \/ CancelMinute("clear", "loop")
      BY <2>1 DEF CancelMinute
    <2>2. CASE Save \/ Recover \/ RecoverAudio \/ Deactivate \/ DeactivateRestore \/ Loop
      BY <2>2 DEF Save, Recover, RecoverAudio, Deactivate, DeactivateRestore, Loop
    <2>3. CASE StopRestore \/ StartMinute \/ SpawnMinute \/ PollNotDue \/ PollDisabled
               \/ PollAsks \/ PollActive \/ PollClear \/ PollError
      BY <2>3 DEF StopRestore, StartMinute, SpawnMinute, PollNotDue, PollDisabled, PollAsks,
                  PollActive, PollClear, PollError
    <2>4. CASE HoldAlert \/ BeginAlert \/ EnterAlert \/ ContinueAlert \/ Settle
      BY <2>4 DEF HoldAlert, BeginAlert, EnterAlert, ContinueAlert, Settle
    <2>5. CASE AnnounceStart \/ AnnounceEnd \/ ClearRestore
               \/ (ClearAlert /\ ~st.minute_silence_active)
      BY <2>5 DEF AnnounceStart, AnnounceEnd, ClearRestore, ClearAlert
    <2> QED
      BY <1>1, <2>1, <2>2, <2>3, <2>4, <2>5
      DEF Controller, StopMinute, DeactivateCancel, Preempt, ClearAlert
  <1>2. CASE MinuteTask
    BY <1>2
    DEF MinuteTask, MinuteFade, MinutePlay, MinutePlayed, MinuteRestore, MinuteFinish,
        MinuteSave
  <1>3. CASE Environment
    BY <1>3
    DEF Environment, RestoreUserMixer, GraphRestart, ApplyLevel, Tick, Crash, RequestLevel,
        SaveSettings
  <1> QED BY <1>1, <1>2, <1>3 DEF Next

\* What has not struck by now had not struck before, and does not strike now.
LEMMA Budgets ==
  ASSUME IInv, BudgetInv, [Next]_vars
  PROVE  /\ BudgetInv'
         /\ \A h \in Hazard : left'[h] = Limit[h] => left[h] = Limit[h] /\ ~Spend(h)
  <1>1. left \in [Hazard -> Nat] /\ Limit \in [Hazard -> Nat]
    BY Fields
  <1>2. CASE left' = left
    BY <1>1, <1>2 DEF BudgetInv, Spend
  <1>3. ASSUME NEW g \in Hazard, Spend(g)
        PROVE  /\ BudgetInv'
               /\ \A h \in Hazard : left'[h] = Limit[h] => left[h] = Limit[h] /\ ~Spend(h)
    <2>1. left' = [left EXCEPT ![g] = left[g] - 1]
      BY <1>3 DEF Spend
    <2>2. \A h \in Hazard : left'[h] = IF h = g THEN left[h] - 1 ELSE left[h]
      BY <1>1, <2>1
    <2>3. BudgetInv'
      BY <1>1, <2>2 DEF BudgetInv
    <2>4. ASSUME NEW h \in Hazard, left'[h] = Limit[h]
          PROVE  left[h] = Limit[h] /\ ~Spend(h)
      <3>1. h # g
        BY <1>1, <2>2, <2>4 DEF BudgetInv
      <3>2. left'[h] = left[h]
        BY <2>2, <3>1
      <3> QED BY <1>1, <2>4, <3>2 DEF Spend
    <2> QED BY <2>3, <2>4
  <1>4. CASE UNCHANGED vars
    BY <1>2, <1>4 DEF vars
  <1> QED BY <1>2, <1>3, <1>4, SpendsOne DEF OneHazard

LEMMA StateFields ==
  ASSUME NEW s \in RuntimeState
  PROVE  /\ WithoutMinute(s).clear_count = s.clear_count
         /\ WithoutMinute(s).audio_snapshot = s.audio_snapshot
         /\ WithoutMinute(s).minute_silence_snapshot = None
         /\ WithoutClears(s).clear_count = 0
         /\ WithoutClears(s).audio_snapshot = s.audio_snapshot
         /\ WithoutClears(s).minute_silence_snapshot = s.minute_silence_snapshot
         /\ ResetState(s).clear_count = 0
         /\ ResetState(s).audio_snapshot = None
         /\ ResetState(s).minute_silence_snapshot = None
         /\ Announced(s).clear_count = s.clear_count
         /\ Announced(s).mode = s.mode
         /\ Announced(s).audio_snapshot = s.audio_snapshot
         /\ Announced(s).minute_silence_snapshot = s.minute_silence_snapshot
         /\ Announced(s).minute_silence_active = s.minute_silence_active
  <1>1. /\ WithoutMinute(s).clear_count = s.clear_count
        /\ WithoutMinute(s).audio_snapshot = s.audio_snapshot
        /\ WithoutMinute(s).minute_silence_snapshot = None
    BY DEF WithoutMinute, RuntimeState
  <1>2. /\ WithoutClears(s).clear_count = 0
        /\ WithoutClears(s).audio_snapshot = s.audio_snapshot
        /\ WithoutClears(s).minute_silence_snapshot = s.minute_silence_snapshot
    BY DEF WithoutClears, RuntimeState
  <1>3. /\ ResetState(s).clear_count = 0
        /\ ResetState(s).audio_snapshot = None
        /\ ResetState(s).minute_silence_snapshot = None
    BY DEF ResetState, DefaultState, RuntimeState
  <1>4. /\ Announced(s).clear_count = s.clear_count
        /\ Announced(s).mode = s.mode
        /\ Announced(s).audio_snapshot = s.audio_snapshot
        /\ Announced(s).minute_silence_snapshot = s.minute_silence_snapshot
        /\ Announced(s).minute_silence_active = s.minute_silence_active
    BY DEF Announced, RuntimeState
  <1> QED BY <1>1, <1>2, <1>3, <1>4

-----------------------------------------------------------------------------
(* ClearIsConfirmed, AnnouncedDucked, MinuteIsSilent, UserLevelKept.          *)

\* The count of clear results is never ahead of the clear results there were,
\* and an alert is being cleared only after enough of them.
CountInv ==
  /\ pc = "save" => ctl.ok \notin {"announce", "announcing"}
  /\ Uninterrupted =>
       /\ st.clear_count <= quiet
       /\ Upcoming \in {"clear", "clearRestore"} => quiet = Confirmations
       /\ pc \in {"announce", "announcing"} /\ ctl.site = "clear" => quiet = Confirmations

\* Nobody but the controller and the minute's task has a hand on MUSIC, and the
\* controller keeps off it while the minute's file plays.
CalmInv ==
  /\ Upcoming = "stopRestore" => ~st.minute_silence_active
  /\ Undisturbed =>
       /\ ~mixPending /\ request = None
       /\ ctl.recovering => /\ ~IsAlert(st) /\ ~st.minute_silence_active
                            /\ pc \in {"recover", "deactivate", "loop"}
       /\ minute.pc \in {"play", "playing"} => music = Silent

\* Without talkover MUSIC is ducked before the announcement asks for the lock.
DuckInv ==
  /\ Undisturbed /\ pc = "announce" /\ ~ctl.talkover /\ ctl.site # "clear" => music = Ducked
  /\ AnnouncedDucked

Faultless == Undisturbed /\ left["fault"] = Limit["fault"] /\ ~guessed

\* Every level remembered is the user's, and MUSIC stands there unless an alert
\* or the minute has taken it and is yet to give it back.
TakenByMinute == minute.pc \in {"play", "playing", "restore", "rescue"}
Owed == Upcoming \in {"stopRestore", "begin", "deactivateRestore"} /\ ctl.held # None

KeptInv ==
  Faultless =>
    /\ st.audio_snapshot \in {None, userLevel}
    /\ st.minute_silence_snapshot \in {None, userLevel}
    /\ minute.snapshot \in {None, userLevel}
    /\ ctl.held \in {None, userLevel}
    /\ music = userLevel \/ IsAlert(st) \/ TakenByMinute \/ Owed

MusicInv == CountInv /\ CalmInv /\ DuckInv /\ KeptInv

Unspent == \A h \in Hazard : left'[h] = Limit[h] => left[h] = Limit[h] /\ ~Spend(h)

LEMMA UnspentFacts ==
  ASSUME Unspent
  PROVE  /\ Uninterrupted' => Uninterrupted /\ ~Spend("crash")
         /\ Undisturbed' => Undisturbed /\ ~Spend("crash") /\ ~Spend("request") /\ ~Spend("graph")
         /\ Faultless' => Undisturbed' /\ left'["fault"] = Limit["fault"] /\ ~guessed'
         /\ left'["fault"] = Limit["fault"] => left["fault"] = Limit["fault"] /\ ~Spend("fault")
         /\ left'["graph"] = Limit["graph"] => left["graph"] = Limit["graph"] /\ ~Spend("graph")
  BY DEF Unspent, Hazard, Uninterrupted, Undisturbed, Faultless

LEMMA SaveMusic ==
  ASSUME IInv, MusicInv, Unspent, Save
  PROVE  MusicInv'
  <1>1. /\ st' = st /\ minute' = minute /\ music' = music /\ quiet' = quiet /\ guessed' = guessed
        /\ UNCHANGED <<userLevel, mixPending, request>>
        /\ pc = "save" /\ pc' \in {ctl.ok, ctl.ko}
        /\ ctl.ok \notin {"save", "fetch"} /\ ctl.ko \in {"loop", "poll", "recover"}
    BY DEF Save, sink, env, history, IInv, ControlInv
  <1>2. /\ ctl'.held = ctl.held /\ ctl'.site = ctl.site /\ ctl'.talkover = ctl.talkover
        /\ ctl'.recovering = ctl.recovering
    BY Fields DEF Save, ControlState
  <1>3. CountInv'
    BY <1>1, <1>2, UnspentFacts DEF MusicInv, CountInv, Upcoming
  <1>4. CalmInv'
    BY <1>1, <1>2, UnspentFacts DEF MusicInv, CalmInv, Upcoming
  <1>5. DuckInv'
    BY <1>1, <1>2 DEF MusicInv, CountInv, DuckInv, AnnouncedDucked
  <1>6. KeptInv'
    BY <1>1, <1>2, UnspentFacts
    DEF MusicInv, KeptInv, Faultless, TakenByMinute, Owed, Upcoming, Save
  <1> QED BY <1>3, <1>4, <1>5, <1>6 DEF MusicInv

\* The rest of the hypotheses: what the poll, the loop and the recovery leave.
LEMMA LoopMusic ==
  ASSUME IInv, MusicInv, Unspent,
         Loop \/ PollNotDue \/ PollDisabled \/ PollAsks \/ Deactivate
  PROVE  MusicInv'
  <1>1. /\ pc \in {"loop", "poll", "deactivate"} /\ UNCHANGED <<memory, minute, sink, left, history>>
        /\ pc' \in {"deactivate", "stopMinute", "poll", "fetch", "startMinute", "loop",
                    "deactivateCancel", "deactivateRestore"}
        /\ pc' = "deactivateRestore" => IsAlert(st)
    BY DEF Loop, PollNotDue, PollDisabled, PollAsks, Deactivate, Goto, memory, env
  <1>2. /\ ctl'.held \in {ctl.held, None}
        /\ ctl'.recovering => ctl.recovering /\ pc \in {"deactivate", "poll"}
    <2>1. CASE Loop
      BY <2>1, IdleControlFacts DEF Loop, IdleControl
    <2>2. CASE Deactivate
      BY <2>2, Fields DEF Deactivate, ControlState
    <2>3. CASE PollNotDue \/ PollDisabled \/ PollAsks
      BY <2>3 DEF PollNotDue, PollDisabled, PollAsks, Goto
    <2> QED BY <2>1, <2>2, <2>3
  <1>3. CountInv'
    BY <1>1, UnspentFacts DEF MusicInv, CountInv, Upcoming, memory, history
  <1>4. CalmInv'
    <2>1. Undisturbed' /\ ctl'.recovering =>
            ~IsAlert(st) /\ ~st.minute_silence_active /\ pc = "deactivate"
      BY <1>2, UnspentFacts DEF MusicInv, CalmInv
    <2>2. Undisturbed' /\ ctl'.recovering => pc' = "loop"
      BY <2>1 DEF Loop, PollNotDue, PollDisabled, PollAsks, Deactivate
    <2> QED
      BY <1>1, <2>1, <2>2, UnspentFacts DEF MusicInv, CalmInv, Upcoming, memory, sink
  <1>5. DuckInv'
    BY <1>1 DEF DuckInv, AnnouncedDucked
  <1>6. KeptInv'
    BY <1>1, <1>2, UnspentFacts
    DEF MusicInv, KeptInv, Faultless, TakenByMinute, Owed, Upcoming, memory, sink, history
  <1> QED BY <1>3, <1>4, <1>5, <1>6 DEF MusicInv

LEMMA RecoverMusic ==
  ASSUME IInv, MusicInv, Unspent, Recover \/ RecoverAudio
  PROVE  MusicInv'
  <1>1. /\ ctl.recovering /\ minute.pc = "idle" /\ pc \in RecoverLabels
        /\ UNCHANGED <<minute, userLevel, mixPending, request, history>>
    BY DEF Recover, RecoverAudio, IInv, ControlInv, RecoverLabels, sink
  <1>2. CASE Recover /\ cfg.enabled /\ st.minute_silence_active
    <2> DEFINE locals == [ctl EXCEPT !.held = st.minute_silence_snapshot]
    <2>1. Persist(WithoutMinute(st), locals, "recoverAudio", "recover") /\ music' = music
      BY <1>2 DEF Recover, sink
    <2>2. locals \in ControlState
      BY Fields, HeldFacts
    <2> HIDE DEF locals
    <2>3. /\ st' = WithoutMinute(st) /\ pc' = "save" /\ ctl'.ok = "recoverAudio"
      BY <2>1, <2>2, Fields, RuntimeStates, PersistFacts DEF Labels
    <2>4. st'.clear_count = st.clear_count /\ ~st'.minute_silence_active
      BY <2>3, Fields, StateFields, RuntimeStates
    <2>5. ~Undisturbed
      BY <1>1, <1>2 DEF MusicInv, CalmInv
    <2> QED
      BY <1>1, <2>3, <2>4, <2>5, UnspentFacts
      DEF MusicInv, CountInv, CalmInv, DuckInv, AnnouncedDucked, KeptInv, Upcoming, history
  <1>3. CASE Recover /\ ~(cfg.enabled /\ st.minute_silence_active)
    <2>1. /\ UNCHANGED <<memory, ctl, music>> /\ pc' \in {"deactivate", "recoverAudio", "loop"}
          /\ pc' = "recoverAudio" => IsAlert(st)
      BY <1>3 DEF Recover, Goto, sink
    <2> QED
      BY <1>1, <2>1, UnspentFacts
      DEF MusicInv, CountInv, CalmInv, DuckInv, AnnouncedDucked, KeptInv, Faultless,
          TakenByMinute, Owed, Upcoming, memory, history, RecoverLabels
  <1>4. CASE RecoverAudio
    <2>1. /\ UNCHANGED <<memory, ctl>> /\ pc' \in {"recover", "loop"} /\ pc = "recoverAudio"
      BY <1>4 DEF RecoverAudio, Goto
    <2>2. ~Undisturbed
      BY <1>1, <2>1 DEF MusicInv, CalmInv
    <2> QED
      BY <1>1, <2>1, <2>2, UnspentFacts
      DEF MusicInv, CountInv, CalmInv, DuckInv, AnnouncedDucked, KeptInv, Faultless, Upcoming,
          memory, history
  <1> QED BY <1>2, <1>3, <1>4

LEMMA CancelMusic ==
  ASSUME IInv, MusicInv, Unspent,
         NEW ok \in {"deactivateRestore", "stopRestore", "begin", "clear"},
         NEW ko \in {"loop", "poll", "recover"}, CancelMinute(ok, ko),
         ok = "clear" => Upcoming = "clear" /\ IsAlert(st),
         pc \in {"stopMinute", "deactivateCancel", "preempt", "clear"}
  PROVE  MusicInv'
  <1> DEFINE locals == [ctl EXCEPT !.held = st.minute_silence_snapshot]
  <1>1. /\ Persist(WithoutMinute(st), locals, ok, ko) /\ minute' = IdleMinute
        /\ UNCHANGED <<userLevel, mixPending, request, left, history>>
    BY DEF CancelMinute, AbortedMinute
  <1>2. /\ locals \in ControlState /\ locals.recovering = ctl.recovering
        /\ locals.held = st.minute_silence_snapshot
    BY Fields, HeldFacts DEF ControlState
  <1> HIDE DEF locals
  <1>3. /\ st' = WithoutMinute(st) /\ pc' = "save" /\ ctl'.ok = ok
        /\ ctl'.held = st.minute_silence_snapshot /\ ctl'.recovering = ctl.recovering
    <2>1. WithoutMinute(st) \in RuntimeState /\ ok \in Labels /\ ko \in Labels
      BY Fields, RuntimeStates DEF Labels
    <2> QED BY <1>1, <1>2, <2>1, PersistFacts
  <1>4. /\ st'.clear_count = st.clear_count /\ ~st'.minute_silence_active
        /\ IsAlert(st') <=> IsAlert(st)
        /\ st'.audio_snapshot = st.audio_snapshot /\ st'.minute_silence_snapshot = None
    BY <1>3, Fields, StateFields, RuntimeStates DEF IsAlert
  <1>5. minute'.pc = "idle" /\ minute'.snapshot = None
    BY <1>1 DEF IdleMinute
  <1>6. MinuteRunning => st.minute_silence_snapshot # None
    BY Fields DEF IInv, AlertExcludesMinute, Sound
  <1>7. ~MinuteRunning \/ minute.pc = "finish" => music' = music
    BY DEF CancelMinute, MinuteRunning
  <1>8. CountInv'
    BY <1>1, <1>3, <1>4, UnspentFacts DEF MusicInv, CountInv, Upcoming, history
  <1>9. CalmInv'
    BY <1>1, <1>3, <1>4, <1>5, UnspentFacts DEF MusicInv, CalmInv, Upcoming
  <1>10. DuckInv'
    BY <1>3 DEF DuckInv, AnnouncedDucked
  <1>11. KeptInv'
    <2> SUFFICES ASSUME Faultless' PROVE KeptInv'
      BY DEF KeptInv
    <2>1. Faultless
      BY <1>1, UnspentFacts DEF Faultless, history
    <2>2. CASE MinuteRunning
      BY <1>1, <1>3, <1>4, <1>5, <1>6, <1>7, <2>1, <2>2
      DEF MusicInv, KeptInv, Owed, Upcoming, TakenByMinute, MinuteRunning, IInv,
          AlertExcludesMinute
    <2>3. CASE ~MinuteRunning
      <3>1. ~Owed /\ ~TakenByMinute
        BY <2>3 DEF Owed, Upcoming, TakenByMinute, MinuteRunning
      <3> QED
        BY <1>1, <1>3, <1>4, <1>5, <1>7, <2>1, <2>3, <3>1 DEF MusicInv, KeptInv
    <2> QED BY <2>2, <2>3
  <1> QED BY <1>8, <1>9, <1>10, <1>11 DEF MusicInv

\* A fade: to its target, or, when a call fails, part of the way.
LEMMA FadeOrFault ==
  ASSUME NEW target, FadeDone(target) \/ FadeFails(target)
  PROVE  music' = target \/ Spend("fault")
  BY DEF FadeDone, FadeFails

LEMMA DeactivateRestoreMusic ==
  ASSUME IInv, MusicInv, Unspent, DeactivateRestore
  PROVE  MusicInv'
  <1> DEFINE snapshot == IF ctl.held # None THEN ctl.held ELSE st.audio_snapshot
             target   == RestoreLevel(snapshot)
  <1>1. /\ pc = "deactivateRestore" /\ ~MinuteRunning
        /\ UNCHANGED <<minute, userLevel, mixPending, request, quiet>>
        /\ guessed' = (guessed \/ {ctl.held, st.audio_snapshot} = {None})
    BY DEF DeactivateRestore, IInv, ControlInv, Ready, Upcoming, AlertExcludesMinute
  <1>2. ~guessed' => snapshot # None /\ target = snapshot
    BY <1>1 DEF RestoreLevel
  <1>3. CASE FadeDone(target) /\ Persist(ResetState(st), ctl, "loop", OnError)
    <2>1. /\ st' = ResetState(st) /\ pc' = "save" /\ ctl'.ok = "loop"
          /\ ctl'.held = ctl.held /\ ctl'.recovering = ctl.recovering
      <3>1. ResetState(st) \in RuntimeState /\ OnError \in Labels /\ "loop" \in Labels
        BY Fields, RuntimeStates, OnErrorFacts DEF Labels
      <3> QED BY <1>3, <3>1, Fields, PersistFacts
    <2>2. /\ st'.clear_count = 0 /\ ~st'.minute_silence_active /\ ~IsAlert(st')
          /\ st'.audio_snapshot = None /\ st'.minute_silence_snapshot = None
      BY <2>1, Fields, StateFields, RuntimeStates
    <2>3. CountInv'
      BY <1>1, <2>1, <2>2, Fields, UnspentFacts DEF MusicInv, CountInv, Upcoming
    <2>4. CalmInv'
      BY <1>1, <2>1, <2>2, UnspentFacts DEF MusicInv, CalmInv, Upcoming, MinuteRunning
    <2>5. DuckInv'
      BY <2>1 DEF DuckInv, AnnouncedDucked
    <2>6. KeptInv'
      <3> SUFFICES ASSUME Faultless' PROVE KeptInv'
        BY DEF KeptInv
      <3>1. Faultless
        BY <1>1, UnspentFacts DEF Faultless
      <3>2. music' = target /\ target = snapshot
        BY <1>2, <1>3 DEF Faultless, FadeDone
      <3>3. snapshot = userLevel
        BY <1>1, <1>2, <3>1 DEF MusicInv, KeptInv, Faultless
      <3> HIDE DEF target, snapshot
      <3> QED
        BY <1>1, <2>1, <2>2, <3>1, <3>2, <3>3 DEF MusicInv, KeptInv
    <2> QED BY <2>3, <2>4, <2>5, <2>6 DEF MusicInv
  <1>4. CASE FadeFails(target) /\ Goto(OnError)
    <2>1. /\ UNCHANGED <<memory, ctl>> /\ pc' \in {"loop", "recover"} /\ Spend("fault")
      BY <1>4 DEF Goto, OnError, FadeFails
    <2>2. Undisturbed => ~ctl.recovering
      BY <1>1 DEF MusicInv, CalmInv
    <2> QED
      BY <1>1, <2>1, <2>2, UnspentFacts
      DEF MusicInv, CountInv, CalmInv, DuckInv, AnnouncedDucked, KeptInv, Upcoming, memory,
          MinuteRunning
  <1> QED BY <1>3, <1>4 DEF DeactivateRestore

LEMMA StopRestoreMusic ==
  ASSUME IInv, MusicInv, Unspent, StopRestore
  PROVE  MusicInv'
  <1>1. /\ pc = "stopRestore" /\ pc' = "poll" /\ UNCHANGED <<memory, ctl>>
        /\ UNCHANGED <<minute, userLevel, mixPending, request, quiet>>
        /\ guessed' = (guessed \/ ctl.held = None)
    BY DEF StopRestore, Goto
  <1>2. ~st.minute_silence_active /\ ~MinuteRunning
    BY <1>1 DEF MusicInv, CalmInv, Upcoming, IInv, AlertExcludesMinute
  <1>3. Undisturbed => ~ctl.recovering
    BY <1>1 DEF MusicInv, CalmInv
  <1>4. KeptInv'
    <2> SUFFICES ASSUME Faultless' PROVE KeptInv'
      BY DEF KeptInv
    <2>1. Faultless /\ ~Spend("fault") /\ ctl.held # None
      BY <1>1, UnspentFacts DEF Faultless
    <2>2. music' = ctl.held
      BY <2>1, FadeOrFault DEF StopRestore, RestoreLevel
    <2> QED
      BY <1>1, <2>1, <2>2 DEF MusicInv, KeptInv, memory
  <1> QED
    BY <1>1, <1>2, <1>3, <1>4, UnspentFacts
    DEF MusicInv, CountInv, CalmInv, DuckInv, AnnouncedDucked, Upcoming, memory, MinuteRunning

LEMMA StartMinuteMusic ==
  ASSUME IInv, MusicInv, Unspent, StartMinute
  PROVE  MusicInv'
  <1> DEFINE s == [st EXCEPT !.last_minute_silence_date = clock.day,
                             !.minute_silence_active    = TRUE,
                             !.minute_silence_snapshot  = music]
             locals == [ctl EXCEPT !.talkover = cfg.talkover]
  <1>1. /\ pc = "startMinute" /\ ~IsAlert(st) /\ minute.pc = "idle" /\ ~ctl.recovering
        /\ UNCHANGED <<minute, sink, env, history>>
    BY DEF StartMinute, IInv, ControlInv, Ready, Upcoming
  <1>2. CASE Persist(s, locals, "spawn", "poll") /\ UNCHANGED left
    <2>1. s \in RuntimeState /\ locals \in ControlState
      <3>1. clock.day \in 0 .. MaxDay
        BY DEF IInv, TypeOK
      <3> QED BY <3>1, Fields DEF RuntimeState, ControlState, Snapshot
    <2>2. /\ s.clear_count = st.clear_count /\ s.audio_snapshot = st.audio_snapshot
          /\ s.minute_silence_snapshot = music
          /\ locals.held = ctl.held /\ locals.recovering = ctl.recovering
      BY Fields DEF RuntimeState, ControlState
    <2> HIDE DEF s, locals
    <2>3. /\ st' = s /\ pc' = "save" /\ ctl'.ok = "spawn"
          /\ ctl'.held = ctl.held /\ ctl'.recovering = ctl.recovering
      <3>1. {"spawn", "poll"} \subseteq Labels
        BY DEF Labels
      <3> QED BY <1>2, <2>1, <2>2, <3>1, PersistFacts
    <2>4. CountInv' /\ CalmInv' /\ DuckInv'
      BY <1>1, <2>2, <2>3, UnspentFacts
      DEF MusicInv, CountInv, CalmInv, DuckInv, AnnouncedDucked, Upcoming, sink, history
    <2>5. KeptInv'
      BY <1>1, <2>2, <2>3, UnspentFacts
      DEF MusicInv, KeptInv, Faultless, TakenByMinute, Owed, Upcoming, sink, history
    <2> QED BY <2>4, <2>5 DEF MusicInv
  <1>3. CASE Spend("fault") /\ Goto("poll")
    BY <1>1, <1>3, UnspentFacts
    DEF MusicInv, CountInv, CalmInv, DuckInv, AnnouncedDucked, KeptInv, Upcoming, Goto,
        memory, sink, history
  <1> QED BY <1>2, <1>3 DEF StartMinute

LEMMA SpawnMinuteMusic ==
  ASSUME IInv, MusicInv, Unspent, SpawnMinute
  PROVE  MusicInv'
  <1>1. /\ pc = "spawn" /\ pc' = "poll" /\ UNCHANGED <<memory, ctl, sink, left, quiet, guessed>>
        /\ minute'.pc = "fade" /\ minute'.snapshot = st.minute_silence_snapshot
        /\ ~ctl.recovering /\ minute.pc = "idle"
    BY DEF SpawnMinute, Goto, IdleMinute, IInv, ControlInv, Ready, Upcoming
  <1>2. CountInv' /\ CalmInv' /\ DuckInv'
    BY <1>1, UnspentFacts
    DEF MusicInv, CountInv, CalmInv, DuckInv, AnnouncedDucked, Upcoming, memory, sink
  <1>3. KeptInv'
    BY <1>1, UnspentFacts
    DEF MusicInv, KeptInv, Faultless, TakenByMinute, Owed, Upcoming, memory, sink
  <1> QED BY <1>2, <1>3 DEF MusicInv

LEMMA PollActiveMusic ==
  ASSUME IInv, MusicInv, Unspent, PollActive
  PROVE  MusicInv'
  <1>1. /\ pc = "fetch" /\ quiet' = 0 /\ UNCHANGED <<minute, sink, left, guessed>>
        /\ st' = WithoutClears(st) /\ pc' \in {"continue", "preempt", "begin"}
    BY DEF PollActive
  <1>2. /\ st'.clear_count = 0 /\ (IsAlert(st') <=> IsAlert(st))
        /\ st'.minute_silence_active = st.minute_silence_active
        /\ st'.audio_snapshot = st.audio_snapshot
        /\ st'.minute_silence_snapshot = st.minute_silence_snapshot
    BY <1>1, Fields, StateFields, RuntimeStates DEF IsAlert
  <1>3. ctl'.held = None /\ ctl'.recovering = ctl.recovering
    BY Fields DEF PollActive, ControlState
  <1>4. CountInv' /\ CalmInv' /\ DuckInv'
    BY <1>1, <1>2, <1>3, UnspentFacts
    DEF MusicInv, CountInv, CalmInv, DuckInv, AnnouncedDucked, Upcoming, sink
  <1>5. KeptInv'
    BY <1>1, <1>2, <1>3, UnspentFacts
    DEF MusicInv, KeptInv, Faultless, TakenByMinute, Owed, Upcoming, sink
  <1> QED BY <1>4, <1>5 DEF MusicInv

LEMMA PollClearMusic ==
  ASSUME IInv, MusicInv, Unspent, PollClear
  PROVE  MusicInv'
  <1> DEFINE seen == IF st.clear_count < Confirmations THEN st.clear_count + 1
                                                       ELSE Confirmations
             counted == [st EXCEPT !.clear_count = seen]
             ok == IF seen >= Confirmations THEN "clear" ELSE "loop"
  <1>1. /\ pc = "fetch" /\ UNCHANGED <<minute, sink, left, guessed>>
        /\ quiet' = IF quiet < Confirmations THEN quiet + 1 ELSE quiet
    BY DEF PollClear
  <1>2. CASE IsAlert(st)
    <2>1. Persist(counted, ctl, ok, "loop")
      BY <1>2 DEF PollClear
    <2>2. st.clear_count \in 0 .. Confirmations /\ seen \in 0 .. Confirmations
      BY Fields DEF RuntimeState
    <2>3. /\ counted \in RuntimeState /\ counted.clear_count = seen /\ IsAlert(counted)
          /\ counted.minute_silence_active = st.minute_silence_active
          /\ counted.audio_snapshot = st.audio_snapshot
          /\ counted.minute_silence_snapshot = st.minute_silence_snapshot
      BY <1>2, <2>2, Fields DEF RuntimeState, IsAlert
    <2>4. ok \in {"clear", "loop"} /\ (ok = "clear" => seen = Confirmations)
      BY <2>2
    <2>5. Uninterrupted => seen <= quiet'
      BY <1>1, <2>2, Fields DEF MusicInv, CountInv
    <2> HIDE DEF counted, ok, seen
    <2>6. /\ st' = counted /\ pc' = "save" /\ ctl'.ok = ok
          /\ ctl'.held = ctl.held /\ ctl'.recovering = ctl.recovering
      <3>1. ok \in Labels /\ "loop" \in Labels
        BY <2>4 DEF Labels
      <3> QED BY <2>1, <2>3, <3>1, Fields, PersistFacts
    <2>7. CountInv'
      <3>1. quiet' \in 0 .. Confirmations
        BY <1>1, Fields
      <3> QED
        BY <1>1, <2>2, <2>3, <2>4, <2>5, <2>6, <3>1, UnspentFacts DEF CountInv, Upcoming
    <2>8. CalmInv' /\ DuckInv' /\ KeptInv'
      BY <1>1, <1>2, <2>3, <2>4, <2>6, UnspentFacts
      DEF MusicInv, CalmInv, DuckInv, AnnouncedDucked, KeptInv, Faultless, Upcoming, sink
    <2> QED BY <2>7, <2>8 DEF MusicInv
  <1>3. CASE ~IsAlert(st)
    <2>1. /\ st' = WithoutClears(st) /\ pc' = "save" /\ ctl'.ok = "loop"
          /\ ctl'.held = ctl.held /\ ctl'.recovering = ctl.recovering
      <3>1. Persist(WithoutClears(st), ctl, "loop", "loop")
        BY <1>3 DEF PollClear
      <3>2. WithoutClears(st) \in RuntimeState
        BY Fields, RuntimeStates
      <3>3. "loop" \in Labels
        BY DEF Labels
      <3> QED BY <3>1, <3>2, <3>3, Fields, PersistFacts
    <2>2. /\ st'.clear_count = 0 /\ ~IsAlert(st')
          /\ st'.audio_snapshot = st.audio_snapshot
          /\ st'.minute_silence_snapshot = st.minute_silence_snapshot
      BY <1>3, <2>1, Fields, StateFields, RuntimeStates DEF IsAlert
    <2>3. quiet' \in 0 .. Confirmations
      BY <1>1, Fields
    <2>4. CountInv'
      BY <2>1, <2>2, <2>3 DEF CountInv, Upcoming
    <2>5. CalmInv' /\ DuckInv'
      BY <1>1, <2>1, <2>2, UnspentFacts
      DEF MusicInv, CalmInv, DuckInv, AnnouncedDucked, Upcoming, sink
    <2>6. KeptInv'
      BY <1>1, <1>3, <2>1, <2>2, UnspentFacts
      DEF MusicInv, KeptInv, Faultless, TakenByMinute, Owed, Upcoming, sink
    <2> QED BY <2>4, <2>5, <2>6 DEF MusicInv
  <1> QED BY <1>2, <1>3

LEMMA ResaveMusic ==
  ASSUME IInv, MusicInv, Unspent, PollError \/ Settle
  PROVE  MusicInv'
  <1>1. PICK ok \in {"hold", "loop"} : Persist(st, ctl, ok, "loop")
    BY DEF PollError, Settle
  <1>2. /\ st' = st /\ pc' = "save" /\ ctl'.ok = ok
        /\ ctl'.held = ctl.held /\ ctl'.recovering = ctl.recovering
    BY <1>1, Fields, PersistFacts DEF Labels
  <1>3. pc \in {"fetch", "settle"} /\ UNCHANGED <<minute, sink, left, history>>
    BY DEF PollError, Settle
  <1>4. CountInv' /\ CalmInv' /\ DuckInv'
    BY <1>2, <1>3, UnspentFacts
    DEF MusicInv, CountInv, CalmInv, DuckInv, AnnouncedDucked, Upcoming, sink, history
  <1>5. KeptInv'
    BY <1>2, <1>3, UnspentFacts
    DEF MusicInv, KeptInv, Faultless, TakenByMinute, Owed, Upcoming, sink, history
  <1> QED BY <1>4, <1>5 DEF MusicInv

\* While an alert is in force its steps may move MUSIC at will: what is left to
\* show is the count and the ducking.
LEMMA AlertKeeps ==
  ASSUME IInv, MusicInv, Unspent, IsAlert(st'),
         st'.audio_snapshot = st.audio_snapshot,
         st'.minute_silence_snapshot = st.minute_silence_snapshot,
         ctl'.held = ctl.held,
         UNCHANGED <<minute, userLevel, guessed>>
  PROVE  KeptInv'
  BY UnspentFacts DEF MusicInv, KeptInv, Faultless

LEMMA HoldAlertMusic ==
  ASSUME IInv, MusicInv, Unspent, HoldAlert
  PROVE  MusicInv'
  <1>1. /\ pc = "hold" /\ pc' = "loop" /\ UNCHANGED <<memory, ctl>>
        /\ UNCHANGED <<minute, userLevel, mixPending, request, history>>
        /\ IsAlert(st) \/ music' = music
    BY DEF HoldAlert, Goto
  <1>2. IsAlert(st) => ~MinuteRunning
    BY DEF IInv, AlertExcludesMinute
  <1>3. CountInv' /\ CalmInv' /\ DuckInv'
    BY <1>1, <1>2, UnspentFacts
    DEF MusicInv, CountInv, CalmInv, DuckInv, AnnouncedDucked, Upcoming, MinuteRunning,
        memory, history
  <1>4. KeptInv'
    BY <1>1, UnspentFacts
    DEF MusicInv, KeptInv, Faultless, TakenByMinute, Owed, Upcoming, memory, history
  <1> QED BY <1>3, <1>4 DEF MusicInv

LEMMA BeginAlertMusic ==
  ASSUME IInv, MusicInv, Unspent, BeginAlert
  PROVE  MusicInv'
  <1> DEFINE s == [st EXCEPT !.mode = "alert", !.clear_count = 0,
                             !.entry_announced = FALSE,
                             !.clear_announced = FALSE,
                             !.audio_snapshot = AlertSnapshot]
  <1>1. /\ pc = "begin" /\ ~IsAlert(st) /\ ~MinuteRunning
        /\ UNCHANGED <<minute, sink, history>>
    BY DEF BeginAlert, IInv, ControlInv, Ready, Upcoming, AlertExcludesMinute
  <1>2. CASE Persist(s, ctl, "enter", "loop") /\ UNCHANGED left
    <2>1. AlertSnapshot \in Snapshot
      BY Fields DEF AlertSnapshot, Snapshot
    <2>2. /\ s.mode = "alert" /\ s.clear_count = 0 /\ s.audio_snapshot = AlertSnapshot
          /\ s.minute_silence_snapshot = st.minute_silence_snapshot
          /\ s.minute_silence_active = st.minute_silence_active
      BY Fields DEF RuntimeState
    <2> HIDE DEF s
    <2>3. /\ st' = s /\ pc' = "save" /\ ctl'.ok = "enter"
          /\ ctl'.held = ctl.held /\ ctl'.recovering = ctl.recovering
      BY <1>2, Fields DEF Persist, ControlState
    <2>4. IsAlert(st')
      BY <2>2, <2>3 DEF IsAlert
    <2>5. CountInv'
      BY <1>1, <2>2, <2>3, Fields, UnspentFacts DEF MusicInv, CountInv, Upcoming, history
    <2>6. CalmInv' /\ DuckInv'
      BY <1>1, <2>2, <2>3, UnspentFacts
      DEF MusicInv, CalmInv, DuckInv, AnnouncedDucked, Upcoming, MinuteRunning, sink
    <2>7. KeptInv'
      <3> SUFFICES ASSUME Faultless' PROVE KeptInv'
        BY DEF KeptInv
      <3>1. Faultless
        BY <1>1, UnspentFacts DEF Faultless, history
      <3>2. AlertSnapshot = userLevel
        BY <1>1, <3>1
        DEF AlertSnapshot, MusicInv, KeptInv, Owed, TakenByMinute, MinuteRunning
      <3> QED
        BY <1>1, <2>2, <2>3, <2>4, <3>1, <3>2 DEF MusicInv, KeptInv, sink
    <2> QED BY <2>5, <2>6, <2>7 DEF MusicInv
  <1>3. CASE Spend("fault") /\ Goto("loop")
    BY <1>1, <1>3, UnspentFacts
    DEF MusicInv, CountInv, CalmInv, DuckInv, AnnouncedDucked, KeptInv, Upcoming, Goto,
        memory, sink, history
  <1> QED BY <1>2, <1>3 DEF BeginAlert

LEMMA SitesFields ==
  ASSUME ctl \in ControlState, NEW t \in BOOLEAN,
         NEW site \in {"begin", "continue", "clear"},
         ctl' = [ctl EXCEPT !.talkover = t, !.site = site]
  PROVE  /\ ctl'.talkover = t /\ ctl'.site = site
         /\ ctl'.held = ctl.held /\ ctl'.recovering = ctl.recovering
  BY DEF ControlState

LEMMA EnterAlertMusic ==
  ASSUME IInv, MusicInv, Unspent, EnterAlert \/ ContinueAlert
  PROVE  MusicInv'
  <1>1. /\ pc \in {"enter", "continue"} /\ IsAlert(st) /\ ~MinuteRunning
        /\ UNCHANGED memory /\ UNCHANGED <<minute, userLevel, mixPending, request, history>>
        /\ pc' \in {"announce", "settle", "loop"}
    BY DEF EnterAlert, ContinueAlert, IInv, ControlInv, Ready, Upcoming, AlertLabels,
           AlertExcludesMinute
  <1>2. \/ ctl' = ctl /\ pc' = "loop"
        \/ /\ ctl'.held = ctl.held /\ ctl'.recovering = ctl.recovering
           /\ ctl'.talkover = cfg.talkover /\ ctl'.site \in {"begin", "continue"}
    BY Fields, SitesFields DEF EnterAlert, ContinueAlert
  <1>3. pc' = "announce" /\ ~ctl'.talkover => music' = Ducked
    <2>1. CASE EnterAlert
      BY <2>1, Fields, SitesFields DEF EnterAlert, FadeDone
    <2>2. CASE ContinueAlert
      BY <2>2, Fields, SitesFields DEF ContinueAlert, FadeDone
    <2> QED BY <2>1, <2>2
  <1>4. CountInv' /\ CalmInv'
    BY <1>1, <1>2, UnspentFacts
    DEF MusicInv, CountInv, CalmInv, Upcoming, MinuteRunning, memory, history
  <1>5. DuckInv'
    BY <1>1, <1>3 DEF DuckInv, AnnouncedDucked, Ducked, memory
  <1>6. KeptInv'
    BY <1>1, <1>2, AlertKeeps DEF memory, history
  <1> QED BY <1>4, <1>5, <1>6 DEF MusicInv

LEMMA AnnounceStartMusic ==
  ASSUME IInv, MusicInv, Unspent, AnnounceStart
  PROVE  MusicInv'
  <1>1. /\ pc = "announce" /\ IsAlert(st) /\ ~MinuteRunning
        /\ UNCHANGED <<memory, ctl>>
        /\ UNCHANGED <<minute, userLevel, mixPending, request, history>>
        /\ pc' \in {"announcing", AnnounceFailed}
    BY DEF AnnounceStart, Goto, IInv, ControlInv, Ready, Upcoming, AlertLabels,
           AlertExcludesMinute
  <1>2. AnnounceFailed = IF ctl.site = "clear" THEN "clearRestore" ELSE "loop"
    BY DEF AnnounceFailed
  <1>3. pc' = "announcing" => music' = IF ctl.talkover THEN Ducked ELSE music
    BY <1>2 DEF AnnounceStart, Goto
  <1>4. CountInv' /\ CalmInv'
    BY <1>1, <1>2, UnspentFacts
    DEF MusicInv, CountInv, CalmInv, Upcoming, MinuteRunning, memory, history
  <1>5. DuckInv'
    BY <1>1, <1>2, <1>3, UnspentFacts DEF MusicInv, DuckInv, AnnouncedDucked, Ducked, memory
  <1>6. KeptInv'
    BY <1>1, AlertKeeps DEF memory, history
  <1> QED BY <1>4, <1>5, <1>6 DEF MusicInv

LEMMA AnnounceEndMusic ==
  ASSUME IInv, MusicInv, Unspent, AnnounceEnd
  PROVE  MusicInv'
  <1>1. /\ pc = "announcing" /\ IsAlert(st) /\ ~MinuteRunning
        /\ UNCHANGED <<minute, userLevel, mixPending, request, history>>
    BY DEF AnnounceEnd, IInv, ControlInv, Ready, Upcoming, AlertLabels, AlertExcludesMinute
  <1>2. CASE Goto(AnnounceFailed)
    <2>1. /\ pc' = IF ctl.site = "clear" THEN "clearRestore" ELSE "loop"
          /\ UNCHANGED <<memory, ctl>>
      BY <1>2 DEF AnnounceFailed, Goto
    <2>2. CountInv' /\ CalmInv' /\ DuckInv'
      BY <1>1, <2>1, UnspentFacts
      DEF MusicInv, CountInv, CalmInv, DuckInv, AnnouncedDucked, Upcoming, MinuteRunning,
          memory, history
    <2>3. KeptInv'
      BY <1>1, <2>1, AlertKeeps DEF memory, history
    <2> QED BY <2>2, <2>3 DEF MusicInv
  <1>3. CASE ~Goto(AnnounceFailed)
    <2>1. PICK ok \in {"loop", "settle", "clearRestore"} :
            /\ Persist(Announced(st), ctl, ok, "loop")
            /\ ok = "clearRestore" => ctl.site = "clear"
      BY <1>3, Fields DEF AnnounceEnd, ControlState
    <2>2. /\ st' = Announced(st) /\ pc' = "save" /\ ctl'.ok = ok
          /\ ctl'.held = ctl.held /\ ctl'.recovering = ctl.recovering
      BY <2>1, Fields DEF Persist, ControlState
    <2>3. /\ st'.clear_count = st.clear_count /\ IsAlert(st')
          /\ st'.minute_silence_active = st.minute_silence_active
          /\ st'.audio_snapshot = st.audio_snapshot
          /\ st'.minute_silence_snapshot = st.minute_silence_snapshot
      BY <1>1, <2>2, Fields, StateFields DEF IsAlert
    <2>4. CountInv' /\ CalmInv' /\ DuckInv'
      BY <1>1, <2>1, <2>2, <2>3, UnspentFacts
      DEF MusicInv, CountInv, CalmInv, DuckInv, AnnouncedDucked, Upcoming, MinuteRunning,
          history
    <2>5. KeptInv'
      BY <1>1, <2>2, <2>3, AlertKeeps DEF history
    <2> QED BY <2>4, <2>5 DEF MusicInv
  <1> QED BY <1>2, <1>3

LEMMA ClearAlertMusic ==
  ASSUME IInv, MusicInv, Unspent, ClearAlert
  PROVE  MusicInv'
  <1>1. pc = "clear" /\ IsAlert(st) /\ ~MinuteRunning /\ Upcoming = "clear"
    BY DEF ClearAlert, IInv, ControlInv, Ready, Upcoming, AlertLabels, AlertExcludesMinute
  <1>2. CASE st.minute_silence_active
    BY <1>1, <1>2, CancelMusic DEF ClearAlert
  <1>3. CASE ~st.minute_silence_active
    <2>1. /\ pc' \in {"clearRestore", "announce"}
          /\ UNCHANGED <<memory, minute, sink, left, history>>
      BY <1>3 DEF ClearAlert
    <2>2. /\ ctl'.held = ctl.held /\ ctl'.recovering = ctl.recovering /\ ctl'.site = "clear"
      BY <1>3, Fields, SitesFields DEF ClearAlert
    <2>3. CountInv' /\ CalmInv' /\ DuckInv'
      BY <1>1, <2>1, <2>2, UnspentFacts
      DEF MusicInv, CountInv, CalmInv, DuckInv, AnnouncedDucked, Upcoming, MinuteRunning,
          memory, sink, history
    <2>4. KeptInv'
      BY <1>1, <2>1, <2>2, AlertKeeps DEF memory, sink, history
    <2> QED BY <2>3, <2>4 DEF MusicInv
  <1> QED BY <1>2, <1>3

LEMMA ClearRestoreMusic ==
  ASSUME IInv, MusicInv, Unspent, ClearRestore
  PROVE  MusicInv'
  <1>1. /\ pc = "clearRestore" /\ IsAlert(st) /\ ~MinuteRunning
        /\ UNCHANGED <<minute, userLevel, mixPending, request, history>>
    BY DEF ClearRestore, IInv, ControlInv, Ready, Upcoming, AlertLabels, AlertExcludesMinute
  <1>2. /\ st' = ResetState(st) /\ pc' = "save" /\ ctl'.ok = "loop"
        /\ ctl'.held = ctl.held /\ ctl'.recovering = ctl.recovering
    BY Fields DEF ClearRestore, Persist, ControlState
  <1>3. /\ st'.clear_count = 0 /\ ~st'.minute_silence_active /\ ~IsAlert(st')
        /\ st'.audio_snapshot = None /\ st'.minute_silence_snapshot = None
    BY <1>2, Fields, StateFields, RuntimeStates
  <1>4. CountInv' /\ CalmInv' /\ DuckInv'
    BY <1>1, <1>2, <1>3, Fields, UnspentFacts
    DEF MusicInv, CountInv, CalmInv, DuckInv, AnnouncedDucked, Upcoming, MinuteRunning, history
  <1>5. KeptInv'
    <2> SUFFICES ASSUME Faultless' PROVE KeptInv'
      BY DEF KeptInv
    <2>1. Faultless /\ ~Spend("fault")
      BY <1>1, UnspentFacts DEF Faultless, history
    <2>2. st.audio_snapshot = userLevel /\ st.audio_snapshot # None
      BY <1>1, <2>1, Fields DEF MusicInv, KeptInv, Sound
    <2>3. music' = userLevel
      BY <2>1, <2>2, FadeOrFault DEF ClearRestore, RestoreLevel
    <2> QED
      BY <1>1, <1>2, <1>3, <2>1, <2>3 DEF MusicInv, KeptInv
  <1> QED BY <1>4, <1>5 DEF MusicInv

LEMMA ControllerMusic ==
  ASSUME IInv, MusicInv, Unspent, Controller
  PROVE  MusicInv'
  <1>1. CASE DeactivateCancel
    BY <1>1, OnErrorFacts, CancelMusic DEF DeactivateCancel
  <1>2. CASE StopMinute
    BY <1>2, CancelMusic DEF StopMinute
  <1>3. CASE Preempt
    BY <1>3, CancelMusic DEF Preempt
  <1> QED
    BY <1>1, <1>2, <1>3, SaveMusic, RecoverMusic, LoopMusic, DeactivateRestoreMusic,
       StopRestoreMusic, StartMinuteMusic, SpawnMinuteMusic, PollActiveMusic,
       PollClearMusic, ResaveMusic, HoldAlertMusic, BeginAlertMusic, EnterAlertMusic,
       AnnounceStartMusic, AnnounceEndMusic, ClearAlertMusic, ClearRestoreMusic
    DEF Controller

\* The minute's task runs in normal mode only: no announcement is near.
LEMMA MinuteAlone ==
  ASSUME IInv, MinuteRunning
  PROVE  ~IsAlert(st) /\ pc \notin AlertLabels /\ minute.snapshot # None
  BY DEF IInv, AlertExcludesMinute, ControlInv, Ready, Upcoming, AlertLabels, TaskInv

LEMMA MinuteTaskMusic ==
  ASSUME IInv, MusicInv, Unspent, MinuteTask, ~MinuteFinish, ~MinuteSave
  PROVE  MusicInv'
  <1>1. /\ MinuteRunning /\ UNCHANGED <<memory, pc, ctl, history>>
        /\ UNCHANGED <<userLevel, mixPending, request>>
    BY DEF MinuteTask, MinuteFade, MinutePlay, MinutePlayed, MinuteRestore, MinuteRunning, sink
  <1>2. PICK label \in {"play", "playing", "restore", "rescue", "finish"} :
          /\ MinuteGoto(label)
          /\ label = "play" => music' = Silent
          /\ label = "playing" => minute.pc = "play" /\ music' = music
          /\ label = "finish" => music' = MinuteTarget \/ Spend("fault")
    <2>1. CASE MinuteFade
      BY <2>1 DEF MinuteFade, FadeDone
    <2>2. CASE MinutePlay
      BY <2>2 DEF MinutePlay, sink
    <2>3. CASE MinutePlayed
      BY <2>3 DEF MinutePlayed
    <2>4. CASE MinuteRestore
      BY <2>4, FadeOrFault DEF MinuteRestore
    <2> QED BY <2>1, <2>2, <2>3, <2>4 DEF MinuteTask
  <1>3. minute'.pc = label /\ minute'.snapshot = minute.snapshot
    BY <1>2, Fields DEF MinuteGoto, MinuteState
  <1>4. CountInv' /\ DuckInv'
    BY <1>1, MinuteAlone, UnspentFacts
    DEF MusicInv, CountInv, DuckInv, AnnouncedDucked, Upcoming, AlertLabels, memory, history
  <1>5. CalmInv'
    BY <1>1, <1>2, <1>3, UnspentFacts DEF MusicInv, CalmInv, Upcoming, memory
  <1>6. KeptInv'
    <2> SUFFICES ASSUME Faultless' PROVE KeptInv'
      BY DEF KeptInv
    <2>1. Faultless /\ ~Spend("fault")
      BY <1>1, UnspentFacts DEF Faultless, history
    <2>2. minute.snapshot = userLevel /\ MinuteTarget = userLevel
      BY <1>1, <2>1, MinuteAlone DEF MinuteTarget, MusicInv, KeptInv
    <2>3. minute'.pc = "finish" => music' = userLevel
      BY <1>2, <1>3, <2>1, <2>2
    <2> QED
      BY <1>1, <1>2, <1>3, <2>1, <2>2, <2>3 DEF MusicInv, KeptInv, TakenByMinute, memory
  <1> QED BY <1>4, <1>5, <1>6 DEF MusicInv

LEMMA MinuteEndMusic ==
  ASSUME IInv, MusicInv, Unspent, MinuteFinish \/ MinuteSave
  PROVE  MusicInv'
  <1>1. /\ UNCHANGED <<pc, ctl, music, userLevel, mixPending, request, history>>
        /\ minute.pc \in {"finish", "save"} /\ minute'.pc \in {"save", "idle"}
        /\ minute'.snapshot = None /\ st' \in {st, WithoutMinute(st)}
    <2>1. CASE MinuteFinish
      BY <2>1 DEF MinuteFinish, IdleMinute, sink
    <2>2. CASE MinuteSave
      BY <2>2 DEF MinuteSave, IdleMinute, sink
    <2> QED BY <2>1, <2>2
  <1>2. /\ st'.clear_count = st.clear_count /\ (IsAlert(st') <=> IsAlert(st))
        /\ st'.minute_silence_active => st.minute_silence_active
        /\ st'.audio_snapshot = st.audio_snapshot
        /\ st'.minute_silence_snapshot \in {st.minute_silence_snapshot, None}
    <2>1. CASE st' = st
      BY <2>1
    <2>2. CASE st' = WithoutMinute(st)
      BY <2>2, Fields, StateFields, RuntimeStates DEF IsAlert
    <2> QED BY <1>1, <2>1, <2>2
  <1>3. CountInv' /\ CalmInv' /\ DuckInv'
    BY <1>1, <1>2, UnspentFacts
    DEF MusicInv, CountInv, CalmInv, DuckInv, AnnouncedDucked, Ducked, Upcoming, history
  <1>4. KeptInv'
    BY <1>1, <1>2, UnspentFacts
    DEF MusicInv, KeptInv, Faultless, TakenByMinute, Owed, Upcoming, history
  <1> QED BY <1>3, <1>4 DEF MusicInv

\* Each hand on MUSIC but the daemon's own is one of the hazards.
LEMMA EnvironmentMusic ==
  ASSUME IInv, MusicInv, Unspent, Environment
  PROVE  MusicInv'
  <1> USE DEF history
  <1>1. CASE RestoreUserMixer \/ ApplyLevel
    <2>1. /\ UNCHANGED <<memory, pc, ctl, minute, history>> /\ LockFree
          /\ mixPending \/ request # None
      BY <1>1 DEF RestoreUserMixer, ApplyLevel
    <2>2. ~Undisturbed
      BY <2>1 DEF MusicInv, CalmInv
    <2> QED
      BY <2>1, <2>2, UnspentFacts
      DEF MusicInv, CountInv, CalmInv, DuckInv, AnnouncedDucked, KeptInv, Faultless, Upcoming,
          memory, LockFree, Playing
  <1>2. CASE GraphRestart \/ \E l \in Level : RequestLevel(l)
    <2>1. /\ UNCHANGED <<memory, pc, ctl, minute, history>>
          /\ Spend("graph") \/ (Spend("request") /\ music' = music)
      <3>1. CASE GraphRestart
        BY <3>1 DEF GraphRestart
      <3>2. CASE \E l \in Level : RequestLevel(l)
        <4>1. PICK l \in Level : RequestLevel(l)
          BY <3>2
        <4>2. Spend("request") /\ music' = music
          BY <4>1 DEF RequestLevel
        <4>3. UNCHANGED <<memory, pc, ctl, minute, history>>
          BY <4>1 DEF RequestLevel
        <4> QED BY <4>2, <4>3
      <3> QED BY <1>2, <3>1, <3>2
    <2> QED
      BY <2>1, UnspentFacts
      DEF MusicInv, CountInv, CalmInv, DuckInv, AnnouncedDucked, KeptInv, Faultless, Upcoming,
          memory
  <1>3. CASE Tick \/ \E new \in Settings : SaveSettings(new)
    <2>1. UNCHANGED <<memory, pc, ctl, minute, sink, history>>
      BY <1>3 DEF Tick, SaveSettings
    <2>2. CountInv' /\ CalmInv' /\ DuckInv'
      BY <2>1, UnspentFacts
      DEF MusicInv, CountInv, CalmInv, DuckInv, AnnouncedDucked, Ducked, Upcoming, memory, sink
    <2>3. KeptInv'
      BY <2>1, UnspentFacts
      DEF MusicInv, KeptInv, Faultless, TakenByMinute, Owed, Upcoming, memory, sink
    <2> QED BY <2>2, <2>3 DEF MusicInv
  <1>4. CASE Crash
    <2>1. Spend("crash") /\ pc' = "recover"
      BY <1>4 DEF Crash
    <2> QED
      BY <2>1, UnspentFacts
      DEF MusicInv, CountInv, CalmInv, DuckInv, AnnouncedDucked, KeptInv, Faultless, Upcoming
  <1> QED BY <1>1, <1>2, <1>3, <1>4 DEF Environment

LEMMA MusicStep == IInv /\ BudgetInv /\ MusicInv /\ [Next]_vars => MusicInv'
  <1> SUFFICES ASSUME IInv, BudgetInv, MusicInv, [Next]_vars PROVE MusicInv'
    OBVIOUS
  <1>1. Unspent
    BY Budgets DEF Unspent
  <1>2. CASE UNCHANGED vars
    <2>1. UNCHANGED <<memory, pc, ctl, minute, sink, left, history>>
      BY <1>2 DEF vars
    <2>2. CountInv' /\ CalmInv' /\ DuckInv'
      BY <1>1, <2>1, UnspentFacts
      DEF MusicInv, CountInv, CalmInv, DuckInv, AnnouncedDucked, Ducked, Upcoming, memory, sink,
          history
    <2>3. KeptInv'
      BY <1>1, <2>1, UnspentFacts
      DEF MusicInv, KeptInv, Faultless, TakenByMinute, Owed, Upcoming, memory, sink, history
    <2> QED BY <2>2, <2>3 DEF MusicInv
  <1> QED
    BY <1>1, <1>2, ControllerMusic, MinuteTaskMusic, MinuteEndMusic, EnvironmentMusic
    DEF Next

LEMMA InitialMusic == Init => BudgetInv /\ MusicInv
  <1> SUFFICES ASSUME Init PROVE BudgetInv /\ MusicInv
    OBVIOUS
  <1>1. BudgetInv
    BY DEF Init, BudgetInv
  <1>2. pc = "recover" /\ st = DefaultState /\ minute = IdleMinute /\ ctl = StartControl
    BY DEF Init
  <1>3. /\ st.clear_count = 0 /\ st.audio_snapshot = None /\ st.minute_silence_snapshot = None
        /\ ~IsAlert(st) /\ ~st.minute_silence_active
    BY <1>2 DEF DefaultState, IsAlert
  <1>4. minute.pc = "idle" /\ minute.snapshot = None
    BY <1>2 DEF IdleMinute
  <1>5. ctl.held = None
    BY <1>2 DEF StartControl, IdleControl
  <1>6. CountInv /\ CalmInv /\ DuckInv
    BY <1>2, <1>3, <1>4
    DEF Init, CountInv, CalmInv, DuckInv, AnnouncedDucked, Upcoming, Undisturbed
  <1>7. KeptInv
    BY <1>3, <1>4, <1>5 DEF Init, KeptInv, Faultless, Undisturbed
  <1> QED BY <1>1, <1>6, <1>7 DEF MusicInv

LEMMA MusicInductive == Spec => [](IInv /\ BudgetInv /\ MusicInv)
  <1>1. IInv /\ BudgetInv /\ MusicInv /\ [Next]_vars => (IInv /\ BudgetInv /\ MusicInv)'
    BY InductiveStep, Budgets, MusicStep
  <1> QED BY <1>1, InitialInv, InitialMusic, PTL DEF Spec

\* Whatever fails before it, an announcement is heard over MUSIC at the ducked
\* level: under talkover as long as the sinks are the same, without it as long
\* as no other hand has moved MUSIC.
THEOREM AlertOverDuckedMusic == Spec => []AnnouncedDucked
  <1>1. IInv /\ BudgetInv /\ MusicInv => AnnouncedDucked
    BY DEF MusicInv, DuckInv
  <1> QED BY <1>1, MusicInductive, PTL

\* The minute's file is heard over silence, whatever fails before it and
\* whatever the controller is doing meanwhile.
THEOREM SilenceInTheMinute == Spec => []MinuteIsSilent
  <1>1. IInv /\ BudgetInv /\ MusicInv => MinuteIsSilent
    BY DEF MusicInv, CalmInv, MinuteIsSilent
  <1> QED BY <1>1, MusicInductive, PTL

\* An undisturbed daemon with nothing in progress has given MUSIC back to the
\* user, however alerts, minutes, cancellations and settings were interleaved,
\* unless a restore had no snapshot to go by.
THEOREM MusicIsGivenBack == Spec => []UserLevelKept
  <1>1. IInv /\ BudgetInv /\ MusicInv => UserLevelKept
    BY DEF MusicInv, KeptInv, UserLevelKept, AtRest, Faultless, TakenByMinute, Owed, Upcoming,
           MinuteRunning
  <1> QED BY <1>1, MusicInductive, PTL

\* No alert ends before clear_confirmations clear results in a row, whatever
\* saves, fades and announcements fail between them.
THEOREM OnlyConfirmedClears == Spec => ClearIsConfirmed
  <1> DEFINE Confirmed == Uninterrupted /\ pc = "clearRestore" /\ ~IsAlert(st)'
                           => quiet >= Confirmations
  <1>1. MusicInv /\ Uninterrupted /\ pc = "clearRestore" => quiet >= Confirmations
    BY DEF MusicInv, CountInv, Upcoming
  <1>2. IInv /\ BudgetInv /\ MusicInv /\ [Next]_vars => [Confirmed]_vars
    BY <1>1
  <1> QED BY <1>2, MusicInductive, PTL DEF Spec, ClearIsConfirmed

-----------------------------------------------------------------------------
(* KeepsModes.                                                                *)

\* An alert begins before the next answer is asked for.
Begins == Upcoming \in {"preempt", "begin"}

AnswerInv == Begins => quiet = 0

LEMMA StateModes ==
  ASSUME NEW s \in RuntimeState
  PROVE  /\ ModeOf(WithoutClears(s)) = ModeOf(s)
         /\ ModeOf(Announced(s)) = ModeOf(s)
         /\ ModeOf(ResetState(s)) = "normal"
         /\ IsAlert(s) => ModeOf(WithoutMinute(s)) = ModeOf(s)
         /\ ~IsAlert(s) => ModeOf(WithoutMinute(s)) = "normal"
         /\ ModeOf(s) \in {"alert", "minute", "normal"}
  BY RuntimeStates, StateFields DEF ModeOf, IsAlert

\* What a step of the controller adds to the modes about to be saved.
Copies == ModesToSave' \subseteq ModesToSave \cup {ModeOf(st')}

LEMMA PersistCopies ==
  ASSUME NEW s, NEW locals \in ControlState, NEW ok, NEW ko, Persist(s, locals, ok, ko),
         minute'.pc = "save" => minute' = minute
  PROVE  st' = s /\ disk' = disk /\ Upcoming' = ok /\ Copies
  <1>1. st' = s /\ disk' = disk /\ pc' = "save" /\ ctl'.copy = s /\ ctl'.ok = ok
    BY DEF Persist, ControlState
  <1>2. Upcoming' = ok
    BY <1>1 DEF Upcoming
  <1>3. Copies
    BY <1>1 DEF Copies, ModesToSave
  <1> QED BY <1>1, <1>2, <1>3

LEMMA GotoCopies ==
  ASSUME pc # "save", NEW label, label # "save", pc' = label,
         (minute.pc = "save" \/ minute'.pc = "save") => minute' = minute
  PROVE  /\ Upcoming = pc /\ Upcoming' = label /\ UNCHANGED ModesToSave /\ Copies
  BY DEF Upcoming, ModesToSave, Copies

\* Of a step that answers nothing, starts nothing, saves nothing and finds
\* nothing switched off, this is what PriorityModes can see.
Steady ==
  /\ UNCHANGED <<disk, quiet, cfg, played, Uninterrupted, Asked>> /\ Copies
  /\ Begins' => Begins

Shown ==
  \/ UNCHANGED <<ModeOf(st), Leaving>>
  \/ UNCHANGED Leaving /\ ModeOf(st) = "minute" /\ ModeOf(st') = "normal"
  \/ Leaving /\ ~Leaving' /\ ModeOf(st') \in {ModeOf(st), "normal"}
  \/ /\ ~Leaving /\ ~Leaving'
     /\ \/ ModeOf(st) = "normal" /\ ModeOf(st') = "alert" /\ quiet = 0
        \/ ModeOf(st) = "alert" /\ ModeOf(st') = "normal"
           /\ (quiet >= Confirmations \/ ~Uninterrupted)
        \/ ModeOf(st) = "normal" /\ ModeOf(st') = "minute"

LEMMA ShownStep == Steady /\ Shown => Modes!Next
  <1> SUFFICES ASSUME Steady, Shown PROVE Modes!Next
    OBVIOUS
  <1> USE DEF Steady, Copies, Modes!Copied
  <1>1. CASE UNCHANGED <<ModeOf(st), Leaving>>
    BY <1>1 DEF Modes!Next, Modes!Copy
  <1>2. CASE UNCHANGED Leaving /\ ModeOf(st) = "minute" /\ ModeOf(st') = "normal"
    BY <1>2 DEF Modes!Next, Modes!Over
  <1>3. CASE Leaving /\ ~Leaving' /\ ModeOf(st') \in {ModeOf(st), "normal"}
    BY <1>3 DEF Modes!Next, Modes!Leave
  <1>4. CASE ~Leaving /\ ~Leaving' /\ ModeOf(st) = "normal" /\ ModeOf(st') = "alert"
             /\ quiet = 0
    BY <1>4 DEF Modes!Next, Modes!Alert, Leaving
  <1>5. CASE ~Leaving /\ ~Leaving' /\ ModeOf(st) = "alert" /\ ModeOf(st') = "normal"
             /\ (quiet >= Confirmations \/ ~Uninterrupted)
    BY <1>5 DEF Modes!Next, Modes!Clear, Leaving
  <1>6. CASE ~Leaving /\ ~Leaving' /\ ModeOf(st) = "normal" /\ ModeOf(st') = "minute"
    BY <1>6 DEF Modes!Next, Modes!Minute, Leaving
  <1> QED BY <1>1, <1>2, <1>3, <1>4, <1>5, <1>6 DEF Shown

\* Only a crash spends a crash.
LEMMA NoCrash ==
  ASSUME IInv, Controller \/ MinuteTask \/ (Environment /\ ~Crash)
  PROVE  UNCHANGED Uninterrupted
  <1>1. left \in [Hazard -> Nat]
    BY Fields
  <1>2. CASE left' = left
    BY <1>2 DEF Uninterrupted
  <1>3. ASSUME NEW h \in Hazard \ {"crash"}, Spend(h) PROVE UNCHANGED Uninterrupted
    BY <1>1, <1>3 DEF Spend, Uninterrupted, Hazard
  <1> DEFINE Spares == \/ left' = left \/ Spend("fault") \/ Spend("setting")
                       \/ Spend("request") \/ Spend("graph")
  <1>4. Spares => UNCHANGED Uninterrupted
    BY <1>2, <1>3 DEF Hazard
  <1>5. CASE Controller
    <2> USE DEF FadeDone, FadeFails
    <2>1. CancelMinute("stopRestore", "poll") \/ CancelMinute("begin", "loop")
          \/ CancelMinute("deactivateRestore", OnError) \/ CancelMinute("clear", "loop")
            => Spares
      BY DEF CancelMinute
    <2>2. Save \/ Recover \/ RecoverAudio \/ Deactivate \/ DeactivateRestore \/ Loop
            => Spares
      BY DEF Save, Recover, RecoverAudio, Deactivate, DeactivateRestore, Loop
    <2>3. StopRestore \/ StartMinute \/ SpawnMinute \/ PollNotDue \/ PollDisabled
          \/ PollAsks \/ PollActive \/ PollClear \/ PollError => Spares
      BY DEF StopRestore, StartMinute, SpawnMinute, PollNotDue, PollDisabled, PollAsks,
             PollActive, PollClear, PollError
    <2>4. HoldAlert \/ BeginAlert \/ EnterAlert \/ ContinueAlert \/ Settle => Spares
      BY DEF HoldAlert, BeginAlert, EnterAlert, ContinueAlert, Settle
    <2>5. AnnounceStart \/ AnnounceEnd \/ ClearRestore
          \/ (ClearAlert /\ ~st.minute_silence_active) => Spares
      BY DEF AnnounceStart, AnnounceEnd, ClearRestore, ClearAlert
    <2>6. Spares
      <3> HIDE DEF Spares
      <3> QED
        BY <1>5, <2>1, <2>2, <2>3, <2>4, <2>5
        DEF Controller, StopMinute, DeactivateCancel, Preempt, ClearAlert
    <2> QED BY <1>4, <2>6
  <1>6. CASE MinuteTask
    <2>1. Spares
      BY <1>6
      DEF MinuteTask, MinuteFade, MinutePlay, MinutePlayed, MinuteRestore, MinuteFinish,
          MinuteSave, FadeDone, FadeFails
    <2> QED BY <1>4, <2>1
  <1>7. CASE Environment /\ ~Crash
    <2>1. Spares
      BY <1>7
      DEF Environment, RestoreUserMixer, GraphRestart, ApplyLevel, Tick, RequestLevel,
          SaveSettings
    <2> QED BY <1>4, <2>1
  <1> QED BY <1>5, <1>6, <1>7

\* Only run_once asks, and takes the answer.
LEMMA AskedKept ==
  ASSUME IInv, Controller, ~PollAsks, ~PollActive, ~PollClear, ~PollError
  PROVE  UNCHANGED Asked
  <1> DEFINE Elsewhere == pc # "fetch" /\ pc' # "fetch"
  <1>1. Save => Elsewhere
    BY DEF Save, IInv, ControlInv
  <1>2. Recover \/ RecoverAudio \/ Deactivate \/ DeactivateRestore \/ Loop => Elsewhere
    BY DEF Recover, RecoverAudio, Deactivate, DeactivateRestore, Loop, Persist, Goto, OnError
  <1>3. DeactivateCancel \/ StopMinute \/ Preempt => Elsewhere
    BY DEF DeactivateCancel, StopMinute, Preempt, CancelMinute, Persist
  <1>4. StopRestore \/ StartMinute \/ SpawnMinute \/ PollNotDue \/ PollDisabled => Elsewhere
    BY DEF StopRestore, StartMinute, SpawnMinute, PollNotDue, PollDisabled, Persist, Goto
  <1>5. HoldAlert \/ BeginAlert \/ EnterAlert \/ ContinueAlert \/ Settle => Elsewhere
    BY DEF HoldAlert, BeginAlert, EnterAlert, ContinueAlert, Settle, Persist, Goto
  <1>6. AnnounceStart \/ AnnounceEnd \/ ClearAlert \/ ClearRestore => Elsewhere
    BY DEF AnnounceStart, AnnounceEnd, AnnounceFailed, ClearAlert, ClearRestore, CancelMinute,
           Persist, Goto
  <1>7. Elsewhere
    <2> HIDE DEF Elsewhere
    <2> QED BY <1>1, <1>2, <1>3, <1>4, <1>5, <1>6 DEF Controller
  <1> QED BY <1>7 DEF Asked

LeavingLabels == {"deactivate", "deactivateCancel", "deactivateRestore"}

\* A step that only goes on: it may give up leaving, and does not begin it.
LEMMA WalkShown ==
  ASSUME pc # "save", NEW label, label # "save", pc' = label,
         label \in LeavingLabels => pc \in LeavingLabels, label \notin {"preempt", "begin"},
         UNCHANGED <<memory, minute, quiet, cfg, played, Uninterrupted, Asked>>
  PROVE  Steady /\ Shown
  <1>1. Upcoming = pc /\ Upcoming' = label /\ Copies
    BY GotoCopies
  <1>2. (Leaving <=> pc \in LeavingLabels) /\ (Leaving' <=> label \in LeavingLabels)
    BY <1>1 DEF Leaving, LeavingLabels
  <1>3. UNCHANGED Leaving \/ (Leaving /\ ~Leaving')
    BY <1>2 DEF Leaving
  <1> QED BY <1>1, <1>3 DEF Steady, Shown, Begins, memory

\* One that saves the state in the mode it has.
LEMMA SavedShown ==
  ASSUME pc # "save", NEW s, NEW locals \in ControlState, NEW ok, NEW ko,
         Persist(s, locals, ok, ko), ModeOf(s) = ModeOf(st),
         pc \notin LeavingLabels, ok \notin LeavingLabels \cup {"preempt", "begin"},
         UNCHANGED <<minute, quiet, cfg, played, Uninterrupted, Asked>>
  PROVE  Steady /\ Shown
  <1>1. st' = s /\ disk' = disk /\ Upcoming' = ok /\ Copies /\ Upcoming = pc
    BY PersistCopies DEF Upcoming
  <1>2. UNCHANGED Leaving
    BY <1>1 DEF Leaving, LeavingLabels
  <1> QED BY <1>1, <1>2 DEF Steady, Shown, Begins

LEMMA CancelShown ==
  ASSUME IInv, NEW ok, NEW ko, CancelMinute(ok, ko), pc # "save",
         pc \in LeavingLabels <=> ok \in LeavingLabels, ok = "begin" => pc = "preempt",
         ok # "preempt", UNCHANGED <<Uninterrupted, Asked>>
  PROVE  Steady /\ Shown
  <1> DEFINE locals == [ctl EXCEPT !.held = st.minute_silence_snapshot]
  <1>1. Persist(WithoutMinute(st), locals, ok, ko) /\ minute' = IdleMinute
        /\ minute.pc # "save" /\ UNCHANGED <<quiet, cfg, played>>
    BY DEF CancelMinute, AbortedMinute, env, history
  <1>2. locals \in ControlState
    BY Fields, HeldFacts
  <1>3. minute'.pc # "save"
    BY <1>1, IdleMinuteFacts
  <1> HIDE DEF locals
  <1>4. st' = WithoutMinute(st) /\ disk' = disk /\ Upcoming' = ok /\ Copies /\ Upcoming = pc
    BY <1>1, <1>2, <1>3, PersistCopies DEF Upcoming
  <1>5. UNCHANGED Leaving
    BY <1>4 DEF Leaving, LeavingLabels
  <1>6. \/ ModeOf(st') = ModeOf(st)
        \/ ModeOf(st) = "minute" /\ ModeOf(st') = "normal"
    <2>1. CASE IsAlert(st)
      BY <1>4, <2>1, Fields, StateModes
    <2>2. CASE ~IsAlert(st)
      <3>1. ModeOf(st') = "normal" /\ ModeOf(st) \in {"minute", "normal"}
        BY <1>4, <2>2, Fields, StateModes DEF ModeOf
      <3> QED BY <3>1
    <2> QED BY <2>1, <2>2
  <1> QED BY <1>1, <1>4, <1>5, <1>6 DEF Steady, Shown, Begins

\* A look at the settings that finds notifications off.
FindsOff == (Recover \/ Loop \/ PollDisabled) /\ Leaving'

\* All steps of the controller but those that ask, answer, start a minute, save or
\* find notifications off.
LEMMA ControllerShown ==
  ASSUME IInv, CountInv, AnswerInv, Controller,
         ~Save, ~PollAsks, ~PollActive, ~PollClear, ~PollError, ~SpawnMinute, ~FindsOff
  PROVE  Steady /\ Shown
  <1>1. UNCHANGED <<Uninterrupted, Asked>>
    BY NoCrash, AskedKept
  <1> USE <1>1 DEF LeavingLabels
  <1>2. CASE Recover
    <2>1. CASE ~cfg.enabled
      <3>1. Upcoming = "recover" /\ Upcoming' = "deactivate"
        BY <1>2, <2>1 DEF Recover, Goto, Upcoming
      <3> QED BY <1>2, <3>1 DEF Leaving, FindsOff
    <2>2. CASE cfg.enabled /\ st.minute_silence_active
      <3> DEFINE locals == [ctl EXCEPT !.held = st.minute_silence_snapshot]
      <3>1. /\ Persist(WithoutMinute(st), locals, "recoverAudio", "recover") /\ pc = "recover"
            /\ UNCHANGED <<minute, quiet, cfg, played>>
        BY <1>2, <2>2 DEF Recover, env, history
      <3>2. locals \in ControlState
        BY Fields, HeldFacts
      <3> HIDE DEF locals
      <3>3. st' = WithoutMinute(st) /\ disk' = disk /\ Copies
            /\ Upcoming' = "recoverAudio" /\ Upcoming = "recover"
        BY <3>1, <3>2, PersistCopies DEF Upcoming
      <3>4. UNCHANGED Leaving
        BY <3>3 DEF Leaving
      <3>5. ModeOf(st) = "minute" /\ ModeOf(st') = "normal"
        BY <2>2, <3>3, Fields, StateModes DEF ModeOf, IInv, AlertExcludesMinute
      <3> QED BY <3>1, <3>3, <3>4, <3>5 DEF Steady, Shown, Begins
    <2>3. CASE cfg.enabled /\ ~st.minute_silence_active
      <3> DEFINE label == IF IsAlert(st) THEN "recoverAudio" ELSE "loop"
      <3>1. pc = "recover" /\ pc' = label /\ UNCHANGED <<memory, minute, quiet, cfg, played>>
        BY <1>2, <2>3 DEF Recover, Goto, env, history
      <3>2. label \in {"recoverAudio", "loop"}
        OBVIOUS
      <3> HIDE DEF label
      <3> QED BY <3>1, <3>2, WalkShown
    <2> QED BY <2>1, <2>2, <2>3
  <1>3. CASE RecoverAudio \/ StopRestore \/ HoldAlert \/ EnterAlert \/ ContinueAlert
    <2>1. /\ pc \in {"recoverAudio", "stopRestore", "hold", "enter", "continue"}
          /\ pc' \in {"loop", "recover", "poll", "announce", "settle"}
          /\ UNCHANGED <<memory, minute, quiet, cfg, played>>
      BY <1>3
      DEF RecoverAudio, StopRestore, HoldAlert, EnterAlert, ContinueAlert, Goto, env, history
    <2> QED BY <2>1, WalkShown
  <1>4. CASE AnnounceStart \/ PollNotDue
    <2>1. /\ pc \in {"announce", "poll"} /\ pc' \in {"announcing", "clearRestore", "loop"}
          /\ UNCHANGED <<memory, minute, quiet, cfg, played>>
      BY <1>4 DEF AnnounceStart, AnnounceFailed, PollNotDue, Goto, env, history
    <2> QED BY <2>1, WalkShown
  <1>5. CASE Deactivate
    <2>1. /\ pc = "deactivate" /\ pc' \in {"deactivateCancel", "deactivateRestore", "loop"}
          /\ UNCHANGED <<memory, minute, quiet, cfg, played>>
      BY <1>5 DEF Deactivate, env, history
    <2> QED BY <2>1, WalkShown
  <1>6. CASE Loop \/ PollDisabled
    <2>1. /\ pc \in {"loop", "poll"}
          /\ pc' \in {"deactivate", "stopMinute", "poll", "startMinute"}
          /\ UNCHANGED <<memory, minute, quiet, cfg, played>>
      BY <1>6 DEF Loop, PollDisabled, Goto, env, history
    <2>2. pc' # "deactivate"
      <3>1. SUFFICES ASSUME pc' = "deactivate" PROVE FALSE
        OBVIOUS
      <3>2. Upcoming = pc /\ Upcoming' = "deactivate"
        BY <2>1, <3>1 DEF Upcoming
      <3> QED BY <1>6, <3>2 DEF Leaving, FindsOff
    <2> QED BY <2>1, <2>2, WalkShown
  <1>7. CASE DeactivateCancel \/ StopMinute \/ Preempt
    <2>1. CASE DeactivateCancel
      BY <2>1, CancelShown DEF DeactivateCancel
    <2>2. CASE StopMinute
      BY <2>2, CancelShown DEF StopMinute
    <2>3. CASE Preempt
      BY <2>3, CancelShown DEF Preempt
    <2> QED BY <1>7, <2>1, <2>2, <2>3
  <1>8. CASE DeactivateRestore
    <2>1. pc = "deactivateRestore" /\ UNCHANGED <<minute, quiet, cfg, played>>
      BY <1>8 DEF DeactivateRestore, env
    <2>2. CASE Goto(OnError)
      <3>1. pc' \in {"recover", "loop"} /\ UNCHANGED memory
        BY <2>2 DEF Goto, OnError
      <3> QED BY <2>1, <3>1, WalkShown
    <2>3. CASE Persist(ResetState(st), ctl, "loop", OnError)
      <3>1. st' = ResetState(st) /\ disk' = disk /\ Copies
            /\ Upcoming' = "loop" /\ Upcoming = "deactivateRestore"
        BY <2>1, <2>3, Fields, PersistCopies DEF Upcoming
      <3>2. Leaving /\ ~Leaving'
        BY <3>1 DEF Leaving
      <3>3. ModeOf(st') = "normal"
        BY <3>1, Fields, StateModes
      <3> QED BY <2>1, <3>1, <3>2, <3>3 DEF Steady, Shown, Begins
    <2> QED BY <1>8, <2>2, <2>3 DEF DeactivateRestore
  <1>9. CASE StartMinute
    <2>1. pc = "startMinute" /\ UNCHANGED <<minute, quiet, cfg, played>>
      BY <1>9 DEF StartMinute, env, history
    <2>2. CASE Goto("poll")
      BY <2>1, <2>2, WalkShown DEF Goto
    <2>3. CASE ~Goto("poll")
      <3> DEFINE s == [st EXCEPT !.last_minute_silence_date = clock.day,
                                 !.minute_silence_active    = TRUE,
                                 !.minute_silence_snapshot  = music]
                 locals == [ctl EXCEPT !.talkover = cfg.talkover]
      <3>1. Persist(s, locals, "spawn", "poll")
        BY <1>9, <2>3 DEF StartMinute
      <3>2. locals \in ControlState
        BY Fields DEF ControlState
      <3>3. ~IsAlert(st)
        BY <2>1 DEF IInv, ControlInv, Upcoming, Ready
      <3>4. ModeOf(s) = "minute"
        BY <3>3, Fields DEF ModeOf, IsAlert, RuntimeState
      <3>5. ModeOf(st) \in {"normal", "minute"}
        BY <3>3 DEF ModeOf
      <3> HIDE DEF s, locals
      <3>6. st' = s /\ disk' = disk /\ Copies /\ Upcoming' = "spawn" /\ Upcoming = "startMinute"
        BY <2>1, <3>1, <3>2, PersistCopies DEF Upcoming
      <3>7. ~Leaving /\ ~Leaving' /\ UNCHANGED Leaving
        BY <3>6 DEF Leaving
      <3> QED BY <2>1, <3>4, <3>5, <3>6, <3>7 DEF Steady, Shown, Begins
    <2> QED BY <2>2, <2>3
  <1>10. CASE Settle \/ AnnounceEnd
    <2>1. /\ pc \in {"settle", "announcing"}
          /\ UNCHANGED <<minute, quiet, cfg, played>>
      BY <1>10 DEF Settle, AnnounceEnd, env, history
    <2>2. CASE Settle
      BY <2>1, <2>2, Fields, SavedShown DEF Settle
    <2>3. CASE AnnounceEnd
      <3>1. CASE Goto(AnnounceFailed)
        BY <2>1, <3>1, WalkShown DEF Goto, AnnounceFailed
      <3>2. CASE ~Goto(AnnounceFailed)
        <4>1. PICK ok \in {"loop", "settle", "clearRestore"} :
                Persist(Announced(st), ctl, ok, "loop")
          BY <2>3, <3>2, Fields DEF AnnounceEnd, ControlState
        <4> QED BY <2>1, <4>1, Fields, StateModes, SavedShown
      <3> QED BY <3>1, <3>2
    <2> QED BY <1>10, <2>2, <2>3
  <1>11. CASE BeginAlert
    <2>1. pc = "begin" /\ UNCHANGED <<minute, quiet, cfg, played>>
      BY <1>11 DEF BeginAlert, env, history
    <2>2. CASE Goto("loop")
      BY <2>1, <2>2, WalkShown DEF Goto
    <2>3. CASE ~Goto("loop")
      <3> DEFINE s == [st EXCEPT !.mode = "alert", !.clear_count = 0,
                                 !.entry_announced = FALSE,
                                 !.clear_announced = FALSE,
                                 !.audio_snapshot = AlertSnapshot]
      <3>1. Persist(s, ctl, "enter", "loop")
        BY <1>11, <2>3 DEF BeginAlert
      <3>2. ModeOf(s) = "alert"
        BY Fields DEF ModeOf, IsAlert, RuntimeState
      <3>3. ModeOf(st) = "normal"
        BY <2>1 DEF IInv, ControlInv, Upcoming, Ready, ModeOf
      <3> HIDE DEF s
      <3>4. st' = s /\ disk' = disk /\ Copies /\ Upcoming' = "enter" /\ Upcoming = "begin"
        BY <2>1, <3>1, Fields, PersistCopies DEF Upcoming
      <3>5. ~Leaving /\ ~Leaving' /\ quiet = 0
        BY <3>4 DEF Leaving, AnswerInv, Begins
      <3> QED BY <2>1, <3>2, <3>3, <3>4, <3>5 DEF Steady, Shown, Begins
    <2> QED BY <2>2, <2>3
  <1>12. CASE ClearAlert
    <2>1. CASE st.minute_silence_active
      BY <1>12, <2>1, CancelShown DEF ClearAlert
    <2>2. CASE ~st.minute_silence_active
      <3>1. /\ pc = "clear" /\ pc' \in {"clearRestore", "announce"}
            /\ UNCHANGED <<memory, minute, quiet, cfg, played>>
        BY <1>12, <2>2 DEF ClearAlert, env, history
      <3> QED BY <3>1, WalkShown
    <2> QED BY <2>1, <2>2
  <1>13. CASE ClearRestore
    <2>1. /\ pc = "clearRestore" /\ UNCHANGED <<minute, quiet, cfg, played>>
          /\ Persist(ResetState(st), ctl, "loop", "loop")
      BY <1>13 DEF ClearRestore, env, history
    <2>2. st' = ResetState(st) /\ disk' = disk /\ Copies
          /\ Upcoming' = "loop" /\ Upcoming = "clearRestore"
      BY <2>1, Fields, PersistCopies DEF Upcoming
    <2>3. ModeOf(st') = "normal" /\ ModeOf(st) = "alert"
      BY <2>2, Fields, StateModes DEF ModeOf, IInv, ControlInv, Ready, AlertLabels
    <2>4. Uninterrupted => quiet >= Confirmations
      BY <2>2, Fields DEF CountInv
    <2>5. ~Leaving /\ ~Leaving'
      BY <2>2 DEF Leaving
    <2> QED BY <2>1, <2>2, <2>3, <2>4, <2>5 DEF Steady, Shown, Begins
  <1> QED
    BY <1>2, <1>3, <1>4, <1>5, <1>6, <1>7, <1>8, <1>9, <1>10, <1>11, <1>12, <1>13
    DEF Controller

\* The other steps of the controller, as PriorityModes sees them.
LEMMA FindsOffStep ==
  ASSUME IInv, FindsOff
  PROVE  Modes!FoundOff /\ ~Begins'
  <1>1. Controller /\ ~Save
    BY DEF FindsOff, Controller, Recover, Loop, PollDisabled, Save
  <1>2. UNCHANGED <<Uninterrupted, Asked>>
    <2>1. ~PollAsks /\ ~PollActive /\ ~PollClear /\ ~PollError
      BY DEF FindsOff, Recover, Loop, PollDisabled, PollAsks, PollActive, PollClear, PollError
    <2> QED BY <1>1, <2>1, NoCrash, AskedKept
  <1>3. /\ ~cfg.enabled /\ pc \in {"recover", "loop", "poll"} /\ pc' = "deactivate"
        /\ UNCHANGED <<memory, minute, quiet, cfg, played>>
    <2>1. CASE Recover
      <3>1. CASE cfg.enabled /\ st.minute_silence_active
        <4>1. Upcoming' = "recoverAudio"
          BY <2>1, <3>1, Fields, HeldFacts DEF Recover, Persist, ControlState, Upcoming
        <4> QED BY <4>1 DEF FindsOff, Leaving
      <3>2. CASE cfg.enabled /\ ~st.minute_silence_active
        <4>1. Upcoming' \in {"recoverAudio", "loop"}
          BY <2>1, <3>2 DEF Recover, Goto, Upcoming
        <4> QED BY <4>1 DEF FindsOff, Leaving
      <3>3. CASE ~cfg.enabled
        BY <2>1, <3>3 DEF Recover, Goto, env, history, memory
      <3> QED BY <3>1, <3>2, <3>3
    <2>2. CASE Loop
      <3>1. pc = "loop" /\ pc' \in {"deactivate", "stopMinute", "poll", "startMinute"}
            /\ (cfg.enabled => pc' # "deactivate")
            /\ UNCHANGED <<memory, minute, quiet, cfg, played>>
        BY <2>2 DEF Loop, env, history
      <3>2. pc' = "deactivate"
        BY <3>1 DEF FindsOff, Leaving, Upcoming
      <3> QED BY <3>1, <3>2
    <2>3. CASE PollDisabled
      BY <2>3 DEF PollDisabled, Goto, env, history, memory
    <2> QED BY <2>1, <2>2, <2>3 DEF FindsOff
  <1>4. /\ Upcoming' = "deactivate" /\ UNCHANGED ModesToSave
    BY <1>3, GotoCopies
  <1>5. Leaving' = TRUE
    BY <1>4 DEF Leaving
  <1> QED BY <1>2, <1>3, <1>4, <1>5 DEF Modes!FoundOff, Begins, memory

LEMMA AskStep ==
  ASSUME IInv, PollAsks
  PROVE  Modes!Ask /\ ~Begins'
  <1>1. UNCHANGED Uninterrupted
    BY NoCrash DEF Controller
  <1>2. /\ cfg.enabled /\ pc = "poll" /\ pc' = "fetch"
        /\ UNCHANGED <<memory, minute, quiet, cfg, played>>
    BY DEF PollAsks, Goto, env, history, memory
  <1>3. Upcoming = "poll" /\ Upcoming' = "fetch" /\ UNCHANGED ModesToSave
    BY <1>2, GotoCopies
  <1>4. ~Leaving /\ UNCHANGED Leaving /\ ~Begins' /\ Asked' = TRUE
    BY <1>2, <1>3 DEF Leaving, Begins, Asked
  <1> QED BY <1>1, <1>2, <1>3, <1>4 DEF Modes!Ask, memory

LEMMA AnswerStep ==
  ASSUME IInv, PollActive \/ PollClear \/ PollError
  PROVE  Modes!Answer /\ AnswerInv'
  <1>1. UNCHANGED Uninterrupted
    BY NoCrash DEF Controller
  <1>2. pc = "fetch" /\ UNCHANGED <<minute, cfg, played>>
    BY DEF PollActive, PollClear, PollError, env, history
  <1>3. Upcoming = "fetch" /\ ~Leaving
    BY <1>2 DEF Upcoming, Leaving
  <1>6. Asked /\ Asked' = FALSE
    BY <1>2 DEF Asked, PollActive, PollClear, PollError, Persist
  <1>4. CASE PollActive
    <2>1. /\ pc' \in {"continue", "preempt", "begin"} /\ st' = WithoutClears(st)
          /\ disk' = disk /\ quiet' = 0
      BY <1>4 DEF PollActive
    <2>2. Upcoming' = pc' /\ UNCHANGED ModesToSave
      BY <1>2, <2>1, GotoCopies
    <2>3. UNCHANGED Leaving /\ AnswerInv'
      BY <1>3, <2>1, <2>2 DEF Leaving, AnswerInv
    <2>4. ModeOf(st') = ModeOf(st)
      BY <2>1, Fields, StateModes
    <2> QED BY <1>1, <1>2, <1>6, <2>1, <2>2, <2>3, <2>4 DEF Modes!Answer, Modes!Copied
  <1>5. CASE PollClear
    <2> DEFINE seen == IF st.clear_count < Confirmations THEN st.clear_count + 1
                                                         ELSE Confirmations
               s == IF IsAlert(st) THEN [st EXCEPT !.clear_count = seen]
                                   ELSE WithoutClears(st)
    <2>1. PICK ok \in {"clear", "loop"} : Persist(s, ctl, ok, "loop")
      BY <1>5 DEF PollClear
    <2>2. quiet' = IF quiet < Confirmations THEN quiet + 1 ELSE quiet
      BY <1>5 DEF PollClear
    <2>3. ModeOf(s) = ModeOf(st)
      <3>1. CASE IsAlert(st)
        BY <3>1, Fields DEF ModeOf, IsAlert, RuntimeState
      <3>2. CASE ~IsAlert(st)
        BY <3>2, Fields, StateModes
      <3> QED BY <3>1, <3>2
    <2> HIDE DEF s
    <2>4. st' = s /\ disk' = disk /\ Upcoming' = ok /\ Copies
      BY <1>2, <2>1, Fields, PersistCopies
    <2>5. UNCHANGED Leaving /\ AnswerInv'
      BY <1>3, <2>4 DEF Leaving, AnswerInv, Begins
    <2> QED
      BY <1>1, <1>2, <1>6, <2>2, <2>3, <2>4, <2>5 DEF Modes!Answer, Modes!Copied, Copies
  <1>7. CASE PollError
    <2>1. Persist(st, ctl, "hold", "loop") /\ UNCHANGED quiet
      BY <1>7 DEF PollError, history
    <2>2. st' = st /\ disk' = disk /\ Upcoming' = "hold" /\ Copies
      BY <1>2, <2>1, Fields, PersistCopies
    <2>3. UNCHANGED Leaving /\ AnswerInv'
      BY <1>3, <2>2 DEF Leaving, AnswerInv, Begins
    <2> QED BY <1>1, <1>2, <1>6, <2>1, <2>2, <2>3 DEF Modes!Answer, Modes!Copied, Copies
  <1> QED BY <1>4, <1>5, <1>7

LEMMA SpawnStep ==
  ASSUME IInv, DateInv, SpawnMinute
  PROVE  (\E d \in 0 .. MaxDay : Modes!Start(d)) /\ AnswerInv'
  <1>1. UNCHANGED <<Uninterrupted, Asked>>
    <2>1. ~PollAsks /\ ~PollActive /\ ~PollClear /\ ~PollError
      BY DEF SpawnMinute, PollAsks, PollActive, PollClear, PollError
    <2> QED BY <2>1, NoCrash, AskedKept DEF Controller
  <1>2. pc = "spawn" /\ pc' = "poll" /\ UNCHANGED <<memory, cfg, quiet>>
    BY DEF SpawnMinute, Goto, env
  <1>3. minute.pc = "idle" /\ minute'.pc = "fade" /\ ~IsAlert(st) /\ st.minute_silence_active
    BY <1>2 DEF SpawnMinute, IdleMinute, IInv, ControlInv, Ready, Upcoming, AlertExcludesMinute
  <1>4. Upcoming = "spawn" /\ Upcoming' = "poll" /\ UNCHANGED ModesToSave
    BY <1>2, <1>3, GotoCopies
  <1>5. ~Leaving /\ UNCHANGED Leaving /\ AnswerInv'
    BY <1>4 DEF Leaving, AnswerInv, Begins
  <1>6. /\ Date(st) \in 0 .. MaxDay /\ Date(st) \notin played
        /\ played' = played \cup {Date(st)}
    BY <1>4, Fields DEF SpawnMinute, DateInv, Date, RuntimeState
  <1>7. ModeOf(st) = "minute"
    BY <1>3 DEF ModeOf
  <1>8. Modes!Start(Date(st))
    BY <1>1, <1>2, <1>4, <1>5, <1>6, <1>7 DEF Modes!Start, memory
  <1> QED BY <1>5, <1>6, <1>8

LEMMA SaveModes ==
  ASSUME IInv, AnswerInv, Save
  PROVE  Modes!Save /\ AnswerInv'
  <1>1. UNCHANGED Uninterrupted
    BY NoCrash DEF Controller
  <1>2. /\ pc = "save" /\ UNCHANGED <<st, minute, cfg, quiet, played>>
        /\ \/ disk' = ctl.copy /\ pc' = ctl.ok
           \/ disk' = disk /\ pc' = ctl.ko
    BY DEF Save, env, history
  <1>3. ctl.ok \notin {"save", "fetch"} /\ ctl.ko \in {"loop", "poll", "recover"}
    BY <1>2 DEF IInv, ControlInv
  <1>7. UNCHANGED Asked
    BY <1>2, <1>3 DEF Asked
  <1>4. Upcoming = ctl.ok /\ Upcoming' \in {ctl.ok, ctl.ko}
    BY <1>2, <1>3 DEF Upcoming
  <1>5. Leaving' \in {Leaving, FALSE} /\ AnswerInv'
    <2>1. CASE Upcoming' = Upcoming
      BY <1>2, <2>1 DEF Leaving, AnswerInv, Begins
    <2>2. CASE Upcoming' \in {"loop", "poll", "recover"}
      <3>1. Leaving' = FALSE
        BY <2>2 DEF Leaving
      <3>2. ~Begins'
        BY <2>2 DEF Begins
      <3> QED BY <3>1, <3>2 DEF AnswerInv
    <2> QED BY <1>3, <1>4, <2>1, <2>2
  <1>6. /\ ModesToSave' \subseteq ModesToSave
        /\ ModeOf(disk') \in ModesToSave \cup {ModeOf(disk)}
    BY <1>2, <1>3 DEF ModesToSave
  <1> QED BY <1>1, <1>2, <1>5, <1>6, <1>7 DEF Modes!Save

\* The minute's task moves along, clears its mark, or saves.
LEMMA TaskModes ==
  ASSUME IInv, AnswerInv, MinuteTask
  PROVE  Modes!Next /\ AnswerInv'
  <1>1. UNCHANGED Uninterrupted
    BY NoCrash
  <1>2. UNCHANGED <<pc, ctl, cfg, quiet, played>>
    BY DEF MinuteTask, MinuteFade, MinutePlay, MinutePlayed, MinuteRestore, MinuteFinish,
           MinuteSave, env, history
  <1>3. UNCHANGED Upcoming /\ UNCHANGED Leaving /\ AnswerInv' /\ UNCHANGED Asked
    BY <1>2 DEF Upcoming, Leaving, AnswerInv, Begins, Asked
  <1>4. CASE MinuteFade \/ MinutePlay \/ MinutePlayed \/ MinuteRestore
    <2>1. PICK label \in {"play", "playing", "restore", "rescue", "finish"} : MinuteGoto(label)
      BY <1>4 DEF MinuteFade, MinutePlay, MinutePlayed, MinuteRestore
    <2>2. UNCHANGED memory /\ minute.pc # "save"
      BY <1>4 DEF MinuteFade, MinutePlay, MinutePlayed, MinuteRestore
    <2>3. minute'.pc # "save"
      BY <2>1, Fields, MinuteGotoFacts
    <2>4. UNCHANGED ModesToSave
      BY <1>2, <2>2, <2>3 DEF ModesToSave
    <2>5. Steady /\ Shown
      BY <1>1, <1>2, <1>3, <2>2, <2>4 DEF Steady, Shown, Copies, Begins, memory
    <2> QED BY <1>3, <2>5, ShownStep
  <1>5. CASE MinuteFinish
    <2>1. /\ minute.pc = "finish" /\ st' = WithoutMinute(st) /\ disk' = disk
          /\ minute'.pc = "save" /\ minute'.copy = st'
      BY <1>5 DEF MinuteFinish, IdleMinute
    <2>2. ModeOf(st) = "minute" /\ ModeOf(st') = "normal"
      BY <2>1, Fields, StateModes
      DEF IInv, AlertExcludesMinute, MinuteRunning, ModeOf
    <2>3. Copies
      BY <1>2, <2>1 DEF Copies, ModesToSave
    <2>4. Steady /\ Shown
      BY <1>1, <1>2, <1>3, <2>1, <2>2, <2>3 DEF Steady, Shown, Begins
    <2> QED BY <1>3, <2>4, ShownStep
  <1>6. CASE MinuteSave
    <2>1. /\ minute.pc = "save" /\ minute'.pc # "save" /\ disk' \in {disk, minute.copy}
          /\ st' = st
      BY <1>6, IdleMinuteFacts DEF MinuteSave
    <2>2. /\ ModesToSave' \subseteq ModesToSave
          /\ ModeOf(disk') \in ModesToSave \cup {ModeOf(disk)}
      BY <1>2, <2>1 DEF ModesToSave
    <2>3. Modes!Save
      BY <1>1, <1>2, <1>3, <2>1, <2>2 DEF Modes!Save
    <2> QED BY <1>3, <2>3 DEF Modes!Next
  <1> QED BY <1>4, <1>5, <1>6 DEF MinuteTask

LEMMA CrashModes ==
  ASSUME IInv, BudgetInv, Crash
  PROVE  Modes!Restart /\ AnswerInv'
  <1>1. /\ pc' = "recover" /\ minute' = IdleMinute /\ st' = disk /\ disk' = disk
        /\ UNCHANGED <<cfg, quiet, played>>
    BY DEF Crash, env, history
  <1>2. ~Uninterrupted'
    <2>1. /\ left["crash"] \in Nat /\ Limit["crash"] \in Nat
          /\ left["crash"] <= Limit["crash"] /\ left'["crash"] = left["crash"] - 1
      BY Fields DEF Crash, Spend, BudgetInv, Hazard
    <2> QED BY <2>1 DEF Uninterrupted
  <1>3. Upcoming' = "recover" /\ ModesToSave' = {}
    BY <1>1, IdleMinuteFacts DEF Upcoming, ModesToSave
  <1>4. Leaving' = FALSE /\ AnswerInv' /\ Asked' = FALSE
    BY <1>1, <1>3 DEF Leaving, AnswerInv, Begins, Asked
  <1>5. (~Uninterrupted)' = TRUE
    BY <1>2
  <1> QED BY <1>1, <1>3, <1>4, <1>5 DEF Modes!Restart

LEMMA WorldModes ==
  ASSUME IInv, AnswerInv, Environment, ~Crash
  PROVE  Modes!Next /\ AnswerInv'
  <1>1. UNCHANGED Uninterrupted
    BY NoCrash
  <1>2. /\ UNCHANGED <<memory, pc, ctl, minute, quiet, played>>
        /\ cfg' = cfg \/ cfg' \in Settings
    BY DEF Environment, RestoreUserMixer, GraphRestart, ApplyLevel, Tick, RequestLevel,
           SaveSettings, env, history
  <1>3. /\ UNCHANGED <<Upcoming, ModesToSave>>
    BY <1>2 DEF Upcoming, ModesToSave
  <1>4. UNCHANGED Leaving /\ AnswerInv' /\ UNCHANGED Asked
    BY <1>2, <1>3 DEF Leaving, AnswerInv, Begins, Asked
  <1>5. CASE cfg'.enabled = cfg.enabled
    BY <1>1, <1>2, <1>3, <1>4, <1>5 DEF Modes!Next, Modes!Copy, Modes!Copied, memory
  <1>6. CASE cfg'.enabled # cfg.enabled
    <2>1. cfg'.enabled = ~cfg.enabled
      <3>1. cfg.enabled \in BOOLEAN /\ cfg'.enabled \in BOOLEAN
        BY <1>2, Fields
      <3> QED BY <1>6, <3>1
    <2> QED BY <1>1, <1>2, <1>3, <1>4, <2>1 DEF Modes!Next, Modes!Switch, memory
  <1> QED BY <1>5, <1>6

LEMMA StutterModes ==
  ASSUME AnswerInv, UNCHANGED vars
  PROVE  UNCHANGED Modes!vars /\ AnswerInv'
  BY DEF vars, memory, env, history, Modes!vars, ModesToSave, Leaving, Upcoming, Uninterrupted,
         AnswerInv, Begins, Asked

ModesInv == IInv /\ DateInv /\ BudgetInv /\ MusicInv /\ AnswerInv

LEMMA StepKeepsModes ==
  ASSUME ModesInv, [Next]_vars
  PROVE  [Modes!Next]_(Modes!vars) /\ AnswerInv'
  <1> USE DEF ModesInv
  <1>1. CASE Controller
    <2>1. CASE Save
      BY <2>1, SaveModes DEF Modes!Next
    <2>2. CASE PollActive \/ PollClear \/ PollError
      BY <2>2, AnswerStep DEF Modes!Next
    <2>6. CASE PollAsks
      BY <2>6, AskStep DEF Modes!Next, AnswerInv
    <2>3. CASE SpawnMinute
      BY <2>3, SpawnStep DEF Modes!Next
    <2>4. CASE FindsOff
      BY <2>4, FindsOffStep DEF Modes!Next, AnswerInv
    <2>5. CASE ~Save /\ ~PollAsks /\ ~PollActive /\ ~PollClear /\ ~PollError
               /\ ~SpawnMinute /\ ~FindsOff
      <3>1. Steady /\ Shown
        BY <1>1, <2>5, ControllerShown DEF MusicInv
      <3> QED BY <3>1, ShownStep DEF Steady, AnswerInv
    <2> QED BY <2>1, <2>2, <2>3, <2>4, <2>5, <2>6
  <1>2. CASE MinuteTask
    BY <1>2, TaskModes
  <1>3. CASE Crash
    BY <1>3, CrashModes DEF Modes!Next
  <1>4. CASE Environment /\ ~Crash
    BY <1>4, WorldModes
  <1>5. CASE UNCHANGED vars
    BY <1>5, StutterModes
  <1> QED BY <1>1, <1>2, <1>3, <1>4, <1>5 DEF Next

LEMMA InitialModes == Init => Modes!Init /\ AnswerInv
  <1> SUFFICES ASSUME Init PROVE Modes!Init /\ AnswerInv
    OBVIOUS
  <1>1. /\ pc = "recover" /\ minute.pc = "idle" /\ quiet = Confirmations /\ played = {}
        /\ cfg \in Settings /\ left = Limit /\ st = DefaultState /\ disk = DefaultState
    BY IdleMinuteFacts DEF Init
  <1>2. Upcoming = "recover" /\ ModesToSave = {}
    BY <1>1 DEF Upcoming, ModesToSave
  <1>3. /\ Leaving = FALSE /\ AnswerInv /\ (~Uninterrupted) = FALSE
        /\ cfg.enabled \in BOOLEAN /\ Asked = FALSE
    BY <1>1, <1>2 DEF Leaving, AnswerInv, Begins, Uninterrupted, Asked
  <1>4. ModeOf(DefaultState) = "normal"
    BY DEF ModeOf, IsAlert, DefaultState
  <1> QED BY <1>1, <1>2, <1>3, <1>4 DEF Modes!Init

\* The controller, its task, their saves, cancellations and restarts implement
\* the modes of PriorityModes: an alert begins upon an active answer in normal
\* mode and ends by confirmed clears or because notifications were found off, a
\* minute begins in normal mode and once a date, a restart begins as saved.
THEOREM ImplementsModes == Spec => KeepsModes
  <1>1. ModesInv /\ [Next]_vars => ModesInv'
    BY InductiveStep, DateStep, Budgets, MusicStep, StepKeepsModes DEF ModesInv
  <1>2. Init => ModesInv
    BY InitialInv, InitialDates, InitialMusic, InitialModes DEF ModesInv
  <1>3. ModesInv /\ [Next]_vars => [Modes!Next]_(Modes!vars)
    BY StepKeepsModes
  <1> QED BY <1>1, <1>2, <1>3, InitialModes, PTL DEF Spec, KeepsModes, Modes!Spec
=============================================================================
