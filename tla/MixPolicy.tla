------------------------------ MODULE MixPolicy ------------------------------
(* src/src/audio.rs: the mix policy.  Announcements duck MUSIC, sample both  *)
(* faders, yield the headroom ALERT needs, play and put MUSIC back, all      *)
(* under one lock that MUSIC and ALERT fader requests take as well; settings *)
(* are saved, and playback cancelled, without it.                            *)
(*                                                                           *)
(* Levels are linear amplitudes in whole units.  AlertController models when *)
(* announcements are due; here a process begins an alert or a minute of      *)
(* silence whenever it likes and announces as often as it likes.  A process  *)
(* is the daemon, or a test command of the program (main.rs), which builds   *)
(* an AudioEngine, and so a lock, of its own.                                *)
EXTENDS Naturals

CONSTANTS
  Processes,    \* "daemon", and possibly "test"
  Requests,     \* API handlers at work at once
  Unity,        \* full scale
  Duck,         \* level -> level, ducked_volumes
  Volumes,      \* a minute of silence may be played at
  Attenuate,    \* [fader, event] -> amplitude of an announcement
  DefaultLevel, \* default_restore_volume_percent
  Kinds,        \* of priority audio that may begin
  MaxEvents     \* bound: alerts and minutes, requests, settings and faults

Level == 0..Unity
Bus == {"music", "alert"}

ASSUME MixAssumption ==
  /\ "daemon" \in Processes
  /\ Unity \in Nat \ {0}
  /\ Duck \in [Level -> Level]
  /\ Attenuate \in [Level \X Level -> Level]
  /\ DefaultLevel \in Level /\ Volumes \subseteq Level
  /\ Kinds \subseteq {"alert", "talkover", "minute"}
  /\ MaxEvents \in Nat
  /\ Processes \cap Requests = {}
  /\ "nobody" \notin Processes \cup Requests

VARIABLES
  sink,      \* bus -> [level, muted], the Pulse sinks
  mixer,     \* bus -> [level, muted], MixerState: what the user set
  enabled,   \* notifications_enabled in the settings file
  cancels,   \* generation of alert_playback_cancel
  lock,      \* process -> holder of its mix_policy_lock
  control,   \* holder of the API's audio_control_lock
  ann,       \* process -> its priority audio
  cancelling, \* the controller has seen a minute under way and cancels it
  req,       \* handler -> its fader request
  settings,  \* the handler of PUT audio settings
  asked,     \* ghost: MUSIC levels the user has had
  user,      \* ghost: the latest of them
  guessed,   \* ghost: MUSIC was restored without a snapshot
  faulty,    \* ghost: some write has failed
  events     \* of MaxEvents, how many there were

vars ==
  <<sink, mixer, enabled, cancels, lock, control, ann, cancelling, req, settings, asked,
    user, guessed, faulty, events>>

Nobody == "nobody"
Ops == {"fader", "volume", "mixer", "mute"}
Fader == [level : Level, muted : BOOLEAN]
Silent == [level |-> 0, muted |-> FALSE]
IdleAnn == [pc |-> "idle", kind |-> "alert", event |-> 0, snapshot |-> Silent,
            before |-> 0, seen |-> 0]
IdleReq == [pc |-> "idle", op |-> "mute", bus |-> "music", level |-> 0, muted |-> FALSE]

\* A mutex of the process: whoever takes it holds it until Release.
Acquire(p, who) == lock[p] = Nobody /\ lock' = [lock EXCEPT ![p] = who]
Release(p) == lock' = [lock EXCEPT ![p] = Nobody]

Event == events < MaxEvents /\ events' = events + 1
Fault == Event /\ faulty' = TRUE
count == <<faulty, events>>

Init ==
  /\ sink \in [Bus -> [level : {Unity}, muted : {FALSE}]]
  /\ mixer = sink
  /\ enabled = TRUE /\ cancels = 0
  /\ lock = [p \in Processes |-> Nobody] /\ control = Nobody
  /\ ann = [p \in Processes |-> IdleAnn] /\ cancelling = FALSE
  /\ req = [r \in Requests |-> IdleReq]
  /\ settings = [pc |-> "idle", enabled |-> TRUE]
  /\ user = sink["music"].level /\ asked = {user}
  /\ guessed = FALSE /\ faulty = FALSE /\ events = 0

-----------------------------------------------------------------------------
(* Priority audio. *)

rest == <<mixer, enabled, cancels, control, req, settings, asked, user>>
others == <<rest, cancelling, guessed>>

Goto(p, label) == ann' = [ann EXCEPT ![p] = [@ EXCEPT !.pc = label]]

\* MUSIC is written, or the write fails.
Write(fader) == \/ sink' = [sink EXCEPT !["music"] = fader] /\ UNCHANGED count
                \/ Fault /\ UNCHANGED sink

Beginning(kind, event, snapshot) ==
  [pc |-> IF kind = "talkover" THEN "between" ELSE "enter", kind |-> kind,
   event |-> event, snapshot |-> snapshot, before |-> 0, seen |-> 0]

\* The level to return to is read before the lock is taken.
Begin(p, kind, event) ==
  /\ ann[p].pc = "idle"
  /\ event \in IF kind = "minute" THEN Volumes ELSE {Unity}
  /\ p = "daemon" => ~cancelling
  /\ Event
  /\ ann' = [ann EXCEPT ![p] = Beginning(kind, event, sink["music"])]
  /\ UNCHANGED <<sink, lock, faulty, others>>

Entered(kind, s, now) ==
  IF kind = "minute"
    THEN IF s.muted THEN now ELSE [now EXCEPT !.level = 0]
    ELSE [level |-> Duck[s.level], muted |-> s.muted /\ now.muted]

\* The daemon's minute runs in a task of its own, which gives MUSIC back at
\* its end and then clears the mark.
InTask(p) == p = "daemon" /\ ann[p].kind = "minute"
WayOut(p) == IF InTask(p) THEN "giveBack" ELSE "restore"

\* enter_alert and enter_silence, as transactions of their own.
Enter(p) ==
  /\ ann[p].pc = "enter"
  /\ lock[p] = Nobody
  /\ \/ /\ sink' = [sink EXCEPT !["music"] = Entered(ann[p].kind, ann[p].snapshot, @)]
        /\ Goto(p, "between")
        /\ UNCHANGED count
     \/ /\ Fault
        /\ Goto(p, IF p = "daemon" /\ ann[p].kind = "alert" THEN "between" ELSE WayOut(p))
        /\ UNCHANGED sink
  /\ UNCHANGED <<lock, others>>

\* ensure_alert, on every poll that an alert lasts.
Ensure(p) ==
  /\ p = "daemon"
  /\ ann[p].pc = "between" /\ ann[p].kind = "alert"
  /\ lock[p] = Nobody
  /\ sink' = [sink EXCEPT !["music"] = [level |-> Duck[ann[p].snapshot.level],
                                        muted |-> ann[p].snapshot.muted]]
  /\ UNCHANGED <<lock, count, ann, others>>

\* An alert announces as often as it repeats, then it clears; a minute plays
\* one file.
Announce(p) ==
  /\ ann[p].pc = "between"
  /\ Acquire(p, p)
  /\ Goto(p, IF ann[p].kind = "talkover" THEN "duck" ELSE "subscribe")
  /\ UNCHANGED <<sink, count, others>>

Clear(p) ==
  /\ ann[p].pc = "between" /\ ann[p].kind # "minute"
  /\ Goto(p, "restore")
  /\ UNCHANGED <<sink, lock, count, others>>

\* enter_alert_locked at the head of play_talkover: an error returns at once.
TalkoverDuck(p) ==
  /\ ann[p].pc = "duck"
  /\ \/ /\ sink' = [sink EXCEPT !["music"] = Entered("talkover", ann[p].snapshot, @)]
        /\ Goto(p, "subscribe")
        /\ UNCHANGED <<lock, count>>
     \/ /\ Fault
        /\ Release(p)
        /\ Goto(p, "between")
        /\ UNCHANGED sink
  /\ UNCHANGED others

Subscribe(p) ==
  /\ ann[p].pc = "subscribe"
  /\ ann' = [ann EXCEPT ![p] = [@ EXCEPT !.seen = cancels, !.pc = "check"]]
  /\ UNCHANGED <<sink, lock, count, others>>

\* How an announcement ends: talkover restores under the same lock.
After(kind) == IF kind = "talkover" THEN "putBack" ELSE "unlock"

CheckEnabled(p) ==
  /\ ann[p].pc = "check"
  /\ \/ enabled /\ Goto(p, "sample") /\ UNCHANGED count
     \/ ~enabled /\ Goto(p, After(ann[p].kind)) /\ UNCHANGED count
     \/ Fault /\ Goto(p, After(ann[p].kind))
  /\ UNCHANGED <<sink, lock, others>>

Amplitude(alert, event) == IF alert.muted THEN 0 ELSE Attenuate[<<alert.level, event>>]

\* One that takes the duck to be enough.
MutantDuckOnly(music, alert, event) == music.level

\* mix_safe_music_volumes.
SafeMusic(music, alert, event) ==
  LET available == Unity - Amplitude(alert, event)
  IN  IF music.muted \/ music.level <= available THEN music.level ELSE available

\* Subscribes to cancellations after it has looked at the settings.
MutantSample(p) ==
  LET safe == SafeMusic(sink["music"], sink["alert"], ann[p].event)
  IN  /\ ann[p].pc = "sample"
      /\ ann' = [ann EXCEPT ![p] =
           [@ EXCEPT !.before = sink["music"].level, !.pc = "playing", !.seen = cancels]]
      /\ sink' = [sink EXCEPT !["music"] = [@ EXCEPT !.level = safe]]
      /\ UNCHANGED <<count, lock, others>>

\* A failing write is undone, and nothing is played.
Sample(p) ==
  LET safe == SafeMusic(sink["music"], sink["alert"], ann[p].event)
  IN  /\ ann[p].pc = "sample"
      /\ \/ /\ ann' = [ann EXCEPT ![p] =
                 [@ EXCEPT !.before = sink["music"].level, !.pc = "playing"]]
            /\ sink' = [sink EXCEPT !["music"] = [@ EXCEPT !.level = safe]]
            /\ UNCHANGED count
         \/ Fault /\ Goto(p, After(ann[p].kind)) /\ UNCHANGED sink
      /\ UNCHANGED <<lock, others>>

\* The player ends, fails, or runs into its time limit.
PlayerEnds(p) ==
  /\ ann[p].pc = "playing"
  /\ Goto(p, "return")
  /\ UNCHANGED <<sink, lock, count, others>>

PlayerCancelled(p) ==
  /\ ann[p].pc = "playing"
  /\ p = "daemon"
  /\ ann[p].seen # cancels
  /\ Goto(p, "return")
  /\ UNCHANGED <<sink, lock, count, others>>

Return(p) ==
  /\ ann[p].pc = "return"
  /\ \/ sink' = [sink EXCEPT !["music"] = [@ EXCEPT !.level = ann[p].before]] /\ UNCHANGED count
     \/ Fault /\ UNCHANGED sink
  /\ Goto(p, After(ann[p].kind))
  /\ UNCHANGED <<lock, others>>

PutBack(p) ==
  /\ ann[p].pc = "putBack"
  /\ Write(ann[p].snapshot)
  /\ Goto(p, "unlock")
  /\ UNCHANGED <<lock, others>>

\* What belongs to the one announcement is forgotten.
Unlock(p) ==
  /\ ann[p].pc = "unlock"
  /\ Release(p)
  /\ ann' = [ann EXCEPT ![p] =
       [@ EXCEPT !.before = 0, !.seen = 0,
                 !.pc = IF ann[p].kind = "minute" THEN WayOut(p) ELSE "between"]]
  /\ UNCHANGED <<sink, count, others>>

\* With the snapshot that the caller holds.
Restore(p) ==
  /\ ann[p].pc = "restore"
  /\ lock[p] = Nobody
  /\ Write(ann[p].snapshot)
  /\ ann' = [ann EXCEPT ![p] = IdleAnn]
  /\ UNCHANGED <<lock, others>>

\* The task tries a second time when the first has failed.
GiveBack(p) ==
  /\ ann[p].pc = "giveBack"
  /\ lock[p] = Nobody
  /\ \/ Write(ann[p].snapshot)
     \/ Fault /\ sink' = [sink EXCEPT !["music"] = ann[p].snapshot]
  /\ Goto(p, "over")
  /\ UNCHANGED <<lock, others>>

\* The last stretch of the task clears mark and snapshot.
MinuteOver(p) ==
  /\ ann[p].pc = "over"
  /\ ann' = [ann EXCEPT ![p] = IdleAnn]
  /\ UNCHANGED <<sink, lock, count, others>>

\* A switch-off or an alert finds the minute marked as under way.
SeeMinute(p) ==
  /\ InTask(p) /\ ann[p].pc \notin {"idle", "restore", "guess"}
  /\ ~cancelling /\ cancelling' = TRUE
  /\ UNCHANGED <<sink, lock, count, ann, guessed, rest>>

\* cancel_minute_silence aborts the task wherever it waits; dropping the
\* future kills the player and frees the lock.  What comes next knows the
\* snapshot unless the task has ended, and cleared it, since the look.
Cancelled(p) ==
  /\ p = "daemon" /\ cancelling /\ cancelling' = FALSE
  /\ lock' = [lock EXCEPT ![p] = IF @ = p THEN Nobody ELSE @]

Found(p) == ann[p].pc # "idle"

\* The canceller relies on the aborted task to restore.
MutantCancelMinute(p) ==
  /\ Cancelled(p)
  /\ ann' = [ann EXCEPT ![p] = IF Found(p) THEN IdleAnn
                                           ELSE [IdleAnn EXCEPT !.kind = "minute", !.pc = "guess"]]
  /\ UNCHANGED <<sink, count, guessed, rest>>

\* The mark goes, and with it what kept requests out.
CancelMinute(p) ==
  /\ Cancelled(p)
  /\ ann' = [ann EXCEPT ![p] =
       [IdleAnn EXCEPT !.kind = "minute", !.snapshot = ann[p].snapshot,
                       !.pc = IF Found(p) THEN "restore" ELSE "guess"]]
  /\ UNCHANGED <<sink, count, guessed, rest>>

\* restore(None): the configured level, and not muted.
Guess(p) ==
  /\ ann[p].pc = "guess"
  /\ lock[p] = Nobody
  /\ Write([level |-> DefaultLevel, muted |-> FALSE])
  /\ guessed' = TRUE
  /\ ann' = [ann EXCEPT ![p] = IdleAnn]
  /\ UNCHANGED <<lock, cancelling, rest>>

\* The alert that cancelled the minute begins with its snapshot, or reads one.
Preempt(p, kind) ==
  /\ InTask(p) /\ ann[p].pc \in {"restore", "guess"}
  /\ kind # "minute"
  /\ Event
  /\ ann' = [ann EXCEPT ![p] =
       Beginning(kind, Unity, IF @.pc = "restore" THEN @.snapshot ELSE sink["music"])]
  /\ UNCHANGED <<sink, lock, faulty, others>>

Priority(p) ==
  \/ \E kind \in Kinds, event \in Level : Begin(p, kind, event)
  \/ Enter(p) \/ Ensure(p) \/ Announce(p) \/ Clear(p) \/ TalkoverDuck(p) \/ Subscribe(p)
  \/ CheckEnabled(p) \/ Sample(p) \/ PlayerEnds(p) \/ PlayerCancelled(p)
  \/ Return(p) \/ PutBack(p) \/ Unlock(p) \/ Restore(p) \/ GiveBack(p) \/ MinuteOver(p)
  \/ SeeMinute(p) \/ CancelMinute(p) \/ Guess(p)
  \/ \E kind \in Kinds : Preempt(p, kind)

-----------------------------------------------------------------------------
(* Fader requests.  "fader" sets level and mute in one transaction           *)
(* (set_sink_percent), "volume" in two (set_music_volume, set_music_mute),   *)
(* "mixer" in two under the API's own lock (set_sink_db, set_sink_mute),     *)
(* "mute" sets the mute alone.                                               *)

priority == <<ann, cancelling, guessed, enabled, cancels, settings>>

ReqGoto(r, label) == req' = [req EXCEPT ![r] = [@ EXCEPT !.pc = label]]

\* ensure_controls_available lets a request in during a talkover alert, and
\* as soon as a minute that is being cancelled is not marked any more.
ControlsAvailable ==
  \/ ann["daemon"].pc = "idle" \/ ann["daemon"].kind = "talkover"
  \/ InTask("daemon") /\ ann["daemon"].pc \in {"restore", "guess"}

\* A level of nothing mutes, on "mixer" its lowest; that one sets the mute
\* alone when asked to mute.
Bodies ==
  {b \in [pc : {"level", "mute"}, op : Ops, bus : Bus, level : Level, muted : BOOLEAN] :
     /\ b.op \in {"fader", "volume"} => b.pc = "level" /\ b.muted = (b.level = 0)
     /\ b.op \in {"volume", "mute"} => b.bus = "music"
     /\ b.op = "mute" => b.pc = "mute"
     /\ b.op = "mixer" => b.level # 0 /\ (b.pc = "mute" => b.muted)
     /\ b.op = "mixer" /\ b.pc = "level" => b.muted \in {FALSE, b.level = 1}
     /\ b.pc = "mute" => b.level = Unity}

Request(r, body) ==
  /\ req[r].pc = "idle"
  /\ ControlsAvailable
  /\ Event
  /\ req' = [req EXCEPT ![r] = body]
  /\ UNCHANGED <<sink, mixer, lock, control, asked, user, faulty, priority>>

\* "mixer" takes the API's lock first and keeps it to its end.
Locks(r) ==
  /\ Acquire("daemon", r)
  /\ IF req[r].op = "mixer" THEN control \in {Nobody, r} /\ control' = r
                            ELSE UNCHANGED control

SetLevel(r) ==
  LET bus == req[r].bus level == req[r].level
  IN  /\ req[r].pc = "level"
      /\ Locks(r)
      /\ sink' = [sink EXCEPT ![bus] = [@ EXCEPT !.level = level]]
      /\ user' = IF bus = "music" THEN level ELSE user
      /\ asked' = IF bus = "music" THEN asked \cup {level} ELSE asked
      /\ ReqGoto(r, IF req[r].op = "fader" THEN "muteToo" ELSE "recordLevel")
      /\ UNCHANGED <<mixer, count, priority>>

RecordLevel(r) ==
  /\ req[r].pc = "recordLevel"
  /\ mixer' = [mixer EXCEPT ![req[r].bus] = [@ EXCEPT !.level = req[r].level]]
  /\ Release("daemon")
  /\ ReqGoto(r, "mute")
  /\ UNCHANGED <<sink, control, count, asked, user, priority>>

SetMute(r) ==
  /\ \/ req[r].pc = "mute" /\ Locks(r)
     \/ req[r].pc = "muteToo" /\ UNCHANGED <<lock, control>>
  /\ sink' = [sink EXCEPT ![req[r].bus] = [@ EXCEPT !.muted = req[r].muted]]
  /\ ReqGoto(r, "record")
  /\ UNCHANGED <<mixer, count, asked, user, priority>>

\* set_sink_mute records nothing.
MutantRecorded(q, fader) ==
  CASE q.op = "fader" -> [level |-> q.level, muted |-> q.muted]
    [] q.op = "mixer" -> fader
    [] OTHER -> [fader EXCEPT !.muted = q.muted]

\* set_sink_mute records ALERT's mute and not MUSIC's.
Recorded(q, fader) ==
  CASE q.op = "fader" -> [level |-> q.level, muted |-> q.muted]
    [] q.op = "mixer" /\ q.bus = "music" -> fader
    [] OTHER -> [fader EXCEPT !.muted = q.muted]

Finish(r) ==
  /\ req' = [req EXCEPT ![r] = IdleReq]
  /\ control' = IF control = r THEN Nobody ELSE control

Record(r) ==
  /\ req[r].pc = "record"
  /\ mixer' = [mixer EXCEPT ![req[r].bus] = Recorded(req[r], @)]
  /\ Release("daemon")
  /\ Finish(r)
  /\ UNCHANGED <<sink, count, asked, user, priority>>

\* A write to the sink fails and the rest of the request is not done.
RequestFails(r) ==
  /\ Fault
  /\ \/ req[r].pc \in {"level", "mute"} /\ lock["daemon"] = Nobody /\ UNCHANGED lock
     \/ req[r].pc = "muteToo" /\ Release("daemon")
  /\ Finish(r)
  /\ UNCHANGED <<sink, mixer, asked, user, priority>>

Fading(r) ==
  \/ \E body \in Bodies : Request(r, body)
  \/ SetLevel(r) \/ RecordLevel(r) \/ SetMute(r) \/ Record(r) \/ RequestFails(r)

-----------------------------------------------------------------------------
(* PUT audio settings: read, save, and cancel playback when switched off. *)

mixing == <<sink, mixer, lock, control, ann, cancelling, req, asked, user, guessed>>

ReadSettings(new) ==
  /\ settings.pc = "idle"
  /\ Event
  /\ settings' = [pc |-> "save", enabled |-> new]
  /\ UNCHANGED <<mixing, enabled, cancels, faulty>>

SaveSettings ==
  /\ settings.pc = "save"
  /\ enabled' = settings.enabled
  /\ settings' = [settings EXCEPT !.pc = IF enabled' THEN "idle" ELSE "cancel"]
  /\ UNCHANGED <<mixing, cancels, count>>

CancelPlayback ==
  /\ settings.pc = "cancel"
  /\ cancels' = cancels + 1
  /\ settings' = [settings EXCEPT !.pc = "idle"]
  /\ UNCHANGED <<mixing, enabled, count>>

Configure == \/ \E new \in BOOLEAN : ReadSettings(new)
             \/ SaveSettings \/ CancelPlayback

Next ==
  \/ \E p \in Processes : Priority(p)
  \/ \E r \in Requests : Fading(r)
  \/ Configure

Spec == Init /\ [][Next]_vars

-----------------------------------------------------------------------------
AnnLabels == {"idle", "enter", "between", "duck", "subscribe", "check", "sample",
              "playing", "return", "putBack", "unlock", "restore", "giveBack", "over", "guess"}
ReqLabels == {"idle", "level", "recordLevel", "mute", "muteToo", "record"}

Announcement == [pc : AnnLabels, kind : {"alert", "talkover", "minute"}, event : Level,
                 snapshot : Fader, before : Level, seen : Nat]
FaderRequest == [pc : ReqLabels, op : Ops, bus : Bus, level : Level, muted : BOOLEAN]

\* The type of every variable of the mix policy.
TypeOK ==
  /\ sink \in [Bus -> Fader] /\ mixer \in [Bus -> Fader]
  /\ enabled \in BOOLEAN /\ cancels \in Nat
  /\ lock \in [Processes -> {Nobody} \cup Processes \cup Requests]
  /\ control \in {Nobody} \cup Requests
  /\ ann \in [Processes -> Announcement]
  /\ req \in [Requests -> FaderRequest]
  /\ settings \in [pc : {"idle", "save", "cancel"}, enabled : BOOLEAN]
  /\ asked \subseteq Level /\ user \in Level
  /\ cancelling \in BOOLEAN /\ guessed \in BOOLEAN
  /\ faulty \in BOOLEAN /\ events \in 0..MaxEvents

\* While a file plays, MUSIC and ALERT together stay within full scale,
\* whatever the faders are asked for and whichever write fails
\* (audio.rs:327-356, 505-527).
WithinUnity ==
  \A p \in Processes :
    ann[p].pc = "playing" /\ ~sink["music"].muted =>
      sink["music"].level + Amplitude(sink["alert"], ann[p].event) <= Unity

\* Policy never moves ALERT: whenever no request is at work on it, and no
\* write has failed, ALERT is where the user's last request put it
\* (audio.rs:505-510, docs/mixing-headroom.md:9).
AlertIsTheUsers ==
  ~faulty /\ (\A r \in Requests : req[r].pc # "idle" => req[r].bus # "alert") =>
    sink["alert"] = mixer["alert"]

AtRest ==
  /\ \A p \in Processes : ann[p].pc = "idle"
  /\ \A r \in Requests : req[r].pc = "idle"

\* The levels MUSIC may be left at: the user's, and the configured one after a
\* switch-off that found the minute's snapshot gone.
Chosen == asked \cup (IF guessed THEN {DefaultLevel} ELSE {})

\* Once priority audio is over, and no write has failed, MUSIC is at a level
\* the user chose, or at the configured one if a switch-off met the end of a
\* minute: no announcement leaves it ducked or silent, aborted, cancelled or
\* overtaken by requests as it may have been (audio.rs:421-475,
\* alerts.rs:90-119).
NeverLeftDucked ==
  AtRest /\ ~faulty => sink["music"].level \in Chosen

\* An announcement that still plays although notifications are off has its
\* cancellation in the channel or in the hands of the handler that is about
\* to send it (audio.rs:482-489, 552-555, backend.rs:1735-1738).
CancellationReaches ==
  ann["daemon"].pc \in {"sample", "playing"} /\ ~enabled =>
    ann["daemon"].seen # cancels \/ settings.pc = "cancel"

\* Once priority audio is over, no write has failed and every restore had its
\* snapshot, MUSIC is where the user last put it (audio.rs:466-469,
\* docs/audio-architecture.md:63-66).
FaderMoveKept ==
  AtRest /\ ~faulty /\ ~guessed => sink["music"].level = user
=============================================================================
