# Verification of ProAudio Player Native

TLA+ models of the control plane of ProAudio Player Native, checked with TLC and,
where it pays, proved with TLAPS. The reference is the repository's own code; every
definition that models code is listed with its file and lines in `PROJECT.json` (`map`).
Run a check with `tlc -config X.cfg MCModule.tla`, a proof with `tlapm Module.tla`.

## The system and its parts

One daemon (`src/main.rs`) runs a few tokio tasks that share an audio graph living in
another process (PipeWire behind the Pulse protocol) and a handful of files.

| Part | State it keeps | Operations | What makes it correct | What is hard |
|---|---|---|---|---|
| Priority-audio controller (`src/alerts.rs`) | `RuntimeState` in memory and in `state.json`, the handle of the minute-of-silence task | poll result, begin/continue/clear alert, start/cancel the minute, recover, deactivate | alerts exclude the minute; MUSIC returns to the user's level; a date's minute plays once; every state on disk can be recovered from | two tasks, a lock per operation, saves apart from changes, aborts, crashes, settings read anew at each step |
| Runtime and mixer state (`src/state.rs`, `src/atomic_file.rs`) | two JSON files, the mixer state in memory, a change counter | load, save, update, debounced writer | the file becomes the state once changes stop; never a torn file | a write racing an update, crashes, failed writes |
| Audio engine (`src/audio.rs`) | the mix-policy lock, the playback-cancel counter; the sinks themselves | faders, mutes, fade, duck, silence, restore, play, talkover | MUSIC and ALERT together stay within unity while an announcement plays; policy never moves ALERT; announcements do not overlap | faders racing fades, cancellation racing the start of playback, failures half-way |
| Source arbiter (`src/source_arbiter.rs`) | the selected source, the order streams were seen in | reconcile, choose a winner, mute, stop a source | one programme stream audible | events during a pass, streams that come and go, stopping the wrong source |
| Pulse client (`src/pulse.rs`) | a cache of sinks, a request queue, the connection | queries, volume and mute calls, subscription events, reconnect | a cached value is the server's when it is acted on | stale cache, events against replies, a connection lost with requests queued |
| Output routing (`src/output_router.rs`, `scripts/audio-buses.sh`, `scripts/proaudio-player-output-watch`) | loaded modules, a run-time state file, the selected output, a lock file | build, switch, repair, tear down the graph | one route from MASTER to the output; a failed build leaves nothing behind | partial failure, restarts of the sound server, two processes |
| Settings (`src/config.rs`, `src/provider.rs`) | two override files and the token's | read, validate, write; read on every use | an acknowledged change stays in effect; a token fits the settings it was saved with | read-modify-write of whole files without a lock; a death or a failure between two files |
| HTTP API (`src/api/backend.rs`) | nothing between requests but the events channel | status, faders, mixer, outputs, settings, media, transport, library, queue | controls refuse while priority audio plays; commands reach the active player; a play request plays what it says | checks before a lock or before a long lookup; answers of five programs put together; several commands per request |
| Player back ends (`src/dlna.rs`, MPD and MPRIS through `src/command.rs`) | the cached DLNA endpoint | discover, call, invalidate | a dead endpoint costs one call | requests that share the cache: one discovers while another calls and a third drops |
| Level meters (`src/api/meters.rs`) | three recorders, the last levels | start, publish, stop | meters run while somebody listens | one task owns it all |
| Alert provider (`src/provider.rs`) | none (configuration read per poll) | fetch | active only on an `A` in a configured region | HTTP failures, rate limits |
| 4STREAM gateway (`src/fourstream.rs`) | none | translate a foreign HTTP API and UPnP calls into the API's | the same checks and the same player as the API | it comes to the player by ways of its own: after a status, or past the lookup |
| Web UI (`src/api/webui.rs`), diagnostics | none | serve, report | formatting | nothing a model checker would add to tests |

Interaction: the controller, the mixer task, the arbiter and the API run side by side and
meet in the audio engine (its mix-policy lock), in the shared `RuntimeState` (a lock held
for single reads and writes only) and in the settings files, which every step reads again.
The API looks at `RuntimeState`, and at the audio settings, to refuse music controls during
priority audio, and asks the arbiter for its winner to find the player a command is for. The bus
scripts rebuild the graph under the daemon's feet; the mixer task notices new sink
identities and puts the user's levels back.

## Modules

| Module | Models | Uses |
|---|---|---|
| `PriorityModes` | abstract: when alerts and minutes of silence begin and end | |
| `AlertController` | `src/alerts.rs`, with the parts of `state.rs`, `main.rs` and the API that meet it | implements `PriorityModes` |
| `AlertControllerProofs` | modes, snapshots, levels and counts of the controller, the refinement | `AlertController` |
| `MixPolicy` | `src/audio.rs`: announcements, minutes, faders and the mix budget | |
| `MixPolicyProofs` | the budget, the ALERT fader, cancellation | `MixPolicy` |
| `DurableFile` | abstract: a value replaced indivisibly and kept | |
| `AtomicFile` | `src/atomic_file.rs`, call by call, over a file system that crashes | implements `DurableFile` |
| `AtomicFileProofs` | ownership of temporaries, durability, the refinement | `AtomicFile` |
| `MixerStateRuntime` | `MixerStateStore` and `MixerStateRuntime` of `src/state.rs` | an instance of `AtomicFile` |
| `MixerStateProofs` | nothing unsaved, recent restarts | `MixerStateRuntime`, `AtomicFileProofs` |
| `SourceArbiter` | `src/source_arbiter.rs` | |
| `SourceArbiterProofs` | exclusivity of a pass, no turn-taking | `SourceArbiter` |
| `OutputRouting` | `audio-buses.sh`, the output watcher, `output_router.rs`, and the mixer task where it meets them | |
| `OutputRoutingProofs` | the lock, what a route is made of, MASTER's mute | `OutputRouting` |
| `PulseCache` | `src/pulse.rs`: the worker, its cache, requests and events, and a task that watches | |
| `PulseCacheProofs` | acknowledged changes are kept and read back | `PulseCache` |
| `SettingsStore` | `src/config.rs`: the settings files, the handlers that write them, the poll that reads them | |
| `PlayerControl` | the player, library and queue requests of `src/api/backend.rs`, the gateway's of `src/fourstream.rs`, the client of `src/dlna.rs` | extends `SettingsStore` |
| `PlayerControlProofs` | changes and tokens of the settings; refusals, targets, endpoints and queues | `PlayerControl` |
| `MC...` | instances for TLC | the module named |

Definitions whose names begin with `Mutant` are deliberate errors: each is put in the place
of the definition it stands before, to see that the property named in `PROJECT.json`
notices. The specifications never use them.

### AlertController

`st` and `disk` are `RuntimeState` in memory and in `state.json`. Each method of
`AlertController` is a chain of steps, one for each stretch of code between two awaits at
which another task can matter: `pc` is the place in the controller's task and `ctl` holds
its locals (the clone about to be saved, the snapshot taken over from the minute, the mode
of the announcement, where to go on success and failure). `minute` is the spawned task
with its own place, clone and snapshot; `CancelMinute` aborts it wherever it is, which
drops its clone and its locks. `Loop` to `PollError` are `run_forever` (`PollAsks` looks whether
notifications are on and asks the provider; the answer may come after they were switched off,
and is processed all the same), `Preempt` to
`Settle` begin or continue an alert, `ClearAlert` and `ClearRestore` end it, `Recover` and
`RecoverAudio` run after a start, `Deactivate...` when notifications are switched off.

MUSIC is one level, moved by a fade in one step that needs the mix-policy lock, or left
anywhere on its way by one that fails. A file is played in two steps, and the lock is held
from the first to the second. The environment answers polls, opens the catch-up window and
changes the day, sends fader requests in two steps (the check, then the change once the
lock is free: `src/api/backend.rs:1505`), saves settings, rebuilds the graph, fails
operations, and kills the daemon. `Crash` keeps `disk`, the sinks and the settings.

`PriorityModes` is what all this promises about the modes: an alert begins upon an active
answer, asked for while notifications were on (`asked`), in normal mode and ends after the confirmed clear results, a minute begins in normal
mode and once for a date, both end early only where notifications were found off or the minute
is cancelled, and a restart begins in a mode that was being saved. `KeepsModes` is the
refinement: the mode of `st` and of `disk`, the modes of the clones about to be saved, and the
controller's place while it awaits an answer (`Asked`) and while it leaves priority audio
(`Leaving`). After a restart an alert may end
early, since the count it begins with may be an old one (below).

### MixPolicy

MUSIC and ALERT have a level and a mute flag each, in the sinks and in `MixerState`. An
announcement goes through the steps of `play_with_locked_policy`: duck, subscribe to
cancellations, look at the settings, sample both faders, yield headroom
(`SafeMusic`), play, return, unlock; a talkover has its duck and its restore inside the
lock. API requests move and record faders under the same lock, in the two transactions of
`set_volume` and `set_mixer_db`. Settings are read and saved, and playback is cancelled,
without it. When an alert or minute is due is `AlertController`'s matter, and here any may
begin at any time. The daemon's minute is a task of its own: it gives MUSIC back (`GiveBack`)
and then clears its mark and snapshot (`MinuteOver`). A switch-off, or an alert, sees the mark
(`SeeMinute`), aborts the task and takes the snapshot (`CancelMinute`), and restores it
(`Restore`) or begins with it (`Preempt`). If the task has ended in between, the snapshot is
gone: `Guess` is `restore(None)`, the configured level, and `guessed` records it. Levels are
linear whole amplitudes; `Attenuate` is any function that rounds up, `Duck` any function.

### AtomicFile and MixerStateRuntime

`AtomicFile` has what the kernel has: open inodes, their contents in the cache and on the
platter, the directory in the cache and on the platter. `Write` to `SyncDirectory` are the
calls of `atomic_file::write` and `StepFails` the error of any of them, with the removal of
the temporary. `ProcessDies` loses the callers and may give the next process the same
identifier, hence the same temporary names; `PowerLoss` keeps any prefix of what was not
synced. `DurableFile` is the promise; `KeepsPromise` is the refinement.

`MixerStateRuntime` is the mutex-protected value with its `watch` counter and the writer:
`Wake`, `Settle` (750 ms without a change), `Snapshot`, `SaveStep` (each a step of the file),
`Saved`. Updates are two steps, the change and its announcement.

### SourceArbiter

A pass is `List` (streams, grouping, choice), a `Correct` for each mute or gain that
differs from what the list said, `StopSource` for each loser, and `Finish`. The sources
come in the order of a hash map, and the model allows any order of the corrections. Streams
and players are the environment: they appear with any stored mute and volume, pause,
resume, leave, obey a stop when they please, and are meddled with. A stop by signal goes to the
process that was listed: it reaches the source, or nobody when the listed streams are gone and
their process may be. `source_key` is
abstracted to a source for each stream.

### OutputRouting

Two processes run `audio-buses.sh`: the service of the buses and the watcher. `pc` is the
place of each in the script, one step for each call of `pactl` (or run of calls that cannot
be told apart) and for each write of the state file; the other variables of a process are
the script's. `Take` to `Terminate` are the lock directory, with its fifteen seconds, the
removal of a dead owner's lock in two steps, a mark that cannot be written (`MarkFails`), `SIGKILL`,
and `SIGTERM`, whose trap removes the lock and lets the script go on. `Stop` to `Cleanup` are `start_buses` and `stop_buses`
with the undoing of a failed build, `Prepare...` the device, `Read` to `UnmuteFails`
`switch_output`. `Reconcile` is the watcher's look at the route after an event: it keeps a
routed device under AUTO, and what the state file says counts only if the modules are there.
The state file is its lines: each may be missing, and one without lines is as none. `Publish` is
`write_state`, which runs under `if !` and therefore without errexit: a `printf` that fails, as on
a full `/run`, is not noticed, and `mv` puts a file in place that lacks some of its lines
(`Shortened`). The script goes on all the same, to unload the old route or to end, and later scripts
read what is there (`Route`, `Whole`, `Healthy`). `WriteFails` is the failure that is noticed, with
the file as it was. The history `unnamed` holds the modules whose lines were lost.
`Select`, `Confirmed` and `RollBack` are the API's selection of an output; `Restore` and
`UserMutes` are the daemon's part in MASTER's mute.

The data are cut down. A device is its place in the order of names, a loop is a module and
the device it leads to, and a device is at unity or not: gains, rates, the ALSA controls and
the check of the configuration are left out. The buses and the links between them are
`NFixed` modules, each of which may fail to load; the server loses them together.
A number is given again once nothing refers to it, not even a stale state file or the daemon's
memory of a topology, although a restarted server numbers anew. The candidates are ordered by name,
running devices first: one that another client plays into (`busy`) runs, one that only a loop
leads to may. A second sink of the same name, as a start over a bus that an unrecorded module left
behind would make, is left out. A loop whose device goes is unloaded with it or stays without a
stream: the server's choice. The watcher is always there, if only to begin again.

### PulseCache

`pc` is the worker's place in `worker_loop`: without a connection (`off`), pumping
(`pump`, `process`, `refresh`), at the channel (`recv`), in a call for the request at its
head (`query`, `list`, `set`), and looking at the connection afterwards (`check`). A call is
three steps: the worker begins to wait (`Ask`), the server acts (`Serve`, `ServeSet`), and
the answer is taken (`Refreshed`, `Queried`, `Set`) or given up (`RefreshFails`,
`CallFails`: the two seconds of `wait_for_operation`, or the connection). What the server has
not done by then it may still do (`ServeLate`). `CallerAsks` is the methods of
`PulseControl`, `ReadsCache` and `WatcherAsks` are `sink_state` with and without a cached
value, called by a task that sleeps on `subscribe_changes` as `keep_user_mixer_restored`
does; its timer of two seconds is left out, so that the notifications have to suffice.

A sink is an index, one volume as the server keeps it, and a mute; the percentages, decibels
and numbers of channels are left out. Equal events that wait together are one, and those of a
batch are handled in any order, which includes the order of the queue. Streams are not
cached; their events notify. The reconnection interval is not timed. `acked`, `foreign` and
`missed` are history: what was answered Ok and still has to hold, which sinks somebody else
changed since the worker last read them, and whether a refresh or a read was given up on a
connection that lived on.

### SettingsStore

`file` has a cell for the audio settings and one for the provider's, `token` one for the
token: `now` is what a reader finds, `stable` what a power loss may leave, which is all that
`DurableFile` says of `atomic_file::write`. A handler (`put`) goes through `ReadCurrent`
(what is in effect, the body over it, the validation), `WriteToken` and `TokenWritten` if
the body has a token, `WriteSettings` and `SettingsWritten`: a write is two steps, from the
rename to the return of the call. `PutFails` may come at any place. The poll reads the
settings (`ReadSettings`) and then the token (`resolve_token`). `ProcessDies` keeps the
files, `PowerLoss` takes one stable version of each.

A setting is a name, a value is allowed or not, and a token is the number of the write that
made it. A missing override file and one that repeats the configuration are one.
`needs` (the token the settings were saved with), `kept` (the value acknowledged last, until
a request that changes it or overlapped it writes) and `stale` (what a handler has missed)
are history.

### PlayerControl

`req` has a record for each task that answers a request: `pc` is the await it is at, and the
rest is what it has read. `status` to `refresh_library` begin a request, the gateway's
among them; `ensure_controls_available` is the check, made once or twice. `ReadSong` to
`ScanReceiver` are the lookup in the order of the code: `mpc current`, `mpc status`, the
streams, the arbiter's winner, then the winner's player, or the receivers on D-Bus, or the
renderer if its endpoint is cached, or MPD. `discover_endpoint` to `invalidate_endpoint` are
the DLNA client, with the cache, each probe (which may fail on a renderer that lives), the storing
of an answer and the dropping of a dead endpoint as steps of their own. `CommandMpd`, `CommandReceiver` with
`terminate_receiver_streams`, and `invoke` are the command; `CheckLibrary` to
`ActOnPosition` the sequences of `mpc`. `...Unavailable`, `CallFails` and `CommandFails` are
programs that fail or do not answer.

The module extends `SettingsStore`: the check reads `talkover` from the settings in effect,
and handlers write them in between. The priority, the arbiter's winner, the streams and the
players are the environment and change at any time. Actions on the queue are by position;
titles and covers are left out, and what a receiver or a renderer offers is anything.
The ghosts say since when something has held: `barred` are the requests that found the
controls blocked all along, `steady` those during which the winner kept its stream and
no query failed, `alone` the one that cleared a queue nobody has touched since; `dropped`
says that a lost call has been answered for since the renderer last moved, and `fresh` marks
the requests that looked at the cache after that.

## Runs

All bounds are constants in the `.cfg` files. Deadlock is not checked where days, events or
hazards run out and the modelled system may rest.

| Run | Asks | Bounds, and why they are enough |
|---|---|---|
| `alert_priority` | alerts exclude the minute; every saved state can be recovered from; one minute a day; with one failure, crash, setting, request and rebuild at any step | two fader positions, one confirmation, two days: these properties are about modes and snapshots and do not read levels; two days let a minute follow another |
| `alert_modes` | MUSIC returns to the user's level, announcements are ducked, the minute is silent; the controller implements `PriorityModes`; priority audio ends once notifications stay off, and a minute that is active ends | one failure, one crash and settings that change at any step, under fairness. Three positions (0, ducked, full), so that silence, a duck and the user's level differ; the default level is the ducked one, so that a restore without a snapshot shows. What is said of levels and counts, a crash or another hand on MUSIC breaks (below): these properties speak of behaviours without a crash so far, and those about levels of `Undisturbed` ones, without requests and new sinks either; a talkover is ducked beside all but new sinks. The sinks are restored already; `alert_priority` starts before the mixer task has seen them |
| `mix_policy` | the budget, ALERT's fader, MUSIC given back, cancellation | two requests and four events among alerts, requests, settings and failures; a scale of 0..2 has a muted, a half and a full fader, and a full ALERT that leaves no room; a minute is played at nothing or half, an alert in full; the default level is the ducked one |
| `atomic_file` | temporaries, durability, the refinement | two callers, one of each fault; two suffice for a clash of names, one of each fault reaches every step |
| `mixer_state` | nothing unsaved at rest, restarts are recent, changes reach the disk | two handlers and one fault each: one update before, during and after a save |
| `source_arbiter` | a pass is exclusive, newcomers win, sources do not take turns, one stream at last | three streams of three sources (stopped by command, by signal, not at all) and four events: one winner, one loser and a newcomer |
| `pulse_cache` | a cached sink is right or its correction is on its way; what was answered Ok is kept by the server and read from the cache; the watcher sees the sinks as they are at last; every request is answered | one sink, two of its indices, two volumes, one task with requests and two events (requests, changes by others, deaths, lost connections), besides restarts, calls given up and late calls, which cost none: a race takes a request and one event, or two events. The server has any sinks at the start. The proofs have any number of sinks |
| `output_routing` | one script at a time; no module is forgotten but one whose line was lost; a swap is silent and gives MASTER's mute back; a failed switch leaves the old route; the route becomes what it should be | two devices and two events (hotplug, selections, service commands, other clients that play or meddle, mutes, failing calls, a state file written short, signals, restarts of the server), each at any step: the shortest races take a command or a selection and one fault; the watcher's own switches cost no event. One fixed module stands for all: cleaning up treats them alike; nine numbers leave one free always |
| `player_control` | blocked requests command nobody; a steady winner is the only target; a dead endpoint costs one call; a play request plays what it says; acknowledged settings and tokens are kept | two tasks, two settings handlers and two requests, polls or changes of settings, with one change of the world, failing call, death or power loss at any step; three evenings to start from, on which the winner is the renderer, a receiver or MPD; two endpoints. The races take two requests, or a request and one change; the proofs have any number |
| `mix_fader_move`, `route_unplug`, `route_mixer` | each shows a finding | the least that shows it |

### Fairness

`FairSpec` of `AlertController` has weak fairness of the controller, of the minute's task,
of the mixer task and of a request that waits: tokio polls tasks that can run, both locks
are fair queues, `paplay` is bounded by fifteen minutes (`src/audio.rs:529-572`), Pulse
calls by their timeouts, and the controller sleeps for a bounded time. Nothing is assumed
of polls, users, faults and crashes. The writer of the mixer state is fair because a sleep
and a system call end; handlers are not forced to change anything, but one that has changed
the value announces it. The arbiter is fair by its two-second heartbeat and the timeouts of
its commands, and a player that was told to stop does so at some time. The bus scripts are fair: their
calls end, and they wait for the lock, for a device and for a stream a bounded time; the
watcher is fair because it reads its pipe of events, and systemd restarts it; the daemon's
tasks poll. The worker of `PulseCache` is a loop whose waits are all bounded, an event that was
sent is read in some turn of it (strong fairness of `Drain`, since turns without events come
between), and tokio wakes the watcher; the server need not answer anything. Nothing is assumed of devices, users, commands, signals and failures. Safety
runs assume no fairness, but for `alert_modes`, `pulse_cache` and `output_routing`, which check
both kinds at once.

## Findings

Each is shown by a run and quoted in `PROJECT.json`.

* `mix_fader_move`: a MUSIC move during a talkover alert is overwritten by the snapshot.
* `route_unplug`: a loop that may not move goes with its device; `switch_output` then fails
  to unload it, takes that for a failed switch and goes back, so the route to parking is
  never made. `Settles` leaves this case (`Lost`) out.
* `route_mixer`: the daemon restores the user's mixer as soon as it sees the sinks, and the
  script that made them sets them to 100 % after that.

Met while modelling, without a run of their own:

* the minute's task saves a clone of the state (`alerts.rs:261`) that may be older than the
  alert the controller has saved meanwhile; a restart before the next save finds no alert;
* an alert that begins before the mixer task has restored new sinks takes their fresh level
  for the user's (`alerts.rs:286`), and puts it back in the end;
* a failed save or fade while notifications are switched off is not made up for: the next
  turn returns early (`alerts.rs:108-118`), and MUSIC stays ducked or silent;
* clear results before an active one count after a crash, since the zeroed count is saved
  late (`alerts.rs:407`);
* a crash between the save that ends the minute (`alerts.rs:99-102`) and the one that begins
  the alert (`alerts.rs:294-298`) loses the snapshot, and MUSIC stays silent;
* a switch-off looks whether the minute is marked active, then cancels its task, and only then
  looks for its snapshot (`alerts.rs:107-116`, `139-143`, `90-100`). A task in its last,
  synchronous stretch (`alerts.rs:255-263`) has restored MUSIC and clears the snapshot in
  between; `restore(None)` then fades MUSIC from the user's level to the configured default
  (`audio.rs:421-430`), where `docs/api.md:44` has the switch-off restore "the saved music level".
  The history `guessed` marks it in `AlertController` and in `MixPolicy`. `UserLevelKept` excuses
  it, and `NeverLeftDucked` then allows that level besides the user's and no other: without
  these `alert_modes` and `mix_policy` fail;
* switching talkover on or off during an alert changes what `clear_alert` restores
  (`alerts.rs:364`);
* a failing save in `maybe_start_minute_silence` leaves the minute marked active without a
  task, until the next poll cancels it;
* a fader request passes its check before it waits for the lock (`backend.rs:1505`), and may
  move MUSIC during priority audio; `alert_priority` includes such requests and
  `alert_modes`, for `MinuteIsSilent`, does not;
* `set_sink_mute` records the mute of ALERT but not of MUSIC (`audio.rs:221-229`);
* `put_audio_settings` reads, changes and writes without a lock (`backend.rs:1684`), and so
  does `put_alert_settings`: of two that overlap, one may undo what the other has answered
  Ok to, which is why `LostOnlyToOverlap` excuses overlaps and nothing else;
* a failing save between token and settings (`backend.rs:2101`), or a death there, leaves a
  new token with old settings; `TokenKeepsUp` is about the other direction;
* the controls are checked before the lookup and not after it (`backend.rs:1199`): a command
  goes out that an alert which began meanwhile should have stopped, so that
  `RefusedWhileBlocked` speaks of requests that were blocked all along;
* a lookup puts together answers of different moments (`backend.rs:1074`): when the winner
  changes or a query fails meanwhile, the command may go to a player in the background;
* clear, add and play of two requests mix (`backend.rs:1888`): both answer Ok, and MPD plays
  the songs of both or of one;
* removing or playing a position acts on whatever has it by then (`backend.rs:2069`);
* a test command beside the daemon has a mix-policy lock of its own: with
  `Processes = {"daemon", "test"}` `WithinUnity` fails;
* the arbiter stops losers only in a pass that changes the winner, and does not see a pause
  and resumption between two lists;
* the trap of `audio-buses.sh:37` removes the lock on SIGTERM and the script goes on; a kill
  between `mkdir` and the write of the pid leaves a lock that nobody removes;
* `write_state` (`audio-buses.sh:76-93`) is called under `if !` (388, 468), so that errexit is off in
  it: a failing `printf` group is ignored, `mv` puts a shortened file in place, and the status is 0.
  A switch then unloads the old loop although the file may name neither, a start ends with modules
  that no later stop finds. `NothingLeftBehind`, `SilentSwap` and `FailedSwitchKeepsRoute` excuse the
  lost lines (`unnamed`) and nothing else: without that `output_routing` fails;
* a mute by the user during a switch is lost if the switch has read the old one
  (`audio-buses.sh:450`), and a last unmute that fails leaves MASTER muted;
* a reconciliation that fails is not tried again before the next event, which is why
  `Settles` excuses a `mishap`;
* a selection rolled back after ten seconds may be routed after that, and under AUTO the new
  device then stays;
* a switch to the target there is already repairs gains but no missing loop;
* `set_mute` answers Ok without a call when the cached flag is as wanted (`pulse.rs:690`), even
  if another client has changed it and the event still waits: `AcknowledgedHolds` excuses a
  sink that was changed behind the cache;
* a refresh that fails on a connection that lives on is only logged (`pulse.rs:790`), and its
  event is done with: the entry stays as it was, and the tasks it wakes read it again;
* a request that is taken after the connection broke and before that is noticed is answered
  from the cache of the dead connection (`pulse.rs:490`, `918`).

## Proofs

Every theorem holds for all values of the constants that satisfy the module's named
assumption, hence for every bound, and without fairness. Type invariants are
proved and not run: as a theorem of their own (`TypeCorrect` of `AlertController`,
`AtomicFile`, `MixPolicy`, `SourceArbiter` and `PulseCache`, `RouteIsTyped`) or in the
inductive invariant (`MixerStateRuntime`, `SettingsStore`, `PlayerControl`). Where a property
speaks of undisturbed behaviours, a history variable or a budget of hazards that is still
whole says so, and the theorem is about every prefix without the disturbance.

* **AlertController.** `TypeOK`, `AlertExcludesMinute` and `Recoverable` are not inductive:
  what is about to be saved is in a local clone. `IInv` adds `ControlInv` (at each place of
  the controller, what its locals, the clone among them, may be and which mode the state is
  in) and `TaskInv` (the same for the minute's task). `OneMinuteADay` needs `DateInv` besides:
  each date played is on disk, in memory and in every clone.
  The levels are a second layer, `MusicInv`. `CountInv`: the count of clear results in the state is
  never ahead of those there were, and whoever is on the way to `clear_alert` has seen enough
  (`ClearIsConfirmed`). `CalmInv`: undisturbed, nobody but the controller and the minute's task
  has a hand on MUSIC, and the controller keeps off it while the minute's file plays, because it
  aborts the task before it does anything that moves MUSIC (`MinuteIsSilent`). `DuckInv`: MUSIC is
  ducked before an announcement asks for the lock (`AnnouncedDucked`). `KeptInv`: every level
  remembered, in memory, in the task or in the controller's hand, is the user's, and MUSIC stands
  there unless an alert, the minute's task or a restore to come owes it (`UserLevelKept`).
  `BudgetInv` (a budget of hazards only shrinks) makes "undisturbed so far" last backwards.
  `ImplementsModes` rests on all of these: a step that changes the state in memory is shown to
  be one of the mode steps (an alert's end by `CountInv`, its beginning by `AnswerInv`: no clear
  result came between the active one and the beginning; a minute's start by `DateInv`), one that
  takes a clone a `Copy`, and any other a stutter. `OnlyConfirmedClears` says the same of an
  alert's end without the abstraction.
* **AtomicFile.** `NamesInv` (who owns a temporary name), `ContentsInv` (what an open file
  holds before and after its sync) and `PathInv` (the path names a whole value, in the cache
  and on the platter) give `TempsAreOwned` and `AcknowledgedSurvives`. `ImplementsPromise`
  maps the rename to the replacement, the sync of the directory and a loss of power to
  those of `DurableFile`, and every other step to a stutter.
* **MixerStateRuntime.** The file's invariant holds for the instance; `SaveInv` says what
  the writer's snapshot is of, `HeldInv` which values are recent. `QuiescentIsSaved` follows
  from the writer's `seen` never being ahead of the changes.
* **MixPolicy.** `LockInv`: whoever is at a step that moves a fader holds the lock. So nobody
  else moves one between the sampling and the end of the file, and the sampled budget bounds
  what is heard (`SumWithinUnity`, for one process: two have two locks). `AlertUntouched`
  needs `FaderInv` and `OpInv`: a request between its move and its record holds the lock and
  knows both values. `CancellationNotLost` rests on the order of subscribing and looking.
  `ReturnInv`: with no announcement under way MUSIC is at a level the user chose, or at the
  default one if `guessed`, and one that is under way holds such a level to go back to; a
  canceller that finds no snapshot finds MUSIC given back (`MusicComesBack`, for one process).
* **SourceArbiter.** `DueInv`: a listed stream nobody touched is as the winner asks or has
  its correction to come, and none that would undo it; `PassInv` says that none is left
  after the pass. `QuietInv` makes an undisturbed list the same as the one before, so
  `Settles` follows. That a set of streams has a newest one is `NewestExists`.
  `NewcomerInv`: a stream that plays and neither was listed nor began nor resumed since
  was there before a restart, so that any that began is newer (`NewcomersWin`).
* **OutputRouting.** Four layers, each on those before, with `TypeOK` first. `LockInv`: unless a
  signal hit, the lock is its owner's and the owner is the only script at work
  (`LockExcludes`), so the rest may speak of one script at a time. `KnowsInv`: what a script's
  variables are at each place, such as that a switch past its reading has an old loop. `GraphInv`
  is the heart: for each place of a start and of a switch, what the server has of a route, what
  the state file names of it, and what the script has built. Devices and the server may take
  modules away at any step, so it bounds what there is and never says that something is there.
  A module whose line a short write has lost stays in `unnamed` until its number is given again, so
  each bound is on what the state file names together with `unnamed`; lemmas on `Publish` say what
  either outcome of a write leaves of both. At rest all there is is recorded or unnamed
  (`NothingLeftBehind`), and at the end of a switch it is undone or done
  (`FailedSwitchKeepsRoute`). `MuteInv`: while MASTER may have two routes it is muted, and a script
  between its query and its unmute knows the user's mute (`SilentSwap`, by way of `GraphInv`;
  `MuteKept`). That a free number is new rests on `LeastExists`, that a set of
  numbers has a least member.
* **PulseCache.** Every change by somebody else marks the sink as `foreign` and withdraws what
  was acknowledged about it. `FreshInv` says that any other cached sink is as the server has
  it, or lacks exactly the change that the server has just carried out; `AnswerInv` the same
  of an answer not yet taken, `AckedInv` that acknowledged changes are about such sinks and
  hold, `DownInv` that without a server nothing is relied on. `AcknowledgedIsKept` follows at
  once, and `WritesAreRead` because a change in hand is of the other kind. The order of
  events does not matter to these, so neither theorem needs an assumption on it. `StaleIsHeardOf` is about that order: `UsedInv`
  (no index is used again in a connection) makes an event fit one sink, `BatchInv` (no
  batch is in hand during a request) keeps events from being lost, `QueryInv` and
  `ChangeInv` say that an answer not yet taken is behind only where its event is to come,
  and `Told` that the server changes nothing without an event.
* **SettingsStore.** `TokenInv`: no token that may be found, now or after a power loss, is
  older than what any settings at hand need, a handler's draft included once its token's
  write has returned. `KeptInv`: a draft holds each acknowledged value that its handler
  neither changes nor has missed, so that writing it loses none.
* **PlayerControl.** `IInv` has `StoreInv`, untouched by the requests, and one predicate
  on a request's record for each property, since a request is in danger long before it acts.
  `Tame`: a blocked request stands before the check that ends it or on the gateway's way to
  one, and has settled on nothing. `OnTrack`: what a request has read so far agrees with
  the winner that keeps its stream. `Fresh`: an endpoint found in the cache after a lost call
  is the renderer's, because (`dropped`) the cache then holds that or nothing. `Solo`: the
  queue is empty, then what was asked for, then playing. Lemmas show for every step of a
  request what it makes of its record (`Sound`, `Tracked`), and for the steps that act on a
  player what that does to the others'.

Only model-checked is what holds under fairness: `DisablingEndsPriority`, `MinuteEnds`,
`EventuallySaved`, `ExclusiveAtLast`, `WatcherCatchesUp`, `EveryRequestAnswered` and
`OutputRouting.Settles`. Liveness is out of the prover's reach.

## Not modelled

The HTTP exchanges of provider, gateway and API (parsing, formatting, authorisation), the
Web UI and the diagnostics keep no state. Timestamps and error texts of `RuntimeState` are
left out, since nothing branches on them; so are poisoned mutexes, which end the process.
`MixPolicy` leaves out MASTER, the boot sequence `restore_user_mixer`, and a graph that is
rebuilt while a file plays. `OutputRouting` leaves out the default sink and the values of gains,
and takes the watcher's one-shot call after a change of `audio-output.env` for an event of
the watcher: it never waits for the lock beside it. `PulseCache` leaves out streams, which are never cached, and
unit conversions. `SettingsStore` leaves out the rules of validation and the environment's
variables, `PlayerControl` what players show and the texts of commands; of the gateway the
SSDP answers and descriptions are left out, and its volume and mute are the API's requests.
The replacement of the alert sound files is a write to a file that `paplay` opens, without
another reader in the daemon. The level meters (`src/api/meters.rs`) are one task that starts
and aborts three recorders by the number of listeners, which nothing else reads: its
hazards, such as levels that are still queued when the last listener leaves, end with the
next second's tick, and the rest is arithmetic.

## Plan

Order of work, most important first. A module is written to be proved about as well as
checked: constants with a named assumption, one action per step of the code, invariants
as conjunctions of named parts, no recursive operators.

Done: `AlertController`, `MixPolicy`, `AtomicFile` under `MixerStateRuntime`,
`SourceArbiter`, `PulseCache`, `OutputRouting`, `SettingsStore` under `PlayerControl`, each with
theorems for all of its safety properties.

1. An abstract server that is read directly, implemented by `PulseCache` but for a bounded
   staleness, from `StaleIsHeardOf`.
2. `SettingsStore`'s cells implemented by `DurableFile`, hence by `AtomicFile`.
3. Compositions: the controller's fades replaced by those of `MixPolicy`; the arbiter over
   `PulseCache` and under `PlayerControl`, whose `winner` it then chooses; the boot sequence
   with MASTER over `OutputRouting`.
