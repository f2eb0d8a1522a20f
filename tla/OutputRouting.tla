---------------------------- MODULE OutputRouting ----------------------------
(* The route from MASTER to a device: src/scripts/audio-buses.sh builds it,  *)
(* switches it and takes it down under a lock directory; the watcher         *)
(* src/scripts/proaudio-player-output-watch repairs it after events of the   *)
(* sound server; src/src/output_router.rs selects an output for the API.     *)
(*                                                                           *)
(* A device is its place in the order of names.  A module's number is free   *)
(* again when nothing refers to it.  The buses and the links between them    *)
(* are the "fixed" modules, made and lost together; the last link, MASTER to *)
(* an output, is a loop.  Gains, rates and the ALSA controls of a device are *)
(* left out: a device is at unity or not.                                    *)
EXTENDS Naturals, FiniteSets

CONSTANTS
  MaxDevice,   \* devices are 1..MaxDevice
  NFixed,      \* fixed modules of a graph
  MaxModule,   \* bound: module numbers
  MaxEvents    \* bound: what devices, users and failures do

ASSUME RoutingAssumption ==
  /\ MaxDevice \in Nat /\ MaxEvents \in Nat
  /\ NFixed \in Nat \ {0} /\ MaxModule \in Nat

Devices == 1..MaxDevice
Parking == 0                \* the target that is no device
Automatic == 0           \* the selection that is no device
Nowhere == MaxDevice + 1    \* where a loop leads whose device is gone
Absent == MaxDevice + 1     \* a line the state file does not have, or an empty one
Ids == 1..MaxModule
Scripts == {"unit", "watch"}    \* the service of the buses, and the watcher

VARIABLES
  present,     \* devices the server has
  busy,        \* devices other clients play into
  unity,       \* devices unmuted at 100 %
  live,        \* fixed modules the server has
  loops,       \* loops the server has: [id, to]
  muted,       \* MASTER's mute
  levels,      \* the buses carry the "user"'s mixer state, or the "initial" one
  record,      \* the state file: PHYSICAL, OUTPUT_TARGET and the modules it names
  unnamed,     \* history: modules whose lines a state file was to have, and has not
  configured,  \* PHYSICAL_SINK of audio-output.env
  lock,        \* the lock directory: "free", its owner, "dead" or "unmarked"
  pc, cmd,     \* place and command of each script
  want,        \* PHYSICAL_SINK in a script's environment
  target,      \* output_target
  built,       \* BUILD_MODULES, and the fixed modules a switch goes on using
  new,         \* new_output_loop
  old,         \* what a switch read from the state file
  wasMuted,    \* master_mute
  pending,     \* an event the watcher has yet to read
  rpc, rid, rprev,  \* the router's call: place, id, previous_configured
  userMuted,   \* MASTER's mute in the daemon's mixer state
  restored,    \* restored_topology
  signalled,   \* history: a script was killed or terminated
  raced,       \* history: a script took the lock while another was at work
  ignored,     \* history: a script went on after a failure to unload or to put back
  touched,     \* history: MASTER's mute was set, or could not be set back, in a switch
  mishap,      \* history: a call failed since the watcher last looked
  events       \* history: events so far

server == <<present, busy, unity, live, loops, muted, levels>>
files == <<record, unnamed, configured>>
locals == <<cmd, want, target, built, new, old, wasMuted>>
router == <<rpc, rid, rprev>>
daemon == <<userMuted, restored>>
signals == <<signalled, raced>>
history == <<signals, ignored, touched, mishap, events>>
vars == <<server, files, lock, pc, locals, pending, router, daemon, history>>

\* A state file, which may lack any of its lines; one without lines is as none.
NoRecord == [physical |-> Absent, target |-> Absent, loop |-> 0, fixed |-> {}]
Records == [physical : Devices \cup {Absent}, target : Devices \cup {Parking, Absent},
            loop : Ids \cup {0}, fixed : SUBSET Ids]

Recorded == (record.fixed \cup {record.loop}) \ {0}

\* current_output_target
Current == IF record.target # Absent THEN record.target ELSE record.physical
LoopIds == {l.id : l \in loops}
Loaded == live \cup LoopIds

Init ==
  /\ present \in SUBSET Devices /\ busy = {} /\ unity = {}
  /\ live = {} /\ loops = {} /\ muted = FALSE /\ levels = "initial"
  /\ record = NoRecord /\ unnamed = {} /\ configured = Automatic
  /\ lock = "free" /\ pc = [p \in Scripts |-> "idle"]
  /\ cmd = [p \in Scripts |-> "switch"] /\ want = [p \in Scripts |-> Automatic]
  /\ target = [p \in Scripts |-> Parking] /\ built = [p \in Scripts |-> {}]
  /\ new = [p \in Scripts |-> 0] /\ old = [p \in Scripts |-> NoRecord]
  /\ wasMuted = [p \in Scripts |-> FALSE]
  /\ pending = TRUE
  /\ rpc = "idle" /\ rid = 0 /\ rprev = Automatic
  /\ userMuted \in BOOLEAN /\ restored = {}
  /\ signalled = FALSE /\ raced = FALSE /\ ignored = FALSE /\ touched = FALSE
  /\ mishap = FALSE /\ events = 0

-----------------------------------------------------------------------------
(* Choosing an output. *)

Least(S) == CHOOSE d \in S : \A e \in S : d <= e

\* physical_candidates | head -n 1: RUNNING devices come first.  One that another
\* client plays into runs, one that a loop leads to may.
Candidates ==
  LET looped == {d \in present : \E l \in loops : l.to = d} IN
  IF present = {} THEN {Parking}
  ELSE IF busy = {} THEN {Least(present)} \cup looped
  ELSE {Least(busy)} \cup {d \in looped : d < Least(busy)}

\* The output the watcher wants; AUTO keeps the routed device.
Desired ==
  IF configured \in present THEN {configured}
  ELSE IF configured = Automatic /\ Current \in present THEN {Current}
  ELSE Candidates

\* find_physical_sink of a script.
Found(p) ==
  IF want[p] = Automatic THEN Candidates
  ELSE IF want[p] \in present THEN {want[p]} ELSE {Parking}

\* Mutant: a device that is muted or turned down is as good as any.
MutantHealthy(t) ==
  /\ record.fixed \subseteq live
  /\ \E l \in loops : l.id = record.loop /\ l.to # Nowhere

\* Whether the state file has the lines of the links, the only fixed modules that
\* graph_healthy looks up.
LinksNamed ==
  IF Cardinality(record.fixed) >= NFixed THEN {TRUE}
  ELSE IF record.fixed = {} THEN {FALSE} ELSE BOOLEAN

Healthy(t) ==
  /\ record.fixed \subseteq live
  /\ \E l \in loops : l.id = record.loop /\ l.to # Nowhere
  /\ t = Parking \/ t \in unity

-----------------------------------------------------------------------------
(* The lock directory. *)

Other(p) == IF p = "unit" THEN "watch" ELSE "unit"

\* Between taking the lock and the end.
Working(p) == pc[p] \notin {"idle", "want", "stale"}

Go(p, place) == pc' = [pc EXCEPT ![p] = place]

Forget(p) ==
  /\ cmd' = [cmd EXCEPT ![p] = "switch"] /\ want' = [want EXCEPT ![p] = Automatic]
  /\ target' = [target EXCEPT ![p] = Parking] /\ built' = [built EXCEPT ![p] = {}]
  /\ new' = [new EXCEPT ![p] = 0] /\ old' = [old EXCEPT ![p] = NoRecord]
  /\ wasMuted' = [wasMuted EXCEPT ![p] = FALSE]

\* The script ends: whatever lock directory is there is removed.
Exit(p) == lock' = "free" /\ Go(p, "idle") /\ Forget(p)

Event == events < MaxEvents /\ events' = events + 1

\* A call fails because it cannot succeed, or for a reason of its own.
Failing(possible) ==
  \/ ~possible /\ UNCHANGED <<events, mishap>>
  \/ possible /\ Event /\ mishap' = TRUE

\* Some of the modules S stay loaded, unnoticed.
Leaving(S, F) ==
  IF F = {} THEN UNCHANGED <<events, mishap, ignored>>
  ELSE F \subseteq S /\ Event /\ mishap' = TRUE /\ ignored' = TRUE

Take(p) ==
  /\ pc[p] = "want" /\ lock = "free" /\ lock' = p
  /\ Go(p, CASE cmd[p] = "start" -> "unload"
             [] cmd[p] = "switch" -> "read"
             [] OTHER -> "stop")
  /\ raced' = (raced \/ Working(Other(p)))
  /\ UNCHANGED <<server, files, locals, pending, router, daemon, signalled, ignored, touched, mishap, events>>

\* The owner's number cannot be written: the script ends before its trap is set.
MarkFails(p) ==
  /\ pc[p] = "want" /\ lock = "free" /\ lock' = "unmarked"
  /\ Go(p, "idle") /\ Forget(p) /\ Event /\ mishap' = TRUE
  /\ UNCHANGED <<server, files, pending, router, daemon, signals, ignored, touched>>

\* Fifteen seconds have passed: the lock was taken, or mkdir failed.
GiveUp(p) ==
  /\ pc[p] = "want"
  /\ IF lock = "free" THEN Event ELSE UNCHANGED events
  /\ Go(p, "idle") /\ Forget(p) /\ mishap' = TRUE
  /\ UNCHANGED <<server, files, lock, pending, router, daemon, signals, ignored, touched>>

\* Mutant: whoever waits takes the owner for dead.
MutantSeeDead(p) ==
  /\ pc[p] = "want" /\ lock # "free" /\ Go(p, "stale")
  /\ UNCHANGED <<server, files, lock, locals, pending, router, daemon, history>>

\* kill -0 says that the owner is gone ...
SeeDead(p) ==
  /\ pc[p] = "want" /\ lock = "dead" /\ Go(p, "stale")
  /\ UNCHANGED <<server, files, lock, locals, pending, router, daemon, history>>

\* ... and the directory is removed, whose ever it is by now.
RemoveStale(p) ==
  /\ pc[p] = "stale" /\ lock' = "free" /\ Go(p, "want")
  /\ UNCHANGED <<server, files, locals, pending, router, daemon, history>>

\* SIGKILL.  Before the pid file is written nobody can tell that the owner died.
\* The watcher may go too, and begins again.
Kill(p) ==
  /\ pc[p] # "idle" /\ Event /\ mishap' = TRUE /\ signalled' = TRUE
  /\ Go(p, "idle") /\ Forget(p)
  /\ lock' \in IF lock # p THEN {lock}
               ELSE IF pc[p] \in {"unload", "read", "stop"} THEN {"dead", "unmarked"}
               ELSE {"dead"}
  /\ pending' \in {pending, pending \/ p = "watch"}
  /\ UNCHANGED <<server, files, router, daemon, raced, ignored, touched>>

\* SIGTERM: the trap removes the lock and the script goes on.
Terminate(p) ==
  /\ Working(p) /\ Event
  /\ lock' = "free" /\ signalled' = TRUE
  /\ UNCHANGED <<server, files, pc, locals, pending, router, daemon, raced, ignored, touched, mishap>>

-----------------------------------------------------------------------------
(* start, stop and restart. *)

\* unload_saved_modules: what is recorded is unloaded, and the record removed.
UnloadSaved(p) ==
  \E F \in SUBSET (Recorded \cap Loaded) :
    /\ Leaving(Recorded \cap Loaded, F)
    /\ live' = live \ (Recorded \ F)
    /\ loops' = {l \in loops : l.id \notin Recorded \ F}
    /\ record' = NoRecord
    /\ pending' = (pending \/ live' # live)

Stop(p) ==
  /\ pc[p] = "stop" /\ UnloadSaved(p)
  /\ IF cmd[p] = "restart"
       THEN Go(p, "unload") /\ UNCHANGED <<lock, locals>>
       ELSE Exit(p)
  /\ UNCHANGED <<present, busy, unity, muted, levels, unnamed, configured, router, daemon,
                 signals, touched>>

Unload(p) ==
  /\ pc[p] = "unload" /\ UnloadSaved(p)
  /\ Go(p, "choose")
  /\ UNCHANGED <<present, busy, unity, muted, levels, unnamed, configured, lock, locals, router,
                 daemon, signals, touched>>

Choose(p) ==
  /\ pc[p] = "choose"
  /\ \E t \in Found(p) :
       /\ target' = [target EXCEPT ![p] = t]
       /\ Go(p, IF t = Parking THEN "load" ELSE "prepare")
  /\ UNCHANGED <<server, files, lock, cmd, want, built, new, old, wasMuted, pending,
                 router, daemon, history>>

\* Numbers nobody refers to.
Free == Ids \ (Loaded \cup Recorded \cup restored
               \cup UNION {built[p] \cup {new[p], old[p].loop} \cup old[p].fixed : p \in Scripts})

Fresh == Least(Free)

\* Fixed modules are yet to be loaded.
Building(p) == cmd[p] # "switch" /\ Cardinality(built[p]) < NFixed

\* A number given again is another module.
Loads(p) == built' = [built EXCEPT ![p] = @ \cup {Fresh}] /\ unnamed' = unnamed \ {Fresh}

\* The sinks a graph begins with are unmuted and at the level a new sink has.
LoadFixed(p) ==
  /\ pc[p] = "load" /\ Building(p) /\ Free # {}
  /\ live' = live \cup {Fresh} /\ Loads(p)
  /\ muted' = FALSE /\ levels' = "initial"
  /\ pending' = TRUE
  /\ UNCHANGED <<present, busy, unity, loops, record, configured, lock, pc, cmd, want, target,
                 new, old, wasMuted, router, daemon, history>>

Reachable(t) == t = Parking \/ t \in present

\* What the new loop hangs on.
Bus(p) == IF cmd[p] = "switch" THEN old[p].fixed ELSE built[p]

LoadLoop(p) ==
  /\ pc[p] = "load" /\ ~Building(p)
  /\ Bus(p) \subseteq live /\ Reachable(target[p]) /\ Free # {}
  /\ loops' = loops \cup {[id |-> Fresh, to |-> target[p]]}
  /\ new' = [new EXCEPT ![p] = Fresh] /\ Loads(p)
  /\ Go(p, "gain")
  /\ UNCHANGED <<present, busy, unity, live, muted, levels, record, configured, lock, cmd, want,
                 target, old, wasMuted, pending, router, daemon, history>>

LoadFails(p) ==
  /\ pc[p] = "load"
  /\ Failing(Building(p) \/ (Bus(p) \subseteq live /\ Reachable(target[p])))
  /\ Go(p, "cleanup")
  /\ UNCHANGED <<server, files, lock, locals, pending, router, daemon, signals, ignored,
                 touched>>

\* The fixed gain of a link can be set while the link has a stream.
Linked(id) == \E l \in loops : l.id = id /\ l.to # Nowhere

Gain(p) ==
  /\ pc[p] = "gain" /\ Bus(p) \subseteq Loaded /\ Linked(new[p])
  /\ Go(p, IF cmd[p] = "switch" THEN "write" ELSE "initialise")
  /\ UNCHANGED <<server, files, lock, locals, pending, router, daemon, history>>

GainFails(p) ==
  /\ pc[p] = "gain" /\ Failing(Bus(p) \subseteq Loaded /\ Linked(new[p]))
  /\ Go(p, "cleanup")
  /\ UNCHANGED <<server, files, lock, locals, pending, router, daemon, signals, ignored,
                 touched>>

\* Every bus at 100 % and unmuted, MASTER's mute last.
Initialise(p) ==
  /\ pc[p] = "initialise" /\ built[p] \ {new[p]} \subseteq live
  /\ muted' = FALSE /\ levels' = "initial" /\ pending' = TRUE
  /\ Go(p, "write")
  /\ UNCHANGED <<present, busy, unity, live, loops, files, lock, locals, router, daemon, history>>

InitialiseFails(p) ==
  /\ pc[p] = "initialise" /\ Failing(built[p] \ {new[p]} \subseteq live)
  /\ levels' \in {levels, "initial"} /\ pending' = TRUE
  /\ Go(p, "cleanup")
  /\ UNCHANGED <<present, busy, unity, live, loops, muted, files, lock, locals, router, daemon,
                 signals, ignored, touched>>

\* A file that lacks some of its lines.
Shortened(file) ==
  {[physical |-> f, target |-> t, loop |-> l, fixed |-> S] :
     f \in {file.physical, Absent}, t \in {file.target, Absent}, l \in {file.loop, 0},
     S \in SUBSET file.fixed} \ {file}

\* write_state publishes a file.  Under "if !" or before "||" the shell goes on after
\* a line that cannot be written, and the last call, mv, succeeds.
Publish(file) ==
  \/ /\ record' = file /\ UNCHANGED <<unnamed, mishap, events>>
  \/ /\ record' \in Shortened(file) /\ Event /\ mishap' = TRUE
     /\ unnamed' = unnamed \cup (file.fixed \ record'.fixed) \cup ({file.loop} \ {record'.loop})

\* A switch has the old loop still to unload.
Write(p) ==
  /\ pc[p] = "write"
  /\ Publish([physical |-> IF target[p] = Parking THEN Absent ELSE target[p],
              target |-> target[p], loop |-> new[p],
              fixed |-> IF cmd[p] = "switch" THEN old[p].fixed ELSE built[p] \ {new[p]}])
  /\ IF cmd[p] = "switch"
       THEN Go(p, "drop") /\ UNCHANGED <<lock, locals>>
       ELSE Exit(p)
  /\ UNCHANGED <<server, configured, pending, router, daemon, signals, ignored, touched>>

\* mv fails.
WriteFails(p) ==
  /\ pc[p] = "write" /\ Event /\ mishap' = TRUE
  /\ Go(p, "cleanup")
  /\ UNCHANGED <<server, files, lock, locals, pending, router, daemon, signals, ignored,
                 touched>>

\* Mutant: the loop is not among the modules to clean up.
MutantCleanup(p) ==
  /\ pc[p] = "cleanup"
  /\ live' = live \ built[p] /\ loops' = loops
  /\ pending' = TRUE
  /\ IF cmd[p] = "switch" THEN Go(p, "unmute") /\ UNCHANGED <<lock, locals>> ELSE Exit(p)
  /\ UNCHANGED <<present, busy, unity, muted, levels, files, router, daemon, history>>

\* cleanup_build_modules; a switch then gives MASTER its mute back.
Cleanup(p) ==
  /\ pc[p] = "cleanup"
  /\ \E F \in SUBSET (built[p] \cap Loaded) :
       /\ Leaving(built[p] \cap Loaded, F)
       /\ live' = live \ (built[p] \ F)
       /\ loops' = {l \in loops : l.id \notin built[p] \ F}
  /\ pending' = (pending \/ live' # live)
  /\ IF cmd[p] = "switch" THEN Go(p, "unmute") /\ UNCHANGED <<lock, locals>> ELSE Exit(p)
  /\ UNCHANGED <<present, busy, unity, muted, levels, files, router, daemon, signals, touched>>

-----------------------------------------------------------------------------
(* Preparing the device: muted, at 100 %, unmuted. *)

\* The route is the one there is already.
Same(route, t) == route.target = t /\ route.loop # 0

AfterPrepare(p) ==
  IF cmd[p] # "switch" THEN "load" ELSE IF Same(old[p], target[p]) THEN "regain" ELSE "gains"

Prepare(p) ==
  /\ pc[p] = "prepare" /\ target[p] \in present
  /\ unity' = unity \cup {target[p]} /\ pending' = TRUE
  /\ Go(p, AfterPrepare(p))
  /\ UNCHANGED <<present, busy, live, loops, muted, levels, files, lock, locals, router, daemon,
                 history>>

\* Under "if !" the shell goes on after a failed call unless it is the last.
PrepareIgnored(p) ==
  /\ pc[p] = "prepare" /\ cmd[p] # "switch" /\ target[p] \in present /\ Event /\ mishap' = TRUE
  /\ unity' = unity \ {target[p]} /\ pending' = TRUE
  /\ Go(p, "load")
  /\ UNCHANGED <<present, busy, live, loops, muted, levels, files, lock, locals, router, daemon,
                 signals, ignored, touched>>

PrepareFails(p) ==
  /\ pc[p] = "prepare" /\ Failing(target[p] \in present)
  /\ unity' \in {unity, unity \ {target[p]}} /\ pending' = (pending \/ unity' # unity)
  /\ Exit(p)
  /\ UNCHANGED <<present, busy, live, loops, muted, levels, files, router, daemon, signals,
                 ignored, touched>>

-----------------------------------------------------------------------------
(* switch. *)

\* What a script makes of the state file: no target is the parking.
Route == [record EXCEPT !.target = IF Current = Absent THEN Parking ELSE Current]

\* The buses are named and there.
Whole == Cardinality(record.fixed) >= NFixed /\ record.fixed \subseteq live

\* Without buses everything is built anew.
Read(p) ==
  /\ pc[p] = "read"
  /\ IF ~Whole
       THEN /\ cmd' = [cmd EXCEPT ![p] = "start"] /\ UNCHANGED <<target, old>>
            /\ Go(p, "unload")
       ELSE /\ UNCHANGED cmd
            /\ old' = [old EXCEPT ![p] = Route]
            /\ \E t \in Found(p) :
                 /\ target' = [target EXCEPT ![p] = t]
                 /\ Go(p, IF t # Parking THEN "prepare"
                          ELSE IF Same(Route, t) THEN "regain" ELSE "gains")
  /\ UNCHANGED <<server, files, lock, want, built, new, wasMuted, pending, router, daemon,
                 history>>

\* pactl info fails.
NoServer(p) ==
  /\ pc[p] \in {"choose", "read"} /\ Event /\ mishap' = TRUE
  /\ Exit(p)
  /\ UNCHANGED <<server, files, pending, router, daemon, signals, ignored, touched>>

\* The same route: its gains are all there is to repair.
Regain(p) ==
  /\ pc[p] = "regain"
  /\ \/ old[p].fixed \subseteq live /\ Linked(old[p].loop) /\ UNCHANGED <<events, mishap>>
     \/ Failing(old[p].fixed \subseteq live /\ Linked(old[p].loop))
  /\ Exit(p)
  /\ UNCHANGED <<server, files, pending, router, daemon, signals, ignored, touched>>

Gains(p) ==
  /\ pc[p] = "gains" /\ old[p].fixed \subseteq live
  /\ Go(p, "query")
  /\ UNCHANGED <<server, files, lock, locals, pending, router, daemon, history>>

\* get-sink-mute
Query(p) ==
  /\ pc[p] = "query" /\ old[p].fixed \subseteq live
  /\ wasMuted' = [wasMuted EXCEPT ![p] = muted]
  /\ Go(p, "mute")
  /\ UNCHANGED <<server, files, lock, cmd, want, target, built, new, old, pending, router,
                 daemon, history>>

\* Mutant: MASTER is heard while it has two routes.
MutantMute(p) ==
  /\ pc[p] = "mute" /\ old[p].fixed \subseteq live
  /\ Go(p, "load")
  /\ UNCHANGED <<server, files, lock, locals, pending, router, daemon, history>>

\* set-sink-mute
Mute(p) ==
  /\ pc[p] = "mute" /\ old[p].fixed \subseteq live
  /\ muted' = TRUE /\ pending' = (pending \/ ~muted)
  /\ Go(p, "load")
  /\ UNCHANGED <<present, busy, unity, live, loops, levels, files, lock, locals, router, daemon,
                 history>>

\* One of these calls fails, and the old route stays.
SwitchFails(p) ==
  /\ pc[p] \in {"gains", "query", "mute"} /\ Failing(old[p].fixed \subseteq live)
  /\ Exit(p)
  /\ UNCHANGED <<server, files, pending, router, daemon, signals, ignored, touched>>

\* The old loop is unloaded, if the state file named one.
Drop(p) ==
  /\ pc[p] = "drop" /\ old[p].loop \in LoopIds \cup {0}
  /\ loops' = {l \in loops : l.id # old[p].loop}
  /\ Go(p, "unmute")
  /\ UNCHANGED <<present, busy, unity, live, muted, levels, files, lock, locals, pending, router,
                 daemon, signals, ignored, touched, mishap, events>>

\* Mutant: the new route stays in the state file.
MutantDropFails(p) ==
  /\ pc[p] = "drop" /\ old[p].loop # 0 /\ Failing(old[p].loop \in LoopIds)
  /\ Go(p, "cleanup")
  /\ UNCHANGED <<server, files, lock, locals, pending, router, daemon, signals, ignored,
                 touched>>

DropFails(p) ==
  /\ pc[p] = "drop" /\ old[p].loop # 0 /\ Failing(old[p].loop \in LoopIds)
  /\ Go(p, "putback")
  /\ UNCHANGED <<server, files, lock, locals, pending, router, daemon, signals, ignored,
                 touched>>

\* write_state ... || true
PutBack(p) ==
  /\ pc[p] = "putback"
  /\ \/ Publish(old[p]) /\ UNCHANGED ignored
     \/ UNCHANGED <<record, unnamed>> /\ ignored' = TRUE /\ Event /\ mishap' = TRUE
  /\ Go(p, "cleanup")
  /\ UNCHANGED <<server, configured, lock, locals, pending, router, daemon, signals, touched>>

\* Mutant: MASTER is unmuted although the user had muted it.
MutantUnmute(p) ==
  /\ pc[p] = "unmute" /\ Exit(p) /\ muted' = FALSE /\ pending' = TRUE
  /\ UNCHANGED <<present, busy, unity, live, loops, levels, files, router, daemon, history>>

Unmute(p) ==
  /\ pc[p] = "unmute" /\ Exit(p)
  /\ muted' = (muted /\ wasMuted[p]) /\ pending' = (pending \/ muted' # muted)
  /\ UNCHANGED <<present, busy, unity, live, loops, levels, files, router, daemon, history>>

UnmuteFails(p) ==
  /\ pc[p] = "unmute" /\ ~wasMuted[p] /\ Event /\ mishap' = TRUE
  /\ Exit(p) /\ touched' = TRUE
  /\ UNCHANGED <<server, files, pending, router, daemon, signals, ignored>>

-----------------------------------------------------------------------------
(* The watcher: an event makes it compare the route with the one it wants.   *)

Reconcile ==
  /\ pc["watch"] = "idle" /\ pending
  /\ pending' = FALSE /\ mishap' = FALSE
  /\ \E t \in Desired, named \in LinksNamed :
       IF Current = t /\ named /\ Healthy(t)
         THEN UNCHANGED <<pc, want>>
         ELSE /\ Go("watch", "want")
              /\ want' = [want EXCEPT !["watch"] = t]    \* Parking is AUTO
  /\ UNCHANGED <<server, files, lock, cmd, target, built, new, old, wasMuted, router, daemon,
                 signals, ignored, touched, events>>

\* systemctl start, stop or restart of the service, with the selection it began with.
Command ==
  /\ pc["unit"] = "idle" /\ Event
  /\ \E c \in {"start", "stop", "restart"} : cmd' = [cmd EXCEPT !["unit"] = c]
  /\ want' = [want EXCEPT !["unit"] = configured]
  /\ Go("unit", "want")
  /\ UNCHANGED <<server, files, lock, target, built, new, old, wasMuted, pending, router,
                 daemon, signals, ignored, touched, mishap>>

-----------------------------------------------------------------------------
(* select_output of the daemon. *)

Select ==
  /\ rpc = "idle" /\ Event
  /\ \E d \in present :
       /\ configured' = d
       /\ IF record.physical = d THEN UNCHANGED router
          ELSE rpc' = "waiting" /\ rid' = d /\ rprev' = configured
  /\ pending' = TRUE
  /\ UNCHANGED <<server, record, unnamed, lock, pc, locals, daemon, signals, ignored, touched,
                 mishap>>

\* wait_for_routed_output
Confirmed ==
  /\ rpc = "waiting" /\ record.physical = rid
  /\ rpc' = "idle" /\ rid' = 0 /\ rprev' = Automatic
  /\ UNCHANGED <<server, files, lock, pc, locals, pending, daemon, history>>

\* Ten seconds have passed: the previous selection is written again.
RollBack ==
  /\ rpc = "waiting" /\ record.physical # rid
  /\ configured' = rprev
  /\ rpc' = "idle" /\ rid' = 0 /\ rprev' = Automatic
  /\ pending' = TRUE
  /\ UNCHANGED <<server, record, unnamed, lock, pc, locals, daemon, signals, ignored, touched,
                 mishap, events>>

\* The write fails, or the daemon dies: the selection stays.
RollBackFails ==
  /\ rpc = "waiting" /\ Event
  /\ rpc' = "idle" /\ rid' = 0 /\ rprev' = Automatic
  /\ UNCHANGED <<server, files, lock, pc, locals, pending, daemon, signals, ignored, touched, mishap>>

-----------------------------------------------------------------------------
(* The daemon's mixer task and the user's mute of MASTER. *)

\* Between a script's look at MASTER's mute and its giving it back.
Switching == \E p \in Scripts : pc[p] \in {"mute", "load", "gain", "write", "cleanup", "drop",
                                           "putback", "unmute"} /\ cmd[p] = "switch"

\* keep_user_mixer_restored: sinks not seen before get the user's mixer state.
Restore ==
  /\ Cardinality(live) >= NFixed /\ restored # live
  /\ muted' = userMuted /\ levels' = "user" /\ restored' = live
  /\ pending' = TRUE /\ touched' = Switching
  /\ UNCHANGED <<present, busy, unity, live, loops, files, lock, pc, locals, router, userMuted,
                 signals, ignored, mishap, events>>

UserMutes ==
  /\ live # {} /\ Event
  /\ userMuted' = ~userMuted /\ muted' = ~userMuted
  /\ pending' = TRUE /\ touched' = Switching
  /\ UNCHANGED <<present, busy, unity, live, loops, levels, files, lock, pc, locals, router,
                 restored, signals, ignored, mishap>>

-----------------------------------------------------------------------------
(* Devices and the sound server. *)

Plug ==
  /\ Event
  /\ \E d \in Devices \ present :
       /\ present' = present \cup {d}
       /\ unity' \in {unity, unity \cup {d}}
  /\ pending' = TRUE
  /\ UNCHANGED <<busy, live, loops, muted, levels, files, lock, pc, locals, router, daemon, signals,
                 ignored, touched, mishap>>

\* A loop may not move to another device: it loses its stream, and its module
\* may be unloaded with it.
Unplug ==
  /\ Event
  /\ \E d \in present :
       /\ present' = present \ {d} /\ busy' = busy \ {d} /\ unity' = unity \ {d}
       /\ \/ loops' = {l \in loops : l.to # d}
          \/ loops' = {[l EXCEPT !.to = IF l.to = d THEN Nowhere ELSE l.to] : l \in loops}
  /\ pending' = TRUE
  /\ UNCHANGED <<live, muted, levels, files, lock, pc, locals, router, daemon, signals,
                 ignored, touched, mishap>>

\* Another client turns a device down.
Meddle ==
  /\ Event
  /\ \E d \in unity : unity' = unity \ {d}
  /\ pending' = TRUE
  /\ UNCHANGED <<present, busy, live, loops, muted, levels, files, lock, pc, locals, router, daemon,
                 signals, ignored, touched, mishap>>

\* Another client begins or ends to play into a device.
ClientPlays ==
  /\ Event
  /\ \E d \in present : busy' = IF d \in busy THEN busy \ {d} ELSE busy \cup {d}
  /\ pending' = TRUE
  /\ UNCHANGED <<present, unity, live, loops, muted, levels, files, lock, pc, locals, router,
                 daemon, signals, ignored, touched, mishap>>

\* The server restarts without the modules; the watcher is restarted.
ServerRestart ==
  /\ Event
  /\ live' = {} /\ loops' = {} /\ muted' = FALSE /\ levels' = "initial"
  /\ unity' \in SUBSET present /\ busy' \in {busy, {}}
  /\ pending' = TRUE
  /\ UNCHANGED <<present, files, lock, pc, locals, router, daemon, signals, ignored, touched, mishap>>

-----------------------------------------------------------------------------
StartStep(p) ==
  \/ Stop(p) \/ Unload(p) \/ Choose(p) \/ LoadFixed(p) \/ LoadLoop(p) \/ LoadFails(p)
  \/ Gain(p) \/ GainFails(p) \/ Initialise(p) \/ InitialiseFails(p)
  \/ Write(p) \/ WriteFails(p) \/ Cleanup(p) \/ NoServer(p)

SwitchStep(p) ==
  \/ Prepare(p) \/ PrepareIgnored(p) \/ PrepareFails(p) \/ Read(p) \/ Regain(p) \/ Gains(p)
  \/ Query(p) \/ Mute(p) \/ SwitchFails(p) \/ Drop(p) \/ DropFails(p) \/ PutBack(p)
  \/ Unmute(p) \/ UnmuteFails(p)

LockStep(p) == Take(p) \/ MarkFails(p) \/ GiveUp(p) \/ SeeDead(p) \/ RemoveStale(p)

Run(p) == LockStep(p) \/ StartStep(p) \/ SwitchStep(p)

Environment ==
  \/ Command \/ Select \/ RollBackFails \/ UserMutes \/ Plug \/ Unplug \/ Meddle
  \/ ClientPlays \/ ServerRestart \/ \E p \in Scripts : Kill(p) \/ Terminate(p)

Next ==
  \/ \E p \in Scripts : Run(p)
  \/ Reconcile \/ Confirmed \/ RollBack \/ Restore \/ Environment

Spec == Init /\ [][Next]_vars

\* A script's calls end and its waits are bounded; the watcher reads its events;
\* the daemon's tasks poll.
Fairness ==
  /\ \A p \in Scripts : WF_vars(Run(p))
  /\ WF_vars(Reconcile) /\ WF_vars(Confirmed \/ RollBack) /\ WF_vars(Restore)

FairSpec == Spec /\ Fairness

-----------------------------------------------------------------------------
Places == {"idle", "want", "stale", "stop", "unload", "choose", "prepare", "load", "gain",
           "initialise", "write", "cleanup", "read", "regain", "gains", "query", "mute", "drop",
           "putback", "unmute"}

\* No number is both a fixed module and a loop, nor two loops.
GraphTypes ==
  /\ present \in SUBSET Devices /\ busy \in SUBSET present /\ unity \in SUBSET present
  /\ live \in SUBSET Ids /\ loops \in SUBSET [id : Ids, to : 0..Nowhere]
  /\ \A a, b \in loops : a.id = b.id => a = b
  /\ live \cap LoopIds = {}

FlagTypes ==
  /\ muted \in BOOLEAN /\ levels \in {"user", "initial"} /\ pending \in BOOLEAN
  /\ userMuted \in BOOLEAN /\ signalled \in BOOLEAN /\ raced \in BOOLEAN
  /\ ignored \in BOOLEAN /\ touched \in BOOLEAN /\ mishap \in BOOLEAN

NoteTypes ==
  /\ record \in Records /\ unnamed \in SUBSET Ids /\ configured \in Devices \cup {Automatic}
  /\ lock \in Scripts \cup {"free", "dead", "unmarked"}
  /\ rpc \in {"idle", "waiting"} /\ rid \in Devices \cup {0} /\ rprev \in Devices \cup {Automatic}
  /\ restored \in SUBSET Ids

ScriptTypes ==
  /\ pc \in [Scripts -> Places]
  /\ cmd \in [Scripts -> {"start", "stop", "restart", "switch"}]
  /\ want \in [Scripts -> Devices \cup {Automatic}]
  /\ target \in [Scripts -> Devices \cup {Parking}]
  /\ built \in [Scripts -> SUBSET Ids] /\ new \in [Scripts -> Ids \cup {0}]
  /\ old \in [Scripts -> Records] /\ wasMuted \in [Scripts -> BOOLEAN]

TypeOK == GraphTypes /\ FlagTypes /\ NoteTypes /\ ScriptTypes /\ events \in 0..MaxEvents

\* The scripts exclude each other, unless a signal took the lock from its owner.
LockExcludes == ~signalled => \E p \in Scripts : ~Working(p)

Resting == \A p \in Scripts : ~Working(p)

\* Whatever fails on the way, between two scripts the server has no module of
\* theirs that the state file does not name, unless one was killed or could not
\* unload one, or the module's own line was lost, unnoticed, from a state file
\* (cleanup_build_modules, the undoing in switch_output, write_state).
NothingLeftBehind ==
  Resting /\ ~signalled /\ ~ignored => Loaded \subseteq Recorded \cup unnamed

\* While two loops lead out of MASTER it is muted: nothing is heard twice, or
\* with a gap, unless the mute was changed by someone else meanwhile, or a loop
\* stayed because its line was lost from a state file.
SilentSwap ==
  ~signalled /\ ~ignored /\ ~touched /\ Cardinality({l \in loops : l.id \notin unnamed}) > 1
    => muted

\* MASTER comes out of a switch, done or failed, with the mute the user gave it.
MuteKept ==
  Resting /\ ~signalled /\ ~touched /\ levels = "user" /\ restored = live => muted = userMuted

\* The state file names a loop, and says what the file r says, but for lines lost.
NamesLoop(i) == record.loop = i \/ (record.loop = 0 /\ i \in unnamed)

Says(r) ==
  /\ record.physical \in {r.physical, Absent} /\ record.target \in {r.target, Absent}
  /\ record.fixed \subseteq r.fixed /\ r.fixed \subseteq record.fixed \cup unnamed
  /\ NamesLoop(r.loop)

\* A switch that is called off leaves the previous route: it is what the state
\* file says again, and the new loop is gone.  One that is not leaves the new one.
\* Only lines lost, unnoticed, from a state file may be missing there.
FailedSwitchKeepsRoute ==
  \A p \in Scripts :
    pc[p] = "unmute" /\ ~signalled /\ ~ignored =>
      \/ Says(old[p]) /\ new[p] \notin LoopIds
      \/ NamesLoop(new[p]) /\ old[p].loop \notin LoopIds

Routed ==
  /\ record.fixed # {} /\ record.fixed \subseteq live /\ Linked(record.loop)
  /\ Route.target = Parking \/ Route.target \in unity
  /\ Route.target = Parking => present = {}
  /\ configured \in present => Route.target = configured

\* The route's loop is gone and its buses are not.
Lost == Whole /\ record.loop # 0 /\ ~Linked(record.loop)

\* Hotplug, selections, meddling, restarts of the server and of the service:
\* the route becomes what it should be, unless a call failed after the watcher's
\* last look, the loop was lost, or two scripts were at work at once.
Settles == <>[](~Lost /\ ~mishap /\ ~raced) => <>[]Routed

\* docs/audio-architecture.md: "If the DAC disappears, the same link returns to
\* parking".
UnplugParks ==
  (Route.target \in Devices /\ present = {}) ~> (Route.target = Parking \/ present # {})

\* docs/audio-architecture.md: the daemon "reapplies the saved MUSIC/ALERT/MASTER
\* state once per newly created topology".
UserMixerReapplied ==
  Resting /\ record.loop # 0 /\ restored = record.fixed /\ restored = live => levels = "user"
=============================================================================
