------------------------ MODULE OutputRoutingProofs ------------------------
(* Safety of OutputRouting for any number of devices, modules and events: the *)
(* lock, what a route is made of at every place of a script, MASTER's mute.   *)
EXTENDS OutputRouting, FiniteSetTheorems, TLAPS

\* A set of numbers has a least one: of the numbers below each of its members
\* one set is the smallest.
LEMMA LeastExists ==
  ASSUME NEW N \in Nat, NEW S \in SUBSET (1..N), S # {}
  PROVE  Least(S) \in S
  <1> DEFINE Below(i) == 1..(i - 1)
             T == {Below(i) : i \in S}
             R == StrictSubsetOrdering(1..N)
  <1>1. \A i \in S : i \in Nat /\ 1 <= i /\ i <= N /\ Below(i) \in SUBSET (1..N)
    OBVIOUS
  <1>2. IsWellFoundedOn(R, SUBSET (1..N))
    <2>1. IsFiniteSet(1..N)
      BY FS_Interval
    <2> QED BY <2>1, FS_FiniteSubsetsOfFinite, FS_StrictSubsetOrderingWellFounded
  <1>3. T \subseteq SUBSET (1..N) /\ T # {}
    <2> HIDE DEF Below
    <2> QED BY <1>1
  <1>4. PICK x \in T : \A y \in T : ~(<<y, x>> \in R)
    <2> HIDE DEF T, R
    <2> QED BY <1>2, <1>3, WFMin
  <1>5. PICK i \in S : x = Below(i)
    BY <1>4
  <1>6. \A j \in S : i <= j
    <2> SUFFICES ASSUME NEW j \in S, j < i PROVE FALSE
      BY <1>1, SMT
    <2>1. Below(j) \subseteq Below(i)
      BY <1>1, SMT
    <2>2. j \in Below(i) /\ j \notin Below(j)
      BY <1>1, SMT
    <2>3. <<Below(j), Below(i)>> \in R
      <3> HIDE DEF Below
      <3> QED BY <1>1, <2>1, <2>2 DEF StrictSubsetOrdering
    <2>4. Below(j) \in T
      OBVIOUS
    <2> QED BY <2>3, <2>4, <1>4, <1>5, Zenon
  <1> QED BY <1>6, Zenon DEF Least

LEMMA FreshIsFree == Free # {} => Fresh \in Free
  <1>1. Free \subseteq Ids
    BY DEF Free
  <1> QED BY <1>1, LeastExists, RoutingAssumption DEF Fresh, Ids

LEMMA CandidateTypes == GraphTypes => Candidates \subseteq Devices \cup {Parking}
  <1> SUFFICES ASSUME GraphTypes PROVE Candidates \subseteq Devices \cup {Parking}
    OBVIOUS
  <1>1. /\ present # {} => Least(present) \in present
        /\ busy # {} => Least(busy) \in busy
    BY LeastExists, RoutingAssumption DEF GraphTypes, Devices
  <1> QED BY <1>1 DEF Candidates, GraphTypes

-----------------------------------------------------------------------------
(* The state file. *)

\* A published file says nothing wrong, and what it should name and does not is
\* noted.
LEMMA Published ==
  ASSUME NEW file, Publish(file)
  PROVE  /\ record'.physical \in {file.physical, Absent}
         /\ record'.target \in {file.target, Absent}
         /\ record'.fixed \subseteq file.fixed
         /\ file.fixed \subseteq record'.fixed \cup unnamed'
         /\ record'.loop = file.loop \/ (record'.loop = 0 /\ file.loop \in unnamed')
         /\ unnamed \subseteq unnamed'
  <1>1. CASE record' = file /\ UNCHANGED unnamed
    BY <1>1
  <1>2. CASE /\ record' \in Shortened(file)
             /\ unnamed' = unnamed \cup (file.fixed \ record'.fixed)
                                  \cup ({file.loop} \ {record'.loop})
    <2>1. PICK f \in {file.physical, Absent}, t \in {file.target, Absent},
               l \in {file.loop, 0}, S \in SUBSET file.fixed :
            record' = [physical |-> f, target |-> t, loop |-> l, fixed |-> S]
      BY <1>2 DEF Shortened
    <2>2. /\ record'.physical = f /\ record'.target = t /\ record'.fixed = S
          /\ record'.loop = l
      BY <2>1
    <2> QED BY <1>2, <2>2
  <1> QED BY <1>1, <1>2 DEF Publish

LEMMA PublishedTypes ==
  ASSUME NEW file \in Records, unnamed \in SUBSET Ids, Publish(file)
  PROVE  record' \in Records /\ unnamed' \in SUBSET Ids
  <1>1. CASE record' = file /\ UNCHANGED unnamed
    BY <1>1
  <1>2. CASE /\ record' \in Shortened(file)
             /\ unnamed' = unnamed \cup (file.fixed \ record'.fixed)
                                  \cup ({file.loop} \ {record'.loop})
    BY <1>2 DEF Shortened, Records
  <1> QED BY <1>1, <1>2 DEF Publish

LEMMA RouteTypes ==
  ASSUME record \in Records
  PROVE  /\ Route \in Records /\ Route.fixed = record.fixed /\ Route.loop = record.loop
         /\ Route.physical = record.physical /\ record.target \in {Route.target, Absent}
  BY DEF Route, Current, Records

-----------------------------------------------------------------------------
(* Types. *)

\* A script goes on, forgetting nothing ...
LEMMA MovesOn ==
  ASSUME ScriptTypes, NEW p \in Scripts, NEW place \in Places, Go(p, place), UNCHANGED locals
  PROVE  ScriptTypes'
  BY DEF ScriptTypes, Go, locals

\* ... or ends, and forgets everything.
LEMMA Ends ==
  ASSUME ScriptTypes, NEW p \in Scripts, Go(p, "idle"), Forget(p)
  PROVE  ScriptTypes'
  <1>1. NoRecord \in Records
    BY DEF NoRecord, Records
  <1>2. pc' \in [Scripts -> Places]
    BY DEF ScriptTypes, Go, Places
  <1>3. cmd' \in [Scripts -> {"start", "stop", "restart", "switch"}]
    BY DEF ScriptTypes, Forget
  <1>4. want' \in [Scripts -> Devices \cup {Automatic}]
    BY DEF ScriptTypes, Forget, Automatic
  <1>9. target' \in [Scripts -> Devices \cup {Parking}]
    BY DEF ScriptTypes, Forget, Parking
  <1>5. built' \in [Scripts -> SUBSET Ids]
    BY DEF ScriptTypes, Forget
  <1>8. new' \in [Scripts -> Ids \cup {0}]
    BY DEF ScriptTypes, Forget
  <1>6. old' \in [Scripts -> Records]
    BY <1>1 DEF ScriptTypes, Forget
  <1>7. wasMuted' \in [Scripts -> BOOLEAN]
    BY DEF ScriptTypes, Forget
  <1> QED BY <1>2, <1>3, <1>4, <1>5, <1>6, <1>7, <1>8, <1>9 DEF ScriptTypes

LEMMA ScriptsStay ==
  ASSUME ScriptTypes, UNCHANGED <<pc, locals>>
  PROVE  ScriptTypes'
  BY DEF ScriptTypes, locals

LEMMA EventsCounted ==
  ASSUME events \in 0..MaxEvents, Event \/ UNCHANGED events
  PROVE  events' \in 0..MaxEvents
  BY RoutingAssumption DEF Event

LEMMA StepsCount == [Next]_vars => Event \/ UNCHANGED events
  <1> SUFFICES ASSUME [Next]_vars PROVE Event \/ UNCHANGED events
    OBVIOUS
  <1> USE DEF Failing, Leaving, Publish, history
  <1>1. ASSUME NEW p \in Scripts, LockStep(p) PROVE Event \/ UNCHANGED events
    BY <1>1 DEF LockStep, Take, MarkFails, GiveUp, SeeDead, RemoveStale
  <1>2. ASSUME NEW p \in Scripts, StartStep(p) PROVE Event \/ UNCHANGED events
    BY <1>2, Zenon
    DEF StartStep, Stop, Unload, UnloadSaved, Choose, LoadFixed, LoadLoop, LoadFails, Gain,
        GainFails, Initialise, InitialiseFails, Write, WriteFails, Cleanup, NoServer
  <1>3. ASSUME NEW p \in Scripts, SwitchStep(p) PROVE Event \/ UNCHANGED events
    BY <1>3, Zenon
    DEF SwitchStep, Prepare, PrepareIgnored, PrepareFails, Read, Regain, Gains, Query, Mute,
        SwitchFails, Drop, DropFails, PutBack, Unmute, UnmuteFails
  <1>4. CASE Reconcile \/ Confirmed \/ RollBack \/ Restore \/ Environment
    BY <1>4, Zenon
    DEF Reconcile, Confirmed, RollBack, Restore, Environment, Command, Select, RollBackFails,
        UserMutes, Plug, Unplug, Meddle, ClientPlays, ServerRestart, Kill, Terminate
  <1> QED BY <1>1, <1>2, <1>3, <1>4 DEF Next, Run, vars

LEMMA GraphFrame ==
  ASSUME NEW p \in Scripts,
         \/ LockStep(p) \/ Choose(p) \/ LoadFails(p) \/ Gain(p) \/ GainFails(p) \/ Initialise(p)
         \/ InitialiseFails(p) \/ Write(p) \/ WriteFails(p) \/ NoServer(p) \/ Read(p)
         \/ Regain(p) \/ Gains(p) \/ Query(p) \/ Mute(p) \/ SwitchFails(p) \/ DropFails(p)
         \/ PutBack(p) \/ Unmute(p) \/ UnmuteFails(p) \/ Kill(p) \/ Terminate(p)
  PROVE  UNCHANGED <<present, busy, unity, live, loops>>
  BY Zenon
  DEF LockStep, Take, MarkFails, GiveUp, SeeDead, RemoveStale, Choose, LoadFails, Gain, GainFails,
      Initialise, InitialiseFails, Write, WriteFails, NoServer, Read, Regain, Gains, Query,
      Mute, SwitchFails, DropFails, PutBack, Unmute, UnmuteFails, Kill, Terminate, server

LEMMA GraphTyped ==
  ASSUME TypeOK, [Next]_vars
  PROVE  GraphTypes'
  <1> USE RoutingAssumption DEF TypeOK, GraphTypes, ScriptTypes
  <1>a. ASSUME UNCHANGED <<present, busy, unity, live, loops>> PROVE GraphTypes'
    BY <1>a DEF LoopIds
  <1>b. ASSUME NEW p \in Scripts, StartStep(p) \/ SwitchStep(p) PROVE GraphTypes'
    <2>0. Free # {} => Fresh \in Ids /\ Fresh \notin Loaded
      BY FreshIsFree DEF Free
    <2>1. CASE Stop(p) \/ Unload(p)
      BY <2>1 DEF Stop, Unload, UnloadSaved, LoopIds
    <2>2. CASE LoadFixed(p)
      BY <2>0, <2>2 DEF LoadFixed, Loads, Loaded, LoopIds
    <2>3. CASE LoadLoop(p)
      <3>1. loops' = loops \cup {[id |-> Fresh, to |-> target[p]]} /\ target[p] \in 0..Nowhere
        BY <2>3 DEF LoadLoop, Devices, Nowhere, Parking
      <3>2. Fresh \in Ids /\ Fresh \notin live /\ \A l \in loops : l.id # Fresh
        BY <2>0, <2>3 DEF LoadLoop, Loaded, LoopIds
      <3>3. UNCHANGED <<present, busy, unity, live>>
        BY <2>3 DEF LoadLoop
      <3> HIDE DEF ScriptTypes
      <3> QED BY <3>1, <3>2, <3>3 DEF LoopIds
    <2>4. CASE Cleanup(p)
      BY <2>4 DEF Cleanup, LoopIds
    <2>5. CASE Prepare(p) \/ PrepareIgnored(p) \/ PrepareFails(p)
      BY <2>5 DEF Prepare, PrepareIgnored, PrepareFails, LoopIds
    <2>6. CASE Drop(p)
      BY <2>6 DEF Drop, LoopIds
    <2> QED BY <1>a, <1>b, <2>1, <2>2, <2>3, <2>4, <2>5, <2>6, GraphFrame DEF StartStep, SwitchStep
  <1>c. CASE Plug
    BY <1>c DEF Plug, LoopIds
  <1>d. CASE Unplug
    BY <1>d DEF Unplug, LoopIds, Nowhere, Devices
  <1>e. CASE Meddle \/ ClientPlays
    BY <1>e DEF Meddle, ClientPlays, LoopIds
  <1>f. CASE ServerRestart
    BY <1>f DEF ServerRestart, LoopIds
  <1>g. CASE Reconcile \/ Confirmed \/ RollBack \/ Restore \/ Command \/ Select \/ RollBackFails
             \/ UserMutes \/ UNCHANGED vars
    <2>1. UNCHANGED <<present, busy, unity, live, loops>>
      BY <1>g, Zenon
      DEF Reconcile, Confirmed, RollBack, Restore, Command, Select, RollBackFails, UserMutes,
          vars, server
    <2> QED BY <1>a, <2>1
  <1> QED
    BY <1>a, <1>b, <1>c, <1>d, <1>e, <1>f, <1>g, GraphFrame DEF Next, Run, Environment

LEMMA FlagsTyped ==
  ASSUME FlagTypes, ScriptTypes, [Next]_vars
  PROVE  FlagTypes'
  <1> USE DEF FlagTypes, server, locals, daemon, signals, history, Event, Failing, Leaving,
              Publish
  <1>1. ASSUME NEW p \in Scripts, LockStep(p) \/ Kill(p) \/ Terminate(p) PROVE FlagTypes'
    <2>1. CASE Take(p)
      BY <2>1 DEF Take, Working
    <2>2. CASE MarkFails(p) \/ GiveUp(p) \/ SeeDead(p) \/ RemoveStale(p)
      BY <2>2 DEF MarkFails, GiveUp, SeeDead, RemoveStale
    <2>3. CASE Kill(p) \/ Terminate(p)
      BY <2>3 DEF Kill, Terminate
    <2> QED BY <1>1, <2>1, <2>2, <2>3 DEF LockStep
  <1>2. ASSUME NEW p \in Scripts, StartStep(p) PROVE FlagTypes'
    <2>1. CASE Stop(p) \/ Unload(p)
      BY <2>1 DEF Stop, Unload, UnloadSaved
    <2>2. CASE Choose(p) \/ LoadFixed(p) \/ LoadLoop(p) \/ LoadFails(p)
      BY <2>2 DEF Choose, LoadFixed, LoadLoop, LoadFails
    <2>3. CASE Gain(p) \/ GainFails(p) \/ Initialise(p) \/ InitialiseFails(p)
      BY <2>3 DEF Gain, GainFails, Initialise, InitialiseFails
    <2>4. CASE Write(p) \/ WriteFails(p) \/ NoServer(p)
      BY <2>4 DEF Write, WriteFails, NoServer
    <2>5. CASE Cleanup(p)
      BY <2>5 DEF Cleanup
    <2> QED BY <1>2, <2>1, <2>2, <2>3, <2>4, <2>5 DEF StartStep
  <1>3. ASSUME NEW p \in Scripts, SwitchStep(p) PROVE FlagTypes'
    <2>1. CASE Prepare(p) \/ PrepareIgnored(p) \/ PrepareFails(p)
      BY <2>1 DEF Prepare, PrepareIgnored, PrepareFails
    <2>2. CASE Read(p)
      BY <2>2 DEF Read
    <2>6. CASE Regain(p) \/ Gains(p) \/ Query(p)
      BY <2>6 DEF Regain, Gains, Query
    <2>3. CASE Mute(p) \/ SwitchFails(p) \/ Drop(p) \/ DropFails(p)
      BY <2>3 DEF Mute, SwitchFails, Drop, DropFails
    <2>4. CASE PutBack(p)
      BY <2>4 DEF PutBack
    <2>5. CASE Unmute(p) \/ UnmuteFails(p)
      BY <2>5 DEF Unmute, UnmuteFails, ScriptTypes
    <2> QED BY <1>3, <2>1, <2>2, <2>3, <2>4, <2>5, <2>6 DEF SwitchStep
  <1>4. CASE Restore \/ UserMutes
    <2>1. Switching \in BOOLEAN
      BY DEF Switching
    <2> QED BY <1>4, <2>1 DEF Restore, UserMutes
  <1>5. CASE Reconcile \/ Command
    BY <1>5 DEF Reconcile, Command
  <1>7. CASE Confirmed \/ RollBack \/ Select \/ RollBackFails
    BY <1>7 DEF Confirmed, RollBack, Select, RollBackFails
  <1>6. CASE Plug \/ Unplug \/ Meddle \/ ClientPlays \/ ServerRestart \/ UNCHANGED vars
    BY <1>6 DEF Plug, Unplug, Meddle, ClientPlays, ServerRestart, vars
  <1> QED BY <1>1, <1>2, <1>3, <1>4, <1>5, <1>6, <1>7 DEF Next, Run, Environment

LEMMA NotesTyped ==
  ASSUME TypeOK, [Next]_vars
  PROVE  NoteTypes'
  <1> USE DEF NoteTypes, files, router, daemon, signals, history, Records, NoRecord, Parking,
              Automatic
  <1>1. ASSUME NEW p \in Scripts, LockStep(p) \/ Kill(p) \/ Terminate(p) PROVE NoteTypes'
    BY <1>1 DEF TypeOK, LockStep, Take, MarkFails, GiveUp, SeeDead, RemoveStale, Kill, Terminate
  <1>2. ASSUME NEW p \in Scripts, StartStep(p) PROVE NoteTypes'
    <2>1. CASE Stop(p) \/ Unload(p)
      <3>1. /\ record' = NoRecord /\ lock' \in {lock, "free"}
            /\ UNCHANGED <<unnamed, configured, router, restored>>
        BY <2>1 DEF Stop, Unload, UnloadSaved, Exit
      <3> QED BY <3>1 DEF TypeOK
    <2>2. CASE Write(p)
      <3>1. /\ target[p] \in Devices \cup {Parking} /\ new[p] \in Ids \cup {0}
            /\ old[p].fixed \in SUBSET Ids /\ built[p] \in SUBSET Ids
        BY DEF TypeOK, ScriptTypes
      <3>2. PICK file \in Records : Publish(file)
        BY <2>2, <3>1 DEF Write
      <3>3. record' \in Records /\ unnamed' \in SUBSET Ids
        BY <3>2, PublishedTypes DEF TypeOK
      <3>4. lock' \in {lock, "free"} /\ UNCHANGED <<configured, router, restored>>
        BY <2>2 DEF Write, Exit
      <3> QED BY <3>3, <3>4 DEF TypeOK
    <2>3. CASE \/ Choose(p) \/ LoadFixed(p) \/ LoadLoop(p) \/ LoadFails(p) \/ Gain(p)
               \/ GainFails(p) \/ Initialise(p) \/ InitialiseFails(p) \/ WriteFails(p)
               \/ Cleanup(p) \/ NoServer(p)
      <3>1. /\ lock' \in {lock, "free"} /\ unnamed' \subseteq unnamed
            /\ UNCHANGED <<record, configured, router, restored>>
        BY <2>3
        DEF Choose, LoadFixed, LoadLoop, Loads, LoadFails, Gain, GainFails, Initialise,
            InitialiseFails, WriteFails, Cleanup, NoServer, Exit
      <3> QED BY <3>1 DEF TypeOK
    <2> QED BY <1>2, <2>1, <2>2, <2>3 DEF StartStep
  <1>3. ASSUME NEW p \in Scripts, SwitchStep(p) PROVE NoteTypes'
    <2>1. /\ lock' \in {lock, "free"}
          /\ Publish(old[p]) \/ UNCHANGED <<record, unnamed>>
          /\ UNCHANGED <<configured, router, restored>>
      BY <1>3
      DEF SwitchStep, Prepare, PrepareIgnored, PrepareFails, Read, Regain, Gains, Query, Mute,
          SwitchFails, Drop, DropFails, PutBack, Unmute, UnmuteFails, Exit
    <2>2. old[p] \in Records
      BY DEF TypeOK, ScriptTypes
    <2>3. record' \in Records /\ unnamed' \in SUBSET Ids
      BY <2>1, <2>2, PublishedTypes DEF TypeOK
    <2> QED BY <2>1, <2>3 DEF TypeOK
  <1>4. CASE \/ Reconcile \/ Confirmed \/ RollBack \/ Restore \/ Command \/ Select
             \/ RollBackFails \/ UserMutes \/ Plug \/ Unplug \/ Meddle \/ ClientPlays \/ ServerRestart
             \/ UNCHANGED vars
    BY <1>4
    DEF TypeOK, GraphTypes, Reconcile, Confirmed, RollBack, Restore, Command, Select,
        RollBackFails, UserMutes, Plug, Unplug, Meddle, ClientPlays, ServerRestart, vars
  <1> QED BY <1>1, <1>2, <1>3, <1>4 DEF Next, Run, Environment

LEMMA ScriptsTyped ==
  ASSUME TypeOK, [Next]_vars
  PROVE  ScriptTypes'
  <1> USE DEF TypeOK
  <1>1. ASSUME NEW p \in Scripts, NEW place \in Places, Go(p, place), UNCHANGED locals
        PROVE  ScriptTypes'
    BY <1>1, MovesOn
  <1>2. ASSUME NEW p \in Scripts, Exit(p) \/ (Go(p, "idle") /\ Forget(p)) PROVE ScriptTypes'
    BY <1>2, Ends DEF Exit
  <1>3. CASE UNCHANGED <<pc, locals>>
    BY <1>3, ScriptsStay
  <1>4. ASSUME NEW p \in Scripts, LockStep(p) \/ Kill(p) \/ Terminate(p) PROVE ScriptTypes'
    <2>1. CASE Take(p) \/ SeeDead(p) \/ RemoveStale(p)
      BY <1>1, <2>1 DEF Take, SeeDead, RemoveStale, Places
    <2>2. CASE MarkFails(p) \/ GiveUp(p) \/ Kill(p)
      BY <1>2, <2>2 DEF MarkFails, GiveUp, Kill
    <2>3. CASE Terminate(p)
      BY <1>3, <2>3 DEF Terminate
    <2> QED BY <1>4, <2>1, <2>2, <2>3 DEF LockStep
  <1>5. ASSUME NEW p \in Scripts, StartStep(p) PROVE ScriptTypes'
    <2>1. CASE Stop(p) \/ Write(p) \/ Cleanup(p) \/ NoServer(p)
      <3>1. Exit(p) \/ \E place \in Places : Go(p, place) /\ UNCHANGED locals
        BY <2>1 DEF Stop, Write, Cleanup, NoServer, Places
      <3> QED BY <1>1, <1>2, <3>1
    <2>2. CASE \/ Unload(p) \/ LoadFails(p) \/ Gain(p) \/ GainFails(p) \/ Initialise(p)
               \/ InitialiseFails(p) \/ WriteFails(p)
      <3>1. \E place \in Places : Go(p, place) /\ UNCHANGED locals
        BY <2>2
        DEF Unload, LoadFails, Gain, GainFails, Initialise, InitialiseFails, WriteFails, Places
      <3> QED BY <1>1, <3>1
    <2>3. CASE Choose(p)
      BY <2>3, CandidateTypes DEF Choose, Found, ScriptTypes, Go, Places
    <2>4. CASE LoadFixed(p) \/ LoadLoop(p)
      <3>1. Fresh \in Ids
        BY <2>4, FreshIsFree DEF LoadFixed, LoadLoop, Free
      <3> QED BY <2>4, <3>1 DEF LoadFixed, LoadLoop, Loads, ScriptTypes, Go, Places
    <2> QED BY <1>5, <2>1, <2>2, <2>3, <2>4 DEF StartStep
  <1>6. ASSUME NEW p \in Scripts, SwitchStep(p) PROVE ScriptTypes'
    <2>1. CASE \/ Prepare(p) \/ PrepareIgnored(p) \/ Gains(p) \/ Mute(p) \/ Drop(p)
               \/ DropFails(p) \/ PutBack(p)
      <3>1. \E place \in Places : Go(p, place) /\ UNCHANGED locals
        BY <2>1
        DEF Prepare, AfterPrepare, PrepareIgnored, Gains, Mute, Drop, DropFails, PutBack, Places
      <3> QED BY <1>1, <3>1
    <2>2. CASE PrepareFails(p) \/ Regain(p) \/ SwitchFails(p) \/ Unmute(p) \/ UnmuteFails(p)
      BY <1>2, <2>2 DEF PrepareFails, Regain, SwitchFails, Unmute, UnmuteFails
    <2>3. CASE Read(p)
      <3>1. Route \in Records
        BY RouteTypes DEF NoteTypes
      <3> QED BY <2>3, <3>1, CandidateTypes DEF Read, Found, ScriptTypes, Go, Places
    <2>4. CASE Query(p)
      BY <2>4 DEF Query, ScriptTypes, FlagTypes, Go, Places
    <2> QED BY <1>6, <2>1, <2>2, <2>3, <2>4 DEF SwitchStep
  <1>7. CASE Reconcile
    <2>1. \A t \in Desired : t \in Devices \cup {Parking}
      BY CandidateTypes DEF Desired, GraphTypes
    <2> QED
      BY <1>7, <2>1 DEF Reconcile, ScriptTypes, Go, Places, locals, Scripts, Parking, Automatic
  <1>8. CASE Command
    BY <1>8 DEF Command, ScriptTypes, NoteTypes, Go, Places, locals, Scripts
  <1>9. CASE \/ Confirmed \/ RollBack \/ Restore \/ Select \/ RollBackFails \/ UserMutes \/ Plug
             \/ Unplug \/ Meddle \/ ClientPlays \/ ServerRestart \/ UNCHANGED vars
    BY <1>3, <1>9
    DEF Confirmed, RollBack, Restore, Select, RollBackFails, UserMutes, Plug, Unplug, Meddle,
        ClientPlays, ServerRestart, vars
  <1> QED BY <1>4, <1>5, <1>6, <1>7, <1>8, <1>9 DEF Next, Run, Environment

LEMMA Typed == TypeOK /\ [Next]_vars => TypeOK'
  <1> SUFFICES ASSUME TypeOK, [Next]_vars PROVE TypeOK'
    OBVIOUS
  <1>1. events' \in 0..MaxEvents
    BY EventsCounted, StepsCount DEF TypeOK
  <1> QED BY <1>1, GraphTyped, FlagsTyped, NotesTyped, ScriptsTyped DEF TypeOK

LEMMA InitiallyTyped == Init => TypeOK
  <1> SUFFICES ASSUME Init PROVE TypeOK
    OBVIOUS
  <1> USE RoutingAssumption DEF Init, Records, NoRecord, Parking, Automatic, Absent
  <1>1. GraphTypes
    BY DEF GraphTypes, LoopIds
  <1>2. FlagTypes
    BY DEF FlagTypes
  <1>3. NoteTypes
    BY DEF NoteTypes
  <1>4. ScriptTypes
    BY DEF ScriptTypes, Places
  <1> QED BY <1>1, <1>2, <1>3, <1>4 DEF TypeOK

-----------------------------------------------------------------------------
(* The lock. *)

\* Unless a signal took it away, the lock is its owner's, and the owner is the
\* only script at work.
LockInv ==
  ~signalled =>
    /\ lock \in Scripts \cup {"free", "unmarked"}
    /\ \A p \in Scripts : pc[p] # "stale" /\ (Working(p) <=> lock = p)
    /\ ~raced

\* A step of one script leaves the other where it is.
Elsewhere(p) ==
  \A q \in Scripts \ {p} :
    /\ pc'[q] = pc[q] /\ cmd'[q] = cmd[q] /\ built'[q] = built[q] /\ new'[q] = new[q]
    /\ old'[q] = old[q] /\ wasMuted'[q] = wasMuted[q]

LEMMA OthersStay ==
  ASSUME TypeOK, NEW p \in Scripts, Run(p) \/ Kill(p) \/ Terminate(p)
  PROVE  Elsewhere(p)
  <1> USE DEF TypeOK, ScriptTypes, Elsewhere, Go, Exit, Forget, locals
  <1>1. CASE LockStep(p) \/ Kill(p) \/ Terminate(p)
    BY <1>1 DEF LockStep, Take, MarkFails, GiveUp, SeeDead, RemoveStale, Kill, Terminate
  <1>2. CASE StartStep(p)
    <2>1. CASE Stop(p) \/ Unload(p) \/ Cleanup(p) \/ Write(p)
      BY <2>1 DEF Stop, Unload, Cleanup, Write
    <2>2. CASE Choose(p) \/ LoadFixed(p) \/ LoadLoop(p) \/ LoadFails(p)
      BY <2>2 DEF Choose, LoadFixed, LoadLoop, Loads, LoadFails
    <2>3. CASE \/ Gain(p) \/ GainFails(p) \/ Initialise(p) \/ InitialiseFails(p)
               \/ WriteFails(p) \/ NoServer(p)
      BY <2>3 DEF Gain, GainFails, Initialise, InitialiseFails, WriteFails, NoServer
    <2> QED BY <1>2, <2>1, <2>2, <2>3 DEF StartStep
  <1>3. CASE SwitchStep(p)
    <2>1. CASE Prepare(p) \/ PrepareIgnored(p) \/ PrepareFails(p) \/ Read(p) \/ Query(p)
      BY <2>1 DEF Prepare, PrepareIgnored, PrepareFails, Read, Query
    <2>2. CASE Regain(p) \/ Gains(p) \/ Mute(p) \/ SwitchFails(p) \/ Drop(p)
      BY <2>2 DEF Regain, Gains, Mute, SwitchFails, Drop
    <2>3. CASE DropFails(p) \/ PutBack(p) \/ Unmute(p) \/ UnmuteFails(p)
      BY <2>3 DEF DropFails, PutBack, Unmute, UnmuteFails
    <2> QED BY <1>3, <2>1, <2>2, <2>3 DEF SwitchStep
  <1> QED BY <1>1, <1>2, <1>3 DEF Run

\* A script at work goes on or ends, and keeps the lock until it ends.
LEMMA Works ==
  ASSUME TypeOK, NEW p \in Scripts, StartStep(p) \/ SwitchStep(p)
  PROVE  /\ Working(p) /\ UNCHANGED signals
         /\ \/ Exit(p) /\ pc'[p] = "idle"
            \/ UNCHANGED lock /\ pc'[p] \notin {"idle", "want", "stale"}
  <1> USE DEF TypeOK, ScriptTypes, Working, Go, Exit
  <1>1. CASE StartStep(p)
    <2>1. CASE Stop(p) \/ Unload(p) \/ Cleanup(p) \/ Write(p)
      BY <2>1 DEF Stop, Unload, Cleanup, Write
    <2>2. CASE Choose(p) \/ LoadFixed(p) \/ LoadLoop(p) \/ LoadFails(p)
      BY <2>2 DEF Choose, LoadFixed, LoadLoop, LoadFails, history
    <2>3. CASE \/ Gain(p) \/ GainFails(p) \/ Initialise(p) \/ InitialiseFails(p)
               \/ WriteFails(p) \/ NoServer(p)
      BY <2>3 DEF Gain, GainFails, Initialise, InitialiseFails, WriteFails, NoServer, history
    <2> QED BY <1>1, <2>1, <2>2, <2>3 DEF StartStep
  <1>2. CASE SwitchStep(p)
    <2>1. CASE Prepare(p) \/ PrepareIgnored(p) \/ PrepareFails(p)
      BY <2>1 DEF Prepare, AfterPrepare, PrepareIgnored, PrepareFails, history
    <2>2. CASE Read(p) \/ Query(p)
      BY <2>2 DEF Read, Query, history
    <2>3. CASE Regain(p) \/ Gains(p) \/ Mute(p) \/ SwitchFails(p) \/ Drop(p)
      BY <2>3 DEF Regain, Gains, Mute, SwitchFails, Drop, history
    <2>4. CASE DropFails(p) \/ PutBack(p) \/ Unmute(p) \/ UnmuteFails(p)
      BY <2>4 DEF DropFails, PutBack, Unmute, UnmuteFails, history
    <2> QED BY <1>2, <2>1, <2>2, <2>3, <2>4 DEF SwitchStep
  <1> QED BY <1>1, <1>2

\* What is no step of a script: a script may begin to wait.
World ==
  \/ Reconcile \/ Confirmed \/ RollBack \/ Restore \/ Command \/ Select \/ RollBackFails
  \/ UserMutes \/ Plug \/ Unplug \/ Meddle \/ ClientPlays \/ ServerRestart \/ UNCHANGED vars

LEMMA WorldWaits ==
  ASSUME TypeOK, World
  PROVE  /\ UNCHANGED <<lock, record, unnamed, built, new, old, wasMuted, signals, ignored>>
         /\ \A p \in Scripts : \/ pc'[p] = pc[p] /\ cmd'[p] = cmd[p]
                               \/ pc[p] = "idle" /\ pc'[p] = "want"
  <1> USE DEF TypeOK, ScriptTypes, locals, files, history
  <1>1. CASE Reconcile \/ Command
    BY <1>1 DEF Reconcile, Command, Go, Scripts
  <1>2. CASE Confirmed \/ RollBack \/ Restore \/ Select \/ RollBackFails \/ UserMutes
    BY <1>2 DEF Confirmed, RollBack, Restore, Select, RollBackFails, UserMutes
  <1>3. CASE Plug \/ Unplug \/ Meddle \/ ClientPlays \/ ServerRestart \/ UNCHANGED vars
    BY <1>3 DEF Plug, Unplug, Meddle, ClientPlays, ServerRestart, vars
  <1> QED BY <1>1, <1>2, <1>3 DEF World

LEMMA Kinds ==
  ASSUME [Next]_vars
  PROVE  \/ \E p \in Scripts : \/ LockStep(p) \/ StartStep(p) \/ SwitchStep(p)
                               \/ Kill(p) \/ Terminate(p)
         \/ World
  BY DEF Next, Run, Environment, World

LEMMA LockStays == TypeOK /\ LockInv /\ [Next]_vars => LockInv'
  <1> SUFFICES ASSUME TypeOK, LockInv, [Next]_vars PROVE LockInv'
    OBVIOUS
  <1>1. ASSUME NEW p \in Scripts, StartStep(p) \/ SwitchStep(p) PROVE LockInv'
    <2>1. /\ Working(p) /\ UNCHANGED signals
          /\ \/ lock' = "free" /\ pc'[p] = "idle"
             \/ UNCHANGED lock /\ pc'[p] \notin {"idle", "want", "stale"}
      BY <1>1, Works DEF Exit
    <2>2. Elsewhere(p)
      BY <1>1, OthersStay DEF Run
    <2> QED BY <2>1, <2>2 DEF LockInv, Elsewhere, Working, signals, Scripts
  <1>2. ASSUME NEW p \in Scripts, LockStep(p) PROVE LockInv'
    <2> USE DEF TypeOK, ScriptTypes, Working, Go
    <2>1. CASE Take(p)
      <3>1. lock = "free" /\ lock' = p /\ pc'[p] \notin {"idle", "want", "stale"} /\ pc[p] = "want"
        BY <2>1 DEF Take
      <3>2. ~signalled => ~raced'
        <4>1. Other(p) \in Scripts
          BY DEF Other, Scripts
        <4> QED BY <2>1, <3>1, <4>1 DEF Take, LockInv, Scripts
      <3>3. UNCHANGED signalled
        BY <2>1 DEF Take
      <3> QED BY <1>2, <3>1, <3>2, <3>3, OthersStay DEF LockInv, Elsewhere, Run, Scripts
    <2>2. CASE MarkFails(p) \/ GiveUp(p)
      <3>1. /\ lock' = lock \/ (lock = "free" /\ lock' = "unmarked")
            /\ UNCHANGED signals /\ pc[p] = "want" /\ pc'[p] = "idle"
        BY <2>2 DEF MarkFails, GiveUp
      <3> QED BY <1>2, <3>1, OthersStay DEF LockInv, Elsewhere, Run, signals, Scripts
    <2>3. CASE SeeDead(p) \/ RemoveStale(p)
      <3>1. UNCHANGED signalled /\ signalled
        BY <2>3 DEF SeeDead, RemoveStale, LockInv, Scripts, history, signals
      <3> QED BY <3>1 DEF LockInv
    <2> QED BY <1>2, <2>1, <2>2, <2>3 DEF LockStep
  <1>3. ASSUME NEW p \in Scripts, Kill(p) \/ Terminate(p) PROVE LockInv'
    BY <1>3 DEF Kill, Terminate, LockInv
  <1>4. CASE World
    BY <1>4, WorldWaits DEF LockInv, Working, signals
  <1> QED BY <1>1, <1>2, <1>3, <1>4, Kinds


-----------------------------------------------------------------------------
(* What a script knows at its places. *)

\* Nothing is loaded yet.
Bare(p) == built[p] = {} /\ new[p] = 0

BeforeLoad == {"idle", "want", "stale", "stop", "unload", "choose", "prepare", "read", "regain",
               "gains", "query", "mute"}

\* A switch loads one module, the loop, on buses it has read of.
Knows(p) ==
  /\ pc[p] \in BeforeLoad => Bare(p)
  /\ pc[p] = "load" => new[p] = 0 /\ (cmd[p] = "switch" => built[p] = {})
  /\ pc[p] \in {"gain", "initialise", "write", "drop", "putback"} =>
       /\ new[p] \in built[p]
       /\ cmd[p] = "switch" => built[p] = {new[p]}
       /\ cmd[p] # "switch" => built[p] # {new[p]}
  /\ pc[p] \in {"cleanup", "unmute"} =>
       /\ cmd[p] = "switch" => Bare(p) \/ built[p] = {new[p]}
       /\ cmd[p] # "switch" => new[p] \in built[p] \cup {0}
  /\ pc[p] \in {"read", "regain", "gains", "query", "mute", "drop", "putback", "unmute"} =>
       cmd[p] = "switch"
  /\ pc[p] \in {"stop", "unload", "choose", "initialise"} => cmd[p] # "switch"
  /\ cmd[p] = "switch" /\ Working(p) /\ pc[p] # "read" => old[p].fixed # {}

KnowsInv == \A p \in Scripts : Knows(p)

LEMMA LockKnows ==
  ASSUME TypeOK, NEW p \in Scripts, Knows(p), LockStep(p) \/ Kill(p) \/ Terminate(p)
  PROVE  Knows(p)'
  <1> USE DEF TypeOK, ScriptTypes, Knows, Bare, BeforeLoad, Working, Go, Forget, locals, files,
              NoRecord
  <1>1. CASE Take(p)
    BY <1>1 DEF Take
  <1>2. CASE MarkFails(p) \/ GiveUp(p) \/ Kill(p)
    <2>1. pc'[p] = "idle" /\ Forget(p)
      BY <1>2 DEF MarkFails, GiveUp, Kill
    <2> QED BY <2>1
  <1>3. CASE SeeDead(p) \/ RemoveStale(p)
    BY <1>3 DEF SeeDead, RemoveStale
  <1>4. CASE Terminate(p)
    BY <1>4 DEF Terminate
  <1> QED BY <1>1, <1>2, <1>3, <1>4 DEF LockStep

LEMMA StartKnows ==
  ASSUME TypeOK, KnowsInv, NEW p \in Scripts, StartStep(p)
  PROVE  Knows(p)'
  <1>1. Knows(p)
    BY DEF KnowsInv
  <1> USE DEF TypeOK, ScriptTypes, Knows, Bare, BeforeLoad, Working, Go, Exit, Forget, locals,
              files, NoRecord
  <1>2. CASE Stop(p)
    BY <1>1, <1>2 DEF Stop, UnloadSaved
  <1>3. CASE Unload(p)
    BY <1>1, <1>3 DEF Unload, UnloadSaved
  <1>4. CASE Choose(p)
    BY <1>1, <1>4 DEF Choose
  <1>5. CASE LoadFixed(p)
    BY <1>1, <1>5 DEF LoadFixed, Loads, Building
  <1>6. CASE LoadLoop(p)
    <2>1. Fresh \in Ids /\ Fresh \notin built[p] /\ Fresh # 0
      BY <1>6, FreshIsFree DEF LoadLoop, Free, Ids
    <2>2. cmd[p] # "switch" => built[p] # {}
      <3>1. Cardinality({}) < NFixed
        BY FS_EmptySet, RoutingAssumption
      <3> QED BY <1>6, <3>1, Zenon DEF LoadLoop, Building
    <2>3. /\ pc[p] = "load" /\ pc'[p] = "gain" /\ cmd'[p] = cmd[p] /\ old'[p] = old[p]
          /\ new'[p] = Fresh /\ built'[p] = built[p] \cup {Fresh}
      BY <1>6 DEF LoadLoop, Loads
    <2> QED
      <3> HIDE DEF TypeOK, ScriptTypes
      <3> QED BY <1>1, <2>1, <2>2, <2>3
  <1>7. CASE LoadFails(p) \/ GainFails(p) \/ InitialiseFails(p) \/ WriteFails(p)
    BY <1>1, <1>7 DEF LoadFails, GainFails, InitialiseFails, WriteFails
  <1>8. CASE Gain(p) \/ Initialise(p)
    BY <1>1, <1>8 DEF Gain, Initialise
  <1>9. CASE Write(p)
    BY <1>1, <1>9 DEF Write
  <1>10. CASE Cleanup(p) \/ NoServer(p)
    BY <1>1, <1>10 DEF Cleanup, NoServer
  <1> QED BY <1>2, <1>3, <1>4, <1>5, <1>6, <1>7, <1>8, <1>9, <1>10 DEF StartStep

LEMMA SwitchKnows ==
  ASSUME TypeOK, KnowsInv, NEW p \in Scripts, SwitchStep(p)
  PROVE  Knows(p)'
  <1>1. Knows(p)
    BY DEF KnowsInv
  <1> USE DEF TypeOK, ScriptTypes, Knows, Bare, BeforeLoad, Working, Go, Exit, Forget, locals,
              files, NoRecord
  <1>2. CASE Prepare(p) \/ PrepareIgnored(p) \/ PrepareFails(p)
    BY <1>1, <1>2 DEF Prepare, AfterPrepare, PrepareIgnored, PrepareFails
  <1>3. CASE Read(p)
    <2>1. Whole => Route.fixed # {}
      <3>1. Cardinality({}) < NFixed
        BY FS_EmptySet, RoutingAssumption
      <3>2. Route.fixed = record.fixed
        BY RouteTypes DEF NoteTypes
      <3>3. CASE record.fixed = {}
        BY <3>1, <3>3, RoutingAssumption, FS_EmptySet DEF Whole
      <3> QED BY <3>2, <3>3
    <2> QED BY <1>1, <1>3, <2>1 DEF Read
  <1>4. CASE Regain(p) \/ Gains(p) \/ Query(p)
    BY <1>1, <1>4 DEF Regain, Gains, Query
  <1>5. CASE Mute(p) \/ SwitchFails(p) \/ Drop(p) \/ DropFails(p)
    BY <1>1, <1>5 DEF Mute, SwitchFails, Drop, DropFails
  <1>6. CASE PutBack(p)
    BY <1>1, <1>6 DEF PutBack
  <1>7. CASE Unmute(p) \/ UnmuteFails(p)
    BY <1>1, <1>7 DEF Unmute, UnmuteFails
  <1> QED BY <1>2, <1>3, <1>4, <1>5, <1>6, <1>7 DEF SwitchStep

LEMMA KnowsStays == TypeOK /\ KnowsInv /\ [Next]_vars => KnowsInv'
  <1> SUFFICES ASSUME TypeOK, KnowsInv, [Next]_vars PROVE KnowsInv'
    OBVIOUS
  <1>1. ASSUME NEW p \in Scripts,
               LockStep(p) \/ StartStep(p) \/ SwitchStep(p) \/ Kill(p) \/ Terminate(p)
        PROVE  KnowsInv'
    <2>1. Knows(p)'
      BY <1>1, LockKnows, StartKnows, SwitchKnows DEF KnowsInv
    <2>2. \A q \in Scripts \ {p} : Knows(q)'
      BY <1>1, OthersStay DEF Run, Elsewhere, KnowsInv, Knows, Bare, Working
    <2> QED BY <2>1, <2>2 DEF KnowsInv
  <1>2. CASE World
    BY <1>2, WorldWaits DEF KnowsInv, Knows, Bare, BeforeLoad, Working
  <1> QED BY <1>1, <1>2, Kinds

-----------------------------------------------------------------------------
(* What there is of a route. *)

\* Modules whose lines were lost may be anywhere.
Has(fixed, links) ==
  /\ \A i \in live : i \in fixed \/ i \in unnamed
  /\ \A l \in loops : l.id \in links \/ l.id \in unnamed

Undone(p) == Says(old[p]) /\ new[p] \notin LoopIds

Done(p) == NamesLoop(new[p]) /\ old[p].loop \notin LoopIds

\* Between two scripts, and before one changes anything, the server has only
\* what the state file names.
Rested == Has(record.fixed, {record.loop})

Switched(p) ==
  /\ pc[p] = "read" => Rested
  /\ pc[p] \in {"prepare", "regain", "gains", "query", "mute", "load"} =>
       Says(old[p]) /\ Rested
  /\ pc[p] \in {"gain", "write", "cleanup"} =>
       Says(old[p]) /\ Has(record.fixed, {record.loop, new[p]})
  /\ pc[p] \in {"drop", "putback"} =>
       /\ record.fixed \subseteq old[p].fixed /\ NamesLoop(new[p])
       /\ Has(record.fixed, {old[p].loop, new[p]})
  /\ pc[p] = "unmute" => Rested /\ (Undone(p) \/ Done(p))

Started(p) ==
  /\ pc[p] \in {"stop", "unload"} => Rested
  /\ pc[p] \in {"choose", "prepare"} => record = NoRecord /\ Has({}, {})
  /\ pc[p] = "load" => record = NoRecord /\ Has(built[p], {})
  /\ pc[p] \in {"gain", "initialise", "write"} =>
       record = NoRecord /\ Has(built[p] \ {new[p]}, {new[p]})
  /\ pc[p] = "cleanup" => record = NoRecord /\ Has(built[p], {new[p]})

Placed(p) == IF cmd[p] = "switch" THEN Switched(p) ELSE Started(p)

GraphInv ==
  ~signalled /\ ~ignored =>
    /\ Resting => Rested
    /\ \A p \in Scripts : Working(p) => Placed(p)

LEMMA Unloaded ==
  ASSUME TypeOK, Rested, NEW p, UnloadSaved(p), UNCHANGED unnamed, ~ignored'
  PROVE  record' = NoRecord /\ Has({}, {})'
  <1>1. PICK F \in SUBSET (Recorded \cap Loaded) :
          /\ Leaving(Recorded \cap Loaded, F)
          /\ live' = live \ (Recorded \ F)
          /\ loops' = {l \in loops : l.id \notin Recorded \ F}
          /\ record' = NoRecord
    BY DEF UnloadSaved
  <1>2. F = {}
    BY <1>1 DEF Leaving
  <1>3. /\ live \subseteq Recorded \cup unnamed
        /\ \A l \in loops : l.id \in Recorded \cup unnamed
    BY DEF Rested, Has, Recorded, TypeOK, GraphTypes, NoteTypes, Records, Ids
  <1> QED BY <1>1, <1>2, <1>3 DEF Has

\* Publishing a file, the server's modules stay named or noted.
LEMMA StillNamed ==
  ASSUME NEW file, Publish(file), UNCHANGED <<live, loops>>,
         NEW links, Has(file.fixed, links)
  PROVE  Has(record.fixed, links)'
  <1>1. file.fixed \subseteq record'.fixed \cup unnamed' /\ unnamed \subseteq unnamed'
    BY Published
  <1> QED BY <1>1 DEF Has

LEMMA CleanedUp ==
  ASSUME NEW p, Cleanup(p), ~ignored'
  PROVE  live' = live \ built[p] /\ loops' = {l \in loops : l.id \notin built[p]}
  <1>1. PICK F \in SUBSET (built[p] \cap Loaded) :
          /\ Leaving(built[p] \cap Loaded, F)
          /\ live' = live \ (built[p] \ F)
          /\ loops' = {l \in loops : l.id \notin built[p] \ F}
    BY DEF Cleanup
  <1>2. F = {}
    BY <1>1 DEF Leaving
  <1> QED BY <1>1, <1>2

LEMMA IgnoredOnce ==
  ASSUME NEW p \in Scripts, ignored, StartStep(p) \/ SwitchStep(p)
  PROVE  ignored'
  <1> USE DEF history, Leaving
  <1>1. CASE StartStep(p)
    BY <1>1, Zenon
    DEF StartStep, Stop, Unload, UnloadSaved, Choose, LoadFixed, LoadLoop, LoadFails, Gain,
        GainFails, Initialise, InitialiseFails, Write, WriteFails, Cleanup, NoServer
  <1>2. CASE SwitchStep(p)
    BY <1>2, Zenon
    DEF SwitchStep, Prepare, PrepareIgnored, PrepareFails, Read, Regain, Gains, Query, Mute,
        SwitchFails, Drop, DropFails, PutBack, Unmute, UnmuteFails
  <1> QED BY <1>1, <1>2

LEMMA StartGraph ==
  ASSUME TypeOK, NEW p \in Scripts, Knows(p), Placed(p), StartStep(p), ~ignored'
  PROVE  (pc'[p] = "idle" => Rested') /\ (pc'[p] # "idle" => Placed(p)')
  <1> USE DEF ScriptTypes, Knows, Bare, BeforeLoad, Placed, Switched, Started, Undone, Done,
              Rested, Has, Says, NamesLoop, LoopIds, Go, Exit, Forget, server, files, locals,
              NoRecord
  <1>t. ScriptTypes
    BY DEF TypeOK
  <1>1. CASE Stop(p)
    <2>1. Rested /\ UnloadSaved(p) /\ pc[p] = "stop" /\ UNCHANGED unnamed
      BY <1>1 DEF Stop
    <2>2. record' = NoRecord /\ Has({}, {})'
      BY <2>1, Unloaded
    <2>3. pc'[p] = "idle" \/ (pc'[p] = "unload" /\ cmd'[p] = cmd[p])
      BY <1>1, <1>t DEF Stop
    <2> QED BY <2>1, <2>2, <2>3
  <1>2. CASE Unload(p)
    <2>1. Rested /\ UnloadSaved(p) /\ pc[p] = "unload" /\ UNCHANGED unnamed
      BY <1>2 DEF Unload
    <2>2. record' = NoRecord /\ Has({}, {})'
      BY <2>1, Unloaded
    <2>3. pc'[p] = "choose" /\ cmd'[p] = cmd[p] /\ cmd[p] # "switch"
      BY <1>2, <1>t DEF Unload
    <2> QED BY <2>2, <2>3
  <1>3. CASE Choose(p)
    BY <1>3, <1>t DEF Choose
  <1>4. CASE LoadFixed(p)
    <2>1. Fresh \notin Loaded
      BY <1>4, FreshIsFree DEF LoadFixed, Free
    <2> QED BY <1>4, <1>t, <2>1 DEF LoadFixed, Loads, Loaded, Building
  <1>5. CASE LoadLoop(p)
    <2>1. /\ pc[p] = "load" /\ pc'[p] = "gain" /\ cmd'[p] = cmd[p] /\ old'[p] = old[p]
          /\ new'[p] = Fresh /\ built'[p] = built[p] \cup {Fresh}
          /\ record' = record /\ live' = live /\ unnamed' = unnamed \ {Fresh}
          /\ loops' = loops \cup {[id |-> Fresh, to |-> target[p]]}
      BY <1>5, <1>t DEF LoadLoop, Loads
    <2>2. Fresh \notin built[p] \cup {old[p].loop} \cup old[p].fixed \cup live \cup LoopIds
      BY <1>5, FreshIsFree DEF LoadLoop, Free, Loaded
    <2> HIDE DEF ScriptTypes
    <2>3. \A l \in loops' : l \in loops \/ l.id = Fresh
      BY <2>1
    <2>4. CASE cmd[p] = "switch"
      BY <2>1, <2>2, <2>3, <2>4
    <2>5. CASE cmd[p] # "switch"
      BY <2>1, <2>2, <2>3, <2>5
    <2> QED BY <2>4, <2>5
  <1>6. CASE LoadFails(p)
    BY <1>6, <1>t DEF LoadFails
  <1>7. CASE Gain(p) \/ GainFails(p)
    BY <1>7, <1>t DEF Gain, GainFails
  <1>8. CASE Initialise(p) \/ InitialiseFails(p)
    BY <1>8, <1>t DEF Initialise, InitialiseFails
  <1>9. CASE Write(p)
    <2> DEFINE file == [physical |-> IF target[p] = Parking THEN Absent ELSE target[p],
                        target |-> target[p], loop |-> new[p],
                        fixed |-> IF cmd[p] = "switch" THEN old[p].fixed
                                  ELSE built[p] \ {new[p]}]
    <2>1. /\ Publish(file) /\ file.loop = new[p]
          /\ file.fixed = IF cmd[p] = "switch" THEN old[p].fixed ELSE built[p] \ {new[p]}
      BY <1>9 DEF Write
    <2> HIDE DEF file
    <2>2. /\ pc[p] = "write" /\ UNCHANGED <<live, loops>>
          /\ IF cmd[p] = "switch"
               THEN pc'[p] = "drop" /\ cmd'[p] = cmd[p] /\ new'[p] = new[p] /\ old'[p] = old[p]
               ELSE pc'[p] = "idle"
      BY <1>9, <1>t DEF Write
    <2>3. /\ record'.fixed \subseteq file.fixed
          /\ record'.loop = new[p] \/ (record'.loop = 0 /\ new[p] \in unnamed')
          /\ unnamed \subseteq unnamed'
      BY <2>1, Published
    <2> HIDE DEF ScriptTypes
    <2>4. CASE cmd[p] = "switch"
      <3>1. Says(old[p]) /\ Has(record.fixed, {record.loop, new[p]})
        BY <2>2, <2>4
      <3>2. Has(file.fixed, {old[p].loop, new[p]})
        <4>1. \A l \in loops : l.id # 0
          BY DEF TypeOK, GraphTypes, Ids
        <4> QED BY <2>1, <2>4, <3>1, <4>1
      <3>3. Has(record.fixed, {old[p].loop, new[p]})'
        BY <2>1, <2>2, <2>4, <3>2, StillNamed
      <3> QED BY <2>1, <2>2, <2>3, <2>4, <3>3
    <2>5. CASE cmd[p] # "switch"
      <3>1. Has(file.fixed, {new[p]})
        BY <2>1, <2>2, <2>5
      <3>2. /\ file.fixed \subseteq record'.fixed \cup unnamed'
            /\ unnamed \subseteq unnamed'
        BY <2>1, Published
      <3> QED BY <2>2, <2>3, <2>5, <3>1, <3>2
    <2> QED BY <2>4, <2>5
  <1>10. CASE WriteFails(p)
    BY <1>10, <1>t DEF WriteFails
  <1>11. CASE Cleanup(p)
    <2>1. live' = live \ built[p] /\ loops' = {l \in loops : l.id \notin built[p]}
      BY <1>11, CleanedUp
    <2>2. /\ pc[p] = "cleanup" /\ record' = record /\ unnamed' = unnamed
          /\ IF cmd[p] = "switch"
               THEN pc'[p] = "unmute" /\ cmd'[p] = cmd[p] /\ new'[p] = new[p] /\ old'[p] = old[p]
               ELSE pc'[p] = "idle"
      BY <1>11, <1>t DEF Cleanup
    <2>3. \A l \in loops : l.id # 0
      BY DEF TypeOK, GraphTypes, Ids
    <2> HIDE DEF ScriptTypes
    <2>4. CASE cmd[p] = "switch"
      BY <2>1, <2>2, <2>3, <2>4
    <2>5. CASE cmd[p] # "switch"
      BY <2>1, <2>2, <2>3, <2>5
    <2> QED BY <2>4, <2>5
  <1>12. CASE NoServer(p)
    BY <1>12, <1>t DEF NoServer
  <1> QED
    BY <1>1, <1>2, <1>3, <1>4, <1>5, <1>6, <1>7, <1>8, <1>9, <1>10, <1>11, <1>12 DEF StartStep

LEMMA SwitchGraph ==
  ASSUME TypeOK, NEW p \in Scripts, Knows(p), Placed(p), SwitchStep(p), ~ignored'
  PROVE  (pc'[p] = "idle" => Rested') /\ (pc'[p] # "idle" => Placed(p)')
  <1> USE DEF ScriptTypes, Knows, Bare, BeforeLoad, Placed, Switched, Started, Undone, Done,
              Rested, Has, Says, NamesLoop, LoopIds, Go, Exit, Forget, server, files, locals,
              NoRecord
  <1>t. ScriptTypes
    BY DEF TypeOK
  <1>1. CASE Prepare(p) \/ PrepareIgnored(p) \/ PrepareFails(p)
    BY <1>1, <1>t DEF Prepare, AfterPrepare, PrepareIgnored, PrepareFails
  <1>2. CASE Read(p)
    <2>1. /\ Route.fixed = record.fixed /\ Route.loop = record.loop
          /\ Route.physical = record.physical /\ record.target \in {Route.target, Absent}
      BY RouteTypes DEF TypeOK, NoteTypes
    <2>2. /\ pc[p] = "read" /\ cmd[p] = "switch" /\ UNCHANGED <<record, unnamed, live, loops>>
          /\ \/ pc'[p] = "unload" /\ cmd'[p] = "start"
             \/ /\ pc'[p] \in {"prepare", "regain", "gains"} /\ cmd'[p] = "switch"
                /\ old'[p] = Route
      BY <1>2, <1>t DEF Read
    <2> HIDE DEF ScriptTypes
    <2> QED BY <2>1, <2>2
  <1>3. CASE Regain(p) \/ Gains(p) \/ Query(p)
    BY <1>3, <1>t DEF Regain, Gains, Query
  <1>4. CASE Mute(p) \/ SwitchFails(p)
    BY <1>4, <1>t DEF Mute, SwitchFails
  <1>5. CASE Drop(p)
    <2>1. \A l \in loops : l.id # 0
      BY DEF TypeOK, GraphTypes, Ids
    <2> QED BY <1>5, <1>t, <2>1 DEF Drop
  <1>6. CASE DropFails(p)
    BY <1>6, <1>t DEF DropFails
  <1>7. CASE PutBack(p)
    <2>1. /\ pc[p] = "putback" /\ pc'[p] = "cleanup" /\ cmd[p] = "switch" /\ cmd'[p] = cmd[p]
          /\ new'[p] = new[p] /\ old'[p] = old[p] /\ UNCHANGED <<live, loops>>
      BY <1>7, <1>t DEF PutBack
    <2>2. Publish(old[p])
      BY <1>7 DEF PutBack
    <2>3. Has(record.fixed, {old[p].loop, new[p]}) /\ record.fixed \subseteq old[p].fixed
      BY <2>1
    <2>4. Has(old[p].fixed, {old[p].loop, new[p]})
      BY <2>3
    <2>5. Has(record.fixed, {old[p].loop, new[p]})'
      BY <2>1, <2>2, <2>4, StillNamed
    <2>6. Says(old[p])'
      BY <2>1, <2>2, Published
    <2> HIDE DEF ScriptTypes
    <2> QED BY <2>1, <2>5, <2>6
  <1>8. CASE Unmute(p) \/ UnmuteFails(p)
    BY <1>8, <1>t DEF Unmute, UnmuteFails
  <1> QED BY <1>1, <1>2, <1>3, <1>4, <1>5, <1>6, <1>7, <1>8 DEF SwitchStep

LEMMA WorldShrinks ==
  ASSUME TypeOK, World
  PROVE  live' \subseteq live /\ \A l \in loops' : \E k \in loops : k.id = l.id
  <1>1. CASE UNCHANGED <<live, loops>>
    BY <1>1
  <1>2. CASE Unplug
    <2>1. PICK d \in present :
            \/ loops' = {l \in loops : l.to # d}
            \/ loops' = {[l EXCEPT !.to = IF l.to = d THEN Nowhere ELSE l.to] : l \in loops}
      BY <1>2 DEF Unplug
    <2>2. live' = live /\ \A l \in loops : l \in [id : Ids, to : 0..Nowhere]
      BY <1>2 DEF Unplug, TypeOK, GraphTypes
    <2> QED BY <2>1, <2>2
  <1>3. CASE ServerRestart
    BY <1>3 DEF ServerRestart
  <1>4. CASE \/ Reconcile \/ Confirmed \/ RollBack \/ Restore \/ Command \/ Select
             \/ RollBackFails \/ UserMutes \/ Plug \/ Meddle \/ ClientPlays \/ UNCHANGED vars
    <2>1. UNCHANGED <<live, loops>>
      BY <1>4, Zenon
      DEF Reconcile, Confirmed, RollBack, Restore, Command, Select, RollBackFails, UserMutes,
          Plug, Meddle, ClientPlays, vars, server
    <2> QED BY <1>1, <2>1
  <1> QED BY <1>1, <1>2, <1>3, <1>4 DEF World

LEMMA WorldGraph ==
  ASSUME TypeOK, GraphInv, World
  PROVE  GraphInv'
  <1> SUFFICES ASSUME ~signalled', ~ignored' PROVE GraphInv'
    BY DEF GraphInv
  <1>1. /\ UNCHANGED <<record, unnamed, built, new, old, signals, ignored>>
        /\ \A p \in Scripts : \/ pc'[p] = pc[p] /\ cmd'[p] = cmd[p]
                              \/ pc[p] = "idle" /\ pc'[p] = "want"
    BY WorldWaits
  <1>2. live' \subseteq live /\ \A l \in loops' : \E k \in loops : k.id = l.id
    BY WorldShrinks
  <1>3. LoopIds' \subseteq LoopIds
    BY WorldShrinks DEF LoopIds
  <1>4. ~signalled /\ ~ignored
    BY <1>1 DEF signals
  <1>5. Rested => Rested'
    BY <1>1, <1>2 DEF Rested, Has
  <1>6. Resting' => Resting
    BY <1>1 DEF Resting, Working
  <1>7. ASSUME NEW p \in Scripts, Working(p)' PROVE Placed(p)'
    <2>1. Working(p) /\ pc'[p] = pc[p] /\ cmd'[p] = cmd[p]
      BY <1>1, <1>7 DEF Working
    <2>2. Placed(p)
      BY <1>4, <2>1 DEF GraphInv
    <2>3. (Undone(p) => Undone(p)') /\ (Done(p) => Done(p)')
      BY <1>1, <1>3 DEF Undone, Done, Says, NamesLoop
    <2> QED BY <1>1, <1>2, <1>5, <2>1, <2>2, <2>3 DEF Placed, Switched, Started, Has, Says, NamesLoop
  <1> QED BY <1>4, <1>5, <1>6, <1>7 DEF GraphInv

LEMMA GraphStays == TypeOK /\ LockInv /\ KnowsInv /\ GraphInv /\ [Next]_vars => GraphInv'
  <1> SUFFICES ASSUME TypeOK, LockInv, KnowsInv, GraphInv, [Next]_vars, ~signalled', ~ignored'
               PROVE  GraphInv'
    BY DEF GraphInv
  <1>1. ASSUME NEW p \in Scripts, StartStep(p) \/ SwitchStep(p) PROVE GraphInv'
    <2>1. ~signalled /\ ~ignored
      BY <1>1, Works, IgnoredOnce DEF signals
    <2>2. Working(p) /\ Placed(p) /\ Knows(p)
      BY <1>1, <2>1, Works DEF GraphInv, KnowsInv
    <2>3. (pc'[p] = "idle" => Rested') /\ (pc'[p] # "idle" => Placed(p)')
      BY <1>1, <2>2, StartGraph, SwitchGraph
    <2>4. \A q \in Scripts \ {p} : ~Working(q)'
      BY <1>1, <2>1, <2>2, OthersStay DEF Run, Elsewhere, LockInv, Working
    <2>5. Working(p)' <=> pc'[p] # "idle"
      BY <1>1, Works DEF Working
    <2> QED BY <1>1, <2>3, <2>4, <2>5 DEF GraphInv, Resting
  <1>2. ASSUME NEW p \in Scripts, LockStep(p) PROVE GraphInv'
    <2>1. Elsewhere(p)
      BY <1>2, OthersStay DEF Run
    <2>2. /\ UNCHANGED <<live, loops, record, unnamed, signalled, ignored>>
          /\ pc[p] \in {"want", "stale"} /\ pc'[p] \in Places
      BY <1>2
      DEF LockStep, Take, MarkFails, GiveUp, SeeDead, RemoveStale, server, files, history, signals, TypeOK,
          ScriptTypes, Places, Go
    <2>3. Rested' <=> Rested
      BY <2>2 DEF Rested, Has
    <2>4. CASE Take(p)
      <3>1. Resting
        BY <2>2, <2>4 DEF Take, LockInv, Resting, Scripts
      <3>2. Rested' /\ cmd'[p] = cmd[p] /\ pc'[p] = (CASE cmd[p] = "start" -> "unload"
                                                       [] cmd[p] = "switch" -> "read"
                                                       [] OTHER -> "stop")
        BY <2>2, <2>3, <2>4, <3>1 DEF GraphInv, Take, Go, locals, TypeOK, ScriptTypes
      <3>3. Placed(p)'
        BY <3>2 DEF Placed, Switched, Started
      <3>4. \A q \in Scripts \ {p} : ~Working(q)'
        BY <2>1, <3>1 DEF Resting, Working, Elsewhere
      <3> QED BY <3>2, <3>3, <3>4 DEF GraphInv
    <2>5. CASE MarkFails(p) \/ GiveUp(p) \/ SeeDead(p) \/ RemoveStale(p)
      <3>1. ~Working(p)' /\ ~Working(p)
        BY <2>2, <2>5 DEF MarkFails, GiveUp, SeeDead, RemoveStale, Go, Working, TypeOK, ScriptTypes
      <3>2. Resting' => Resting
        BY <2>1, <3>1 DEF Resting, Working, Elsewhere
      <3>3. ASSUME NEW q \in Scripts, Working(q)' PROVE Placed(q)'
        <4>1. q # p /\ Working(q) /\ Placed(q)
          BY <2>1, <2>2, <3>1, <3>3 DEF Working, Elsewhere, GraphInv
        <4> QED
          BY <2>1, <2>2, <4>1
          DEF Placed, Switched, Started, Elsewhere, Undone, Done, Rested, Has, Says, NamesLoop,
              LoopIds
      <3> QED BY <2>2, <2>3, <3>2, <3>3 DEF GraphInv
    <2> QED BY <1>2, <2>4, <2>5 DEF LockStep
  <1>3. ASSUME NEW p \in Scripts, Kill(p) \/ Terminate(p) PROVE GraphInv'
    BY <1>3 DEF Kill, Terminate
  <1>4. CASE World
    BY <1>4, WorldGraph
  <1> QED BY <1>1, <1>2, <1>3, <1>4, Kinds

-----------------------------------------------------------------------------
(* MASTER's mute. *)

\* MASTER may have two routes.
Twofold(p) ==
  cmd[p] = "switch" /\ pc[p] \in {"load", "gain", "write", "cleanup", "drop", "putback"}

\* The script has asked for MASTER's mute and not given it back.
Swaps(p) == (cmd[p] = "switch" /\ pc[p] \in {"mute", "unmute"}) \/ Twofold(p)

\* MASTER is muted, unless a server without modules lost that, and the routes.
Quiet(p) == Twofold(p) => muted \/ (live = {} /\ loops = {})

\* The script knows the mute that the user wants.
Minds(p) ==
  /\ wasMuted[p] <=> userMuted
  /\ pc[p] = "mute" => (muted <=> userMuted)
  /\ pc[p] # "mute" => muted

MuteInv ==
  ~signalled /\ ~touched =>
    /\ \A p \in Scripts : Quiet(p)
    /\ levels = "user" /\ (\A p \in Scripts : ~Swaps(p)) => (muted <=> userMuted)
    /\ levels = "user" => \A p \in Scripts : Swaps(p) => Minds(p)

\* The same, when p is the script at work.
MutedBy(p) ==
  /\ Quiet(p)
  /\ levels = "user" /\ ~Swaps(p) => (muted <=> userMuted)
  /\ levels = "user" /\ Swaps(p) => Minds(p)

LEMMA StartMutes ==
  ASSUME TypeOK, NEW p \in Scripts, Knows(p), MutedBy(p), StartStep(p)
  PROVE  MutedBy(p)'
  <1> USE DEF ScriptTypes, Knows, MutedBy, Quiet, Minds, Swaps, Twofold, Go, Exit, Forget,
              server, locals, daemon
  <1>t. ScriptTypes
    BY DEF TypeOK
  <1>1. CASE Stop(p) \/ Unload(p) \/ Choose(p) \/ NoServer(p)
    BY <1>1, <1>t DEF Stop, Unload, Choose, NoServer
  <1>2. CASE LoadFixed(p)
    BY <1>2, <1>t DEF LoadFixed, Loads, Building
  <1>3. CASE LoadLoop(p)
    BY <1>3, <1>t DEF LoadLoop, Loads, Bus, Working
  <1>4. CASE LoadFails(p) \/ Gain(p) \/ GainFails(p)
    BY <1>4, <1>t DEF LoadFails, Gain, GainFails
  <1>5. CASE Initialise(p) \/ InitialiseFails(p)
    BY <1>5, <1>t DEF Initialise, InitialiseFails
  <1>6. CASE Write(p) \/ WriteFails(p)
    BY <1>6, <1>t DEF Write, WriteFails
  <1>7. CASE Cleanup(p)
    BY <1>7, <1>t DEF Cleanup
  <1> QED BY <1>1, <1>2, <1>3, <1>4, <1>5, <1>6, <1>7 DEF StartStep

LEMMA SwitchMutes ==
  ASSUME TypeOK, NEW p \in Scripts, Knows(p), MutedBy(p), SwitchStep(p), ~touched'
  PROVE  MutedBy(p)'
  <1> USE DEF ScriptTypes, Knows, MutedBy, Quiet, Minds, Swaps, Twofold, Go, Exit, Forget,
              server, locals, daemon
  <1>t. ScriptTypes /\ muted \in BOOLEAN
    BY DEF TypeOK, FlagTypes
  <1>1. CASE Prepare(p) \/ PrepareIgnored(p) \/ PrepareFails(p)
    BY <1>1, <1>t DEF Prepare, AfterPrepare, PrepareIgnored, PrepareFails
  <1>2. CASE Read(p) \/ Regain(p) \/ Gains(p)
    BY <1>2, <1>t DEF Read, Regain, Gains
  <1>3. CASE Query(p)
    BY <1>3, <1>t DEF Query
  <1>4. CASE Mute(p) \/ SwitchFails(p)
    BY <1>4, <1>t DEF Mute, SwitchFails
  <1>5. CASE Drop(p) \/ DropFails(p) \/ PutBack(p)
    BY <1>5, <1>t DEF Drop, DropFails, PutBack
  <1>6. CASE Unmute(p)
    BY <1>6, <1>t DEF Unmute
  <1>7. CASE UnmuteFails(p)
    BY <1>7 DEF UnmuteFails
  <1> QED BY <1>1, <1>2, <1>3, <1>4, <1>5, <1>6, <1>7 DEF SwitchStep

LEMMA TouchedBefore ==
  ASSUME NEW p \in Scripts, Run(p), ~touched'
  PROVE  ~touched
  <1> USE DEF history
  <1>1. CASE LockStep(p)
    BY <1>1, Zenon DEF LockStep, Take, MarkFails, GiveUp, SeeDead, RemoveStale
  <1>2. CASE StartStep(p)
    BY <1>2, Zenon
    DEF StartStep, Stop, Unload, Choose, LoadFixed, LoadLoop, LoadFails, Gain, GainFails,
        Initialise, InitialiseFails, Write, WriteFails, Cleanup, NoServer
  <1>3. CASE SwitchStep(p)
    BY <1>3, Zenon
    DEF SwitchStep, Prepare, PrepareIgnored, PrepareFails, Read, Regain, Gains, Query, Mute,
        SwitchFails, Drop, DropFails, PutBack, Unmute, UnmuteFails
  <1> QED BY <1>1, <1>2, <1>3 DEF Run

LEMMA WorldMutes ==
  ASSUME TypeOK, MuteInv, World
  PROVE  MuteInv'
  <1> SUFFICES ASSUME ~signalled', ~touched' PROVE MuteInv'
    BY DEF MuteInv
  <1>1. /\ UNCHANGED <<wasMuted, signals>>
        /\ \A p \in Scripts : \/ pc'[p] = pc[p] /\ cmd'[p] = cmd[p]
                              \/ pc[p] = "idle" /\ pc'[p] = "want"
    BY WorldWaits
  <1>2. \A p \in Scripts : Twofold(p)' => Twofold(p)
    BY <1>1 DEF Twofold
  <1>3. \A p \in Scripts : (Swaps(p)' <=> Swaps(p)) /\ (Swaps(p)' => pc'[p] = pc[p])
    BY <1>1 DEF Swaps, Twofold
  <1>4. CASE Restore \/ UserMutes
    <2>1. ~Switching /\ (muted' <=> userMuted')
      BY <1>4 DEF Restore, UserMutes
    <2>2. \A p \in Scripts : ~Swaps(p) /\ ~Twofold(p)
      BY <2>1 DEF Switching, Swaps, Twofold
    <2> QED BY <1>2, <1>3, <2>1, <2>2 DEF MuteInv, Quiet
  <1>5. CASE ServerRestart
    <2>1. live' = {} /\ loops' = {} /\ levels' = "initial"
      BY <1>5 DEF ServerRestart
    <2> QED BY <2>1 DEF MuteInv, Quiet
  <1>6. CASE \/ Reconcile \/ Confirmed \/ RollBack \/ Command \/ Select \/ RollBackFails
             \/ Plug \/ Unplug \/ Meddle \/ ClientPlays \/ UNCHANGED vars
    <2>1. UNCHANGED <<muted, levels, userMuted, touched>>
      BY <1>6, Zenon
      DEF Reconcile, Confirmed, RollBack, Command, Select, RollBackFails, Plug, Unplug, Meddle,
          ClientPlays, vars, server, daemon, history
    <2>2. live = {} /\ loops = {} => live' = {} /\ loops' = {}
      BY WorldShrinks
    <2> QED
      BY <1>1, <1>2, <1>3, <2>1, <2>2 DEF MuteInv, Quiet, Minds, signals
  <1> QED BY <1>4, <1>5, <1>6 DEF World

LEMMA MuteStays == TypeOK /\ LockInv /\ KnowsInv /\ MuteInv /\ [Next]_vars => MuteInv'
  <1> SUFFICES ASSUME TypeOK, LockInv, KnowsInv, MuteInv, [Next]_vars, ~signalled', ~touched'
               PROVE  MuteInv'
    BY DEF MuteInv
  <1>1. ASSUME NEW p \in Scripts, StartStep(p) \/ SwitchStep(p) PROVE MuteInv'
    <2>1. ~signalled /\ ~touched /\ Working(p)
      BY <1>1, Works, TouchedBefore DEF signals, Run
    <2>2. \A q \in Scripts \ {p} : ~Working(q) /\ ~Working(q)'
      BY <1>1, <2>1, OthersStay DEF Run, Elsewhere, LockInv, Working
    <2>3. \A q \in Scripts \ {p} : ~Swaps(q) /\ ~Twofold(q) /\ ~Swaps(q)' /\ ~Twofold(q)'
      BY <2>2 DEF Working, Swaps, Twofold
    <2>4. MutedBy(p)
      BY <2>1, <2>3 DEF MuteInv, MutedBy
    <2>5. MutedBy(p)'
      BY <1>1, <2>4, StartMutes, SwitchMutes DEF KnowsInv
    <2> QED BY <2>3, <2>5 DEF MuteInv, MutedBy, Quiet
  <1>2. ASSUME NEW p \in Scripts, LockStep(p) PROVE MuteInv'
    <2>1. ~touched /\ Elsewhere(p)
      BY <1>2, OthersStay, TouchedBefore DEF Run
    <2>2. /\ UNCHANGED <<live, loops, muted, levels, userMuted, signalled>>
          /\ pc[p] \in {"want", "stale"}
          /\ pc'[p] \in {"unload", "read", "stop", "idle", "stale", "want"}
      <3>1. CASE Take(p) \/ SeeDead(p) \/ RemoveStale(p)
        BY <3>1
        DEF Take, SeeDead, RemoveStale, server, daemon, locals, history, signals, TypeOK,
            ScriptTypes, Go
      <3>2. CASE MarkFails(p) \/ GiveUp(p)
        BY <3>2 DEF MarkFails, GiveUp, server, daemon, signals, TypeOK, ScriptTypes, Go
      <3> QED BY <1>2, <3>1, <3>2 DEF LockStep
    <2>3. \A q \in Scripts : (Swaps(q)' <=> Swaps(q)) /\ (Twofold(q)' <=> Twofold(q))
      BY <2>1, <2>2 DEF Swaps, Twofold, Elsewhere
    <2>4. \A q \in Scripts : Swaps(q)' => pc'[q] = pc[q] /\ wasMuted'[q] = wasMuted[q]
      BY <2>1, <2>2 DEF Swaps, Twofold, Elsewhere
    <2> QED BY <2>1, <2>2, <2>3, <2>4 DEF MuteInv, Quiet, Minds
  <1>3. ASSUME NEW p \in Scripts, Kill(p) \/ Terminate(p) PROVE MuteInv'
    BY <1>3 DEF Kill, Terminate
  <1>4. CASE World
    BY <1>4, WorldMutes
  <1> QED BY <1>1, <1>2, <1>3, <1>4, Kinds

-----------------------------------------------------------------------------
(* The properties. *)

IInv == TypeOK /\ LockInv /\ KnowsInv /\ GraphInv /\ MuteInv

LEMMA Initially == Init => IInv
  <1> SUFFICES ASSUME Init PROVE IInv
    OBVIOUS
  <1>1. /\ pc = [p \in Scripts |-> "idle"] /\ lock = "free" /\ ~raced
        /\ built = [p \in Scripts |-> {}] /\ new = [p \in Scripts |-> 0]
        /\ old = [p \in Scripts |-> NoRecord] /\ record = NoRecord
        /\ live = {} /\ loops = {} /\ levels = "initial" /\ unnamed = {}
    BY DEF Init
  <1>2. LockInv
    BY <1>1 DEF LockInv, Working, Scripts
  <1>3. KnowsInv
    BY <1>1 DEF KnowsInv, Knows, Bare, Working
  <1>4. GraphInv
    BY <1>1 DEF GraphInv, Rested, Has, Working
  <1>5. MuteInv
    BY <1>1 DEF MuteInv, Quiet
  <1> QED BY <1>2, <1>3, <1>4, <1>5, InitiallyTyped DEF IInv

LEMMA Invariantly == Spec => []IInv
  <1>1. IInv /\ [Next]_vars => IInv'
    BY Typed, LockStays, KnowsStays, GraphStays, MuteStays DEF IInv
  <1> QED BY <1>1, Initially, PTL DEF Spec

\* Whatever the scripts, the router, the daemon, users and devices do, the
\* variables keep their types; no number is two modules.
THEOREM RouteIsTyped == Spec => []TypeOK
  <1>1. IInv => TypeOK
    BY DEF IInv
  <1> QED BY <1>1, Invariantly, PTL

\* The lock directory keeps the service's script and the watcher's apart, however
\* their waits and steps interleave, until a signal hits one (acquire_lock).
THEOREM ScriptsExclude == Spec => []LockExcludes
  <1>1. IInv => LockExcludes
    BY DEF IInv, LockInv, LockExcludes, Scripts
  <1> QED BY <1>1, Invariantly, PTL

\* Whichever call of a start, a stop or a switch fails, a script that has ended
\* leaves no module that the state file does not name (cleanup_build_modules), but
\* those whose own lines write_state lost, unnoticed.
THEOREM NothingIsLeftBehind == Spec => []NothingLeftBehind
  <1>1. IInv => NothingLeftBehind
    <2> SUFFICES ASSUME IInv, Resting, ~signalled, ~ignored
                 PROVE  Loaded \subseteq Recorded \cup unnamed
      BY DEF NothingLeftBehind
    <2>1. /\ live \subseteq record.fixed \cup unnamed
          /\ \A i \in LoopIds : i \in {record.loop} \cup unnamed
      BY DEF IInv, GraphInv, Rested, Has, LoopIds
    <2>2. 0 \notin Loaded
      BY DEF IInv, TypeOK, GraphTypes, Loaded, LoopIds, Ids
    <2> QED BY <2>1, <2>2 DEF Loaded, Recorded
  <1> QED BY <1>1, Invariantly, PTL

\* A switch, at the end of which the new route is not the recorded one, has the
\* old one recorded, and unloaded the new one (switch_output), but for lines that
\* write_state lost, unnoticed.
THEOREM FailedSwitchIsUndone == Spec => []FailedSwitchKeepsRoute
  <1>1. IInv => FailedSwitchKeepsRoute
    <2> SUFFICES ASSUME IInv, NEW p \in Scripts, pc[p] = "unmute", ~signalled, ~ignored
                 PROVE  Undone(p) \/ Done(p)
      BY DEF FailedSwitchKeepsRoute, Undone, Done
    <2>1. Working(p) /\ cmd[p] = "switch"
      BY DEF IInv, KnowsInv, Knows, Working
    <2> QED BY <2>1 DEF IInv, GraphInv, Placed, Switched
  <1> QED BY <1>1, Invariantly, PTL

\* While MASTER has two routes it is muted, whatever fails meanwhile, devices go
\* or the server restarts, unless a user or the daemon sets the mute itself,
\* or the second route is a loop whose line a state file lost.
THEOREM SwapIsSilent == Spec => []SilentSwap
  <1>1. IInv => SilentSwap
    <2> DEFINE named == {l \in loops : l.id \notin unnamed}
    <2> SUFFICES ASSUME IInv, ~signalled, ~ignored, ~touched, Cardinality(named) > 1
                 PROVE  muted
      BY DEF SilentSwap
    <2>1. named # {}
      BY FS_EmptySet
    <2>2. CASE \E p \in Scripts : Twofold(p)
      BY <2>1, <2>2 DEF IInv, MuteInv, Quiet
    <2>3. CASE \A p \in Scripts : ~Twofold(p)
      <3>1. \E x : \A l \in loops : l.id \in {x} \cup unnamed
        <4>1. CASE Resting
          BY <4>1 DEF IInv, GraphInv, Rested, Has
        <4>2. CASE ~Resting
          <5>1. PICK p \in Scripts : Working(p)
            BY <4>2 DEF Resting
          <5>2. Placed(p) /\ ~Twofold(p) /\ Knows(p) /\ pc[p] \in Places
            BY <5>1, <2>3 DEF IInv, GraphInv, KnowsInv, TypeOK, ScriptTypes
          <5>3. CASE cmd[p] = "switch"
            BY <5>1, <5>2, <5>3
            DEF Placed, Switched, Rested, Has, Twofold, Working, Places, Knows
          <5>4. CASE cmd[p] # "switch"
            BY <5>1, <5>2, <5>4 DEF Placed, Started, Rested, Has, Working, Places, Knows
          <5> QED BY <5>3, <5>4
        <4> QED BY <4>1, <4>2
      <3>2. PICK l \in named : named = {l}
        BY <2>1, <3>1 DEF IInv, TypeOK, GraphTypes
      <3>3. Cardinality(named) = 1
        BY <3>2, FS_Singleton
      <3> HIDE DEF named
      <3> QED BY <3>3
    <2> QED BY <2>2, <2>3
  <1> QED BY <1>1, Invariantly, PTL

\* Between two scripts MASTER's mute is the one the user set, after a switch that
\* went through or failed at any call, as long as nobody else set it in one.
THEOREM MuteIsGivenBack == Spec => []MuteKept
  <1>1. IInv => MuteKept
    <2> SUFFICES ASSUME IInv, Resting, ~signalled, ~touched, levels = "user"
                 PROVE  muted = userMuted
      BY DEF MuteKept
    <2>1. \A p \in Scripts : ~Swaps(p)
      BY DEF Resting, Working, Swaps, Twofold
    <2> QED BY <2>1 DEF IInv, MuteInv, TypeOK, FlagTypes
  <1> QED BY <1>1, Invariantly, PTL
=============================================================================
