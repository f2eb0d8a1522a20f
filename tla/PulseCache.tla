------------------------------ MODULE PulseCache ------------------------------
(* src/src/pulse.rs: one worker thread talks to the sound server, keeps a     *)
(* cache of its sinks, answers requests of the daemon's tasks one by one and  *)
(* tells them of changes.  Tasks read the cache without the worker.           *)
(*                                                                            *)
(* A sink has a volume, as the server stores it, and a mute.  Its index is    *)
(* new for each sink a server creates; another server begins again.  Events   *)
(* about one sink that wait together are one, and are handled in any order.   *)
(* Streams are not cached: their events only wake the tasks.                  *)
EXTENDS Naturals, Sequences

CONSTANTS
  Sinks,       \* names
  Volumes,
  Callers,     \* tasks that make requests at any time
  Watcher,     \* a task that sleeps on subscribe_changes and then reads the sinks
  MaxIndex,    \* bound: sinks a server creates
  MaxEvents    \* bound: requests of callers, and what happens to the server

ASSUME PulseAssumption ==
  /\ MaxIndex \in Nat /\ MaxEvents \in Nat
  /\ Watcher \notin Callers /\ Volumes # {}

Clients == Callers \cup {Watcher}

VARIABLES
  up,          \* a server runs
  server,      \* its sinks
  next,        \* the index of its next sink
  late,        \* calls the worker has given up that the server may still carry out
  link,        \* the connection: "none", "up" or "broken"
  events,      \* events sent that the worker has not drained
  pc,          \* the worker's place
  drained,     \* the events a pump has yet to handle
  refreshing,  \* the index a pump asks about, or 0
  served,      \* the server has answered the worker's call
  snapshot,    \* what it answered
  cache,
  requests,    \* the channel of requests; the worker is at the first
  waiting,     \* clients that await an answer
  notified,    \* the changes counter has moved since the watcher last woke
  unread,      \* sinks the watcher is about to read
  view,        \* what it read
  acked,       \* history: changes that were answered Ok and that nobody undid
  foreign,     \* history: sinks changed behind the worker since it last read them
  missed,      \* history: an event's refresh, or a read of the watcher, was given up
  count        \* history: events so far

world == <<up, server, next, late>>
call == <<served, snapshot>>
pumping == <<drained, refreshing>>
watcher == <<unread, view>>
history == <<acked, foreign, missed, count>>
vars == <<world, link, events, pc, pumping, call, cache, requests, waiting, notified,
          watcher, history>>

Absent == [index |-> 0, volume |-> CHOOSE v \in Volumes : TRUE, muted |-> FALSE]
SinkState == [index : 1..MaxIndex, volume : Volumes, muted : BOOLEAN]
Nothing == [s \in Sinks |-> Absent]

Request ==
  [client : Clients, kind : {"get", "list"}, sink : Sinks, volume : {Absent.volume}, muted : {FALSE}]
  \cup [client : Clients, kind : {"volume"}, sink : Sinks, volume : Volumes, muted : {FALSE}]
  \cup [client : Clients, kind : {"mute"}, sink : Sinks, volume : {Absent.volume}, muted : BOOLEAN]
PulseEvent == [kind : {"changed", "removed"}, index : 1..MaxIndex]
              \cup {[kind |-> "topology", index |-> 0]}

Changed(i) == [kind |-> "changed", index |-> i]
Removed(i) == [kind |-> "removed", index |-> i]
Topology == [kind |-> "topology", index |-> 0]

\* A sink after a change: set_sink_volume keeps the mute and set_sink_mute the volume.
After(r, state) ==
  IF r.kind = "volume" THEN [state EXCEPT !.volume = r.volume]
  ELSE [state EXCEPT !.muted = r.muted]

Holds(r, state) == state.index # 0 /\ After(r, state) = state

\* The daemon starts before a server or after it.
Init ==
  /\ up \in BOOLEAN /\ next \in 1..MaxIndex + 1 /\ late = {}
  /\ server \in [Sinks -> SinkState \cup {Absent}]
  /\ \A s \in Sinks : server[s].index < next
  /\ \A s, t \in Sinks : s # t /\ server[s].index # 0 => server[s].index # server[t].index
  /\ ~up => server = Nothing /\ next = 1
  /\ link = "none" /\ events = {} /\ pc = "off" /\ drained = {} /\ refreshing = 0
  /\ served = FALSE /\ snapshot = Nothing /\ cache = Nothing
  /\ requests = <<>> /\ waiting = {} /\ notified = FALSE /\ unread = Sinks /\ view = Nothing
  /\ acked = {} /\ foreign = {} /\ missed = FALSE /\ count = 0

-----------------------------------------------------------------------------
(* The server. *)

Event == count < MaxEvents /\ count' = count + 1

Tell(e) == events' = IF link = "up" THEN events \cup {e} ELSE events

\* Somebody else changed sink s: what was acknowledged about it holds no longer.
Behind(s) ==
  /\ acked' = {r \in acked : r.sink # s}
  /\ foreign' = foreign \cup {s}

SinkAppears ==
  /\ up /\ next <= MaxIndex /\ Event
  /\ \E s \in Sinks, v \in Volumes, m \in BOOLEAN :
       /\ server[s].index = 0
       /\ server' = [server EXCEPT ![s] = [index |-> next, volume |-> v, muted |-> m]]
       /\ Behind(s)
  /\ next' = next + 1 /\ Tell(Changed(next))
  /\ UNCHANGED <<up, late, link, pc, pumping, call, cache, requests, waiting, notified, watcher,
                 missed>>

SinkGoes ==
  /\ Event
  /\ \E s \in Sinks :
       /\ server[s].index # 0
       /\ server' = [server EXCEPT ![s] = Absent]
       /\ Behind(s) /\ Tell(Removed(server[s].index))
  /\ UNCHANGED <<up, next, late, link, pc, pumping, call, cache, requests, waiting, notified,
                 watcher, missed>>

\* Another client moves a fader.
Meddle ==
  /\ Event
  /\ \E s \in Sinks, v \in Volumes, m \in BOOLEAN :
       /\ server[s].index # 0 /\ <<v, m>> # <<server[s].volume, server[s].muted>>
       /\ server' = [server EXCEPT ![s] = [index |-> @.index, volume |-> v, muted |-> m]]
       /\ Behind(s) /\ Tell(Changed(server[s].index))
  /\ UNCHANGED <<up, next, late, link, pc, pumping, call, cache, requests, waiting, notified,
                 watcher, missed>>

\* A stream comes, goes or changes.
StreamEvent ==
  /\ up /\ Event /\ Tell(Topology)
  /\ UNCHANGED <<world, link, pc, pumping, call, cache, requests, waiting, notified, watcher,
                 acked, foreign, missed>>

Breaks == link' = IF link = "up" THEN "broken" ELSE link

\* Events that have arrived stay in the worker's queue.
ServerDies ==
  /\ up /\ Event /\ up' = FALSE
  /\ server' = Nothing /\ next' = 1 /\ late' = {} /\ Breaks
  /\ events' \in SUBSET events
  /\ acked' = {} /\ foreign' = Sinks
  /\ UNCHANGED <<pc, pumping, call, cache, requests, waiting, notified, watcher, missed>>

ServerStarts ==
  /\ ~up /\ up' = TRUE
  /\ UNCHANGED <<server, next, late, link, events, pc, pumping, call, cache, requests, waiting,
                 notified, watcher, history>>

ConnectionBreaks ==
  /\ link = "up" /\ Event /\ Breaks
  /\ events' \in SUBSET events
  /\ UNCHANGED <<world, pc, pumping, call, cache, requests, waiting, notified, watcher,
                 acked, foreign, missed>>

\* A call the worker no longer waits for is carried out.
ServeLate ==
  /\ \E r \in late :
       /\ late' = late \ {r} /\ Behind(r.sink)
       /\ IF server[r.sink].index = 0 \/ Holds(r, server[r.sink])
            THEN UNCHANGED <<server, events>>
            ELSE /\ server' = [server EXCEPT ![r.sink] = After(r, @)]
                 /\ Tell(Changed(server[r.sink].index))
  /\ UNCHANGED <<up, next, link, pc, pumping, call, cache, requests, waiting, notified, watcher,
                 missed, count>>

-----------------------------------------------------------------------------
(* Calls of the worker, one at a time. *)

Asking == {"refresh", "query", "list", "set"}
Handling == {"query", "list", "set"}

Current == Head(requests)

\* The sinks a query is about.
Wanted(s) ==
  CASE pc = "refresh" -> server[s].index = refreshing
    [] pc = "query" -> s = Current.sink
    [] OTHER -> TRUE

Ask(place) == pc' = place /\ served' = FALSE /\ snapshot' = Nothing

Serve ==
  /\ pc \in {"refresh", "query", "list"} /\ link = "up" /\ ~served
  /\ served' = TRUE
  /\ snapshot' = [s \in Sinks |-> IF Wanted(s) THEN server[s] ELSE Absent]
  /\ UNCHANGED <<world, link, events, pc, pumping, cache, requests, waiting, notified, watcher,
                 history>>

\* By name: it may be another sink than the one in the cache.
ServeSet ==
  /\ pc = "set" /\ link = "up" /\ ~served
  /\ served' = TRUE
  /\ LET r == Current  old == server[r.sink] IN
       /\ snapshot' = [Nothing EXCEPT ![r.sink] = old]
       /\ IF old.index = 0 \/ Holds(r, old) THEN UNCHANGED <<server, events>>
          ELSE server' = [server EXCEPT ![r.sink] = After(r, @)] /\ Tell(Changed(old.index))
       /\ acked' = {q \in acked : q.sink # r.sink \/ q.kind # r.kind}
  /\ UNCHANGED <<up, next, late, link, pc, pumping, cache, requests, waiting, notified, watcher,
                 foreign, missed, count>>

\* update_cache with what a query found.
Found == {s \in Sinks : snapshot[s].index # 0}
Learn ==
  /\ cache' = [s \in Sinks |-> IF s \in Found THEN snapshot[s] ELSE cache[s]]
  /\ foreign' = foreign \ {s \in Found : snapshot[s] = server[s]}

-----------------------------------------------------------------------------
(* Answers. *)

\* Request r is answered Ok, with the sinks in behind changed by others.
Acknowledge(r, behind) ==
  acked' = IF r.kind \in {"volume", "mute"} /\ r.sink \notin behind
             THEN {q \in acked : q.sink # r.sink \/ q.kind # r.kind} \cup {r}
             ELSE acked

\* The answer to a read of the watcher is what it sees; an error is nothing.
Answer(state) ==
  /\ requests' = Tail(requests) /\ waiting' = waiting \ {Current.client}
  /\ IF Current.client = Watcher
       THEN /\ view' = [view EXCEPT ![Current.sink] = state]
            /\ unread' = unread \ {Current.sink}
       ELSE UNCHANGED watcher

NoCall == served' = FALSE /\ snapshot' = Nothing

-----------------------------------------------------------------------------
(* worker_loop. *)

\* Mutant: a new connection is no news.
MutantConnect ==
  /\ pc = "off" /\ up
  /\ link' = "up" /\ events' = {} /\ pc' = "pump"
  /\ UNCHANGED <<world, pumping, call, cache, requests, waiting, notified, watcher, history>>

Connect ==
  /\ pc = "off" /\ up
  /\ link' = "up" /\ events' = {} /\ notified' = TRUE /\ pc' = "pump"
  /\ UNCHANGED <<world, pumping, call, cache, requests, waiting, watcher, history>>

\* Mutant: requests wait for the connection.
MutantReject ==
  /\ pc = "off" /\ requests # <<>> /\ up
  /\ Answer(Absent)
  /\ UNCHANGED <<world, link, events, pc, pumping, call, cache, notified, history>>

Reject ==
  /\ pc = "off" /\ requests # <<>>
  /\ Answer(Absent)
  /\ UNCHANGED <<world, link, events, pc, pumping, call, cache, notified, history>>

\* Mutant: what the cache holds survives the connection.
MutantDisconnect ==
  /\ pc \in {"pump", "check"} /\ link = "broken"
  /\ link' = "none" /\ notified' = TRUE /\ pc' = "off" /\ events' = {}
  /\ foreign' = {} /\ missed' = FALSE
  /\ UNCHANGED <<world, pumping, call, cache, requests, waiting, watcher, acked, count>>

\* The loss is noticed when a pump iterates, or after a request.
Disconnect ==
  /\ pc \in {"pump", "check"} /\ link = "broken"
  /\ cache' = Nothing /\ link' = "none" /\ notified' = TRUE /\ pc' = "off" /\ events' = {}
  /\ foreign' = {} /\ missed' = FALSE
  /\ UNCHANGED <<world, pumping, call, requests, waiting, watcher, acked, count>>

PumpNothing ==
  /\ pc = "pump" /\ link = "up" /\ pc' = "recv"
  /\ UNCHANGED <<world, link, events, pumping, call, cache, requests, waiting, notified, watcher,
                 history>>

\* The events that have arrived are handled; others wait for the next pump.
Drain ==
  /\ pc = "pump" /\ link = "up"
  /\ \E D \in (SUBSET events) \ {{}} : drained' = D /\ events' = events \ D
  /\ pc' = "process"
  /\ UNCHANGED <<world, link, refreshing, call, cache, requests, waiting, notified, watcher,
                 history>>

Process ==
  /\ pc = "process"
  /\ \E e \in drained :
       /\ drained' = drained \ {e}
       /\ CASE e.kind = "removed" ->
                 /\ cache' = [s \in Sinks |-> IF cache[s].index = e.index THEN Absent
                                              ELSE cache[s]]
                 /\ UNCHANGED <<pc, refreshing, call>>
            [] e.kind = "changed" ->
                 Ask("refresh") /\ refreshing' = e.index /\ UNCHANGED cache
            [] OTHER -> UNCHANGED <<pc, refreshing, call, cache>>
  /\ UNCHANGED <<world, link, events, requests, waiting, notified, watcher, history>>

\* query_sink_by_index
Refreshed ==
  /\ pc = "refresh" /\ served /\ Learn
  /\ refreshing' = 0 /\ pc' = "process" /\ NoCall
  /\ UNCHANGED <<world, link, events, drained, requests, waiting, notified, watcher, acked,
                 missed, count>>

\* The error is logged, and the event done with.
RefreshFails ==
  /\ pc = "refresh"
  /\ refreshing' = 0 /\ pc' = "process" /\ NoCall
  /\ missed' = (missed \/ link = "up")
  /\ UNCHANGED <<world, link, events, drained, cache, requests, waiting, notified, watcher,
                 acked, foreign, count>>

\* Mutant: what arrived during the pump is thrown away with what it handled.
MutantPumped ==
  /\ pc = "process" /\ drained = {}
  /\ events' = {} /\ notified' = TRUE /\ pc' = "recv"
  /\ UNCHANGED <<world, link, pumping, call, cache, requests, waiting, watcher, history>>

Pumped ==
  /\ pc = "process" /\ drained = {}
  /\ notified' = TRUE /\ pc' = "recv"
  /\ UNCHANGED <<world, link, events, pumping, call, cache, requests, waiting, watcher, history>>

Idle ==
  /\ pc = "recv" /\ requests = <<>> /\ pc' = "pump"
  /\ UNCHANGED <<world, link, events, pumping, call, cache, requests, waiting, notified, watcher,
                 history>>

-----------------------------------------------------------------------------
(* handle: the request at the head of the channel. *)

\* What is known of a sink answers a read, and a mute that is as wanted.
Settled(r, state) == r.kind = "get" \/ (r.kind = "mute" /\ Holds(r, state))

TakeCached ==
  /\ pc = "recv" /\ requests # <<>> /\ Current.kind # "list" /\ cache[Current.sink].index # 0
  /\ IF Settled(Current, cache[Current.sink])
       THEN /\ Answer(cache[Current.sink]) /\ Acknowledge(Current, foreign)
            /\ pc' = "check" /\ UNCHANGED call
       ELSE Ask("set") /\ UNCHANGED <<requests, waiting, watcher, acked>>
  /\ UNCHANGED <<world, link, events, pumping, cache, notified, foreign, missed, count>>

TakeUncached ==
  /\ pc = "recv" /\ requests # <<>>
  /\ IF Current.kind = "list" THEN Ask("list")
     ELSE cache[Current.sink].index = 0 /\ Ask("query")
  /\ UNCHANGED <<world, link, events, pumping, cache, requests, waiting, notified, watcher,
                 history>>

\* query_sink_by_name and list_sinks
Queried ==
  /\ pc \in {"query", "list"} /\ served /\ Learn
  /\ LET r == Current  state == snapshot[r.sink] IN
       IF pc = "list" \/ state.index = 0 \/ Settled(r, state)
         THEN /\ Answer(state) /\ pc' = "check" /\ NoCall
              /\ IF state.index = 0 THEN UNCHANGED acked ELSE Acknowledge(r, foreign')
         ELSE Ask("set") /\ UNCHANGED <<requests, waiting, watcher, acked>>
  /\ UNCHANGED <<world, link, events, pumping, notified, missed, count>>

\* Mutant: the cache learns of the change from its event.
MutantSet ==
  /\ pc = "set" /\ served
  /\ IF snapshot[Current.sink].index = 0 THEN UNCHANGED acked ELSE Acknowledge(Current, foreign)
  /\ Answer(Absent) /\ pc' = "check" /\ NoCall
  /\ UNCHANGED <<world, link, events, pumping, cache, notified, foreign, missed, count>>

\* The cached state with the new value is put back, or the server refused.
Set ==
  /\ pc = "set" /\ served
  /\ IF snapshot[Current.sink].index = 0 THEN UNCHANGED <<cache, acked>>
     ELSE /\ cache' = [cache EXCEPT ![Current.sink] = After(Current, @)]
          /\ Acknowledge(Current, foreign)
  /\ Answer(Absent) /\ pc' = "check" /\ NoCall
  /\ UNCHANGED <<world, link, events, pumping, notified, foreign, missed, count>>

\* Two seconds have passed, or the connection broke.
CallFails ==
  /\ pc \in Handling /\ Answer(Absent)
  /\ late' = IF pc = "set" /\ link = "up" /\ ~served THEN late \cup {Current} ELSE late
  /\ IF pc = "set" THEN Behind(Current.sink) ELSE UNCHANGED <<acked, foreign>>
  /\ missed' = (missed \/ (link = "up" /\ Current.client = Watcher))
  /\ pc' = "check" /\ NoCall
  /\ UNCHANGED <<up, server, next, link, events, pumping, cache, notified, count>>

Healthy ==
  /\ pc = "check" /\ link = "up" /\ pc' = "pump"
  /\ UNCHANGED <<world, link, events, pumping, call, cache, requests, waiting, notified, watcher,
                 history>>

-----------------------------------------------------------------------------
(* The tasks of the daemon. *)

Send(r) ==
  requests' = Append(requests, r) /\ waiting' = waiting \cup {r.client}

\* A read that finds the sink in the cache is answered there, without the worker.
CallerAsks ==
  /\ Event
  /\ \E r \in Request :
       /\ r.client \in Callers \ waiting
       /\ r.kind # "get" \/ cache[r.sink].index = 0
       /\ Send(r)
  /\ UNCHANGED <<world, link, events, pc, pumping, call, cache, notified, watcher, acked, foreign,
                 missed>>

Wakes ==
  /\ notified /\ unread = {} /\ notified' = FALSE /\ unread' = Sinks
  /\ UNCHANGED <<world, link, events, pc, pumping, call, cache, requests, waiting, view, history>>

ReadsCache ==
  /\ Watcher \notin waiting
  /\ \E s \in unread :
       /\ cache[s].index # 0
       /\ view' = [view EXCEPT ![s] = cache[s]] /\ unread' = unread \ {s}
  /\ UNCHANGED <<world, link, events, pc, pumping, call, cache, requests, waiting, notified,
                 history>>

WatcherAsks ==
  /\ Watcher \notin waiting
  /\ \E s \in unread :
       /\ cache[s].index = 0
       /\ Send([client |-> Watcher, kind |-> "get", sink |-> s,
                volume |-> Absent.volume, muted |-> FALSE])
  /\ UNCHANGED <<world, link, events, pc, pumping, call, cache, notified, watcher, history>>

-----------------------------------------------------------------------------
Worker ==
  \/ Connect \/ Reject \/ Disconnect \/ PumpNothing \/ Drain \/ Process \/ Refreshed
  \/ RefreshFails \/ Pumped \/ Idle \/ TakeCached \/ TakeUncached \/ Queried \/ Set
  \/ CallFails \/ Healthy

Watches == Wakes \/ ReadsCache \/ WatcherAsks

World ==
  \/ SinkAppears \/ SinkGoes \/ Meddle \/ StreamEvent \/ ServerDies \/ ServerStarts
  \/ ConnectionBreaks \/ ServeLate

Next == Worker \/ Serve \/ ServeSet \/ Watches \/ CallerAsks \/ World

Spec == Init /\ [][Next]_vars

\* The thread loops and gives calls up after two seconds; an event that was sent
\* arrives in some turn of its loop; tokio wakes the watcher.
Fairness == WF_vars(Worker) /\ SF_vars(Drain) /\ WF_vars(Watches)

FairSpec == Spec /\ Fairness

-----------------------------------------------------------------------------
Places == {"off", "pump", "process", "refresh", "recv", "query", "list", "set", "check"}
Known == [Sinks -> SinkState \cup {Absent}]

\* Types; no connection goes with an empty cache, and the one request a client
\* has in the channel is the one it waits for.
TypeOK ==
  /\ up \in BOOLEAN /\ server \in Known /\ next \in 1..MaxIndex + 1
  /\ late \in SUBSET Request /\ link \in {"none", "up", "broken"}
  /\ events \in SUBSET PulseEvent /\ drained \in SUBSET PulseEvent /\ pc \in Places
  /\ refreshing \in 0..MaxIndex /\ served \in BOOLEAN /\ snapshot \in Known
  /\ cache \in Known /\ requests \in Seq(Request) /\ waiting \in SUBSET Clients
  /\ notified \in BOOLEAN /\ unread \in SUBSET Sinks /\ view \in Known
  /\ acked \in SUBSET Request /\ foreign \in SUBSET Sinks /\ missed \in BOOLEAN
  /\ count \in 0..MaxEvents
  /\ link = "none" <=> pc = "off"
  /\ link = "none" => cache = Nothing
  /\ pc \in Handling => requests # <<>>

\* Event e is on its way or being handled.
Ahead(e) == e \in events \cup drained

\* The event that will correct a cached state is on its way.
Announced(s, state) ==
  IF server[s].index = state.index
    THEN Ahead(Changed(state.index)) \/ refreshing = state.index
    ELSE Ahead(Removed(state.index))

\* A cached sink is as it is on the server, or the worker is about to hear that
\* it is not, unless the refresh that an event asked for was given up.
StaleIsAnnounced ==
  link = "up" /\ ~missed =>
    \A s \in Sinks : cache[s].index # 0 => cache[s] = server[s] \/ Announced(s, cache[s])

\* A volume or mute that was answered Ok is what the server has, until somebody
\* else changes it; if the cache was behind at that time, no more is promised.
AcknowledgedHolds == \A r \in acked : up => Holds(r, server[r.sink])

\* Who was answered Ok reads the same from the cache, until somebody else
\* changes it.
ReadYourWrites == \A r \in acked : cache[r.sink].index # 0 => Holds(r, cache[r.sink])

\* A task that sleeps on the changes counter alone sees the sinks as they are
\* at last, unless a call was given up.
WatcherCatchesUp == <>[]~missed => <>[](view = server)

\* Every request is answered, whether there is a server or not.
EveryRequestAnswered == \A c \in Clients : c \in waiting ~> c \notin waiting
=============================================================================
