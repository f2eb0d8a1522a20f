---------------------------- MODULE PulseCacheProofs ----------------------------
(* What the worker's cache may hold, for any number of sinks, volumes, tasks   *)
(* and events.                                                                 *)
EXTENDS PulseCache, TLAPS

USE DEF world, call, pumping, watcher, history

LEMMA AbsentIs ==
  /\ Absent.index = 0 /\ Absent.muted = FALSE /\ Absent.volume \in Volumes
  /\ Absent = [index |-> 0, volume |-> Absent.volume, muted |-> FALSE]
<1>1. (CHOOSE v \in Volumes : TRUE) \in Volumes
  BY PulseAssumption, Zenon
<1> QED BY <1>1 DEF Absent

\* Setting a present sink's volume or mute leaves it a present sink.
LEMMA AfterIs ==
  ASSUME NEW r \in Request, NEW state \in SinkState
  PROVE  /\ After(r, state) \in SinkState
         /\ After(r, state).index = state.index
         /\ After(r, After(r, state)) = After(r, state)
<1>1. r.volume \in Volumes /\ r.muted \in BOOLEAN
  BY AbsentIs DEF Request
<1> QED BY <1>1 DEF After, SinkState

\* Whether a change holds is a matter of the field it is about.
LEMMA HoldsIs ==
  ASSUME NEW r \in Request, NEW state \in SinkState
  PROVE  /\ Holds(r, state) <=> IF r.kind = "volume" THEN state.volume = r.volume
                                                    ELSE state.muted = r.muted
         /\ After(r, state).volume = IF r.kind = "volume" THEN r.volume ELSE state.volume
         /\ After(r, state).muted = IF r.kind = "volume" THEN state.muted ELSE r.muted
<1>1. state.index # 0
  BY DEF SinkState
<1>2. /\ After(r, state).volume = IF r.kind = "volume" THEN r.volume ELSE state.volume
      /\ After(r, state).muted = IF r.kind = "volume" THEN state.muted ELSE r.muted
  BY DEF After, SinkState
<1>3. [state EXCEPT !.volume = state.volume] = state /\ [state EXCEPT !.muted = state.muted] = state
  BY DEF SinkState
<1>4. After(r, state) = state => IF r.kind = "volume" THEN state.volume = r.volume
                                                       ELSE state.muted = r.muted
  BY <1>2
<1>5. CASE r.kind = "volume"
  <2>1. After(r, state) = [state EXCEPT !.volume = r.volume]
    BY <1>5 DEF After
  <2>2. state.volume = r.volume => After(r, state) = state
    BY <1>3, <2>1
  <2> QED BY <1>1, <1>2, <1>4, <1>5, <2>2 DEF Holds
<1>6. CASE r.kind # "volume"
  <2>1. After(r, state) = [state EXCEPT !.muted = r.muted]
    BY <1>6 DEF After
  <2>2. state.muted = r.muted => After(r, state) = state
    BY <1>3, <2>1
  <2> QED BY <1>1, <1>2, <1>4, <1>6, <2>2 DEF Holds
<1> QED BY <1>5, <1>6

LEMMA PresentIs ==
  ASSUME NEW state \in SinkState \cup {Absent}
  PROVE  /\ state.index \in 0..MaxIndex
         /\ state.index # 0 <=> state \in SinkState
         /\ state.index = 0 => state = Absent
BY AbsentIs, PulseAssumption DEF SinkState

LEMMA NothingIs == Nothing \in Known /\ \A s \in Sinks : Nothing[s] = Absent /\ Nothing[s].index = 0
BY AbsentIs DEF Nothing, Known

\* A mute or volume is only set on a sink that is in the cache.
BusyInv == pc = "set" => cache[Current.sink].index # 0

TInv == TypeOK /\ BusyInv

LEMMA HeadOf ==
  ASSUME TypeOK, requests # <<>>
  PROVE  /\ Current \in Request /\ Current.client \in Clients /\ Current.sink \in Sinks
         /\ Current.volume \in Volumes /\ Current.muted \in BOOLEAN
         /\ Tail(requests) \in Seq(Request)
<1>1. Current \in Request /\ Tail(requests) \in Seq(Request)
  BY DEF TypeOK, Current
<1> QED BY <1>1, AbsentIs DEF Request

LEMMA SendKeeps ==
  ASSUME TypeOK, NEW r \in Request, Send(r)
  PROVE  /\ requests' \in Seq(Request) /\ requests' # <<>> /\ waiting' \in SUBSET Clients
         /\ requests # <<>> => Current' = Current
<1>1. r.client \in Clients
  BY DEF Request
<1> QED BY <1>1 DEF Send, TypeOK, Current

LEMMA TasksSend ==
  ASSUME TypeOK, WatcherAsks \/ CallerAsks
  PROVE  \E r \in Request : Send(r)
<1>1. CASE WatcherAsks
  <2>1. PICK s \in Sinks : Send([client |-> Watcher, kind |-> "get", sink |-> s,
                                 volume |-> Absent.volume, muted |-> FALSE])
    BY <1>1 DEF WatcherAsks, TypeOK
  <2>2. [client |-> Watcher, kind |-> "get", sink |-> s, volume |-> Absent.volume, muted |-> FALSE]
          \in Request
    BY DEF Request, Clients
  <2> QED BY <2>1, <2>2
<1>2. CASE CallerAsks
  BY <1>2 DEF CallerAsks
<1> QED BY <1>1, <1>2

LEMMA AnswerKeeps ==
  ASSUME TypeOK, requests # <<>>, NEW state \in SinkState \cup {Absent}, Answer(state)
  PROVE  /\ requests' \in Seq(Request) /\ waiting' \in SUBSET Clients
         /\ view' \in Known /\ unread' \in SUBSET Sinks
BY HeadOf DEF Answer, TypeOK, Known

LEMMA AcknowledgeKeeps ==
  ASSUME TypeOK, NEW r \in Request, NEW behind, Acknowledge(r, behind)
  PROVE  acked' \in SUBSET Request
BY DEF Acknowledge, TypeOK

LEMMA LearnKeeps ==
  ASSUME TypeOK, Learn
  PROVE  /\ cache' \in Known /\ foreign' \in SUBSET Sinks
         /\ \A s \in Sinks : cache'[s] = IF snapshot[s].index # 0 THEN snapshot[s] ELSE cache[s]
BY DEF Learn, Found, TypeOK, Known

LEMMA WorldTyped ==
  ASSUME TInv, World
  PROVE  TInv'
<1> USE PulseAssumption DEF TInv, TypeOK, BusyInv, Known, Current, PulseEvent, Behind, Event, Tell,
                          Changed, Removed, Topology, Breaks
<1>1. CASE SinkAppears
  BY <1>1, NothingIs DEF SinkAppears, SinkState
<1>2. CASE SinkGoes
  BY <1>2, PresentIs DEF SinkGoes, SinkState
<1>3. CASE Meddle
  <2>1. PICK s \in Sinks, v \in Volumes, m \in BOOLEAN :
          /\ server[s].index # 0
          /\ server' = [server EXCEPT ![s] = [index |-> server[s].index, volume |-> v, muted |-> m]]
          /\ Behind(s) /\ Tell(Changed(server[s].index))
    BY <1>3 DEF Meddle
  <2>2. server[s] \in SinkState
    BY <2>1, PresentIs
  <2>3. [index |-> server[s].index, volume |-> v, muted |-> m] \in SinkState
    BY <2>2 DEF SinkState
  <2>4. server' \in Known
    BY <2>1, <2>3
  <2>5. Changed(server[s].index) \in PulseEvent
    BY <2>2 DEF SinkState
  <2> QED BY <1>3, <2>1, <2>4, <2>5 DEF Meddle
<1>4. CASE StreamEvent
  BY <1>4 DEF StreamEvent
<1>5. CASE ServerDies
  <2>1. /\ server' \in Known /\ next' \in 1..MaxIndex + 1 /\ link' \in {"none", "up", "broken"}
        /\ events' \in SUBSET PulseEvent /\ count' \in 0..MaxEvents
        /\ link' = "none" <=> link = "none"
    BY <1>5, NothingIs DEF ServerDies
  <2>2. UNCHANGED <<pc, drained, refreshing, served, snapshot, cache, requests, waiting, notified,
                    unread, view, missed>> /\ up' = FALSE /\ late' = {} /\ acked' = {} /\ foreign' = Sinks
    BY <1>5 DEF ServerDies
  <2> QED BY <2>1, <2>2
<1>6. CASE ServerStarts
  BY <1>6 DEF ServerStarts
<1>7. CASE ConnectionBreaks
  BY <1>7 DEF ConnectionBreaks
<1>8. CASE ServeLate
  <2>1. PICK r \in late :
          /\ late' = late \ {r} /\ Behind(r.sink)
          /\ \/ UNCHANGED <<server, events>>
             \/ /\ server[r.sink].index # 0
                /\ server' = [server EXCEPT ![r.sink] = After(r, @)]
                /\ Tell(Changed(server[r.sink].index))
    BY <1>8 DEF ServeLate
  <2>2. r \in Request /\ r.sink \in Sinks
    BY <2>1 DEF Request
  <2>3. server' \in Known
    BY <2>1, <2>2, PresentIs, AfterIs
  <2>4. events' \in SUBSET PulseEvent
    BY <2>1, <2>2, PresentIs DEF SinkState
  <2> QED BY <1>8, <2>1, <2>2, <2>3, <2>4 DEF ServeLate
<1> QED BY <1>1, <1>2, <1>3, <1>4, <1>5, <1>6, <1>7, <1>8 DEF World

\* What the steps of a pump and the answers change.
LEMMA WorkerTyped ==
  ASSUME TInv, Worker
  PROVE  TInv'
<1> USE PulseAssumption DEF TInv, TypeOK, BusyInv, Known, Places, Handling, Asking
<1>1. CASE Connect
  BY <1>1, NothingIs DEF Connect, Current
<1>2. CASE Reject
  BY <1>2, HeadOf, AbsentIs DEF Reject, Answer
<1>3. CASE Disconnect
  BY <1>3, NothingIs DEF Disconnect, Current
<1>4. CASE PumpNothing
  BY <1>4 DEF PumpNothing
<1>5. CASE Drain
  BY <1>5 DEF Drain
<1>6. CASE Process
  <2>1. PICK e \in drained :
          /\ drained' = drained \ {e}
          /\ \/ /\ cache' = [s \in Sinks |-> IF cache[s].index = e.index THEN Absent ELSE cache[s]]
                /\ UNCHANGED <<pc, refreshing, served, snapshot>>
             \/ /\ e.kind = "changed" /\ Ask("refresh") /\ refreshing' = e.index /\ UNCHANGED cache
             \/ UNCHANGED <<pc, refreshing, served, snapshot, cache>>
    BY <1>6, Zenon DEF Process
  <2>2. e \in PulseEvent /\ e.index \in 0..MaxIndex
    BY <2>1 DEF PulseEvent
  <2>3. /\ cache' \in Known /\ pc' \in {"process", "refresh"} /\ refreshing' \in 0..MaxIndex
        /\ served' \in BOOLEAN /\ snapshot' \in Known
    BY <1>6, <2>1, <2>2, NothingIs DEF Ask, Process
  <2>4. /\ UNCHANGED <<up, server, next, late, link, events, requests, waiting, notified, unread, view,
                       acked, foreign, missed, count>>
        /\ pc = "process"
    BY <1>6 DEF Process
  <2> QED BY <2>1, <2>3, <2>4
<1>7. CASE Refreshed
  <2>1. cache' \in Known /\ foreign' \in SUBSET Sinks
    BY <1>7, LearnKeeps DEF Refreshed
  <2>2. refreshing' = 0 /\ served' = FALSE /\ snapshot' = Nothing /\ pc' = "process" /\ pc = "refresh"
    BY <1>7, Zenon DEF Refreshed, NoCall
  <2>4. refreshing' \in 0..MaxIndex
    BY <2>2
  <2>5. served' \in BOOLEAN
    BY <2>2
  <2>6. snapshot' \in Known
    BY <2>2, NothingIs
  <2>3. UNCHANGED <<world, link, events, drained, requests, waiting, notified, watcher, acked, missed, count>>
    BY <1>7 DEF Refreshed
  <2> QED BY <2>1, <2>2, <2>3, <2>4, <2>5, <2>6
<1>8. CASE RefreshFails
  <2>1. missed' \in BOOLEAN
    BY <1>8, Zenon DEF RefreshFails
  <2>2. refreshing' = 0 /\ served' = FALSE /\ snapshot' = Nothing /\ pc' = "process" /\ pc = "refresh"
    BY <1>8, Zenon DEF RefreshFails, NoCall
  <2>4. refreshing' \in 0..MaxIndex
    BY <2>2
  <2>5. served' \in BOOLEAN
    BY <2>2
  <2>6. snapshot' \in Known
    BY <2>2, NothingIs
  <2>3. UNCHANGED <<world, link, events, drained, cache, requests, waiting, notified, watcher, acked,
                    foreign, count>>
    BY <1>8 DEF RefreshFails
  <2> QED BY <2>1, <2>2, <2>3, <2>4, <2>5, <2>6
<1>9. CASE Pumped
  BY <1>9 DEF Pumped
<1>10. CASE Idle
  BY <1>10 DEF Idle
<1>11. CASE TakeCached
  <2>1. requests # <<>> /\ cache[Current.sink] \in SinkState \cup {Absent} /\ Current \in Request
    BY <1>11, HeadOf DEF TakeCached
  <2>2. /\ requests' \in Seq(Request) /\ waiting' \in SUBSET Clients
        /\ view' \in Known /\ unread' \in SUBSET Sinks /\ acked' \in SUBSET Request
    BY <1>11, <2>1, AnswerKeeps, AcknowledgeKeeps DEF TakeCached
  <2>3. /\ served' \in BOOLEAN /\ snapshot' \in Known
        /\ pc' = "check" \/ (pc' = "set" /\ requests' = requests /\ cache[Current.sink].index # 0)
    BY <1>11, NothingIs DEF TakeCached, Ask
  <2> QED BY <1>11, <2>1, <2>2, <2>3 DEF TakeCached, Current
<1>12. CASE TakeUncached
  BY <1>12, HeadOf, NothingIs DEF TakeUncached, Ask
<1>13. CASE Queried
  <2>1. /\ requests # <<>> /\ snapshot[Current.sink] \in SinkState \cup {Absent}
        /\ Current \in Request /\ Current.sink \in Sinks /\ Learn
    BY <1>13, HeadOf DEF Queried
  <2>2. /\ requests' \in Seq(Request) /\ waiting' \in SUBSET Clients
        /\ view' \in Known /\ unread' \in SUBSET Sinks /\ acked' \in SUBSET Request
    BY <1>13, <2>1, AnswerKeeps, AcknowledgeKeeps DEF Queried
  <2>3. /\ served' \in BOOLEAN /\ snapshot' \in Known
        /\ \/ pc' = "check"
           \/ pc' = "set" /\ requests' = requests /\ snapshot[Current.sink].index # 0
    BY <1>13, NothingIs DEF Queried, Ask, NoCall
  <2>4. /\ cache' \in Known /\ foreign' \in SUBSET Sinks
        /\ snapshot[Current.sink].index # 0 => cache'[Current.sink].index # 0
    BY <2>1, LearnKeeps
  <2> QED BY <1>13, <2>1, <2>2, <2>3, <2>4 DEF Queried, Current
<1>14. CASE Set
  <2>1. /\ requests # <<>> /\ Current \in Request /\ Current.sink \in Sinks
        /\ cache[Current.sink] \in SinkState
    BY <1>14, HeadOf, PresentIs DEF Set
  <2>2. /\ requests' \in Seq(Request) /\ waiting' \in SUBSET Clients
        /\ view' \in Known /\ unread' \in SUBSET Sinks /\ acked' \in SUBSET Request
    BY <1>14, <2>1, AnswerKeeps, AcknowledgeKeeps DEF Set
  <2>3. cache' \in Known
    BY <1>14, <2>1, AfterIs DEF Set
  <2> QED BY <1>14, <2>1, <2>2, <2>3, NothingIs DEF Set, NoCall
<1>15. CASE CallFails
  <2>1. requests # <<>> /\ Current \in Request /\ Current.sink \in Sinks
    BY <1>15, HeadOf DEF CallFails
  <2>2. /\ requests' \in Seq(Request) /\ waiting' \in SUBSET Clients
        /\ view' \in Known /\ unread' \in SUBSET Sinks
    BY <1>15, <2>1, AnswerKeeps DEF CallFails
  <2>3. missed' \in BOOLEAN
    BY <1>15, Zenon DEF CallFails
  <2>4. late' \in SUBSET Request /\ acked' \in SUBSET Request /\ foreign' \in SUBSET Sinks
    BY <1>15, <2>1 DEF CallFails, Behind
  <2> QED BY <1>15, <2>2, <2>3, <2>4, NothingIs DEF CallFails, NoCall
<1>16. CASE Healthy
  BY <1>16 DEF Healthy
<1> QED BY <1>1, <1>2, <1>3, <1>4, <1>5, <1>6, <1>7, <1>8, <1>9, <1>10, <1>11, <1>12, <1>13,
           <1>14, <1>15, <1>16 DEF Worker

LEMMA TasksTyped ==
  ASSUME TInv, Watches \/ CallerAsks \/ Serve \/ ServeSet
  PROVE  TInv'
<1> USE PulseAssumption DEF TInv, TypeOK, BusyInv, Known, Current
<1>1. CASE Wakes
  BY <1>1 DEF Wakes
<1>2. CASE ReadsCache
  BY <1>2 DEF ReadsCache
<1>3. CASE WatcherAsks
  <2>1. PICK r \in Request : Send(r)
    BY <1>3, TasksSend
  <2> QED BY <1>3, <2>1, SendKeeps DEF WatcherAsks, Handling
<1>4. CASE CallerAsks
  <2>1. PICK r \in Request : Send(r)
    BY <1>4, TasksSend
  <2>2. count' \in 0..MaxEvents
    BY <1>4 DEF CallerAsks, Event
  <2> QED BY <1>4, <2>1, <2>2, SendKeeps DEF CallerAsks, Handling
<1>5. CASE Serve
  BY <1>5, AbsentIs DEF Serve
<1>6. CASE ServeSet
  <2>1. Current \in Request /\ Current.sink \in Sinks /\ server[Current.sink] \in SinkState \cup {Absent}
    BY <1>6, HeadOf DEF ServeSet, Handling
  <2>2. server' \in Known /\ events' \in SUBSET PulseEvent
    BY <1>6, <2>1, PresentIs, AfterIs DEF ServeSet, Tell, Changed, PulseEvent, SinkState
  <2>3. snapshot' \in Known
    BY <1>6, <2>1, NothingIs DEF ServeSet
  <2>4. acked' \in SUBSET Request
    BY <1>6 DEF ServeSet
  <2> QED BY <1>6, <2>2, <2>3, <2>4 DEF ServeSet, Handling
<1> QED BY <1>1, <1>2, <1>3, <1>4, <1>5, <1>6 DEF Watches

LEMMA InitTyped == Init => TInv
<1> SUFFICES ASSUME Init  PROVE TInv
  OBVIOUS
<1>1. refreshing \in 0..MaxIndex /\ count \in 0..MaxEvents
  BY PulseAssumption DEF Init
<1>2. /\ snapshot \in Known /\ cache \in Known /\ view \in Known /\ server \in Known
      /\ next \in 1..MaxIndex + 1 /\ up \in BOOLEAN
  BY NothingIs DEF Init, Known
<1>3. /\ late = {} /\ link = "none" /\ events = {} /\ pc = "off" /\ drained = {} /\ served = FALSE
      /\ cache = Nothing /\ requests = <<>> /\ waiting = {} /\ notified = FALSE /\ unread = Sinks
      /\ acked = {} /\ foreign = {} /\ missed = FALSE
  BY DEF Init
<1>4. requests \in Seq(Request)
  BY <1>3
<1>5. late \in SUBSET Request /\ events \in SUBSET PulseEvent /\ drained \in SUBSET PulseEvent
      /\ waiting \in SUBSET Clients /\ unread \in SUBSET Sinks /\ acked \in SUBSET Request
      /\ foreign \in SUBSET Sinks
  BY <1>3, Zenon
<1>6. served \in BOOLEAN /\ notified \in BOOLEAN /\ missed \in BOOLEAN
  BY <1>3
<1>7. link \in {"none", "up", "broken"} /\ pc \in Places /\ pc \notin Handling /\ pc # "set"
  BY <1>3 DEF Places, Handling
<1> QED BY <1>1, <1>2, <1>3, <1>4, <1>5, <1>6, <1>7 DEF TInv, TypeOK, BusyInv

LEMMA Typed == TInv /\ [Next]_vars => TInv'
<1> SUFFICES ASSUME TInv, [Next]_vars  PROVE TInv'
  OBVIOUS
<1>1. CASE UNCHANGED vars
  BY <1>1 DEF vars, TInv, TypeOK, BusyInv, Current
<1> QED BY <1>1, WorldTyped, WorkerTyped, TasksTyped DEF Next

\* Types, for any number of sinks, volumes, tasks and events; a mute or volume
\* is only carried out for a sink that is in the cache (current_or_query).
THEOREM TypeCorrect == Spec => []TypeOK
BY InitTyped, Typed, PTL DEF Spec, TInv

-----------------------------------------------------------------------------
(* What is acknowledged. *)

Carried(s) == pc = "set" /\ served /\ Current.sink = s

\* A cached sink that nobody else changed is as the server has it, but for the
\* change the server has just carried out.
FreshInv ==
  \A s \in Sinks \ foreign :
    cache[s].index # 0 =>
      IF Carried(s)
        THEN snapshot[s].index # 0 /\ server[s] = After(Current, cache[s])
        ELSE server[s] = cache[s]

\* So is what a query found.
AnswerInv ==
  \A s \in Sinks \ foreign :
    pc \in {"refresh", "query", "list"} /\ served /\ snapshot[s].index # 0
      => snapshot[s] = server[s]

\* What was acknowledged is about sinks nobody else changed.
AckedInv ==
  \A r \in acked :
    /\ r.kind \in {"volume", "mute"} /\ r.sink \notin foreign /\ Holds(r, server[r.sink])
    /\ Carried(r.sink) => Current.kind # r.kind

\* Without a server nothing is acknowledged, nor the cache relied on.
DownInv == ~up => acked = {} /\ server = Nothing /\ (link = "none" \/ foreign = Sinks)

\* What the worker is at is what was asked.
KindInv ==
  /\ pc = "query" => Current.kind # "list"
  /\ pc = "list" => Current.kind = "list"
  /\ pc = "set" => Current.kind \in {"volume", "mute"}

KInv == TInv /\ FreshInv /\ AnswerInv /\ AckedInv /\ DownInv /\ KindInv

\* Tasks send to the end of the channel.
LEMMA TasksWait ==
  ASSUME TInv, Watches \/ CallerAsks
  PROVE  pc \in Handling => Current' = Current
<1>1. CASE Wakes \/ ReadsCache
  BY <1>1 DEF Wakes, ReadsCache, Current
<1>2. CASE WatcherAsks \/ CallerAsks
  <2>1. PICK r \in Request : Send(r)
    BY <1>2, TasksSend DEF TInv
  <2> QED BY <2>1, SendKeeps DEF TInv, TypeOK
<1> QED BY <1>1, <1>2 DEF Watches

LEMMA KindIs == TInv /\ KindInv /\ [Next]_vars => KindInv'
<1> SUFFICES ASSUME TInv, KindInv, [Next]_vars  PROVE KindInv'
  OBVIOUS
<1> USE DEF KindInv, Handling
<1>1. CASE UNCHANGED vars
  BY <1>1 DEF vars, Current
<1>2. CASE World
  BY <1>2 DEF World, SinkAppears, SinkGoes, Meddle, StreamEvent, ServerDies, ServerStarts,
              ConnectionBreaks, ServeLate, Current
<1>3. CASE Watches \/ CallerAsks
  <2>1. pc \in Handling => Current' = Current
    BY <1>3, TasksWait
  <2>2. pc' = pc
    BY <1>3 DEF Watches, Wakes, ReadsCache, WatcherAsks, CallerAsks
  <2> QED BY <2>1, <2>2
<1>4. CASE Serve \/ ServeSet
  BY <1>4 DEF Serve, ServeSet, Current
<1>5. CASE TakeCached
  <2>1. Current.kind \in {"get", "list", "volume", "mute"}
    BY <1>5, HeadOf DEF TakeCached, TInv, Request
  <2> QED BY <1>5, <2>1 DEF TakeCached, Settled, Ask, Current
<1>6. CASE TakeUncached
  BY <1>6 DEF TakeUncached, Ask, Current
<1>7. CASE Queried
  <2>1. Current \in Request
    BY <1>7, HeadOf DEF Queried, TInv, TypeOK
  <2>2. Current.kind \in {"get", "list", "volume", "mute"}
    BY <2>1 DEF Request
  <2> QED BY <1>7, <2>2 DEF Queried, Settled, Ask, Current
<1>8. CASE \/ Connect \/ Reject \/ Disconnect \/ PumpNothing \/ Drain \/ Process \/ Refreshed
           \/ RefreshFails \/ Pumped \/ Idle \/ Set \/ CallFails \/ Healthy
  <2>1. pc' \notin Handling
    BY <1>8 DEF Connect, Reject, Disconnect, PumpNothing, Drain, Process, Refreshed, RefreshFails,
                Pumped, Idle, Set, CallFails, Healthy, Ask
  <2> QED BY <2>1
<1> QED BY <1>1, <1>2, <1>3, <1>4, <1>5, <1>6, <1>7, <1>8 DEF Next, Worker

\* Steps that concern neither a sink, nor the cache, nor the call at hand.
LEMMA QuietKeeps ==
  ASSUME KInv, TInv', KindInv', DownInv', UNCHANGED <<server, cache, foreign, acked>>,
         \/ /\ UNCHANGED <<pc, served, snapshot>>
            /\ pc = "set" => Current' = Current
         \/ /\ pc = "set" => ~served
            /\ pc' \notin Asking \/ served' = FALSE
  PROVE  KInv'
<1>1. CASE /\ UNCHANGED <<pc, served, snapshot>>
           /\ pc = "set" => Current' = Current
  <2>1. FreshInv'
    BY <1>1 DEF KInv, FreshInv, Carried, After
  <2>2. AnswerInv'
    BY <1>1 DEF KInv, AnswerInv
  <2>3. AckedInv'
    BY <1>1 DEF KInv, AckedInv, Carried, Holds, After
  <2> QED BY <2>1, <2>2, <2>3 DEF KInv
<1>2. CASE /\ pc = "set" => ~served
           /\ pc' \notin Asking \/ served' = FALSE
  <2>1. FreshInv'
    BY <1>2 DEF KInv, FreshInv, Carried, Asking
  <2>2. AnswerInv'
    BY <1>2 DEF AnswerInv, Asking
  <2>3. AckedInv'
    BY <1>2 DEF KInv, AckedInv, Carried, Holds, After, Asking
  <2> QED BY <2>1, <2>2, <2>3 DEF KInv
<1> QED BY <1>1, <1>2

\* Somebody else changes sink s.
LEMMA BehindKeeps ==
  ASSUME KInv, TInv', KindInv', NEW s \in Sinks, Behind(s), up \/ UNCHANGED server,
         \A t \in Sinks \ {s} : server'[t] = server[t],
         UNCHANGED <<up, link, pc, served, snapshot, cache, requests>>
  PROVE  KInv'
<1>1. foreign' = foreign \cup {s} /\ acked' = {r \in acked : r.sink # s}
  BY DEF Behind
<1>2. \A t \in Sinks : Carried(t)' = Carried(t)
  BY DEF Carried, Current
<1>3. FreshInv'
  BY <1>1, <1>2 DEF KInv, FreshInv, Current, After
<1>4. AnswerInv'
  BY <1>1 DEF KInv, AnswerInv
<1>5. AckedInv'
  <2> SUFFICES ASSUME NEW r \in acked'
               PROVE  /\ r.kind \in {"volume", "mute"} /\ r.sink \notin foreign'
                      /\ Holds(r, server'[r.sink])
                      /\ Carried(r.sink)' => Current'.kind # r.kind
    BY DEF AckedInv, Holds, After
  <2>1. r \in acked /\ r.sink # s /\ r.sink \in Sinks
    BY <1>1 DEF KInv, TInv, TypeOK, Request
  <2>2. server'[r.sink] = server[r.sink]
    BY <2>1
  <2> QED BY <1>1, <1>2, <2>1, <2>2 DEF KInv, AckedInv, Current
<1>6. DownInv'
  BY <1>1 DEF KInv, DownInv, TInv, TypeOK
<1> QED BY <1>3, <1>4, <1>5, <1>6 DEF KInv

LEMMA WorldKeeps ==
  ASSUME KInv, World, TInv', KindInv'
  PROVE  KInv'
<1> USE DEF KInv, TInv, TypeOK, Known
<1>1. CASE SinkAppears
  BY <1>1, BehindKeeps DEF SinkAppears
<1>2. CASE SinkGoes
  BY <1>2, BehindKeeps, NothingIs DEF SinkGoes, DownInv
<1>3. CASE Meddle
  BY <1>3, BehindKeeps, NothingIs DEF Meddle, DownInv
<1>4. CASE ServeLate
  <2>1. PICK r \in late :
          /\ Behind(r.sink)
          /\ \/ UNCHANGED server
             \/ server[r.sink].index # 0 /\ server' = [server EXCEPT ![r.sink] = After(r, @)]
    BY <1>4 DEF ServeLate
  <2>2. r.sink \in Sinks
    BY <2>1 DEF Request
  <2>3. up \/ UNCHANGED server
    BY <2>1, <2>2, NothingIs DEF DownInv
  <2>4. \A t \in Sinks \ {r.sink} : server'[t] = server[t]
    BY <2>1, <2>2
  <2> QED BY <1>4, <2>1, <2>2, <2>3, <2>4, BehindKeeps DEF ServeLate
<1>5. CASE StreamEvent
  BY <1>5, QuietKeeps DEF StreamEvent, DownInv, Current
<1>6. CASE ServerDies
  BY <1>6 DEF ServerDies, FreshInv, AnswerInv, AckedInv, DownInv
<1>7. CASE ServerStarts
  BY <1>7, QuietKeeps DEF ServerStarts, DownInv, Current
<1>8. CASE ConnectionBreaks
  BY <1>8, QuietKeeps DEF ConnectionBreaks, Breaks, DownInv, Current
<1> QED BY <1>1, <1>2, <1>3, <1>4, <1>5, <1>6, <1>7, <1>8 DEF World

LEMMA TasksKeep ==
  ASSUME KInv, Watches \/ CallerAsks, TInv', KindInv'
  PROVE  KInv'
<1>1. pc = "set" => Current' = Current
  BY TasksWait DEF KInv, Handling
<1>2. UNCHANGED <<up, link, pc, server, served, snapshot, cache, foreign, acked>>
  BY DEF Watches, Wakes, ReadsCache, WatcherAsks, CallerAsks
<1> QED BY <1>1, <1>2, QuietKeeps DEF KInv, DownInv

\* The server answers a query.
LEMMA ServeKeeps ==
  ASSUME KInv, Serve, TInv', KindInv'
  PROVE  KInv'
<1>1. /\ UNCHANGED <<up, link, pc, server, cache, foreign, acked>> /\ pc # "set"
      /\ snapshot' = [s \in Sinks |-> IF Wanted(s) THEN server[s] ELSE Absent]
  BY DEF Serve
<1>2. \A s \in Sinks : snapshot'[s].index # 0 => snapshot'[s] = server[s]
  BY <1>1, AbsentIs
<1> QED BY <1>1, <1>2 DEF KInv, FreshInv, AnswerInv, AckedInv, DownInv, Carried, Holds, After

\* The server carries a change out.
LEMMA ServeSetKeeps ==
  ASSUME KInv, ServeSet, TInv', KindInv'
  PROVE  KInv'
<1> DEFINE r == Current  old == server[r.sink]
<1>1. /\ r \in Request /\ r.sink \in Sinks /\ r.kind \in {"volume", "mute"} /\ requests # <<>>
      /\ old \in SinkState \cup {Absent} /\ cache[r.sink].index # 0
  BY HeadOf DEF ServeSet, KInv, TInv, TypeOK, Known, Handling, KindInv, BusyInv
<1>2. /\ UNCHANGED <<up, link, pc, cache, foreign, requests>> /\ pc = "set" /\ served' = TRUE /\ ~served
      /\ snapshot'[r.sink] = old
      /\ acked' = {q \in acked : q.sink # r.sink \/ q.kind # r.kind}
      /\ Current' = Current
  BY <1>1, NothingIs DEF ServeSet, Nothing, Current
<1>3. /\ old.index # 0 => server'[r.sink] = After(r, old)
      /\ old.index = 0 => UNCHANGED server
      /\ \A s \in Sinks \ {r.sink} : server'[s] = server[s]
  BY <1>1, <1>2 DEF ServeSet, KInv, TInv, TypeOK, Known, Holds
<1>4. FreshInv'
  <2> SUFFICES ASSUME NEW s \in Sinks, s \notin foreign, cache[s].index # 0
               PROVE  IF Current.sink = s
                        THEN snapshot'[s].index # 0 /\ server'[s] = After(Current, cache[s])
                        ELSE server'[s] = cache[s]
    BY <1>2 DEF FreshInv, Carried, After
  <2>1. server[s] = cache[s]
    BY <1>2 DEF KInv, FreshInv, Carried
  <2> QED BY <1>1, <1>2, <1>3, <2>1
<1>5. AnswerInv'
  BY <1>2 DEF AnswerInv
<1>6. AckedInv'
  <2> SUFFICES ASSUME NEW q \in acked'
               PROVE  /\ q.kind \in {"volume", "mute"} /\ q.sink \notin foreign'
                      /\ Holds(q, server'[q.sink])
                      /\ Carried(q.sink)' => Current'.kind # q.kind
    BY DEF AckedInv, Holds, After
  <2>1. /\ q \in acked /\ q.kind \in {"volume", "mute"} /\ q.sink \notin foreign /\ q.sink \in Sinks
        /\ Holds(q, server[q.sink]) /\ (q.sink = r.sink => q.kind # r.kind)
    BY <1>2 DEF KInv, AckedInv, TInv, TypeOK, Request
  <2>2. CASE q.sink # r.sink
    BY <1>2, <1>3, <2>1, <2>2 DEF Carried
  <2>3. CASE q.sink = r.sink
    <3>1. old \in SinkState /\ server'[q.sink] = After(r, old)
      BY <1>1, <1>3, <2>1, <2>3, PresentIs DEF Holds
    <3>2. Holds(q, After(r, old))
      <4>1. q \in Request /\ r \in Request /\ After(r, old) \in SinkState
        BY <1>1, <1>2, <3>1, AfterIs DEF KInv, TInv, TypeOK
      <4> QED BY <1>1, <2>1, <2>3, <3>1, <4>1, HoldsIs
    <3> QED BY <1>2, <2>1, <2>3, <3>1, <3>2
  <2> QED BY <2>2, <2>3
<1>7. DownInv'
  BY <1>1, <1>2, <1>3, NothingIs DEF DownInv, KInv
<1> QED BY <1>4, <1>5, <1>6, <1>7 DEF KInv

LEMMA AcknowledgedKeeps ==
  ASSUME KInv, NEW r \in Request, Acknowledge(r, foreign'), UNCHANGED server, pc' # "set",
         foreign' \subseteq foreign,
         r.kind \in {"volume", "mute"} /\ r.sink \notin foreign' => Holds(r, server[r.sink])
  PROVE  AckedInv'
<1> SUFFICES ASSUME NEW q \in acked'
             PROVE  q.kind \in {"volume", "mute"} /\ q.sink \notin foreign' /\ Holds(q, server[q.sink])
  BY DEF AckedInv, Holds, After, Carried
<1>1. CASE q \in acked
  BY <1>1 DEF KInv, AckedInv
<1>2. CASE q \notin acked
  BY <1>2 DEF Acknowledge
<1> QED BY <1>1, <1>2

\* Who knows of a present sink knows of a server.
LEMMA UpIs ==
  ASSUME KInv, NEW s \in Sinks, cache[s].index # 0, s \notin foreign
  PROVE  up
<1>1. CASE link = "none"
  BY <1>1, NothingIs DEF KInv, TInv, TypeOK
<1>2. CASE link # "none"
  BY <1>2 DEF KInv, DownInv
<1> QED BY <1>1, <1>2

LEMMA LearnFresh ==
  ASSUME KInv, Learn, pc \in {"refresh", "query", "list"}, served, UNCHANGED <<up, server, link>>
  PROVE  /\ foreign' \subseteq foreign
         /\ \A s \in Sinks \ foreign' : cache'[s].index # 0 => server[s] = cache'[s]
         /\ \A s \in Sinks \ foreign' : snapshot[s].index # 0 => server[s] = snapshot[s]
         /\ ~up => foreign' = foreign
<1>1. /\ foreign' = foreign \ {s \in Found : snapshot[s] = server[s]}
      /\ \A s \in Sinks : cache'[s] = IF snapshot[s].index # 0 THEN snapshot[s] ELSE cache[s]
  BY LearnKeeps DEF Learn, KInv, TInv
<1>2. \A s \in Sinks \ foreign' : snapshot[s].index # 0 => server[s] = snapshot[s]
  BY <1>1 DEF KInv, AnswerInv, Found
<1>3. \A s \in Sinks \ foreign' : snapshot[s].index = 0 => s \notin foreign
  BY <1>1 DEF Found
<1>4. \A s \in Sinks \ foreign : cache[s].index # 0 => server[s] = cache[s]
  BY DEF KInv, FreshInv, Carried
<1>5. ~up => foreign' = foreign
  BY <1>1, NothingIs DEF Found, KInv, DownInv
<1> QED BY <1>1, <1>2, <1>3, <1>4, <1>5

\* Steps of the worker that do not answer from what it knows.
LEMMA LoopKeeps ==
  ASSUME KInv, TInv', KindInv',
         \/ Connect \/ Reject \/ Disconnect \/ PumpNothing \/ Drain \/ Process \/ Refreshed
         \/ RefreshFails \/ Pumped \/ Idle \/ TakeUncached \/ CallFails \/ Healthy
  PROVE  KInv'
<1>1. CASE Connect
  BY <1>1, QuietKeeps DEF Connect, DownInv, KInv, Asking
<1>2. CASE Reject \/ PumpNothing \/ Pumped \/ Idle \/ Healthy
  BY <1>2, QuietKeeps DEF Reject, PumpNothing, Pumped, Idle, Healthy, DownInv, KInv, Asking
<1>3. CASE Disconnect
  <2>1. /\ cache' = Nothing /\ link' = "none" /\ pc' = "off" /\ foreign' = {}
        /\ UNCHANGED <<up, server, acked>>
    BY <1>3 DEF Disconnect
  <2> QED BY <2>1, NothingIs DEF KInv, FreshInv, AnswerInv, AckedInv, DownInv, Carried, Holds, After
<1>4. CASE Drain
  BY <1>4, QuietKeeps DEF Drain, DownInv, KInv, Asking
<1>5. CASE Process
  <2>1. /\ pc = "process" /\ UNCHANGED <<up, link, server, acked, foreign>>
        /\ (pc' = "process" /\ UNCHANGED <<served, snapshot>>) \/ (pc' = "refresh" /\ served' = FALSE)
    BY <1>5 DEF Process, Ask
  <2>2. \A s \in Sinks : cache'[s] = cache[s] \/ cache'[s] = Absent
    BY <1>5 DEF Process, Ask
  <2> QED BY <2>1, <2>2, AbsentIs
          DEF KInv, FreshInv, AnswerInv, AckedInv, DownInv, Carried, Holds, After
<1>6. CASE Refreshed
  <2>1. /\ pc = "refresh" /\ served /\ Learn /\ pc' = "process" /\ UNCHANGED <<up, link, server, acked>>
    BY <1>6 DEF Refreshed
  <2> QED BY <2>1, LearnFresh
          DEF KInv, FreshInv, AnswerInv, AckedInv, DownInv, Carried, Holds, After
<1>7. CASE RefreshFails
  BY <1>7, QuietKeeps DEF RefreshFails, DownInv, KInv, Asking
<1>8. CASE TakeUncached
  BY <1>8, QuietKeeps DEF TakeUncached, Ask, DownInv, KInv
<1>9. CASE CallFails
  <2>1. /\ UNCHANGED <<up, link, server, cache>> /\ pc' = "check"
        /\ \/ pc # "set" /\ UNCHANGED <<acked, foreign>>
           \/ pc = "set" /\ Behind(Current.sink)
    BY <1>9 DEF CallFails
  <2>2. /\ foreign' \subseteq Sinks /\ foreign \subseteq foreign' /\ acked' \subseteq acked
        /\ \A r \in acked' : r.sink \notin foreign'
    BY <2>1 DEF Behind, KInv, AckedInv, TInv, TypeOK
  <2>3. FreshInv'
    BY <2>1 DEF Behind, KInv, FreshInv, Carried
  <2> QED BY <2>1, <2>2, <2>3 DEF KInv, AnswerInv, AckedInv, DownInv, Carried, Holds, After, TInv, TypeOK
<1> QED BY <1>1, <1>2, <1>3, <1>4, <1>5, <1>6, <1>7, <1>8, <1>9

\* Steps that do.
LEMMA AnswersKeep ==
  ASSUME KInv, TInv', KindInv', TakeCached \/ Queried \/ Set
  PROVE  KInv'
<1> DEFINE r == Current
<1>1. r \in Request /\ r.sink \in Sinks
  BY HeadOf DEF TakeCached, Queried, Set, KInv, TInv, TypeOK, Handling
<1>2. CASE TakeCached
  <2>1. /\ UNCHANGED <<up, link, server, cache, foreign>> /\ pc = "recv" /\ cache[r.sink].index # 0
        /\ \/ Ask("set") /\ UNCHANGED acked
           \/ pc' = "check" /\ Settled(r, cache[r.sink]) /\ Acknowledge(r, foreign)
    BY <1>2 DEF TakeCached
  <2>2. FreshInv' /\ AnswerInv'
    BY <2>1 DEF KInv, FreshInv, AnswerInv, Carried, Ask
  <2>3. AckedInv'
    <3>1. CASE Ask("set") /\ UNCHANGED acked
      BY <2>1, <3>1 DEF KInv, AckedInv, Carried, Ask, Holds, After
    <3>2. CASE pc' = "check" /\ Settled(r, cache[r.sink]) /\ Acknowledge(r, foreign)
      <4>1. r.sink \notin foreign => server[r.sink] = cache[r.sink]
        BY <1>1, <2>1 DEF KInv, FreshInv, Carried
      <4> QED BY <1>1, <2>1, <3>2, <4>1, AcknowledgedKeeps DEF Settled
    <3> QED BY <2>1, <3>1, <3>2
  <2>4. DownInv'
    BY <1>1, <2>1, UpIs DEF DownInv, KInv, Acknowledge
  <2> QED BY <2>2, <2>3, <2>4 DEF KInv
<1>3. CASE Queried
  <2>1. /\ UNCHANGED <<up, link, server>> /\ pc \in {"query", "list"} /\ served /\ Learn
        /\ \/ Ask("set") /\ UNCHANGED acked
           \/ pc' = "check" /\ UNCHANGED acked
           \/ /\ pc' = "check" /\ Acknowledge(r, foreign') /\ snapshot[r.sink].index # 0
              /\ pc = "list" \/ Settled(r, snapshot[r.sink])
    BY <1>3, Zenon DEF Queried
  <2>2. FreshInv' /\ AnswerInv'
    BY <2>1, LearnFresh DEF FreshInv, AnswerInv, Carried, Ask
  <2>3. AckedInv'
    <3>1. CASE UNCHANGED acked
      BY <2>1, <3>1, LearnFresh DEF KInv, AckedInv, Carried, Ask, Holds, After
    <3>2. CASE /\ pc' = "check" /\ Acknowledge(r, foreign') /\ snapshot[r.sink].index # 0
               /\ pc = "list" \/ Settled(r, snapshot[r.sink])
      <4>1. r.sink \notin foreign' => server[r.sink] = snapshot[r.sink]
        BY <1>1, <2>1, <3>2, LearnFresh
      <4> QED BY <1>1, <2>1, <3>2, <4>1, LearnFresh, AcknowledgedKeeps DEF Settled, KInv, KindInv
    <3> QED BY <2>1, <3>1, <3>2
  <2>4. DownInv'
    <3>1. ~up => foreign' = foreign
      BY <2>1, LearnFresh
    <3>2. ~up => foreign = Sinks
      BY <2>1 DEF KInv, DownInv, TInv, TypeOK
    <3>3. ~up => acked' = acked
      BY <1>1, <2>1, <3>1, <3>2 DEF Acknowledge
    <3> QED BY <2>1, <3>1, <3>2, <3>3 DEF DownInv, KInv
  <2> QED BY <2>2, <2>3, <2>4 DEF KInv
<1>4. CASE Set
  <2>1. /\ UNCHANGED <<up, link, server, foreign>> /\ pc = "set" /\ served /\ pc' = "check"
        /\ \/ snapshot[r.sink].index = 0 /\ UNCHANGED <<cache, acked>>
           \/ /\ cache' = [cache EXCEPT ![r.sink] = After(r, @)] /\ Acknowledge(r, foreign)
              /\ snapshot[r.sink].index # 0
    BY <1>4 DEF Set
  <2>2. cache[r.sink] \in SinkState /\ cache[r.sink].index # 0
    BY <1>1, <2>1, PresentIs DEF KInv, TInv, TypeOK, Known, BusyInv
  <2>3. r.sink \notin foreign /\ snapshot[r.sink].index # 0 => server[r.sink] = After(r, cache[r.sink])
    BY <1>1, <2>1, <2>2 DEF KInv, FreshInv, Carried
  <2>4. r.sink \notin foreign => snapshot[r.sink].index # 0
    BY <1>1, <2>1, <2>2 DEF KInv, FreshInv, Carried
  <2>5. FreshInv'
    <3> SUFFICES ASSUME NEW s \in Sinks, s \notin foreign, cache'[s].index # 0
                 PROVE  server[s] = cache'[s]
      BY <2>1 DEF FreshInv, Carried
    <3>1. CASE s = r.sink
      BY <1>1, <2>1, <2>3, <2>4, <3>1 DEF KInv, TInv, TypeOK, Known
    <3>2. CASE s # r.sink
      BY <1>1, <2>1, <3>2 DEF KInv, TInv, TypeOK, Known, FreshInv, Carried
    <3> QED BY <3>1, <3>2
  <2>6. AnswerInv'
    BY <2>1 DEF AnswerInv
  <2>7. AckedInv'
    <3>1. CASE UNCHANGED acked
      BY <2>1, <3>1 DEF KInv, AckedInv, Carried, Holds, After
    <3>2. CASE Acknowledge(r, foreign)
      <4>1. r.sink \notin foreign => Holds(r, server[r.sink])
        BY <1>1, <2>2, <2>3, <2>4, AfterIs DEF Holds
      <4> QED BY <1>1, <2>1, <3>2, <4>1, AcknowledgedKeeps
    <3> QED BY <2>1, <3>1, <3>2
  <2>8. DownInv'
    BY <1>1, <2>1, <2>2, UpIs DEF DownInv, KInv, Acknowledge
  <2> QED BY <2>5, <2>6, <2>7, <2>8 DEF KInv
<1> QED BY <1>2, <1>3, <1>4

LEMMA InitKnows == Init => KInv
<1> SUFFICES ASSUME Init  PROVE KInv
  OBVIOUS
<1>1. TInv
  BY InitTyped
<1>2. cache = Nothing /\ pc = "off" /\ acked = {} /\ (~up => server = Nothing /\ link = "none")
  BY DEF Init
<1> QED BY <1>1, <1>2, NothingIs DEF KInv, FreshInv, AnswerInv, AckedInv, DownInv, KindInv, Carried

LEMMA Knows == KInv /\ [Next]_vars => KInv'
<1> SUFFICES ASSUME KInv, [Next]_vars  PROVE KInv'
  OBVIOUS
<1>1. TInv' /\ KindInv'
  BY Typed, KindIs DEF KInv
<1>2. CASE UNCHANGED vars
  BY <1>1, <1>2, QuietKeeps DEF vars, KInv, DownInv, Current
<1> QED BY <1>1, <1>2, WorldKeeps, TasksKeep, ServeKeeps, ServeSetKeeps, LoopKeeps, AnswersKeep
        DEF Next, Worker

\* A volume or mute that was answered Ok is what the server has until somebody
\* else changes it, if nobody had behind the cache before (set_volume, set_mute).
THEOREM AcknowledgedIsKept == Spec => []AcknowledgedHolds
<1>1. KInv => AcknowledgedHolds
  BY DEF KInv, AckedInv, AcknowledgedHolds
<1> QED BY InitKnows, Knows, <1>1, PTL DEF Spec

\* Who was answered Ok never reads an older value from the cache, though the
\* events of the server come late (update_cache, pump).
THEOREM WritesAreRead == Spec => []ReadYourWrites
<1>1. KInv => ReadYourWrites
  <2> SUFFICES ASSUME KInv, NEW r \in acked, cache[r.sink].index # 0
               PROVE  Holds(r, cache[r.sink])
    BY DEF ReadYourWrites
  <2>1. /\ r \in Request /\ r.sink \in Sinks \ foreign /\ Holds(r, server[r.sink])
        /\ r.kind \in {"volume", "mute"} /\ (Carried(r.sink) => Current.kind # r.kind)
        /\ cache[r.sink] \in SinkState
    BY PresentIs DEF KInv, AckedInv, TInv, TypeOK, Request, Known
  <2>2. CASE ~Carried(r.sink)
    BY <2>1, <2>2 DEF KInv, FreshInv
  <2>3. CASE Carried(r.sink)
    <3>1. /\ server[r.sink] = After(Current, cache[r.sink]) /\ Current \in Request
          /\ Current.kind \in {"volume", "mute"} /\ Current.kind # r.kind
      BY <2>1, <2>3, HeadOf DEF KInv, FreshInv, KindInv, Carried, TInv, TypeOK, Handling
    <3>2. After(Current, cache[r.sink]) \in SinkState
      BY <2>1, <3>1, AfterIs
    <3> QED BY <2>1, <3>1, <3>2, HoldsIs
  <2> QED BY <2>2, <2>3
<1> QED BY InitKnows, Knows, <1>1, PTL DEF Spec
-----------------------------------------------------------------------------
(* What is stale. *)

\* A batch of events is handled between two requests, one refresh at a time.
BatchInv ==
  /\ pc \notin {"process", "refresh"} => drained = {}
  /\ refreshing # 0 <=> pc = "refresh"

Answered == pc \in {"refresh", "query", "list"} /\ served

\* An index is not used again during a connection.
UsedInv ==
  /\ \A s \in Sinks : server[s].index < next
  /\ link = "up" =>
       /\ refreshing < next /\ \A e \in events \cup drained : e.index < next
       /\ \A s \in Sinks : cache[s].index < next /\ (Answered => snapshot[s].index < next)

\* The event that will correct a state of sink s is not handled yet.
Due(s, state) ==
  IF server[s].index = state.index THEN Ahead(Changed(state.index))
                                   ELSE Ahead(Removed(state.index))

Heard(s, state) == state = server[s] \/ Due(s, state)

\* What a query found may be behind only as the cache may, and a refresh finds
\* the sink its event was about as long as there is one.
QueryInv ==
  link = "up" /\ Answered =>
    \A s \in Sinks :
      /\ snapshot[s].index # 0 => Heard(s, snapshot[s])
      /\ pc = "refresh" /\ server[s].index = refreshing => snapshot[s].index = refreshing

\* So may what the cache will hold once it has the change that was carried out.
ChangeInv ==
  link = "up" /\ ~missed /\ pc = "set" /\ served =>
    \/ After(Current, cache[Current.sink]) = server[Current.sink]
    \/ Due(Current.sink, cache[Current.sink])

AInv == TInv /\ BatchInv /\ UsedInv /\ QueryInv /\ ChangeInv /\ StaleIsAnnounced

LEMMA BatchKeeps == TInv /\ BatchInv /\ [Next]_vars => BatchInv'
<1> SUFFICES ASSUME TInv, BatchInv, [Next]_vars  PROVE BatchInv'
  OBVIOUS
<1> USE DEF BatchInv
<1>1. CASE UNCHANGED vars
  BY <1>1 DEF vars
<1>2. CASE World \/ Watches \/ CallerAsks \/ Serve \/ ServeSet
  <2>1. UNCHANGED <<pc, drained, refreshing>>
    BY <1>2 DEF World, SinkAppears, SinkGoes, Meddle, StreamEvent, ServerDies, ServerStarts,
                ConnectionBreaks, ServeLate, Watches, Wakes, ReadsCache, WatcherAsks, CallerAsks,
                Serve, ServeSet
  <2> QED BY <2>1
<1>3. CASE Process
  <2>1. PICK e \in drained : \/ UNCHANGED <<pc, refreshing>>
                             \/ e.kind = "changed" /\ pc' = "refresh" /\ refreshing' = e.index
    BY <1>3, Zenon DEF Process, Ask
  <2>2. e.kind = "changed" => e.index # 0
    BY <2>1, PulseAssumption DEF TInv, TypeOK, PulseEvent
  <2> QED BY <1>3, <2>1, <2>2 DEF Process
<1>4. CASE Connect \/ Reject \/ Disconnect \/ PumpNothing \/ Drain \/ Idle \/ TakeUncached \/ Healthy
  BY <1>4 DEF Connect, Reject, Disconnect, PumpNothing, Drain, Idle, TakeUncached, Healthy, Ask
<1>5. CASE Refreshed \/ RefreshFails \/ Pumped
  BY <1>5 DEF Refreshed, RefreshFails, Pumped
<1>6. CASE TakeCached \/ Queried \/ Set \/ CallFails
  BY <1>6 DEF TakeCached, Queried, Set, CallFails, Ask, Handling
<1> QED BY <1>1, <1>2, <1>3, <1>4, <1>5, <1>6 DEF Next, Worker

\* What a step of the server may do to sink s: it tells of it.
Told(s) ==
  \/ server'[s] = server[s]
  \/ /\ server[s].index # 0 /\ server'[s].index = server[s].index
     /\ Changed(server[s].index) \in events'
  \/ server[s].index # 0 /\ server'[s].index = 0 /\ Removed(server[s].index) \in events'
  \/ server[s].index = 0 /\ server'[s].index = next

\* So what was due stays due, and what becomes stale is.
LEMMA ToldKeeps ==
  ASSUME TInv, TInv', NEW s \in Sinks, Told(s), NEW state \in SinkState, state.index < next,
         events \subseteq events', UNCHANGED drained
  PROVE  /\ Due(s, state) => Due(s, state)'
         /\ Heard(s, state) => Heard(s, state)'
<1>1. state.index # 0 /\ state.index # next
  BY PulseAssumption DEF SinkState, TInv, TypeOK
<1>2. Due(s, state) => Due(s, state)'
  <2> SUFFICES ASSUME Due(s, state)
               PROVE  IF server'[s].index = state.index
                        THEN Changed(state.index) \in events' \cup drained'
                        ELSE Removed(state.index) \in events' \cup drained'
    BY DEF Due, Ahead, Changed, Removed
  <2>1. CASE server[s].index = state.index
    BY <1>1, <2>1 DEF Due, Ahead, Told
  <2>2. CASE server[s].index # state.index
    BY <1>1, <2>2 DEF Due, Ahead, Told
  <2> QED BY <2>1, <2>2
<1>3. state = server[s] => state = server'[s] \/ Due(s, state)'
  BY <1>1 DEF Due, Ahead, Told
<1> QED BY <1>2, <1>3 DEF Heard

LEMMA WorldTells ==
  ASSUME TInv, BatchInv, UsedInv, World, link' = "up"
  PROVE  /\ link = "up" /\ \A s \in Sinks : Told(s)
         /\ events \subseteq events' /\ next <= next'
         /\ UNCHANGED <<pc, drained, refreshing, served, snapshot, cache, requests, missed>>
         /\ \A e \in events' \ events : e.index < next'
<1> USE PulseAssumption DEF TInv, TypeOK, Known
<1>1. CASE SinkAppears
  <2>1. /\ events' = events \cup {Changed(next)} /\ next' = next + 1 /\ link = "up"
        /\ UNCHANGED <<pc, drained, refreshing, served, snapshot, cache, requests, missed>>
    BY <1>1 DEF SinkAppears, Tell
  <2>2. \A s \in Sinks : server'[s] = server[s] \/ (server[s].index = 0 /\ server'[s].index = next)
    BY <1>1 DEF SinkAppears
  <2> QED BY <2>1, <2>2 DEF Told, Changed
<1>2. CASE SinkGoes
  <2>1. PICK s \in Sinks : /\ server[s].index # 0 /\ server' = [server EXCEPT ![s] = Absent]
                           /\ Tell(Removed(server[s].index))
    BY <1>2 DEF SinkGoes
  <2>2. /\ events' = events \cup {Removed(server[s].index)} /\ link = "up"
        /\ UNCHANGED <<next, pc, drained, refreshing, served, snapshot, cache, requests, missed>>
    BY <1>2, <2>1 DEF SinkGoes, Tell
  <2>3. Removed(server[s].index).index < next
    BY DEF Removed, UsedInv
  <2> QED BY <2>1, <2>2, <2>3, AbsentIs DEF Told
<1>3. CASE Meddle
  <2>1. PICK s \in Sinks, v \in Volumes, m \in BOOLEAN :
          /\ server[s].index # 0
          /\ server' = [server EXCEPT ![s] = [index |-> server[s].index, volume |-> v, muted |-> m]]
          /\ Tell(Changed(server[s].index))
    BY <1>3 DEF Meddle
  <2>2. /\ events' = events \cup {Changed(server[s].index)} /\ link = "up"
        /\ UNCHANGED <<next, pc, drained, refreshing, served, snapshot, cache, requests, missed>>
    BY <1>3, <2>1 DEF Meddle, Tell
  <2>3. Changed(server[s].index).index < next
    BY DEF Changed, UsedInv
  <2> QED BY <2>1, <2>2, <2>3 DEF Told
<1>4. CASE StreamEvent
  BY <1>4 DEF StreamEvent, Tell, Topology, Told
<1>5. CASE ServerDies \/ ServerStarts \/ ConnectionBreaks
  BY <1>5 DEF ServerDies, ServerStarts, ConnectionBreaks, Breaks, Told
<1>6. CASE ServeLate
  <2>1. PICK r \in late :
          \/ UNCHANGED <<server, events>>
          \/ /\ server[r.sink].index # 0 /\ server' = [server EXCEPT ![r.sink] = After(r, @)]
             /\ Tell(Changed(server[r.sink].index))
    BY <1>6 DEF ServeLate
  <2>2. /\ link = "up"
        /\ UNCHANGED <<next, pc, drained, refreshing, served, snapshot, cache, requests, missed>>
    BY <1>6 DEF ServeLate
  <2>3. CASE UNCHANGED <<server, events>>
    BY <2>2, <2>3 DEF Told
  <2>4. CASE /\ server[r.sink].index # 0 /\ server' = [server EXCEPT ![r.sink] = After(r, @)]
             /\ Tell(Changed(server[r.sink].index))
    <3>1. r \in Request /\ r.sink \in Sinks /\ server[r.sink] \in SinkState
      BY <2>1, <2>4, PresentIs DEF Request
    <3>2. events' = events \cup {Changed(server[r.sink].index)}
      BY <2>2, <2>4 DEF Tell
    <3>3. Changed(server[r.sink].index).index < next
      BY <3>1 DEF Changed, UsedInv
    <3>4. server'[r.sink].index = server[r.sink].index
      BY <2>4, <3>1, AfterIs
    <3> QED BY <2>2, <2>4, <3>1, <3>2, <3>3, <3>4 DEF Told
  <2> QED BY <2>1, <2>3, <2>4
<1> QED BY <1>1, <1>2, <1>3, <1>4, <1>5, <1>6 DEF World

LEMMA SetTells ==
  ASSUME TInv, UsedInv, ServeSet
  PROVE  /\ \A s \in Sinks : Told(s)
         /\ events \subseteq events' /\ link = "up" /\ Current' = Current
         /\ \A e \in events' \ events : e.index < next
         /\ Current \in Request /\ Current.sink \in Sinks
         /\ LET old == server[Current.sink] IN
              old.index # 0 => server'[Current.sink] = After(Current, old)
<1> USE DEF TInv, TypeOK, Known
<1> DEFINE r == Current  old == server[r.sink]
<1>1. r \in Request /\ r.sink \in Sinks /\ old \in SinkState \cup {Absent}
  BY HeadOf DEF ServeSet, Handling
<1>2. link = "up" /\ Current' = Current /\ UNCHANGED next
  BY DEF ServeSet, Current
<1>3. CASE (old.index = 0 \/ Holds(r, old)) /\ UNCHANGED <<server, events>>
  BY <1>1, <1>2, <1>3 DEF Told, Holds
<1>4. CASE /\ old.index # 0 /\ server' = [server EXCEPT ![r.sink] = After(r, @)]
           /\ Tell(Changed(old.index))
  <2>1. old \in SinkState
    BY <1>1, <1>4, PresentIs
  <2>2. events' = events \cup {Changed(old.index)}
    BY <1>2, <1>4 DEF Tell
  <2>3. Changed(old.index).index < next
    BY <1>1 DEF Changed, UsedInv
  <2>4. server'[r.sink] = After(r, old) /\ server'[r.sink].index = old.index
    BY <1>1, <1>4, <2>1, AfterIs
  <2> QED BY <1>1, <1>2, <1>4, <2>1, <2>2, <2>3, <2>4 DEF Told
<1> QED BY <1>3, <1>4 DEF ServeSet

LEMMA ServerUses ==
  ASSUME TInv, TInv', UsedInv, [Next]_vars
  PROVE  \A s \in Sinks : server'[s].index < next'
<1> USE PulseAssumption DEF TInv, TypeOK, Known
<1>1. CASE SinkAppears
  <2>1. next' = next + 1 /\ \E s \in Sinks, v \in Volumes, m \in BOOLEAN :
          server' = [server EXCEPT ![s] = [index |-> next, volume |-> v, muted |-> m]]
    BY <1>1 DEF SinkAppears
  <2>2. \A s \in Sinks : server'[s] = server[s] \/ server'[s].index = next
    BY <2>1
  <2>3. \A s \in Sinks : server[s].index < next /\ server[s].index \in Nat
    BY PresentIs DEF UsedInv
  <2> QED BY <2>1, <2>2, <2>3
<1>2. CASE SinkGoes
  BY <1>2, AbsentIs DEF SinkGoes, UsedInv
<1>3. CASE Meddle
  BY <1>3 DEF Meddle, UsedInv
<1>4. CASE ServerDies
  BY <1>4, NothingIs DEF ServerDies
<1>5. CASE ServeLate
  <2>1. PICK r \in late : \/ UNCHANGED server
                          \/ server[r.sink].index # 0 /\ server' = [server EXCEPT ![r.sink] = After(r, @)]
    BY <1>5 DEF ServeLate
  <2>2. r \in Request /\ r.sink \in Sinks /\ server[r.sink] \in SinkState \cup {Absent}
    BY <2>1 DEF Request
  <2>3. \A s \in Sinks : server'[s].index = server[s].index
    BY <2>1, <2>2, PresentIs, AfterIs
  <2> QED BY <1>5, <2>3 DEF ServeLate, UsedInv
<1>6. CASE ServeSet
  <2>1. Current \in Request /\ Current.sink \in Sinks /\ server[Current.sink] \in SinkState \cup {Absent}
    BY <1>6, HeadOf DEF ServeSet, Handling
  <2>2. \A s \in Sinks : server'[s].index = server[s].index
    BY <1>6, <2>1, PresentIs, AfterIs DEF ServeSet
  <2> QED BY <1>6, <2>2 DEF ServeSet, UsedInv
<1>7. CASE StreamEvent \/ ServerStarts \/ ConnectionBreaks \/ Serve \/ Watches \/ CallerAsks
  BY <1>7 DEF StreamEvent, ServerStarts, ConnectionBreaks, Serve, Watches, Wakes, ReadsCache,
              WatcherAsks, CallerAsks, UsedInv
<1>8. CASE Worker
  <2>1. UNCHANGED <<server, next>>
    BY <1>8 DEF Worker, Connect, Reject, Disconnect, PumpNothing, Drain, Process, Refreshed,
                RefreshFails, Pumped, Idle, TakeCached, TakeUncached, Queried, Set, CallFails, Healthy
  <2> QED BY <2>1 DEF UsedInv
<1>9. CASE UNCHANGED vars
  BY <1>9 DEF vars, UsedInv
<1> QED BY <1>1, <1>2, <1>3, <1>4, <1>5, <1>6, <1>7, <1>8, <1>9 DEF Next, World

\* Steps of the worker bring no index that was not there.
LEMMA WorkerUses ==
  ASSUME TInv, TInv', BatchInv, UsedInv, Worker, link' = "up"
  PROVE  /\ refreshing' < next' /\ \A e \in events' \cup drained' : e.index < next'
         /\ \A s \in Sinks : cache'[s].index < next' /\ (Answered' => snapshot'[s].index < next')
<1> USE PulseAssumption DEF TInv, TypeOK, Known, UsedInv, Answered
<1>1. CASE Connect
  BY <1>1, NothingIs DEF Connect, BatchInv
<1>2. CASE Reject \/ Disconnect
  BY <1>2 DEF Reject, Disconnect
<1>3. CASE PumpNothing \/ Pumped \/ Idle \/ Healthy
  BY <1>3 DEF PumpNothing, Pumped, Idle, Healthy
<1>4. CASE Drain
  BY <1>4 DEF Drain
<1>5. CASE Process
  <2>1. PICK e \in drained :
          /\ drained' = drained \ {e}
          /\ \/ /\ cache' = [s \in Sinks |-> IF cache[s].index = e.index THEN Absent ELSE cache[s]]
                /\ UNCHANGED <<pc, refreshing>>
             \/ served' = FALSE /\ refreshing' = e.index /\ UNCHANGED cache
             \/ UNCHANGED <<pc, refreshing, cache>>
    BY <1>5, Zenon DEF Process, Ask
  <2>2. UNCHANGED <<next, events, link>> /\ pc = "process"
    BY <1>5 DEF Process
  <2> QED BY <2>1, <2>2, AbsentIs
<1>6. CASE Refreshed \/ Queried
  <2>1. /\ Learn /\ Answered /\ UNCHANGED <<next, events, drained, link>>
        /\ refreshing' \in {0, refreshing} /\ served' = FALSE
    BY <1>6 DEF Refreshed, Queried, NoCall, Ask
  <2> QED BY <2>1, LearnKeeps
<1>7. CASE RefreshFails \/ CallFails
  BY <1>7 DEF RefreshFails, CallFails, NoCall
<1>8. CASE TakeCached \/ TakeUncached
  BY <1>8 DEF TakeCached, TakeUncached, Ask
<1>9. CASE Set
  <2>1. Current \in Request /\ Current.sink \in Sinks /\ cache[Current.sink] \in SinkState
    BY <1>9, HeadOf, PresentIs DEF Set, Handling, BusyInv
  <2>2. \A s \in Sinks : cache'[s].index = cache[s].index
    BY <1>9, <2>1, AfterIs DEF Set
  <2> QED BY <1>9, <2>2 DEF Set, NoCall
<1> QED BY <1>1, <1>2, <1>3, <1>4, <1>5, <1>6, <1>7, <1>8, <1>9 DEF Worker

LEMMA UsedKeeps ==
  ASSUME TInv, TInv', BatchInv, UsedInv, [Next]_vars
  PROVE  UsedInv'
<1> SUFFICES ASSUME link' = "up"
             PROVE  /\ refreshing' < next' /\ \A e \in events' \cup drained' : e.index < next'
                    /\ \A s \in Sinks :
                         cache'[s].index < next' /\ (Answered' => snapshot'[s].index < next')
  BY ServerUses DEF UsedInv
<1> USE PulseAssumption DEF TInv, TypeOK, Known
<1>1. CASE World
  <2>1. /\ link = "up" /\ next <= next' /\ \A e \in events' \ events : e.index < next'
        /\ UNCHANGED <<pc, drained, refreshing, served, snapshot, cache>>
    BY <1>1, WorldTells
  <2>2. \A i \in Nat : i < next => i < next'
    BY <2>1
  <2>3. \A e \in events \cup drained : e.index \in Nat /\ e.index < next
    BY <2>1 DEF UsedInv, PulseEvent
  <2>4. \A s \in Sinks : /\ cache[s].index \in Nat /\ snapshot[s].index \in Nat
                         /\ cache[s].index < next /\ (Answered => snapshot[s].index < next)
    BY <2>1, PresentIs DEF UsedInv
  <2>5. refreshing < next /\ refreshing \in Nat
    BY <2>1 DEF UsedInv
  <2> QED BY <2>1, <2>2, <2>3, <2>4, <2>5 DEF Answered
<1>2. CASE ServeSet
  BY <1>2, SetTells DEF ServeSet, UsedInv, Answered
<1>3. CASE Serve
  BY <1>3, AbsentIs DEF Serve, UsedInv
<1>4. CASE UNCHANGED vars \/ Watches \/ CallerAsks
  <2>1. UNCHANGED <<next, link, refreshing, events, drained, cache, pc, served, snapshot>>
    BY <1>4 DEF vars, Watches, Wakes, ReadsCache, WatcherAsks, CallerAsks
  <2> QED BY <2>1 DEF UsedInv, Answered
<1> QED BY <1>1, <1>2, <1>3, <1>4, WorkerUses DEF Next

\* Whatever the server does, it tells of it.
LEMMA ServerAnnounces ==
  ASSUME AInv, TInv', link = "up", \A s \in Sinks : Told(s), events \subseteq events',
         UNCHANGED <<pc, drained, refreshing, cache, missed>>
  PROVE  /\ StaleIsAnnounced'
         /\ Answered' /\ UNCHANGED <<served, snapshot>> => QueryInv'
<1> USE PulseAssumption DEF AInv, TInv, TypeOK, Known
<1>1. \A s \in Sinks : cache[s].index # 0 => cache[s] \in SinkState /\ cache[s].index < next
  BY PresentIs DEF UsedInv
<1>2. StaleIsAnnounced'
  <2> SUFFICES ASSUME ~missed, NEW s \in Sinks, cache[s].index # 0
               PROVE  cache[s] = server'[s] \/ Announced(s, cache[s])'
    BY DEF StaleIsAnnounced, Announced, Ahead, Changed, Removed
  <2>1. CASE Heard(s, cache[s])
    <3>1. Heard(s, cache[s])'
      BY <1>1, <2>1, ToldKeeps DEF Heard, Due, Ahead, Changed, Removed
    <3> QED BY <3>1 DEF Heard, Due, Announced
  <2>2. CASE ~Heard(s, cache[s])
    <3>1. refreshing = cache[s].index /\ server[s].index = cache[s].index
      BY <2>2 DEF StaleIsAnnounced, Announced, Heard, Due
    <3>2. server'[s].index = cache[s].index \/ Removed(cache[s].index) \in events'
      BY <1>1, <3>1 DEF Told
    <3> QED BY <3>1, <3>2 DEF Announced, Ahead, Removed
  <2> QED BY <2>1, <2>2
<1>3. ASSUME Answered', UNCHANGED <<served, snapshot>>  PROVE QueryInv'
  <2> SUFFICES ASSUME NEW s \in Sinks
               PROVE  /\ snapshot[s].index # 0 => Heard(s, snapshot[s])'
                      /\ pc = "refresh" /\ server'[s].index = refreshing
                           => snapshot[s].index = refreshing
    BY <1>3 DEF QueryInv, Heard, Due, Ahead, Changed, Removed
  <2>1. Answered
    BY <1>3 DEF Answered
  <2>2. snapshot[s].index # 0 => Heard(s, snapshot[s])'
    <3> SUFFICES ASSUME snapshot[s].index # 0  PROVE Heard(s, snapshot[s])'
      OBVIOUS
    <3>1. snapshot[s] \in SinkState /\ snapshot[s].index < next /\ Heard(s, snapshot[s])
      BY <2>1, PresentIs DEF UsedInv, QueryInv
    <3> QED BY <1>3, <3>1, ToldKeeps DEF Heard, Due, Ahead, Changed, Removed
  <2>3. pc = "refresh" /\ server'[s].index = refreshing => server[s].index = refreshing
    BY DEF Told, BatchInv, UsedInv
  <2> QED BY <2>1, <2>2, <2>3 DEF QueryInv
<1> QED BY <1>2, <1>3

LEMMA WorldAnnounces ==
  ASSUME AInv, TInv', World, link' = "up"
  PROVE  QueryInv' /\ ChangeInv' /\ StaleIsAnnounced'
<1>1. /\ \A s \in Sinks : Told(s)
      /\ link = "up" /\ events \subseteq events'
      /\ UNCHANGED <<pc, drained, refreshing, served, snapshot, cache, requests, missed>>
  BY WorldTells DEF AInv
<1>2. QueryInv' /\ StaleIsAnnounced'
  BY <1>1, ServerAnnounces DEF QueryInv
<1>3. Current' = Current
  BY <1>1 DEF Current
<1>4. ChangeInv'
  <2> SUFFICES ASSUME ~missed, pc = "set", served
               PROVE  \/ After(Current, cache[Current.sink]) = server'[Current.sink]
                      \/ Due(Current.sink, cache[Current.sink])'
    BY <1>1, <1>3 DEF ChangeInv, After, Due, Ahead, Changed, Removed
  <2> DEFINE s == Current.sink
  <2>1. /\ s \in Sinks /\ Current \in Request /\ cache[s] \in SinkState /\ cache[s].index < next
        /\ cache[s].index # 0
    BY <1>1, HeadOf, PresentIs DEF AInv, TInv, TypeOK, Known, BusyInv, Handling, UsedInv
  <2>2. CASE Due(s, cache[s])
    <3>1. Due(s, cache[s])'
      BY <1>1, <1>3, <2>1, <2>2, ToldKeeps DEF AInv, Due, Ahead, Changed, Removed
    <3> QED BY <3>1
  <2>3. CASE After(Current, cache[s]) = server[s]
    <3>1. server[s].index = cache[s].index
      BY <2>1, <2>3, AfterIs
    <3>2. server'[s] = server[s] \/ Due(s, cache[s])'
      BY <1>1, <1>3, <2>1, <3>1, PulseAssumption DEF Told, Due, Ahead, Changed, Removed
    <3> QED BY <2>3, <3>2
  <2> QED BY <1>1, <2>2, <2>3 DEF AInv, ChangeInv
<1> QED BY <1>2, <1>4

\* The server carries out a change that the worker waits for.
LEMMA SetAnnounces ==
  ASSUME AInv, TInv', ServeSet
  PROVE  QueryInv' /\ ChangeInv' /\ StaleIsAnnounced'
<1> DEFINE r == Current  s == r.sink
<1>1. /\ \A t \in Sinks : Told(t)
      /\ events \subseteq events' /\ link = "up" /\ Current' = Current
      /\ r \in Request /\ s \in Sinks
      /\ server[s].index # 0 => server'[s] = After(r, server[s])
  BY SetTells DEF AInv
<1>2. pc = "set" /\ UNCHANGED <<pc, drained, refreshing, cache, missed>>
  BY DEF ServeSet
<1>3. StaleIsAnnounced'
  BY <1>1, <1>2, ServerAnnounces
<1>4. ChangeInv'
  <2> SUFFICES ASSUME ~missed
               PROVE  After(r, cache[s]) = server'[s] \/ Due(s, cache[s])'
    BY <1>1, <1>2 DEF ChangeInv, After, Due, Ahead, Changed, Removed
  <2>1. cache[s] \in SinkState /\ cache[s].index < next /\ cache[s].index # 0
    BY <1>1, <1>2, PresentIs DEF AInv, TInv, TypeOK, Known, BusyInv, UsedInv
  <2>2. Heard(s, cache[s])
    BY <1>1, <1>2, <2>1 DEF AInv, StaleIsAnnounced, Announced, Heard, Due, BatchInv
  <2>3. CASE Due(s, cache[s])
    <3>1. Due(s, cache[s])'
      BY <1>1, <1>2, <2>1, <2>3, ToldKeeps DEF AInv, Due, Ahead, Changed, Removed
    <3> QED BY <3>1
  <2>4. CASE cache[s] = server[s]
    BY <1>1, <2>1, <2>4
  <2> QED BY <2>2, <2>3, <2>4 DEF Heard
<1>5. QueryInv'
  BY <1>2 DEF QueryInv, Answered
<1> QED BY <1>3, <1>4, <1>5

\* The server answers a query.
LEMMA ServeAnnounces ==
  ASSUME AInv, TInv', Serve
  PROVE  QueryInv' /\ ChangeInv' /\ StaleIsAnnounced'
<1>1. /\ UNCHANGED <<server, link, events, drained, refreshing, cache, pc, missed>> /\ pc # "set"
      /\ snapshot' = [s \in Sinks |-> IF Wanted(s) THEN server[s] ELSE Absent]
  BY DEF Serve
<1>2. \A s \in Sinks : snapshot'[s].index # 0 => snapshot'[s] = server[s]
  BY <1>1, AbsentIs
<1>3. \A s \in Sinks : pc = "refresh" /\ server[s].index = refreshing => snapshot'[s] = server[s]
  BY <1>1 DEF Wanted
<1> QED BY <1>1, <1>2, <1>3
        DEF AInv, QueryInv, ChangeInv, StaleIsAnnounced, Heard, Announced, Ahead, Changed, Removed

\* Steps that concern neither a sink, nor the cache, nor an event.
LEMMA QuietAnnounces ==
  ASSUME AInv, UNCHANGED <<server, cache, events, drained, refreshing, missed, link>>,
         \/ /\ UNCHANGED <<pc, served, snapshot>>
            /\ pc = "set" => Current' = Current
         \/ pc' \notin Asking \/ served' = FALSE
  PROVE  QueryInv' /\ ChangeInv' /\ StaleIsAnnounced'
<1>1. StaleIsAnnounced'
  BY DEF AInv, StaleIsAnnounced, Announced, Ahead, Changed, Removed
<1>2. CASE pc' \notin Asking \/ served' = FALSE
  BY <1>1, <1>2 DEF QueryInv, ChangeInv, Answered, Asking
<1>3. CASE /\ UNCHANGED <<pc, served, snapshot>>
           /\ pc = "set" => Current' = Current
  BY <1>1, <1>3 DEF AInv, QueryInv, ChangeInv, Answered, Heard, Due, Ahead, Changed, Removed, After
<1> QED BY <1>2, <1>3

\* An event that is handled is either carried out or being refreshed.
LEMMA ProcessAnnounces ==
  ASSUME AInv, Process
  PROVE  QueryInv' /\ ChangeInv' /\ StaleIsAnnounced'
<1>1. /\ pc = "process" /\ refreshing = 0 /\ UNCHANGED <<server, link, events, missed>>
      /\ pc' \in {"process", "refresh"} /\ (pc' = "process" \/ served' = FALSE)
  BY DEF Process, Ask, AInv, BatchInv
<1>2. PICK e \in drained :
        /\ drained' = drained \ {e}
        /\ \/ /\ e.kind = "removed" /\ UNCHANGED refreshing
              /\ cache' = [s \in Sinks |-> IF cache[s].index = e.index THEN Absent ELSE cache[s]]
           \/ e.kind = "changed" /\ refreshing' = e.index /\ UNCHANGED cache
           \/ e.kind = "topology" /\ UNCHANGED <<refreshing, cache>>
  <2>1. \A e \in drained : e.kind \in {"removed", "changed", "topology"}
    BY DEF AInv, TInv, TypeOK, PulseEvent
  <2>2. PICK e \in drained :
          /\ drained' = drained \ {e}
          /\ e.kind = "removed" => /\ UNCHANGED refreshing
                                   /\ cache' = [s \in Sinks |-> IF cache[s].index = e.index
                                                                  THEN Absent ELSE cache[s]]
          /\ e.kind = "changed" => refreshing' = e.index /\ UNCHANGED cache
          /\ e.kind = "topology" => UNCHANGED <<refreshing, cache>>
    BY Zenon DEF Process, Ask
  <2> QED BY <2>1, <2>2
<1>3. StaleIsAnnounced'
  <2> SUFFICES ASSUME link = "up", ~missed, NEW s \in Sinks, cache'[s].index # 0
               PROVE  cache'[s] = server[s] \/ Announced(s, cache[s])'
    BY <1>1 DEF StaleIsAnnounced, Announced, Ahead, Changed, Removed
  <2>1. cache'[s] = cache[s] /\ (e.kind = "removed" => cache[s].index # e.index)
    BY <1>2, AbsentIs DEF AInv, TInv, TypeOK, Known
  <2>2. cache[s] = server[s] \/ Due(s, cache[s])
    BY <1>1, <2>1 DEF AInv, StaleIsAnnounced, Announced, Due
  <2>3. CASE cache[s] = server[s]
    BY <2>1, <2>3
  <2>4. CASE server[s].index = cache[s].index /\ Changed(cache[s].index) \in events \cup drained
    BY <1>1, <1>2, <2>1, <2>4 DEF Announced, Ahead, Changed
  <2>5. CASE server[s].index # cache[s].index /\ Removed(cache[s].index) \in events \cup drained
    BY <1>1, <1>2, <2>1, <2>5 DEF Announced, Ahead, Removed
  <2> QED BY <2>2, <2>3, <2>4, <2>5 DEF Due, Ahead
<1> QED BY <1>1, <1>3 DEF QueryInv, ChangeInv, Answered

\* What a query found goes into the cache.
LEMMA LearnAnnounces ==
  ASSUME AInv, Refreshed \/ Queried
  PROVE  QueryInv' /\ ChangeInv' /\ StaleIsAnnounced'
<1>1. /\ Answered /\ Learn /\ UNCHANGED <<server, link, events, drained, missed>>
      /\ served' = FALSE
      /\ pc = "refresh" \/ refreshing = 0
  BY DEF Refreshed, Queried, NoCall, Ask, Answered, AInv, BatchInv
<1>2. StaleIsAnnounced'
  <2> SUFFICES ASSUME link = "up", ~missed, NEW s \in Sinks, cache'[s].index # 0
               PROVE  cache'[s] = server[s] \/ Announced(s, cache[s])'
    BY <1>1 DEF StaleIsAnnounced, Announced, Ahead, Changed, Removed
  <2>1. cache'[s] = IF snapshot[s].index # 0 THEN snapshot[s] ELSE cache[s]
    BY <1>1, LearnKeeps DEF AInv, TInv
  <2>2. Heard(s, cache'[s])
    <3>1. CASE snapshot[s].index # 0
      BY <1>1, <2>1, <3>1 DEF AInv, QueryInv
    <3>2. CASE snapshot[s].index = 0
      <4>1. cache'[s] = cache[s] /\ cache[s].index # 0
        BY <2>1, <3>2
      <4>2. ~(refreshing = cache[s].index /\ server[s].index = cache[s].index)
        BY <1>1, <3>2, <4>1 DEF AInv, QueryInv
      <4> QED BY <4>1, <4>2 DEF AInv, StaleIsAnnounced, Announced, Heard, Due
    <3> QED BY <3>1, <3>2
  <2> QED BY <1>1, <2>2 DEF Heard, Due, Announced, Ahead, Changed, Removed
<1> QED BY <1>1, <1>2 DEF QueryInv, ChangeInv, Answered

\* So does what was set.
LEMMA PutAnnounces ==
  ASSUME AInv, Set
  PROVE  QueryInv' /\ ChangeInv' /\ StaleIsAnnounced'
<1>1. /\ pc = "set" /\ served /\ pc' = "check" /\ refreshing = 0
      /\ UNCHANGED <<server, link, events, drained, refreshing, missed>>
      /\ \/ UNCHANGED cache
         \/ cache' = [cache EXCEPT ![Current.sink] = After(Current, @)]
  BY DEF Set, AInv, BatchInv
<1>2. /\ Current \in Request /\ Current.sink \in Sinks /\ cache[Current.sink] \in SinkState
      /\ cache \in Known
  BY <1>1, HeadOf, PresentIs DEF AInv, TInv, TypeOK, Known, BusyInv, Handling
<1>3. StaleIsAnnounced'
  <2> SUFFICES ASSUME link = "up", ~missed, NEW s \in Sinks, cache'[s].index # 0
               PROVE  cache'[s] = server[s] \/ Announced(s, cache[s])'
    BY <1>1 DEF StaleIsAnnounced, Announced, Ahead, Changed, Removed
  <2>1. CASE cache'[s] = cache[s]
    BY <1>1, <2>1 DEF AInv, StaleIsAnnounced, Announced, Ahead, Changed, Removed
  <2>2. CASE cache'[s] # cache[s]
    <3>1. s = Current.sink /\ cache'[s] = After(Current, cache[s]) /\ cache'[s].index = cache[s].index
      BY <1>1, <1>2, <2>2, AfterIs DEF Known
    <3> QED BY <1>1, <3>1 DEF AInv, ChangeInv, Due, Announced, Ahead, Changed, Removed
  <2> QED BY <2>1, <2>2
<1> QED BY <1>1, <1>3 DEF QueryInv, ChangeInv, Answered

LEMMA LoopAnnounces ==
  ASSUME AInv, link' = "up",
         \/ Connect \/ Reject \/ Disconnect \/ PumpNothing \/ Drain \/ RefreshFails \/ Pumped
         \/ Idle \/ TakeCached \/ TakeUncached \/ CallFails \/ Healthy
  PROVE  QueryInv' /\ ChangeInv' /\ StaleIsAnnounced'
<1>1. CASE Connect
  BY <1>1, NothingIs DEF Connect, AInv, TInv, TypeOK, QueryInv, ChangeInv, StaleIsAnnounced, Answered
<1>2. CASE Reject \/ Disconnect
  BY <1>2 DEF Reject, Disconnect, AInv, TInv, TypeOK
<1>3. CASE PumpNothing \/ Pumped \/ Idle \/ Healthy
  BY <1>3, QuietAnnounces DEF PumpNothing, Pumped, Idle, Healthy, Asking
<1>4. CASE Drain
  <2>1. drained = {} /\ events' \cup drained' = events \cup drained
    BY <1>4 DEF Drain, AInv, BatchInv
  <2>2. StaleIsAnnounced'
    BY <1>4, <2>1 DEF Drain, AInv, StaleIsAnnounced, Announced, Ahead, Changed, Removed
  <2> QED BY <1>4, <2>2 DEF Drain, QueryInv, ChangeInv, Answered
<1>5. CASE RefreshFails
  <2>1. missed' = (missed \/ link = "up") /\ link = "up" /\ pc' = "process"
    BY <1>5 DEF RefreshFails
  <2> QED BY <2>1 DEF QueryInv, ChangeInv, StaleIsAnnounced, Answered
<1>6. CASE TakeCached \/ TakeUncached
  BY <1>6, QuietAnnounces DEF TakeCached, TakeUncached, Ask, Asking
<1>7. CASE CallFails
  <2>1. /\ UNCHANGED <<server, cache, events, drained, refreshing, link>> /\ pc' = "check"
        /\ missed' = (missed \/ (link = "up" /\ Current.client = Watcher))
    BY <1>7 DEF CallFails
  <2>2. StaleIsAnnounced'
    BY <2>1 DEF AInv, StaleIsAnnounced, Announced, Ahead, Changed, Removed
  <2> QED BY <2>1, <2>2 DEF QueryInv, ChangeInv, Answered
<1> QED BY <1>1, <1>2, <1>3, <1>4, <1>5, <1>6, <1>7

LEMMA Announces == AInv /\ [Next]_vars => AInv'
<1> SUFFICES ASSUME AInv, [Next]_vars  PROVE AInv'
  OBVIOUS
<1>1. TInv' /\ BatchInv' /\ UsedInv'
  BY Typed, BatchKeeps, UsedKeeps DEF AInv
<1>2. QueryInv' /\ ChangeInv' /\ StaleIsAnnounced'
  <2> SUFFICES ASSUME link' = "up"  PROVE QueryInv' /\ ChangeInv' /\ StaleIsAnnounced'
    BY DEF QueryInv, ChangeInv, StaleIsAnnounced
  <2>1. CASE UNCHANGED vars
    <3>1. Current' = Current
      BY <2>1 DEF vars, Current
    <3> QED BY <2>1, <3>1, QuietAnnounces DEF vars
  <2>2. CASE Watches \/ CallerAsks
    <3>1. pc = "set" => Current' = Current
      BY <2>2, TasksWait DEF AInv, Handling
    <3>2. UNCHANGED <<server, cache, events, drained, refreshing, missed, link, pc, served, snapshot>>
      BY <2>2 DEF Watches, Wakes, ReadsCache, WatcherAsks, CallerAsks
    <3> QED BY <3>1, <3>2, QuietAnnounces
  <2>3. CASE World \/ ServeSet \/ Serve
    BY <1>1, <2>3, WorldAnnounces, SetAnnounces, ServeAnnounces
  <2>4. CASE Worker
    BY <2>4, ProcessAnnounces, LearnAnnounces, PutAnnounces, LoopAnnounces DEF Worker
  <2> QED BY <2>1, <2>2, <2>3, <2>4 DEF Next
<1> QED BY <1>1, <1>2 DEF AInv

LEMMA InitAnnounces == Init => AInv
<1> SUFFICES ASSUME Init  PROVE AInv
  OBVIOUS
<1>1. TInv
  BY InitTyped
<1> QED BY <1>1 DEF Init, AInv, BatchInv, UsedInv, QueryInv, ChangeInv, StaleIsAnnounced, Answered

\* A cached sink that differs from the server's has its event still to be
\* handled, or is being refreshed, though events are drained in any order and
\* between any two calls, unless a refresh was given up (pump, update_cache).
THEOREM StaleIsHeardOf == Spec => []StaleIsAnnounced
BY InitAnnounces, Announces, PTL DEF Spec, AInv
=============================================================================
