--------------------------- MODULE PlayerControl ---------------------------
(* Control of what plays on MUSIC: the API's player, library and queue       *)
(* handlers (src/src/api/backend.rs), the 4STREAM gateway in front of the    *)
(* same calls (src/src/fourstream.rs) and the DLNA client (src/src/dlna.rs). *)
(* A request is answered by a task of its own that asks MPD, PulseAudio, the *)
(* arbiter's winner, the MPRIS receivers and the DLNA renderer one after     *)
(* another, awaiting each, and then sends one command to the player it has   *)
(* settled on; everything it has read may have changed by then.  Whether it  *)
(* may act at all depends on the settings in effect (SettingsStore).         *)
EXTENDS SettingsStore, Sequences

CONSTANTS
  Requests,    \* tasks, at most one request each at a time
  Sources,     \* of "mpd", "spotify", "airplay", "dlna" and others
  Items,       \* what MPD can be told to play
  Songs,       \* item -> the sequence of songs it adds
  Endpoints,   \* AVTRANSPORT_ENDPOINTS, a sequence
  Asked,       \* kind of request -> what it may ask for
  Starts,      \* how the world may be when the daemon starts
  MaxEvents,   \* bound: changes of the world, failures and deaths together
  None

Receivers == {"spotify", "airplay"}
States == {"playing", "paused", "stopped"}
Modes == {"normal", "alert", "minute"}
Places == {Endpoints[i] : i \in DOMAIN Endpoints}
World == [mode : Modes, winner : Sources \cup {None}, streams : SUBSET Sources,
          mpd : [state : States, queue : Seq(Items)],
          receiver : [Receivers -> States \cup {"gone"}],
          renderer : [at : Places \cup {None}, state : States]]
PlayOps == {"play_file", "load_playlist", "play_stream", "play_url"}
Operations == PlayOps \cup {"status", "player", "onepause", "soap", "play_queue", "remove_queue",
                            "clear_queue", "refresh_library"}
Goals == {"player", "known", "invoke"}
Players == Receivers \cup {"mpd", "dlna", "external"}

ASSUME PlayerAssumption ==
  /\ DOMAIN Asked \subseteq Operations /\ "external" \notin Sources
  /\ None \notin Operations \cup Goals \cup Players \cup Sources \cup Places
  /\ Endpoints \in Seq(Places) /\ Endpoints # <<>>
  /\ Songs \in [Items -> Seq(Items) \ {<<>>}]
  /\ \A op \in PlayOps \cap DOMAIN Asked : Asked[op] \subseteq Items
  /\ MaxEvents \in Nat
  /\ Starts \subseteq World
  /\ "talkover" \in KeysOf["audio"]

VARIABLES
  mode,     \* the priority: "normal", "alert" or "minute"
  winner,   \* the arbiter's choice, None when nothing plays
  streams,  \* sources with an uncorked stream on MUSIC
  mpd,      \* [state, queue]
  receiver, \* MPRIS player -> "gone" or its state
  renderer, \* the DLNA renderer: [at, state], at None when it is down
  endpoint, \* DlnaClient's cached endpoint, None when there is none
  req,      \* request -> what it asked for and has read
  barred,   \* ghost: requests that have found the controls blocked all along
  steady,   \* ghost: requests during which the winner kept its stream
  alone,    \* ghost: requests that cleared the queue nobody else has touched
  dropped,  \* ghost: a call to a dead endpoint has been answered for
  events, faults

world == <<mode, winner, streams, receiver, renderer, events>>
ghosts == <<barred, steady>>
playerVars == <<world, mpd, endpoint, req, ghosts, alone, dropped, faults>>
vars == <<storeVars, playerVars>>

Nothing == [source |-> None, state |-> "stopped", offers |-> FALSE]

\* pc; op, arg: what is asked; session, local: what mpc told of MPD; sources:
\* the streams seen; todo: receivers left to ask; goal, at: what the DLNA
\* client is used for and the endpoint in hand; strict: an error of the lookup
\* fails the request; target: the player settled on; sent: where a command
\* went; fresh: a ghost.
NoRequest == [pc |-> "idle", op |-> None, arg |-> None, session |-> FALSE,
              local |-> Nothing, sources |-> {}, todo |-> {}, goal |-> None, at |-> None,
              strict |-> FALSE, target |-> None, sent |-> None, fresh |-> FALSE]

\* Outside an announcement's talk-over an alert blocks the controls, and the
\* minute of silence always does.
Blocked ==
  \/ mode = "minute"
  \/ mode = "alert" /\ Effective("audio").fields["talkover"] # "on"

\* mpc prints the song, and the place in the queue, while one plays or pauses.
Current == mpd.state # "stopped"

Goto(r, label) == req' = [req EXCEPT ![r].pc = label]

\* What a request has read is dropped with its last use.
Sends(r, to, result) ==
  req' = [req EXCEPT ![r] = IF to = None THEN NoRequest
            ELSE [NoRequest EXCEPT !.pc = result, !.op = req[r].op, !.arg = req[r].arg, !.sent = to]]
End(r, result) == Sends(r, req[r].sent, result)

\* The player the lookup settled on.  A status is answered with it and the
\* gateway's AVTransport goes on without it; onepause pauses a player that
\* plays and plays any other; a command goes to it if it offers the action.
Settled(r, choice) ==
  CASE req[r].strict /\ choice.offers ->
         req' = [req EXCEPT ![r] = [NoRequest EXCEPT
           !.pc = IF choice.source = "dlna" THEN "cache" ELSE "command",
           !.op = req[r].op, !.arg = req[r].arg, !.strict = TRUE,
           !.goal = "invoke", !.target = choice.source]]
    [] req[r].op = "soap" /\ ~req[r].strict ->
         req' = [req EXCEPT ![r] = [NoRequest EXCEPT
           !.pc = "check", !.op = "soap", !.arg = req[r].arg]]
    [] req[r].op = "onepause" /\ ~req[r].strict ->
         req' = [req EXCEPT ![r] = [NoRequest EXCEPT
           !.pc = "recheck", !.op = "onepause",
           !.arg = IF choice.state = "playing" THEN "pause" ELSE "play"]]
    [] OTHER -> End(r, "failed")

Eventful == events + faults + crashes < MaxEvents
Fault == Eventful /\ faults' = faults + 1
NoFault == UNCHANGED faults

Init ==
  /\ StoreInit
  /\ \E s \in Starts :
       /\ mode = s.mode /\ winner = s.winner /\ streams = s.streams
       /\ mpd = s.mpd /\ receiver = s.receiver /\ renderer = s.renderer
  /\ endpoint = None
  /\ req = [r \in Requests |-> NoRequest]
  /\ barred = {} /\ steady = {} /\ alone = {} /\ dropped = FALSE
  /\ events = 0 /\ faults = 0

-----------------------------------------------------------------------------
(* The beginning of a request: what it asks and where its handler starts.    *)
Ask(r, op, first, strict) ==
  /\ op \in DOMAIN Asked
  /\ req[r].pc \in {"idle", "ok", "failed"}
  /\ left > 0
  /\ left' = left - 1
  /\ \E arg \in Asked[op] :
       req' = [req EXCEPT ![r] = [NoRequest EXCEPT !.pc = first, !.op = op, !.arg = arg,
                                                   !.strict = strict]]
  /\ alone' = alone \ {r}
  /\ UNCHANGED <<world, mpd, endpoint, dropped, faults>>

\* The status, which the gateway's player status and the events ask for too.
status(r) == Ask(r, "status", "mpd", FALSE)

\* The API's player commands, and the gateway's but onepause.
player(r) == Ask(r, "player", "check", TRUE)

onepause(r) == Ask(r, "onepause", "check", FALSE)

\* Any action of the gateway's AVTransport service first collects the status.
soap_control(r) == Ask(r, "soap", "mpd", FALSE)

play_file(r) == Ask(r, "play_file", "check", TRUE)

load_playlist(r) == Ask(r, "load_playlist", "check", TRUE)

play_stream(r) == Ask(r, "play_stream", "check", TRUE)

play_url(r) == Ask(r, "play_url", "check", TRUE)

play_queue(r) == Ask(r, "play_queue", "check", TRUE)

remove_queue(r) == Ask(r, "remove_queue", "check", TRUE)

clear_queue(r) == Ask(r, "clear_queue", "check", TRUE)

refresh_library(r) == Ask(r, "refresh_library", "check", TRUE)

\* What follows once the controls are found available; player and onepause
\* ask again when they come to control_active_player.
AfterCheck(op) ==
  CASE op = "player" -> "recheck"
    [] op = "onepause" -> "mpd"
    [] op = "soap" -> "cache"
    [] op \in {"play_file", "load_playlist"} -> "library"
    [] op \in {"play_stream", "play_url", "clear_queue"} -> "clear"
    [] op = "refresh_library" -> "update"
    [] OTHER -> "list"

Proceed(r) ==
  req' = [req EXCEPT
    ![r].pc = IF @ = "recheck" THEN "mpd" ELSE AfterCheck(req[r].op),
    ![r].strict = @ \/ req[r].pc = "recheck",
    ![r].goal = IF req[r].op = "soap" THEN "invoke" ELSE @]

\* Mutant: the minute of silence is not asked about.
Mutant_ensure_controls_available(r) ==
  /\ req[r].pc \in {"check", "recheck"}
  /\ IF Blocked /\ mode # "minute" THEN End(r, "failed") ELSE Proceed(r)
  /\ UNCHANGED <<world, mpd, endpoint, alone, dropped, faults, left>>

ensure_controls_available(r) ==
  /\ req[r].pc \in {"check", "recheck"}
  /\ IF Blocked THEN End(r, "failed") ELSE Proceed(r)
  /\ UNCHANGED <<world, mpd, endpoint, alone, dropped, faults, left>>

-----------------------------------------------------------------------------
(* The lookup: MPD, the streams, the winner, and what follows from them.     *)

\* An error ends a command and leaves a status without a player.
LookupFails(r) == Settled(r, Nothing)

\* mpc current.
ReadSong(r) ==
  /\ req[r].pc = "mpd"
  /\ req' = [req EXCEPT ![r].pc = "status", ![r].session = Current]
  /\ UNCHANGED <<world, mpd, endpoint, alone, dropped, faults, left>>

LocalControls(song) ==
  (IF song \/ Current THEN {"play"} ELSE {})
  \cup (IF mpd.state = "playing" THEN {"pause"} ELSE {})
  \cup (IF Current THEN {"stop"} ELSE {})
  \cup (IF Current /\ Len(mpd.queue) > 1 THEN {"next", "prev"} ELSE {})

local_player(r) ==
  [source |-> "mpd", state |-> mpd.state, offers |-> req[r].arg \in LocalControls(req[r].session)]

\* mpc status; mpd_has_session.
ReadStatus(r) ==
  /\ req[r].pc = "status"
  /\ req' = [req EXCEPT ![r].pc = "sources", ![r].session = @ \/ Current,
                        ![r].local = local_player(r)]
  /\ UNCHANGED <<world, mpd, endpoint, alone, dropped, faults, left>>

\* mpc that exits with an error means there is no session; mpc that does not
\* answer at all fails a command, and so does a status without its volumes.
MpdUnavailable(r) ==
  /\ req[r].pc \in {"mpd", "status"}
  /\ Fault
  /\ \/ req' = [req EXCEPT ![r].pc = "sources", ![r].session = FALSE]
     \/ End(r, "failed")
  /\ UNCHANGED <<world, mpd, endpoint, alone, dropped, left>>

\* MPD keeps a silent stream when it has stopped.
active_sources(r) ==
  /\ req[r].pc = "sources"
  /\ req' = [req EXCEPT ![r].pc = "winner",
                        ![r].sources = {s \in streams : s = "mpd" => req[r].session}]
  /\ UNCHANGED <<world, mpd, endpoint, alone, dropped, faults, left>>

\* Taken for no sources at all.
SourcesUnavailable(r) ==
  /\ req[r].pc = "sources"
  /\ Fault
  /\ Goto(r, "winner")
  /\ UNCHANGED <<world, mpd, endpoint, alone, dropped, left>>

external_fallback(r) == [source |-> "external", state |-> "playing", offers |-> FALSE]

\* The first of the two ways to go: the winner's player, or failing a winner
\* the search for one that plays.
Decide(r, w) ==
  CASE w = "mpd" /\ req[r].session -> Settled(r, req[r].local)
    [] w \in req[r].sources \cap Receivers ->
         req' = [req EXCEPT ![r].pc = "ask", ![r].todo = {w}, ![r].sources = {}]
    [] w = "dlna" /\ w \in req[r].sources ->
         req' = [req EXCEPT ![r].pc = "cache", ![r].goal = "player", ![r].sources = {}]
    [] w \in req[r].sources \ (Receivers \cup {"dlna", "mpd"}) -> Settled(r, external_fallback(r))
    [] OTHER -> req' = [req EXCEPT ![r].pc = "names", ![r].sources = {}]

\* Mutant: a winner whose player does not answer is passed over.
MutantSilent(r) == Goto(r, "names")

\* The winner's player does not answer.
Silent(r) == Settled(r, external_fallback(r))

ReadWinner(r) ==
  /\ req[r].pc = "winner"
  /\ Decide(r, winner)
  /\ UNCHANGED <<world, mpd, endpoint, alone, dropped, faults, left>>

\* Whether the player offers the action, which only a command is told.
Offered(r) == {FALSE, req[r].strict}

\* The winning receiver's player, with the controls it says it has.
mpris_player(r) ==
  /\ req[r].pc = "ask"
  /\ \E s \in req[r].todo :
       \/ receiver[s] = "gone" /\ Silent(r)
       \/ /\ receiver[s] # "gone"
          /\ \E can \in Offered(r) :
               Settled(r, [source |-> s, state |-> receiver[s], offers |-> can])
  /\ UNCHANGED <<world, mpd, endpoint, alone, dropped, faults, left>>

\* With no winner to show: which receivers are there, none if it cannot be told.
mpris_names(r) ==
  /\ req[r].pc = "names"
  /\ req' = [req EXCEPT ![r].pc = "scan",
                        ![r].todo = {s \in Receivers : receiver[s] # "gone"}]
  /\ UNCHANGED <<world, mpd, endpoint, alone, dropped, faults, left>>

\* Spotify first; one that neither plays nor pauses is passed over.
ScanReceiver(r) ==
  LET s == IF "spotify" \in req[r].todo THEN "spotify" ELSE "airplay"
  IN  /\ req[r].pc = "scan"
      /\ \/ req[r].todo = {} /\ Goto(r, "known")
         \/ /\ req[r].todo # {}
            /\ \/ /\ receiver[s] \in {"playing", "paused"}
                  /\ \E can \in Offered(r) :
                       Settled(r, [source |-> s, state |-> receiver[s], offers |-> can])
               \/ /\ receiver[s] \notin {"playing", "paused"}
                  /\ req' = [req EXCEPT ![r].todo = @ \ {s}]
      /\ UNCHANGED <<world, mpd, endpoint, alone, dropped, faults, left>>

\* D-Bus does not answer.
MprisUnavailable(r) ==
  /\ req[r].pc \in {"ask", "names", "scan"}
  /\ Fault
  /\ CASE req[r].pc = "names" -> Goto(r, "known")
       [] req[r].pc = "ask" -> Silent(r) \/ LookupFails(r)
       [] OTHER -> LookupFails(r)
  /\ UNCHANGED <<world, mpd, endpoint, alone, dropped, left>>

LastResort(r) == IF req[r].session THEN req[r].local ELSE Nothing

-----------------------------------------------------------------------------
(* The DLNA client.                                                          *)

\* The cached endpoint, or the first to try.  A request that reads the cache
\* after a lost call has been answered for is fresh.
discover_endpoint(r) ==
  /\ req[r].pc = "cache"
  /\ req' = [req EXCEPT ![r].pc = IF endpoint = None THEN "probe" ELSE "call",
                        ![r].at = IF endpoint = None THEN Endpoints[1] ELSE endpoint,
                        ![r].fresh = dropped]
  /\ UNCHANGED <<world, mpd, endpoint, alone, dropped, faults, left>>

\* No endpoint: no player, and for a command an error.
Nowhere(r) == IF req[r].goal = "invoke" THEN End(r, "failed") ELSE Silent(r)

NextEndpoint(r) ==
  LET later == {i \in DOMAIN Endpoints : i > 1 /\ Endpoints[i - 1] = req[r].at}
  IN  IF later = {} THEN Nowhere(r)
      ELSE \E i \in later : req' = [req EXCEPT ![r].at = Endpoints[i]]

\* An endpoint that does not answer, or not in time, is passed over.
Probe(r) ==
  /\ req[r].pc = "probe"
  /\ \/ renderer.at = req[r].at /\ Goto(r, "store") /\ NoFault
     \/ NextEndpoint(r) /\ IF renderer.at = req[r].at THEN Fault ELSE NoFault
  /\ UNCHANGED <<world, mpd, endpoint, alone, dropped, left>>

\* The renderer may have moved since it answered the probe.
Store(r) ==
  /\ req[r].pc = "store"
  /\ endpoint' = req[r].at
  /\ dropped' = (dropped /\ req[r].at = renderer.at)
  /\ Goto(r, "call")
  /\ UNCHANGED <<world, mpd, alone, faults, left>>

\* The search for a player asks the renderer only where it is cached.
known_player(r) ==
  /\ req[r].pc = "known"
  /\ IF endpoint = None THEN Settled(r, LastResort(r))
     ELSE req' = [req EXCEPT ![r].pc = "call", ![r].goal = "known", ![r].at = endpoint,
                             ![r].fresh = dropped]
  /\ UNCHANGED <<world, mpd, endpoint, alone, dropped, faults, left>>

Reached(r) == req[r].pc = "call" /\ req[r].at = renderer.at /\ req[r].at # None

\* The three calls for the player's state and the actions it offers.
player_at(r) ==
  /\ Reached(r)
  /\ req[r].goal # "invoke"
  /\ \/ /\ req[r].goal = "known" /\ renderer.state = "stopped"
        /\ Settled(r, LastResort(r))
     \/ /\ req[r].goal = "player" \/ renderer.state # "stopped"
        /\ \E can \in Offered(r) :
             Settled(r, [source |-> "dlna", state |-> renderer.state, offers |-> can])
  /\ UNCHANGED <<world, mpd, endpoint, alone, dropped, faults, left>>

\* What a command makes of a player's state.
After(state, action) ==
  CASE action = "play" -> "playing"
    [] action = "pause" -> "paused"
    [] action = "stop" -> "stopped"
    [] OTHER -> state

\* One command of the transport, or a new address, a next one or a seek.
invoke(r) ==
  /\ Reached(r)
  /\ req[r].goal = "invoke"
  /\ renderer' = [renderer EXCEPT !.state = After(@, req[r].arg)]
  /\ Sends(r, "dlna", "ok")
  /\ UNCHANGED <<mode, winner, streams, receiver, events, mpd, endpoint, alone, dropped,
                 faults, left>>

\* The renderer is not there, or it answers with an error.
CallFails(r) ==
  /\ req[r].pc = "call"
  /\ IF Reached(r) THEN Fault ELSE NoFault
  /\ req' = [req EXCEPT ![r].pc = "drop", ![r].sent = IF req[r].goal = "invoke" THEN "dlna" ELSE @]
  /\ UNCHANGED <<world, mpd, endpoint, alone, dropped, left>>

\* Mutant: the endpoint is kept.
MutantKept(at) == endpoint

\* Only the endpoint the call went to is dropped from the cache.
Kept(at) == IF endpoint = at THEN None ELSE endpoint

invalidate_endpoint(r) ==
  /\ req[r].pc = "drop"
  /\ endpoint' = Kept(req[r].at)
  /\ dropped' = (dropped \/ endpoint = req[r].at)
  /\ CASE req[r].goal = "invoke" -> End(r, "failed")
       [] req[r].goal = "known" -> Settled(r, LastResort(r))
       [] OTHER -> Silent(r)
  /\ UNCHANGED <<world, mpd, alone, faults, left>>

-----------------------------------------------------------------------------
(* The commands of a lookup that has settled on MPD or a receiver.           *)

CommandMpd(r) ==
  /\ req[r].pc = "command" /\ req[r].target = "mpd"
  /\ mpd' = [mpd EXCEPT !.state = IF Current \/ (req[r].arg = "play" /\ mpd.queue # <<>>)
                                  THEN After(@, req[r].arg) ELSE @]
  /\ Sends(r, "mpd", "ok")
  /\ alone' = {}
  /\ UNCHANGED <<world, endpoint, dropped, faults, left>>

\* spotifyd may go on playing after Stop, so its process is ended.
CommandReceiver(r) ==
  LET s == req[r].target
  IN  /\ req[r].pc = "command" /\ s \in Receivers
      /\ \/ receiver[s] = "gone" /\ Sends(r, s, "failed") /\ UNCHANGED receiver
         \/ /\ receiver[s] # "gone"
            /\ receiver' = [receiver EXCEPT ![s] = After(@, req[r].arg)]
            /\ Sends(r, s, IF s = "spotify" /\ req[r].arg = "stop" THEN "terminate" ELSE "ok")
      /\ UNCHANGED <<mode, winner, streams, renderer, events, mpd, endpoint, alone, dropped,
                     faults, left>>

terminate_receiver_streams(r) ==
  /\ req[r].pc = "terminate"
  /\ receiver' = [receiver EXCEPT !["spotify"] = IF "spotify" \in streams THEN "gone" ELSE @]
  /\ streams' = streams \ {"spotify"}
  /\ End(r, "ok")
  /\ UNCHANGED <<mode, winner, renderer, events, mpd, endpoint, alone, dropped, faults, left>>

-----------------------------------------------------------------------------
(* The library and the queue: a sequence of mpc's.                           *)

\* The file or playlist is looked for before anything is changed.
CheckLibrary(r) ==
  /\ req[r].pc = "library"
  /\ Goto(r, "clear") \/ End(r, "failed")
  /\ UNCHANGED <<world, mpd, endpoint, alone, dropped, faults, left>>

\* Mutant: what MPD has queued is left there.
MutantEmptied(queue) == [state |-> "stopped", queue |-> queue]

Emptied(queue) == [state |-> "stopped", queue |-> <<>>]

Clear(r) ==
  /\ req[r].pc = "clear"
  /\ mpd' = Emptied(mpd.queue)
  /\ alone' = {r}
  /\ IF req[r].op = "clear_queue" THEN Sends(r, "mpd", "ok")
     ELSE req' = [req EXCEPT ![r].pc = "add", ![r].sent = "mpd"]
  /\ UNCHANGED <<world, endpoint, dropped, faults, left>>

\* mpc update, which leaves the queue alone.
Update(r) ==
  /\ req[r].pc = "update"
  /\ Sends(r, "mpd", "ok")
  /\ UNCHANGED <<world, mpd, endpoint, alone, dropped, faults, left>>

\* mpc add, or load for a playlist.
Add(r) ==
  /\ req[r].pc = "add"
  /\ mpd' = [mpd EXCEPT !.queue = @ \o Songs[req[r].arg]]
  /\ alone' = alone \cap {r}
  /\ Goto(r, "play")
  /\ UNCHANGED <<world, endpoint, dropped, faults, left>>

Play(r) ==
  /\ req[r].pc = "play"
  /\ mpd' = [mpd EXCEPT !.state = IF mpd.queue = <<>> THEN @ ELSE "playing"]
  /\ alone' = alone \cap {r}
  /\ End(r, "ok")
  /\ UNCHANGED <<world, endpoint, dropped, faults, left>>

\* The position is looked up, and refused when there is none such.
ListQueue(r) ==
  /\ req[r].pc = "list"
  /\ IF req[r].arg \in 1..Len(mpd.queue) THEN Goto(r, "act") ELSE End(r, "failed")
  /\ UNCHANGED <<world, mpd, endpoint, alone, dropped, faults, left>>

\* mpc play and mpc del with the number, whatever is there by now.
ActOnPosition(r) ==
  LET n == req[r].arg
      rest == SubSeq(mpd.queue, 1, n - 1) \o SubSeq(mpd.queue, n + 1, Len(mpd.queue))
  IN  /\ req[r].pc = "act"
      /\ \/ n > Len(mpd.queue) /\ Sends(r, "mpd", "failed") /\ UNCHANGED <<mpd, alone>>
         \/ /\ n <= Len(mpd.queue)
            /\ mpd' = CASE req[r].op = "play_queue" -> [mpd EXCEPT !.state = "playing"]
                        [] req[r].op = "remove_queue" /\ rest = <<>> -> [state |-> "stopped", queue |-> <<>>]
                        [] OTHER -> [mpd EXCEPT !.queue = rest]
            /\ alone' = {}
            /\ Sends(r, "mpd", "ok")
      /\ UNCHANGED <<world, endpoint, dropped, faults, left>>

\* A command that fails has not acted and ends its request where it stands;
\* what was done before it remains done.  So does the check when the settings
\* cannot be read.
CommandFails(r) ==
  /\ req[r].pc \in {"check", "recheck", "library", "clear", "add", "play", "list", "act",
                    "update", "command", "terminate"}
  /\ Fault
  /\ Sends(r, IF req[r].pc \in {"check", "recheck", "library", "list"} THEN None
              ELSE IF req[r].pc = "command" THEN req[r].target
              ELSE IF req[r].pc = "terminate" THEN "spotify" ELSE "mpd", "failed")
  /\ UNCHANGED <<world, mpd, endpoint, alone, dropped, left>>

-----------------------------------------------------------------------------
(* The world the requests run in.                                            *)
Event == Eventful /\ events' = events + 1

PriorityChanges ==
  /\ Event
  /\ mode' \in {"normal", "alert", "minute"} \ {mode}
  /\ UNCHANGED <<winner, streams, receiver, renderer, mpd, endpoint, req, alone, dropped,
                 faults, left>>

SourceChanges ==
  /\ Event
  /\ \E s \in Sources : streams' \in {streams \cup {s}, streams \ {s}} \ {streams}
  /\ UNCHANGED <<mode, winner, receiver, renderer, mpd, endpoint, req, alone, dropped,
                 faults, left>>

\* SourceArbiter: the newest of the streams it last saw.
WinnerChanges ==
  /\ Event
  /\ winner' \in (streams \cup {None}) \ {winner}
  /\ UNCHANGED <<mode, streams, receiver, renderer, mpd, endpoint, req, alone, dropped,
                 faults, left>>

ReceiverChanges ==
  /\ Event
  /\ \E s \in Receivers \cap Sources : \E now \in {"gone", "playing"} \ {receiver[s]} :
       receiver' = [receiver EXCEPT ![s] = now]
  /\ UNCHANGED <<mode, winner, streams, renderer, mpd, endpoint, req, alone, dropped,
                 faults, left>>

\* The renderer starts on another endpoint, or it goes.
RendererMoves ==
  /\ Event
  /\ \E at \in (Places \cup {None}) \ {renderer.at} :
       renderer' = [renderer EXCEPT !.at = at]
  /\ dropped' = FALSE
  /\ req' = [r \in Requests |-> [req[r] EXCEPT !.fresh = FALSE]]
  /\ UNCHANGED <<mode, winner, streams, receiver, mpd, endpoint, alone, faults, left>>

\* The songs come to an end, or another client of MPD starts one.
MpdChanges ==
  /\ Event
  /\ \/ Current /\ mpd' = [mpd EXCEPT !.state = "stopped"]
     \/ \E i \in Items : mpd' = [state |-> "playing", queue |-> Songs[i]]
  /\ mpd' # mpd
  /\ alone' = {}
  /\ UNCHANGED <<mode, winner, streams, receiver, renderer, endpoint, req, dropped, faults, left>>

PlayerStep ==
  \/ \E r \in Requests :
       \/ status(r) \/ player(r) \/ onepause(r) \/ soap_control(r)
       \/ play_file(r) \/ load_playlist(r) \/ play_stream(r) \/ play_url(r)
       \/ play_queue(r) \/ remove_queue(r) \/ clear_queue(r)
       \/ refresh_library(r)
       \/ ensure_controls_available(r)
       \/ ReadSong(r) \/ ReadStatus(r) \/ MpdUnavailable(r)
       \/ active_sources(r) \/ SourcesUnavailable(r) \/ ReadWinner(r)
       \/ mpris_player(r) \/ mpris_names(r) \/ ScanReceiver(r) \/ MprisUnavailable(r)
       \/ discover_endpoint(r) \/ Probe(r) \/ Store(r) \/ known_player(r)
       \/ player_at(r) \/ invoke(r) \/ CallFails(r) \/ invalidate_endpoint(r)
       \/ CommandMpd(r) \/ CommandReceiver(r)
       \/ terminate_receiver_streams(r)
       \/ CheckLibrary(r) \/ Clear(r) \/ Add(r) \/ Play(r) \/ Update(r)
       \/ ListQueue(r) \/ ActOnPosition(r) \/ CommandFails(r)
  \/ PriorityChanges \/ SourceChanges \/ WinnerChanges
  \/ ReceiverChanges \/ RendererMoves \/ MpdChanges

\* The players outlive the daemon, its requests and its cache do not.
PlayerRestarts ==
  /\ Eventful
  /\ endpoint' = None
  /\ req' = [r \in Requests |-> NoRequest]
  /\ alone' = {} /\ dropped' = FALSE
  /\ UNCHANGED <<world, mpd, faults>>

Running(r) == req[r].pc \notin {"idle", "ok", "failed"}

Began(r) == ~Running(r) /\ Running(r)'

\* What is watched of every request, step by step.
Watch ==
  /\ barred' = {r \in Requests : (Began(r) \/ r \in barred) /\ Blocked'}
  /\ steady' = {r \in Requests :
       /\ Began(r) \/ (r \in steady /\ winner' = winner /\ faults' = faults)
       /\ winner' \in streams' /\ (winner' = "mpd" => Current')}

SettingsChange ==
  StoreStep /\ UNCHANGED <<world, mpd, endpoint, req, alone, dropped, faults>> /\ Watch

PlayersMove == PlayerStep /\ UNCHANGED <<file, token, put, poll, turn, kept, crashes>> /\ Watch

Crash == (ProcessDies \/ PowerLoss) /\ PlayerRestarts /\ Watch

Next == SettingsChange \/ PlayersMove \/ Crash

Spec == Init /\ [][Next]_vars

-----------------------------------------------------------------------------
\* A request that has found the controls blocked ever since it arrived sends
\* no command to any player, by whichever way it came and whatever it looked
\* up; blocked is what the priority and the settings in effect say together.
RefusedWhileBlocked == \A r \in barred : req[r].sent = None

\* A player command goes to the winner or nowhere, when the winner kept its
\* stream (and MPD its song) while the request looked for it and no query
\* failed: a player in the background, however it has changed meanwhile, is
\* never the one that is paused.
SteadyTarget ==
  \A r \in steady :
    req[r].op \in {"player", "onepause"} /\ req[r].sent # None => req[r].sent = winner

\* While the renderer stays where it is, one lost call is enough: a request
\* that begins with the DLNA client after a call to a dead endpoint has been
\* answered for never calls a dead endpoint itself, however many requests
\* discover, call and drop at once.
OneLostCall ==
  \A r \in Requests : req[r].pc = "call" /\ req[r].fresh => req[r].at = renderer.at

\* A request to play that was answered with success and that nobody touched
\* the queue beside has MPD playing what was asked for, all of it and nothing
\* else.
PlaysWhatItSays ==
  \A r \in alone :
    req[r].pc = "ok" /\ req[r].op \in PlayOps =>
      mpd = [state |-> "playing", queue |-> Songs[req[r].arg]]
=============================================================================
