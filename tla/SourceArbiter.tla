---------------------------- MODULE SourceArbiter ----------------------------
(* src/src/source_arbiter.rs: of the programme streams on MUSIC one may be   *)
(* heard.  A pass lists the streams, chooses a source, corrects mutes and    *)
(* gains call by call, stops the sources that lost and remembers what it     *)
(* saw; streams come and go at every step of it.                             *)
(*                                                                           *)
(* Streams are numbered in the order the sound server creates them.  A       *)
(* stream without a writable volume counts as one at unity.  The winner and  *)
(* the copy of it shared with the API are written together and are one here. *)
EXTENDS Naturals

CONSTANTS
  Sources,      \* what source_key tells apart
  Commanded,    \* sources with a Stop command: MPD, and MPRIS players
  Receivers,    \* sources whose processes are terminated
  None,
  MaxStream,    \* bound: streams created
  MaxEvents     \* bound: what streams and users do, failing calls, restarts

Streams == 1..MaxStream

ASSUME ArbiterAssumption ==
  /\ None \notin Sources
  /\ Commanded \subseteq Sources /\ Receivers \subseteq Sources
  /\ MaxStream \in Nat /\ MaxEvents \in Nat

VARIABLES
  state,      \* stream -> "absent", "corked" or "playing"
  source,     \* stream -> its source, once it has been created
  muted,      \* stream -> its mute flag
  unity,      \* stream -> is its volume 100 %
  created,    \* number of streams created
  condemned,  \* streams whose player was told to stop
  pc,         \* where the arbiter is in its pass
  winner,     \* SourceArbiter.winner
  active,     \* SourceArbiter.active_streams
  seen,       \* the streams of the pass: playing when it listed them
  todo,       \* corrections still to be made
  losers,     \* sources still to be stopped
  touched,    \* history: streams someone else, or a failing call, left otherwise since the list
  fresh,      \* history: streams created playing since the list
  resumed,    \* history: streams that went on playing since the list
  quiet,      \* history: nothing happened since the list
  events      \* history: events so far

server == <<state, source, muted, unity, created>>
arbiter == <<pc, winner, active, seen, todo, losers>>
history == <<touched, fresh, resumed, quiet, events>>
vars == <<server, condemned, arbiter, history>>

Playing == {i \in Streams : state[i] = "playing"}
Of(S) == {source[i] : i \in S}

Init ==
  /\ state = [i \in Streams |-> "absent"]
  /\ source = [i \in Streams |-> None]
  /\ muted = [i \in Streams |-> FALSE]
  /\ unity = [i \in Streams |-> TRUE]
  /\ created = 0 /\ condemned = {}
  /\ pc = "idle" /\ winner = None
  /\ active = {} /\ seen = {} /\ todo = {} /\ losers = {}
  /\ touched = {} /\ fresh = {} /\ resumed = {} /\ quiet = FALSE /\ events = 0

-----------------------------------------------------------------------------
(* A pass. *)

Newest(S) == CHOOSE i \in S : \A j \in S : j <= i

\* Of the sources among candidates, the one with the newest stream.
Latest(view, candidates) == source[Newest({i \in view : source[i] \in candidates})]

\* Mutant: the newest stream wins, whoever has been playing.
MutantNewestWins(view) ==
  IF view \ active # {} THEN Latest(view, Of(view \ active))
  ELSE IF view # {} THEN Latest(view, Of(view))
  ELSE None

ChooseWinner(view) ==
  LET newcomers == Of(view \ active) IN
  IF newcomers # {} THEN Latest(view, newcomers)
  ELSE IF winner \in Of(view) THEN winner
  ELSE IF view # {} THEN Latest(view, Of(view))
  ELSE None

\* The one stream that may be heard: the newest of the winner.
Programme(view, w) == Newest({i \in view : source[i] = w})

\* Mutant: every stream of the winner is heard.
MutantDuplicates(view, w) ==
  {<<i, "mute">> : i \in {j \in view : source[j] # w /\ ~muted[j]}}
    \cup {<<i, "unmute">> : i \in {j \in view : source[j] = w /\ muted[j]}}
    \cup {<<i, "unity">> : i \in {j \in view : source[j] = w /\ ~unity[j]}}

\* Mutant: streams are corrected only when the winner changes.
MutantOnChange(view, w) ==
  LET heard == {i \in view : source[i] = w /\ i = Programme(view, w)} IN
  IF w = winner THEN {}
  ELSE {<<i, "mute">> : i \in {j \in view \ heard : ~muted[j]}}
         \cup {<<i, "unmute">> : i \in {j \in heard : muted[j]}}
         \cup {<<i, "unity">> : i \in {j \in heard : ~unity[j]}}

Corrections(view, w) ==
  LET heard == {i \in view : source[i] = w /\ i = Programme(view, w)} IN
  {<<i, "mute">> : i \in {j \in view \ heard : ~muted[j]}}
    \cup {<<i, "unmute">> : i \in {j \in heard : muted[j]}}
    \cup {<<i, "unity">> : i \in {j \in heard : ~unity[j]}}

Losers(view, w) == IF w = winner \/ w = None THEN {} ELSE Of(view) \ {w}

\* reconcile lists the streams and decides.  When the list cannot be had the
\* pass ends here and nothing changes.
List ==
  /\ pc = "idle"
  /\ pc' = "correcting"
  /\ seen' = Playing
  /\ winner' = ChooseWinner(Playing)
  /\ todo' = Corrections(Playing, winner')
  /\ losers' = Losers(Playing, winner')
  /\ touched' = {} /\ fresh' = {} /\ resumed' = {} /\ quiet' = TRUE
  /\ UNCHANGED <<server, condemned, active, events>>

\* The sources come in no particular order, so neither do the corrections; a
\* stream is unmuted before its gain is set.  A stream that is gone has none.
Correct ==
  /\ pc = "correcting"
  /\ \E c \in todo :
       /\ c[2] = "unity" => <<c[1], "unmute">> \notin todo
       /\ todo' = todo \ {c}
       /\ muted' = [muted EXCEPT ![c[1]] =
            IF state[c[1]] = "absent" \/ c[2] = "unity" THEN @ ELSE c[2] = "mute"]
       /\ unity' = [unity EXCEPT ![c[1]] =
            IF state[c[1]] = "absent" THEN @ ELSE @ \/ c[2] = "unity"]
  /\ UNCHANGED <<state, source, created, condemned, pc, winner, active, seen, losers, history>>

Happens ==
  /\ events < MaxEvents
  /\ events' = events + 1
  /\ quiet' = FALSE

\* A failed correction is logged and the pass goes on.
CorrectFails ==
  /\ pc = "correcting" /\ Happens
  /\ \E c \in todo :
       /\ c[2] = "unity" => <<c[1], "unmute">> \notin todo
       /\ todo' = todo \ {c}
       /\ touched' = touched \cup {c[1]}
  /\ UNCHANGED <<server, condemned, pc, winner, active, seen, losers, fresh, resumed>>

Corrected ==
  /\ pc = "correcting" /\ todo = {}
  /\ pc' = "stopping"
  /\ UNCHANGED <<server, condemned, winner, active, seen, todo, losers, history>>

\* The streams that may go when source s is stopped: a command reaches whatever
\* the player plays by now, a signal the process the list was of, which may have
\* ended if its listed streams have.
Stopped(s) ==
  LET all == {i \in Streams : source[i] = s /\ state[i] # "absent"} IN
  IF s \in Commanded \/ (s \in Receivers /\ all \cap seen # {}) THEN {all}
  ELSE IF s \in Receivers THEN {{}, all} ELSE {{}}

StopSource ==
  /\ pc = "stopping"
  /\ \E s \in losers :
       /\ losers' = losers \ {s}
       /\ \E gone \in Stopped(s) : condemned' = condemned \cup gone
  /\ UNCHANGED <<server, pc, winner, active, seen, todo, history>>

StopFails ==
  /\ pc = "stopping" /\ Happens
  /\ \E s \in losers : losers' = losers \ {s}
  /\ UNCHANGED <<server, condemned, pc, winner, active, seen, todo, touched, fresh, resumed>>

\* Mutant: streams that began during the pass count as seen.
MutantFinish ==
  /\ pc = "stopping" /\ losers = {}
  /\ pc' = "idle"
  /\ active' = Playing
  /\ UNCHANGED <<server, condemned, winner, seen, todo, losers, history>>

\* active_streams are those of the list, not those of now.
Finish ==
  /\ pc = "stopping" /\ losers = {}
  /\ pc' = "idle"
  /\ active' = seen
  /\ UNCHANGED <<server, condemned, winner, seen, todo, losers, history>>

\* The daemon restarts: its arbiter remembers nothing.
Restart ==
  /\ Happens
  /\ pc' = "idle" /\ winner' = None
  /\ active' = {} /\ seen' = {} /\ todo' = {} /\ losers' = {}
  /\ touched' = {} /\ fresh' = {} /\ resumed' = {}
  /\ UNCHANGED <<server, condemned>>

-----------------------------------------------------------------------------
(* The players and the users. *)

\* The server may give a new stream the mute and volume of an earlier one.
Appear ==
  /\ Happens /\ created < MaxStream
  /\ created' = created + 1
  /\ \E s \in Sources, how \in {"corked", "playing"}, m \in BOOLEAN, u \in BOOLEAN :
       /\ state' = [state EXCEPT ![created'] = how]
       /\ source' = [source EXCEPT ![created'] = s]
       /\ muted' = [muted EXCEPT ![created'] = m]
       /\ unity' = [unity EXCEPT ![created'] = u]
       /\ fresh' = IF how = "playing" THEN fresh \cup {created'} ELSE fresh
  /\ UNCHANGED <<condemned, arbiter, touched, resumed>>

Cork ==
  /\ Happens
  /\ \E i \in Playing : state' = [state EXCEPT ![i] = "corked"]
  /\ UNCHANGED <<source, muted, unity, created, condemned, arbiter, touched, fresh, resumed>>

Uncork ==
  /\ Happens
  /\ \E i \in {j \in Streams : state[j] = "corked"} :
       /\ state' = [state EXCEPT ![i] = "playing"]
       /\ resumed' = resumed \cup {i}
  /\ UNCHANGED <<source, muted, unity, created, condemned, arbiter, touched, fresh>>

Gone(i) ==
  /\ state[i] # "absent"
  /\ state' = [state EXCEPT ![i] = "absent"]
  /\ condemned' = condemned \ {i}
  /\ UNCHANGED <<source, muted, unity, created, arbiter, touched, fresh, resumed>>

Vanish == Happens /\ \E i \in Streams : Gone(i)

\* A player that was stopped closes its stream.
Close ==
  /\ \E i \in condemned : Gone(i)
  /\ quiet' = FALSE /\ UNCHANGED events

\* A player or a user changes a stream's mute or volume.
Meddle ==
  /\ Happens
  /\ \E i \in Streams :
       /\ state[i] # "absent"
       /\ touched' = touched \cup {i}
       /\ \/ muted' = [muted EXCEPT ![i] = ~@] /\ UNCHANGED unity
          \/ unity' = [unity EXCEPT ![i] = ~@] /\ UNCHANGED muted
  /\ UNCHANGED <<state, source, created, condemned, arbiter, fresh, resumed>>

-----------------------------------------------------------------------------
Arbiter == List \/ Correct \/ Corrected \/ StopSource \/ Finish

Next ==
  \/ Arbiter
  \/ CorrectFails \/ StopFails \/ Restart
  \/ Appear \/ Cork \/ Uncork \/ Vanish \/ Close \/ Meddle

\* A pass starts at the latest after the two seconds of the heartbeat, each
\* of its calls has a timeout, and a player told to stop does.
Fairness == WF_vars(Arbiter) /\ WF_vars(Close)

Spec == Init /\ [][Next]_vars /\ Fairness

-----------------------------------------------------------------------------
(* Properties *)

Corrects == {"mute", "unmute", "unity"}

\* Types.  Between passes the winner is a source of the list, if there is one.
TypeOK ==
  /\ state \in [Streams -> {"absent", "corked", "playing"}]
  /\ source \in [Streams -> Sources \cup {None}]
  /\ muted \in [Streams -> BOOLEAN]
  /\ unity \in [Streams -> BOOLEAN]
  /\ created \in 0..MaxStream
  /\ condemned \subseteq Streams
  /\ pc \in {"idle", "correcting", "stopping"}
  /\ winner \in IF seen = {} THEN {None} ELSE Of(seen)
  /\ active \subseteq Streams /\ seen \subseteq Streams
  /\ todo \subseteq seen \X Corrects
  /\ losers \subseteq Sources
  /\ touched \subseteq Streams /\ fresh \subseteq Streams /\ resumed \subseteq Streams
  /\ quiet \in BOOLEAN /\ events \in 0..MaxEvents

\* After a pass, whatever streams came and went and whatever else failed
\* during it, every stream of its list that nobody else touched is silent,
\* but for the newest one of the winner, which is heard at unity.
PassIsExclusive ==
  pc = "idle" =>
    \A i \in active \ touched :
      state[i] # "absent" =>
        IF source[i] = winner /\ i = Programme(active, winner)
        THEN ~muted[i] /\ unity[i]
        ELSE muted[i]

\* A source that begins to play is not overlooked, even when it begins in the
\* middle of a pass: the next list makes it, or another that began, the winner.
NewStreamWins ==
  [][List =>
       LET begun == {i \in fresh : state[i] = "playing"} IN
       begun # {} => winner' \in Of(begun \cup resumed)]_vars

\* A pass after one in which nothing happened finds nothing to do: sources
\* do not take turns.
Settles == [][List /\ quiet => winner' = winner /\ todo' = {}]_vars

\* When the players leave off, one stream of those that play is heard, at
\* unity, for good: failed corrections and meddling are made up for.
OneHeard ==
  LET heard == {i \in Playing : ~muted[i]} IN
  /\ Playing # {} => heard # {}
  /\ \A i, j \in heard : i = j /\ unity[i]

ExclusiveAtLast == <>[]OneHeard
=============================================================================
