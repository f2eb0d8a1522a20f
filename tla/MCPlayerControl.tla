-------------------------- MODULE MCPlayerControl --------------------------
(* An instance of PlayerControl for TLC: two tasks, two settings handlers and *)
(* three evenings to start from.                                             *)
EXTENDS PlayerControl, TLC

SettingsOf == [f \in Files |-> IF f = "audio" THEN {"talkover", "duck"} ELSE {"endpoint", "interval"}]
Installed == [f \in Files |-> [k \in SettingsOf[f] |-> "off"]]
Change(f, k, v, t) == [file |-> f, change |-> k :> v, token |-> t]
Changes == {
  Change("audio", "talkover", "on", FALSE), Change("audio", "duck", "on", FALSE),
  Change("audio", "duck", "bad", FALSE),
  Change("provider", "endpoint", "on", TRUE), Change("provider", "interval", "on", FALSE)}

Requested == [
  status |-> {None}, player |-> {"pause", "stop"}, onepause |-> {None}, soap |-> {"pause"},
  play_file |-> {"song"}, load_playlist |-> {"album"}, play_stream |-> {"song"},
  play_url |-> {"song"}, play_queue |-> {1}, remove_queue |-> {1}, clear_queue |-> {None},
  refresh_library |-> {None}]

TwoEndpoints == <<"private", "loopback">>
SongsOf == [i \in {"song", "album"} |-> IF i = "song" THEN <<"song">> ELSE <<"song", "album">>]

Quiet == [s \in Receivers |-> "gone"]

\* A renderer playing over a paused MPD, Spotify over a playing one, and MPD
\* with Spotify waiting when an alert is on.
Evenings == {
  [mode |-> "normal", winner |-> "dlna", streams |-> {"dlna", "mpd"},
   mpd |-> [state |-> "paused", queue |-> <<"song">>], receiver |-> Quiet,
   renderer |-> [at |-> "private", state |-> "playing"]],
  [mode |-> "normal", winner |-> "spotify", streams |-> {"spotify", "mpd"},
   mpd |-> [state |-> "playing", queue |-> <<"song">>],
   receiver |-> [Quiet EXCEPT !["spotify"] = "playing"],
   renderer |-> [at |-> "loopback", state |-> "stopped"]],
  [mode |-> "alert", winner |-> "mpd", streams |-> {"spotify", "mpd"},
   mpd |-> [state |-> "playing", queue |-> <<"song", "album">>],
   receiver |-> [Quiet EXCEPT !["spotify"] = "paused"],
   renderer |-> [at |-> None, state |-> "stopped"]]}

Symmetry == Permutations(Requests) \cup Permutations(Puts)
=============================================================================
