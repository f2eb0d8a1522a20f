--------------------------- MODULE SettingsStore ---------------------------
(* The settings a user changes while the daemon runs: the audio settings,    *)
(* the alert provider's settings and its token, three small files that lie   *)
(* over the configuration (src/src/config.rs), written by two handlers of    *)
(* the API (src/src/api/backend.rs) and read on every use.  Nothing is kept  *)
(* in memory and no lock is taken, so handlers and readers interleave; the   *)
(* files are DurableFile's, one cell each: what a reader finds now and what  *)
(* a power loss may leave.                                                   *)
EXTENDS Naturals

CONSTANTS
  Puts,        \* requests that change settings, at most one each at a time
  KeysOf,      \* file -> the settings it holds
  Values,
  Allowed,     \* the values the validation accepts
  Base,        \* file -> the settings of the configuration below it
  Bodies,      \* what is asked for: [file, change, token]
  MaxRequests, \* bound: requests and polls
  MaxCrashes,  \* bound: deaths of the process or of the power
  Unknown      \* no value

Files == {"audio", "provider"}
Fields(f) == [KeysOf[f] -> Values]
Body == [file : Files, change : UNION {[K -> Values] : K \in SUBSET UNION {KeysOf[f] : f \in Files}},
         token : BOOLEAN]

ASSUME SettingsAssumption ==
  /\ \A f \in Files : Base[f] \in [KeysOf[f] -> Allowed]
  /\ Allowed \subseteq Values /\ Unknown \notin Values
  /\ \A b \in Bodies : /\ b \in Body /\ DOMAIN b.change \subseteq KeysOf[b.file]
                       /\ b.token => b.file = "provider"
  /\ MaxRequests \in Nat /\ MaxCrashes \in Nat

VARIABLES
  file,    \* f -> [now, stable], of [fields, needs]: the settings and, for the
           \* properties only, the token they were saved with, by its turn
  token,   \* [now, stable], of turns: which token the token file holds
  put,     \* handler -> [pc, body, draft, stale]
  poll,    \* the provider's poll: [pc, needs, token]
  turn,    \* ghost: tokens written so far, 0 the installed one
  kept,    \* ghost: f -> setting -> the acknowledged value no overlapping
           \* request has written over, Unknown when there is none
  left,    \* requests and polls still to come
  crashes

storeVars == <<file, token, put, poll, turn, kept, left, crashes>>

Cell(v) == [now |-> v, stable |-> {v}]
Commit(cell, v) == [now |-> v, stable |-> cell.stable \cup {v}]
Settle(cell) == Cell(cell.now)

NoPut == [pc |-> "idle", body |-> Unknown, draft |-> Unknown, stale |-> {}]
NoPoll == [pc |-> "idle", needs |-> 0, token |-> 0]
PutEnds(p) == put' = [put EXCEPT ![p] = NoPut]

\* A missing file and one that repeats the configuration say the same.
StoreInit ==
  /\ file = [f \in Files |-> Cell([fields |-> Base[f], needs |-> 0])]
  /\ token = Cell(0)
  /\ put = [p \in Puts |-> NoPut]
  /\ poll = NoPoll
  /\ turn = 0
  /\ kept = [f \in Files |-> [k \in KeysOf[f] |-> Unknown]]
  /\ left = MaxRequests /\ crashes = 0

Put(p, b) ==
  /\ put[p].pc = "idle"
  /\ left > 0
  /\ left' = left - 1
  /\ put' = [put EXCEPT ![p] = [NoPut EXCEPT !.pc = "read", !.body = b]]
  /\ UNCHANGED <<file, token, poll, turn, kept, crashes>>

\* effective_audio and effective_provider.
Effective(f) == file[f].now

\* The body's settings over the ones in effect.
Apply(fields, change) ==
  [k \in DOMAIN fields |-> IF k \in DOMAIN change THEN change[k] ELSE fields[k]]

\* Mutant: the body laid over the configuration, not over what is in effect.
MutantDraft(p) ==
  LET f == put[p].body.file
  IN  [Effective(f) EXCEPT !.fields = Apply(Base[f], put[p].body.change)]

Draft(p) ==
  LET current == Effective(put[p].body.file)
  IN  [current EXCEPT !.fields = Apply(@, put[p].body.change)]

Valid(fields) == \A k \in DOMAIN fields : fields[k] \in Allowed

\* Settings that do not validate are refused and nothing is written.
ReadCurrent(p) ==
  /\ put[p].pc = "read"
  /\ \/ /\ Valid(Draft(p).fields)
        /\ put' = [put EXCEPT ![p].draft = Draft(p),
                              ![p].pc = IF put[p].body.token THEN "token" ELSE "save"]
     \/ /\ ~Valid(Draft(p).fields)
        /\ PutEnds(p)
  /\ UNCHANGED <<file, token, poll, turn, kept, left, crashes>>

WriteToken(p) ==
  /\ put[p].pc = "token"
  /\ turn' = turn + 1
  /\ token' = Commit(token, turn')
  /\ put' = [put EXCEPT ![p].pc = "tokened", ![p].draft.needs = turn']
  /\ UNCHANGED <<file, poll, kept, left, crashes>>

\* Mutant: the settings are written while the token is still on its way.
MutantTokenWritten(p) ==
  /\ put[p].pc = "tokened"
  /\ put' = [put EXCEPT ![p].pc = "save"]
  /\ UNCHANGED <<file, token, poll, turn, kept, left, crashes>>

TokenWritten(p) ==
  /\ put[p].pc = "tokened"
  /\ token' = Settle(token)
  /\ put' = [put EXCEPT ![p].pc = "save"]
  /\ UNCHANGED <<file, poll, turn, kept, left, crashes>>

Forget(f, keys) ==
  [kept EXCEPT ![f] = [k \in KeysOf[f] |-> IF k \in keys THEN Unknown ELSE kept[f][k]]]

\* All the settings of the file are written, the ones the request did not
\* mention as it read them.
WriteSettings(p) ==
  LET f == put[p].body.file
  IN  /\ put[p].pc = "save"
      /\ file' = [file EXCEPT ![f] = Commit(file[f], put[p].draft)]
      /\ kept' = Forget(f, DOMAIN put[p].body.change \cup put[p].stale)
      /\ put' = [put EXCEPT ![p].pc = "saved"]
      /\ UNCHANGED <<token, poll, turn, left, crashes>>

\* The settings of the body that are still in effect count as kept, and a
\* request of the same file that has already read is behind on them.
SettingsWritten(p) ==
  LET f == put[p].body.file
      change == put[p].body.change
      lasting == {k \in DOMAIN change : file[f].now.fields[k] = change[k]}
      behind == {q \in Puts : put[q].pc \notin {"idle", "read"} /\ put[q].body.file = f}
  IN  /\ put[p].pc = "saved"
      /\ file' = [file EXCEPT ![f] = Settle(file[f])]
      /\ kept' = [kept EXCEPT ![f] =
           [k \in KeysOf[f] |-> IF k \in lasting THEN change[k] ELSE kept[f][k]]]
      /\ put' = [q \in Puts |->
           IF q = p THEN NoPut
           ELSE IF q \in behind THEN [put[q] EXCEPT !.stale = @ \cup lasting] ELSE put[q]]
      /\ UNCHANGED <<token, poll, turn, left, crashes>>

\* Reading or writing failed, before or after the replacement took place.
PutFails(p) ==
  /\ put[p].pc # "idle"
  /\ PutEnds(p)
  /\ UNCHANGED <<file, token, poll, turn, kept, left, crashes>>

\* A poll, and the test of the settings, reads the settings and then the token.
ReadSettings ==
  /\ poll.pc # "token"
  /\ left > 0
  /\ left' = left - 1
  /\ poll' = [pc |-> "token", needs |-> Effective("provider").needs, token |-> 0]
  /\ UNCHANGED <<file, token, put, turn, kept, crashes>>

resolve_token ==
  /\ poll.pc = "token"
  /\ poll' = [poll EXCEPT !.pc = "sent", !.token = token.now]
  /\ UNCHANGED <<file, token, put, turn, kept, left, crashes>>

Restart ==
  /\ crashes < MaxCrashes
  /\ crashes' = crashes + 1
  /\ put' = [p \in Puts |-> NoPut]
  /\ poll' = NoPoll
  /\ UNCHANGED <<turn, kept, left>>

ProcessDies == Restart /\ UNCHANGED <<file, token>>

PowerLoss ==
  /\ Restart
  /\ \E a \in file["audio"].stable, s \in file["provider"].stable :
       file' = [f \in Files |-> Cell(IF f = "audio" THEN a ELSE s)]
  /\ \E t \in token.stable : token' = Cell(t)

StoreStep ==
  \/ \E p \in Puts, b \in Bodies : Put(p, b)
  \/ \E p \in Puts :
       \/ ReadCurrent(p) \/ WriteToken(p) \/ TokenWritten(p)
       \/ WriteSettings(p) \/ SettingsWritten(p) \/ PutFails(p)
  \/ ReadSettings \/ resolve_token

StoreNext == StoreStep \/ ProcessDies \/ PowerLoss

StoreSpec == StoreInit /\ [][StoreNext]_storeVars

-----------------------------------------------------------------------------
\* What a reader may find in a file, now or after a power loss.
Possible(cell) == {cell.now} \cup cell.stable

\* A poll never sends the provider's settings with a token older than the one
\* saved together with them: the token is written, and acknowledged, before
\* the settings and read after them, so neither overlapping requests nor a
\* power loss between the two writes tear the pair that way.
TokenKeepsUp == poll.pc = "sent" => poll.token >= poll.needs

\* A setting whose change was acknowledged is what every reader finds, and
\* what a power loss leaves, until a request that changes it or one that
\* overlapped the change writes: a request preserves all it read, and only
\* the handlers' missing lock can lose a change.
LostOnlyToOverlap ==
  \A f \in Files : \A k \in KeysOf[f] :
    kept[f][k] # Unknown =>
      \A v \in Possible(file[f]) : v.fields[k] = kept[f][k]
=============================================================================
