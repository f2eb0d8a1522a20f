------------------------ MODULE PlayerControlProofs ------------------------
(* Safety of SettingsStore, for any number of handlers, settings, values and *)
(* requests; then that of PlayerControl, which uses the settings, for any    *)
(* number of requests, players' songs, endpoints and changes of the world.   *)
EXTENDS PlayerControl, SequenceTheorems, TLAPS

-----------------------------------------------------------------------------
(* The settings. *)

Settings == UNION {KeysOf[f] : f \in Files}
Saved == [fields : UNION {Fields(f) : f \in Files}, needs : Nat]
Holding == {"token", "tokened", "save", "saved"}
Handler == [pc : {"idle", "read"} \cup Holding, body : Bodies \cup {Unknown},
            draft : Saved \cup {Unknown}, stale : SUBSET Settings]

FileTypes ==
  /\ file \in [Files -> [now : Saved, stable : SUBSET Saved]]
  /\ \A f \in Files : \A v \in Possible(file[f]) : v.fields \in Fields(f)

PutTypes ==
  /\ put \in [Puts -> Handler]
  /\ \A p \in Puts : put[p].pc # "idle" => put[p].body \in Bodies
  /\ \A p \in Puts : put[p].pc \in Holding =>
       put[p].draft \in Saved /\ put[p].draft.fields \in Fields(put[p].body.file)

TokenTypes ==
  /\ token \in [now : Nat, stable : SUBSET Nat]
  /\ poll \in [pc : {"idle", "token", "sent"}, needs : Nat, token : Nat]
  /\ turn \in Nat

KeptTypes ==
  /\ kept = [f \in Files |-> kept[f]]
  /\ \A f \in Files : kept[f] \in [KeysOf[f] -> Values \cup {Unknown}]

StoreTypes == FileTypes /\ PutTypes /\ TokenTypes /\ KeptTypes

\* No token that may be found is older than what the settings at hand need,
\* but for a draft whose token is still being written.
TokenInv ==
  /\ \A t \in Possible(token) : t <= turn
  /\ \A v \in Possible(file["provider"]), t \in Possible(token) : v.needs <= t
  /\ poll.pc # "idle" => \A t \in Possible(token) : poll.needs <= t
  /\ TokenKeepsUp
  /\ \A p \in Puts : put[p].pc \in Holding /\ put[p].body.file = "provider" =>
       /\ put[p].draft.needs <= token.now
       /\ put[p].pc # "tokened" => \A t \in Possible(token) : put[p].draft.needs <= t

\* What a handler is about to write holds every acknowledged value it neither
\* changes nor is behind on.
KeptInv ==
  /\ LostOnlyToOverlap
  /\ \A p \in Puts : put[p].pc \in Holding \ {"saved"} =>
       \A k \in KeysOf[put[p].body.file] \ (put[p].stale \cup DOMAIN put[p].body.change) :
         kept[put[p].body.file][k] # Unknown =>
           put[p].draft.fields[k] = kept[put[p].body.file][k]

StoreInv == StoreTypes /\ TokenInv /\ KeptInv

LEMMA BodyTypes ==
  ASSUME SettingsAssumption, NEW b \in Bodies
  PROVE  /\ b \in Body /\ b.file \in Files /\ DOMAIN b.change \subseteq KeysOf[b.file]
         /\ b.change \in [DOMAIN b.change -> Values]
         /\ b.token \in BOOLEAN /\ (b.token => b.file = "provider")
  <1>1. b \in Body /\ DOMAIN b.change \subseteq KeysOf[b.file] /\ (b.token => b.file = "provider")
    BY DEF SettingsAssumption
  <1>2. PICK K : b.change \in [K -> Values]
    BY <1>1 DEF Body
  <1> QED BY <1>1, <1>2 DEF Body

LEMMA Applied ==
  ASSUME SettingsAssumption, NEW b \in Bodies, NEW fields \in Fields(b.file)
  PROVE  /\ Apply(fields, b.change) \in Fields(b.file)
         /\ \A k \in KeysOf[b.file] \ DOMAIN b.change :
              Apply(fields, b.change)[k] = fields[k]
  BY BodyTypes DEF Apply, Fields

LEMMA FieldsAreSettings ==
  \A f \in Files : /\ KeysOf[f] \subseteq Settings
                   /\ Fields(f) \subseteq UNION {Fields(g) : g \in Files}
  BY DEF Settings

LEMMA StoreInitial == SettingsAssumption /\ StoreInit => StoreInv
  <1> SUFFICES ASSUME SettingsAssumption, StoreInit PROVE StoreInv
    OBVIOUS
  <1> DEFINE installed(f) == [fields |-> Base[f], needs |-> 0]
  <1>1. \A f \in Files : Base[f] \in Fields(f) /\ installed(f) \in Saved
    BY FieldsAreSettings DEF SettingsAssumption, Fields, Saved
  <1>2. \A f \in Files : file[f] = Cell(installed(f)) /\ Possible(file[f]) = {installed(f)}
    BY DEF StoreInit, Cell, Possible
  <1>3. Possible(token) = {0} /\ token = [now |-> 0, stable |-> {0}]
    BY DEF StoreInit, Cell, Possible
  <1>4. \A p \in Puts : put[p] = NoPut
    BY DEF StoreInit
  <1>5. StoreTypes
    <2>1. FileTypes
      <3>1. ASSUME NEW f \in Files PROVE file[f] \in [now : Saved, stable : SUBSET Saved]
        <4>1. file[f] = [now |-> installed(f), stable |-> {installed(f)}] /\ installed(f) \in Saved
          BY <1>1, <1>2 DEF Cell
        <4> HIDE DEF installed
        <4> QED BY <4>1
      <3>2. file \in [Files -> [now : Saved, stable : SUBSET Saved]]
        BY <3>1 DEF StoreInit
      <3>3. \A f \in Files : installed(f).fields \in Fields(f)
        BY <1>1
      <3> QED BY <1>2, <3>2, <3>3 DEF FileTypes
    <2>2. PutTypes
      BY DEF PutTypes, StoreInit, NoPut, Handler, Holding
    <2>3. TokenTypes
      BY <1>3 DEF TokenTypes, StoreInit, NoPoll
    <2>4. KeptTypes
      BY DEF KeptTypes, StoreInit
    <2> QED BY <2>1, <2>2, <2>3, <2>4 DEF StoreTypes
  <1>6. TokenInv
    BY <1>2, <1>3, <1>4 DEF TokenInv, TokenKeepsUp, StoreInit, NoPut, NoPoll, Holding, Files
  <1>7. KeptInv
    BY <1>4 DEF KeptInv, LostOnlyToOverlap, StoreInit, NoPut, Holding
  <1> QED BY <1>5, <1>6, <1>7 DEF StoreInv

-----------------------------------------------------------------------------
\* A handler that ends.
LEMMA PutEndsInv ==
  ASSUME SettingsAssumption, StoreInv, NEW p \in Puts, PutEnds(p),
         UNCHANGED <<file, token, poll, turn, kept>>
  PROVE  StoreInv'
  <1>1. put' \in [Puts -> Handler] /\ put'[p] = NoPut
        /\ \A q \in Puts : q # p => put'[q] = put[q]
    BY DEF PutEnds, StoreInv, StoreTypes, PutTypes, NoPut, Handler
  <1>2. FileTypes' /\ TokenTypes' /\ KeptTypes'
    BY DEF StoreInv, StoreTypes, FileTypes, TokenTypes, KeptTypes, Possible
  <1>3. PutTypes'
    BY <1>1 DEF StoreInv, StoreTypes, PutTypes, NoPut, Holding
  <1>4. TokenInv'
    BY <1>1 DEF StoreInv, TokenInv, TokenKeepsUp, NoPut, Holding, Possible
  <1>5. KeptInv'
    BY <1>1 DEF StoreInv, KeptInv, LostOnlyToOverlap, NoPut, Holding, Possible
  <1> QED BY <1>2, <1>3, <1>4, <1>5 DEF StoreInv, StoreTypes

LEMMA PutInv ==
  ASSUME SettingsAssumption, StoreInv, NEW p \in Puts, NEW b \in Bodies, Put(p, b)
  PROVE  StoreInv'
  <1>1. put' \in [Puts -> Handler] /\ put'[p].pc = "read" /\ put'[p].body = b
        /\ \A q \in Puts : q # p => put'[q] = put[q]
    BY DEF Put, StoreInv, StoreTypes, PutTypes, NoPut, Handler
  <1>2. FileTypes' /\ TokenTypes' /\ KeptTypes'
    BY DEF Put, StoreInv, StoreTypes, FileTypes, TokenTypes, KeptTypes, Possible
  <1>3. PutTypes'
    BY <1>1 DEF StoreInv, StoreTypes, PutTypes, Holding
  <1>4. TokenInv'
    BY <1>1 DEF Put, StoreInv, TokenInv, TokenKeepsUp, Holding, Possible
  <1>5. KeptInv'
    BY <1>1 DEF Put, StoreInv, KeptInv, LostOnlyToOverlap, Holding, Possible
  <1> QED BY <1>2, <1>3, <1>4, <1>5 DEF StoreInv, StoreTypes

LEMMA ReadCurrentInv ==
  ASSUME SettingsAssumption, StoreInv, NEW p \in Puts, ReadCurrent(p)
  PROVE  StoreInv'
  <1>1. CASE PutEnds(p)
    BY <1>1, PutEndsInv DEF ReadCurrent
  <1>2. CASE put' = [put EXCEPT ![p].draft = Draft(p),
                                ![p].pc = IF put[p].body.token THEN "token" ELSE "save"]
    <2> DEFINE b == put[p].body
               d == Draft(p)
               c == file[put[p].body.file].now
    <2>1. put[p].pc = "read" /\ b \in Bodies /\ b.file \in Files
      BY BodyTypes DEF ReadCurrent, StoreInv, StoreTypes, PutTypes
    <2>2. c \in Saved /\ c.fields \in Fields(b.file) /\ c \in Possible(file[b.file])
      BY <2>1 DEF StoreInv, StoreTypes, FileTypes, Possible
    <2>3. d = [c EXCEPT !.fields = Apply(c.fields, b.change)]
      BY DEF Draft, Effective
    <2> HIDE DEF d, c
    <2>4. d.fields = Apply(c.fields, b.change) /\ d.needs = c.needs
          /\ d = [fields |-> d.fields, needs |-> d.needs]
      BY <2>2, <2>3 DEF Saved
    <2>5. d.fields \in Fields(b.file)
      BY <2>1, <2>2, <2>4, Applied
    <2>6. d \in Saved
      <3>1. d.fields \in UNION {Fields(g) : g \in Files}
        BY <2>1, <2>5, FieldsAreSettings
      <3>2. d.needs \in Nat
        BY <2>2, <2>4 DEF Saved
      <3> QED BY <3>1, <3>2, <2>4 DEF Saved
    <2>7. \A k \in KeysOf[b.file] \ DOMAIN b.change : d.fields[k] = c.fields[k]
      BY <2>1, <2>2, <2>4, Applied
    <2>8. /\ put' \in [Puts -> Handler] /\ put'[p].pc \in {"token", "save"}
          /\ put'[p].body = b /\ put'[p].draft = d
          /\ \A q \in Puts : q # p => put'[q] = put[q]
      BY <1>2, <2>1, <2>6 DEF StoreInv, StoreTypes, PutTypes, Handler, Holding, d
    <2>9. FileTypes' /\ TokenTypes' /\ KeptTypes'
      BY DEF ReadCurrent, StoreInv, StoreTypes, FileTypes, TokenTypes, KeptTypes, Possible
    <2>10. PutTypes'
      BY <2>1, <2>5, <2>6, <2>8 DEF StoreInv, StoreTypes, PutTypes
    <2>11. TokenInv'
      BY <2>2, <2>4, <2>8
      DEF ReadCurrent, StoreInv, TokenInv, TokenKeepsUp, Possible, Holding
    <2>12. KeptInv'
      <3>1. LostOnlyToOverlap'
        BY DEF ReadCurrent, StoreInv, KeptInv, LostOnlyToOverlap, Possible
      <3>2. \A k \in KeysOf[b.file] \ DOMAIN b.change :
              kept[b.file][k] # Unknown => d.fields[k] = kept[b.file][k]
        BY <2>1, <2>2, <2>7 DEF StoreInv, KeptInv, LostOnlyToOverlap
      <3>3. UNCHANGED kept
        BY DEF ReadCurrent
      <3> QED BY <3>1, <3>2, <3>3, <2>8 DEF StoreInv, KeptInv
    <2> QED BY <2>9, <2>10, <2>11, <2>12 DEF StoreInv, StoreTypes
  <1> QED BY <1>1, <1>2 DEF ReadCurrent

LEMMA WriteTokenInv ==
  ASSUME SettingsAssumption, StoreInv, NEW p \in Puts, WriteToken(p)
  PROVE  StoreInv'
  <1> USE DEF StoreInv, StoreTypes
  <1>1. turn' = turn + 1 /\ turn \in Nat /\ turn' \in Nat
    BY DEF WriteToken, TokenTypes
  <1>2. token' = [now |-> turn', stable |-> token.stable \cup {turn'}]
    BY DEF WriteToken, Commit
  <1>3. token'.now = turn' /\ Possible(token') \subseteq Possible(token) \cup {turn'}
    BY <1>2 DEF Possible
  <1>4. put[p].pc = "token" /\ put[p].draft \in Saved /\ put[p] \in Handler
        /\ put[p].draft.fields \in Fields(put[p].body.file)
    BY DEF WriteToken, PutTypes, Holding
  <1>5. /\ put'[p] = [put[p] EXCEPT !.pc = "tokened", !.draft.needs = turn']
        /\ \A q \in Puts : q # p => put'[q] = put[q]
        /\ put' = [q \in Puts |-> put'[q]]
    BY DEF WriteToken, PutTypes
  <1>6. put'[p].draft = [put[p].draft EXCEPT !.needs = turn']
        /\ put'[p].pc = "tokened" /\ put'[p].body = put[p].body /\ put'[p].stale = put[p].stale
    BY <1>4, <1>5 DEF Handler
  <1>7. put'[p].draft \in Saved /\ put'[p].draft.needs = turn'
        /\ put'[p].draft.fields = put[p].draft.fields
    BY <1>1, <1>4, <1>6 DEF Saved
  <1>8. put'[p] \in Handler
    BY <1>4, <1>5, <1>6, <1>7 DEF Handler, Holding
  <1>9. UNCHANGED <<file, poll, kept>>
    BY DEF WriteToken
  <1>10. FileTypes' /\ TokenTypes' /\ KeptTypes'
    <2>1. FileTypes' /\ KeptTypes'
      BY <1>9 DEF FileTypes, KeptTypes, Possible
    <2>2. TokenTypes'
      BY <1>1, <1>2, <1>9 DEF TokenTypes
    <2> QED BY <2>1, <2>2
  <1>11. PutTypes'
    <2>1. put' \in [Puts -> Handler]
      BY <1>5, <1>8 DEF PutTypes
    <2> QED BY <1>4, <1>5, <1>6, <1>7, <2>1 DEF PutTypes, Holding
  <1>12. TokenInv'
    <2>1. \A t \in Possible(token) : t \in Nat /\ t <= turn
      BY DEF TokenTypes, TokenInv, Possible
    <2>2. token.now \in Possible(token)
      BY DEF Possible
    <2>3. \A v \in Possible(file["provider"]) : v.needs \in Nat
      BY DEF FileTypes, Possible, Saved, Files
    <2>4. \A v \in Possible(file["provider"]) : v.needs <= turn'
      BY <1>1, <2>1, <2>2, <2>3 DEF TokenInv
    <2>5. poll.pc # "idle" => poll.needs <= turn'
      BY <1>1, <2>1, <2>2 DEF TokenTypes, TokenInv
    <2>6. \A q \in Puts : put[q].pc \in Holding => put[q].draft.needs \in Nat
      BY DEF PutTypes, Saved
    <2>7. \A q \in Puts : put[q].pc \in Holding /\ put[q].body.file = "provider" =>
            put[q].draft.needs <= turn'
      BY <1>1, <2>1, <2>2, <2>6 DEF TokenInv
    <2>8. (\A t \in Possible(token) : t <= turn)'
      BY <1>1, <1>3, <2>1
    <2>9. (\A v \in Possible(file["provider"]), t \in Possible(token) : v.needs <= t)'
      BY <1>3, <1>9, <2>4 DEF TokenInv
    <2>10. (poll.pc # "idle" => \A t \in Possible(token) : poll.needs <= t)'
      BY <1>3, <1>9, <2>5 DEF TokenInv
    <2>11. TokenKeepsUp'
      BY <1>9 DEF TokenInv, TokenKeepsUp
    <2>12. ASSUME NEW q \in Puts, put'[q].pc \in Holding, put'[q].body.file = "provider"
           PROVE  /\ put'[q].draft.needs <= token'.now
                  /\ put'[q].pc # "tokened" =>
                       \A t \in Possible(token') : put'[q].draft.needs <= t
      <3>1. CASE q = p
        <4>1. put'[p].draft.needs = turn' /\ token'.now = turn' /\ put'[p].pc = "tokened"
          BY <1>3, <1>6, <1>7
        <4>2. turn' <= turn'
          BY <1>1
        <4> QED BY <3>1, <4>1, <4>2
      <3>2. CASE q # p
        BY <1>3, <1>5, <2>7, <2>12, <3>2 DEF TokenInv
      <3> QED BY <3>1, <3>2
    <2> QED BY <2>8, <2>9, <2>10, <2>11, <2>12 DEF TokenInv
  <1>13. KeptInv'
    <2>1. LostOnlyToOverlap'
      BY <1>9 DEF KeptInv, LostOnlyToOverlap
    <2>2. ASSUME NEW q \in Puts, put'[q].pc \in Holding \ {"saved"},
                 NEW k \in KeysOf[put'[q].body.file]
                           \ (put'[q].stale \cup DOMAIN put'[q].body.change),
                 kept[put'[q].body.file][k] # Unknown
          PROVE  put'[q].draft.fields[k] = kept[put'[q].body.file][k]
      <3>1. put'[q].body = put[q].body /\ put'[q].stale = put[q].stale
            /\ put'[q].draft.fields = put[q].draft.fields /\ put[q].pc \in Holding \ {"saved"}
        <4>1. CASE q = p
          BY <1>4, <1>6, <1>7, <4>1 DEF Holding
        <4>2. CASE q # p
          BY <1>5, <2>2, <4>2
        <4> QED BY <4>1, <4>2
      <3> QED BY <2>2, <3>1 DEF KeptInv
    <2> QED BY <1>9, <2>1, <2>2 DEF KeptInv
  <1> QED BY <1>10, <1>11, <1>12, <1>13

LEMMA TokenWrittenInv ==
  ASSUME SettingsAssumption, StoreInv, NEW p \in Puts, TokenWritten(p)
  PROVE  StoreInv'
  <1>1. token' = [now |-> token.now, stable |-> {token.now}]
    BY DEF TokenWritten, Settle, Cell
  <1>2. token'.now = token.now /\ Possible(token') = {token.now} /\ token.now \in Possible(token)
    BY <1>1 DEF Possible
  <1>3. /\ put[p].pc = "tokened" /\ put'[p].pc = "save" /\ put'[p].body = put[p].body
        /\ put'[p].stale = put[p].stale /\ put'[p].draft = put[p].draft
        /\ \A q \in Puts : q # p => put'[q] = put[q]
    BY DEF TokenWritten, StoreInv, StoreTypes, PutTypes, Handler
  <1>4. put' \in [Puts -> Handler]
    BY DEF TokenWritten, StoreInv, StoreTypes, PutTypes, Handler, Holding
  <1>5. UNCHANGED <<file, poll, turn, kept>>
    BY DEF TokenWritten
  <1>6. FileTypes' /\ TokenTypes' /\ KeptTypes'
    BY <1>1, <1>5 DEF StoreInv, StoreTypes, FileTypes, TokenTypes, KeptTypes, Possible
  <1>7. PutTypes'
    BY <1>3, <1>4 DEF StoreInv, StoreTypes, PutTypes, Holding
  <1>8. TokenInv'
    BY <1>2, <1>3, <1>5 DEF StoreInv, TokenInv, TokenKeepsUp, Holding
  <1>9. KeptInv'
    <2>1. LostOnlyToOverlap'
      BY <1>5 DEF StoreInv, KeptInv, LostOnlyToOverlap
    <2> QED BY <1>3, <1>5, <2>1 DEF StoreInv, KeptInv, Holding
  <1> QED BY <1>6, <1>7, <1>8, <1>9 DEF StoreInv, StoreTypes


LEMMA WriteSettingsInv ==
  ASSUME SettingsAssumption, StoreInv, NEW p \in Puts, WriteSettings(p)
  PROVE  StoreInv'
  <1> USE DEF StoreInv, StoreTypes
  <1> DEFINE f == put[p].body.file
             d == put[p].draft
             gone == DOMAIN put[p].body.change \cup put[p].stale
  <1>1. put[p].pc = "save" /\ f \in Files /\ d \in Saved /\ d.fields \in Fields(f)
    BY BodyTypes DEF WriteSettings, PutTypes, Holding
  <1>2. /\ put'[p].pc = "saved" /\ put'[p].body = put[p].body /\ put'[p].draft = d
        /\ \A q \in Puts : q # p => put'[q] = put[q]
        /\ put' \in [Puts -> Handler]
    BY DEF WriteSettings, PutTypes, Handler, Holding
  <1>3. /\ file'[f] = [now |-> d, stable |-> file[f].stable \cup {d}]
        /\ \A g \in Files : g # f => file'[g] = file[g]
        /\ file' \in [Files -> [now : Saved, stable : SUBSET Saved]]
    BY <1>1 DEF WriteSettings, Commit, FileTypes
  <1>4. \A g \in Files : Possible(file'[g]) \subseteq
          IF g = f THEN Possible(file[f]) \cup {d} ELSE Possible(file[g])
    BY <1>3 DEF Possible
  <1>5. /\ kept'[f] = [k \in KeysOf[f] |-> IF k \in gone THEN Unknown ELSE kept[f][k]]
        /\ \A g \in Files : g # f => kept'[g] = kept[g]
        /\ kept' = [g \in Files |-> kept'[g]]
    BY <1>1 DEF WriteSettings, Forget, KeptTypes
  <1>6. \A g \in Files : \A k \in KeysOf[g] : kept'[g][k] \in {kept[g][k], Unknown}
    BY <1>5
  <1>7. UNCHANGED <<token, poll, turn>>
    BY DEF WriteSettings
  <1> HIDE DEF d, gone
  <1>8. StoreTypes'
    <2>1. FileTypes'
      BY <1>1, <1>3, <1>4 DEF FileTypes
    <2>2. PutTypes'
      BY <1>1, <1>2 DEF PutTypes, Holding, d
    <2>3. TokenTypes'
      BY <1>7 DEF TokenTypes
    <2>4. KeptTypes'
      <3>1. kept'[f] \in [KeysOf[f] -> Values \cup {Unknown}]
        BY <1>1, <1>5 DEF KeptTypes
      <3> QED BY <1>5, <3>1 DEF KeptTypes
    <2> QED BY <2>1, <2>2, <2>3, <2>4
  <1>9. TokenInv'
    <2>1. (\A v \in Possible(file["provider"]), t \in Possible(token) : v.needs <= t)'
      BY <1>1, <1>4, <1>7 DEF TokenInv, Holding, Files, d
    <2>2. (\A q \in Puts : put[q].pc \in Holding /\ put[q].body.file = "provider" =>
             /\ put[q].draft.needs <= token.now
             /\ put[q].pc # "tokened" => \A t \in Possible(token) : put[q].draft.needs <= t)'
      BY <1>1, <1>2, <1>7 DEF TokenInv, Holding, d
    <2> QED BY <1>7, <2>1, <2>2 DEF TokenInv, TokenKeepsUp
  <1>10. KeptInv'
    <2>1. ASSUME NEW g \in Files, NEW k \in KeysOf[g], kept'[g][k] # Unknown,
                 NEW v \in Possible(file'[g])
          PROVE  v.fields[k] = kept'[g][k]
      <3>1. kept'[g][k] = kept[g][k]
        BY <1>6, <2>1
      <3>2. CASE v \in Possible(file[g])
        BY <2>1, <3>1, <3>2 DEF KeptInv, LostOnlyToOverlap
      <3>3. CASE g = f /\ v = d
        <4>1. k \notin gone
          BY <1>1, <1>5, <2>1, <3>3
        <4>2. k \in KeysOf[f] \ (put[p].stale \cup DOMAIN put[p].body.change)
          BY <2>1, <3>3, <4>1 DEF gone
        <4> QED BY <1>1, <2>1, <3>1, <3>3, <4>2 DEF KeptInv, Holding, d
      <3> QED BY <1>4, <2>1, <3>2, <3>3
    <2>2. ASSUME NEW q \in Puts, put'[q].pc \in Holding \ {"saved"},
                 NEW k \in KeysOf[put'[q].body.file]
                           \ (put'[q].stale \cup DOMAIN put'[q].body.change),
                 kept'[put'[q].body.file][k] # Unknown
          PROVE  put'[q].draft.fields[k] = kept'[put'[q].body.file][k]
      <3>1. q # p /\ put'[q] = put[q] /\ put[q].body.file \in Files
        BY <1>2, <2>2, BodyTypes DEF PutTypes, Holding
      <3>2. kept'[put[q].body.file][k] = kept[put[q].body.file][k]
        BY <1>6, <2>2, <3>1
      <3> QED BY <2>2, <3>1, <3>2 DEF KeptInv
    <2> QED BY <2>1, <2>2 DEF KeptInv, LostOnlyToOverlap
  <1> QED BY <1>8, <1>9, <1>10

LEMMA SettingsWrittenInv ==
  ASSUME SettingsAssumption, StoreInv, NEW p \in Puts, SettingsWritten(p)
  PROVE  StoreInv'
  <1> USE DEF StoreInv, StoreTypes
  <1> DEFINE f == put[p].body.file
             change == put[p].body.change
             lasting == {k \in DOMAIN change : file[f].now.fields[k] = change[k]}
             behind == {q \in Puts : put[q].pc \notin {"idle", "read"} /\ put[q].body.file = f}
  <1>1. put[p].pc = "saved" /\ f \in Files /\ put[p].body \in Bodies
        /\ DOMAIN change \subseteq KeysOf[f] /\ \A k \in DOMAIN change : change[k] \in Values
    BY BodyTypes DEF SettingsWritten, PutTypes, Holding
  <1>2. lasting \subseteq Settings
    BY <1>1, FieldsAreSettings
  <1>3. /\ file'[f] = [now |-> file[f].now, stable |-> {file[f].now}]
        /\ \A g \in Files : g # f => file'[g] = file[g]
        /\ file' \in [Files -> [now : Saved, stable : SUBSET Saved]]
    BY <1>1 DEF SettingsWritten, Settle, Cell, FileTypes
  <1>4. \A g \in Files : Possible(file'[g]) \subseteq
          IF g = f THEN {file[f].now} ELSE Possible(file[g])
    BY <1>3 DEF Possible
  <1>5. file[f].now \in Possible(file[f])
    BY DEF Possible
  <1>6. /\ kept'[f] = [k \in KeysOf[f] |-> IF k \in lasting THEN change[k] ELSE kept[f][k]]
        /\ \A g \in Files : g # f => kept'[g] = kept[g]
        /\ kept' = [g \in Files |-> kept'[g]]
    BY <1>1 DEF SettingsWritten, KeptTypes
  <1>7. put' = [q \in Puts |->
           IF q = p THEN NoPut
           ELSE IF q \in behind THEN [put[q] EXCEPT !.stale = @ \cup lasting] ELSE put[q]]
    BY DEF SettingsWritten
  <1>8. UNCHANGED <<token, poll, turn>>
    BY DEF SettingsWritten
  <1> HIDE DEF lasting, behind
  <1>9. put'[p] = NoPut
    BY <1>7
  <1>10. ASSUME NEW q \in Puts, q # p
         PROVE  /\ put'[q] \in Handler /\ put'[q].pc = put[q].pc /\ put'[q].body = put[q].body
                /\ put'[q].draft = put[q].draft
                /\ put'[q].stale = IF q \in behind THEN put[q].stale \cup lasting ELSE put[q].stale
    <2>1. put[q] \in Handler
      BY DEF PutTypes
    <2>2. put'[q] = IF q \in behind THEN [put[q] EXCEPT !.stale = @ \cup lasting] ELSE put[q]
      BY <1>7, <1>10
    <2> QED BY <1>2, <2>1, <2>2 DEF Handler
  <1>11. StoreTypes'
    <2>1. FileTypes'
      BY <1>1, <1>3, <1>4, <1>5 DEF FileTypes
    <2>2. PutTypes'
      <3>1. NoPut \in Handler /\ NoPut.pc = "idle" /\ "idle" \notin Holding
        BY DEF NoPut, Handler, Holding
      <3>2. put' \in [Puts -> Handler]
        <4>1. \A q \in Puts : put'[q] \in Handler
          BY <1>9, <1>10, <3>1
        <4>2. put' = [q \in Puts |-> put'[q]]
          BY <1>7
        <4> QED BY <4>1, <4>2
      <3> QED BY <1>9, <1>10, <3>1, <3>2 DEF PutTypes
    <2>3. TokenTypes'
      BY <1>8 DEF TokenTypes
    <2>4. KeptTypes'
      <3>1. \A k \in lasting : change[k] \in Values
        BY <1>1 DEF lasting
      <3>2. \A k \in KeysOf[f] : kept[f][k] \in Values \cup {Unknown}
        BY <1>1 DEF KeptTypes
      <3>3. kept'[f] \in [KeysOf[f] -> Values \cup {Unknown}]
        BY <1>6, <3>1, <3>2
      <3> QED BY <1>6, <3>3 DEF KeptTypes
    <2> QED BY <2>1, <2>2, <2>3, <2>4
  <1>12. TokenInv'
    <2>1. (\A v \in Possible(file["provider"]), t \in Possible(token) : v.needs <= t)'
      BY <1>1, <1>4, <1>5, <1>8 DEF TokenInv, Files
    <2>2. ASSUME NEW q \in Puts, put'[q].pc \in Holding, put'[q].body.file = "provider"
          PROVE  /\ put'[q].draft.needs <= token'.now
                 /\ put'[q].pc # "tokened" =>
                      \A t \in Possible(token') : put'[q].draft.needs <= t
      <3>1. q # p
        BY <1>9, <2>2 DEF NoPut, Holding
      <3> QED BY <1>8, <1>10, <2>2, <3>1 DEF TokenInv
    <2> QED BY <1>8, <2>1, <2>2 DEF TokenInv, TokenKeepsUp
  <1>13. KeptInv'
    <2>1. ASSUME NEW g \in Files, NEW k \in KeysOf[g], kept'[g][k] # Unknown,
                 NEW v \in Possible(file'[g])
          PROVE  v.fields[k] = kept'[g][k]
      <3>1. CASE g = f /\ k \in lasting
        <4>1. v = file[f].now
          BY <1>4, <3>1
        <4> QED BY <1>1, <1>6, <2>1, <3>1, <4>1 DEF lasting
      <3>2. CASE ~(g = f /\ k \in lasting)
        <4>1. kept'[g][k] = kept[g][k]
          BY <1>6, <2>1, <3>2
        <4>2. v \in Possible(file[g])
          BY <1>4, <1>5, <2>1
        <4> QED BY <2>1, <4>1, <4>2 DEF KeptInv, LostOnlyToOverlap
      <3> QED BY <3>1, <3>2
    <2>2. ASSUME NEW q \in Puts, put'[q].pc \in Holding \ {"saved"},
                 NEW k \in KeysOf[put'[q].body.file]
                           \ (put'[q].stale \cup DOMAIN put'[q].body.change),
                 kept'[put'[q].body.file][k] # Unknown
          PROVE  put'[q].draft.fields[k] = kept'[put'[q].body.file][k]
      <3>1. q # p
        BY <1>9, <2>2 DEF NoPut, Holding
      <3>2. put[q].pc \in Holding \ {"saved"} /\ put[q].body.file \in Files
            /\ put'[q].body = put[q].body /\ put'[q].draft = put[q].draft
            /\ put[q].stale \subseteq put'[q].stale
        BY <1>10, <2>2, <3>1, BodyTypes DEF PutTypes, Holding
      <3>3. put[q].body.file = f => k \notin lasting
        BY <1>10, <2>2, <3>1, <3>2 DEF behind, Holding
      <3>4. kept'[put[q].body.file][k] = kept[put[q].body.file][k]
        BY <1>6, <2>2, <3>2, <3>3
      <3> QED BY <2>2, <3>2, <3>4 DEF KeptInv
    <2> QED BY <2>1, <2>2 DEF KeptInv, LostOnlyToOverlap
  <1> QED BY <1>11, <1>12, <1>13

-----------------------------------------------------------------------------
LEMMA PollInv ==
  ASSUME SettingsAssumption, StoreInv, ReadSettings \/ resolve_token
  PROVE  StoreInv'
  <1> USE DEF StoreInv, StoreTypes
  <1>1. UNCHANGED <<file, token, put, turn, kept>>
    BY DEF ReadSettings, resolve_token
  <1>2. FileTypes' /\ PutTypes' /\ KeptTypes' /\ KeptInv'
    <2>1. FileTypes' /\ PutTypes' /\ KeptTypes'
      BY <1>1 DEF FileTypes, PutTypes, KeptTypes, Possible
    <2>2. KeptInv'
      BY <1>1 DEF KeptInv, LostOnlyToOverlap
    <2> QED BY <2>1, <2>2
  <1>3. file["provider"].now \in Possible(file["provider"]) /\ token.now \in Possible(token)
        /\ file["provider"].now.needs \in Nat /\ token.now \in Nat
    BY DEF Possible, FileTypes, TokenTypes, Saved, Files
  <1>4. CASE ReadSettings
    <2>1. poll' = [pc |-> "token", needs |-> file["provider"].now.needs, token |-> 0]
      BY <1>4 DEF ReadSettings, Effective
    <2>2. TokenTypes'
      BY <1>1, <1>3, <2>1 DEF TokenTypes
    <2>3. TokenInv'
      BY <1>1, <1>3, <2>1 DEF TokenInv, TokenKeepsUp, Possible, Holding
    <2> QED BY <1>2, <2>2, <2>3
  <1>5. CASE resolve_token
    <2>1. poll.pc = "token" /\ poll'.pc = "sent" /\ poll'.needs = poll.needs /\ poll'.token = token.now
      BY <1>5 DEF resolve_token, TokenTypes
    <2>2. TokenTypes'
      BY <1>1, <1>3, <1>5 DEF resolve_token, TokenTypes
    <2>3. TokenInv'
      <3>1. poll.needs <= token.now
        BY <1>3, <2>1 DEF TokenInv
      <3> QED BY <1>1, <2>1, <3>1 DEF TokenInv, TokenKeepsUp, Possible, Holding
    <2> QED BY <1>2, <2>2, <2>3
  <1> QED BY <1>4, <1>5

LEMMA RestartInv ==
  ASSUME SettingsAssumption, StoreInv, ProcessDies \/ PowerLoss
  PROVE  StoreInv'
  <1> USE DEF StoreInv, StoreTypes
  <1>1. put' = [p \in Puts |-> NoPut] /\ poll' = NoPoll /\ UNCHANGED <<turn, kept>>
    BY DEF ProcessDies, PowerLoss, Restart
  <1>2. \A f \in Files : /\ Possible(file'[f]) \subseteq Possible(file[f])
                         /\ file'[f] \in [now : Saved, stable : SUBSET Saved]
    <2>1. CASE ProcessDies
      BY <2>1 DEF ProcessDies, Possible, FileTypes
    <2>2. CASE PowerLoss
      <3>1. PICK a \in file["audio"].stable, s \in file["provider"].stable :
              file' = [f \in Files |-> Cell(IF f = "audio" THEN a ELSE s)]
        BY <2>2 DEF PowerLoss
      <3>2. a \in Saved /\ s \in Saved
        BY DEF FileTypes, Files
      <3>3. file'["audio"] = [now |-> a, stable |-> {a}]
            /\ file'["provider"] = [now |-> s, stable |-> {s}]
        BY <3>1 DEF Cell, Files
      <3> QED BY <3>2, <3>3 DEF Possible, Files
    <2> QED BY <2>1, <2>2
  <1>3. Possible(token') \subseteq Possible(token) /\ token' \in [now : Nat, stable : SUBSET Nat]
    <2>1. CASE ProcessDies
      BY <2>1 DEF ProcessDies, Possible, TokenTypes
    <2>2. CASE PowerLoss
      BY <2>2 DEF PowerLoss, Possible, TokenTypes, Cell
    <2> QED BY <2>1, <2>2
  <1>4. FileTypes'
    <2>1. file' = [f \in Files |-> file'[f]]
      BY DEF ProcessDies, PowerLoss, FileTypes
    <2> QED BY <1>2, <2>1 DEF FileTypes
  <1>5. PutTypes'
    BY <1>1 DEF PutTypes, NoPut, Handler, Holding
  <1>6. TokenTypes' /\ KeptTypes'
    BY <1>1, <1>3 DEF TokenTypes, KeptTypes, NoPoll
  <1>7. TokenInv'
    BY <1>1, <1>2, <1>3 DEF TokenInv, TokenKeepsUp, NoPut, NoPoll, Holding, Files
  <1>8. KeptInv'
    BY <1>1, <1>2 DEF KeptInv, LostOnlyToOverlap, NoPut, Holding
  <1> QED BY <1>4, <1>5, <1>6, <1>7, <1>8

\* The invariant speaks of neither bound.
LEMMA StoreStutters ==
  ASSUME StoreInv, UNCHANGED <<file, token, put, poll, turn, kept>>
  PROVE  StoreInv'
  <1>1. FileTypes' /\ PutTypes' /\ TokenTypes' /\ KeptTypes'
    BY DEF StoreInv, StoreTypes, FileTypes, PutTypes, TokenTypes, KeptTypes, Possible
  <1>2. TokenInv'
    BY DEF StoreInv, TokenInv, TokenKeepsUp
  <1>3. KeptInv'
    BY DEF StoreInv, KeptInv, LostOnlyToOverlap
  <1> QED BY <1>1, <1>2, <1>3 DEF StoreInv, StoreTypes

LEMMA StoreStepInv ==
  ASSUME SettingsAssumption, StoreInv, StoreStep
  PROVE  StoreInv'
  <1>1. ASSUME NEW p \in Puts, PutFails(p) PROVE StoreInv'
    BY <1>1, PutEndsInv DEF PutFails
  <1> QED BY <1>1, PutInv, ReadCurrentInv, WriteTokenInv, TokenWrittenInv, WriteSettingsInv,
             SettingsWrittenInv, PollInv DEF StoreStep

\* The pair of provider settings and token is never torn, and an acknowledged
\* setting is never lost, whatever the number of handlers, files' settings,
\* crashes and power losses.
THEOREM StoreIsSafe == StoreSpec => [](TokenKeepsUp /\ LostOnlyToOverlap)
  <1>1. StoreInit => StoreInv
    BY StoreInitial, SettingsAssumption
  <1>2. StoreInv /\ [StoreNext]_storeVars => StoreInv'
    BY StoreStepInv, RestartInv, StoreStutters, SettingsAssumption DEF StoreNext, storeVars
  <1>3. StoreInv => TokenKeepsUp /\ LostOnlyToOverlap
    BY DEF StoreInv, TokenInv, KeptInv
  <1> QED BY <1>1, <1>2, <1>3, PTL DEF StoreSpec
-----------------------------------------------------------------------------
(* The players. *)

Labels == {"idle", "ok", "failed", "check", "recheck", "mpd", "status", "sources", "winner",
           "ask", "names", "scan", "known", "cache", "probe", "store", "call", "drop", "command",
           "terminate", "library", "clear", "add", "play", "update", "list", "act"}
Ops == Operations \cup {None}
Args == {None, "play", "pause"} \cup UNION {Asked[op] : op \in DOMAIN Asked}
Targets == Players \cup {None}
Player == [source : Targets, state : States \cup {"gone"}, offers : BOOLEAN]
Request == [pc : Labels, op : Ops, arg : Args, session : BOOLEAN, local : Player,
            sources : SUBSET Sources, todo : SUBSET Receivers,
            goal : Goals \cup {None}, at : Places \cup {None},
            strict : BOOLEAN, target : Targets, sent : Targets, fresh : BOOLEAN]

TypeInv ==
  /\ req \in [Requests -> Request]
  /\ streams \subseteq Sources
  /\ mpd \in [state : States, queue : Seq(Items)]
  /\ receiver \in [Receivers -> States \cup {"gone"}]
  /\ renderer \in [at : Places \cup {None}, state : States]
  /\ endpoint \in Places \cup {None}
  /\ dropped \in BOOLEAN
  /\ faults \in Nat

\* The ways to act on a player.
Acting == {"command", "terminate", "library", "clear", "add", "play", "update", "list", "act"}

Commands == {"player", "onepause"}

\* How a request may stand.
Staged(q) ==
  /\ q.op \in PlayOps => q.arg \in Items
  /\ q.pc = "library" => q.op \in {"play_file", "load_playlist"}
  /\ q.pc = "clear" => q.op \in PlayOps \cup {"clear_queue"}
  /\ q.pc \in {"add", "play"} => q.op \in PlayOps /\ q.sent = "mpd"
  /\ q.pc = "act" => q.arg \in Nat \ {0}
  /\ q.op = "soap" => ~q.strict
  /\ q.pc = "recheck" => q.op \in Commands

\* A request that has always been blocked: it has looked up, but neither
\* passed a check nor settled on a player to command.
Tame(q) ==
  /\ q.sent = None
  /\ q.pc \notin Acting
  /\ q.goal # "invoke"
  /\ q.strict => q.pc = "check"

\* A request that nobody has touched the queue beside.
Solo(q) ==
  /\ q.pc \in {"add", "play", "ok", "failed"}
  /\ q.pc = "add" => mpd = [state |-> "stopped", queue |-> <<>>]
  /\ q.pc = "play" => mpd = [state |-> "stopped", queue |-> Songs[q.arg]]
  /\ q.pc = "ok" /\ q.op \in PlayOps => mpd = [state |-> "playing", queue |-> Songs[q.arg]]

\* A player command on its way to the winner that keeps its stream.
OnTrack(q) ==
  /\ q.sent # None => q.sent = winner
  /\ q.pc = "status" /\ winner = "mpd" => q.session
  /\ q.pc \in {"sources", "winner"} => /\ winner = "mpd" => q.session
                                       /\ q.local.source = "mpd"
  /\ q.pc = "winner" => winner \in q.sources
  /\ q.pc = "ask" => q.todo = {winner}
  /\ q.pc \notin {"names", "scan", "known"}
  /\ q.pc \in {"cache", "probe", "store", "call", "drop"} =>
       winner = "dlna" /\ q.goal \in {"player", "invoke"}
  /\ q.pc = "command" => q.target = winner
  /\ q.pc \in {"idle", "ok", "failed", "check", "recheck", "mpd", "status", "sources", "winner",
               "ask", "cache", "probe", "store", "call", "drop", "command", "terminate"}

Held == winner \in streams /\ (winner = "mpd" => Current)

\* The endpoint in hand is the renderer's when it was read after a lost call.
Fresh(q) == q.fresh /\ q.pc \in {"store", "call"} => q.at = renderer.at

IInv ==
  /\ StoreInv /\ TypeInv
  /\ dropped => endpoint \in {None, renderer.at}
  /\ \A r \in Requests : Staged(req[r]) /\ Fresh(req[r])
  /\ \A r \in barred : r \in Requests /\ Blocked /\ Tame(req[r])
  /\ \A r \in alone : r \in Requests /\ Solo(req[r])
  /\ \A r \in steady : /\ r \in Requests /\ Held
                       /\ req[r].op \in Commands => OnTrack(req[r])


\* What a step makes of one request, from q to n, the players being left alone.
Sound(q, n) ==
  /\ n \in Request /\ Staged(n) /\ Fresh(n)
  /\ Blocked /\ Tame(q) => Tame(n)
  /\ Solo(q) => Solo(n)
  /\ n.op \in Commands => q.op = n.op

Tracked(q, n) == Held /\ OnTrack(q) /\ n.op \in Commands => OnTrack(n)

Sent(q, to, result) ==
  IF to = None THEN NoRequest
  ELSE [NoRequest EXCEPT !.pc = result, !.op = q.op, !.arg = q.arg, !.sent = to]

\* In the middle of a lookup.
Looking == {"check", "recheck", "mpd", "status", "sources", "winner", "ask", "names", "scan",
            "known", "cache", "probe", "store", "call", "drop"}

USE PlayerAssumption, SettingsAssumption

LEMMA Names ==
  /\ None \notin Operations /\ None \notin PlayOps /\ None \notin Commands
  /\ None \notin {"mpd", "dlna", "external", "spotify", "airplay", "player", "known", "invoke"}
  /\ NoRequest \in Request
  <1>1. /\ None \notin Operations /\ None \notin PlayOps /\ None \notin Commands
        /\ None \notin {"mpd", "dlna", "external", "spotify", "airplay", "player", "known", "invoke"}
    BY DEF PlayerAssumption, Operations, Goals, Players, Receivers, Commands
  <1>2. NoRequest \in Request
    BY DEF NoRequest, Nothing, Request, Labels, Ops, Args, Targets, Player, States
  <1> QED BY <1>1, <1>2

SentWell(q, to, result, n) ==
  /\ n \in Request
  /\ to = None => n = NoRequest
  /\ to # None => n.pc = result /\ n.op = q.op /\ n.arg = q.arg
  /\ n.sent = to /\ n.goal = None /\ n.strict = FALSE /\ n.fresh = FALSE

LEMMA SentRecord ==
  ASSUME NEW q \in Request, NEW to \in Targets, NEW result \in {"ok", "failed", "terminate"}
  PROVE  SentWell(q, to, result, Sent(q, to, result))
  <1> DEFINE n == Sent(q, to, result)
  <1> USE DEF SentWell
  <1>1. CASE to = None
    BY <1>1, Names DEF Sent, NoRequest
  <1>2. CASE to # None
    <2>1. n = [NoRequest EXCEPT !.pc = result, !.op = q.op, !.arg = q.arg, !.sent = to]
      BY <1>2 DEF Sent
    <2>2. result \in Labels
      BY DEF Labels
    <2>3. n \in Request
      BY <2>1, <2>2, Names DEF Request
    <2>4. n.pc = result /\ n.op = q.op /\ n.arg = q.arg
          /\ n.sent = to /\ n.goal = None /\ n.strict = FALSE /\ n.fresh = FALSE
      BY <2>1 DEF NoRequest
    <2> QED BY <1>2, <2>3, <2>4
  <1> QED BY <1>1, <1>2

\* A request that ends: a command may have gone out, if one could.
LEMMA Ends ==
  ASSUME NEW q \in Request, Staged(q), NEW to \in Targets,
         NEW result \in {"ok", "failed", "terminate"},
         Tame(q) => to = None, Solo(q) => to # None /\ result = "failed"
  PROVE  /\ Sound(q, Sent(q, to, result))
         /\ (OnTrack(q) => to \in {None, winner}) => Tracked(q, Sent(q, to, result))
  <1> DEFINE n == Sent(q, to, result)
  <1>1. SentWell(q, to, result, n)
    BY SentRecord
  <1> HIDE DEF n
  <1>2. /\ n \in Request /\ n.sent = to /\ n.goal = None /\ n.strict = FALSE /\ n.fresh = FALSE
        /\ to = None => n = NoRequest
        /\ to # None => n.pc = result /\ n.op = q.op /\ n.arg = q.arg
    BY <1>1 DEF SentWell
  <1>3. NoRequest.pc = "idle" /\ NoRequest.op = None
    BY DEF NoRequest
  <1>4. Staged(n) /\ Fresh(n)
    BY <1>2, <1>3, Names DEF Staged, Fresh
  <1>5. Tame(q) => Tame(n)
    BY <1>2, <1>3, Names DEF Tame, Acting
  <1>6. Solo(q) => Solo(n)
    BY <1>2 DEF Solo
  <1>7. n.op \in Commands => q.op = n.op
    BY <1>2, <1>3, Names
  <1>8. (OnTrack(q) => to \in {None, winner}) => Tracked(q, n)
    BY <1>2, <1>3, Names DEF Tracked, OnTrack
  <1> QED BY <1>2, <1>4, <1>5, <1>6, <1>7, <1>8 DEF Sound, n

LEMMA Ended ==
  ASSUME NEW q \in Request, Staged(q), q.pc \notin {"add", "play", "ok", "failed"}
  PROVE  Sound(q, Sent(q, q.sent, "failed")) /\ Tracked(q, Sent(q, q.sent, "failed"))
  <1>1. q.sent \in Targets
    BY DEF Request
  <1>2. (Tame(q) => q.sent = None) /\ ~Solo(q) /\ (OnTrack(q) => q.sent \in {None, winner})
    BY DEF Tame, Solo, OnTrack
  <1> QED BY <1>1, <1>2, Ends

LEMMA Settling ==
  ASSUME NEW r \in Requests, NEW choice \in Player, Settled(r, choice),
         req[r] \in Request, Staged(req[r]), req[r].pc \in Looking \ {"check", "recheck"}
  PROVE  \E n : /\ req' = [req EXCEPT ![r] = n]
                /\ Sound(req[r], n)
                /\ (choice.offers => choice.source = winner) => Tracked(req[r], n)
  <1> DEFINE q == req[r]
  <1>1. CASE q.strict /\ choice.offers
    <2> DEFINE n == [NoRequest EXCEPT
           !.pc = IF choice.source = "dlna" THEN "cache" ELSE "command",
           !.op = q.op, !.arg = q.arg, !.strict = TRUE,
           !.goal = "invoke", !.target = choice.source]
    <2>1. req' = [req EXCEPT ![r] = n]
      BY <1>1 DEF Settled
    <2>2. /\ n.pc = (IF choice.source = "dlna" THEN "cache" ELSE "command")
          /\ n.op = q.op /\ n.arg = q.arg /\ n.strict = TRUE /\ n.goal = "invoke"
          /\ n.target = choice.source /\ n.sent = None /\ n.fresh = FALSE
      BY DEF NoRequest
    <2>3. n \in Request
      <3>1. "cache" \in Labels /\ "command" \in Labels /\ "invoke" \in Goals
        BY DEF Labels, Goals
      <3> QED BY <3>1, Names DEF Request, Player
    <2> HIDE DEF n
    <2>4. Staged(n) /\ Fresh(n)
      BY <1>1, <2>2 DEF Staged, Fresh, Request
    <2>5. ~Tame(q) /\ ~Solo(q)
      BY <1>1 DEF Tame, Solo, Looking
    <2>6. choice.source = winner => Tracked(q, n)
      BY <2>2 DEF Tracked, OnTrack
    <2> QED BY <1>1, <2>1, <2>2, <2>3, <2>4, <2>5, <2>6 DEF Sound
  <1>2. CASE q.op = "soap" /\ ~q.strict
    <2> DEFINE n == [NoRequest EXCEPT !.pc = "check", !.op = "soap", !.arg = req[r].arg]
    <2>1. req' = [req EXCEPT ![r] = n]
      BY <1>2 DEF Settled
    <2>2. /\ n.pc = "check" /\ n.op = "soap" /\ n.strict = FALSE /\ n.goal = None
          /\ n.sent = None /\ n.fresh = FALSE
      BY DEF NoRequest
    <2>3. n \in Request
      <3>1. "check" \in Labels
        BY DEF Labels
      <3> QED BY <1>2, <3>1, Names DEF Request
    <2> HIDE DEF n
    <2>4. Staged(n) /\ Fresh(n) /\ Tame(n)
      BY <2>2, Names DEF Staged, Fresh, Tame, Acting, PlayOps
    <2>5. ~Solo(q) /\ n.op \notin Commands
      BY <2>2 DEF Solo, Looking, Commands
    <2> QED BY <2>1, <2>3, <2>4, <2>5 DEF Sound, Tracked
  <1>3. CASE q.op = "onepause" /\ ~q.strict
    <2> DEFINE n == [NoRequest EXCEPT !.pc = "recheck", !.op = "onepause",
                       !.arg = IF choice.state = "playing" THEN "pause" ELSE "play"]
    <2>1. req' = [req EXCEPT ![r] = n]
      BY <1>3 DEF Settled
    <2>2. /\ n.pc = "recheck" /\ n.op = "onepause" /\ n.strict = FALSE /\ n.goal = None
          /\ n.sent = None /\ n.fresh = FALSE
      BY DEF NoRequest
    <2>3. n \in Request
      <3>1. "recheck" \in Labels /\ {"pause", "play"} \subseteq Args
        BY DEF Labels, Args
      <3> QED BY <1>3, <3>1, Names DEF Request
    <2> HIDE DEF n
    <2>4. Staged(n) /\ Fresh(n) /\ Tame(n) /\ OnTrack(n)
      BY <2>2, Names DEF Staged, Fresh, Tame, OnTrack, Acting, PlayOps, Commands
    <2>5. ~Solo(q)
      BY DEF Solo, Looking
    <2> QED BY <1>3, <2>1, <2>2, <2>3, <2>4, <2>5 DEF Sound, Tracked
  <1>4. CASE ~(q.strict /\ choice.offers) /\ ~(q.op = "soap" /\ ~q.strict)
             /\ ~(q.op = "onepause" /\ ~q.strict)
    <2>1. req' = [req EXCEPT ![r] = Sent(q, q.sent, "failed")]
      BY <1>4 DEF Settled, End, Sends, Sent
    <2> QED BY <2>1, Ended DEF Looking
  <1> QED BY <1>1, <1>2, <1>3, <1>4

\* A lookup that goes on.
LEMMA GoesOn ==
  ASSUME NEW q \in Request, NEW n \in Request, Staged(q), Fresh(n),
         q.pc \in Looking \ {"check"}, n.pc \in Looking \ {"recheck"},
         n.op = q.op, n.arg = q.arg, n.strict = q.strict, n.sent = q.sent,
         n.goal \in {q.goal, "player", "known"}
  PROVE  Sound(q, n)
  <1>1. Staged(n)
    BY DEF Staged, Looking
  <1>2. Tame(q) => Tame(n)
    BY DEF Tame, Acting, Looking
  <1>3. ~Solo(q)
    BY DEF Solo, Looking
  <1> QED BY <1>1, <1>2, <1>3 DEF Sound

-----------------------------------------------------------------------------
\* A step of one running request that leaves the players and the cache alone.
LEMMA Quietly ==
  ASSUME IInv, NEW r \in Requests, Running(r), NEW n, req' = [req EXCEPT ![r] = n],
         Sound(req[r], n), faults' = faults => Tracked(req[r], n), NoFault \/ Fault,
         UNCHANGED <<file, token, put, poll, turn, kept>>,
         UNCHANGED <<world, mpd, endpoint, alone, dropped>>, Watch
  PROVE  IInv'
  <1> USE DEF IInv, world, Sound, Tracked
  <1>1. req'[r] = n /\ (\A s \in Requests : s # r => req'[s] = req[s])
        /\ req' \in [Requests -> Request]
    BY DEF TypeInv
  <1>2. \A s \in Requests : ~Began(s)
    BY <1>1 DEF Began, Running
  <1>3. StoreInv'
    BY StoreStutters
  <1>4. TypeInv'
    BY <1>1 DEF TypeInv, NoFault, Fault
  <1>5. (\A s \in Requests : Staged(req[s]) /\ Fresh(req[s]))'
    BY <1>1 DEF Staged, Fresh
  <1>6. Blocked' = Blocked
    BY DEF Blocked, Effective
  <1>7. (\A s \in barred : s \in Requests /\ Blocked /\ Tame(req[s]))'
    BY <1>1, <1>2, <1>6 DEF Watch, Tame
  <1>8. (\A s \in alone : s \in Requests /\ Solo(req[s]))'
    BY <1>1 DEF Solo
  <1>9. ASSUME NEW s \in steady'
        PROVE  /\ s \in Requests /\ Held'
               /\ req'[s].op \in Commands => OnTrack(req[s])'
    <2>1. s \in Requests /\ s \in steady /\ faults' = faults /\ Held /\ Held'
      BY <1>2 DEF Watch, Held, Current
    <2>2. CASE s = r
      BY <1>1, <2>1, <2>2 DEF OnTrack
    <2>3. CASE s # r
      BY <1>1, <2>1, <2>3 DEF OnTrack
    <2> QED BY <2>1, <2>2, <2>3
  <1> QED BY <1>3, <1>4, <1>5, <1>7, <1>8, <1>9


Quiet(r) ==
  /\ Running(r)
  /\ \E n : /\ req' = [req EXCEPT ![r] = n]
            /\ Sound(req[r], n) /\ (faults' = faults => Tracked(req[r], n))
  /\ UNCHANGED <<world, mpd, endpoint, alone, dropped>> /\ (NoFault \/ Fault)

LEMMA Asking ==
  ASSUME IInv, NEW r \in Requests
  PROVE  req[r] \in Request /\ Staged(req[r]) /\ Fresh(req[r])
  BY DEF IInv, TypeInv

LEMMA LookingRuns == \A r \in Requests : req[r].pc \in Looking => Running(r)
  BY DEF Looking, Running

\* A step that settles with what it takes the player for.
LEMMA SettlesQuietly ==
  ASSUME IInv, NEW r \in Requests, req[r].pc \in Looking \ {"check", "recheck"},
         NEW choice \in Player, Settled(r, choice),
         faults' = faults /\ Held /\ OnTrack(req[r]) /\ choice.offers => choice.source = winner,
         UNCHANGED <<world, mpd, endpoint, alone, dropped>>, NoFault \/ Fault
  PROVE  Quiet(r)
  <1>1. PICK n : /\ req' = [req EXCEPT ![r] = n]
                 /\ Sound(req[r], n)
                 /\ (choice.offers => choice.source = winner) => Tracked(req[r], n)
    BY Settling, Asking
  <1>2. faults' = faults => Tracked(req[r], n)
    BY <1>1 DEF Tracked
  <1> QED BY <1>1, <1>2, LookingRuns DEF Quiet

LEMMA NobodyThere ==
  /\ Nothing \in Player /\ ~Nothing.offers
  /\ \A r \in Requests : external_fallback(r) \in Player /\ ~external_fallback(r).offers
  BY DEF Nothing, external_fallback, Player, Targets, Players, States

LEMMA ReadSongQuiet ==
  ASSUME IInv, NEW r \in Requests, ReadSong(r)
  PROVE  Quiet(r)
  <1> DEFINE q == req[r]
             n == [q EXCEPT !.pc = "status", !.session = Current]
  <1>1. q \in Request /\ Staged(q) /\ q.pc = "mpd"
    BY Asking DEF ReadSong
  <1>2. req' = [req EXCEPT ![r] = n]
    BY DEF ReadSong
  <1>3. /\ n.pc = "status" /\ n.session = Current /\ n.op = q.op /\ n.arg = q.arg
        /\ n.strict = q.strict /\ n.sent = q.sent /\ n.goal = q.goal /\ n.fresh = q.fresh
    BY <1>1 DEF Request
  <1>4. n \in Request
    BY <1>1 DEF Request, Labels, Current
  <1> HIDE DEF n
  <1>5. Sound(q, n)
    BY <1>1, <1>3, <1>4, GoesOn DEF Fresh, Looking
  <1>6. Tracked(q, n)
    BY <1>1, <1>3 DEF Tracked, OnTrack, Held
  <1> QED BY <1>1, <1>2, <1>5, <1>6, LookingRuns DEF Quiet, ReadSong, Looking, NoFault

LEMMA ReadStatusQuiet ==
  ASSUME IInv, NEW r \in Requests, ReadStatus(r)
  PROVE  Quiet(r)
  <1> DEFINE q == req[r]
             n == [q EXCEPT !.pc = "sources", !.session = @ \/ Current, !.local = local_player(r)]
  <1>1. q \in Request /\ Staged(q) /\ q.pc = "status"
    BY Asking DEF ReadStatus
  <1>2. req' = [req EXCEPT ![r] = n]
    BY DEF ReadStatus
  <1>3. local_player(r) \in Player /\ local_player(r).source = "mpd"
    BY DEF local_player, Player, Targets, Players, IInv, TypeInv
  <1> HIDE DEF local_player
  <1>4. /\ n.pc = "sources" /\ n.op = q.op /\ n.arg = q.arg /\ n.local = local_player(r)
        /\ n.strict = q.strict /\ n.sent = q.sent /\ n.goal = q.goal /\ n.fresh = q.fresh
    BY <1>1 DEF Request
  <1>5. n.session = (q.session \/ Current)
    BY <1>1 DEF Request
  <1>6. n \in Request
    BY <1>1, <1>3 DEF Request, Labels, Current
  <1> HIDE DEF n
  <1>7. Sound(q, n)
    BY <1>1, <1>4, <1>6, GoesOn DEF Fresh, Looking
  <1>8. Tracked(q, n)
    BY <1>1, <1>3, <1>4, <1>5 DEF Tracked, OnTrack, Held
  <1> QED BY <1>1, <1>2, <1>7, <1>8, LookingRuns DEF Quiet, ReadStatus, Looking, NoFault

LEMMA EndsQuietly ==
  ASSUME IInv, NEW r \in Requests, NEW result \in {"failed"}, End(r, result), Running(r),
         req[r].pc \notin {"add", "play"},
         UNCHANGED <<world, mpd, endpoint, alone, dropped>>, NoFault \/ Fault
  PROVE  Quiet(r)
  <1>1. req' = [req EXCEPT ![r] = Sent(req[r], req[r].sent, "failed")]
    BY DEF End, Sends, Sent
  <1> QED BY <1>1, Ended, Asking DEF Quiet, Running

LEMMA EnsureQuiet ==
  ASSUME IInv, NEW r \in Requests, ensure_controls_available(r)
  PROVE  Quiet(r)
  <1> DEFINE q == req[r]
  <1>1. q \in Request /\ Staged(q) /\ q.pc \in {"check", "recheck"}
    BY Asking DEF ensure_controls_available
  <1>2. Running(r) /\ UNCHANGED <<world, mpd, endpoint, alone, dropped>> /\ NoFault
    BY <1>1 DEF ensure_controls_available, Running, NoFault
  <1>3. CASE Blocked
    BY <1>1, <1>2, <1>3, EndsQuietly DEF ensure_controls_available
  <1>4. CASE ~Blocked
    <2> DEFINE n == [q EXCEPT !.pc = IF @ = "recheck" THEN "mpd" ELSE AfterCheck(q.op),
                              !.strict = @ \/ q.pc = "recheck",
                              !.goal = IF q.op = "soap" THEN "invoke" ELSE @]
    <2>1. req' = [req EXCEPT ![r] = n]
      BY <1>4 DEF ensure_controls_available, Proceed
    <2>2. /\ n.pc = (IF q.pc = "recheck" THEN "mpd" ELSE AfterCheck(q.op))
          /\ n.op = q.op /\ n.arg = q.arg /\ n.sent = q.sent
          /\ n.strict = (q.strict \/ q.pc = "recheck")
      BY <1>1 DEF Request
    <2>3. n \in Request
      <3>1. "mpd" \in Labels /\ AfterCheck(q.op) \in Labels /\ "invoke" \in Goals
        BY DEF AfterCheck, Labels, Goals
      <3> HIDE DEF AfterCheck
      <3> QED BY <1>1, <3>1 DEF Request
    <2> HIDE DEF n
    <2>4. Staged(n) /\ Fresh(n)
      <3>1. CASE q.pc = "recheck"
        BY <1>1, <2>2, <3>1 DEF Staged, Fresh, Commands
      <3>2. CASE q.pc = "check"
        <4>1. n.pc = AfterCheck(q.op) /\ n.strict = q.strict
          BY <1>1, <2>2, <3>2 DEF Request
        <4> QED BY <1>1, <2>2, <4>1 DEF Staged, Fresh, AfterCheck, PlayOps, Commands
      <3> QED BY <1>1, <3>1, <3>2
    <2>5. ~Solo(q)
      BY <1>1 DEF Solo
    <2>6. Tracked(q, n)
      BY <1>1, <2>2 DEF Tracked, OnTrack, AfterCheck, Commands
    <2> QED BY <1>2, <1>4, <2>1, <2>2, <2>3, <2>4, <2>5, <2>6 DEF Quiet, Sound
  <1> QED BY <1>3, <1>4

LEMMA MpdUnavailableQuiet ==
  ASSUME IInv, NEW r \in Requests, MpdUnavailable(r)
  PROVE  Quiet(r)
  <1> DEFINE q == req[r]
             n == [q EXCEPT !.pc = "sources", !.session = FALSE]
  <1>1. q \in Request /\ Staged(q) /\ q.pc \in {"mpd", "status"}
    BY Asking DEF MpdUnavailable
  <1>2. /\ Running(r) /\ faults' # faults /\ Fault
        /\ UNCHANGED <<world, mpd, endpoint, alone, dropped>>
    BY <1>1 DEF MpdUnavailable, Running, Fault, IInv, TypeInv
  <1>3. CASE req' = [req EXCEPT ![r] = n]
    <2>1. /\ n.pc = "sources" /\ n.op = q.op /\ n.arg = q.arg
          /\ n.strict = q.strict /\ n.sent = q.sent /\ n.goal = q.goal /\ n.fresh = q.fresh
      BY <1>1 DEF Request
    <2>2. n \in Request
      BY <1>1 DEF Request, Labels
    <2> HIDE DEF n
    <2>3. Sound(q, n)
      BY <1>1, <2>1, <2>2, GoesOn DEF Fresh, Looking
    <2> QED BY <1>2, <1>3, <2>3 DEF Quiet
  <1>4. CASE End(r, "failed")
    BY <1>1, <1>2, <1>4, EndsQuietly
  <1> QED BY <1>3, <1>4 DEF MpdUnavailable

LEMMA ActiveSourcesQuiet ==
  ASSUME IInv, NEW r \in Requests, active_sources(r)
  PROVE  Quiet(r)
  <1> DEFINE q == req[r]
             seen == {s \in streams : s = "mpd" => q.session}
             n == [q EXCEPT !.pc = "winner", !.sources = seen]
  <1>1. q \in Request /\ Staged(q) /\ q.pc = "sources"
    BY Asking DEF active_sources
  <1>2. req' = [req EXCEPT ![r] = n]
    BY DEF active_sources
  <1>3. seen \subseteq Sources /\ (Held /\ (winner = "mpd" => q.session) => winner \in seen)
    BY DEF IInv, TypeInv, Held
  <1> HIDE DEF seen
  <1>4. /\ n.pc = "winner" /\ n.op = q.op /\ n.arg = q.arg /\ n.sources = seen
        /\ n.local = q.local /\ n.session = q.session
        /\ n.strict = q.strict /\ n.sent = q.sent /\ n.goal = q.goal /\ n.fresh = q.fresh
    BY <1>1 DEF Request
  <1>5. n \in Request
    BY <1>1, <1>3 DEF Request, Labels
  <1> HIDE DEF n
  <1>6. Sound(q, n)
    BY <1>1, <1>4, <1>5, GoesOn DEF Fresh, Looking
  <1>7. Tracked(q, n)
    BY <1>1, <1>3, <1>4 DEF Tracked, OnTrack
  <1> QED BY <1>1, <1>2, <1>6, <1>7, LookingRuns DEF Quiet, active_sources, Looking, NoFault

\* A step that only goes to another label of the lookup.
LEMMA GotoQuiet ==
  ASSUME IInv, NEW r \in Requests, NEW label \in Looking \ {"recheck"}, Goto(r, label),
         req[r].pc \in Looking \ {"check"},
         label \in {"store", "call"} /\ req[r].fresh => req[r].at = renderer.at,
         faults' = faults => Tracked(req[r], [req[r] EXCEPT !.pc = label]),
         UNCHANGED <<world, mpd, endpoint, alone, dropped>>, NoFault \/ Fault
  PROVE  Quiet(r)
  <1> DEFINE q == req[r]
             n == [q EXCEPT !.pc = label]
  <1>1. q \in Request /\ Staged(q) /\ label \in Labels
    BY Asking DEF Looking, Labels
  <1>2. req' = [req EXCEPT ![r] = n]
    BY DEF Goto, IInv, TypeInv
  <1>3. /\ n.pc = label /\ n.op = q.op /\ n.arg = q.arg /\ n.at = q.at
        /\ n.strict = q.strict /\ n.sent = q.sent /\ n.goal = q.goal /\ n.fresh = q.fresh
    BY <1>1 DEF Request
  <1>4. n \in Request
    BY <1>1 DEF Request
  <1> HIDE DEF n
  <1>5. Sound(q, n)
    BY <1>1, <1>3, <1>4, GoesOn DEF Fresh
  <1> QED BY <1>2, <1>5, LookingRuns DEF Quiet, n

LEMMA SourcesUnavailableQuiet ==
  ASSUME IInv, NEW r \in Requests, SourcesUnavailable(r)
  PROVE  Quiet(r)
  <1>1. /\ req[r].pc \in Looking \ {"check"} /\ "winner" \in Looking \ {"recheck"}
        /\ Goto(r, "winner") /\ faults' # faults /\ Fault
        /\ UNCHANGED <<world, mpd, endpoint, alone, dropped>>
    BY DEF SourcesUnavailable, Looking, Fault, IInv, TypeInv
  <1> QED BY <1>1, GotoQuiet

LEMMA ReadWinnerQuiet ==
  ASSUME IInv, NEW r \in Requests, ReadWinner(r)
  PROVE  Quiet(r)
  <1> DEFINE q == req[r]
  <1>1. q \in Request /\ Staged(q) /\ q.pc = "winner" /\ q.pc \in Looking \ {"check", "recheck"}
    BY Asking DEF ReadWinner, Looking
  <1>2. /\ Decide(r, winner) /\ UNCHANGED <<world, mpd, endpoint, alone, dropped>>
        /\ Running(r) /\ NoFault
    BY <1>1 DEF ReadWinner, Running, NoFault
  <1>3. CASE winner = "mpd" /\ q.session
    <2>1. Settled(r, q.local) /\ q.local \in Player
      BY <1>1, <1>2, <1>3 DEF Decide, Request, Receivers
    <2>2. OnTrack(q) => q.local.source = winner
      BY <1>1, <1>3 DEF OnTrack
    <2> QED BY <1>1, <1>2, <2>1, <2>2, SettlesQuietly
  <1>4. CASE winner \in q.sources \cap Receivers
    <2> DEFINE n == [q EXCEPT !.pc = "ask", !.todo = {winner}, !.sources = {}]
    <2>1. req' = [req EXCEPT ![r] = n]
      BY <1>2, <1>4 DEF Decide, Receivers
    <2>2. /\ n.pc = "ask" /\ n.op = q.op /\ n.arg = q.arg /\ n.todo = {winner}
          /\ n.strict = q.strict /\ n.sent = q.sent /\ n.goal = q.goal /\ n.fresh = q.fresh
      BY <1>1 DEF Request
    <2>3. n \in Request
      BY <1>1, <1>4 DEF Request, Labels
    <2> HIDE DEF n
    <2>4. Sound(q, n)
      BY <1>1, <2>2, <2>3, GoesOn DEF Fresh, Looking
    <2>5. Tracked(q, n)
      BY <2>2 DEF Tracked, OnTrack
    <2> QED BY <1>2, <2>1, <2>4, <2>5 DEF Quiet
  <1>5. CASE winner = "dlna" /\ winner \in q.sources
    <2> DEFINE n == [q EXCEPT !.pc = "cache", !.goal = "player", !.sources = {}]
    <2>1. req' = [req EXCEPT ![r] = n]
      BY <1>2, <1>5 DEF Decide, Receivers
    <2>2. /\ n.pc = "cache" /\ n.op = q.op /\ n.arg = q.arg
          /\ n.strict = q.strict /\ n.sent = q.sent /\ n.goal = "player" /\ n.fresh = q.fresh
      BY <1>1 DEF Request
    <2>3. n \in Request
      BY <1>1 DEF Request, Labels, Goals
    <2> HIDE DEF n
    <2>4. Sound(q, n)
      BY <1>1, <2>2, <2>3, GoesOn DEF Fresh, Looking
    <2>5. Tracked(q, n)
      BY <1>5, <2>2 DEF Tracked, OnTrack
    <2> QED BY <1>2, <2>1, <2>4, <2>5 DEF Quiet
  <1>6. CASE winner \in q.sources \ (Receivers \cup {"dlna", "mpd"})
    <2>1. Settled(r, external_fallback(r))
      BY <1>2, <1>6 DEF Decide
    <2> QED BY <1>1, <1>2, <2>1, NobodyThere, SettlesQuietly
  <1>7. CASE /\ ~(winner = "mpd" /\ q.session) /\ winner \notin q.sources \cap Receivers
             /\ ~(winner = "dlna" /\ winner \in q.sources)
             /\ winner \notin q.sources \ (Receivers \cup {"dlna", "mpd"})
    <2> DEFINE n == [q EXCEPT !.pc = "names", !.sources = {}]
    <2>1. req' = [req EXCEPT ![r] = n]
      BY <1>2, <1>7 DEF Decide
    <2>2. /\ n.pc = "names" /\ n.op = q.op /\ n.arg = q.arg
          /\ n.strict = q.strict /\ n.sent = q.sent /\ n.goal = q.goal /\ n.fresh = q.fresh
      BY <1>1 DEF Request
    <2>3. n \in Request
      BY <1>1 DEF Request, Labels
    <2> HIDE DEF n
    <2>4. Sound(q, n)
      BY <1>1, <2>2, <2>3, GoesOn DEF Fresh, Looking
    <2>5. ~OnTrack(q)
      BY <1>1, <1>7 DEF OnTrack
    <2> QED BY <1>2, <2>1, <2>4, <2>5 DEF Quiet, Tracked
  <1> QED BY <1>3, <1>4, <1>5, <1>6, <1>7

LEMMA MprisPlayerQuiet ==
  ASSUME IInv, NEW r \in Requests, mpris_player(r)
  PROVE  Quiet(r)
  <1> DEFINE q == req[r]
  <1>1. q \in Request /\ q.pc = "ask" /\ q.pc \in Looking \ {"check", "recheck"}
    BY Asking DEF mpris_player, Looking
  <1>2. UNCHANGED <<world, mpd, endpoint, alone, dropped>> /\ NoFault
    BY DEF mpris_player, NoFault
  <1>3. CASE Silent(r)
    BY <1>1, <1>2, <1>3, NobodyThere, SettlesQuietly DEF Silent
  <1>4. CASE \E s \in q.todo, can \in BOOLEAN :
               Settled(r, [source |-> s, state |-> receiver[s], offers |-> can])
    <2>1. PICK s \in q.todo, can \in BOOLEAN :
            Settled(r, [source |-> s, state |-> receiver[s], offers |-> can])
      BY <1>4
    <2> DEFINE choice == [source |-> s, state |-> receiver[s], offers |-> can]
    <2>2. s \in Receivers /\ (OnTrack(q) => s = winner)
      BY <1>1 DEF Request, OnTrack
    <2>3. choice \in Player /\ choice.source = s /\ Settled(r, choice)
      BY <2>1, <2>2 DEF IInv, TypeInv, Player, Targets, Players
    <2> HIDE DEF choice
    <2> QED BY <1>1, <1>2, <2>2, <2>3, SettlesQuietly
  <1>5. \A can \in Offered(r) : can \in BOOLEAN
    BY <1>1 DEF Offered, Request
  <1> QED BY <1>3, <1>4, <1>5 DEF mpris_player

LEMMA MprisNamesQuiet ==
  ASSUME IInv, NEW r \in Requests, mpris_names(r)
  PROVE  Quiet(r)
  <1> DEFINE q == req[r]
             n == [q EXCEPT !.pc = "scan", !.todo = {s \in Receivers : receiver[s] # "gone"}]
  <1>1. q \in Request /\ Staged(q) /\ q.pc = "names"
    BY Asking DEF mpris_names
  <1>2. req' = [req EXCEPT ![r] = n]
    BY DEF mpris_names
  <1>3. /\ n.pc = "scan" /\ n.op = q.op /\ n.arg = q.arg
        /\ n.strict = q.strict /\ n.sent = q.sent /\ n.goal = q.goal /\ n.fresh = q.fresh
    BY <1>1 DEF Request
  <1>4. n \in Request
    BY <1>1 DEF Request, Labels
  <1> HIDE DEF n
  <1>5. Sound(q, n)
    BY <1>1, <1>3, <1>4, GoesOn DEF Fresh, Looking
  <1>6. Tracked(q, n)
    BY <1>1 DEF Tracked, OnTrack
  <1> QED BY <1>1, <1>2, <1>5, <1>6, LookingRuns DEF Quiet, mpris_names, Looking, NoFault

LEMMA ScanReceiverQuiet ==
  ASSUME IInv, NEW r \in Requests, ScanReceiver(r)
  PROVE  Quiet(r)
  <1> DEFINE q == req[r]
             s == IF "spotify" \in q.todo THEN "spotify" ELSE "airplay"
  <1>1. q \in Request /\ Staged(q) /\ q.pc = "scan" /\ q.pc \in Looking \ {"check", "recheck"}
    BY Asking DEF ScanReceiver, Looking
  <1>2. UNCHANGED <<world, mpd, endpoint, alone, dropped>> /\ NoFault /\ Running(r)
    BY <1>1 DEF ScanReceiver, NoFault, Running
  <1>3. ~OnTrack(q)
    BY <1>1 DEF OnTrack
  <1>4. CASE Goto(r, "known")
    <2>1. "known" \in Looking \ {"recheck"} /\ q.pc \in Looking \ {"check"}
      BY <1>1 DEF Looking
    <2> QED BY <1>2, <1>3, <1>4, <2>1, GotoQuiet DEF Tracked
  <1>5. CASE \E can \in Offered(r) :
               Settled(r, [source |-> s, state |-> receiver[s], offers |-> can])
    <2>1. PICK can \in BOOLEAN : Settled(r, [source |-> s, state |-> receiver[s], offers |-> can])
      BY <1>1, <1>5 DEF Offered, Request
    <2> DEFINE choice == [source |-> s, state |-> receiver[s], offers |-> can]
    <2>2. choice \in Player /\ Settled(r, choice)
      BY <2>1 DEF IInv, TypeInv, Player, Targets, Players, Receivers
    <2> HIDE DEF choice
    <2> QED BY <1>1, <1>2, <1>3, <2>2, SettlesQuietly
  <1>6. CASE req' = [req EXCEPT ![r].todo = @ \ {s}]
    <2> DEFINE n == [q EXCEPT !.todo = @ \ {s}]
    <2>1. req' = [req EXCEPT ![r] = n]
      BY <1>6 DEF IInv, TypeInv
    <2>2. /\ n.pc = q.pc /\ n.op = q.op /\ n.arg = q.arg
          /\ n.strict = q.strict /\ n.sent = q.sent /\ n.goal = q.goal /\ n.fresh = q.fresh
      BY <1>1 DEF Request
    <2>3. n \in Request
      BY <1>1 DEF Request
    <2> HIDE DEF n
    <2>4. Sound(q, n)
      BY <1>1, <2>2, <2>3, GoesOn DEF Fresh, Looking
    <2> QED BY <1>2, <1>3, <2>1, <2>4 DEF Quiet, Tracked
  <1> QED BY <1>4, <1>5, <1>6 DEF ScanReceiver

LEMMA MprisUnavailableQuiet ==
  ASSUME IInv, NEW r \in Requests, MprisUnavailable(r)
  PROVE  Quiet(r)
  <1>1. req[r].pc \in Looking \ {"check", "recheck"} /\ req[r].pc \in Looking \ {"check"}
        /\ "known" \in Looking \ {"recheck"}
    BY DEF MprisUnavailable, Looking
  <1>2. /\ UNCHANGED <<world, mpd, endpoint, alone, dropped>> /\ Fault /\ faults' # faults
    BY DEF MprisUnavailable, Fault, IInv, TypeInv
  <1>3. Goto(r, "known") \/ Settled(r, external_fallback(r)) \/ Settled(r, Nothing)
    BY DEF MprisUnavailable, Silent, LookupFails
  <1>4. CASE Goto(r, "known")
    BY <1>1, <1>2, <1>4, GotoQuiet
  <1>5. CASE Settled(r, external_fallback(r)) \/ Settled(r, Nothing)
    BY <1>1, <1>2, <1>5, NobodyThere, SettlesQuietly
  <1> QED BY <1>3, <1>4, <1>5

LEMMA AtEndpoints == \A i \in DOMAIN Endpoints : Endpoints[i] \in Places
  BY DEF Places

LEMMA DiscoverQuiet ==
  ASSUME IInv, NEW r \in Requests, discover_endpoint(r)
  PROVE  Quiet(r)
  <1> DEFINE q == req[r]
             n == [q EXCEPT !.pc = IF endpoint = None THEN "probe" ELSE "call",
                            !.at = IF endpoint = None THEN Endpoints[1] ELSE endpoint,
                            !.fresh = dropped]
  <1>1. q \in Request /\ Staged(q) /\ q.pc = "cache"
    BY Asking DEF discover_endpoint
  <1>2. req' = [req EXCEPT ![r] = n]
    BY DEF discover_endpoint, IInv, TypeInv
  <1>3. /\ n.pc = (IF endpoint = None THEN "probe" ELSE "call") /\ n.op = q.op /\ n.arg = q.arg
        /\ n.at = (IF endpoint = None THEN Endpoints[1] ELSE endpoint)
        /\ n.strict = q.strict /\ n.sent = q.sent /\ n.goal = q.goal /\ n.fresh = dropped
    BY <1>1 DEF Request
  <1>4. n \in Request
    <2>1. Endpoints[1] \in Places
      BY AtEndpoints DEF PlayerAssumption
    <2>2. "probe" \in Labels /\ "call" \in Labels
      BY DEF Labels
    <2>3. endpoint \in Places \cup {None} /\ dropped \in BOOLEAN
      BY DEF IInv, TypeInv
    <2> QED BY <1>1, <2>1, <2>2, <2>3 DEF Request
  <1> HIDE DEF n
  <1>5. Fresh(n)
    BY <1>3 DEF Fresh, IInv
  <1>6. Sound(q, n)
    BY <1>1, <1>3, <1>4, <1>5, GoesOn DEF Looking
  <1>7. Tracked(q, n)
    BY <1>1, <1>3 DEF Tracked, OnTrack
  <1> QED BY <1>1, <1>2, <1>6, <1>7, LookingRuns DEF Quiet, discover_endpoint, Looking, NoFault

LEMMA ProbeQuiet ==
  ASSUME IInv, NEW r \in Requests, Probe(r)
  PROVE  Quiet(r)
  <1> DEFINE q == req[r]
  <1>1. q \in Request /\ Staged(q) /\ q.pc = "probe" /\ q.pc \in Looking \ {"check", "recheck"}
        /\ q.pc \in Looking \ {"check"}
    BY Asking DEF Probe, Looking
  <1>2. UNCHANGED <<world, mpd, endpoint, alone, dropped>> /\ (NoFault \/ Fault) /\ Running(r)
    BY <1>1 DEF Probe, Running
  <1>3. CASE renderer.at = q.at /\ Goto(r, "store")
    <2> DEFINE n == [q EXCEPT !.pc = "store"]
    <2>1. n.pc = "store" /\ n.op = q.op /\ n.sent = q.sent /\ n.goal = q.goal
      BY <1>1 DEF Request
    <2> HIDE DEF n
    <2>2. Tracked(q, n)
      BY <1>1, <2>1 DEF Tracked, OnTrack
    <2>3. "store" \in Looking \ {"recheck"}
      BY DEF Looking
    <2> QED BY <1>1, <1>2, <1>3, <2>2, <2>3, GotoQuiet DEF n
  <1>4. CASE NextEndpoint(r)
    <2>1. CASE End(r, "failed")
      BY <1>1, <1>2, <2>1, EndsQuietly
    <2>2. CASE Silent(r)
      BY <1>1, <1>2, <2>2, NobodyThere, SettlesQuietly DEF Silent
    <2>3. CASE \E i \in DOMAIN Endpoints : req' = [req EXCEPT ![r].at = Endpoints[i]]
      <3>1. PICK i \in DOMAIN Endpoints : req' = [req EXCEPT ![r].at = Endpoints[i]]
        BY <2>3
      <3> DEFINE n == [q EXCEPT !.at = Endpoints[i]]
      <3>2. req' = [req EXCEPT ![r] = n]
        BY <3>1 DEF IInv, TypeInv
      <3>3. /\ n.pc = q.pc /\ n.op = q.op /\ n.arg = q.arg
            /\ n.strict = q.strict /\ n.sent = q.sent /\ n.goal = q.goal /\ n.fresh = q.fresh
        BY <1>1 DEF Request
      <3>4. n \in Request
        BY <1>1, AtEndpoints DEF Request
      <3> HIDE DEF n
      <3>5. Sound(q, n)
        BY <1>1, <3>3, <3>4, GoesOn DEF Fresh, Looking
      <3>6. Tracked(q, n)
        BY <1>1, <3>3 DEF Tracked, OnTrack
      <3> QED BY <1>2, <3>2, <3>5, <3>6 DEF Quiet
    <2> QED BY <1>4, <2>1, <2>2, <2>3 DEF NextEndpoint, Nowhere
  <1> QED BY <1>3, <1>4 DEF Probe

\* What is left when nobody plays: MPD's player, or none.
LEMMA LastResortPlays ==
  ASSUME NEW r \in Requests, req[r] \in Request
  PROVE  LastResort(r) \in Player
  BY NobodyThere DEF LastResort, Request

LEMMA KnownPlayerQuiet ==
  ASSUME IInv, NEW r \in Requests, known_player(r)
  PROVE  Quiet(r)
  <1> DEFINE q == req[r]
  <1>1. q \in Request /\ Staged(q) /\ q.pc = "known" /\ q.pc \in Looking \ {"check", "recheck"}
    BY Asking DEF known_player, Looking
  <1>2. UNCHANGED <<world, mpd, endpoint, alone, dropped>> /\ NoFault /\ Running(r)
    BY <1>1 DEF known_player, NoFault, Running
  <1>3. ~OnTrack(q)
    BY <1>1 DEF OnTrack
  <1>4. CASE endpoint = None
    <2>1. Settled(r, LastResort(r))
      BY <1>4 DEF known_player
    <2> QED BY <1>1, <1>2, <1>3, <2>1, LastResortPlays, SettlesQuietly
  <1>5. CASE endpoint # None
    <2> DEFINE n == [q EXCEPT !.pc = "call", !.goal = "known", !.at = endpoint, !.fresh = dropped]
    <2>1. req' = [req EXCEPT ![r] = n]
      BY <1>5 DEF known_player, IInv, TypeInv
    <2>2. /\ n.pc = "call" /\ n.op = q.op /\ n.arg = q.arg /\ n.at = endpoint
          /\ n.strict = q.strict /\ n.sent = q.sent /\ n.goal = "known" /\ n.fresh = dropped
      BY <1>1 DEF Request
    <2>3. n \in Request
      <3>1. "call" \in Labels /\ "known" \in Goals
        BY DEF Labels, Goals
      <3>2. endpoint \in Places \cup {None} /\ dropped \in BOOLEAN
        BY DEF IInv, TypeInv
      <3> QED BY <1>1, <3>1, <3>2 DEF Request
    <2> HIDE DEF n
    <2>4. Fresh(n)
      BY <1>5, <2>2 DEF Fresh, IInv
    <2>5. Sound(q, n)
      BY <1>1, <2>2, <2>3, <2>4, GoesOn DEF Looking
    <2> QED BY <1>2, <1>3, <2>1, <2>5 DEF Quiet, Tracked
  <1> QED BY <1>4, <1>5

LEMMA PlayerAtQuiet ==
  ASSUME IInv, NEW r \in Requests, player_at(r)
  PROVE  Quiet(r)
  <1> DEFINE q == req[r]
  <1>1. /\ q \in Request /\ Staged(q) /\ q.pc = "call" /\ q.goal # "invoke"
        /\ q.pc \in Looking \ {"check", "recheck"}
    BY Asking DEF player_at, Reached, Looking
  <1>2. UNCHANGED <<world, mpd, endpoint, alone, dropped>> /\ NoFault
    BY DEF player_at, NoFault
  <1>3. CASE q.goal = "known" /\ Settled(r, LastResort(r))
    <2>1. ~OnTrack(q)
      BY <1>1, <1>3 DEF OnTrack
    <2> QED BY <1>1, <1>2, <1>3, <2>1, LastResortPlays, SettlesQuietly
  <1>4. CASE \E can \in Offered(r) :
               Settled(r, [source |-> "dlna", state |-> renderer.state, offers |-> can])
    <2>1. PICK can \in BOOLEAN :
            Settled(r, [source |-> "dlna", state |-> renderer.state, offers |-> can])
      BY <1>1, <1>4 DEF Offered, Request
    <2> DEFINE choice == [source |-> "dlna", state |-> renderer.state, offers |-> can]
    <2>2. choice \in Player /\ Settled(r, choice) /\ choice.source = "dlna"
      BY <2>1 DEF IInv, TypeInv, Player, Targets, Players
    <2>3. OnTrack(q) => winner = "dlna"
      BY <1>1 DEF OnTrack
    <2> HIDE DEF choice
    <2> QED BY <1>1, <1>2, <2>2, <2>3, SettlesQuietly
  <1> QED BY <1>3, <1>4 DEF player_at

LEMMA CallFailsQuiet ==
  ASSUME IInv, NEW r \in Requests, CallFails(r)
  PROVE  Quiet(r)
  <1> DEFINE q == req[r]
             n == [q EXCEPT !.pc = "drop", !.sent = IF q.goal = "invoke" THEN "dlna" ELSE @]
  <1>1. q \in Request /\ Staged(q) /\ q.pc = "call"
    BY Asking DEF CallFails
  <1>2. req' = [req EXCEPT ![r] = n] /\ (NoFault \/ Fault)
    BY DEF CallFails
  <1>3. /\ n.pc = "drop" /\ n.op = q.op /\ n.arg = q.arg
        /\ n.sent = (IF q.goal = "invoke" THEN "dlna" ELSE q.sent)
        /\ n.strict = q.strict /\ n.goal = q.goal /\ n.fresh = q.fresh
    BY <1>1 DEF Request
  <1>4. n \in Request
    <2>1. "drop" \in Labels /\ "dlna" \in Targets
      BY DEF Labels, Targets, Players
    <2> QED BY <1>1, <2>1 DEF Request
  <1> HIDE DEF n
  <1>5. Sound(q, n)
    <2>1. Staged(n) /\ Fresh(n) /\ (Tame(q) => Tame(n)) /\ ~Solo(q)
      BY <1>1, <1>3 DEF Staged, Fresh, Tame, Solo, Acting
    <2> QED BY <1>3, <1>4, <2>1 DEF Sound
  <1>6. Tracked(q, n)
    BY <1>1, <1>3 DEF Tracked, OnTrack
  <1> QED BY <1>1, <1>2, <1>5, <1>6, LookingRuns DEF Quiet, CallFails, Looking

-----------------------------------------------------------------------------
\* The library's and the queue's steps that leave MPD alone.
LEMMA CheckLibraryQuiet ==
  ASSUME IInv, NEW r \in Requests, CheckLibrary(r)
  PROVE  Quiet(r)
  <1> DEFINE q == req[r]
             n == [q EXCEPT !.pc = "clear"]
  <1>1. q \in Request /\ Staged(q) /\ q.pc = "library"
    BY Asking DEF CheckLibrary
  <1>2. UNCHANGED <<world, mpd, endpoint, alone, dropped>> /\ NoFault /\ Running(r)
    BY <1>1 DEF CheckLibrary, NoFault, Running
  <1>3. CASE Goto(r, "clear")
    <2>1. req' = [req EXCEPT ![r] = n]
      BY <1>3 DEF Goto, IInv, TypeInv
    <2>2. n.pc = "clear" /\ n.op = q.op /\ n.arg = q.arg /\ n.strict = q.strict
      BY <1>1 DEF Request
    <2>3. n \in Request
      BY <1>1 DEF Request, Labels
    <2> HIDE DEF n
    <2>4. Staged(n) /\ Fresh(n)
      BY <1>1, <2>2 DEF Staged, Fresh, PlayOps
    <2>5. ~Tame(q) /\ ~Solo(q) /\ ~OnTrack(q)
      BY <1>1 DEF Tame, Solo, OnTrack, Acting
    <2> QED BY <1>2, <2>1, <2>2, <2>3, <2>4, <2>5 DEF Quiet, Sound, Tracked
  <1>4. CASE End(r, "failed")
    BY <1>1, <1>2, <1>4, EndsQuietly
  <1> QED BY <1>3, <1>4 DEF CheckLibrary

LEMMA UpdateQuiet ==
  ASSUME IInv, NEW r \in Requests, Update(r)
  PROVE  Quiet(r)
  <1> DEFINE q == req[r]
  <1>1. q \in Request /\ Staged(q) /\ q.pc = "update"
    BY Asking DEF Update
  <1>2. req' = [req EXCEPT ![r] = Sent(q, "mpd", "ok")] /\ "mpd" \in Targets
    BY DEF Update, Sends, Sent, Targets, Players
  <1>3. ~Tame(q) /\ ~Solo(q) /\ ~OnTrack(q)
    BY <1>1 DEF Tame, Solo, OnTrack, Acting
  <1>4. Sound(q, Sent(q, "mpd", "ok")) /\ Tracked(q, Sent(q, "mpd", "ok"))
    BY <1>1, <1>2, <1>3, Ends
  <1> QED BY <1>1, <1>2, <1>4 DEF Quiet, Update, Running, NoFault

LEMMA ListQueueQuiet ==
  ASSUME IInv, NEW r \in Requests, ListQueue(r)
  PROVE  Quiet(r)
  <1> DEFINE q == req[r]
             n == [q EXCEPT !.pc = "act"]
  <1>1. q \in Request /\ Staged(q) /\ q.pc = "list"
    BY Asking DEF ListQueue
  <1>2. UNCHANGED <<world, mpd, endpoint, alone, dropped>> /\ NoFault /\ Running(r)
    BY <1>1 DEF ListQueue, NoFault, Running
  <1>3. CASE q.arg \in 1..Len(mpd.queue)
    <2>1. req' = [req EXCEPT ![r] = n]
      BY <1>3 DEF ListQueue, Goto, IInv, TypeInv
    <2>2. n.pc = "act" /\ n.op = q.op /\ n.arg = q.arg /\ n.strict = q.strict
      BY <1>1 DEF Request
    <2>3. n \in Request
      BY <1>1 DEF Request, Labels
    <2> HIDE DEF n
    <2>4. Staged(n) /\ Fresh(n)
      <3>1. q.arg \in Nat \ {0}
        BY <1>3
      <3> QED BY <1>1, <2>2, <3>1 DEF Staged, Fresh
    <2>5. ~Tame(q) /\ ~Solo(q) /\ ~OnTrack(q)
      BY <1>1 DEF Tame, Solo, OnTrack, Acting
    <2> QED BY <1>2, <2>1, <2>2, <2>3, <2>4, <2>5 DEF Quiet, Sound, Tracked
  <1>4. CASE q.arg \notin 1..Len(mpd.queue)
    BY <1>1, <1>2, <1>4, EndsQuietly DEF ListQueue
  <1> QED BY <1>3, <1>4

LEMMA CommandFailsQuiet ==
  ASSUME IInv, NEW r \in Requests, CommandFails(r)
  PROVE  Quiet(r)
  <1> DEFINE q == req[r]
             to == IF q.pc \in {"check", "recheck", "library", "list"} THEN None
                   ELSE IF q.pc = "command" THEN q.target
                   ELSE IF q.pc = "terminate" THEN "spotify" ELSE "mpd"
  <1>1. /\ q \in Request /\ Staged(q)
        /\ q.pc \in {"check", "recheck", "library", "clear", "add", "play", "list", "act",
                     "update", "command", "terminate"}
    BY Asking DEF CommandFails
  <1>2. /\ UNCHANGED <<world, mpd, endpoint, alone, dropped>> /\ Running(r)
        /\ Fault /\ faults' # faults
    BY <1>1 DEF CommandFails, Fault, Running, IInv, TypeInv
  <1>3. req' = [req EXCEPT ![r] = Sent(q, to, "failed")]
    BY DEF CommandFails, Sends, Sent
  <1>4. to \in Targets
    BY <1>1 DEF Request, Targets, Players, Receivers
  <1>5. (Tame(q) => to = None) /\ (Solo(q) => to # None)
    BY <1>1, Names DEF Tame, Solo, Acting
  <1> HIDE DEF to
  <1>6. /\ "failed" \in {"ok", "failed", "terminate"}
        /\ Solo(q) => to # None /\ "failed" = "failed"
    BY <1>5
  <1> HIDE DEF q
  <1>7. Sound(q, Sent(q, to, "failed"))
    BY <1>1, <1>4, <1>5, <1>6, Ends
  <1> QED BY <1>2, <1>3, <1>7 DEF Quiet, q

-----------------------------------------------------------------------------
\* A step of one running request that acts on a player or on the cache.
LEMMA Stepping ==
  ASSUME IInv, NEW r \in Requests, Running(r), NEW n, req' = [req EXCEPT ![r] = n],
         n \in Request, Staged(n), Fresh(n), Blocked /\ Tame(req[r]) => Tame(n),
         Tracked(req[r], n),
         n.op \in Commands => req[r].op = n.op,
         TypeInv', dropped' => endpoint' \in {None, renderer.at}, renderer'.at = renderer.at,
         alone' \subseteq alone \cup {r}, \A s \in alone' : s # r => mpd' = mpd,
         r \in alone' => Solo(n)',
         UNCHANGED <<mode, winner, file, token, put, poll, turn, kept>>, Watch
  PROVE  IInv'
  <1> USE DEF IInv
  <1>1. req'[r] = n /\ (\A s \in Requests : s # r => req'[s] = req[s])
    BY DEF TypeInv
  <1>2. \A s \in Requests : ~Began(s)
    BY <1>1 DEF Began, Running
  <1>3. StoreInv'
    BY StoreStutters
  <1>4. (\A s \in Requests : Staged(req[s]) /\ Fresh(req[s]))'
    BY <1>1 DEF Staged, Fresh
  <1>5. Blocked' = Blocked
    BY DEF Blocked, Effective
  <1>6. (\A s \in barred : s \in Requests /\ Blocked /\ Tame(req[s]))'
    BY <1>1, <1>2, <1>5 DEF Watch, Tame
  <1>7. (\A s \in alone : s \in Requests /\ Solo(req[s]))'
    <2>1. ASSUME NEW s \in alone', s # r PROVE s \in Requests /\ Solo(req[s])'
      BY <1>1, <2>1 DEF Solo
    <2>2. r \in alone' => Solo(req[r])'
      BY <1>1 DEF Solo
    <2> QED BY <2>1, <2>2
  <1>8. ASSUME NEW s \in steady'
        PROVE  /\ s \in Requests /\ Held'
               /\ req'[s].op \in Commands => OnTrack(req[s])'
    <2>1. s \in Requests /\ s \in steady /\ Held /\ Held'
      BY <1>2 DEF Watch, Held, Current
    <2>2. CASE s = r
      BY <1>1, <2>1, <2>2 DEF OnTrack, Tracked
    <2>3. CASE s # r
      BY <1>1, <2>1, <2>3 DEF OnTrack
    <2> QED BY <2>1, <2>2, <2>3
  <1> QED BY <1>3, <1>4, <1>6, <1>7, <1>8

\* The same, when what the request asked for ends or goes on as the lookups' do.
LEMMA SteppingSoundly ==
  ASSUME IInv, NEW r \in Requests, Running(r), NEW n, req' = [req EXCEPT ![r] = n],
         Sound(req[r], n), Tracked(req[r], n),
         streams' \subseteq Sources, mpd' \in [state : States, queue : Seq(Items)],
         receiver' \in [Receivers -> States \cup {"gone"}],
         renderer' \in [at : Places \cup {None}, state : States], renderer'.at = renderer.at,
         endpoint' \in Places \cup {None}, dropped' \in BOOLEAN, NoFault,
         dropped' => endpoint' \in {None, renderer.at},
         alone' = {} \/ UNCHANGED <<mpd, alone>>,
         UNCHANGED <<mode, winner, file, token, put, poll, turn, kept>>, Watch
  PROVE  IInv'
  <1>1. n \in Request /\ Staged(n) /\ Fresh(n) /\ (n.op \in Commands => req[r].op = n.op)
        /\ (Solo(req[r]) => Solo(n))
    BY DEF Sound
  <1>2. TypeInv'
    BY <1>1 DEF TypeInv, IInv, NoFault
  <1>3. Blocked /\ Tame(req[r]) => Tame(n)
    BY DEF Sound
  <1>4. r \in alone' => Solo(n)'
    BY <1>1 DEF IInv, Solo
  <1> QED BY <1>1, <1>2, <1>3, <1>4, Stepping

StoreKept == UNCHANGED <<file, token, put, poll, turn, kept>>

LEMMA StoreEndpointInv ==
  ASSUME IInv, NEW r \in Requests, Store(r), StoreKept, Watch
  PROVE  IInv'
  <1> DEFINE q == req[r]
  <1>1. q \in Request /\ Staged(q) /\ Fresh(q) /\ q.pc = "store"
    BY Asking DEF Store
  <1>2. PICK n : n = [q EXCEPT !.pc = "call"]
    OBVIOUS
  <1>3. req' = [req EXCEPT ![r] = n]
    BY <1>2 DEF Store, Goto, IInv, TypeInv
  <1>4. /\ n.pc = "call" /\ n.op = q.op /\ n.arg = q.arg /\ n.at = q.at
        /\ n.strict = q.strict /\ n.sent = q.sent /\ n.goal = q.goal /\ n.fresh = q.fresh
    BY <1>1, <1>2 DEF Request
  <1>5. n \in Request
    <2>1. "call" \in Labels
      BY DEF Labels
    <2> QED BY <1>1, <1>2, <2>1 DEF Request
  <1>6. Sound(q, n)
    BY <1>1, <1>4, <1>5, GoesOn DEF Fresh, Looking
  <1>7. Tracked(q, n)
    BY <1>1, <1>4 DEF Tracked, OnTrack
  <1>8. endpoint' = q.at /\ dropped' = (dropped /\ q.at = renderer.at)
        /\ UNCHANGED <<world, mpd, alone, faults>>
    BY DEF Store
  <1>9. q.at \in Places \cup {None} /\ Running(r)
    BY <1>1 DEF Request, Running
  <1> QED BY <1>3, <1>6, <1>7, <1>8, <1>9, SteppingSoundly
          DEF IInv, TypeInv, world, NoFault, StoreKept

LEMMA AfterStates ==
  ASSUME NEW state \in States \cup {"gone"}, NEW action
  PROVE  /\ After(state, action) \in States \cup {"gone"}
         /\ state \in States => After(state, action) \in States
  BY DEF After, States

LEMMA InvokeInv ==
  ASSUME IInv, NEW r \in Requests, invoke(r), StoreKept, Watch
  PROVE  IInv'
  <1> DEFINE q == req[r]
  <1>1. q \in Request /\ Staged(q) /\ q.pc = "call" /\ q.goal = "invoke"
    BY Asking DEF invoke, Reached
  <1>2. PICK n : n = Sent(q, "dlna", "ok")
    OBVIOUS
  <1>3. req' = [req EXCEPT ![r] = n] /\ "dlna" \in Targets
    BY <1>2 DEF invoke, Sends, Sent, Targets, Players
  <1>4. ~Tame(q) /\ ~Solo(q) /\ (OnTrack(q) => winner = "dlna")
    BY <1>1 DEF Tame, Solo, OnTrack
  <1>5. Sound(q, n) /\ Tracked(q, n)
    BY <1>1, <1>2, <1>3, <1>4, Ends
  <1>6. renderer' \in [at : Places \cup {None}, state : States] /\ renderer'.at = renderer.at
    <2>1. renderer \in [at : Places \cup {None}, state : States]
      BY DEF IInv, TypeInv
    <2>2. After(renderer.state, q.arg) \in States
      BY <2>1, AfterStates
    <2>3. renderer' = [renderer EXCEPT !.state = After(renderer.state, q.arg)]
      BY DEF invoke
    <2> QED BY <2>1, <2>2, <2>3
  <1>7. UNCHANGED <<mode, winner, streams, receiver, events, mpd, endpoint, alone, dropped, faults>>
        /\ Running(r)
    BY <1>1 DEF invoke, Running
  <1> QED BY <1>3, <1>5, <1>6, <1>7, SteppingSoundly DEF IInv, TypeInv, NoFault, StoreKept

LEMMA InvalidateInv ==
  ASSUME IInv, NEW r \in Requests, invalidate_endpoint(r), StoreKept, Watch
  PROVE  IInv'
  <1> DEFINE q == req[r]
  <1>1. /\ q \in Request /\ Staged(q) /\ q.pc = "drop"
        /\ q.pc \in Looking \ {"check", "recheck"} /\ Running(r)
    BY Asking DEF invalidate_endpoint, Looking, Running
  <1>2. \E n : req' = [req EXCEPT ![r] = n] /\ Sound(q, n) /\ Tracked(q, n)
    <2>1. CASE q.goal = "invoke"
      <3>1. req' = [req EXCEPT ![r] = Sent(q, q.sent, "failed")]
        BY <2>1 DEF invalidate_endpoint, End, Sends, Sent
      <3> QED BY <1>1, <3>1, Ended
    <2>2. CASE q.goal = "known"
      <3>1. Settled(r, LastResort(r)) /\ LastResort(r) \in Player
        BY <1>1, <2>2, LastResortPlays DEF invalidate_endpoint
      <3>2. ~OnTrack(q)
        BY <1>1, <2>2 DEF OnTrack
      <3> QED BY <1>1, <3>1, <3>2, Settling DEF Tracked
    <2>3. CASE q.goal \notin {"invoke", "known"}
      <3>1. Settled(r, external_fallback(r))
        BY <2>3 DEF invalidate_endpoint, Silent
      <3> QED BY <1>1, <3>1, NobodyThere, Settling
    <2> QED BY <2>1, <2>2, <2>3
  <1>3. PICK n : req' = [req EXCEPT ![r] = n] /\ Sound(q, n) /\ Tracked(q, n)
    BY <1>2
  <1>4. /\ endpoint' = (IF endpoint = q.at THEN None ELSE endpoint)
        /\ dropped' = (dropped \/ endpoint = q.at)
        /\ UNCHANGED <<world, mpd, alone, faults>>
    BY DEF invalidate_endpoint, Kept
  <1>5. dropped' => endpoint' \in {None, renderer.at}
    BY <1>4 DEF IInv
  <1> HIDE DEF q
  <1> QED BY <1>1, <1>3, <1>4, <1>5, SteppingSoundly
          DEF IInv, TypeInv, world, NoFault, StoreKept, q

LEMMA CommandMpdInv ==
  ASSUME IInv, NEW r \in Requests, CommandMpd(r), StoreKept, Watch
  PROVE  IInv'
  <1> DEFINE q == req[r]
  <1>1. q \in Request /\ Staged(q) /\ q.pc = "command" /\ q.target = "mpd"
    BY Asking DEF CommandMpd
  <1>2. PICK n : n = Sent(q, "mpd", "ok")
    OBVIOUS
  <1>3. req' = [req EXCEPT ![r] = n] /\ "mpd" \in Targets
    BY <1>2 DEF CommandMpd, Sends, Sent, Targets, Players
  <1>4. ~Tame(q) /\ ~Solo(q) /\ (OnTrack(q) => winner = "mpd")
    BY <1>1 DEF Tame, Solo, OnTrack, Acting
  <1>5. Sound(q, n) /\ Tracked(q, n)
    BY <1>1, <1>2, <1>3, <1>4, Ends
  <1>6. mpd' \in [state : States, queue : Seq(Items)]
    <2>1. mpd \in [state : States, queue : Seq(Items)] /\ After(mpd.state, q.arg) \in States
      BY AfterStates DEF IInv, TypeInv
    <2> HIDE DEF After
    <2> QED BY <2>1 DEF CommandMpd
  <1>7. UNCHANGED <<world, endpoint, dropped, faults>> /\ alone' = {} /\ Running(r)
    BY <1>1 DEF CommandMpd, Running
  <1> QED BY <1>3, <1>5, <1>6, <1>7, SteppingSoundly DEF IInv, TypeInv, world, NoFault, StoreKept

LEMMA CommandReceiverInv ==
  ASSUME IInv, NEW r \in Requests, CommandReceiver(r), StoreKept, Watch
  PROVE  IInv'
  <1> DEFINE q == req[r]
             s == q.target
  <1>1. q \in Request /\ Staged(q) /\ q.pc = "command" /\ s \in Receivers /\ s \in Targets
    BY Asking DEF CommandReceiver, Targets, Players
  <1>2. PICK result \in {"ok", "failed", "terminate"} : Sends(r, s, result)
    BY DEF CommandReceiver
  <1>3. PICK n : n = Sent(q, s, result)
    OBVIOUS
  <1>4. req' = [req EXCEPT ![r] = n]
    BY <1>2, <1>3 DEF Sends, Sent
  <1>5. ~Tame(q) /\ ~Solo(q) /\ (OnTrack(q) => s = winner)
    BY <1>1 DEF Tame, Solo, OnTrack, Acting
  <1>6. Sound(q, n) /\ Tracked(q, n)
    BY <1>1, <1>3, <1>5, Ends
  <1>7. receiver' \in [Receivers -> States \cup {"gone"}]
    <2>1. receiver \in [Receivers -> States \cup {"gone"}]
          /\ After(receiver[s], q.arg) \in States \cup {"gone"}
      BY <1>1, AfterStates DEF IInv, TypeInv
    <2> HIDE DEF After
    <2> QED BY <2>1 DEF CommandReceiver
  <1>8. UNCHANGED <<mode, winner, streams, renderer, events, mpd, endpoint, alone, dropped, faults>>
        /\ Running(r)
    BY <1>1 DEF CommandReceiver, Running
  <1> QED BY <1>4, <1>6, <1>7, <1>8, SteppingSoundly DEF IInv, TypeInv, NoFault, StoreKept

LEMMA TerminateInv ==
  ASSUME IInv, NEW r \in Requests, terminate_receiver_streams(r), StoreKept, Watch
  PROVE  IInv'
  <1> DEFINE q == req[r]
  <1>1. q \in Request /\ Staged(q) /\ q.pc = "terminate" /\ q.sent \in Targets
    BY Asking DEF terminate_receiver_streams, Request
  <1>2. PICK n : n = Sent(q, q.sent, "ok")
    OBVIOUS
  <1>3. req' = [req EXCEPT ![r] = n]
    BY <1>2 DEF terminate_receiver_streams, End, Sends, Sent
  <1>4. ~Tame(q) /\ ~Solo(q) /\ (OnTrack(q) => q.sent \in {None, winner})
    BY <1>1 DEF Tame, Solo, OnTrack, Acting
  <1>5. Sound(q, n) /\ Tracked(q, n)
    BY <1>1, <1>2, <1>4, Ends
  <1>6. receiver' \in [Receivers -> States \cup {"gone"}] /\ streams' \subseteq Sources
    BY DEF terminate_receiver_streams, IInv, TypeInv, Receivers
  <1>7. UNCHANGED <<mode, winner, renderer, events, mpd, endpoint, alone, dropped, faults>>
        /\ Running(r)
    BY <1>1 DEF terminate_receiver_streams, Running
  <1> QED BY <1>3, <1>5, <1>6, <1>7, SteppingSoundly DEF IInv, TypeInv, NoFault, StoreKept

LEMMA SongsOfItems == \A i \in Items : Songs[i] \in Seq(Items) /\ Songs[i] # <<>>
  BY DEF PlayerAssumption

LEMMA ClearInv ==
  ASSUME IInv, NEW r \in Requests, Clear(r), StoreKept, Watch
  PROVE  IInv'
  <1> DEFINE q == req[r]
  <1>1. q \in Request /\ Staged(q) /\ q.pc = "clear" /\ Running(r)
    BY Asking DEF Clear, Running
  <1>2. ~Tame(q) /\ ~OnTrack(q) /\ "mpd" \in Targets
    BY <1>1 DEF Tame, OnTrack, Acting, Targets, Players
  <1>3. /\ mpd' = [state |-> "stopped", queue |-> <<>>] /\ alone' = {r}
        /\ UNCHANGED <<world, endpoint, dropped, faults>>
    BY DEF Clear, Emptied
  <1>4. TypeInv' <=> req' \in [Requests -> Request]
    BY <1>3 DEF TypeInv, IInv, world, States
  <1>5. CASE q.op = "clear_queue"
    <2>1. PICK n : n = Sent(q, "mpd", "ok")
      OBVIOUS
    <2>2. req' = [req EXCEPT ![r] = n]
      BY <1>5, <2>1 DEF Clear, Sends, Sent
    <2>3. SentWell(q, "mpd", "ok", n)
      BY <1>1, <1>2, <2>1, SentRecord
    <2>4. /\ n \in Request /\ n.pc = "ok" /\ n.op = "clear_queue" /\ n.strict = FALSE
          /\ n.fresh = FALSE
      BY <1>5, <2>3, Names DEF SentWell
    <2>5. Staged(n) /\ Fresh(n) /\ Solo(n)' /\ n.op \notin Commands
      BY <2>4 DEF Staged, Fresh, Solo, PlayOps, Commands
    <2>6. TypeInv'
      BY <1>4, <2>2, <2>4 DEF IInv, TypeInv
    <2> HIDE DEF q
    <2> QED BY <1>1, <1>2, <1>3, <2>2, <2>4, <2>5, <2>6, Stepping
            DEF IInv, world, NoFault, StoreKept, Tracked, q
  <1>6. CASE q.op # "clear_queue"
    <2>1. PICK n : n = [q EXCEPT !.pc = "add", !.sent = "mpd"]
      OBVIOUS
    <2>2. req' = [req EXCEPT ![r] = n]
      BY <1>6, <2>1 DEF Clear, IInv, TypeInv
    <2>3. /\ n.pc = "add" /\ n.op = q.op /\ n.arg = q.arg /\ n.sent = "mpd"
          /\ n.strict = q.strict /\ n.fresh = q.fresh
      BY <1>1, <2>1 DEF Request
    <2>4. n \in Request
      <3>1. "add" \in Labels
        BY DEF Labels
      <3> QED BY <1>1, <1>2, <2>1, <3>1 DEF Request
    <2>5. Staged(n) /\ Fresh(n) /\ Solo(n)'
      BY <1>1, <1>3, <1>6, <2>3 DEF Staged, Fresh, Solo
    <2>6. TypeInv'
      BY <1>4, <2>2, <2>4 DEF IInv, TypeInv
    <2> HIDE DEF q
    <2> QED BY <1>1, <1>2, <1>3, <2>2, <2>3, <2>4, <2>5, <2>6, Stepping
            DEF IInv, world, NoFault, StoreKept, Tracked, q
  <1> QED BY <1>5, <1>6

LEMMA AddInv ==
  ASSUME IInv, NEW r \in Requests, Add(r), StoreKept, Watch
  PROVE  IInv'
  <1> DEFINE q == req[r]
             songs == Songs[q.arg]
  <1>1. q \in Request /\ Staged(q) /\ q.pc = "add" /\ Running(r) /\ q.arg \in Items
    BY Asking DEF Add, Running, Staged
  <1>2. ~Tame(q) /\ ~OnTrack(q)
    BY <1>1 DEF Tame, OnTrack, Acting
  <1>3. /\ mpd' = [mpd EXCEPT !.queue = mpd.queue \o songs] /\ alone' = alone \cap {r}
        /\ UNCHANGED <<world, endpoint, dropped, faults>>
    BY DEF Add
  <1>4. PICK n : n = [q EXCEPT !.pc = "play"]
    OBVIOUS
  <1>5. req' = [req EXCEPT ![r] = n]
    BY <1>4 DEF Add, Goto, IInv, TypeInv
  <1>6. /\ n.pc = "play" /\ n.op = q.op /\ n.arg = q.arg /\ n.sent = q.sent
        /\ n.strict = q.strict /\ n.fresh = q.fresh
    BY <1>1, <1>4 DEF Request
  <1>7. n \in Request
    <2>1. "play" \in Labels
      BY DEF Labels
    <2> QED BY <1>1, <1>4, <2>1 DEF Request
  <1>8. Staged(n) /\ Fresh(n)
    BY <1>1, <1>6 DEF Staged, Fresh
  <1>9. songs \in Seq(Items) /\ mpd.queue \in Seq(Items)
        /\ mpd \in [state : States, queue : Seq(Items)]
    BY <1>1, SongsOfItems DEF IInv, TypeInv
  <1> HIDE DEF songs
  <1>10. mpd.queue \o songs \in Seq(Items) /\ <<>> \o songs = songs
    BY <1>9, ConcatProperties, ConcatEmptySeq
  <1>11. TypeInv'
    BY <1>3, <1>5, <1>7, <1>9, <1>10 DEF IInv, TypeInv, world
  <1>12. r \in alone' => Solo(n)'
    <2>1. ASSUME r \in alone PROVE mpd' = [state |-> "stopped", queue |-> songs]
      <3>1. mpd = [state |-> "stopped", queue |-> <<>>]
        BY <1>1, <2>1 DEF IInv, Solo
      <3> QED BY <1>3, <1>10, <3>1
    <2> QED BY <1>3, <1>6, <2>1 DEF Solo, songs
  <1> HIDE DEF q
  <1> QED BY <1>1, <1>2, <1>3, <1>5, <1>6, <1>7, <1>8, <1>11, <1>12, Stepping
          DEF IInv, world, NoFault, StoreKept, Tracked, q

LEMMA PlayInv ==
  ASSUME IInv, NEW r \in Requests, Play(r), StoreKept, Watch
  PROVE  IInv'
  <1> DEFINE q == req[r]
  <1>1. /\ q \in Request /\ Staged(q) /\ q.pc = "play" /\ Running(r) /\ q.arg \in Items
        /\ q.sent = "mpd" /\ q.op \in PlayOps /\ "mpd" \in Targets
    BY Asking DEF Play, Running, Staged, Targets, Players
  <1>2. ~Tame(q) /\ ~OnTrack(q)
    BY <1>1 DEF Tame, OnTrack, Acting
  <1>3. /\ mpd' = [mpd EXCEPT !.state = IF mpd.queue = <<>> THEN @ ELSE "playing"]
        /\ alone' = alone \cap {r} /\ UNCHANGED <<world, endpoint, dropped, faults>>
    BY DEF Play
  <1>4. PICK n : n = Sent(q, "mpd", "ok")
    OBVIOUS
  <1>5. req' = [req EXCEPT ![r] = n]
    BY <1>1, <1>4 DEF Play, End, Sends, Sent
  <1>6. SentWell(q, "mpd", "ok", n)
    BY <1>1, <1>4, SentRecord
  <1>7. /\ n \in Request /\ n.pc = "ok" /\ n.op = q.op /\ n.arg = q.arg /\ n.strict = FALSE
        /\ n.fresh = FALSE
    BY <1>6, Names DEF SentWell
  <1>8. Staged(n) /\ Fresh(n)
    BY <1>1, <1>7 DEF Staged, Fresh
  <1>9. TypeInv'
    <2>1. mpd \in [state : States, queue : Seq(Items)]
      BY DEF IInv, TypeInv
    <2>2. mpd' \in [state : States, queue : Seq(Items)]
      BY <1>3, <2>1 DEF States
    <2> QED BY <1>3, <1>5, <1>7, <2>2 DEF IInv, TypeInv, world
  <1>10. r \in alone' => Solo(n)'
    <2>1. ASSUME r \in alone PROVE mpd' = [state |-> "playing", queue |-> Songs[q.arg]]
      <3>1. mpd = [state |-> "stopped", queue |-> Songs[q.arg]]
        BY <1>1, <2>1 DEF IInv, Solo
      <3>2. Songs[q.arg] # <<>>
        BY <1>1, SongsOfItems
      <3> QED BY <1>3, <3>1, <3>2
    <2> QED BY <1>3, <1>7, <2>1 DEF Solo
  <1> HIDE DEF q
  <1> QED BY <1>1, <1>2, <1>3, <1>5, <1>7, <1>8, <1>9, <1>10, Stepping
          DEF IInv, world, NoFault, StoreKept, Tracked, q

LEMMA ActOnPositionInv ==
  ASSUME IInv, NEW r \in Requests, ActOnPosition(r), StoreKept, Watch
  PROVE  IInv'
  <1> DEFINE q == req[r]
             k == q.arg
             rest == SubSeq(mpd.queue, 1, k - 1) \o SubSeq(mpd.queue, k + 1, Len(mpd.queue))
  <1>1. q \in Request /\ Staged(q) /\ q.pc = "act" /\ Running(r) /\ k \in Nat \ {0}
    BY Asking DEF ActOnPosition, Running, Staged
  <1>2. ~Tame(q) /\ ~Solo(q) /\ ~OnTrack(q) /\ "mpd" \in Targets
    BY <1>1 DEF Tame, Solo, OnTrack, Acting, Targets, Players
  <1>3. PICK result \in {"ok", "failed"} : Sends(r, "mpd", result)
    BY DEF ActOnPosition
  <1>4. PICK n : n = Sent(q, "mpd", result)
    OBVIOUS
  <1>5. req' = [req EXCEPT ![r] = n]
    BY <1>3, <1>4 DEF Sends, Sent
  <1>6. Sound(q, n) /\ Tracked(q, n)
    BY <1>1, <1>2, <1>4, Ends
  <1>7. mpd \in [state : States, queue : Seq(Items)] /\ mpd.queue \in Seq(Items)
    BY DEF IInv, TypeInv
  <1>8. k <= Len(mpd.queue) => rest \in Seq(Items)
    <2>1. Len(mpd.queue) \in Nat /\ \A i \in 1..Len(mpd.queue) : mpd.queue[i] \in Items
      BY <1>7
    <2>2. ASSUME k <= Len(mpd.queue)
          PROVE  SubSeq(mpd.queue, 1, k - 1) \in Seq(Items)
                 /\ SubSeq(mpd.queue, k + 1, Len(mpd.queue)) \in Seq(Items)
      <3>1. \A i \in 1..(k - 1) : mpd.queue[i] \in Items
        BY <1>1, <2>1, <2>2
      <3>2. \A i \in (k + 1)..Len(mpd.queue) : mpd.queue[i] \in Items
        BY <1>1, <2>1, <2>2
      <3>3. 1 \in Int /\ k - 1 \in Int /\ k + 1 \in Int /\ Len(mpd.queue) \in Int
        BY <1>1, <2>1
      <3>4. SubSeq(mpd.queue, 1, k - 1) \in Seq(Items)
        BY <3>1, <3>3, SubSeqProperties
      <3>5. SubSeq(mpd.queue, k + 1, Len(mpd.queue)) \in Seq(Items)
        BY <3>2, <3>3, SubSeqProperties
      <3> QED BY <3>4, <3>5
    <2> QED BY <2>2, ConcatProperties
  <1>9. mpd' \in [state : States, queue : Seq(Items)] /\ (alone' = {} \/ UNCHANGED <<mpd, alone>>)
    <2>1. CASE UNCHANGED <<mpd, alone>>
      BY <1>7, <2>1
    <2>2. CASE /\ k <= Len(mpd.queue) /\ alone' = {}
               /\ mpd' = CASE q.op = "play_queue" -> [mpd EXCEPT !.state = "playing"]
                           [] q.op = "remove_queue" /\ rest = <<>> ->
                                [state |-> "stopped", queue |-> <<>>]
                           [] OTHER -> [mpd EXCEPT !.queue = rest]
      <3>1. rest \in Seq(Items)
        BY <1>8, <2>2
      <3> HIDE DEF rest
      <3>2. CASE q.op = "play_queue"
        BY <1>7, <2>2, <3>2 DEF States
      <3>3. CASE q.op = "remove_queue" /\ rest = <<>>
        BY <1>7, <2>2, <3>3 DEF States
      <3>4. CASE q.op # "play_queue" /\ ~(q.op = "remove_queue" /\ rest = <<>>)
        BY <1>7, <2>2, <3>1, <3>4
      <3> QED BY <2>2, <3>2, <3>3, <3>4
    <2> QED BY <2>1, <2>2 DEF ActOnPosition
  <1>10. UNCHANGED <<world, endpoint, dropped, faults>>
    BY DEF ActOnPosition
  <1> HIDE DEF q, rest, k
  <1> QED BY <1>1, <1>5, <1>6, <1>9, <1>10, SteppingSoundly
          DEF IInv, TypeInv, world, NoFault, StoreKept, q

-----------------------------------------------------------------------------
\* A request that begins.
LEMMA BeginsInv ==
  ASSUME IInv, NEW r \in Requests, NEW n \in Request, req' = [req EXCEPT ![r] = n],
         Staged(n), Fresh(n), Tame(n), OnTrack(n),
         alone' = alone \ {r}, UNCHANGED <<world, mpd, endpoint, dropped, faults>>,
         StoreKept, Watch
  PROVE  IInv'
  <1> USE DEF IInv, world, StoreKept
  <1>1. req'[r] = n /\ (\A s \in Requests : s # r => req'[s] = req[s])
    BY DEF TypeInv
  <1>2. \A s \in Requests : s # r => ~Began(s)
    BY <1>1 DEF Began, Running
  <1>3. StoreInv'
    BY StoreStutters
  <1>4. TypeInv'
    BY <1>1 DEF TypeInv
  <1>5. (\A s \in Requests : Staged(req[s]) /\ Fresh(req[s]))'
    BY <1>1 DEF Staged, Fresh
  <1>6. Blocked' = Blocked
    BY DEF Blocked, Effective
  <1>7. (\A s \in barred : s \in Requests /\ Blocked /\ Tame(req[s]))'
    BY <1>1, <1>2, <1>6 DEF Watch, Tame
  <1>8. (\A s \in alone : s \in Requests /\ Solo(req[s]))'
    BY <1>1 DEF Solo
  <1>9. ASSUME NEW s \in steady'
        PROVE  /\ s \in Requests /\ Held'
               /\ req'[s].op \in Commands => OnTrack(req[s])'
    <2>1. s \in Requests /\ (s = r \/ s \in steady) /\ Held'
      BY <1>2 DEF Watch, Held, Current
    <2>2. CASE s = r
      BY <1>1, <2>1, <2>2 DEF OnTrack
    <2>3. CASE s # r
      BY <1>1, <2>1, <2>3 DEF OnTrack
    <2> QED BY <2>1, <2>2, <2>3
  <1> QED BY <1>3, <1>4, <1>5, <1>7, <1>8, <1>9

LEMMA AskInv ==
  ASSUME IInv, NEW r \in Requests, NEW op \in Operations, NEW first \in {"check", "mpd"},
         NEW strict \in BOOLEAN, strict => first = "check" /\ op # "soap",
         Ask(r, op, first, strict), StoreKept, Watch
  PROVE  IInv'
  <1>1. PICK arg \in Asked[op] :
          req' = [req EXCEPT ![r] = [NoRequest EXCEPT !.pc = first, !.op = op, !.arg = arg,
                                                      !.strict = strict]]
    BY DEF Ask
  <1>2. PICK n : n = [NoRequest EXCEPT !.pc = first, !.op = op, !.arg = arg, !.strict = strict]
    OBVIOUS
  <1>3. /\ n.pc = first /\ n.op = op /\ n.arg = arg /\ n.strict = strict
        /\ n.goal = None /\ n.sent = None /\ n.fresh = FALSE
    BY <1>2 DEF NoRequest
  <1>4. op \in DOMAIN Asked /\ (op \in PlayOps => arg \in Items) /\ arg \in Args /\ op \in Ops
    BY DEF Ask, PlayerAssumption, Args, Ops
  <1>5. n \in Request
    <2>1. first \in Labels
      BY DEF Labels
    <2> QED BY <1>2, <1>4, <2>1, Names DEF Request
  <1>6. Staged(n) /\ Fresh(n)
    BY <1>3, <1>4 DEF Staged, Fresh
  <1>7. Tame(n) /\ OnTrack(n)
    BY <1>3, Names DEF Tame, OnTrack, Acting
  <1>8. alone' = alone \ {r} /\ UNCHANGED <<world, mpd, endpoint, dropped, faults>>
    BY DEF Ask
  <1> QED BY <1>1, <1>2, <1>5, <1>6, <1>7, <1>8, BeginsInv

\* A step of the world, or of the settings: the requests go on as they are,
\* but for what they know of a renderer that has moved.
LEMMA ElsewhereInv ==
  ASSUME IInv, StoreInv', TypeInv', dropped' => endpoint' \in {None, renderer'.at},
         \A s \in Requests : req'[s] \in {req[s], [req[s] EXCEPT !.fresh = FALSE]},
         renderer'.at # renderer.at => \A s \in Requests : req'[s].fresh = FALSE,
         alone' = {} \/ UNCHANGED <<mpd, alone>>, Watch
  PROVE  IInv'
  <1> USE DEF IInv
  <1>1. \A s \in Requests :
          /\ req'[s].pc = req[s].pc /\ req'[s].op = req[s].op /\ req'[s].arg = req[s].arg
          /\ req'[s].session = req[s].session /\ req'[s].local = req[s].local
          /\ req'[s].sources = req[s].sources /\ req'[s].todo = req[s].todo
          /\ req'[s].goal = req[s].goal /\ req'[s].at = req[s].at
          /\ req'[s].strict = req[s].strict /\ req'[s].target = req[s].target
          /\ req'[s].sent = req[s].sent /\ (req'[s].fresh => req[s].fresh)
    <2> SUFFICES ASSUME NEW s \in Requests
                 PROVE  /\ req'[s].pc = req[s].pc /\ req'[s].op = req[s].op
                        /\ req'[s].arg = req[s].arg
                        /\ req'[s].session = req[s].session /\ req'[s].local = req[s].local
                        /\ req'[s].sources = req[s].sources /\ req'[s].todo = req[s].todo
                        /\ req'[s].goal = req[s].goal /\ req'[s].at = req[s].at
                        /\ req'[s].strict = req[s].strict /\ req'[s].target = req[s].target
                        /\ req'[s].sent = req[s].sent /\ (req'[s].fresh => req[s].fresh)
      OBVIOUS
    <2>1. req[s] \in Request
      BY DEF TypeInv
    <2>2. CASE req'[s] = req[s]
      BY <2>2
    <2>3. CASE req'[s] = [req[s] EXCEPT !.fresh = FALSE]
      BY <2>1, <2>3 DEF Request
    <2> QED BY <2>2, <2>3
  <1>2. \A s \in Requests : ~Began(s)
    BY <1>1 DEF Began, Running
  <1>3. (\A s \in Requests : Staged(req[s]) /\ Fresh(req[s]))'
    BY <1>1 DEF Staged, Fresh
  <1>4. (\A s \in barred : s \in Requests /\ Blocked /\ Tame(req[s]))'
    BY <1>1, <1>2 DEF Watch, Tame
  <1>5. (\A s \in alone : s \in Requests /\ Solo(req[s]))'
    BY <1>1 DEF Solo
  <1>6. ASSUME NEW s \in steady'
        PROVE  /\ s \in Requests /\ Held'
               /\ req'[s].op \in Commands => OnTrack(req[s])'
    <2>1. s \in Requests /\ s \in steady /\ winner' = winner /\ Held'
      BY <1>2 DEF Watch, Held, Current
    <2> QED BY <1>1, <2>1 DEF OnTrack
  <1> QED BY <1>3, <1>4, <1>5, <1>6

WorldMoves ==
  PriorityChanges \/ SourceChanges \/ WinnerChanges \/ ReceiverChanges \/ RendererMoves \/ MpdChanges

LEMMA WorldInv ==
  ASSUME IInv, WorldMoves, StoreKept, Watch
  PROVE  IInv'
  <1>1. StoreInv'
    BY StoreStutters DEF IInv, StoreKept
  <1>2. CASE PriorityChanges \/ SourceChanges \/ WinnerChanges \/ ReceiverChanges
    <2>1. UNCHANGED <<renderer, mpd, endpoint, req, alone, dropped, faults>>
      BY <1>2 DEF PriorityChanges, SourceChanges, WinnerChanges, ReceiverChanges
    <2>2. streams' \subseteq Sources
      BY <1>2 DEF PriorityChanges, SourceChanges, WinnerChanges, ReceiverChanges, IInv, TypeInv
    <2>3. receiver' \in [Receivers -> States \cup {"gone"}]
      BY <1>2 DEF PriorityChanges, SourceChanges, WinnerChanges, ReceiverChanges, IInv, TypeInv, States
    <2>4. TypeInv'
      BY <2>1, <2>2, <2>3 DEF IInv, TypeInv
    <2>5. dropped' => endpoint' \in {None, renderer'.at}
      BY <2>1 DEF IInv
    <2> QED BY <1>1, <2>1, <2>4, <2>5, ElsewhereInv
  <1>3. CASE RendererMoves
    <2>1. /\ req' = [r \in Requests |-> [req[r] EXCEPT !.fresh = FALSE]] /\ dropped' = FALSE
          /\ UNCHANGED <<streams, receiver, mpd, endpoint, alone, faults>>
      BY <1>3 DEF RendererMoves
    <2>2. \A s \in Requests : req[s] \in Request
      BY DEF IInv, TypeInv
    <2>3. \A s \in Requests :
            req'[s] = [req[s] EXCEPT !.fresh = FALSE] /\ req'[s] \in Request /\ req'[s].fresh = FALSE
      <3> SUFFICES ASSUME NEW s \in Requests
                   PROVE  /\ req'[s] = [req[s] EXCEPT !.fresh = FALSE]
                          /\ req'[s] \in Request /\ req'[s].fresh = FALSE
        OBVIOUS
      <3>1. req'[s] = [req[s] EXCEPT !.fresh = FALSE] /\ req[s] \in Request
        BY <2>1, <2>2
      <3>2. PICK q : q = req[s]
        OBVIOUS
      <3>3. [q EXCEPT !.fresh = FALSE] \in Request /\ [q EXCEPT !.fresh = FALSE].fresh = FALSE
        BY <3>1, <3>2 DEF Request
      <3> QED BY <3>1, <3>2, <3>3
    <2>4. renderer' \in [at : Places \cup {None}, state : States]
      BY <1>3 DEF RendererMoves, IInv, TypeInv
    <2>5. TypeInv'
      BY <2>1, <2>3, <2>4 DEF IInv, TypeInv
    <2> QED BY <1>1, <2>1, <2>3, <2>5, ElsewhereInv
  <1>4. CASE MpdChanges
    <2>1. alone' = {} /\ UNCHANGED <<streams, receiver, renderer, endpoint, req, dropped, faults>>
      BY <1>4 DEF MpdChanges
    <2>2. mpd' \in [state : States, queue : Seq(Items)]
      <3>1. CASE mpd' = [mpd EXCEPT !.state = "stopped"]
        BY <3>1 DEF IInv, TypeInv, States
      <3>2. CASE \E i \in Items : mpd' = [state |-> "playing", queue |-> Songs[i]]
        BY <3>2, SongsOfItems DEF States
      <3> QED BY <1>4, <3>1, <3>2 DEF MpdChanges
    <2>3. TypeInv' /\ (dropped' => endpoint' \in {None, renderer'.at})
      BY <2>1, <2>2 DEF IInv, TypeInv
    <2> QED BY <1>1, <2>1, <2>3, ElsewhereInv
  <1> QED BY <1>2, <1>3, <1>4 DEF WorldMoves

LEMMA SettingsInv ==
  ASSUME IInv, SettingsChange
  PROVE  IInv'
  <1>1. UNCHANGED <<world, mpd, endpoint, req, alone, dropped, faults>> /\ Watch /\ StoreStep
    BY DEF SettingsChange
  <1>2. StoreInv'
    BY <1>1, StoreStepInv DEF IInv
  <1>3. TypeInv' /\ (dropped' => endpoint' \in {None, renderer'.at})
    BY <1>1 DEF IInv, TypeInv, world
  <1> QED BY <1>1, <1>2, <1>3, ElsewhereInv DEF world

LEMMA CrashInv ==
  ASSUME IInv, Crash
  PROVE  IInv'
  <1>1. /\ req' = [r \in Requests |-> NoRequest] /\ endpoint' = None /\ alone' = {}
        /\ dropped' = FALSE /\ UNCHANGED <<world, mpd, faults>> /\ Watch
    BY DEF Crash, PlayerRestarts
  <1>2. StoreInv'
    BY RestartInv DEF Crash, IInv
  <1>3. /\ NoRequest \in Request /\ NoRequest.pc = "idle" /\ NoRequest.op = None
        /\ NoRequest.sent = None /\ NoRequest.goal = None /\ NoRequest.strict = FALSE
        /\ NoRequest.fresh = FALSE
    BY Names DEF NoRequest
  <1>4. Staged(NoRequest)' /\ Fresh(NoRequest)' /\ Tame(NoRequest)
    BY <1>3, Names DEF Staged, Fresh, Tame, Acting
  <1>5. NoRequest.op \notin Commands
    BY <1>3, Names
  <1>6. TypeInv'
    BY <1>1, <1>3 DEF IInv, TypeInv, world
  <1>7. (\A s \in barred : s \in Requests /\ Blocked /\ Tame(req[s]))'
    BY <1>1, <1>4 DEF Watch, Tame
  <1>8. ASSUME NEW s \in steady'
        PROVE  /\ s \in Requests /\ Held'
               /\ req'[s].op \in Commands => OnTrack(req[s])'
    BY <1>1, <1>5 DEF Watch, Held, Current
  <1>9. (\A r \in Requests : Staged(req[r]) /\ Fresh(req[r]))'
    BY <1>1, <1>3, <1>4 DEF Staged, Fresh
  <1>10. (\A r \in alone : r \in Requests /\ Solo(req[r]))'
    BY <1>1
  <1>11. (dropped => endpoint \in {None, renderer.at})'
    BY <1>1
  <1> QED BY <1>2, <1>6, <1>7, <1>8, <1>9, <1>10, <1>11 DEF IInv

LEMMA Initially == Init => IInv
  <1> SUFFICES ASSUME Init PROVE IInv
    OBVIOUS
  <1>1. StoreInv
    BY StoreInitial DEF Init
  <1>2. PICK s \in Starts : /\ streams = s.streams /\ mpd = s.mpd /\ receiver = s.receiver
                            /\ renderer = s.renderer
    BY DEF Init
  <1>3. s \in World
    BY DEF PlayerAssumption
  <1>4. /\ streams \subseteq Sources /\ mpd \in [state : States, queue : Seq(Items)]
        /\ receiver \in [Receivers -> States \cup {"gone"}]
        /\ renderer \in [at : Places \cup {None}, state : States]
    BY <1>2, <1>3 DEF World
  <1>5. /\ req = [r \in Requests |-> NoRequest] /\ endpoint = None /\ dropped = FALSE
        /\ barred = {} /\ steady = {} /\ alone = {} /\ faults = 0
    BY DEF Init
  <1>6. TypeInv
    BY <1>4, <1>5, Names DEF TypeInv
  <1>7. Staged(NoRequest) /\ Fresh(NoRequest)
    BY Names DEF NoRequest, Staged, Fresh
  <1> QED BY <1>1, <1>5, <1>6, <1>7 DEF IInv

-----------------------------------------------------------------------------
Asks(r) ==
  \/ status(r) \/ player(r) \/ onepause(r) \/ soap_control(r) \/ play_file(r)
  \/ load_playlist(r) \/ play_stream(r) \/ play_url(r) \/ play_queue(r) \/ remove_queue(r)
  \/ clear_queue(r) \/ refresh_library(r)

Looks(r) ==
  \/ ensure_controls_available(r) \/ ReadSong(r) \/ ReadStatus(r) \/ MpdUnavailable(r)
  \/ active_sources(r) \/ SourcesUnavailable(r) \/ ReadWinner(r) \/ mpris_player(r)
  \/ mpris_names(r) \/ ScanReceiver(r) \/ MprisUnavailable(r) \/ discover_endpoint(r)
  \/ Probe(r) \/ known_player(r) \/ player_at(r) \/ CallFails(r) \/ CheckLibrary(r)
  \/ Update(r) \/ ListQueue(r) \/ CommandFails(r)

Acts(r) ==
  \/ Store(r) \/ invoke(r) \/ invalidate_endpoint(r) \/ CommandMpd(r) \/ CommandReceiver(r)
  \/ terminate_receiver_streams(r) \/ Clear(r) \/ Add(r) \/ Play(r) \/ ActOnPosition(r)

LEMMA AsksInv ==
  ASSUME IInv, NEW r \in Requests, Asks(r), StoreKept, Watch
  PROVE  IInv'
  <1> USE DEF Operations, PlayOps
  <1>1. CASE status(r)
    BY <1>1, AskInv DEF status
  <1>2. CASE player(r)
    BY <1>2, AskInv DEF player
  <1>3. CASE onepause(r)
    BY <1>3, AskInv DEF onepause
  <1>4. CASE soap_control(r)
    BY <1>4, AskInv DEF soap_control
  <1>5. CASE play_file(r)
    BY <1>5, AskInv DEF play_file
  <1>6. CASE load_playlist(r)
    BY <1>6, AskInv DEF load_playlist
  <1>7. CASE play_stream(r)
    BY <1>7, AskInv DEF play_stream
  <1>8. CASE play_url(r)
    BY <1>8, AskInv DEF play_url
  <1>9. CASE play_queue(r)
    BY <1>9, AskInv DEF play_queue
  <1>10. CASE remove_queue(r)
    BY <1>10, AskInv DEF remove_queue
  <1>11. CASE clear_queue(r)
    BY <1>11, AskInv DEF clear_queue
  <1>12. CASE refresh_library(r)
    BY <1>12, AskInv DEF refresh_library
  <1> QED BY <1>1, <1>2, <1>3, <1>4, <1>5, <1>6, <1>7, <1>8, <1>9, <1>10, <1>11, <1>12 DEF Asks

LEMMA LooksQuiet ==
  ASSUME IInv, NEW r \in Requests, Looks(r)
  PROVE  Quiet(r)
  BY EnsureQuiet, ReadSongQuiet, ReadStatusQuiet, MpdUnavailableQuiet, ActiveSourcesQuiet, SourcesUnavailableQuiet, ReadWinnerQuiet, MprisPlayerQuiet, MprisNamesQuiet, ScanReceiverQuiet,
     MprisUnavailableQuiet, DiscoverQuiet, ProbeQuiet, KnownPlayerQuiet, PlayerAtQuiet, CallFailsQuiet, CheckLibraryQuiet, UpdateQuiet, ListQueueQuiet, CommandFailsQuiet
     DEF Looks

LEMMA QuietInv ==
  ASSUME IInv, NEW r \in Requests, Quiet(r), StoreKept, Watch
  PROVE  IInv'
  BY Quietly DEF Quiet, StoreKept

LEMMA ActsInv ==
  ASSUME IInv, NEW r \in Requests, Acts(r), StoreKept, Watch
  PROVE  IInv'
  BY StoreEndpointInv, InvokeInv, InvalidateInv, CommandMpdInv, CommandReceiverInv,
     TerminateInv, ClearInv, AddInv, PlayInv, ActOnPositionInv
     DEF Acts

LEMMA Steps == PlayerStep => WorldMoves \/ \E r \in Requests : Asks(r) \/ Looks(r) \/ Acts(r)
  BY DEF PlayerStep, WorldMoves, Asks, Looks, Acts

LEMMA Inductive == IInv /\ [Next]_vars => IInv'
  <1> SUFFICES ASSUME IInv, [Next]_vars PROVE IInv'
    OBVIOUS
  <1>1. CASE SettingsChange
    BY <1>1, SettingsInv
  <1>2. CASE PlayersMove
    <2>1. PlayerStep /\ StoreKept /\ Watch
      BY <1>2 DEF PlayersMove, StoreKept
    <2>2. CASE WorldMoves
      BY <2>1, <2>2, WorldInv
    <2>3. ASSUME NEW r \in Requests, Asks(r) PROVE IInv'
      BY <2>1, <2>3, AsksInv
    <2>4. ASSUME NEW r \in Requests, Looks(r) PROVE IInv'
      BY <2>1, <2>4, LooksQuiet, QuietInv
    <2>5. ASSUME NEW r \in Requests, Acts(r) PROVE IInv'
      BY <2>1, <2>5, ActsInv
    <2> QED BY <2>1, <2>2, <2>3, <2>4, <2>5, Steps
  <1>3. CASE Crash
    BY <1>3, CrashInv
  <1>4. CASE UNCHANGED vars
    <2>1. UNCHANGED <<file, token, put, poll, turn, kept>> /\ UNCHANGED playerVars
      BY <1>4 DEF vars, storeVars
    <2>2. UNCHANGED <<world, mpd, endpoint, req, barred, steady, alone, dropped, faults>>
      BY <2>1 DEF playerVars, ghosts
    <2>3. StoreInv' /\ TypeInv'
      BY <2>1, <2>2, StoreStutters DEF IInv, TypeInv, world
    <2>4. (\A r \in Requests : Staged(req[r]) /\ Fresh(req[r]))'
      BY <2>2 DEF IInv, Staged, Fresh, world
    <2>5. (\A r \in barred : r \in Requests /\ Blocked /\ Tame(req[r]))'
      BY <2>1, <2>2 DEF IInv, Tame, Blocked, Effective, world
    <2>6. (\A r \in alone : r \in Requests /\ Solo(req[r]))'
      BY <2>2 DEF IInv, Solo
    <2>7. ASSUME NEW r \in steady'
          PROVE  /\ r \in Requests /\ Held'
                 /\ req'[r].op \in Commands => OnTrack(req[r])'
      BY <2>2 DEF IInv, Held, Current, OnTrack, world
    <2>8. (dropped => endpoint \in {None, renderer.at})'
      BY <2>2 DEF IInv, world
    <2> QED BY <2>3, <2>4, <2>5, <2>6, <2>7, <2>8 DEF IInv
  <1> QED BY <1>1, <1>2, <1>3, <1>4 DEF Next

LEMMA Invariantly == Spec => []IInv
  BY Initially, Inductive, PTL DEF Spec

\* However the priority and the settings change while requests run, none that
\* has found the controls blocked ever since it arrived sends a command:
\* ensure_controls_available stands on every way to a player.
THEOREM RefusedWhenBlocked == Spec => []RefusedWhileBlocked
  <1>1. IInv => RefusedWhileBlocked
    BY DEF IInv, RefusedWhileBlocked, Tame
  <1> QED BY <1>1, Invariantly, PTL

\* resolve_active_player and control_active_player send a command to the
\* winner or to nobody as long as the winner keeps its stream and no query
\* fails, with any number of requests, sources and endpoints.
THEOREM SteadyWinnerIsTarget == Spec => []SteadyTarget
  <1>1. IInv => SteadyTarget
    BY DEF IInv, SteadyTarget, OnTrack, Commands
  <1> QED BY <1>1, Invariantly, PTL

\* Dropping the endpoint that failed, and only that one, is enough for any
\* number of endpoints and of requests that discover and drop it at once: one
\* lost call is all a renderer that stays costs.
THEOREM OneCallIsLost == Spec => []OneLostCall
  <1>1. IInv => OneLostCall
    BY DEF IInv, OneLostCall, Fresh
  <1> QED BY <1>1, Invariantly, PTL

\* play_file, load_playlist, play_stream and play_url: three mpc's that no
\* other step has come between leave MPD playing exactly what was asked for,
\* whatever it was playing before.
THEOREM PlayedAsSaid == Spec => []PlaysWhatItSays
  <1>1. IInv => PlaysWhatItSays
    BY DEF IInv, PlaysWhatItSays, Solo
  <1> QED BY <1>1, Invariantly, PTL

\* The promises of the settings hold while the players move and the requests
\* that read the settings run.
THEOREM SettingsAreSafe == Spec => [](TokenKeepsUp /\ LostOnlyToOverlap)
  <1>1. IInv => TokenKeepsUp /\ LostOnlyToOverlap
    BY DEF IInv, StoreInv, TokenInv, KeptInv
  <1> QED BY <1>1, Invariantly, PTL
=============================================================================
