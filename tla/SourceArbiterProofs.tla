-------------------------- MODULE SourceArbiterProofs --------------------------
(* What a pass of the source arbiter leaves behind and that sources do not    *)
(* take turns, for any number of sources, streams, events and passes.         *)
EXTENDS SourceArbiter, FiniteSetTheorems, TLAPS

USE DEF Streams

\* A set of streams has a newest one: of the sets of the streams after each of
\* its members one is the smallest.
LEMMA NewestExists ==
  ASSUME NEW S \in SUBSET Streams, S # {}
  PROVE  Newest(S) \in S /\ \A j \in S : j <= Newest(S)
<1> DEFINE After(i) == (i + 1)..MaxStream
           T == {After(i) : i \in S}
           R == StrictSubsetOrdering(Streams)
<1>0. MaxStream \in Nat
  BY ArbiterAssumption
<1>1. \A i \in S : i \in Nat /\ i <= MaxStream /\ After(i) \in SUBSET Streams
  BY <1>0, SMT
<1>2. IsWellFoundedOn(R, SUBSET Streams)
  <2>1. IsFiniteSet(Streams)
    BY <1>0, FS_Interval
  <2> QED BY <2>1, FS_FiniteSubsetsOfFinite, FS_StrictSubsetOrderingWellFounded
<1>3. T \subseteq SUBSET Streams /\ T # {}
  <2> HIDE DEF After
  <2> QED BY <1>1
<1>4. PICK x \in T : \A y \in T : ~(<<y, x>> \in R)
  <2> HIDE DEF T, R
  <2> QED BY <1>2, <1>3, WFMin
<1>5. PICK i \in S : x = After(i)
  BY <1>4
<1>a. \A j \in S : j <= i
  <2> SUFFICES ASSUME NEW j \in S, i < j  PROVE FALSE
    BY <1>1, SMT
  <2>1. After(j) \subseteq After(i)
    BY <1>1, SMT
  <2>2. j \in After(i) /\ j \notin After(j)
    BY <1>1, <1>0, SMT
  <2>3. <<After(j), After(i)>> \in R
    <3> HIDE DEF After
    <3> QED BY <1>1, <2>1, <2>2 DEF StrictSubsetOrdering
  <2>4. After(j) \in T
    OBVIOUS
  <2> QED BY <2>3, <2>4, <1>4, <1>5, Zenon
<1> QED BY <1>a, Zenon DEF Newest

\* Only streams that were created are there, were listed, and have a source.
CreatedInv ==
  \A i \in Streams :
    /\ state[i] # "absent" \/ i \in seen => i <= created
    /\ i <= created => source[i] \in Sources

PassInv ==
  /\ pc # "correcting" => todo = {}
  /\ pc = "idle" => active = seen

IsHeard(i) == source[i] = winner /\ i = Programme(seen, winner)

\* A stream of the list that nobody else touched is as it should be, or has
\* its correction to come, and none that would undo it.
Due(i) ==
  IF IsHeard(i)
  THEN /\ muted[i] => <<i, "unmute">> \in todo
       /\ ~unity[i] => <<i, "unity">> \in todo
       /\ <<i, "mute">> \notin todo
  ELSE /\ ~muted[i] => <<i, "mute">> \in todo
       /\ <<i, "unmute">> \notin todo

DueInv == \A i \in seen \ touched : state[i] # "absent" => Due(i)

QuietInv == quiet => seen = Playing /\ touched = {}

IInv == TypeOK /\ CreatedInv /\ PassInv /\ DueInv /\ QuietInv

LEMMA InitInv == Init => IInv
<1> SUFFICES ASSUME Init PROVE IInv
  OBVIOUS
<1>1. TypeOK
  <2>1. created \in 0..MaxStream /\ events \in 0..MaxEvents
    BY ArbiterAssumption, SMT DEF Init
  <2>2. muted \in [Streams -> BOOLEAN] /\ unity \in [Streams -> BOOLEAN] /\ quiet \in BOOLEAN
    BY Zenon DEF Init
  <2>3. winner \in IF seen = {} THEN {None} ELSE Of(seen)
    BY Zenon DEF Init
  <2> QED BY <2>1, <2>2, <2>3, Zenon DEF Init, TypeOK
<1>2. CreatedInv /\ PassInv /\ DueInv /\ QuietInv
  BY SMT DEF Init, CreatedInv, PassInv, DueInv, QuietInv
<1> QED BY <1>1, <1>2 DEF IInv

\* What the list says of its sources and of the stream to be heard stays while
\* those sources do.
LEMMA ListKept ==
  ASSUME UNCHANGED <<seen, winner>>, \A i \in seen : source'[i] = source[i]
  PROVE  Of(seen)' = Of(seen) /\ \A i \in seen : IsHeard(i)' <=> IsHeard(i)
<1>1. Of(seen)' = Of(seen)
  BY Zenon DEF Of
<1>2. {i \in seen' : source'[i] = winner'} = {i \in seen : source[i] = winner}
  BY Zenon
<1>3. Programme(seen, winner)' = Programme(seen, winner)
  BY <1>2, Zenon DEF Programme, Newest
<1> QED BY <1>1, <1>3, Zenon DEF IsHeard


LEMMA CounterType ==
  ASSUME TypeOK, Happens
  PROVE  events' \in 0..MaxEvents /\ quiet' = FALSE
BY ArbiterAssumption, SMT DEF TypeOK, Happens

\* What is asked of a step that leaves the list alone.
LEMMA SameList ==
  ASSUME IInv, UNCHANGED <<seen, winner>>,
         \A i \in Streams : i <= created => source'[i] = source[i]
  PROVE  /\ winner' \in IF seen' = {} THEN {None} ELSE Of(seen)'
         /\ \A i \in seen : IsHeard(i)' <=> IsHeard(i)
<1>1. \A i \in seen : i \in Streams /\ i <= created
  BY Zenon DEF IInv, TypeOK, CreatedInv
<1>2. \A i \in seen : source'[i] = source[i]
  BY <1>1, Zenon
<1>3. Of(seen)' = Of(seen) /\ \A i \in seen : IsHeard(i)' <=> IsHeard(i)
  BY <1>2, ListKept, Zenon
<1> QED BY <1>3, Zenon DEF IInv, TypeOK

\* The list leaves corrections for all that is not as it should be.
LEMMA ListDue ==
  ASSUME IInv, List
  PROVE  DueInv'
<1> SUFFICES ASSUME NEW i \in Playing  PROVE Due(i)'
  BY Zenon DEF DueInv, List
<1> DEFINE heard == {j \in Playing : source[j] = winner' /\ j = Programme(Playing, winner')}
<1>1. i \in heard <=> IsHeard(i)'
  <2>1. Programme(seen, winner)' = Programme(Playing, winner')
    BY Zenon DEF List, Programme, Newest, server
  <2> QED BY <2>1, Zenon DEF List, IsHeard, server
<1>2. todo' = {<<j, "mute">> : j \in {k \in Playing \ heard : ~muted[k]}}
                \cup {<<j, "unmute">> : j \in {k \in heard : muted[k]}}
                \cup {<<j, "unity">> : j \in {k \in heard : ~unity[k]}}
  BY Zenon DEF List, Corrections
<1>3. muted'[i] = muted[i] /\ unity'[i] = unity[i]
  BY DEF List, server
<1> HIDE DEF heard
<1>4. <<i, "mute">> \in todo' <=> i \in Playing \ heard /\ ~muted[i]
  BY <1>2, SMT
<1>5. <<i, "unmute">> \in todo' <=> i \in heard /\ muted[i]
  BY <1>2, SMT
<1>a. <<i, "unity">> \in todo' <=> i \in heard /\ ~unity[i]
  BY <1>2, SMT
<1> QED BY <1>1, <1>3, <1>4, <1>5, <1>a, Zenon DEF Due

\* The winner is a source of the list.
LEMMA WinnerListed ==
  ASSUME IInv, List
  PROVE  winner' \in IF seen' = {} THEN {None} ELSE Of(seen)'
<1>1. seen' = Playing /\ winner' = ChooseWinner(Playing) /\ Of(seen)' = Of(Playing)
  BY Zenon DEF List, Of, server
<1>2. \A C : C # {} /\ C \subseteq Of(Playing) => Latest(Playing, C) \in Of(Playing)
  <2> SUFFICES ASSUME NEW C, C # {}, C \subseteq Of(Playing)  PROVE Latest(Playing, C) \in Of(Playing)
    OBVIOUS
  <2> DEFINE S == {i \in Playing : source[i] \in C}
  <2>1. S \in SUBSET Streams /\ S # {}
    BY Zenon DEF Of, Playing
  <2>2. Newest(S) \in S
    <3> HIDE DEF S
    <3> QED BY <2>1, NewestExists
  <2> QED BY <2>2, Zenon DEF Latest, Of
<1>3. Of(Playing \ active) \subseteq Of(Playing) /\ (Playing = {} => Of(Playing) = {})
  BY Zenon DEF Of
<1>4. Playing # {} => Of(Playing) # {}
  BY Zenon DEF Of
<1> QED BY <1>1, <1>2, <1>3, <1>4 DEF ChooseWinner

\* A list.
LEMMA ListKeeps ==
  ASSUME IInv, List
  PROVE  IInv'
<1>t. TypeOK'
  <2>1. todo' \subseteq seen' \X Corrects
    BY SMT DEF List, Corrections, Corrects
  <2>2. losers' \subseteq Sources
    <3>1. Of(Playing) \subseteq Sources
      BY Zenon DEF IInv, CreatedInv, Of, Playing
    <3> QED BY <3>1, SMT DEF List, Losers
  <2>3. seen' \in SUBSET Streams /\ quiet' \in BOOLEAN
    BY Zenon DEF List, Playing
  <2> QED BY <2>1, <2>2, <2>3, WinnerListed, Zenon DEF IInv, TypeOK, List, server
<1>c. CreatedInv'
  BY Zenon DEF IInv, CreatedInv, List, Playing, server
<1>p. PassInv'
  BY Zenon DEF PassInv, List
<1>d. DueInv'
  BY ListDue
<1>q. QuietInv'
  BY Zenon DEF QuietInv, List, Playing, server
<1> QED BY <1>t, <1>c, <1>p, <1>d, <1>q, Zenon DEF IInv

\* A correction is made: the stream is then as that asks.
LEMMA CorrectKeeps ==
  ASSUME IInv, Correct
  PROVE  IInv'
<1>1. PICK c \in todo :
        /\ todo' = todo \ {c}
        /\ muted' = [muted EXCEPT ![c[1]] =
             IF state[c[1]] = "absent" \/ c[2] = "unity" THEN @ ELSE c[2] = "mute"]
        /\ unity' = [unity EXCEPT ![c[1]] =
             IF state[c[1]] = "absent" THEN @ ELSE @ \/ c[2] = "unity"]
  BY Zenon DEF Correct
<1>2. c = <<c[1], c[2]>> /\ c[1] \in Streams /\ c[2] \in Corrects
  <2>1. todo \subseteq seen \X Corrects /\ seen \subseteq Streams
    BY Zenon DEF IInv, TypeOK
  <2>2. c \in seen \X Corrects
    BY <1>1, <2>1, Zenon
  <2>3. c = <<c[1], c[2]>> /\ c[1] \in seen /\ c[2] \in Corrects
    BY <2>2, SMT
  <2> QED BY <2>1, <2>3, Zenon
<1>3. /\ winner' \in IF seen' = {} THEN {None} ELSE Of(seen)'
      /\ \A i \in seen : IsHeard(i)' <=> IsHeard(i)
  BY SameList, Zenon DEF Correct
<1>t. TypeOK'
  <2>1. muted' \in [Streams -> BOOLEAN] /\ unity' \in [Streams -> BOOLEAN]
    <3>1. unity[c[1]] \in BOOLEAN /\ muted[c[1]] \in BOOLEAN
      BY <1>2, Zenon DEF IInv, TypeOK
    <3> QED BY <1>1, <1>2, <3>1, Zenon DEF IInv, TypeOK
  <2>2. todo' \subseteq seen' \X Corrects
    BY <1>1, Zenon DEF IInv, TypeOK, Correct
  <2> QED BY <1>3, <2>1, <2>2, Zenon DEF IInv, TypeOK, Correct, history
<1>c. CreatedInv'
  BY Zenon DEF IInv, CreatedInv, Correct
<1>p. PassInv'
  BY <1>1, Zenon DEF IInv, PassInv, Correct
<1>d. DueInv'
  <2> SUFFICES ASSUME NEW i \in seen \ touched, state[i] # "absent"  PROVE Due(i)'
    BY Zenon DEF DueInv, Correct, history
  <2>1. Due(i) /\ (IsHeard(i)' <=> IsHeard(i))
    BY <1>3, Zenon DEF IInv, DueInv
  <2>2. i \in Streams
    BY Zenon DEF IInv, TypeOK
  <2>3. CASE i # c[1]
    <3>1. muted'[i] = muted[i] /\ unity'[i] = unity[i]
      BY <2>2, <2>3, <1>1, Zenon DEF IInv, TypeOK
    <3>2. \A d \in Corrects : <<i, d>> \in todo' <=> <<i, d>> \in todo
      BY <2>3, <1>1, <1>2, SMT
    <3> QED BY <2>1, <3>1, <3>2, SMT DEF Due, Corrects
  <2>4. CASE i = c[1]
    <3>1. /\ c[2] = "mute" => muted'[i]
          /\ c[2] = "unmute" => ~muted'[i]
          /\ c[2] = "unity" => muted'[i] = muted[i]
      BY <2>2, <2>4, <1>1, Zenon DEF IInv, TypeOK
    <3>2. (c[2] = "unity" /\ unity'[i]) \/ (c[2] # "unity" /\ (unity'[i] <=> unity[i]))
      BY <2>2, <2>4, <1>1, <1>2, Zenon DEF IInv, TypeOK, Corrects
    <3>3. \A d \in Corrects : <<i, d>> \in todo' <=> <<i, d>> \in todo /\ d # c[2]
      BY <2>4, <1>1, <1>2, SMT
    <3>4. <<i, c[2]>> \in todo
      BY <2>4, <1>1, <1>2, Zenon
    <3>5. CASE c[2] = "mute"
      BY <2>1, <3>1, <3>2, <3>3, <3>4, <3>5, Zenon DEF Due, Corrects
    <3>6. CASE c[2] = "unmute"
      BY <2>1, <3>1, <3>2, <3>3, <3>4, <3>6, Zenon DEF Due, Corrects
    <3>7. CASE c[2] = "unity"
      BY <2>1, <3>1, <3>2, <3>3, <3>4, <3>7, Zenon DEF Due, Corrects
    <3> QED BY <1>2, <3>5, <3>6, <3>7, Zenon DEF Corrects
  <2> QED BY <2>3, <2>4
<1>q. QuietInv'
  BY Zenon DEF IInv, QuietInv, Correct, Playing, history
<1> QED BY <1>t, <1>c, <1>p, <1>d, <1>q, Zenon DEF IInv

\* A failing correction leaves its stream to the next pass.
LEMMA CorrectFailsKeeps ==
  ASSUME IInv, CorrectFails
  PROVE  IInv'
<1>0. /\ winner' \in IF seen' = {} THEN {None} ELSE Of(seen)'
      /\ \A i \in seen : IsHeard(i)' <=> IsHeard(i)
  BY SameList, Zenon DEF CorrectFails, server
<1>1. TypeOK'
  BY <1>0, CounterType, Zenon DEF IInv, TypeOK, CorrectFails, server
<1>2. CreatedInv'
  BY Zenon DEF IInv, CreatedInv, CorrectFails, server
<1>3. PassInv'
  BY Zenon DEF IInv, PassInv, CorrectFails, server
<1>4. DueInv'
  <2>1. PICK c \in todo : todo' = todo \ {c} /\ touched' = touched \cup {c[1]}
    BY Zenon DEF CorrectFails
  <2> SUFFICES ASSUME NEW i \in seen \ touched', state[i] # "absent"  PROVE Due(i)'
    BY Zenon DEF DueInv, CorrectFails, server
  <2>2. Due(i) /\ (IsHeard(i)' <=> IsHeard(i)) /\ i # c[1]
    BY <1>0, <2>1, Zenon DEF IInv, DueInv
  <2>3. \A d \in Corrects : <<i, d>> \in todo' <=> <<i, d>> \in todo
    BY <2>1, <2>2, SMT
  <2>4. muted'[i] = muted[i] /\ unity'[i] = unity[i]
    BY Zenon DEF CorrectFails, server
  <2> QED BY <2>2, <2>3, <2>4, Zenon DEF Due, Corrects
<1>5. QuietInv'
  BY CounterType, Zenon DEF IInv, QuietInv, CorrectFails
<1> QED BY <1>1, <1>2, <1>3, <1>4, <1>5, Zenon DEF IInv

\* The corrections are made.
LEMMA CorrectedKeeps ==
  ASSUME IInv, Corrected
  PROVE  IInv'
<1>0. /\ winner' \in IF seen' = {} THEN {None} ELSE Of(seen)'
      /\ \A i \in seen : IsHeard(i)' <=> IsHeard(i)
  BY SameList, Zenon DEF Corrected, server, history
<1>1. TypeOK'
  BY <1>0, Zenon DEF IInv, TypeOK, Corrected, server, history
<1>2. CreatedInv'
  BY Zenon DEF IInv, CreatedInv, Corrected, server, history
<1>3. PassInv'
  BY Zenon DEF IInv, PassInv, Corrected, server, history
<1>4. DueInv'
  BY <1>0, Zenon DEF IInv, DueInv, Due, Corrected, server, history
<1>5. QuietInv'
  BY Zenon DEF IInv, QuietInv, Playing, Corrected, server, history
<1> QED BY <1>1, <1>2, <1>3, <1>4, <1>5, Zenon DEF IInv

\* A source is stopped: its streams go later.
LEMMA StopSourceKeeps ==
  ASSUME IInv, StopSource
  PROVE  IInv'
<1>0. /\ winner' \in IF seen' = {} THEN {None} ELSE Of(seen)'
      /\ \A i \in seen : IsHeard(i)' <=> IsHeard(i)
  BY SameList, Zenon DEF StopSource, Stopped, server, history
<1>1. TypeOK'
  BY <1>0, Zenon DEF IInv, TypeOK, StopSource, Stopped, server, history
<1>2. CreatedInv'
  BY Zenon DEF IInv, CreatedInv, StopSource, Stopped, server, history
<1>3. PassInv'
  BY Zenon DEF IInv, PassInv, StopSource, Stopped, server, history
<1>4. DueInv'
  BY <1>0, Zenon DEF IInv, DueInv, Due, StopSource, Stopped, server, history
<1>5. QuietInv'
  BY Zenon DEF IInv, QuietInv, Playing, StopSource, Stopped, server, history
<1> QED BY <1>1, <1>2, <1>3, <1>4, <1>5, Zenon DEF IInv

\* One that cannot be stopped is let be.
LEMMA StopFailsKeeps ==
  ASSUME IInv, StopFails
  PROVE  IInv'
<1>0. /\ winner' \in IF seen' = {} THEN {None} ELSE Of(seen)'
      /\ \A i \in seen : IsHeard(i)' <=> IsHeard(i)
  BY SameList, Zenon DEF StopFails, server
<1>1. TypeOK'
  BY <1>0, CounterType, Zenon DEF IInv, TypeOK, StopFails, server
<1>2. CreatedInv'
  BY Zenon DEF IInv, CreatedInv, StopFails, server
<1>3. PassInv'
  BY Zenon DEF IInv, PassInv, StopFails, server
<1>4. DueInv'
  BY <1>0, Zenon DEF IInv, DueInv, Due, StopFails, server
<1>5. QuietInv'
  BY CounterType, Zenon DEF IInv, QuietInv, StopFails
<1> QED BY <1>1, <1>2, <1>3, <1>4, <1>5, Zenon DEF IInv

\* The pass ends.
LEMMA FinishKeeps ==
  ASSUME IInv, Finish
  PROVE  IInv'
<1>0. /\ winner' \in IF seen' = {} THEN {None} ELSE Of(seen)'
      /\ \A i \in seen : IsHeard(i)' <=> IsHeard(i)
  BY SameList, Zenon DEF Finish, server, history
<1>1. TypeOK'
  BY <1>0, Zenon DEF IInv, TypeOK, Finish, server, history
<1>2. CreatedInv'
  BY Zenon DEF IInv, CreatedInv, Finish, server, history
<1>3. PassInv'
  BY Zenon DEF IInv, PassInv, Finish, server, history
<1>4. DueInv'
  BY <1>0, Zenon DEF IInv, DueInv, Due, Finish, server, history
<1>5. QuietInv'
  BY Zenon DEF IInv, QuietInv, Playing, Finish, server, history
<1> QED BY <1>1, <1>2, <1>3, <1>4, <1>5, Zenon DEF IInv

\* A new arbiter has no list.
LEMMA RestartKeeps ==
  ASSUME IInv, Restart
  PROVE  IInv'
<1>1. TypeOK'
  BY CounterType, Zenon DEF IInv, TypeOK, Restart, server
<1>2. CreatedInv'
  BY Zenon DEF IInv, CreatedInv, Restart, server
<1>3. PassInv'
  BY Zenon DEF PassInv, Restart
<1>4. DueInv'
  BY Zenon DEF DueInv, Restart
<1>5. QuietInv'
  BY CounterType, Zenon DEF IInv, QuietInv, Restart
<1> QED BY <1>1, <1>2, <1>3, <1>4, <1>5, Zenon DEF IInv

\* A new stream is none of the list.
LEMMA AppearKeeps ==
  ASSUME IInv, Appear
  PROVE  IInv'
<1>a. created \in Nat /\ created' = created + 1 /\ created' \in Streams /\ MaxStream \in Nat
  <2>1. created \in 0..MaxStream /\ created < MaxStream /\ created' = created + 1
    BY Zenon DEF IInv, TypeOK, Appear
  <2> QED BY <2>1, ArbiterAssumption, SMT
<1>b. PICK s \in Sources, how \in {"corked", "playing"}, m \in BOOLEAN, u \in BOOLEAN :
        /\ state' = [state EXCEPT ![created'] = how]
        /\ source' = [source EXCEPT ![created'] = s]
        /\ muted' = [muted EXCEPT ![created'] = m]
        /\ unity' = [unity EXCEPT ![created'] = u]
        /\ fresh' = IF how = "playing" THEN fresh \cup {created'} ELSE fresh
  BY Zenon DEF Appear
<1>0. /\ winner' \in IF seen' = {} THEN {None} ELSE Of(seen)'
      /\ \A i \in seen : IsHeard(i)' <=> IsHeard(i)
  <2>1. \A i \in Streams : i <= created => i # created'
    BY <1>a, SMT
  <2>2. \A i \in Streams : i <= created => source'[i] = source[i]
    BY <2>1, <1>b, Zenon DEF IInv, TypeOK
  <2> QED BY <2>2, SameList, Zenon DEF Appear, arbiter
<1>1. TypeOK'
  <2>1. created' \in 0..MaxStream
    BY <1>a, SMT
  <2>2. source' \in [Streams -> Sources \cup {None}]
    BY <1>b, Zenon DEF IInv, TypeOK
  <2>3. /\ state' \in [Streams -> {"absent", "corked", "playing"}]
        /\ muted' \in [Streams -> BOOLEAN] /\ unity' \in [Streams -> BOOLEAN]
    BY <1>b, Zenon DEF IInv, TypeOK
  <2>4. fresh' \subseteq Streams
    BY <1>a, <1>b, Zenon DEF IInv, TypeOK
  <2> QED BY <1>0, <2>1, <2>2, <2>3, <2>4, CounterType, Zenon DEF IInv, TypeOK, Appear, arbiter
<1>2. CreatedInv'
  <2> SUFFICES ASSUME NEW i \in Streams
               PROVE  /\ state'[i] # "absent" \/ i \in seen' => i <= created'
                      /\ i <= created' => source'[i] \in Sources
    BY Zenon DEF CreatedInv
  <2>1. CASE i = created'
    <3>1. source'[i] \in Sources
      BY <2>1, <1>b, Zenon DEF IInv, TypeOK
    <3>2. i <= created'
      BY <2>1, <1>a, SMT
    <3> QED BY <3>1, <3>2, Zenon
  <2>2. CASE i # created'
    <3>1. source'[i] = source[i] /\ state'[i] = state[i] /\ seen' = seen
      BY <2>2, <1>b, Zenon DEF IInv, TypeOK, Appear, arbiter
    <3>2. i <= created <=> i <= created'
      BY <2>2, <1>a, SMT
    <3> QED BY <3>1, <3>2, Zenon DEF IInv, CreatedInv
  <2> QED BY <2>1, <2>2
<1>3. PassInv'
  BY Zenon DEF IInv, PassInv, Appear, arbiter
<1>4. DueInv'
  <2> SUFFICES ASSUME NEW i \in seen \ touched, state'[i] # "absent"  PROVE Due(i)'
    BY Zenon DEF DueInv, Appear, arbiter
  <2>1. i \in Streams /\ i # created'
    <3>1. i \in Streams /\ i <= created
      BY Zenon DEF IInv, TypeOK, CreatedInv
    <3> QED BY <3>1, <1>a, SMT
  <2>2. state'[i] = state[i] /\ muted'[i] = muted[i] /\ unity'[i] = unity[i]
    BY <2>1, <1>b, Zenon DEF IInv, TypeOK
  <2>3. Due(i) /\ (IsHeard(i)' <=> IsHeard(i)) /\ todo' = todo
    BY <1>0, <2>2, Zenon DEF IInv, DueInv, Appear, arbiter
  <2> QED BY <2>2, <2>3, Zenon DEF Due
<1>5. QuietInv'
  BY CounterType, Zenon DEF IInv, QuietInv, Appear
<1> QED BY <1>1, <1>2, <1>3, <1>4, <1>5, Zenon DEF IInv

\* A stream that is corked stays on the list.
LEMMA CorkKeeps ==
  ASSUME IInv, Cork
  PROVE  IInv'
<1>0. /\ winner' \in IF seen' = {} THEN {None} ELSE Of(seen)'
      /\ \A i \in seen : IsHeard(i)' <=> IsHeard(i)
  BY SameList, Zenon DEF Cork, arbiter
<1>a. PICK i \in Playing : state' = [state EXCEPT ![i] = "corked"] /\ state[i] = "playing"
  BY Zenon DEF Cork, Playing
<1>1. TypeOK'
  <2>1. state' \in [Streams -> {"absent", "corked", "playing"}]
    BY <1>a, Zenon DEF IInv, TypeOK
  <2> QED BY <1>0, <2>1, CounterType, Zenon DEF IInv, TypeOK, Cork, arbiter
<1>2. CreatedInv'
  <2>1. \A j \in Streams : state'[j] # "absent" => state[j] # "absent"
    BY <1>a, Zenon DEF IInv, TypeOK
  <2> QED BY <2>1, Zenon DEF IInv, CreatedInv, Cork, arbiter
<1>3. PassInv'
  BY Zenon DEF IInv, PassInv, Cork, arbiter
<1>4. DueInv'
  <2>1. \A j \in Streams : state'[j] # "absent" => state[j] # "absent"
    BY <1>a, Zenon DEF IInv, TypeOK
  <2>2. seen \subseteq Streams
    BY Zenon DEF IInv, TypeOK
  <2> QED BY <1>0, <2>1, <2>2, Zenon DEF IInv, DueInv, Due, Cork, arbiter
<1>5. QuietInv'
  BY CounterType, Zenon DEF IInv, QuietInv, Cork, arbiter
<1> QED BY <1>1, <1>2, <1>3, <1>4, <1>5, Zenon DEF IInv

\* One that resumes waits for the next list.
LEMMA UncorkKeeps ==
  ASSUME IInv, Uncork
  PROVE  IInv'
<1>0. /\ winner' \in IF seen' = {} THEN {None} ELSE Of(seen)'
      /\ \A i \in seen : IsHeard(i)' <=> IsHeard(i)
  BY SameList, Zenon DEF Uncork, arbiter
<1>a. PICK i \in Streams : /\ state[i] = "corked" /\ state' = [state EXCEPT ![i] = "playing"]
                            /\ resumed' = resumed \cup {i}
  BY Zenon DEF Uncork
<1>1. TypeOK'
  <2>1. state' \in [Streams -> {"absent", "corked", "playing"}]
    BY <1>a, Zenon DEF IInv, TypeOK
  <2>2. resumed' \subseteq Streams
    BY <1>a, Zenon DEF IInv, TypeOK
  <2> QED BY <1>0, <2>1, <2>2, CounterType, Zenon DEF IInv, TypeOK, Uncork, arbiter
<1>2. CreatedInv'
  <2>1. \A j \in Streams : state'[j] # "absent" => state[j] # "absent"
    BY <1>a, Zenon DEF IInv, TypeOK
  <2> QED BY <2>1, Zenon DEF IInv, CreatedInv, Uncork, arbiter
<1>3. PassInv'
  BY Zenon DEF IInv, PassInv, Uncork, arbiter
<1>4. DueInv'
  <2>1. \A j \in Streams : state'[j] # "absent" => state[j] # "absent"
    BY <1>a, Zenon DEF IInv, TypeOK
  <2>2. seen \subseteq Streams
    BY Zenon DEF IInv, TypeOK
  <2> QED BY <1>0, <2>1, <2>2, Zenon DEF IInv, DueInv, Due, Uncork, arbiter
<1>5. QuietInv'
  BY CounterType, Zenon DEF IInv, QuietInv, Uncork, arbiter
<1> QED BY <1>1, <1>2, <1>3, <1>4, <1>5, Zenon DEF IInv

\* A stream that is gone is asked nothing any more.
LEMMA GoneKeeps ==
  ASSUME IInv, NEW i \in Streams, Gone(i), quiet' = FALSE, events' \in 0..MaxEvents
  PROVE  IInv'
<1>0. /\ winner' \in IF seen' = {} THEN {None} ELSE Of(seen)'
      /\ \A j \in seen : IsHeard(j)' <=> IsHeard(j)
  BY SameList, Zenon DEF Gone, arbiter
<1>1. TypeOK'
  <2>1. state' \in [Streams -> {"absent", "corked", "playing"}]
    BY Zenon DEF IInv, TypeOK, Gone
  <2> QED BY <1>0, <2>1, Zenon DEF IInv, TypeOK, Gone, arbiter
<1>2. CreatedInv'
  <2>1. \A j \in Streams : state'[j] # "absent" => state[j] # "absent"
    BY Zenon DEF IInv, TypeOK, Gone
  <2> QED BY <2>1, Zenon DEF IInv, CreatedInv, Gone, arbiter
<1>3. PassInv'
  BY Zenon DEF IInv, PassInv, Gone, arbiter
<1>4. DueInv'
  <2>1. \A j \in Streams : state'[j] # "absent" => state[j] # "absent"
    BY Zenon DEF IInv, TypeOK, Gone
  <2>2. seen \subseteq Streams
    BY Zenon DEF IInv, TypeOK
  <2> QED BY <1>0, <2>1, <2>2, Zenon DEF IInv, DueInv, Due, Gone, arbiter
<1>5. QuietInv'
  BY Zenon DEF QuietInv
<1> QED BY <1>1, <1>2, <1>3, <1>4, <1>5, Zenon DEF IInv

\* What another does to a stream is left to the next pass.
LEMMA MeddleKeeps ==
  ASSUME IInv, Meddle
  PROVE  IInv'
<1>a. PICK i \in Streams :
        /\ touched' = touched \cup {i}
        /\ \/ muted' = [muted EXCEPT ![i] = ~@] /\ UNCHANGED unity
           \/ unity' = [unity EXCEPT ![i] = ~@] /\ UNCHANGED muted
  BY Zenon DEF Meddle
<1>0. /\ winner' \in IF seen' = {} THEN {None} ELSE Of(seen)'
      /\ \A j \in seen : IsHeard(j)' <=> IsHeard(j)
  BY SameList, Zenon DEF Meddle, arbiter
<1>1. TypeOK'
  <2>1. muted' \in [Streams -> BOOLEAN] /\ unity' \in [Streams -> BOOLEAN]
    <3>1. muted[i] \in BOOLEAN /\ unity[i] \in BOOLEAN
      BY Zenon DEF IInv, TypeOK
    <3> QED BY <1>a, <3>1, Zenon DEF IInv, TypeOK
  <2>2. touched' \subseteq Streams
    BY <1>a, Zenon DEF IInv, TypeOK
  <2> QED BY <1>0, <2>1, <2>2, CounterType, Zenon DEF IInv, TypeOK, Meddle, arbiter
<1>2. CreatedInv'
  BY Zenon DEF IInv, CreatedInv, Meddle, arbiter
<1>3. PassInv'
  BY Zenon DEF IInv, PassInv, Meddle, arbiter
<1>4. DueInv'
  <2> SUFFICES ASSUME NEW j \in seen \ touched', state[j] # "absent"  PROVE Due(j)'
    BY Zenon DEF DueInv, Meddle, arbiter
  <2>1. j \in Streams /\ j # i /\ Due(j) /\ (IsHeard(j)' <=> IsHeard(j))
    BY <1>0, <1>a, Zenon DEF IInv, TypeOK, DueInv
  <2>2. muted'[j] = muted[j] /\ unity'[j] = unity[j]
    BY <2>1, <1>a, Zenon DEF IInv, TypeOK
  <2> QED BY <2>1, <2>2, Zenon DEF Due, Meddle, arbiter
<1>5. QuietInv'
  BY CounterType, Zenon DEF IInv, QuietInv, Meddle
<1> QED BY <1>1, <1>2, <1>3, <1>4, <1>5, Zenon DEF IInv

\* Every step keeps the invariant.
LEMMA StepInv == IInv /\ [Next]_vars => IInv'
<1> SUFFICES ASSUME IInv, [Next]_vars  PROVE IInv'
  OBVIOUS
<1>1. CASE Arbiter
  BY <1>1, ListKeeps, CorrectKeeps, CorrectedKeeps, StopSourceKeeps, FinishKeeps, Zenon DEF Arbiter
<1>2. CASE CorrectFails \/ StopFails \/ Restart
  BY <1>2, CorrectFailsKeeps, StopFailsKeeps, RestartKeeps, Zenon
<1>3. CASE Appear \/ Cork \/ Uncork \/ Meddle
  BY <1>3, AppearKeeps, CorkKeeps, UncorkKeeps, MeddleKeeps, Zenon
<1>4. CASE Vanish
  <2>1. TypeOK /\ Happens
    BY <1>4, Zenon DEF IInv, Vanish
  <2> QED BY <1>4, <2>1, CounterType, GoneKeeps, Zenon DEF Vanish
<1>5. CASE Close
  <2>1. events' \in 0..MaxEvents /\ condemned \subseteq Streams
    BY <1>5, Zenon DEF IInv, TypeOK, Close
  <2> QED BY <1>5, <2>1, GoneKeeps, Zenon DEF Close
<1>6. CASE UNCHANGED vars
  <2>1. UNCHANGED <<state, source, muted, unity, created>>
    BY <1>6 DEF vars, server
  <2>2. UNCHANGED <<condemned, pc, winner, active, seen, todo, losers>>
    BY <1>6 DEF vars, arbiter
  <2>3. UNCHANGED <<touched, fresh, resumed, quiet, events>>
    BY <1>6 DEF vars, history
  <2>4. \A i : IsHeard(i)' <=> IsHeard(i)
    BY <2>1, <2>2, Zenon DEF IsHeard, Programme, Newest
  <2>5. TypeOK'
    BY <2>1, <2>2, <2>3, Zenon DEF IInv, TypeOK, Of
  <2>6. CreatedInv' /\ PassInv'
    BY <2>1, <2>2, Zenon DEF IInv, CreatedInv, PassInv
  <2>7. DueInv'
    BY <2>1, <2>2, <2>3, <2>4, Zenon DEF IInv, DueInv, Due
  <2>8. QuietInv'
    BY <2>1, <2>2, <2>3, Zenon DEF IInv, QuietInv, Playing
  <2> QED BY <2>5, <2>6, <2>7, <2>8, Zenon DEF IInv
<1> QED BY <1>1, <1>2, <1>3, <1>4, <1>5, <1>6, Zenon DEF Next

LEMMA Invariance == Spec => []IInv
BY InitInv, StepInv, PTL DEF Spec

\* The variables keep their types, and a winner is a source of the list
\* (reconcile, choose_winner).
THEOREM TypeCorrect == Spec => []TypeOK
<1>1. IInv => TypeOK
  BY DEF IInv
<1> QED BY <1>1, Invariance, PTL

\* Between passes the corrections are all made.
LEMMA PassMakesExclusive == IInv => PassIsExclusive
<1> SUFFICES ASSUME IInv, pc = "idle", NEW i \in active \ touched, state[i] # "absent"
             PROVE  IF source[i] = winner /\ i = Programme(active, winner)
                    THEN ~muted[i] /\ unity[i]
                    ELSE muted[i]
  BY Zenon DEF PassIsExclusive
<1>1. active = seen /\ todo = {}
  BY Zenon DEF IInv, PassInv
<1>2. Due(i)
  BY <1>1, Zenon DEF IInv, DueInv
<1> QED BY <1>1, <1>2, Zenon DEF Due, IsHeard

\* What a pass listed and nobody else touched is heard or silent as the
\* winner asks, whatever came, went or failed meanwhile (reconcile).
THEOREM PassExclusive == Spec => []PassIsExclusive
BY PassMakesExclusive, Invariance, PTL

\* A list right after an undisturbed pass is that of the pass.
LEMMA QuietListSettles ==
  ASSUME IInv, List, quiet
  PROVE  winner' = winner /\ todo' = {}
<1>1. seen = Playing /\ active = Playing /\ touched = {}
  BY Zenon DEF IInv, QuietInv, PassInv, List
<1>2. winner' = winner
  <2>1. Of(Playing \ active) = {}
    BY <1>1, Zenon DEF Of
  <2>2. IF Playing = {} THEN winner = None ELSE winner \in Of(Playing)
    BY <1>1, Zenon DEF IInv, TypeOK
  <2> QED BY <2>1, <2>2, Zenon DEF List, ChooseWinner
<1>3. \A i \in Playing : IF IsHeard(i) THEN ~muted[i] /\ unity[i] ELSE muted[i]
  <2>1. pc = "idle"
    BY DEF List
  <2>2. \A i \in Playing : state[i] # "absent" /\ i \in active \ touched
    BY <1>1, Zenon DEF Playing
  <2> QED BY <1>1, <2>1, <2>2, PassMakesExclusive, Zenon DEF PassIsExclusive, IsHeard
<1>4. todo' = {}
  <2>1. todo' = Corrections(Playing, winner)
    BY <1>2, Zenon DEF List
  <2>2. \A i \in Playing : source[i] = winner /\ i = Programme(Playing, winner) <=> IsHeard(i)
    BY <1>1, Zenon DEF IsHeard
  <2> QED BY <1>3, <2>1, <2>2, Zenon DEF Corrections
<1> QED BY <1>2, <1>4

\* Sources do not take turns: an undisturbed pass changes nothing (choose_winner).
THEOREM PassesSettle == Spec => Settles
<1>1. IInv /\ [Next]_vars => [List /\ quiet => winner' = winner /\ todo' = {}]_vars
  BY QuietListSettles, Zenon
<1> QED BY <1>1, Invariance, PTL DEF Spec, Settles

\* A stream that began during the pass is none of its list.  One that plays
\* and was neither listed nor began nor went on since then was there before a
\* restart, when the arbiter knows of no stream and any that began is newer.
NewcomerInv ==
  /\ fresh \cap seen = {}
  /\ \A i \in Playing \ (seen \cup fresh \cup resumed) : seen = {} /\ \A j \in fresh : i < j

LEMMA NewcomerInit == Init => NewcomerInv
BY Zenon DEF Init, NewcomerInv, Playing

\* Steps that start no stream and leave what was listed and began alone.
LEMMA NothingBegins ==
  ASSUME NewcomerInv, UNCHANGED <<seen, fresh>>, resumed \subseteq resumed',
         Playing' \subseteq Playing \cup resumed'
  PROVE  NewcomerInv'
<1>1. Playing' \ (seen' \cup fresh' \cup resumed') \subseteq Playing \ (seen \cup fresh \cup resumed)
  OBVIOUS
<1> QED BY <1>1, Zenon DEF NewcomerInv

LEMMA NewcomerStep == IInv /\ NewcomerInv /\ [Next]_vars => NewcomerInv'
<1> SUFFICES ASSUME IInv, NewcomerInv, [Next]_vars  PROVE NewcomerInv'
  OBVIOUS
<1>1. CASE List
  <2>1. seen' = Playing /\ fresh' = {} /\ state' = state
    BY <1>1 DEF List, server
  <2> QED BY <2>1, Zenon DEF NewcomerInv, Playing
<1>2. CASE Restart
  <2>1. seen' = {} /\ fresh' = {}
    BY <1>2 DEF Restart
  <2> QED BY <2>1, Zenon DEF NewcomerInv
<1>3. CASE Appear
  <2>1. seen' = seen /\ resumed' = resumed /\ created' = created + 1
    BY <1>3 DEF Appear, arbiter
  <2>2. /\ created \in Nat /\ \A i \in seen \cup Playing : i \in Nat /\ i <= created
    BY ArbiterAssumption, SMT DEF IInv, TypeOK, CreatedInv, Playing
  <2>3. PICK how \in {"corked", "playing"} :
          /\ state' = [state EXCEPT ![created'] = how]
          /\ fresh' = IF how = "playing" THEN fresh \cup {created'} ELSE fresh
    BY <1>3, Zenon DEF Appear
  <2>4. \A i \in Streams : state[i] # "playing" /\ state'[i] = "playing" =>
          i = created' /\ how = "playing"
    BY <2>3, Zenon DEF IInv, TypeOK
  <2>5. Playing' \ (seen' \cup fresh' \cup resumed') \subseteq Playing \ (seen \cup fresh \cup resumed)
    BY <2>1, <2>3, <2>4, Zenon DEF Playing
  <2>6. created' \notin seen /\ \A i \in Playing : i < created'
    BY <2>1, <2>2, SMT
  <2>7. fresh' \cap seen' = {}
    BY <2>1, <2>3, <2>6, Zenon DEF NewcomerInv
  <2>8. ASSUME NEW i \in Playing' \ (seen' \cup fresh' \cup resumed')
        PROVE  seen' = {} /\ \A j \in fresh' : i < j
    <3>1. i \in Playing /\ seen = {} /\ \A j \in fresh : i < j
      BY <2>5, Zenon DEF NewcomerInv
    <3> QED BY <3>1, <2>1, <2>3, <2>6, Zenon
  <2> QED BY <2>7, <2>8, Zenon DEF NewcomerInv
<1>4. CASE Uncork
  <2>1. PICK i \in Streams : /\ state' = [state EXCEPT ![i] = "playing"]
                             /\ resumed' = resumed \cup {i}
    BY <1>4, Zenon DEF Uncork
  <2>2. UNCHANGED <<seen, fresh>>
    BY <1>4 DEF Uncork, arbiter
  <2>3. Playing' \subseteq Playing \cup resumed'
    BY <2>1, Zenon DEF Playing, IInv, TypeOK
  <2> QED BY <2>1, <2>2, <2>3, NothingBegins, Zenon
<1>5. CASE Cork \/ Vanish \/ Close
  <2>1. UNCHANGED <<seen, fresh, resumed>>
    BY <1>5 DEF Cork, Vanish, Close, Gone, arbiter
  <2>2. PICK i \in Streams, how \in {"corked", "absent"} : state' = [state EXCEPT ![i] = how]
    BY <1>5, Zenon DEF Cork, Vanish, Close, Gone, Playing, IInv, TypeOK
  <2>3. Playing' \subseteq Playing
    BY <2>2, Zenon DEF Playing, IInv, TypeOK
  <2> QED BY <2>1, <2>3, NothingBegins, Zenon
<1>6. CASE \/ Correct \/ Corrected \/ StopSource \/ Finish \/ CorrectFails \/ StopFails
           \/ Meddle \/ UNCHANGED vars
  <2>1. UNCHANGED <<state, seen, fresh, resumed>>
    BY <1>6 DEF Correct, Corrected, StopSource, Finish, CorrectFails, StopFails, Meddle, vars,
      server, arbiter, history
  <2>2. Playing' = Playing
    BY <2>1, Zenon DEF Playing
  <2> QED BY <2>1, <2>2, NothingBegins, Zenon
<1> QED BY <1>1, <1>2, <1>3, <1>4, <1>5, <1>6, Zenon DEF Next, Arbiter

\* The winner of a list after streams began is the source of one of them, or
\* of one that went on.
LEMMA NewcomerChosen ==
  ASSUME IInv, NewcomerInv, List, NEW b \in fresh, state[b] = "playing"
  PROVE  winner' \in Of({i \in fresh : state[i] = "playing"} \cup resumed)
<1> DEFINE begun == {i \in fresh : state[i] = "playing"}
           new == Playing \ active
           heard == {i \in Playing : source[i] \in Of(new)}
<1>1. active = seen /\ fresh \subseteq Streams
  BY Zenon DEF List, IInv, PassInv, TypeOK
<1>2. b \in new
  BY <1>1, Zenon DEF NewcomerInv, Playing
<1>3. winner' = source[Newest(heard)]
  <2>1. Of(new) # {}
    BY <1>2, Zenon DEF Of
  <2> QED BY <2>1, Zenon DEF List, ChooseWinner, Latest
<1>4. heard \in SUBSET Streams /\ b \in heard
  BY <1>2, Zenon DEF Playing, Of
<1>5. Newest(heard) \in heard /\ \A i \in heard : i <= Newest(heard)
  <2> HIDE DEF heard
  <2> QED BY <1>4, NewestExists, Zenon
<1>6. PICK n \in new : source[n] = winner'
  BY <1>3, <1>5, Zenon DEF Of
<1>7. CASE n \in fresh \cup resumed
  BY <1>6, <1>7, Zenon DEF Of, Playing
<1>8. CASE n \notin fresh \cup resumed
  <2>1. seen = {} /\ \A i \in Playing \ (fresh \cup resumed) : i < b
    BY <1>1, <1>6, <1>8, Zenon DEF NewcomerInv
  <2>2. b <= Newest(heard) /\ b \in Nat /\ Newest(heard) \in Nat
    <3>1. b <= Newest(heard) /\ b \in Streams /\ Newest(heard) \in Streams
      <4> HIDE DEF heard
      <4> QED BY <1>4, <1>5, Zenon
    <3> HIDE DEF heard
    <3> QED BY <3>1, ArbiterAssumption, SMT
  <2>3. ~(Newest(heard) < b)
    BY <2>2, SMT
  <2>4. Newest(heard) \in begun \cup resumed
    BY <1>5, <2>1, <2>3, Zenon DEF Playing
  <2> QED BY <1>3, <2>4, Zenon DEF Of
<1> QED BY <1>7, <1>8

\* A source that begins to play is not overlooked, even in the middle of a
\* pass or after a restart (choose_winner, active_streams).
THEOREM NewcomersWin == Spec => NewStreamWins
<1>1. Init => NewcomerInv
  BY NewcomerInit
<1>2. IInv /\ NewcomerInv /\ [Next]_vars => NewcomerInv'
  BY NewcomerStep
<1>3. IInv /\ NewcomerInv /\ [Next]_vars =>
        [List => LET begun == {i \in fresh : state[i] = "playing"} IN
                 begun # {} => winner' \in Of(begun \cup resumed)]_vars
  BY NewcomerChosen, Zenon
<1> QED BY <1>1, <1>2, <1>3, Invariance, PTL DEF Spec, NewStreamWins
=============================================================================
