-------------------------- MODULE MixPolicyProofs --------------------------
(* What the mix policy promises, for every scale, duck, attenuation and      *)
(* number of requests and events.  A peak budget holds because whoever moves *)
(* a fader holds the lock, LockInv: hence the one process of SumWithinUnity. *)
EXTENDS MixPolicy, TLAPS

\* Where an announcement holds the lock of its process, and a request that
\* of the daemon.
Held == {"duck", "subscribe", "check", "sample", "playing", "return", "putBack", "unlock"}
Working == {"recordLevel", "muteToo", "record"}

LockInv ==
  /\ \A p \in Processes : ann[p].pc \in Held => lock[p] = p
  /\ \A r \in Requests : req[r].pc \in Working => lock["daemon"] = r

SeenInv == \A p \in Processes : ann[p].seen <= cancels

IInv == TypeOK /\ LockInv /\ SeenInv /\ CancellationReaches

USE MixAssumption

\* One announcement moves on, as Goto and its like say; the others stay.
LEMMA GotoFacts ==
  ASSUME TypeOK, NEW p \in Processes, NEW label \in AnnLabels, Goto(p, label)
  PROVE  /\ ann' \in [Processes -> Announcement]
         /\ \A q \in Processes : q # p => ann'[q] = ann[q]
         /\ ann'[p].pc = label /\ ann'[p].kind = ann[p].kind /\ ann'[p].event = ann[p].event
         /\ ann'[p].seen = ann[p].seen
  <1>1. ann \in [Processes -> Announcement] /\ ann[p] \in Announcement
    BY DEF TypeOK
  <1>2. [ann[p] EXCEPT !.pc = label] \in Announcement
    BY <1>1 DEF Announcement
  <1>3. ann' = [ann EXCEPT ![p] = [ann[p] EXCEPT !.pc = label]]
    BY DEF Goto
  <1>4. ann'[p] = [ann[p] EXCEPT !.pc = label]
    BY <1>1, <1>3
  <1>5. ann' \in [Processes -> Announcement] /\ \A q \in Processes : q # p => ann'[q] = ann[q]
    BY <1>1, <1>2, <1>3
  <1> QED BY <1>1, <1>4, <1>5 DEF Announcement

LEMMA ReqGotoFacts ==
  ASSUME TypeOK, NEW r \in Requests, NEW label \in ReqLabels, ReqGoto(r, label)
  PROVE  /\ req' \in [Requests -> FaderRequest]
         /\ \A q \in Requests : q # r => req'[q] = req[q]
         /\ req'[r].pc = label /\ req'[r].op = req[r].op /\ req'[r].bus = req[r].bus
         /\ req'[r].level = req[r].level /\ req'[r].muted = req[r].muted
  <1>1. req \in [Requests -> FaderRequest] /\ req[r] \in FaderRequest
    BY DEF TypeOK
  <1>2. [req[r] EXCEPT !.pc = label] \in FaderRequest
    BY <1>1 DEF FaderRequest
  <1>3. req' = [req EXCEPT ![r] = [req[r] EXCEPT !.pc = label]]
    BY DEF ReqGoto
  <1>4. req'[r] = [req[r] EXCEPT !.pc = label]
    BY <1>1, <1>3
  <1>5. req' \in [Requests -> FaderRequest] /\ \A q \in Requests : q # r => req'[q] = req[q]
    BY <1>1, <1>2, <1>3
  <1> QED BY <1>1, <1>4, <1>5 DEF FaderRequest

\* A fault, an input, or neither.
Counted == Fault \/ UNCHANGED count \/ (Event /\ UNCHANGED faulty)

LEMMA CountFacts ==
  ASSUME TypeOK, Counted
  PROVE  faulty' \in BOOLEAN /\ events' \in 0..MaxEvents
  <1>1. events' \in 0..MaxEvents
    BY DEF TypeOK, Event, Counted, Fault, count
  <1>2. faulty' \in {faulty, TRUE}
    BY DEF Counted, Fault, count
  <1>3. faulty' \in BOOLEAN
    BY <1>2, Zenon DEF TypeOK
  <1> QED BY <1>1, <1>3

\* What a new level or a new pair makes of the sinks.
LEMMA SinkFacts ==
  ASSUME TypeOK, NEW bus \in Bus, NEW level \in Level, NEW muted \in BOOLEAN, NEW fader \in Fader
  PROVE  /\ [sink EXCEPT ![bus] = [@ EXCEPT !.level = level]] \in [Bus -> Fader]
         /\ [sink EXCEPT ![bus] = [@ EXCEPT !.muted = muted]] \in [Bus -> Fader]
         /\ [sink EXCEPT ![bus] = fader] \in [Bus -> Fader]
         /\ [mixer EXCEPT ![bus] = [@ EXCEPT !.level = level]] \in [Bus -> Fader]
         /\ [mixer EXCEPT ![bus] = fader] \in [Bus -> Fader]
  BY DEF TypeOK, Fader

LEMMA LevelFacts ==
  /\ 0 \in Level /\ Unity \in Level
  /\ \A l \in Level : Duck[l] \in Level /\ l \in Nat
  /\ \A fader \in Fader, event \in Level : Amplitude(fader, event) \in Level
  <1>1. 0 \in Level /\ Unity \in Level /\ Level \subseteq Nat
    BY DEF Level
  <1>2. \A l \in Level : Duck[l] \in Level /\ l \in Nat
    BY <1>1
  <1>3. ASSUME NEW fader \in Fader, NEW event \in Level
        PROVE  Amplitude(fader, event) \in Level
    <2>1. fader.level \in Level
      BY DEF Fader
    <2>2. <<fader.level, event>> \in Level \X Level
      BY <2>1
    <2>3. Attenuate[<<fader.level, event>>] \in Level
      BY <2>2
    <2> QED BY <1>1, <2>3 DEF Amplitude
  <1> QED BY <1>1, <1>2, <1>3

LEMMA SafeMusicFacts ==
  ASSUME NEW music \in Fader, NEW alert \in Fader, NEW event \in Level
  PROVE  /\ SafeMusic(music, alert, event) \in Level
         /\ ~music.muted =>
              SafeMusic(music, alert, event) + Amplitude(alert, event) <= Unity
  <1>1. Amplitude(alert, event) \in 0..Unity /\ music.level \in 0..Unity
    <2>1. Amplitude(alert, event) \in Level
      BY LevelFacts
    <2>2. music.level \in Level
      BY DEF Fader
    <2> QED BY <2>1, <2>2 DEF Level
  <1>2. Unity \in Nat /\ Unity - Amplitude(alert, event) \in 0..Unity
    BY <1>1
  <1>0. SafeMusic(music, alert, event) =
          IF music.muted \/ music.level <= Unity - Amplitude(alert, event)
            THEN music.level ELSE Unity - Amplitude(alert, event)
    BY DEF SafeMusic
  <1>3. CASE music.muted
    BY <1>1, <1>3 DEF SafeMusic, Level
  <1>4. CASE ~music.muted /\ music.level <= Unity - Amplitude(alert, event)
    <2>1. SafeMusic(music, alert, event) = music.level
      BY <1>0, <1>4, Zenon
    <2>2. music.level \in Nat /\ music.level <= Unity - Amplitude(alert, event)
      BY <1>1, <1>4
    <2>3. music.level + Amplitude(alert, event) <= Unity
      BY <1>1, <1>2, <2>2
    <2> QED BY <1>1, <2>1, <2>3 DEF Level
  <1>5. CASE ~music.muted /\ ~(music.level <= Unity - Amplitude(alert, event))
    <2>1. SafeMusic(music, alert, event) = Unity - Amplitude(alert, event)
      BY <1>0, <1>5, Zenon
    <2> QED BY <1>1, <1>2, <1>5, <2>1 DEF Level
  <1> QED BY <1>3, <1>4, <1>5

LEMMA EnteredFacts ==
  ASSUME NEW kind \in {"alert", "talkover", "minute"}, NEW s \in Fader, NEW now \in Fader
  PROVE  Entered(kind, s, now) \in Fader
  <1>1. [now EXCEPT !.level = 0] \in Fader
    BY LevelFacts DEF Fader
  <1>2. Duck[s.level] \in Level /\ (s.muted /\ now.muted) \in BOOLEAN
    BY LevelFacts DEF Fader
  <1>3. [level |-> Duck[s.level], muted |-> s.muted /\ now.muted] \in Fader
    BY <1>2 DEF Fader
  <1> QED BY <1>1, <1>3 DEF Entered

LEMMA RecordedFacts ==
  ASSUME NEW q \in FaderRequest, NEW fader \in Fader
  PROVE  Recorded(q, fader) \in Fader
  BY DEF Recorded, FaderRequest, Fader

-----------------------------------------------------------------------------
LEMMA InitialInv == Init => IInv
  <1> SUFFICES ASSUME Init PROVE IInv
    OBVIOUS
  <1>1. IdleAnn \in Announcement /\ IdleReq \in FaderRequest
    BY LevelFacts DEF IdleAnn, IdleReq, Announcement, FaderRequest, AnnLabels, ReqLabels, Silent, Fader,
      Ops, Bus
  <1>2. sink \in [Bus -> Fader] /\ sink["music"].level \in Level
    BY LevelFacts DEF Init, Fader, Bus
  <1>3. TypeOK
    <2>1. ann \in [Processes -> Announcement] /\ req \in [Requests -> FaderRequest]
      BY <1>1 DEF Init
    <2>2. settings \in [pc : {"idle", "save", "cancel"}, enabled : BOOLEAN]
      BY DEF Init
    <2>3. lock \in [Processes -> {Nobody} \cup Processes \cup Requests]
      BY DEF Init
    <2>4. asked \subseteq Level /\ user \in Level /\ mixer \in [Bus -> Fader]
      BY <1>2 DEF Init
    <2>5. enabled \in BOOLEAN /\ cancels \in Nat /\ control \in {Nobody} \cup Requests
      BY DEF Init
    <2>6. events \in 0..MaxEvents
      BY DEF Init
    <2>7. faulty \in BOOLEAN /\ cancelling \in BOOLEAN /\ guessed \in BOOLEAN
      BY DEF Init
    <2> QED BY <1>2, <2>1, <2>2, <2>3, <2>4, <2>5, <2>6, <2>7, Zenon DEF TypeOK
  <1>4. \A p \in Processes : ann[p].pc = "idle" /\ ann[p].seen = 0
    BY DEF Init, IdleAnn
  <1>5. \A r \in Requests : req[r].pc = "idle"
    BY DEF Init, IdleReq
  <1> QED
    BY <1>3, <1>4, <1>5 DEF IInv, LockInv, SeenInv, CancellationReaches, Held, Working, Init

-----------------------------------------------------------------------------
(* Steps, by what they do to the lock and to the announcement or request     *)
(* that takes them.                                                          *)

Holders == {Nobody} \cup Processes \cup Requests
Audible == {"sample", "playing"}

LEMMA HolderFacts ==
  ASSUME TypeOK, NEW p \in Processes, NEW who \in Holders
  PROVE  /\ Acquire(p, who) =>
              /\ lock[p] = Nobody /\ lock' \in [Processes -> Holders] /\ lock'[p] = who
              /\ \A q \in Processes : q # p => lock'[q] = lock[q]
         /\ Release(p) =>
              /\ lock' \in [Processes -> Holders] /\ lock'[p] = Nobody
              /\ \A q \in Processes : q # p => lock'[q] = lock[q]
  BY DEF TypeOK, Holders, Acquire, Release, Nobody

\* Priority audio leaves what belongs to others.
LEMMA PriorityStep ==
  ASSUME IInv, NEW p \in Processes,
         UNCHANGED others \/ (UNCHANGED rest /\ cancelling' \in BOOLEAN /\ guessed' \in BOOLEAN),
         sink' \in [Bus -> Fader], Counted,
         ann' \in [Processes -> Announcement],
         \A q \in Processes : q # p => ann'[q] = ann[q],
         ann'[p].seen \in {ann[p].seen, cancels, 0},
         ann'[p].pc \in Audible =>
           enabled \/ (ann[p].pc \in Audible /\ ann'[p].seen = ann[p].seen),
         \/ lock' = lock /\ (ann'[p].pc \in Held => ann[p].pc \in Held)
         \/ Acquire(p, p)
         \/ Release(p) /\ lock[p] = p /\ ann'[p].pc \notin Held
  PROVE  IInv'
  <1>1. TypeOK /\ LockInv /\ SeenInv /\ CancellationReaches
    BY DEF IInv
  <1>2. lock' \in [Processes -> Holders]
    BY <1>1, HolderFacts DEF TypeOK, Holders
  <1>3. faulty' \in BOOLEAN /\ events' \in 0..MaxEvents
    BY <1>1, CountFacts
  <1>8. UNCHANGED rest
    BY DEF others
  <1>9. cancelling' \in BOOLEAN /\ guessed' \in BOOLEAN
    BY <1>1, Zenon DEF TypeOK, others
  <1>4. TypeOK'
    BY <1>1, <1>2, <1>3, <1>8, <1>9, Zenon DEF TypeOK, rest, Holders
  <1>5. LockInv'
    <2>1. CASE lock' = lock /\ (ann'[p].pc \in Held => ann[p].pc \in Held)
      BY <1>1, <1>8, <2>1 DEF LockInv, rest
    <2>2. CASE Acquire(p, p)
      <3>1. lock[p] = Nobody /\ lock'[p] = p /\ \A q \in Processes : q # p => lock'[q] = lock[q]
        BY <1>1, <2>2, HolderFacts DEF Holders
      <3>2. \A q \in Processes : ann'[q].pc \in Held => lock'[q] = q
        BY <1>1, <3>1 DEF LockInv
      <3>3. \A r \in Requests : req[r].pc \in Working => lock["daemon"] = r /\ r # Nobody
        BY <1>1 DEF LockInv, Nobody
      <3>4. \A r \in Requests : req[r].pc \in Working => lock'["daemon"] = r
        BY <3>1, <3>3
      <3> QED BY <1>8, <3>2, <3>4 DEF LockInv, rest
    <2>3. CASE Release(p) /\ lock[p] = p /\ ann'[p].pc \notin Held
      BY <1>1, <1>8, <2>3, HolderFacts DEF LockInv, rest, Holders
    <2> QED BY <2>1, <2>2, <2>3
  <1>6. SeenInv'
    BY <1>1, <1>4, <1>8 DEF SeenInv, TypeOK, rest, Announcement
  <1>7. CancellationReaches'
    BY <1>1, <1>8 DEF CancellationReaches, rest, Audible
  <1> QED BY <1>4, <1>5, <1>6, <1>7 DEF IInv

LEMMA FadingStep ==
  ASSUME IInv, NEW r \in Requests, UNCHANGED priority,
         sink' \in [Bus -> Fader], mixer' \in [Bus -> Fader],
         Counted,
         control' \in {control, r, Nobody}, asked' \subseteq Level, user' \in Level,
         req' \in [Requests -> FaderRequest],
         \A q \in Requests : q # r => req'[q] = req[q],
         \/ lock' = lock /\ (req'[r].pc \in Working => req[r].pc \in Working)
         \/ Acquire("daemon", r)
         \/ Release("daemon") /\ lock["daemon"] = r /\ req'[r].pc \notin Working
  PROVE  IInv'
  <1>1. TypeOK /\ LockInv /\ SeenInv /\ CancellationReaches
    BY DEF IInv
  <1>2. lock' \in [Processes -> Holders]
    BY <1>1, HolderFacts DEF TypeOK, Holders
  <1>3. faulty' \in BOOLEAN /\ events' \in 0..MaxEvents
    BY <1>1, CountFacts
  <1>4. control' \in {Nobody} \cup Requests
    BY <1>1 DEF TypeOK
  <1>5. TypeOK'
    BY <1>1, <1>2, <1>3, <1>4, Zenon DEF TypeOK, priority, Holders
  <1>6. LockInv'
    <2>1. CASE lock' = lock /\ (req'[r].pc \in Working => req[r].pc \in Working)
      BY <1>1, <2>1 DEF LockInv, priority
    <2>2. CASE Acquire("daemon", r)
      <3>1. /\ lock["daemon"] = Nobody /\ lock'["daemon"] = r
            /\ \A q \in Processes : q # "daemon" => lock'[q] = lock[q]
        BY <1>1, <2>2, HolderFacts DEF Holders
      <3>2. \A q \in Processes : ann[q].pc \in Held => lock[q] = q /\ q # Nobody
        BY <1>1 DEF LockInv, Nobody
      <3>3. \A q \in Requests : req[q].pc \in Working => lock["daemon"] = q /\ q # Nobody
        BY <1>1 DEF LockInv, Nobody
      <3>4. \A q \in Processes : ann[q].pc \in Held => lock'[q] = q
        BY <3>1, <3>2
      <3>5. \A q \in Requests : req'[q].pc \in Working => lock'["daemon"] = q
        BY <3>1, <3>3
      <3> QED BY <3>4, <3>5 DEF LockInv, priority
    <2>3. CASE Release("daemon") /\ lock["daemon"] = r /\ req'[r].pc \notin Working
      BY <1>1, <2>3, HolderFacts DEF LockInv, priority, Holders
    <2> QED BY <2>1, <2>2, <2>3
  <1>7. SeenInv' /\ CancellationReaches'
    BY <1>1 DEF SeenInv, CancellationReaches, priority
  <1> QED BY <1>5, <1>6, <1>7 DEF IInv

Free == {"enter", "between", "restore", "giveBack", "over", "guess", "idle"}

\* Labels, and which of them hold the lock.
LEMMA LabelFacts ==
  /\ Free \subseteq AnnLabels \ Held
  /\ {"duck", "subscribe", "check", "return", "putBack", "unlock"}
       \subseteq (AnnLabels \cap Held) \ Audible
  /\ Audible \subseteq AnnLabels \cap Held /\ "playing" \in Audible /\ "sample" \in Audible
  /\ Free \cap Audible = {}
  /\ \A kind : After(kind) \in {"putBack", "unlock"}
  BY DEF AnnLabels, Held, Audible, After, Free

LEMMA BeginningFacts ==
  ASSUME NEW kind \in Kinds, NEW event \in Level, NEW snapshot \in Fader
  PROVE  /\ Beginning(kind, event, snapshot) \in Announcement
         /\ Beginning(kind, event, snapshot).pc \in Free
         /\ Beginning(kind, event, snapshot).seen = 0
  <1>1. kind \in {"alert", "talkover", "minute"} /\ 0 \in Level /\ 0 \in Nat
    BY LevelFacts
  <1>2. (IF kind = "talkover" THEN "between" ELSE "enter") \in AnnLabels \cap Free
    BY DEF AnnLabels, Free
  <1> QED BY <1>1, <1>2 DEF Beginning, Announcement

Left(snapshot, label) ==
  [IdleAnn EXCEPT !.kind = "minute", !.snapshot = snapshot, !.pc = label]

\* Idle as an announcement, and what is left of a cancelled minute.
LEMMA IdleFacts ==
  /\ IdleAnn \in Announcement /\ IdleAnn.pc = "idle" /\ IdleAnn.seen = 0
  /\ \A snapshot \in Fader, label \in Free :
       Left(snapshot, label) \in Announcement /\ Left(snapshot, label).pc = label
         /\ Left(snapshot, label).seen = 0
  <1>1. IdleAnn \in Announcement /\ IdleAnn.pc = "idle" /\ IdleAnn.seen = 0
    BY LevelFacts DEF IdleAnn, Announcement, AnnLabels, Silent, Fader
  <1>2. Free \subseteq AnnLabels
    BY LabelFacts
  <1> QED BY <1>1, <1>2 DEF Announcement, Left

\* One announcement is replaced by another.
LEMMA ReplaceFacts ==
  ASSUME TypeOK, NEW p \in Processes, NEW new \in Announcement, ann' = [ann EXCEPT ![p] = new]
  PROVE  /\ ann' \in [Processes -> Announcement] /\ ann'[p] = new
         /\ \A q \in Processes : q # p => ann'[q] = ann[q]
  BY DEF TypeOK

LEMMA WriteFacts ==
  ASSUME TypeOK, NEW fader \in Fader, Write(fader)
  PROVE  sink' \in [Bus -> Fader] /\ Counted
  <1>1. "music" \in Bus /\ sink \in [Bus -> Fader]
    BY DEF Bus, TypeOK
  <1>2. CASE sink' = [sink EXCEPT !["music"] = fader] /\ UNCHANGED count
    BY <1>1, <1>2, SinkFacts DEF Counted
  <1>3. CASE Fault /\ UNCHANGED sink
    BY <1>1, <1>3 DEF Counted
  <1> QED BY <1>2, <1>3 DEF Write

\* A step that moves an announcement on by Goto, and one that also lets the
\* lock go or takes it.
LEMMA MoveStep ==
  ASSUME IInv, NEW p \in Processes, NEW label \in AnnLabels, Goto(p, label),
         UNCHANGED others, sink' \in [Bus -> Fader], Counted,
         label \in Audible => enabled,
         \/ lock' = lock /\ (label \in Held => ann[p].pc \in Held)
         \/ Acquire(p, p)
         \/ Release(p) /\ lock[p] = p /\ label \notin Held
  PROVE  IInv'
  <1>1. TypeOK
    BY DEF IInv
  <1>2. /\ ann' \in [Processes -> Announcement] /\ ann'[p].pc = label
        /\ \A q \in Processes : q # p => ann'[q] = ann[q]
        /\ ann'[p].seen = ann[p].seen
    BY <1>1, GotoFacts
  <1> QED BY <1>2, PriorityStep

LEMMA PriorityInv ==
  ASSUME IInv, NEW p \in Processes, Priority(p)
  PROVE  IInv'
  <1>0. /\ TypeOK /\ sink \in [Bus -> Fader] /\ ann \in [Processes -> Announcement]
        /\ ann[p] \in Announcement /\ (ann[p].pc \in Held => lock[p] = p)
        /\ "music" \in Bus /\ sink["music"] \in Fader
        /\ ann[p].snapshot \in Fader /\ ann[p].before \in Level /\ ann[p].event \in Level
        /\ ann[p].kind \in {"alert", "talkover", "minute"}
    BY DEF IInv, TypeOK, LockInv, Announcement, Bus
  <1>1. ASSUME NEW kind \in Kinds, NEW event \in Level, Begin(p, kind, event) PROVE IInv'
    <2> DEFINE new == Beginning(kind, event, sink["music"])
    <2>1. ann' = [ann EXCEPT ![p] = new]
      BY <1>1 DEF Begin
    <2>3. new \in Announcement /\ new.pc \in Free /\ new.seen = 0
      <3>1. sink["music"] \in Fader
        BY <1>0
      <3> QED BY <3>1, BeginningFacts
    <2> HIDE DEF new
    <2>4. /\ ann' \in [Processes -> Announcement] /\ ann'[p] = new
          /\ \A q \in Processes : q # p => ann'[q] = ann[q]
      BY <1>0, <2>1, <2>3
    <2> QED BY <1>0, <1>1, <2>3, <2>4, PriorityStep, LabelFacts DEF Counted, Begin
  <1>2. ASSUME Enter(p) PROVE IInv'
    <2>1. PICK label \in {"between", "restore", "giveBack"} : Goto(p, label)
      BY <1>2 DEF Enter, WayOut
    <2>3. label \in Free
      BY DEF Free
    <2>2. sink' \in [Bus -> Fader]
      BY <1>0, <1>2, EnteredFacts, SinkFacts DEF Enter
    <2> QED BY <1>0, <1>2, <2>1, <2>2, <2>3, LabelFacts, MoveStep DEF Counted, Enter
  <1>3. ASSUME Ensure(p) PROVE IInv'
    <2>1. [level |-> Duck[ann[p].snapshot.level], muted |-> ann[p].snapshot.muted] \in Fader
      BY <1>0, LevelFacts DEF Fader
    <2>2. sink' \in [Bus -> Fader]
      BY <1>0, <1>3, <2>1, SinkFacts DEF Ensure
    <2> QED BY <1>0, <1>3, <2>2, LabelFacts, PriorityStep DEF Counted, Ensure
  <1>4. ASSUME Announce(p) PROVE IInv'
    <2>1. PICK label \in {"duck", "subscribe"} : Goto(p, label)
      BY <1>4 DEF Announce
    <2> QED BY <1>0, <1>4, <2>1, LabelFacts, MoveStep DEF Counted, Announce
  <1>5. ASSUME Clear(p) PROVE IInv'
    <2>1. "restore" \in Free
      BY DEF Free
    <2> QED BY <1>0, <1>5, <2>1, LabelFacts, MoveStep DEF Counted, Clear
  <1>6. ASSUME TalkoverDuck(p) PROVE IInv'
    <2>1. CASE Goto(p, "subscribe") /\ UNCHANGED <<lock, count>>
               /\ sink' = [sink EXCEPT !["music"] = Entered("talkover", ann[p].snapshot, @)]
      <3>1. sink' \in [Bus -> Fader]
        BY <1>0, <2>1, EnteredFacts, SinkFacts
      <3> QED BY <1>0, <1>6, <2>1, <3>1, LabelFacts, MoveStep
              DEF Counted, TalkoverDuck
    <2>2. CASE Fault /\ Release(p) /\ Goto(p, "between") /\ UNCHANGED sink
      <3>1. "between" \in Free
        BY DEF Free
      <3> QED BY <1>0, <1>6, <2>2, <3>1, LabelFacts, MoveStep DEF Counted, TalkoverDuck
    <2> QED BY <1>6, <2>1, <2>2 DEF TalkoverDuck
  <1>7. ASSUME Subscribe(p) PROVE IInv'
    <2>1. [ann[p] EXCEPT !.seen = cancels, !.pc = "check"] \in Announcement
      BY <1>0 DEF Announcement, AnnLabels, TypeOK
    <2>2. /\ ann' \in [Processes -> Announcement]
          /\ ann'[p] = [ann[p] EXCEPT !.seen = cancels, !.pc = "check"]
          /\ \A q \in Processes : q # p => ann'[q] = ann[q]
      BY <1>0, <1>7, <2>1 DEF Subscribe
    <2>3. ann'[p].seen = cancels /\ ann'[p].pc = "check"
      BY <1>0, <2>2 DEF Announcement
    <2>4. ann'[p].pc \notin Audible /\ ann[p].pc \in Held
      BY <1>7, <2>3, LabelFacts DEF Subscribe
    <2>5. UNCHANGED <<sink, lock, count, others>>
      BY <1>7 DEF Subscribe
    <2> QED BY <1>0, <2>2, <2>3, <2>4, <2>5, PriorityStep DEF Counted
  <1>8. ASSUME CheckEnabled(p) PROVE IInv'
    <2>1. CASE enabled /\ Goto(p, "sample") /\ UNCHANGED count
      BY <1>0, <1>8, <2>1, LabelFacts, MoveStep DEF Counted, CheckEnabled
    <2>2. CASE Goto(p, After(ann[p].kind)) /\ (Fault \/ UNCHANGED count)
      <3>1. PICK label \in {"putBack", "unlock"} : Goto(p, label)
        BY <2>2, LabelFacts
      <3> QED BY <1>0, <1>8, <2>2, <3>1, LabelFacts, MoveStep DEF Counted, CheckEnabled
    <2> QED BY <1>8, <2>1, <2>2 DEF CheckEnabled
  <1>9. ASSUME Sample(p) PROVE IInv'
    <2> DEFINE safe == SafeMusic(sink["music"], sink["alert"], ann[p].event)
    <2>1. safe \in Level
      BY <1>0, SafeMusicFacts DEF Bus
    <2> HIDE DEF safe
    <2>2. CASE /\ ann' = [ann EXCEPT ![p] =
                            [@ EXCEPT !.before = sink["music"].level, !.pc = "playing"]]
               /\ sink' = [sink EXCEPT !["music"] = [@ EXCEPT !.level = safe]]
               /\ UNCHANGED count
      <3> DEFINE new == [ann[p] EXCEPT !.before = sink["music"].level, !.pc = "playing"]
      <3>1. new \in Announcement /\ new.pc = "playing" /\ new.seen = ann[p].seen
        BY <1>0 DEF Announcement, AnnLabels, Fader
      <3>2. ann' = [ann EXCEPT ![p] = new]
        BY <2>2
      <3> HIDE DEF new
      <3>3. /\ ann' \in [Processes -> Announcement] /\ ann'[p] = new
            /\ \A q \in Processes : q # p => ann'[q] = ann[q]
        BY <1>0, <3>1, <3>2
      <3>4. sink' \in [Bus -> Fader]
        BY <1>0, <2>1, <2>2, SinkFacts
      <3> QED BY <1>0, <1>9, <2>2, <3>1, <3>3, <3>4, LabelFacts, PriorityStep DEF Counted, Sample
    <2>3. CASE Fault /\ Goto(p, After(ann[p].kind)) /\ UNCHANGED sink
      BY <1>0, <1>9, <2>3, LabelFacts, MoveStep DEF Counted, Sample
    <2> QED BY <1>9, <2>2, <2>3 DEF Sample, safe
  <1>10. ASSUME PlayerEnds(p) PROVE IInv'
    BY <1>0, <1>10, LabelFacts, MoveStep DEF Counted, PlayerEnds
  <1>11. ASSUME PlayerCancelled(p) PROVE IInv'
    BY <1>0, <1>11, LabelFacts, MoveStep DEF Counted, PlayerCancelled
  <1>12. ASSUME Return(p) PROVE IInv'
    <2>1. sink' \in [Bus -> Fader]
      <3>1. CASE sink' = [sink EXCEPT !["music"] = [@ EXCEPT !.level = ann[p].before]]
        BY <1>0, <3>1, SinkFacts
      <3>2. CASE UNCHANGED sink
        BY <1>0, <3>2
      <3> QED BY <1>12, <3>1, <3>2 DEF Return
    <2>2. PICK label \in {"putBack", "unlock"} : Goto(p, label)
      BY <1>12, LabelFacts DEF Return
    <2> QED BY <1>0, <1>12, <2>1, <2>2, LabelFacts, MoveStep DEF Counted, Return
  <1>13. ASSUME PutBack(p) PROVE IInv'
    <2>1. sink' \in [Bus -> Fader] /\ Counted
      BY <1>0, <1>13, WriteFacts DEF PutBack
    <2> QED BY <1>0, <1>13, <2>1, LabelFacts, MoveStep DEF PutBack
  <1>14. ASSUME Unlock(p) PROVE IInv'
    <2> DEFINE label == IF ann[p].kind = "minute" THEN WayOut(p) ELSE "between"
               new == [ann[p] EXCEPT !.before = 0, !.seen = 0, !.pc = label]
    <2>1. label \in Free
      BY DEF WayOut, Free
    <2> HIDE DEF label
    <2>2. label \in AnnLabels /\ 0 \in Level
      BY <2>1, LabelFacts, LevelFacts
    <2>3. new \in Announcement /\ new.pc = label /\ new.seen = 0
      BY <1>0, <2>2 DEF Announcement
    <2>4. ann' = [ann EXCEPT ![p] = new]
      BY <1>14 DEF Unlock, label
    <2> HIDE DEF new
    <2>5. /\ ann' \in [Processes -> Announcement] /\ ann'[p] = new
          /\ \A q \in Processes : q # p => ann'[q] = ann[q]
      BY <1>0, <2>3, <2>4, ReplaceFacts
    <2>6. ann'[p].pc \notin Held /\ ann'[p].pc \notin Audible /\ lock[p] = p
      BY <1>0, <1>14, <2>1, <2>3, <2>5, LabelFacts DEF Unlock
    <2> QED BY <1>0, <1>14, <2>3, <2>5, <2>6, PriorityStep DEF Counted, Unlock
  <1>15. ASSUME NEW new \in Announcement, ann' = [ann EXCEPT ![p] = new], new.pc \in Free,
                new.seen \in {ann[p].seen, cancels, 0}, sink' \in [Bus -> Fader], Counted,
                UNCHANGED others
                  \/ (UNCHANGED rest /\ cancelling' \in BOOLEAN /\ guessed' \in BOOLEAN),
                lock' = lock \/ (Release(p) /\ lock[p] = p)
         PROVE  IInv'
    <2>1. /\ ann' \in [Processes -> Announcement] /\ ann'[p] = new
          /\ \A q \in Processes : q # p => ann'[q] = ann[q]
      BY <1>0, <1>15, ReplaceFacts
    <2>2. ann'[p].pc \notin Held /\ ann'[p].pc \notin Audible
      BY <1>15, <2>1, LabelFacts
    <2> QED BY <1>15, <2>1, <2>2, PriorityStep
  <1>16. ASSUME Restore(p) PROVE IInv'
    <2>1. sink' \in [Bus -> Fader] /\ Counted
      BY <1>0, <1>16, WriteFacts DEF Restore
    <2>2. IdleAnn.pc \in Free
      BY IdleFacts DEF Free
    <2> QED BY <1>15, <1>16, <2>1, <2>2, IdleFacts DEF Restore
  <1>17. ASSUME GiveBack(p) PROVE IInv'
    <2>1. sink' \in [Bus -> Fader] /\ Counted
      <3>1. CASE Write(ann[p].snapshot)
        BY <1>0, <3>1, WriteFacts
      <3>2. CASE Fault /\ sink' = [sink EXCEPT !["music"] = ann[p].snapshot]
        BY <1>0, <3>2, SinkFacts DEF Counted
      <3> QED BY <1>17, <3>1, <3>2 DEF GiveBack
    <2>2. "over" \in Free
      BY DEF Free
    <2> QED BY <1>17, <2>1, <2>2, LabelFacts, MoveStep DEF GiveBack
  <1>18. ASSUME MinuteOver(p) PROVE IInv'
    <2>1. IdleAnn.pc \in Free
      BY IdleFacts DEF Free
    <2> QED BY <1>0, <1>15, <1>18, <2>1, IdleFacts DEF MinuteOver, Counted
  <1>19. ASSUME SeeMinute(p) PROVE IInv'
    <2>1. UNCHANGED <<ann, sink, lock, count, rest>> /\ cancelling' = TRUE
      BY <1>19 DEF SeeMinute
    <2>2. guessed' = guessed
      BY <1>19 DEF SeeMinute
    <2>3. guessed' \in BOOLEAN /\ cancelling' \in BOOLEAN
      BY <1>0, <2>1, <2>2, Zenon DEF TypeOK
    <2>4. ann'[p].pc \in Audible => enabled \/ ann[p].pc \in Audible
      BY <2>1
    <2> QED BY <1>0, <2>1, <2>3, <2>4, PriorityStep DEF Counted
  <1>20. ASSUME CancelMinute(p) PROVE IInv'
    <2> DEFINE label == IF Found(p) THEN "restore" ELSE "guess"
               new == Left(ann[p].snapshot, label)
    <2>1. label \in Free
      BY DEF Free
    <2> HIDE DEF label
    <2>2. new \in Announcement /\ new.pc \in Free /\ new.seen = 0
      BY <1>0, <2>1, IdleFacts
    <2>3. ann' = [ann EXCEPT ![p] = new] /\ UNCHANGED <<sink, count, rest>> /\ Cancelled(p)
      BY <1>20 DEF CancelMinute, label, Left
    <2> HIDE DEF new
    <2>4. lock' = lock \/ (Release(p) /\ lock[p] = p)
      BY <1>0, <2>3 DEF Cancelled, Release, TypeOK
    <2>5. guessed' = guessed /\ cancelling' = FALSE
      BY <1>20 DEF CancelMinute, Cancelled
    <2>6. guessed' \in BOOLEAN /\ cancelling' \in BOOLEAN
      BY <1>0, <2>5, Zenon DEF TypeOK
    <2> QED BY <1>0, <1>15, <2>2, <2>3, <2>4, <2>6 DEF Counted
  <1>21. ASSUME Guess(p) PROVE IInv'
    <2>1. [level |-> DefaultLevel, muted |-> FALSE] \in Fader
      BY DEF Fader
    <2>2. sink' \in [Bus -> Fader] /\ Counted
      BY <1>0, <1>21, <2>1, WriteFacts DEF Guess
    <2>3. IdleAnn.pc \in Free
      BY IdleFacts DEF Free
    <2>4. guessed' = TRUE /\ cancelling' = cancelling /\ UNCHANGED rest
      BY <1>21 DEF Guess
    <2>5. guessed' \in BOOLEAN /\ cancelling' \in BOOLEAN
      BY <1>0, <2>4, Zenon DEF TypeOK
    <2> QED BY <1>15, <1>21, <2>2, <2>3, <2>4, <2>5, IdleFacts DEF Guess
  <1>22. ASSUME NEW kind \in Kinds, Preempt(p, kind) PROVE IInv'
    <2> DEFINE snapshot == IF ann[p].pc = "restore" THEN ann[p].snapshot ELSE sink["music"]
               new == Beginning(kind, Unity, snapshot)
    <2>1. ann' = [ann EXCEPT ![p] = new]
      BY <1>22 DEF Preempt
    <2>2. new \in Announcement /\ new.pc \in Free /\ new.seen = 0
      <3>1. snapshot \in Fader /\ Unity \in Level
        BY <1>0, LevelFacts
      <3> HIDE DEF snapshot
      <3> QED BY <3>1, BeginningFacts
    <2> HIDE DEF new
    <2> QED BY <1>0, <1>15, <1>22, <2>1, <2>2 DEF Preempt, Counted
  <1> QED BY <1>1, <1>2, <1>3, <1>4, <1>5, <1>6, <1>7, <1>8, <1>9, <1>10, <1>11, <1>12, <1>13,
             <1>14, <1>16, <1>17, <1>18, <1>19, <1>20, <1>21, <1>22 DEF Priority

LEMMA FadingInv ==
  ASSUME IInv, NEW r \in Requests, Fading(r)
  PROVE  IInv'
  <1>0. /\ TypeOK /\ sink \in [Bus -> Fader] /\ mixer \in [Bus -> Fader]
        /\ req \in [Requests -> FaderRequest] /\ req[r] \in FaderRequest
        /\ (req[r].pc \in Working => lock["daemon"] = r)
        /\ req[r].bus \in Bus /\ req[r].level \in Level /\ req[r].muted \in BOOLEAN
        /\ asked \subseteq Level /\ user \in Level
    BY DEF IInv, TypeOK, LockInv, FaderRequest
  <1>1. ASSUME NEW body \in Bodies, Request(r, body) PROVE IInv'
    <2>1. body \in FaderRequest /\ body.pc \notin Working
      BY DEF Bodies, FaderRequest, ReqLabels, Working
    <2>2. /\ req' \in [Requests -> FaderRequest] /\ req'[r] = body
          /\ \A q \in Requests : q # r => req'[q] = req[q]
      BY <1>0, <1>1, <2>1 DEF Request
    <2> QED BY <1>0, <1>1, <2>1, <2>2, FadingStep DEF Request, Counted
  <1>2. ASSUME SetLevel(r) PROVE IInv'
    <2>1. PICK label \in {"muteToo", "recordLevel"} : ReqGoto(r, label)
      BY <1>2 DEF SetLevel
    <2>2. label \in ReqLabels
      BY DEF ReqLabels
    <2>3. sink' \in [Bus -> Fader]
      BY <1>0, <1>2, SinkFacts DEF SetLevel
    <2>4. user' \in Level /\ asked' \subseteq Level
      BY <1>0, <1>2 DEF SetLevel
    <2>5. Acquire("daemon", r) /\ control' \in {control, r, Nobody}
      BY <1>2 DEF SetLevel, Locks
    <2>6. UNCHANGED <<mixer, count, priority>>
      BY <1>2 DEF SetLevel
    <2> QED BY <1>0, <2>1, <2>2, <2>3, <2>4, <2>5, <2>6, ReqGotoFacts, FadingStep DEF Counted
  <1>3. ASSUME RecordLevel(r) PROVE IInv'
    <2>1. "mute" \in ReqLabels \ Working /\ req[r].pc \in Working
      BY <1>3 DEF RecordLevel, ReqLabels, Working
    <2>2. mixer' \in [Bus -> Fader]
      BY <1>0, <1>3, SinkFacts DEF RecordLevel
    <2> QED BY <1>0, <1>3, <2>1, <2>2, ReqGotoFacts, FadingStep DEF RecordLevel, Counted
  <1>4. ASSUME SetMute(r) PROVE IInv'
    <2>1. "record" \in ReqLabels
      BY DEF ReqLabels
    <2>2. sink' \in [Bus -> Fader]
      BY <1>0, <1>4, SinkFacts DEF SetMute
    <2>3. /\ control' \in {control, r, Nobody}
          /\ \/ Acquire("daemon", r)
             \/ lock' = lock /\ req[r].pc \in Working
      BY <1>4 DEF SetMute, Locks, Working
    <2>4. UNCHANGED <<mixer, count, asked, user, priority>> /\ ReqGoto(r, "record")
      BY <1>4 DEF SetMute
    <2> QED BY <1>0, <2>1, <2>2, <2>3, <2>4, ReqGotoFacts, FadingStep DEF Counted
  <1>5. ASSUME Finish(r)
        PROVE  /\ req' \in [Requests -> FaderRequest] /\ req'[r].pc = "idle"
               /\ \A q \in Requests : q # r => req'[q] = req[q]
               /\ control' \in {control, r, Nobody} /\ req'[r].pc \notin Working
    <2>1. IdleReq \in FaderRequest /\ IdleReq.pc = "idle"
      BY LevelFacts DEF IdleReq, FaderRequest, ReqLabels, Ops, Bus
    <2> QED BY <1>0, <1>5, <2>1 DEF Finish, Working
  <1>6. ASSUME Record(r) PROVE IInv'
    <2>1. mixer[req[r].bus] \in Fader
      BY <1>0
    <2>2. mixer' \in [Bus -> Fader]
      BY <1>0, <1>6, <2>1, RecordedFacts, SinkFacts DEF Record
    <2>3. lock["daemon"] = r
      BY <1>0, <1>6 DEF Record, Working
    <2> QED BY <1>0, <1>5, <1>6, <2>2, <2>3, FadingStep DEF Record, Counted
  <1>7. ASSUME RequestFails(r) PROVE IInv'
    <2>1. \/ lock' = lock
          \/ Release("daemon") /\ lock["daemon"] = r
      BY <1>0, <1>7 DEF RequestFails, Working
    <2> QED BY <1>0, <1>5, <1>7, <2>1, FadingStep DEF RequestFails, Counted
  <1> QED BY <1>1, <1>2, <1>3, <1>4, <1>6, <1>7, Zenon DEF Fading

LEMMA ConfigureInv == IInv /\ Configure => IInv'
  <1> SUFFICES ASSUME IInv, Configure PROVE IInv'
    OBVIOUS
  <1>1. TypeOK /\ LockInv /\ SeenInv /\ CancellationReaches
    BY DEF IInv
  <1>2. /\ UNCHANGED mixing /\ Counted
        /\ enabled' \in BOOLEAN /\ cancels' \in Nat /\ cancels <= cancels'
        /\ settings' \in [pc : {"idle", "save", "cancel"}, enabled : BOOLEAN]
    <2>1. ASSUME NEW new \in BOOLEAN, ReadSettings(new) PROVE <1>2
      BY <1>1, <2>1 DEF ReadSettings, TypeOK, Counted
    <2>2. ASSUME SaveSettings PROVE <1>2
      BY <1>1, <2>2 DEF SaveSettings, TypeOK, Counted
    <2>3. ASSUME CancelPlayback PROVE <1>2
      BY <1>1, <2>3 DEF CancelPlayback, TypeOK, Counted
    <2> QED BY <2>1, <2>2, <2>3 DEF Configure
  <1>3. faulty' \in BOOLEAN /\ events' \in 0..MaxEvents
    BY <1>1, <1>2, CountFacts
  <1>4. TypeOK'
    BY <1>1, <1>2, <1>3, Zenon DEF TypeOK, mixing
  <1>5. LockInv' /\ SeenInv'
    BY <1>1, <1>2, <1>4 DEF LockInv, SeenInv, mixing, TypeOK, Announcement
  <1>6. CancellationReaches'
    <2> SUFFICES ASSUME ann["daemon"].pc \in Audible, ~enabled'
                 PROVE  ann["daemon"].seen # cancels' \/ settings'.pc = "cancel"
      BY <1>2 DEF CancellationReaches, mixing, Audible
    <2>1. ASSUME NEW new \in BOOLEAN, ReadSettings(new) PROVE ann["daemon"].seen # cancels'
      BY <1>1, <2>1 DEF ReadSettings, CancellationReaches, Audible
    <2>2. ASSUME SaveSettings PROVE settings'.pc = "cancel"
      BY <1>1, <2>2 DEF SaveSettings, TypeOK
    <2>3. ASSUME CancelPlayback PROVE ann["daemon"].seen # cancels'
      BY <1>1, <2>3 DEF CancelPlayback, SeenInv, TypeOK, Announcement
    <2> QED BY <2>1, <2>2, <2>3 DEF Configure
  <1> QED BY <1>4, <1>5, <1>6 DEF IInv

LEMMA NextInv == IInv /\ [Next]_vars => IInv'
  <1> SUFFICES ASSUME IInv, [Next]_vars PROVE IInv'
    OBVIOUS
  <1>1. CASE Next
    BY <1>1, PriorityInv, FadingInv, ConfigureInv DEF Next
  <1>2. CASE UNCHANGED vars
    <2>1. TypeOK'
      BY <1>2, Zenon DEF IInv, TypeOK, vars
    <2>2. LockInv' /\ SeenInv' /\ CancellationReaches'
      BY <1>2 DEF IInv, LockInv, SeenInv, CancellationReaches, vars
    <2> QED BY <2>1, <2>2 DEF IInv
  <1> QED BY <1>1, <1>2

LEMMA Invariance == Spec => []IInv
  BY InitialInv, NextInv, PTL DEF Spec

\* Every variable keeps its type: above all, a MUSIC level that the policy
\* computes is one a sink can have (audio.rs:327-356).
THEOREM TypeCorrect == Spec => []TypeOK
  <1>1. IInv => TypeOK
    BY DEF IInv
  <1> QED BY <1>1, Invariance, PTL

\* An announcement that outlives the switch-off of notifications has been,
\* or is about to be, cancelled: it subscribes before it looks at the
\* settings (audio.rs:482-489).
THEOREM CancellationNotLost == Spec => []CancellationReaches
  <1>1. IInv => CancellationReaches
    BY DEF IInv
  <1> QED BY <1>1, Invariance, PTL

-----------------------------------------------------------------------------
(* The peak budget.  Only the announcement that holds the lock can be        *)
(* playing, and nobody moves a fader without it.                             *)

LEMMA BudgetStep ==
  ASSUME Processes = {"daemon"}, IInv, WithinUnity, [Next]_vars
  PROVE  WithinUnity'
  <1> DEFINE p == "daemon"
  <1>0. /\ TypeOK /\ ann \in [Processes -> Announcement] /\ p \in Processes
        /\ sink \in [Bus -> Fader] /\ sink["music"] \in Fader /\ sink["alert"] \in Fader
        /\ ann[p] \in Announcement /\ ann[p].event \in Level /\ "playing" \in AnnLabels
        /\ (ann[p].pc = "playing" => lock[p] = p)
        /\ \A r \in Requests : p # r /\ p # Nobody
                               /\ (req[r].pc \in Working => lock[p] = r)
    BY DEF IInv, TypeOK, Announcement, AnnLabels, LockInv, Held, Bus, Nobody
  <1>1. ASSUME ann'[p].pc # "playing" PROVE WithinUnity'
    BY <1>1 DEF WithinUnity
  <1>2. ASSUME ann' = ann, sink' = sink PROVE WithinUnity'
    BY <1>2 DEF WithinUnity
  <1>3. ASSUME Priority(p) PROVE WithinUnity'
    <2>1. ASSUME NEW kind \in Kinds, NEW event \in Level, Begin(p, kind, event)
          PROVE  WithinUnity'
      <3>1. ann'[p].pc = IF kind = "talkover" THEN "between" ELSE "enter"
        BY <1>0, <2>1 DEF Begin, Beginning
      <3> QED BY <1>1, <3>1
    <2>2. ASSUME NEW label \in AnnLabels \ {"playing"}, Goto(p, label) PROVE WithinUnity'
      BY <1>0, <1>1, <2>2, GotoFacts
    <2>3. CASE Enter(p)
      BY <2>2, <2>3 DEF Enter, WayOut, AnnLabels
    <2>4. CASE Ensure(p)
      BY <1>1, <2>4 DEF Ensure
    <2>5. CASE Announce(p)
      BY <2>2, <2>5 DEF Announce, AnnLabels
    <2>6. CASE Clear(p)
      BY <2>2, <2>6 DEF Clear, AnnLabels
    <2>7. CASE TalkoverDuck(p)
      BY <2>2, <2>7 DEF TalkoverDuck, AnnLabels
    <2>8. CASE Subscribe(p)
      <3>1. ann'[p].pc = "check"
        BY <1>0, <2>8 DEF Subscribe, Announcement
      <3> QED BY <1>1, <3>1
    <2>9. CASE CheckEnabled(p)
      BY <2>2, <2>9 DEF CheckEnabled, AnnLabels, After
    <2>10. CASE Sample(p)
      <3> DEFINE safe == SafeMusic(sink["music"], sink["alert"], ann[p].event)
      <3>1. CASE Goto(p, After(ann[p].kind))
        BY <2>2, <3>1 DEF After, AnnLabels
      <3>2. CASE /\ ann' = [ann EXCEPT ![p] =
                             [@ EXCEPT !.before = sink["music"].level, !.pc = "playing"]]
                 /\ sink' = [sink EXCEPT !["music"] = [@ EXCEPT !.level = safe]]
        <4>1. ann'[p].event = ann[p].event
          BY <1>0, <3>2 DEF Announcement
        <4>2. /\ sink'["alert"] = sink["alert"] /\ sink'["music"].level = safe
              /\ sink'["music"].muted = sink["music"].muted
          BY <1>0, <3>2 DEF Fader, Bus
        <4>3. ~sink["music"].muted => safe + Amplitude(sink["alert"], ann[p].event) <= Unity
          BY <1>0, SafeMusicFacts
        <4> HIDE DEF safe
        <4>4. ASSUME ~sink'["music"].muted
              PROVE  sink'["music"].level + Amplitude(sink'["alert"], ann'[p].event) <= Unity
          BY <4>1, <4>2, <4>3, <4>4
        <4>5. Amplitude(sink["alert"], ann[p].event)' = Amplitude(sink'["alert"], ann'[p].event)
          BY DEF Amplitude
        <4> QED BY <4>4, <4>5 DEF WithinUnity
      <3> QED BY <2>10, <3>1, <3>2 DEF Sample
    <2>11. CASE PlayerEnds(p)
      BY <2>2, <2>11 DEF PlayerEnds, AnnLabels
    <2>12. CASE PlayerCancelled(p)
      BY <2>2, <2>12 DEF PlayerCancelled, AnnLabels
    <2>13. CASE Return(p)
      BY <2>2, <2>13 DEF Return, AnnLabels, After
    <2>14. CASE PutBack(p)
      BY <2>2, <2>14 DEF PutBack, AnnLabels
    <2>15. ASSUME NEW new, ann' = [ann EXCEPT ![p] = new], new.pc \in Free PROVE WithinUnity'
      <3>1. ann'[p].pc # "playing"
        BY <1>0, <2>15 DEF Free
      <3> QED BY <1>1, <3>1
    <2>16. CASE Unlock(p)
      <3> DEFINE label == IF ann[p].kind = "minute" THEN WayOut(p) ELSE "between"
      <3>1. label \in Free
        BY DEF WayOut, Free
      <3> HIDE DEF label
      <3>2. ann'[p] = [ann[p] EXCEPT !.before = 0, !.seen = 0, !.pc = label]
        BY <1>0, <2>16 DEF Unlock, label
      <3>3. ann'[p].pc = label
        BY <1>0, <3>2 DEF Announcement
      <3> QED BY <1>1, <3>1, <3>3 DEF Free
    <2>17. CASE Restore(p) \/ MinuteOver(p) \/ Guess(p)
      <3>1. IdleAnn.pc \in Free
        BY IdleFacts DEF Free
      <3> QED BY <2>15, <2>17, <3>1 DEF Restore, MinuteOver, Guess
    <2>18. CASE GiveBack(p)
      BY <2>2, <2>18 DEF GiveBack, AnnLabels
    <2>19. CASE SeeMinute(p)
      BY <1>2, <2>19 DEF SeeMinute
    <2>20. CASE CancelMinute(p)
      <3> DEFINE label == IF Found(p) THEN "restore" ELSE "guess"
      <3>1. label \in Free
        BY DEF Free
      <3> HIDE DEF label
      <3>2. ann[p].snapshot \in Fader
        BY <1>0 DEF Announcement
      <3>3. ann'[p] = Left(ann[p].snapshot, label)
        BY <1>0, <2>20 DEF CancelMinute, label, Left
      <3> QED BY <1>1, <3>1, <3>2, <3>3, IdleFacts DEF Free
    <2>21. ASSUME NEW kind \in Kinds, Preempt(p, kind) PROVE WithinUnity'
      BY <2>15, <2>21 DEF Preempt, Beginning, Free
    <2> QED BY <1>3, <2>1, <2>3, <2>4, <2>5, <2>6, <2>7, <2>8, <2>9, <2>10, <2>11, <2>12,
               <2>13, <2>14, <2>16, <2>17, <2>18, <2>19, <2>20, <2>21 DEF Priority
  <1>4. ASSUME NEW r \in Requests, Fading(r) PROVE WithinUnity'
    <2>1. ann' = ann
      BY <1>4 DEF Fading, Request, SetLevel, RecordLevel, SetMute, Record, RequestFails, priority
    <2>2. ASSUME lock[p] = Nobody \/ lock[p] = r PROVE WithinUnity'
      <3>1. ann'[p].pc # "playing"
        BY <1>0, <2>1, <2>2
      <3> QED BY <1>1, <3>1
    <2>3. CASE SetLevel(r)
      BY <2>2, <2>3 DEF SetLevel, Locks, Acquire
    <2>4. CASE SetMute(r)
      BY <1>0, <2>2, <2>4 DEF SetMute, Locks, Acquire, Working
    <2>5. CASE RecordLevel(r) \/ Record(r) \/ RequestFails(r)
      BY <1>2, <2>1, <2>5 DEF RecordLevel, Record, RequestFails
    <2>6. ASSUME NEW body \in Bodies, Request(r, body) PROVE WithinUnity'
      BY <1>2, <2>1, <2>6 DEF Request
    <2> QED BY <1>4, <2>3, <2>4, <2>5, <2>6 DEF Fading
  <1>5. ASSUME Configure PROVE WithinUnity'
    BY <1>2, <1>5 DEF Configure, ReadSettings, SaveSettings, CancelPlayback, mixing
  <1>6. ASSUME UNCHANGED vars PROVE WithinUnity'
    BY <1>2, <1>6 DEF vars
  <1> QED BY <1>3, <1>4, <1>5, <1>6 DEF Next

\* In one process MUSIC and ALERT never exceed full scale while a file
\* plays, whatever the scale, the duck and the attenuation
\* (audio.rs:327-356, 505-527).
THEOREM SumWithinUnity ==
  ASSUME Processes = {"daemon"}
  PROVE  Spec => []WithinUnity
  <1>1. Init => WithinUnity
    BY DEF Init, WithinUnity, IdleAnn
  <1>2. IInv /\ WithinUnity /\ [Next]_vars => WithinUnity'
    BY BudgetStep
  <1> QED BY <1>1, <1>2, Invariance, PTL DEF Spec

-----------------------------------------------------------------------------
(* The ALERT fader.  Only a request that holds the lock moves it, and at     *)
(* each of its steps it is known which half is recorded already.             *)

Midway(r) ==
  /\ req[r].pc = "recordLevel" =>
       sink["alert"].level = req[r].level /\ sink["alert"].muted = mixer["alert"].muted
  /\ req[r].pc = "muteToo" => sink["alert"].level = req[r].level
  /\ req[r].pc = "record" =>
       /\ sink["alert"].muted = req[r].muted
       /\ sink["alert"].level = IF req[r].op = "fader" THEN req[r].level ELSE mixer["alert"].level

AtWork(r) == req[r].pc \in Working /\ req[r].bus = "alert"

FaderInv ==
  ~faulty => /\ \A r \in Requests : AtWork(r) => Midway(r)
             /\ (\A r \in Requests : ~AtWork(r)) => sink["alert"] = mixer["alert"]

\* Which requests pass which step.
OpInv ==
  \A r \in Requests :
    /\ req[r].pc = "muteToo" => req[r].op = "fader"
    /\ req[r].pc \in {"recordLevel", "mute"} => req[r].op # "fader"
    /\ req[r].pc # "idle" /\ req[r].bus = "alert" => req[r].op \in {"fader", "mixer"}

LEMMA PriorityLeaves ==
  ASSUME IInv, NEW p \in Processes, Priority(p)
  PROVE  /\ UNCHANGED <<mixer, req, asked>> /\ sink'["alert"] = sink["alert"] /\ (faulty => faulty')
  <1>1. /\ \A fader : [sink EXCEPT !["music"] = fader]["alert"] = sink["alert"]
        /\ Counted => (faulty => faulty')
    BY DEF IInv, TypeOK, Bus, Counted, Fault, count
  <1>2. UNCHANGED rest
    BY DEF Priority, Begin, Enter, Ensure, Announce, Clear, TalkoverDuck, Subscribe,
      CheckEnabled, Sample, PlayerEnds, PlayerCancelled, Return, PutBack, Unlock, Restore,
      GiveBack, MinuteOver, SeeMinute, CancelMinute, Guess, Preempt, others
  <1>3. Counted
    BY DEF Priority, Begin, Enter, Ensure, Announce, Clear, TalkoverDuck, Subscribe,
      CheckEnabled, Sample, PlayerEnds, PlayerCancelled, Return, PutBack, Unlock, Restore,
      GiveBack, MinuteOver, SeeMinute, CancelMinute, Guess, Preempt, Write, Counted
  <1>4. sink'["alert"] = sink["alert"]
    BY <1>1 DEF Priority, Begin, Enter, Ensure, Announce, Clear, TalkoverDuck, Subscribe,
      CheckEnabled, Sample, PlayerEnds, PlayerCancelled, Return, PutBack, Unlock, Restore,
      GiveBack, MinuteOver, SeeMinute, CancelMinute, Guess, Preempt, Write
  <1> QED BY <1>1, <1>2, <1>3, <1>4 DEF rest

LEMMA FaderStays ==
  ASSUME FaderInv, OpInv, UNCHANGED <<mixer, req>>, sink'["alert"] = sink["alert"],
         faulty => faulty'
  PROVE  FaderInv' /\ OpInv'
  BY DEF FaderInv, OpInv, Midway, AtWork

\* While one request works, no other does.
LEMMA OneAtWork ==
  ASSUME IInv, NEW r \in Requests
  PROVE  /\ lock["daemon"] = Nobody => \A q \in Requests : req[q].pc \notin Working
         /\ lock["daemon"] = r => \A q \in Requests : q # r => req[q].pc \notin Working
  BY DEF IInv, LockInv, Nobody

LEMMA RequestsRecord ==
  ASSUME IInv, FaderInv, OpInv, NEW r \in Requests, Fading(r)
  PROVE  FaderInv' /\ OpInv'
  <1>0. /\ TypeOK /\ sink \in [Bus -> Fader] /\ mixer \in [Bus -> Fader]
        /\ req \in [Requests -> FaderRequest] /\ req[r] \in FaderRequest /\ req[r].bus \in Bus
        /\ "alert" \in Bus /\ sink["alert"] \in Fader /\ mixer["alert"] \in Fader
        /\ sink[req[r].bus] \in Fader /\ mixer[req[r].bus] \in Fader
        /\ {"muteToo", "recordLevel", "mute", "record"} \subseteq ReqLabels
        /\ (req[r].pc \in Working => lock["daemon"] = r)
    BY DEF IInv, TypeOK, LockInv, FaderRequest, Bus, ReqLabels
  <1>1. ASSUME NEW body \in Bodies, Request(r, body) PROVE FaderInv' /\ OpInv'
    <2>1. /\ body.pc \in {"level", "mute"}
          /\ body.pc = "mute" => body.op # "fader"
          /\ body.bus = "alert" => body.op \in {"fader", "mixer"}
      BY DEF Bodies, Ops
    <2>2. req'[r] = body /\ (\A q \in Requests : q # r => req'[q] = req[q]) /\ req[r].pc = "idle"
      BY <1>0, <1>1 DEF Request
    <2>3. UNCHANGED <<sink, mixer, faulty>>
      BY <1>1 DEF Request
    <2>4. OpInv'
      BY <2>1, <2>2 DEF OpInv
    <2>5. \A q \in Requests : (AtWork(q))' = AtWork(q) /\ (AtWork(q) => q # r)
      BY <2>1, <2>2 DEF AtWork, Working
    <2>6. FaderInv'
      BY <2>2, <2>3, <2>5 DEF FaderInv, Midway
    <2> QED BY <2>4, <2>6
  <1>2. ASSUME SetLevel(r) PROVE FaderInv' /\ OpInv'
    <2>1. PICK label \in {"muteToo", "recordLevel"} :
            ReqGoto(r, label) /\ (req[r].op = "fader" <=> label = "muteToo")
      BY <1>2 DEF SetLevel
    <2>2. /\ req'[r].pc = label /\ req'[r].op = req[r].op /\ req'[r].bus = req[r].bus
          /\ req'[r].level = req[r].level /\ \A q \in Requests : q # r => req'[q] = req[q]
      BY <1>0, <2>1, ReqGotoFacts
    <2>3. \A q \in Requests : req[q].pc \notin Working
      BY <1>2, OneAtWork DEF SetLevel, Locks, Acquire
    <2>4. UNCHANGED <<mixer, faulty>> /\ req[r].pc = "level"
      BY <1>2 DEF SetLevel, count
    <2>5. /\ req[r].bus # "alert" => sink'["alert"] = sink["alert"]
          /\ req[r].bus = "alert" => /\ sink'["alert"].level = req[r].level
                                    /\ sink'["alert"].muted = sink["alert"].muted
      <3>1. sink' = [sink EXCEPT ![req[r].bus] = [@ EXCEPT !.level = req[r].level]]
        BY <1>2 DEF SetLevel
      <3> QED BY <1>0, <3>1 DEF Fader
    <2>6. OpInv'
      BY <2>1, <2>2, <2>4 DEF OpInv
    <2>7. \A q \in Requests : ~AtWork(q) /\ ((AtWork(q))' => q = r /\ req[r].bus = "alert")
      BY <2>2, <2>3 DEF AtWork
    <2>8. ASSUME ~faulty PROVE sink["alert"] = mixer["alert"]
      BY <2>7, <2>8 DEF FaderInv
    <2>9. FaderInv'
      <3>1. label \in Working
        BY DEF Working
      <3>2. (AtWork(r))' <=> req[r].bus = "alert"
        BY <2>2, <3>1 DEF AtWork
      <3>3. ASSUME ~faulty, (AtWork(r))' PROVE (Midway(r))'
        BY <2>1, <2>2, <2>4, <2>5, <2>8, <3>2, <3>3 DEF Midway
      <3>4. ASSUME ~faulty, ~(AtWork(r))' PROVE sink'["alert"] = mixer'["alert"]
        BY <2>4, <2>5, <2>8, <3>2, <3>4
      <3> QED BY <2>4, <2>7, <3>3, <3>4 DEF FaderInv
    <2> QED BY <2>6, <2>9
  <1>3. ASSUME RecordLevel(r) PROVE FaderInv' /\ OpInv'
    <2>1. /\ req'[r].pc = "mute" /\ req'[r].op = req[r].op /\ req'[r].bus = req[r].bus
          /\ \A q \in Requests : q # r => req'[q] = req[q]
      BY <1>0, <1>3, ReqGotoFacts DEF RecordLevel
    <2>2. /\ UNCHANGED <<sink, faulty>> /\ req[r].pc = "recordLevel"
          /\ mixer' = [mixer EXCEPT ![req[r].bus] = [@ EXCEPT !.level = req[r].level]]
      BY <1>3 DEF RecordLevel, count
    <2>3. lock["daemon"] = r /\ req[r].pc \in Working
      BY <1>0, <2>2 DEF Working
    <2>4. \A q \in Requests : q # r => ~AtWork(q)
      BY <2>3, OneAtWork DEF AtWork
    <2>5. /\ req[r].bus # "alert" => mixer'["alert"] = mixer["alert"]
          /\ req[r].bus = "alert" => /\ mixer'["alert"].level = req[r].level
                                    /\ mixer'["alert"].muted = mixer["alert"].muted
                                    /\ mixer'["alert"] \in Fader
      BY <1>0, <2>2 DEF Fader, FaderRequest
    <2>6. OpInv'
      BY <2>1, <2>2 DEF OpInv
    <2>7. ASSUME ~faulty PROVE sink["alert"] = mixer'["alert"]
      <3>1. CASE req[r].bus = "alert"
        <4>1. sink["alert"].level = req[r].level /\ sink["alert"].muted = mixer["alert"].muted
          BY <2>2, <2>3, <2>7, <3>1 DEF FaderInv, AtWork, Midway
        <4> QED BY <1>0, <2>5, <3>1, <4>1 DEF Fader
      <3>2. CASE req[r].bus # "alert"
        BY <2>4, <2>5, <2>7, <3>2 DEF FaderInv, AtWork
      <3> QED BY <3>1, <3>2
    <2>8. \A q \in Requests : ~(AtWork(q))'
      BY <2>1, <2>4 DEF AtWork, Working
    <2> QED BY <2>2, <2>6, <2>7, <2>8 DEF FaderInv
  <1>4. ASSUME SetMute(r) PROVE FaderInv' /\ OpInv'
    <2>1. /\ req'[r].pc = "record" /\ req'[r].op = req[r].op /\ req'[r].bus = req[r].bus
          /\ req'[r].muted = req[r].muted /\ req'[r].level = req[r].level
          /\ \A q \in Requests : q # r => req'[q] = req[q]
      BY <1>0, <1>4, ReqGotoFacts DEF SetMute
    <2>2. /\ UNCHANGED <<mixer, faulty>> /\ req[r].pc \in {"mute", "muteToo"}
          /\ sink' = [sink EXCEPT ![req[r].bus] = [@ EXCEPT !.muted = req[r].muted]]
      BY <1>4 DEF SetMute, count
    <2>3. \A q \in Requests : q # r => req[q].pc \notin Working
      BY <1>0, <1>4, OneAtWork DEF SetMute, Locks, Acquire, Working
    <2>4. /\ req[r].bus # "alert" => sink'["alert"] = sink["alert"]
          /\ req[r].bus = "alert" => /\ sink'["alert"].level = sink["alert"].level
                                    /\ sink'["alert"].muted = req[r].muted
      BY <1>0, <2>2 DEF Fader
    <2>5. OpInv'
      BY <2>1, <2>2 DEF OpInv
    <2>6. \A q \in Requests : q # r => ~AtWork(q) /\ ~(AtWork(q))'
      BY <2>1, <2>3 DEF AtWork
    <2>7. ASSUME ~faulty, req[r].bus = "alert" PROVE (Midway(r))'
      <3>1. CASE req[r].pc = "mute"
        <4>1. ~AtWork(r) /\ req[r].op # "fader"
          BY <3>1 DEF AtWork, Working, OpInv
        <4>2. sink["alert"] = mixer["alert"]
          BY <2>6, <2>7, <4>1 DEF FaderInv
        <4> QED BY <2>1, <2>2, <2>4, <2>7, <4>1, <4>2 DEF Midway
      <3>2. CASE req[r].pc = "muteToo"
        <4>1. sink["alert"].level = req[r].level /\ req[r].op = "fader"
          BY <2>7, <3>2 DEF FaderInv, AtWork, Midway, Working, OpInv
        <4> QED BY <2>1, <2>2, <2>4, <2>7, <4>1 DEF Midway
      <3> QED BY <2>2, <3>1, <3>2
    <2>8. ASSUME ~faulty, req[r].bus # "alert" PROVE sink'["alert"] = mixer'["alert"]
      BY <2>2, <2>4, <2>6, <2>8 DEF FaderInv, AtWork
    <2>9. (AtWork(r))' <=> req[r].bus = "alert"
      BY <2>1 DEF AtWork, Working
    <2> QED BY <2>2, <2>5, <2>6, <2>7, <2>8, <2>9 DEF FaderInv
  <1>5. ASSUME Record(r) PROVE FaderInv' /\ OpInv'
    <2>1. req'[r] = IdleReq /\ (\A q \in Requests : q # r => req'[q] = req[q])
      BY <1>0, <1>5 DEF Record, Finish
    <2>2. /\ UNCHANGED <<sink, faulty>> /\ req[r].pc = "record" /\ lock["daemon"] = r
          /\ mixer' = [mixer EXCEPT ![req[r].bus] = Recorded(req[r], @)]
      BY <1>0, <1>5 DEF Record, count, Working
    <2>3. \A q \in Requests : q # r => ~AtWork(q)
      BY <2>2, OneAtWork DEF AtWork
    <2>4. /\ req[r].bus # "alert" => mixer'["alert"] = mixer["alert"]
          /\ req[r].bus = "alert" => mixer'["alert"] = Recorded(req[r], mixer["alert"])
      BY <1>0, <2>2
    <2>5. OpInv'
      BY <2>1 DEF OpInv, IdleReq
    <2>6. ASSUME ~faulty PROVE sink["alert"] = mixer'["alert"]
      <3>1. CASE req[r].bus # "alert"
        BY <2>3, <2>4, <2>6, <3>1 DEF FaderInv, AtWork
      <3>2. CASE req[r].bus = "alert"
        <4>1. /\ sink["alert"].muted = req[r].muted
              /\ sink["alert"].level = IF req[r].op = "fader" THEN req[r].level
                                                             ELSE mixer["alert"].level
          BY <2>2, <2>6, <3>2 DEF FaderInv, AtWork, Midway, Working
        <4>2. CASE req[r].op = "fader"
          <5>1. mixer'["alert"] = [level |-> req[r].level, muted |-> req[r].muted]
            BY <2>4, <3>2, <4>2 DEF Recorded
          <5> QED BY <1>0, <4>1, <4>2, <5>1 DEF Fader
        <4>3. CASE req[r].op = "mixer"
          <5>1. mixer'["alert"] = [mixer["alert"] EXCEPT !.muted = req[r].muted]
            BY <2>4, <3>2, <4>3 DEF Recorded
          <5> QED BY <1>0, <4>1, <4>3, <5>1 DEF Fader
        <4> QED BY <2>2, <3>2, <4>2, <4>3 DEF OpInv
      <3> QED BY <3>1, <3>2
    <2>7. \A q \in Requests : ~(AtWork(q))'
      BY <2>1, <2>3 DEF AtWork, Working, IdleReq
    <2> QED BY <2>2, <2>5, <2>6, <2>7 DEF FaderInv
  <1>6. ASSUME RequestFails(r) PROVE FaderInv' /\ OpInv'
    <2>1. req'[r] = IdleReq /\ (\A q \in Requests : q # r => req'[q] = req[q]) /\ faulty'
      BY <1>0, <1>6 DEF RequestFails, Finish, Fault
    <2> QED BY <2>1 DEF FaderInv, OpInv, IdleReq
  <1> QED BY <1>1, <1>2, <1>3, <1>4, <1>5, <1>6, Zenon DEF Fading

LEMMA FaderStep ==
  ASSUME IInv, FaderInv, OpInv, [Next]_vars
  PROVE  FaderInv' /\ OpInv'
  <1>1. ASSUME Configure PROVE FaderInv' /\ OpInv'
    <2>1. UNCHANGED <<mixer, req, sink, faulty>>
      BY <1>1 DEF Configure, ReadSettings, SaveSettings, CancelPlayback, mixing, count
    <2> QED BY <2>1, FaderStays
  <1>2. ASSUME UNCHANGED vars PROVE FaderInv' /\ OpInv'
    BY <1>2, FaderStays DEF vars
  <1>3. ASSUME NEW p \in Processes, Priority(p) PROVE FaderInv' /\ OpInv'
    BY <1>3, PriorityLeaves, FaderStays
  <1> QED BY <1>1, <1>2, <1>3, RequestsRecord DEF Next

\* Policy never moves ALERT, for any number of processes and requests: but
\* for failed writes the sink is where the last request put and recorded it
\* (audio.rs:221-245, 268-288, 505-510).
THEOREM AlertUntouched == Spec => []AlertIsTheUsers
  <1>1. Init => FaderInv /\ OpInv
    BY DEF Init, FaderInv, OpInv, IdleReq, AtWork, Working
  <1>2. FaderInv => AlertIsTheUsers
    BY DEF FaderInv, AlertIsTheUsers, AtWork, Working
  <1>3. IInv /\ FaderInv /\ OpInv /\ [Next]_vars => (FaderInv /\ OpInv)'
    BY FaderStep
  <1> QED BY <1>1, <1>2, <1>3, Invariance, PTL DEF Spec

-----------------------------------------------------------------------------
(* MUSIC after priority audio.  An announcement may leave MUSIC anywhere      *)
(* while it lasts, for it knows a level of the user's to go back to; one that *)
(* has lost it leaves MUSIC where it is until it guesses.                     *)

Mine == ann["daemon"]

Loose == {"idle", "guess"}
Settled == Loose \cup {"over"}

ReturnInv ==
  /\ cancelling => Mine.pc # "guess"
  /\ ~faulty => /\ Mine.pc \in Settled => sink["music"].level \in Chosen
                /\ Mine.pc \notin Loose => Mine.snapshot.level \in Chosen

\* A step that stays with the announcement, and one that goes on with it.
LEMMA StillReturns ==
  ASSUME ReturnInv, Mine.pc \notin Loose, Mine'.pc \notin Settled, Mine'.snapshot = Mine.snapshot,
         Chosen' = Chosen, faulty => faulty'
  PROVE  ReturnInv'
  BY DEF ReturnInv, Settled, Loose

LEMMA GoesOnReturning ==
  ASSUME TypeOK, ReturnInv, "daemon" \in Processes, Mine.pc \notin Loose,
         NEW label \in AnnLabels \ Settled, Goto("daemon", label), Chosen' = Chosen,
         faulty => faulty'
  PROVE  ReturnInv'
  <1>1. Mine \in Announcement /\ ann \in [Processes -> Announcement]
    BY DEF TypeOK, Mine
  <1>2. Mine' = [Mine EXCEPT !.pc = label]
    BY <1>1 DEF Goto, Mine
  <1>3. Mine'.pc = label /\ Mine'.snapshot = Mine.snapshot
    BY <1>1, <1>2 DEF Announcement
  <1> QED BY <1>3, StillReturns

LEMMA ReturnStep ==
  ASSUME Processes = {"daemon"}, IInv, ReturnInv, [Next]_vars
  PROVE  ReturnInv'
  <1> DEFINE p == "daemon"
  <1>0. /\ TypeOK /\ ann \in [Processes -> Announcement] /\ p \in Processes
        /\ Mine \in Announcement /\ Mine = ann[p]
        /\ sink \in [Bus -> Fader] /\ "music" \in Bus /\ sink["music"] \in Fader
    BY DEF IInv, TypeOK, Mine, Bus
  <1>1. ASSUME ann' = ann, sink'["music"] = sink["music"], Chosen' = Chosen, faulty => faulty',
               cancelling' => cancelling
        PROVE  ReturnInv'
    BY <1>1 DEF ReturnInv, Mine
  <1>2. ASSUME Priority(p) PROVE ReturnInv'
    <2>0. asked' = asked /\ (faulty => faulty')
      BY <1>2, PriorityLeaves
    <2>99. ASSUME guessed' = guessed PROVE Chosen' = Chosen
      BY <2>0, <2>99 DEF Chosen
    <2>1. ASSUME NEW kind \in Kinds, NEW event \in Level, Begin(p, kind, event) PROVE ReturnInv'
      <3>1. Mine.pc = "idle" /\ Mine' = Beginning(kind, event, sink["music"]) /\ faulty' = faulty
        BY <1>0, <2>1 DEF Begin, Mine
      <3>2. Mine'.pc \notin Settled /\ Mine'.snapshot = sink["music"]
        BY <3>1 DEF Beginning, Loose, Settled
      <3>3. Chosen' = Chosen
        BY <2>1, <2>99 DEF Begin, others
      <3> QED BY <3>1, <3>2, <3>3 DEF ReturnInv, Loose, Settled
    <2>2. ASSUME NEW label \in AnnLabels \ Settled, Goto(p, label), Mine.pc \notin Loose,
                 UNCHANGED others
          PROVE  ReturnInv'
      <3>1. Chosen' = Chosen
        BY <2>2, <2>99 DEF others
      <3> QED BY <1>0, <2>0, <2>2, <3>1, GoesOnReturning
    <2>3. CASE Enter(p)
      BY <1>0, <2>2, <2>3 DEF Enter, WayOut, AnnLabels, Loose, Settled
    <2>4. CASE Ensure(p)
      <3>1. Chosen' = Chosen
        BY <2>4, <2>99 DEF Ensure, others
      <3> QED BY <1>0, <2>0, <2>4, <3>1, StillReturns DEF Ensure, Mine, Loose, Settled
    <2>5. CASE Announce(p) \/ Clear(p) \/ TalkoverDuck(p)
      BY <1>0, <2>2, <2>5 DEF Announce, Clear, TalkoverDuck, AnnLabels, Loose, Settled
    <2>6. CASE Subscribe(p)
      <3>1. Mine' = [Mine EXCEPT !.seen = cancels, !.pc = "check"] /\ Mine.pc = "subscribe"
        BY <1>0, <2>6 DEF Subscribe, Mine
      <3>2. Mine'.pc = "check" /\ Mine'.snapshot = Mine.snapshot
        BY <1>0, <3>1 DEF Announcement
      <3>3. Chosen' = Chosen
        BY <2>6, <2>99 DEF Subscribe, others
      <3> QED BY <2>0, <3>1, <3>2, <3>3, StillReturns DEF Loose, Settled
    <2>7. CASE CheckEnabled(p) \/ PlayerEnds(p) \/ PlayerCancelled(p) \/ Return(p) \/ PutBack(p)
      BY <1>0, <2>2, <2>7 DEF CheckEnabled, PlayerEnds, PlayerCancelled, Return, PutBack,
        After, AnnLabels, Loose, Settled
    <2>8. CASE Sample(p)
      <3>1. CASE Goto(p, After(ann[p].kind))
        BY <1>0, <2>2, <2>8, <3>1 DEF Sample, After, AnnLabels, Loose, Settled
      <3>2. CASE ann' = [ann EXCEPT ![p] =
                   [@ EXCEPT !.before = sink["music"].level, !.pc = "playing"]]
        <4>1. Mine' = [Mine EXCEPT !.before = sink["music"].level, !.pc = "playing"]
          BY <1>0, <3>2 DEF Mine
        <4>2. Mine'.pc = "playing" /\ Mine'.snapshot = Mine.snapshot
          BY <1>0, <4>1 DEF Announcement
        <4>3. Mine.pc \notin Loose
          BY <1>0, <2>8 DEF Sample, Loose
        <4>4. Chosen' = Chosen
          BY <2>8, <2>99 DEF Sample, others
        <4> QED BY <2>0, <4>2, <4>3, <4>4, StillReturns DEF Loose, Settled
      <3> QED BY <2>8, <3>1, <3>2 DEF Sample
    <2>9. CASE Unlock(p)
      <3> DEFINE label == IF ann[p].kind = "minute" THEN WayOut(p) ELSE "between"
      <3>1. label \notin Settled
        BY DEF WayOut, Loose, Settled
      <3> HIDE DEF label
      <3>2. Mine' = [Mine EXCEPT !.before = 0, !.seen = 0, !.pc = label] /\ Mine.pc = "unlock"
        BY <1>0, <2>9 DEF Unlock, Mine, label
      <3>3. Mine'.pc = label /\ Mine'.snapshot = Mine.snapshot
        BY <1>0, <3>2 DEF Announcement
      <3>4. Chosen' = Chosen
        BY <2>9, <2>99 DEF Unlock, others
      <3> QED BY <2>0, <3>1, <3>2, <3>3, <3>4, StillReturns DEF Loose, Settled
    <2>10. CASE Restore(p)
      <3>1. Mine.pc = "restore" /\ Mine' = IdleAnn
        BY <1>0, <2>10 DEF Restore, Mine
      <3>2. Chosen' = Chosen
        BY <2>10, <2>99 DEF Restore, others
      <3>3. CASE sink' = [sink EXCEPT !["music"] = ann[p].snapshot] /\ UNCHANGED count
        BY <1>0, <3>1, <3>2, <3>3 DEF ReturnInv, IdleAnn, count, Loose, Settled
      <3>4. CASE Fault
        BY <3>1, <3>4 DEF ReturnInv, Fault, IdleAnn
      <3> QED BY <2>10, <3>3, <3>4 DEF Restore, Write
    <2>11. CASE GiveBack(p)
      <3>1. Mine.pc = "giveBack" /\ Mine'.pc = "over" /\ Mine'.snapshot = Mine.snapshot
        <4>1. Mine' = [Mine EXCEPT !.pc = "over"] /\ Mine.pc = "giveBack"
          BY <1>0, <2>11 DEF GiveBack, Goto, Mine
        <4> QED BY <1>0, <4>1 DEF Announcement
      <3>2. Chosen' = Chosen
        BY <2>11, <2>99 DEF GiveBack, others
      <3>3. CASE sink' = [sink EXCEPT !["music"] = ann[p].snapshot]
        <4>1. sink'["music"] = Mine.snapshot
          BY <1>0, <3>3
        <4> QED BY <2>0, <3>1, <3>2, <4>1 DEF ReturnInv, Loose
      <3>4. CASE Fault
        BY <3>1, <3>4 DEF ReturnInv, Fault
      <3> QED BY <2>11, <3>3, <3>4 DEF GiveBack, Write
    <2>14. CASE MinuteOver(p)
      <3>1. Mine.pc = "over" /\ Mine' = IdleAnn /\ sink' = sink
        BY <1>0, <2>14 DEF MinuteOver, Mine
      <3>2. Chosen' = Chosen
        BY <2>14, <2>99 DEF MinuteOver, others
      <3> QED BY <2>0, <3>1, <3>2 DEF ReturnInv, IdleAnn, Loose, Settled
    <2>15. CASE SeeMinute(p)
      <3>1. Mine' = Mine /\ sink' = sink /\ Mine.pc # "guess"
        BY <1>0, <2>15 DEF SeeMinute, Mine
      <3>2. Chosen' = Chosen
        BY <2>15, <2>99 DEF SeeMinute
      <3> QED BY <2>0, <3>1, <3>2 DEF ReturnInv
    <2>16. CASE CancelMinute(p)
      <3> DEFINE label == IF Found(p) THEN "restore" ELSE "guess"
      <3>1. Mine' = [IdleAnn EXCEPT !.kind = "minute", !.snapshot = Mine.snapshot, !.pc = label]
            /\ sink' = sink /\ ~cancelling' /\ Mine.pc # "guess"
        BY <1>0, <2>16 DEF CancelMinute, Cancelled, Mine, ReturnInv
      <3>2. Chosen' = Chosen
        BY <2>16, <2>99 DEF CancelMinute
      <3>3. Mine'.snapshot = Mine.snapshot /\ Mine'.pc = label
        BY <3>1 DEF IdleAnn
      <3>4. CASE Mine.pc = "idle"
        <4>1. Mine'.pc = "guess"
          BY <1>0, <3>3, <3>4 DEF Found
        <4> QED BY <2>0, <3>1, <3>2, <3>4, <4>1 DEF ReturnInv, Loose, Settled
      <3>5. CASE Mine.pc # "idle"
        <4>1. Mine'.pc = "restore"
          BY <1>0, <3>3, <3>5 DEF Found
        <4> QED BY <2>0, <3>1, <3>2, <3>3, <3>5, <4>1 DEF ReturnInv, Loose, Settled
      <3> QED BY <3>4, <3>5
    <2>12. CASE Guess(p)
      <3>1. Mine' = IdleAnn /\ guessed' = TRUE
        BY <1>0, <2>12 DEF Guess, Mine
      <3>2. DefaultLevel \in Chosen'
        BY <3>1 DEF Chosen
      <3>3. CASE sink' = [sink EXCEPT !["music"] = [level |-> DefaultLevel, muted |-> FALSE]]
        BY <1>0, <3>1, <3>2, <3>3 DEF ReturnInv, IdleAnn, Loose, Settled
      <3>4. CASE Fault
        BY <3>1, <3>4 DEF ReturnInv, Fault, IdleAnn
      <3> QED BY <2>12, <3>3, <3>4 DEF Guess, Write
    <2>13. ASSUME NEW kind \in Kinds, Preempt(p, kind) PROVE ReturnInv'
      <3> DEFINE snapshot == IF ann[p].pc = "restore" THEN ann[p].snapshot ELSE sink["music"]
      <3>1. Mine.pc \in {"restore", "guess"} /\ Mine' = Beginning(kind, Unity, snapshot)
            /\ faulty' = faulty
        BY <1>0, <2>13 DEF Preempt, Mine
      <3>2. Chosen' = Chosen
        BY <2>13, <2>99 DEF Preempt, others
      <3>3. ~faulty => snapshot.level \in Chosen
        BY <1>0, <3>1 DEF ReturnInv, Loose, Settled
      <3> HIDE DEF snapshot
      <3>4. Mine'.pc \notin Settled /\ Mine'.snapshot = snapshot
        BY <3>1 DEF Beginning, Loose, Settled
      <3> QED BY <3>1, <3>2, <3>3, <3>4 DEF ReturnInv, Settled, Loose
    <2> QED BY <1>2, <2>1, <2>3, <2>4, <2>5, <2>6, <2>7, <2>8, <2>9, <2>10, <2>11, <2>12, <2>13,
               <2>14, <2>15, <2>16 DEF Priority
  <1>3. ASSUME NEW r \in Requests, Fading(r) PROVE ReturnInv'
    <2>1. /\ req[r] \in FaderRequest /\ req[r].bus \in Bus
          /\ ann' = ann /\ (faulty => faulty') /\ UNCHANGED <<cancelling, guessed>>
      BY <1>0, <1>3 DEF TypeOK, FaderRequest, Fading, Request, SetLevel, RecordLevel, SetMute,
        Record, RequestFails, priority, count, Fault
    <2>2. CASE SetLevel(r)
      <3>1. sink' = [sink EXCEPT ![req[r].bus] = [@ EXCEPT !.level = req[r].level]]
        BY <2>2 DEF SetLevel
      <3>2. CASE req[r].bus = "music"
        <4>1. sink'["music"].level = req[r].level /\ asked' = asked \cup {req[r].level}
          BY <1>0, <2>2, <3>1, <3>2 DEF SetLevel, Fader
        <4> QED BY <2>1, <4>1 DEF ReturnInv, Mine, Chosen
      <3>3. CASE req[r].bus # "music"
        <4>1. sink'["music"] = sink["music"] /\ asked' = asked
          BY <1>0, <2>1, <2>2, <3>1, <3>3 DEF SetLevel
        <4> QED BY <1>1, <2>1, <4>1 DEF Chosen
      <3> QED BY <3>2, <3>3
    <2>3. CASE SetMute(r)
      <3>1. sink'["music"].level = sink["music"].level /\ asked' = asked
        BY <1>0, <2>1, <2>3 DEF SetMute, Fader
      <3> QED BY <2>1, <3>1 DEF ReturnInv, Mine, Chosen
    <2>4. CASE RecordLevel(r) \/ Record(r) \/ RequestFails(r)
      BY <1>1, <2>1, <2>4 DEF RecordLevel, Record, RequestFails, Chosen
    <2>5. ASSUME NEW body \in Bodies, Request(r, body) PROVE ReturnInv'
      BY <1>1, <2>1, <2>5 DEF Request, Chosen
    <2> QED BY <1>3, <2>2, <2>3, <2>4, <2>5 DEF Fading
  <1>4. ASSUME Configure PROVE ReturnInv'
    BY <1>1, <1>4 DEF Configure, ReadSettings, SaveSettings, CancelPlayback, mixing, count, Chosen
  <1>5. ASSUME UNCHANGED vars PROVE ReturnInv'
    BY <1>1, <1>5 DEF vars, Chosen
  <1> QED BY <1>2, <1>3, <1>4, <1>5 DEF Next

\* Once priority audio is over MUSIC is at a level the user chose, unless a
\* write has failed, or at the configured one after a switch-off that met the
\* end of a minute: however an announcement ends, is aborted or overtaken, it
\* goes back to what it found (audio.rs:421-475, alerts.rs:90-119).
THEOREM MusicComesBack ==
  ASSUME Processes = {"daemon"}
  PROVE  Spec => []NeverLeftDucked
  <1>1. Init => ReturnInv
    BY DEF Init, ReturnInv, Mine, IdleAnn, Chosen, Loose
  <1>2. IInv /\ ReturnInv /\ [Next]_vars => ReturnInv'
    BY ReturnStep
  <1>3. ReturnInv => NeverLeftDucked
    BY MixAssumption DEF ReturnInv, NeverLeftDucked, AtRest, Mine, Loose, Settled
  <1> QED BY <1>1, <1>2, <1>3, Invariance, PTL DEF Spec

=============================================================================
