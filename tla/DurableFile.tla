---------------------------- MODULE DurableFile ----------------------------
(* What a small persistent file promises its callers: a replacement happens *)
(* at one instant, a reader or a restart only ever finds a whole value, and *)
(* once a replacement has been acknowledged no power loss goes back before  *)
(* it.  AtomicFile, the file that src/src/atomic_file.rs writes, implements *)
(* this.                                                                    *)
EXTENDS Naturals

CONSTANTS Writers,   \* the callers
          Payloads,  \* the values they store
          Absent     \* no value

VARIABLES
  value,   \* what a reader finds: [payload, stamp], the stamp its turn
  stable,  \* the values a power loss may leave
  acked,   \* the latest turn that was acknowledged
  turn,    \* replacements so far
  calls    \* writer -> [stage, payload, stamp]

vars == <<value, stable, acked, turn, calls>>

NoCall == [stage |-> "none", payload |-> Absent, stamp |-> 0]

Init ==
  /\ value = [payload |-> Absent, stamp |-> 0]
  /\ stable = {value}
  /\ acked = 0
  /\ turn = 0
  /\ calls = [w \in Writers |-> NoCall]

Request(w, p) ==
  /\ calls[w].stage = "none"
  /\ calls' = [calls EXCEPT ![w] = [stage |-> "called", payload |-> p, stamp |-> 0]]
  /\ UNCHANGED <<value, stable, acked, turn>>

Commit(w) ==
  /\ calls[w].stage = "called"
  /\ turn' = turn + 1
  /\ value' = [payload |-> calls[w].payload, stamp |-> turn']
  /\ stable' = stable \cup {value'}
  /\ calls' = [calls EXCEPT
       ![w] = [stage |-> "committed", payload |-> calls[w].payload, stamp |-> turn']]
  /\ UNCHANGED acked

\* The acknowledgement settles the latest value, which may be a later turn's.
Acknowledge(w) ==
  /\ calls[w].stage = "committed"
  /\ stable' = {value}
  /\ acked' = IF calls[w].stamp > acked THEN calls[w].stamp ELSE acked
  /\ calls' = [calls EXCEPT ![w] = NoCall]
  /\ UNCHANGED <<value, turn>>

\* An error says nothing: the replacement may have happened.
Fail(w) ==
  /\ calls[w].stage \in {"called", "committed"}
  /\ calls' = [calls EXCEPT ![w] = NoCall]
  /\ UNCHANGED <<value, stable, acked, turn>>

ProcessDies ==
  /\ calls' = [w \in Writers |-> NoCall]
  /\ UNCHANGED <<value, stable, acked, turn>>

PowerLoss ==
  /\ value' \in stable
  /\ stable' = {value'}
  /\ calls' = [w \in Writers |-> NoCall]
  /\ UNCHANGED <<acked, turn>>

Next ==
  \/ \E w \in Writers, p \in Payloads : Request(w, p)
  \/ \E w \in Writers : Commit(w) \/ Acknowledge(w) \/ Fail(w)
  \/ ProcessDies \/ PowerLoss

Spec == Init /\ [][Next]_vars
=============================================================================
