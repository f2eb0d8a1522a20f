-------------------------- MODULE MCAlertController --------------------------
(* Instances of AlertController for TLC. *)
EXTENDS AlertController

\* Ducking takes 2 to 1 and 1 to 0.
MCDuck == [l \in Level |-> l \div 2]

Mode(enabled, min, talk) == [enabled |-> enabled, minute |-> min, talkover |-> talk]

DuckingSwitches ==
  {Mode(TRUE, TRUE, FALSE), Mode(TRUE, FALSE, FALSE), Mode(FALSE, TRUE, FALSE)}
AllSwitches ==
  DuckingSwitches \cup {Mode(TRUE, TRUE, TRUE), Mode(FALSE, TRUE, TRUE)}

Hazards(f, c, s, r, g) ==
  [fault |-> f, crash |-> c, setting |-> s, request |-> r, graph |-> g]

OneOfEach          == Hazards(1, 1, 1, 1, 1)
FaultCrashSettings == Hazards(1, 1, 2, 0, 0)
=============================================================================
