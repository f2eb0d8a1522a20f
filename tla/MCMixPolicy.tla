---------------------------- MODULE MCMixPolicy ----------------------------
(* Instances of MixPolicy for TLC. *)
EXTENDS MixPolicy, TLC

MCDuck == [l \in Level |-> l \div 2]

\* Rounded up, on the safe side.
MCAttenuate == [x \in Level \X Level |-> (x[1] * x[2] + Unity - 1) \div Unity]

Symmetry == Permutations(Requests)

AllKinds == {"alert", "talkover", "minute"}
=============================================================================
