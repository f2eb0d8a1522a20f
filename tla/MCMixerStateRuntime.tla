------------------------ MODULE MCMixerStateRuntime ------------------------
(* An instance of MixerStateRuntime for TLC. *)
EXTENDS MixerStateRuntime
=============================================================================
