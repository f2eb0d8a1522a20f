--------------------------- MODULE MCSourceArbiter ---------------------------
(* Instances of SourceArbiter for TLC. *)
EXTENDS SourceArbiter
=============================================================================
