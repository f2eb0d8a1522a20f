--------------------------- MODULE MCOutputRouting ---------------------------
(* Instances of OutputRouting for TLC; see OutputRouting*.cfg.                *)
EXTENDS OutputRouting
=============================================================================
