---------------------------- MODULE MCPulseCache ----------------------------
(* The instance of PulseCache for TLC; see PulseCache.cfg.                   *)
EXTENDS PulseCache
=============================================================================
