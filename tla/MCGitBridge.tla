---------------------------- MODULE MCGitBridge -----------------------------
(* GitBridge with model values for requests, keys, bridges and sessions.   *)
EXTENDS GitBridge
=============================================================================
