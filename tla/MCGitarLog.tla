----------------------------- MODULE MCGitarLog -----------------------------
(* GitarLog for TLC: dumps and pollers are model values.                   *)
EXTENDS GitarLog
=============================================================================
