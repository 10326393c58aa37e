--------------------------- MODULE MCGithubMirror ---------------------------
(* Instances of GithubMirror for TLC: dumps are numbered by signing time.  *)
EXTENDS GithubMirror

CONSTANT MaxDump

MCDumps == 1..MaxDump
MCSigningTime == [d \in MCDumps |-> 10 * d]
=============================================================================
