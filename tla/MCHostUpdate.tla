---------------------------- MODULE MCHostUpdate ----------------------------
(* Two releases after the first, one of which does not work.                 *)
EXTENDS HostUpdate
BrokenReleases == {2}
=============================================================================
