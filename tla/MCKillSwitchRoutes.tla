------------------------ MODULE MCKillSwitchRoutes ------------------------
(***************************************************************************)
(* Instances of KillSwitchRoutes for TLC: one split default of each        *)
(* family, three local DNS servers of which two may be recorded.           *)
(***************************************************************************)
EXTENDS KillSwitchRoutes, TLC

CONSTANTS d4, d6, s1, s2, s3

BothDefaults == {d4, d6}
LocalServers == {s1, s2, s3}

ServerSymmetry == Permutations(LocalServers) \cup Permutations(BothDefaults)

CommandFaults == {"netsh", "write"}
=============================================================================
