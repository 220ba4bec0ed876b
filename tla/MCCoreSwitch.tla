---------------------------- MODULE MCCoreSwitch ----------------------------
(***************************************************************************)
(* Instances of CoreSwitch for TLC: the bundled core and two downloadable  *)
(* ones, one location whose kill switch is on.  Two downloads suffice for  *)
(* every relation the specification knows between the tag, the connection  *)
(* and the version an operation is about.                                  *)
(***************************************************************************)
EXTENDS CoreSwitch, TLC

CONSTANTS v1, v2, bundled

TwoDownloads == {v1, v2}
AllVersions  == {v1, v2, bundled}
AllFaults    == FaultKinds

=============================================================================
