---------------------- MODULE KillSwitchRoutesProofs ----------------------
(***************************************************************************)
(* Proofs about KillSwitchRoutes: no host route of the service is ever     *)
(* forgotten, for any set of networks and any failure of netsh, as long as *)
(* the route-state file can be read.                                       *)
(***************************************************************************)
EXTENDS KillSwitchRoutes, TLAPS

\* What is in the table, and what a running install is about to add, is recorded.
RecordInv ==
  /\ HostRoutesRecorded
  /\ op = "install" => todo \cap Servers \subseteq file
  /\ adding \in Servers => op = "install" /\ adding \in file

Inv == TypeOK /\ RecordInv

LEMMA InvInit == Init => Inv
BY RoutesAssumption DEF Init, Inv, TypeOK, RecordInv, HostRoutesRecorded, Routes

\* The prefixes that may be worked on now are among those left.
LEMMA ReadyTodo == Ready \subseteq todo
BY DEF Ready

LEMMA InvNext ==
  ASSUME "read" \notin Faults, Inv, [Next]_vars
  PROVE  Inv'
<1> USE RoutesAssumption, ReadyTodo DEF Inv, TypeOK, RecordInv, HostRoutesRecorded, Routes, Return
<1>1. CASE InstallRecord
  <2>1. PICK loaded \in Loaded : /\ file' = loaded \cup physical
                                 /\ op' = "install" /\ todo' = Defaults \cup (loaded \cup physical)
    BY <1>1 DEF InstallRecord
  <2>2. loaded = file
    BY <2>1 DEF Loaded
  <2> QED
    BY <1>1, <2>1, <2>2 DEF InstallRecord
<1>2. ASSUME NEW r \in Routes, ReplaceDelete(r) PROVE Inv'
  BY <1>2 DEF ReplaceDelete
<1>3. CASE ReplaceAdd
  BY <1>3 DEF ReplaceAdd
<1>4. CASE ReplaceAddErr
  BY <1>4 DEF ReplaceAddErr
<1>5. CASE InstallVerify
  BY <1>5 DEF InstallVerify
<1>6. CASE RemoveLoad
  <2>1. todo' = Defaults \cup file
    BY <1>6 DEF RemoveLoad, Loaded
  <2> QED
    BY <1>6, <2>1 DEF RemoveLoad
<1>7. ASSUME NEW r \in Routes, Delete(r) PROVE Inv'
  BY <1>7 DEF Delete
<1>8. CASE RemoveFile
  BY <1>8 DEF RemoveFile, Gone, Loaded
<1>9. CASE RemoveErr
  BY <1>9 DEF RemoveErr
<1>10. CASE Die
  BY <1>10 DEF Die
<1>11. CASE Reboot
  BY <1>11 DEF Reboot
<1>12. CASE ChangeNetwork
  BY <1>12 DEF ChangeNetwork
<1>13. CASE UNCHANGED vars
  BY <1>13 DEF vars
<1>14. CASE InstallVerifyErr
  BY <1>14 DEF InstallVerifyErr
<1>15. CASE ConfigureStart
  BY <1>15 DEF ConfigureStart
<1>16. ASSUME NEW r \in Defaults, TunDelete(r) PROVE Inv'
  BY <1>16 DEF TunDelete
<1>17. CASE TunAdd
  BY <1>17 DEF TunAdd
<1>18. CASE ConfigureErr
  BY <1>18 DEF ConfigureErr
<1>19. CASE ConfigureEnd
  BY <1>19 DEF ConfigureEnd
<1>20. CASE XrayExits
  BY <1>20 DEF XrayExits
<1> QED
  BY <1>1, <1>2, <1>3, <1>4, <1>5, <1>6, <1>7, <1>8, <1>9, <1>10, <1>11, <1>12, <1>13,
     <1>14, <1>15, <1>16, <1>17, <1>18, <1>19, <1>20
  DEF Next, Install, Remove, Configure

\* Every host route in the table is recorded, so that a later cleanup finds it.
THEOREM Recorded ==
  ASSUME "read" \notin Faults
  PROVE  Spec => []HostRoutesRecorded
<1>1. Inv /\ [Next]_vars => Inv'
  BY InvNext
<1>2. Inv => HostRoutesRecorded
  BY DEF Inv, RecordInv
<1> QED
  BY <1>1, <1>2, InvInit, PTL DEF Spec

\* A removal that reports success has left no route of the service behind.
THEOREM RemovalComplete ==
  ASSUME "read" \notin Faults
  PROVE  Spec => RemovedMeansGone
<1>1. Inv /\ [Next]_vars => Inv'
  BY InvNext
<1>2. Inv => [RemoveFile => table' = {}]_vars
  <2> SUFFICES ASSUME Inv, RemoveFile PROVE table' = {}
    OBVIOUS
  <2>1. table \cap (Defaults \cup file) = {}
    BY DEF RemoveFile, Gone, Loaded
  <2>2. table \subseteq Defaults \cup file
    BY DEF Inv, TypeOK, RecordInv, HostRoutesRecorded, Routes
  <2> QED
    BY <2>1, <2>2 DEF RemoveFile
<1> QED
  BY <1>1, <1>2, InvInit, PTL DEF Spec, RemovedMeansGone

-----------------------------------------------------------------------------
(* The verified hold under tunnels that come and go. *)

\* The prefix being replaced is one of those left; outside an install the
\* verified hold is complete, a removal gives it up first, and only an install
\* works on host routes.
HoldInv ==
  /\ HoldOutlivesTunnels
  /\ held /\ op # "install" => Defaults \subseteq table
  /\ op = "remove" => ~held
  /\ op \in {"idle", "remove"} => adding = None
  /\ adding # None => adding \in todo
  /\ adding \in Servers => op = "install"

LEMMA HoldInit == Init => HoldInv
BY RoutesAssumption DEF Init, HoldInv, HoldOutlivesTunnels

LEMMA HoldNext ==
  ASSUME TypeOK, HoldInv, [Next]_vars
  PROVE  HoldInv'
<1> USE RoutesAssumption, ReadyTodo DEF HoldInv, TypeOK, HoldOutlivesTunnels, Routes, Return
<1>1. CASE InstallRecord
  BY <1>1 DEF InstallRecord
<1>2. ASSUME NEW r \in Routes, ReplaceDelete(r) PROVE HoldInv'
  <2>1. held => Defaults \subseteq table
    BY <1>2 DEF ReplaceDelete
  <2>2. Defaults \ table' \subseteq (Defaults \ table) \cup {r}
    BY <1>2 DEF ReplaceDelete
  <2> QED
    BY <1>2, <2>1, <2>2 DEF ReplaceDelete
<1>3. CASE ReplaceAdd
  BY <1>3 DEF ReplaceAdd
<1>4. CASE ReplaceAddErr
  BY <1>4 DEF ReplaceAddErr
<1>5. CASE InstallVerify
  BY <1>5 DEF InstallVerify
<1>6. CASE InstallVerifyErr
  BY <1>6 DEF InstallVerifyErr
<1>7. CASE RemoveLoad
  BY <1>7 DEF RemoveLoad
<1>8. ASSUME NEW r \in Routes, Delete(r) PROVE HoldInv'
  BY <1>8 DEF Delete
<1>9. CASE RemoveFile
  BY <1>9 DEF RemoveFile
<1>10. CASE RemoveErr
  BY <1>10 DEF RemoveErr
<1>11. CASE ConfigureStart
  BY <1>11 DEF ConfigureStart
<1>12. ASSUME NEW r \in Defaults, TunDelete(r) PROVE HoldInv'
  BY <1>12 DEF TunDelete
<1>13. CASE TunAdd
  BY <1>13 DEF TunAdd
<1>14. CASE ConfigureErr
  BY <1>14 DEF ConfigureErr
<1>15. CASE ConfigureEnd
  BY <1>15 DEF ConfigureEnd
<1>16. CASE XrayExits
  BY <1>16 DEF XrayExits
<1>17. CASE Die
  BY <1>17 DEF Die
<1>18. CASE Reboot
  BY <1>18 DEF Reboot
<1>19. CASE ChangeNetwork
  BY <1>19 DEF ChangeNetwork
<1>20. CASE UNCHANGED vars
  BY <1>20 DEF vars
<1> QED
  BY <1>1, <1>2, <1>3, <1>4, <1>5, <1>6, <1>7, <1>8, <1>9, <1>10, <1>11, <1>12, <1>13,
     <1>14, <1>15, <1>16, <1>17, <1>18, <1>19, <1>20
  DEF Next, Install, Remove, Configure

\* Types do not depend on which faults there are.
LEMMA TypeNext ==
  ASSUME TypeOK, HoldInv, [Next]_vars
  PROVE  TypeOK'
<1> USE RoutesAssumption, ReadyTodo DEF TypeOK, Routes, Return
<1>1. CASE Install
  <2>1. CASE InstallRecord
    <3>1. PICK loaded \in Loaded : file' = loaded \cup physical /\ todo' = Defaults \cup file'
      BY <2>1 DEF InstallRecord
    <3>2. loaded \subseteq Servers
      BY <3>1 DEF Loaded
    <3> QED
      BY <2>1, <3>1, <3>2 DEF InstallRecord
  <2>2. ASSUME NEW r \in Routes, ReplaceDelete(r) PROVE TypeOK'
    BY <2>2 DEF ReplaceDelete
  <2> QED
    BY <1>1, <2>1, <2>2 DEF Install, ReplaceAdd, ReplaceAddErr, InstallVerify, InstallVerifyErr
<1>2. CASE Remove
  <2>1. CASE RemoveLoad
    <3>1. PICK loaded \in Loaded : todo' = Defaults \cup loaded
      BY <2>1 DEF RemoveLoad
    <3>2. loaded \subseteq Servers
      BY <3>1 DEF Loaded
    <3> QED
      BY <2>1, <3>1, <3>2 DEF RemoveLoad
  <2>2. ASSUME NEW r \in Routes, Delete(r) PROVE TypeOK'
    BY <2>2 DEF Delete
  <2> QED
    BY <1>2, <2>1, <2>2 DEF Remove, RemoveFile, RemoveErr
<1>3. CASE Configure
  <2>1. CASE ConfigureStart
    BY <2>1 DEF ConfigureStart
  <2>2. ASSUME NEW r \in Defaults, TunDelete(r) PROVE TypeOK'
    BY <2>2 DEF TunDelete
  <2>3. CASE TunAdd
    <3>1. adding \in Defaults
      BY <2>3 DEF TunAdd, HoldInv
    <3> QED
      BY <2>3, <3>1 DEF TunAdd
  <2>4. CASE ConfigureErr \/ ConfigureEnd
    BY <2>4 DEF ConfigureErr, ConfigureEnd
  <2> QED
    BY <1>3, <2>1, <2>2, <2>3, <2>4 DEF Configure
<1>4. CASE XrayExits \/ Die \/ Reboot \/ ChangeNetwork
  BY <1>4 DEF XrayExits, Die, Reboot, ChangeNetwork
<1>5. CASE UNCHANGED vars
  BY <1>5 DEF vars
<1> QED
  BY <1>1, <1>2, <1>3, <1>4, <1>5 DEF Next

\* The state of the routes is well typed, whatever the networks and the faults.
THEOREM TypeCorrect == Spec => []TypeOK
<1>1. Init => TypeOK
  BY RoutesAssumption DEF Init, TypeOK
<1>2. TypeOK /\ HoldInv /\ [Next]_vars => TypeOK' /\ HoldInv'
  BY TypeNext, HoldNext
<1> QED
  BY <1>1, <1>2, HoldInit, PTL DEF Spec

\* A verified hold outlives every tunnel that is laid over it: what the module
\* comment of install_killswitch_routes promises, whatever fails.
THEOREM HoldStays == Spec => []HoldOutlivesTunnels
<1>1. Init => TypeOK
  BY RoutesAssumption DEF Init, TypeOK
<1>2. TypeOK /\ HoldInv /\ [Next]_vars => TypeOK' /\ HoldInv'
  BY TypeNext, HoldNext
<1>3. HoldInv => HoldOutlivesTunnels
  BY DEF HoldInv
<1> QED
  BY <1>1, <1>2, <1>3, HoldInit, PTL DEF Spec
=============================================================================
