------------------------- MODULE KillSwitchProofs -------------------------
(***************************************************************************)
(* The kill switch, proved for any requests: the promise outlives every    *)
(* crash in the record (Durable), is never silently given up (NotOpened),  *)
(* and holds on the wire while nothing but the service's own complete      *)
(* sequences changes the route table (Closed).                             *)
(*                                                                         *)
(* The invariant says where the promise is kept at each moment: in the     *)
(* requests the backend holds, in the arguments of the operation under     *)
(* way, in open()'s fallback, and in the record.                           *)
(***************************************************************************)
EXTENDS ServiceRuntimeProofs

\* Steps of connect() that work on a validated candidate, and those that can
\* still report the state that was there before.
CandidateSteps  == ConnectSteps \ {"validate", "release"}
RejectableSteps == {"validate", "persistHold", "installHold", "verifyHold", "undoHold"}

\* Which requests are there at which step.
Presence ==
  /\ pc \in {"idle", "down"} => request = None
  /\ pc = "idle" /\ phase = "Connected" => active # None
  /\ pc \in RejectableSteps \cup {"stopActive"} /\ saved = "Connected" => active # None
  /\ pc = "stopActive" => saved = "Connected"
  /\ pc \in {"release", "restoreRelease"} => active # None
  /\ pc \in {"clearRoutes", "clearFinish"} => active = None /\ previous = None
  /\ pc = "restoreVerify" => owner # None
  /\ pc \in RestoreSteps => saved = "Connected"
  /\ pc \in ConnectSteps \cup RestoreSteps => origin \in {"client", "boot"} /\ request # None
  /\ pc \in CandidateSteps => candidate = request

\* A record that is not of a switch names no previous connection; one of a
\* connect repeats the flag of its candidate; one of a connection has no flag.
RecordShape ==
  /\ disk.request # None => disk.state \in {"connecting", "connected"}
  /\ disk.state = "connected" => ~disk.keep
  /\ disk.state # "connecting" => disk.previous = None
  /\ disk.state = "connecting" => disk.keep = killswitch(disk.request)

\* The promise in the requests that a failure would go back to.
PromiseInRequests ==
  /\ active # None => killswitch(active)
  /\ previous # None => killswitch(previous)
  /\ pc = "restoreVerify" => killswitch(owner)
  /\ disk.state = "connecting" /\ disk.previous # None => killswitch(disk.previous)

\* The promise in the operation under way.
PromiseInOperation ==
  /\ pc \in CandidateSteps \ {"persistHold", "undoHold"} /\ saved # "Connected"
       => killswitch(request)
  /\ pc \in ClearSteps => keep
  /\ origin = "boot" => fallback
  /\ origin = "boot" /\ request # None => killswitch(request)
  /\ pc \in RejectableSteps /\ origin = "client" => saved # "Disconnected"

\* What becomes a promise when the operation succeeds.
PromiseToBe ==
  /\ origin = "boot" /\ killswitch(request) => fallback
  /\ pc \in ClearSteps /\ request # None => keep = killswitch(request)

IntentInv ==
  /\ TypeInv
  /\ Presence
  /\ RecordShape
  /\ PromiseToBe
  /\ armed => PromiseInRequests /\ PromiseInOperation
  /\ DurableIntent
  /\ NeverSilentlyOpen

\* Besides, the blackhole is in place from the hold on, and once promised.
HeldInv ==
  /\ pc # "undoHold"
  /\ pc \in CandidateSteps \ {"persistHold", "installHold"} /\ HoldRequired => routes = "full"
  /\ pc = "clearFinish" /\ keep => routes = "full"
  /\ armed => routes = "full"

-----------------------------------------------------------------------------
(* The invariant is inductive, as long as the record can be read. *)

LEMMA NoKillSwitch == ~killswitch(None)
BY RequestsAssumption DEF killswitch

LEMMA IntentInit == Init => IntentInv
<1> SUFFICES ASSUME Init PROVE IntentInv
  OBVIOUS
<1>1. TypeInv
  BY TypeInit
<1> QED
  BY <1>1, NoKillSwitch
  DEF Init, IntentInv, Presence, RecordShape, PromiseToBe, DurableIntent, NeverSilentlyOpen,
      CandidateSteps, RejectableSteps, ConnectSteps, RestoreSteps, ClearSteps, Absent, Plain

LEMMA IntentNext ==
  ASSUME "load" \notin Faults, IntentInv, [Next]_vars
  PROVE  IntentInv'
<1> USE KillSwitchType, NoKillSwitch
<1> USE DEF IntentInv, Presence, RecordShape, PromiseInRequests, PromiseInOperation,
  PromiseToBe, DurableIntent, NeverSilentlyOpen, CandidateSteps, RejectableSteps, ConnectSteps,
  RestoreSteps, ClearSteps, TypeInv, TypeOK, Record, MaybeRequest
<1>0. TypeInv'
  BY TypeNext
<1>1. ASSUME NEW r \in Requests, Connect(r) PROVE IntentInv'
  BY RequestsAssumption, <1>0, <1>1, SMTT(30) DEF Connect, BeginConnect, backend, process
<1>2. ASSUME NEW k \in BOOLEAN, Disconnect(k) PROVE IntentInv'
  BY <1>0, <1>2, SMTT(30) DEF Disconnect, BeginDisconnect, backend, process
<1>3. CASE Audit
  BY <1>0, <1>3, SMTT(30) DEF Audit, backend, process
<1>4. CASE ValidateOk
  BY <1>0, <1>4, SMTT(30) DEF ValidateOk, Goto, process
<1>5. CASE ValidateErr
  BY <1>0, <1>5, SMTT(30) DEF ValidateErr, backend, process, Throw, RetryRecovery, Settle
<1>6. CASE PersistHoldOk
  BY <1>0, <1>6, SMTT(30) DEF PersistHoldOk, Goto, backend, process, KeepBlockedOnFailure,
    Connecting
<1>7. CASE PersistHoldErr
  BY <1>0, <1>7, SMTT(30) DEF PersistHoldErr, backend, process, Throw, RetryRecovery, Settle
<1>8. CASE InstallHoldOk
  BY <1>0, <1>8, SMTT(30) DEF InstallHoldOk, Goto, backend, process
<1>9. CASE InstallHoldErr
  BY <1>0, <1>9, SMTT(30) DEF InstallHoldErr, backend, process, Throw, RetryRecovery, Settle
<1>10. CASE VerifyHoldOk
  BY <1>0, <1>10, SMTT(30) DEF VerifyHoldOk, Goto, backend, process
<1>11. CASE VerifyHoldErr
  BY <1>0, <1>11, SMTT(30) DEF VerifyHoldErr, Goto, backend, process
<1>12. CASE UndoHoldOk
  BY <1>0, <1>12, SMTT(30) DEF UndoHoldOk, backend, process, Throw, RetryRecovery, Settle
<1>13. CASE UndoHoldErr
  BY <1>0, <1>13, SMTT(30) DEF UndoHoldErr, backend, process, Throw, RetryRecovery, Settle
<1>14. CASE StopActiveOk
  BY <1>0, <1>14, SMTT(30) DEF StopActiveOk, StopActive, StopProcess, Goto
<1>15. CASE StopActiveErr
  BY <1>0, <1>15, SMTT(30) DEF StopActiveErr, StopActive, StopProcess, Throw, RetryRecovery,
    Settle
<1>16. CASE StartOk
  BY <1>0, <1>16, SMTT(30) DEF StartOk, Goto, backend
<1>17. CASE StartErr
  BY <1>0, <1>17, SMTT(30) DEF StartErr, Recover, Goto, backend, process
<1>18. CASE VerifyOk
  BY <1>0, <1>18, SMTT(30) DEF VerifyOk, Goto, backend
<1>19. CASE VerifyErr
  BY <1>0, <1>19, SMTT(30) DEF VerifyErr, Recover, Goto, backend, process
<1>20. CASE CommitOk
  BY <1>0, <1>20, SMTT(30) DEF CommitOk, Goto, process, KeepBlockedOnFailure, Connected, Plain
<1>21. CASE CommitErr
  BY <1>0, <1>21, SMTT(30) DEF CommitErr, Recover, Goto, backend, process
<1>22. CASE ReleaseOk
  BY <1>0, <1>22, SMTT(30) DEF ReleaseOk, Settle, backend, process
<1>23. CASE ReleaseErr
  BY <1>0, <1>23, SMTT(30) DEF ReleaseErr, backend, process, Throw, RetryRecovery, Settle
<1>24. CASE RestoreStopOk
  BY <1>0, <1>24, SMTT(30) DEF RestoreStopOk, RestoreStop, StopProcess, Goto, backend
<1>25. CASE RestoreStopErr
  BY <1>0, <1>25, SMTT(30) DEF RestoreStopErr, RestoreStop, StopProcess, backend, Throw,
    RetryRecovery, Settle
<1>26. CASE RestoreStartOk
  BY <1>0, <1>26, SMTT(30) DEF RestoreStartOk, Goto
<1>27. CASE RestoreStartErr
  BY <1>0, <1>27, SMTT(30) DEF RestoreStartErr, process, Throw, RetryRecovery, Settle
<1>28. CASE RestoreVerifyOk
  BY <1>0, <1>28, SMTT(30) DEF RestoreVerifyOk, Goto, KeepBlockedOnFailure, Connected, Plain
<1>29. CASE RestoreVerifyErr
  BY <1>0, <1>29, SMTT(30) DEF RestoreVerifyErr, backend, process, Throw, RetryRecovery, Settle
<1>30. CASE RestoreReleaseOk
  BY <1>0, <1>30, SMTT(30) DEF RestoreReleaseOk, backend, process, Throw, RetryRecovery, Settle
<1>31. CASE RestoreReleaseErr
  BY <1>0, <1>31, SMTT(30) DEF RestoreReleaseErr, backend, process, Throw, RetryRecovery, Settle
<1>32. CASE ClearPersistOk
  BY <1>0, <1>32, SMTT(30) DEF ClearPersistOk, Goto, backend, process, KeepBlockedOnFailure,
    Disconnecting, Plain
<1>33. CASE ClearPersistErr
  BY <1>0, <1>33, SMTT(30) DEF ClearPersistErr, backend, process, Throw, RetryRecovery, Settle
<1>34. CASE ClearStopOk
  BY <1>0, <1>34, SMTT(30) DEF ClearStopOk, StopProcess, Goto
<1>35. CASE ClearStopErr
  BY <1>0, <1>35, SMTT(30) DEF ClearStopErr, StopProcess, backend, Throw, RetryRecovery, Settle
<1>36. CASE ClearRoutesOk
  BY <1>0, <1>36, SMTT(30) DEF ClearRoutesOk, Goto, backend, process
<1>37. CASE ClearRoutesErr
  BY <1>0, <1>37, SMTT(30) DEF ClearRoutesErr, backend, process, Throw, RetryRecovery, Settle
<1>38. CASE ClearFinishOk
  BY <1>0, <1>38, SMTT(30) DEF ClearFinishOk, backend, process, KeepBlockedOnFailure, Blocked,
    Disconnected, Plain, Throw, RetryRecovery, Settle
<1>39. CASE ClearFinishErr
  BY <1>0, <1>39, SMTT(30) DEF ClearFinishErr, backend, process, Throw, RetryRecovery, Settle
<1>40. CASE XrayExits
  BY <1>0, <1>40, SMTT(30) DEF XrayExits, controller, backend
<1>41. CASE Crash
  BY <1>0, <1>41, SMTT(30) DEF Crash, StopProcess
<1>42. CASE Boot
  <2>1. Resume(disk) /\ pc = "down" /\ UNCHANGED <<backend, process, routes, disk, armed>>
    BY <1>42 DEF Boot
  <2>3. disk \in Record
    OBVIOUS
  <2>4. killswitch(RecoveryRequest(disk)) => KeepBlockedOnFailure(disk)
    BY <2>3 DEF RecoveryRequest, KeepBlockedOnFailure
  <2>5. CASE RecoveryRequest(disk) # None
    <3>1. armed => killswitch(RecoveryRequest(disk))
      BY <2>3, <2>5 DEF RecoveryRequest, KeepBlockedOnFailure
    <3> QED
      BY <1>0, <2>1, <2>4, <2>5, <3>1, SMTT(30)
      DEF Resume, BeginConnect, backend, process
  <2>6. CASE RecoveryRequest(disk) = None
    <3>1. armed => RecoveryKeepBlocked(disk)
      BY <2>3, <2>6 DEF RecoveryRequest, RecoveryKeepBlocked, KeepBlockedOnFailure
    <3> QED
      BY <1>0, <2>1, <2>6, <3>1, SMTT(30)
      DEF Resume, BeginDisconnect, backend, process
  <2> QED
    BY <2>5, <2>6
<1>43. CASE CleanupOk
  BY <1>0, <1>43, SMTT(30) DEF CleanupOk, Absent, Plain, controller, backend, process
<1>44. CASE CleanupErr
  BY <1>0, <1>44, SMTT(30) DEF CleanupErr, controller, backend, process
<1>45. CASE UNCHANGED vars
  BY <1>0, <1>45, SMTT(30) DEF vars, controller, backend, process
<1> QED
  BY <1>1, <1>2, <1>3, <1>4, <1>5, <1>6, <1>7, <1>8, <1>9, <1>10, <1>11, <1>12, <1>13, <1>14,
    <1>15, <1>16, <1>17, <1>18, <1>19, <1>20, <1>21, <1>22, <1>23, <1>24, <1>25, <1>26, <1>27,
    <1>28, <1>29, <1>30, <1>31, <1>32, <1>33, <1>34, <1>35, <1>36, <1>37, <1>38, <1>39, <1>40,
    <1>41, <1>42, <1>43, <1>44, <1>45 DEF Next, OperationStep, ConnectStep, RestoreStep, ClearStep

-----------------------------------------------------------------------------
(* The blackhole is in place, as long as nothing else changes the routes. *)

LEMMA HeldInit == Init => HeldInv
BY DEF Init, HeldInv, CandidateSteps, ConnectSteps

LEMMA HeldNext ==
  ASSUME {"load", "routes", "reboot"} \cap Faults = {}, IntentInv, IntentInv', HeldInv, [Next]_vars
  PROVE  HeldInv'
<1> USE KillSwitchType, NoKillSwitch
<1> USE DEF HeldInv, HoldRequired, CandidateSteps, ConnectSteps, RestoreSteps, ClearSteps
<1>1. ASSUME NEW r \in Requests, Connect(r) PROVE HeldInv'
  BY <1>1, SMTT(30) DEF Connect, BeginConnect, backend, process
<1>2. ASSUME NEW k \in BOOLEAN, Disconnect(k) PROVE HeldInv'
  BY <1>2, SMTT(30) DEF Disconnect, BeginDisconnect, backend, process
<1>3. CASE Audit
  BY <1>3, SMTT(30) DEF Audit, backend, process
<1>4. CASE ValidateOk
  BY <1>4, SMTT(30) DEF ValidateOk, Goto, process
<1>5. CASE ValidateErr
  BY <1>5, SMTT(30) DEF ValidateErr, backend, process, Throw, RetryRecovery, Settle
<1>6. CASE PersistHoldOk
  BY <1>6, SMTT(30) DEF PersistHoldOk, Goto, backend, process
<1>7. CASE PersistHoldErr
  BY <1>7, SMTT(30) DEF PersistHoldErr, backend, process, Throw, RetryRecovery, Settle
<1>8. CASE InstallHoldOk
  BY <1>8, SMTT(30) DEF InstallHoldOk, Goto, backend, process
<1>9. CASE InstallHoldErr
  BY <1>9, SMTT(30) DEF InstallHoldErr, backend, process, Throw, RetryRecovery, Settle
<1>10. CASE VerifyHoldOk
  BY <1>10, SMTT(30) DEF VerifyHoldOk, Goto, backend, process
<1>11. CASE VerifyHoldErr
  BY <1>11, SMTT(30) DEF VerifyHoldErr, Goto, backend, process
<1>12. CASE UndoHoldOk
  BY <1>12, SMTT(30) DEF UndoHoldOk, backend, process, Throw, RetryRecovery, Settle,
    ReleaseHoldOk, IntentInv, Presence, PromiseInRequests
<1>13. CASE UndoHoldErr
  BY <1>13, SMTT(30) DEF UndoHoldErr, backend, process, Throw, RetryRecovery, Settle,
    ReleaseHoldErr
<1>14. CASE StopActiveOk
  BY <1>14, SMTT(30) DEF StopActiveOk, StopActive, StopProcess, Goto
<1>15. CASE StopActiveErr
  BY <1>15, SMTT(30) DEF StopActiveErr, StopActive, StopProcess, Throw, RetryRecovery, Settle
<1>16. CASE StartOk
  BY <1>16, SMTT(30) DEF StartOk, Goto, backend
<1>17. CASE StartErr
  BY <1>17, SMTT(30) DEF StartErr, Recover, Goto, backend, process, IntentInv, Presence
<1>18. CASE VerifyOk
  BY <1>18, SMTT(30) DEF VerifyOk, Goto, backend
<1>19. CASE VerifyErr
  BY <1>19, SMTT(30) DEF VerifyErr, Recover, Goto, backend, process, IntentInv, Presence
<1>20. CASE CommitOk
  BY <1>20, SMTT(30) DEF CommitOk, Goto, process, IntentInv, Presence
<1>21. CASE CommitErr
  BY <1>21, SMTT(30) DEF CommitErr, Recover, Goto, backend, process, IntentInv, Presence
<1>22. CASE ReleaseOk
  BY <1>22, SMTT(30) DEF ReleaseOk, Settle, backend, process, ReleaseHoldOk, IntentInv,
    Presence, PromiseInRequests
<1>23. CASE ReleaseErr
  BY <1>23, SMTT(30) DEF ReleaseErr, backend, process, Throw, RetryRecovery, Settle,
    ReleaseHoldErr
<1>24. CASE RestoreStopOk
  BY <1>24, SMTT(30) DEF RestoreStopOk, RestoreStop, StopProcess, Goto, backend
<1>25. CASE RestoreStopErr
  BY <1>25, SMTT(30) DEF RestoreStopErr, RestoreStop, StopProcess, backend, Throw,
    RetryRecovery, Settle
<1>26. CASE RestoreStartOk
  BY <1>26, SMTT(30) DEF RestoreStartOk, Goto
<1>27. CASE RestoreStartErr
  BY <1>27, SMTT(30) DEF RestoreStartErr, process, Throw, RetryRecovery, Settle
<1>28. CASE RestoreVerifyOk
  BY <1>28, SMTT(30) DEF RestoreVerifyOk, Goto
<1>29. CASE RestoreVerifyErr
  BY <1>29, SMTT(30) DEF RestoreVerifyErr, backend, process, Throw, RetryRecovery, Settle
<1>30. CASE RestoreReleaseOk
  BY <1>30, SMTT(30) DEF RestoreReleaseOk, backend, process, Throw, RetryRecovery, Settle,
    ReleaseHoldOk, IntentInv, Presence, PromiseInRequests
<1>31. CASE RestoreReleaseErr
  BY <1>31, SMTT(30) DEF RestoreReleaseErr, backend, process, Throw, RetryRecovery, Settle,
    ReleaseHoldErr
<1>32. CASE ClearPersistOk
  BY <1>32, SMTT(30) DEF ClearPersistOk, Goto, backend, process
<1>33. CASE ClearPersistErr
  BY <1>33, SMTT(30) DEF ClearPersistErr, backend, process, Throw, RetryRecovery, Settle
<1>34. CASE ClearStopOk
  BY <1>34, SMTT(30) DEF ClearStopOk, StopProcess, Goto
<1>35. CASE ClearStopErr
  BY <1>35, SMTT(30) DEF ClearStopErr, StopProcess, backend, Throw, RetryRecovery, Settle
<1>36. CASE ClearRoutesOk
  BY <1>36, SMTT(30) DEF ClearRoutesOk, Goto, backend, process, IntentInv, PromiseInOperation
<1>37. CASE ClearRoutesErr
  BY <1>37, SMTT(30) DEF ClearRoutesErr, backend, process, Throw, RetryRecovery, Settle
<1>38. CASE ClearFinishOk
  BY <1>38, SMTT(30) DEF ClearFinishOk, backend, process, Throw, RetryRecovery, Settle
<1>39. CASE ClearFinishErr
  BY <1>39, SMTT(30) DEF ClearFinishErr, backend, process, Throw, RetryRecovery, Settle
<1>40. CASE XrayExits
  BY <1>40, SMTT(30) DEF XrayExits, controller, backend
<1>41. CASE Crash
  BY <1>41, SMTT(30) DEF Crash, StopProcess
<1>42. CASE Boot
  BY <1>42, SMTT(30) DEF Boot, Resume, BeginConnect, BeginDisconnect, backend, process
<1>43. CASE CleanupOk
  BY <1>43, SMTT(30) DEF CleanupOk, controller, backend, process
<1>44. CASE CleanupErr
  BY <1>44, SMTT(30) DEF CleanupErr, controller, backend, process
<1>45. CASE UNCHANGED vars
  BY <1>45, SMTT(30) DEF vars, controller, backend, process
<1> QED
  BY <1>1, <1>2, <1>3, <1>4, <1>5, <1>6, <1>7, <1>8, <1>9, <1>10, <1>11, <1>12, <1>13, <1>14,
    <1>15, <1>16, <1>17, <1>18, <1>19, <1>20, <1>21, <1>22, <1>23, <1>24, <1>25, <1>26, <1>27,
    <1>28, <1>29, <1>30, <1>31, <1>32, <1>33, <1>34, <1>35, <1>36, <1>37, <1>38, <1>39, <1>40,
    <1>41, <1>42, <1>43, <1>44, <1>45 DEF Next, OperationStep, ConnectStep, RestoreStep, ClearStep

-----------------------------------------------------------------------------
\* A promise of the kill switch can be read from the record at any moment:
\* a service killed there restarts closed, whatever else fails.
THEOREM Durable ==
  ASSUME "load" \notin Faults
  PROVE  Spec => []DurableIntent
<1>1. IntentInv /\ [Next]_vars => IntentInv'
  BY IntentNext
<1>2. IntentInv => DurableIntent
  BY DEF IntentInv
<1> QED
  BY <1>1, <1>2, IntentInit, PTL DEF Spec

\* No sequence of failures, crashes and recoveries ends in "Disconnected"
\* before the user lets go of the kill switch.
THEOREM NotOpened ==
  ASSUME "load" \notin Faults
  PROVE  Spec => []NeverSilentlyOpen
<1>1. IntentInv /\ [Next]_vars => IntentInv'
  BY IntentNext
<1>2. IntentInv => NeverSilentlyOpen
  BY DEF IntentInv
<1> QED
  BY <1>1, <1>2, IntentInit, PTL DEF Spec

\* Between any two backend calls, promised traffic is in the tunnel or in the
\* blackhole, whatever process, probe, health check or write fails.
THEOREM Closed ==
  ASSUME {"load", "routes", "reboot"} \cap Faults = {}
  PROVE  Spec => []FailClosed
<1>1. IntentInv /\ [Next]_vars => IntentInv'
  BY IntentNext
<1>2. IntentInv /\ IntentInv' /\ HeldInv /\ [Next]_vars => HeldInv'
  BY HeldNext
<1>3. HeldInv => FailClosed
  BY DEF HeldInv, FailClosed, Exposed
<1> QED
  BY <1>1, <1>2, <1>3, IntentInit, HeldInit, PTL DEF Spec

=============================================================================
