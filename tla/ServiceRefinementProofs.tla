----------------------- MODULE ServiceRefinementProofs -----------------------
(***************************************************************************)
(* ServiceRuntime implements ConnectionService, for any requests.  Every   *)
(* step of the service is a step of the promised service, or one that its  *)
(* clients cannot see.                                                     *)
(*                                                                         *)
(* The only assumption is that a process can be stopped.  A Disconnect     *)
(* that fails to stop it leaves active_request behind, and the next        *)
(* connect records that connection as the one to go back to: a tunnel that *)
(* was given up would come into force again.                               *)
(***************************************************************************)
EXTENDS SwitchProofs

\* The connection in memory is the one the record resumes, in phases that are not
\* "Connected" as well; an operation that clears has given up both.
TunnelInv ==
  /\ active # None /\ pc # "clearStop" => RecoveryRequest(disk) = active
  /\ pc = "restoreVerify" => RecoveryRequest(disk) = owner
  /\ pc \in {"clearStop", "clearRoutes", "clearFinish"} => RecoveryRequest(disk) = None
  /\ pc \in {"down", "clearRoutes", "clearFinish"} => active = None
  /\ pc \in ClearSteps /\ request # None => saved # "Connected" /\ keep = killswitch(request)

\* What clients see of a state: the status and the job of the refinement mapping.
Reported ==
  IF pc = "down" THEN "Down"
  ELSE IF pc = "idle" THEN phase
  ELSE IF ClientConnect THEN saved ELSE "Busy"

Work ==
  [kind   |-> IF pc \in {"idle", "down"} THEN "none"
              ELSE IF pc = "release" THEN "established"
              ELSE IF ClientConnect THEN "connect"
              ELSE IF origin \in {"client", "monitor"} THEN "clear" ELSE "recover",
   target |-> request,
   keep   |-> origin \in {"client", "monitor"} /\ request = None /\ keep]

LEMMA IdleWork ==
  ASSUME TypeInv, RequestInv, pc \in {"idle", "down"}
  PROVE  Work = Service!NoJob /\ Reported = IF pc = "down" THEN "Down" ELSE phase
BY DEF Work, Reported, RequestInv, Service!NoJob, Service!Job


\* Every step keeps memory and record together.
LEMMA TunnelNext ==
  ASSUME "stop" \notin Faults, SwitchInv, TunnelInv, [Next]_vars
  PROVE  TunnelInv'
<1> USE RequestsAssumption
<1> USE DEF ConnectSteps, RestoreSteps, ClearSteps, CandidateSteps, RejectableSteps, TunnelInv,
    SwitchInv, TypeInv, RequestInv, LiveInv, Live, SwitchIsUndoable
<1>1. ASSUME NEW r \in Requests, Connect(r) PROVE TunnelInv'
  BY <1>1 DEF Connect, BeginConnect, controller, backend, process
<1>2. ASSUME NEW k \in BOOLEAN, Disconnect(k) PROVE TunnelInv'
  BY <1>2 DEF Disconnect, BeginDisconnect, controller, backend, process
<1>3. CASE Audit
  BY <1>3 DEF Audit, controller, backend, process
<1>4. CASE ValidateOk
  BY <1>4 DEF ValidateOk, Goto, controller, backend, process
<1>5. CASE ValidateErr
  BY <1>5 DEF ValidateErr, Throw, RetryRecovery, Settle, controller, backend, process
<1>6. CASE PersistHoldOk
  BY <1>6, RecordSays DEF PersistHoldOk, Goto, controller, backend, process
<1>7. CASE PersistHoldErr
  BY <1>7 DEF PersistHoldErr, Throw, RetryRecovery, Settle, controller, backend, process
<1>8. CASE InstallHoldOk
  BY <1>8 DEF InstallHoldOk, Goto, controller, backend, process
<1>9. CASE InstallHoldErr
  BY <1>9 DEF InstallHoldErr, FailedInstall, Throw, RetryRecovery, Settle, controller, backend,
    process
<1>10. CASE VerifyHoldOk
  BY <1>10 DEF VerifyHoldOk, Goto, controller, backend, process
<1>11. CASE VerifyHoldErr
  BY <1>11 DEF VerifyHoldErr, Goto, controller, backend, process
<1>12. CASE UndoHoldOk
  BY <1>12 DEF UndoHoldOk, ReleaseHoldOk, Throw, RetryRecovery, Settle, controller, backend,
    process
<1>13. CASE UndoHoldErr
  BY <1>13 DEF UndoHoldErr, Throw, RetryRecovery, Settle, controller, backend, process
<1>14. CASE StopActiveOk
  BY <1>14 DEF StopActiveOk, StopActive, StopProcess, Goto, controller, backend, process
<1>15. CASE StopActiveErr
  BY <1>15 DEF StopActiveErr, StopActive, StopProcess, Throw, RetryRecovery, Settle, controller,
    backend, process
<1>16. CASE StartOk
  BY <1>16 DEF StartOk, Goto, controller, backend, process
<1>17. CASE StartErr
  BY <1>17 DEF StartErr, Recover, Goto, controller, backend, process
<1>18. CASE VerifyOk
  BY <1>18 DEF VerifyOk, Goto, controller, backend, process
<1>19. CASE VerifyErr
  BY <1>19 DEF VerifyErr, Recover, Goto, controller, backend, process
<1>20. CASE CommitOk
  BY <1>20, RecordSays DEF CommitOk, Goto, controller, backend, process
<1>21. CASE CommitErr
  BY <1>21 DEF CommitErr, Recover, Goto, controller, backend, process
<1>22. CASE ReleaseOk
  BY <1>22 DEF ReleaseOk, Settle, controller, backend, process
<1>23. CASE ReleaseErr
  BY <1>23 DEF ReleaseErr, Throw, RetryRecovery, Settle, controller, backend, process
<1>24. CASE RestoreStopOk
  BY <1>24 DEF RestoreStopOk, RestoreStop, StopProcess, Goto, controller, backend, process
<1>25. CASE RestoreStopErr
  BY <1>25 DEF RestoreStopErr, RestoreStop, StopProcess, Throw, RetryRecovery, Settle,
    controller, backend, process
<1>26. CASE RestoreStartOk
  BY <1>26 DEF RestoreStartOk, Goto, controller, backend, process
<1>27. CASE RestoreStartErr
  BY <1>27 DEF RestoreStartErr, Throw, RetryRecovery, Settle, controller, backend, process
<1>28. CASE RestoreVerifyOk
  BY <1>28, RecordSays DEF RestoreVerifyOk, Goto, controller, backend, process
<1>29. CASE RestoreVerifyErr
  BY <1>29 DEF RestoreVerifyErr, Throw, RetryRecovery, Settle, controller, backend, process
<1>30. CASE RestoreReleaseOk
  BY <1>30 DEF RestoreReleaseOk, Throw, RetryRecovery, Settle, controller, backend, process
<1>31. CASE RestoreReleaseErr
  BY <1>31 DEF RestoreReleaseErr, Throw, RetryRecovery, Settle, controller, backend, process
<1>32. CASE ClearPersistOk
  BY <1>32, RecordSays DEF ClearPersistOk, Goto, controller, backend, process
<1>33. CASE ClearPersistErr
  BY <1>33 DEF ClearPersistErr, Throw, RetryRecovery, Settle, controller, backend, process
<1>34. CASE ClearStopOk
  BY <1>34 DEF ClearStopOk, StopProcess, Goto, controller, backend, process
<1>35. CASE ClearStopErr
  BY <1>35 DEF ClearStopErr, StopProcess, Throw, RetryRecovery, Settle, controller, backend,
    process
<1>36. CASE ClearRoutesOk
  BY <1>36 DEF ClearRoutesOk, Goto, controller, backend, process
<1>37. CASE ClearRoutesErr
  BY <1>37 DEF ClearRoutesErr, Throw, RetryRecovery, Settle, controller, backend, process
<1>38. CASE ClearFinishOk
  BY <1>38, RecordSays DEF ClearFinishOk, Throw, RetryRecovery, Settle, controller, backend,
    process
<1>39. CASE ClearFinishErr
  BY <1>39 DEF ClearFinishErr, Throw, RetryRecovery, Settle, controller, backend, process
<1>40. CASE XrayExits
  BY <1>40 DEF XrayExits, controller, backend, process
<1>41. CASE Crash
  BY <1>41 DEF Crash, StopProcess, controller, backend, process
<1>42. CASE Boot
  BY <1>42, RecordSays DEF Boot, Resume, BeginConnect, BeginDisconnect, controller, backend,
    process
<1>43. CASE CleanupOk
  BY <1>43, RecordSays DEF CleanupOk, controller, backend, process
<1>44. CASE CleanupErr
  BY <1>44 DEF CleanupErr, FailedRemove, controller, backend, process
<1>45. CASE UNCHANGED vars
  BY <1>45 DEF vars, controller, backend, process
<1> QED
  BY <1>1, <1>2, <1>3, <1>4, <1>5, <1>6, <1>7, <1>8, <1>9, <1>10, <1>11, <1>12, <1>13, <1>14,
    <1>15, <1>16, <1>17, <1>18, <1>19, <1>20, <1>21, <1>22, <1>23, <1>24, <1>25, <1>26, <1>27,
    <1>28, <1>29, <1>30, <1>31, <1>32, <1>33, <1>34, <1>35, <1>36, <1>37, <1>38, <1>39, <1>40,
    <1>41, <1>42, <1>43, <1>44, <1>45 DEF Next, OperationStep, ConnectStep, RestoreStep,
    ClearStep

\* Every step is a step of the promised service, or changes nothing it
\* promises.
LEMMA StepRefines ==
  ASSUME "stop" \notin Faults, SwitchInv, TunnelInv, [Next]_vars
  PROVE  Service!Next \/ UNCHANGED Service!vars
<1> USE RequestsAssumption
<1> USE DEF ConnectSteps, RestoreSteps, ClearSteps, CandidateSteps, RejectableSteps, TunnelInv,
    SwitchInv, TypeInv, RequestInv, LiveInv, Live, SwitchIsUndoable, ClientConnect, Steps,
    Service!Next, Service!vars
<1>1. ASSUME NEW r \in Requests, Connect(r) PROVE Service!Next \/ UNCHANGED Service!vars
  <2>1. Work = Service!NoJob /\ Reported = phase
    BY <1>1, IdleWork DEF Connect, SwitchInv
  <2>2. Work' = Service!Job("connect", r, FALSE) /\ Reported' = phase
    BY <1>1 DEF Connect, BeginConnect, Work, Reported, Service!Job
  <2>3. Service!Connect(r)
    BY <1>1, <2>1, <2>2 DEF Connect, Service!Connect, Service!Listening, Settled, Work, Reported
  <2> QED
    BY <2>3
<1>2. ASSUME NEW k \in BOOLEAN, Disconnect(k) PROVE Service!Next \/ UNCHANGED Service!vars
  <2>1. Work = Service!NoJob /\ Reported = phase
    BY <1>2, IdleWork DEF Disconnect, SwitchInv
  <2>2. Work' = Service!Job("clear", None, k) /\ Reported' = "Busy"
    BY <1>2 DEF Disconnect, BeginDisconnect, Work, Reported, Service!Job
  <2>3. Service!Disconnect(k)
    BY <1>2, <2>1, <2>2
    DEF Disconnect, Service!Disconnect, Service!Listening, Settled, Work, Reported
  <2> QED
    BY <2>3
<1>3. CASE Audit
  <2>1. Work = Service!NoJob /\ Reported = "Connected"
    BY <1>3, IdleWork DEF Audit, SwitchInv
  <2>2. RecoveryRequest(disk) = active /\ request' = None
    BY <1>3 DEF Audit
  <2>3. /\ keep' = (RecoveryRequest(disk) \in KillSwitchRequests) /\ keep' \in BOOLEAN
        /\ pc' = "clearPersist" /\ origin' = "monitor"
    BY <1>3, <2>2 DEF Audit, killswitch
  <2>5. Work' = Service!Job("clear", None, keep') /\ Reported' = "Busy"
    BY <2>2, <2>3 DEF Work, Reported, Service!Job
  <2>4. Service!Lose
    BY <1>3, <2>1, <2>3, <2>5 DEF Audit, Service!Lose, Service!Listening, Work, Reported
  <2> QED
    BY <2>4
<1>4. CASE ValidateOk
  BY <1>4 DEF ValidateOk, Goto, controller, backend, process, Service!Job, Service!NoJob,
    Service!Listening, Service!Switching, Service!End
<1>5. CASE ValidateErr
  BY <1>5 DEF ValidateErr, Throw, RetryRecovery, Settle, controller, backend, process,
    Service!Reject, Service!Break, Service!GiveUpRecovery, Service!Settle, Service!Fall,
    Service!Clear, Service!End, Service!Closed, Service!Switching, Service!Job, Service!NoJob,
    Service!Listening
<1>6. CASE PersistHoldOk
  BY <1>6, RecordSays DEF PersistHoldOk, Goto, controller, backend, process, Service!Drop,
    Service!Job, Service!NoJob, Service!Listening, Service!Switching, Service!End
<1>7. CASE PersistHoldErr
  BY <1>7 DEF PersistHoldErr, Throw, RetryRecovery, Settle, controller, backend, process,
    Service!Reject, Service!Break, Service!GiveUpRecovery, Service!Settle, Service!Fall,
    Service!Clear, Service!End, Service!Closed, Service!Switching, Service!Job, Service!NoJob,
    Service!Listening
<1>8. CASE InstallHoldOk
  BY <1>8 DEF InstallHoldOk, Goto, controller, backend, process, Service!Job, Service!NoJob,
    Service!Listening, Service!Switching, Service!End
<1>9. CASE InstallHoldErr
  BY <1>9 DEF InstallHoldErr, FailedInstall, Throw, RetryRecovery, Settle, controller, backend,
    process, Service!Reject, Service!Break, Service!GiveUpRecovery, Service!Settle,
    Service!Fall, Service!Clear, Service!End, Service!Closed, Service!Switching, Service!Job,
    Service!NoJob, Service!Listening
<1>10. CASE VerifyHoldOk
  BY <1>10 DEF VerifyHoldOk, Goto, controller, backend, process, Service!Job, Service!NoJob,
    Service!Listening, Service!Switching, Service!End
<1>11. CASE VerifyHoldErr
  BY <1>11 DEF VerifyHoldErr, Goto, controller, backend, process, Service!Job, Service!NoJob,
    Service!Listening, Service!Switching, Service!End
<1>12. CASE UndoHoldOk
  BY <1>12 DEF UndoHoldOk, ReleaseHoldOk, Throw, RetryRecovery, Settle, controller, backend,
    process, Service!Reject, Service!Break, Service!GiveUpRecovery, Service!Settle,
    Service!Fall, Service!Clear, Service!End, Service!Closed, Service!Switching, Service!Job,
    Service!NoJob, Service!Listening
<1>13. CASE UndoHoldErr
  BY <1>13 DEF UndoHoldErr, Throw, RetryRecovery, Settle, controller, backend, process,
    Service!Reject, Service!Break, Service!GiveUpRecovery, Service!Settle, Service!Fall,
    Service!Clear, Service!End, Service!Closed, Service!Switching, Service!Job, Service!NoJob,
    Service!Listening
<1>14. CASE StopActiveOk
  BY <1>14 DEF StopActiveOk, StopActive, StopProcess, Goto, controller, backend, process,
    Service!Job, Service!NoJob, Service!Listening, Service!Switching, Service!End
<1>15. CASE StopActiveErr
  BY <1>15 DEF StopActiveErr, StopActive, StopProcess, Throw, RetryRecovery, Settle, controller,
    backend, process, Service!Reject, Service!Break, Service!GiveUpRecovery, Service!Settle,
    Service!Fall, Service!Clear, Service!End, Service!Closed, Service!Switching, Service!Job,
    Service!NoJob, Service!Listening
<1>16. CASE StartOk
  BY <1>16 DEF StartOk, Goto, controller, backend, process, Service!Job, Service!NoJob,
    Service!Listening, Service!Switching, Service!End
<1>17. CASE StartErr
  BY <1>17 DEF StartErr, Recover, Goto, controller, backend, process, Service!Job,
    Service!NoJob, Service!Listening, Service!Switching, Service!End
<1>18. CASE VerifyOk
  BY <1>18 DEF VerifyOk, Goto, controller, backend, process, Service!Job, Service!NoJob,
    Service!Listening, Service!Switching, Service!End
<1>19. CASE VerifyErr
  BY <1>19 DEF VerifyErr, Recover, Goto, controller, backend, process, Service!Job,
    Service!NoJob, Service!Listening, Service!Switching, Service!End
<1>20. CASE CommitOk
  BY <1>20, RecordSays DEF CommitOk, Goto, controller, backend, process, Service!Establish,
    Service!Job, Service!NoJob, Service!Listening, Service!Switching, Service!End
<1>21. CASE CommitErr
  BY <1>21 DEF CommitErr, Recover, Goto, controller, backend, process, Service!Job,
    Service!NoJob, Service!Listening, Service!Switching, Service!End
<1>22. CASE ReleaseOk
  BY <1>22 DEF ReleaseOk, Settle, controller, backend, process, Service!Succeed, Service!Job,
    Service!NoJob, Service!Listening, Service!Switching, Service!End
<1>23. CASE ReleaseErr
  BY <1>23 DEF ReleaseErr, Throw, RetryRecovery, Settle, controller, backend, process,
    Service!Reject, Service!Break, Service!GiveUpRecovery, Service!Settle, Service!Fall,
    Service!Clear, Service!End, Service!Closed, Service!Switching, Service!Job, Service!NoJob,
    Service!Listening
<1>24. CASE RestoreStopOk
  BY <1>24 DEF RestoreStopOk, RestoreStop, StopProcess, Goto, controller, backend, process,
    Service!Job, Service!NoJob, Service!Listening, Service!Switching, Service!End
<1>25. CASE RestoreStopErr
  BY <1>25 DEF RestoreStopErr, RestoreStop, StopProcess, Throw, RetryRecovery, Settle,
    controller, backend, process, Service!Reject, Service!Break, Service!GiveUpRecovery,
    Service!Settle, Service!Fall, Service!Clear, Service!End, Service!Closed, Service!Switching,
    Service!Job, Service!NoJob, Service!Listening
<1>26. CASE RestoreStartOk
  BY <1>26 DEF RestoreStartOk, Goto, controller, backend, process, Service!Job, Service!NoJob,
    Service!Listening, Service!Switching, Service!End
<1>27. CASE RestoreStartErr
  BY <1>27 DEF RestoreStartErr, Throw, RetryRecovery, Settle, controller, backend, process,
    Service!Reject, Service!Break, Service!GiveUpRecovery, Service!Settle, Service!Fall,
    Service!Clear, Service!End, Service!Closed, Service!Switching, Service!Job, Service!NoJob,
    Service!Listening
<1>28. CASE RestoreVerifyOk
  BY <1>28, RecordSays DEF RestoreVerifyOk, Goto, controller, backend, process, Service!Job,
    Service!NoJob, Service!Listening, Service!Switching, Service!End
<1>29. CASE RestoreVerifyErr
  BY <1>29 DEF RestoreVerifyErr, Throw, RetryRecovery, Settle, controller, backend, process,
    Service!Reject, Service!Break, Service!GiveUpRecovery, Service!Settle, Service!Fall,
    Service!Clear, Service!End, Service!Closed, Service!Switching, Service!Job, Service!NoJob,
    Service!Listening
<1>30. CASE RestoreReleaseOk
  BY <1>30 DEF RestoreReleaseOk, Throw, RetryRecovery, Settle, controller, backend, process,
    Service!Reject, Service!Break, Service!GiveUpRecovery, Service!Settle, Service!Fall,
    Service!Clear, Service!End, Service!Closed, Service!Switching, Service!Job, Service!NoJob,
    Service!Listening
<1>31. CASE RestoreReleaseErr
  BY <1>31 DEF RestoreReleaseErr, Throw, RetryRecovery, Settle, controller, backend, process,
    Service!Reject, Service!Break, Service!GiveUpRecovery, Service!Settle, Service!Fall,
    Service!Clear, Service!End, Service!Closed, Service!Switching, Service!Job, Service!NoJob,
    Service!Listening
<1>32. CASE ClearPersistOk
  BY <1>32, RecordSays DEF ClearPersistOk, Goto, controller, backend, process, Service!Drop,
    Service!Job, Service!NoJob, Service!Listening, Service!Switching, Service!End
<1>33. CASE ClearPersistErr
  BY <1>33 DEF ClearPersistErr, Throw, RetryRecovery, Settle, controller, backend, process,
    Service!Reject, Service!Break, Service!GiveUpRecovery, Service!Settle, Service!Fall,
    Service!Clear, Service!End, Service!Closed, Service!Switching, Service!Job, Service!NoJob,
    Service!Listening
<1>34. CASE ClearStopOk
  BY <1>34 DEF ClearStopOk, StopProcess, Goto, controller, backend, process, Service!Job,
    Service!NoJob, Service!Listening, Service!Switching, Service!End
<1>35. CASE ClearStopErr
  BY <1>35 DEF ClearStopErr, StopProcess, Throw, RetryRecovery, Settle, controller, backend,
    process, Service!Reject, Service!Break, Service!GiveUpRecovery, Service!Settle,
    Service!Fall, Service!Clear, Service!End, Service!Closed, Service!Switching, Service!Job,
    Service!NoJob, Service!Listening
<1>36. CASE ClearRoutesOk
  BY <1>36 DEF ClearRoutesOk, Goto, controller, backend, process, Service!Job, Service!NoJob,
    Service!Listening, Service!Switching, Service!End
<1>37. CASE ClearRoutesErr
  BY <1>37 DEF ClearRoutesErr, Throw, RetryRecovery, Settle, controller, backend, process,
    Service!Reject, Service!Break, Service!GiveUpRecovery, Service!Settle, Service!Fall,
    Service!Clear, Service!End, Service!Closed, Service!Switching, Service!Job, Service!NoJob,
    Service!Listening
<1>38. CASE ClearFinishOk
  <2>1. RecoveryRequest(disk) = None /\ RecoveryRequest(disk') = None
    BY <1>38, RecordSays DEF ClearFinishOk
  <2>2. CASE request = None
    <3>1. Work' = Service!NoJob /\ Reported' = IF keep THEN "Blocked" ELSE "Disconnected"
      BY <1>38, <2>2 DEF ClearFinishOk, Settle, Work, Reported, Service!NoJob, Service!Job
    <3>2. CASE origin \in {"client", "monitor"}
      <4>1. Work = Service!Job("clear", None, keep)
        BY <1>38, <2>2, <3>2 DEF ClearFinishOk, Work, Service!Job, TypeOK
      <4>2. Service!Clear
        BY <2>1, <3>1, <4>1
        DEF Service!Clear, Service!End, Service!Closed, Service!Job, Work, Reported
      <4> QED
        BY <4>2
    <3>3. CASE origin \notin {"client", "monitor"}
      <4>1. Work.kind = "recover"
        BY <1>38, <2>2, <3>3 DEF ClearFinishOk, Work
      <4>2. Service!Settle
        BY <2>1, <3>1, <4>1 DEF Service!Settle, Service!End, Work, Reported
      <4> QED
        BY <4>2
    <3> QED
      BY <3>2, <3>3
  <2>3. CASE request # None /\ origin = "client"
    <3>1. Work' = Service!NoJob /\ Reported' = IF keep THEN "Blocked" ELSE "Disconnected"
      BY <1>38, <2>3 DEF ClearFinishOk, Throw, Settle, Work, Reported, Service!NoJob, Service!Job
    <3>2. /\ Work = Service!Job("connect", request, FALSE)
          /\ Reported # "Connected" /\ keep = (request \in KillSwitchRequests)
      BY <1>38, <2>3 DEF ClearFinishOk, Work, Reported, Service!Job, killswitch
    <3>3. Service!Fall
      BY <2>1, <3>1, <3>2
      DEF Service!Fall, Service!Switching, Service!End, Service!Closed, Service!Job, Work,
          Reported
    <3> QED
      BY <3>3
  <2>4. CASE request # None /\ origin # "client"
    <3>1. Throw(IF keep THEN "Blocked" ELSE "Disconnected")
      BY <1>38, <2>4 DEF ClearFinishOk
    <3>2. CASE origin = "boot"
      <4>1. Work' = Service!Job("recover", None, FALSE) /\ Reported' = "Busy"
        BY <1>38, <3>1, <3>2 DEF Throw, RetryRecovery, Work, Reported, Service!Job
      <4>2. Reported = "Busy" /\ Work.kind = "recover"
        BY <1>38, <3>2 DEF ClearFinishOk, Work, Reported
      <4>3. Service!GiveUpRecovery
        BY <2>1, <4>1, <4>2 DEF Service!GiveUpRecovery, Work, Reported
      <4> QED
        BY <4>3
    <3> QED
      BY <2>4, <3>1, <3>2 DEF Throw
  <2> QED
    BY <2>2, <2>3, <2>4
<1>39. CASE ClearFinishErr
  BY <1>39 DEF ClearFinishErr, Throw, RetryRecovery, Settle, controller, backend, process,
    Service!Reject, Service!Break, Service!GiveUpRecovery, Service!Settle, Service!Fall,
    Service!Clear, Service!End, Service!Closed, Service!Switching, Service!Job, Service!NoJob,
    Service!Listening
<1>40. CASE XrayExits
  BY <1>40 DEF XrayExits, controller, backend, process, Service!Job, Service!NoJob,
    Service!Listening, Service!Switching, Service!End
<1>41. CASE Crash
  <2>1. Work' = Service!NoJob /\ Reported' = "Down"
    BY <1>41 DEF Crash, Work, Reported, Service!NoJob, Service!Job
  <2>2. Reported # "Down"
    BY <1>41 DEF Crash, Reported, TypeOK, Settled
  <2>3. Service!Crash
    BY <1>41, <2>1, <2>2 DEF Crash, Service!Crash, Work, Reported
  <2> QED
    BY <2>3
<1>42. CASE Boot
  <2>1. /\ request' \in {RecoveryRequest(disk), None} /\ origin' = "boot"
        /\ pc' \in {"validate", "clearPersist"} /\ disk' = disk
    BY <1>42, RecordSays DEF Boot, Resume, BeginConnect, BeginDisconnect
  <2>2. Work' = Service!Job("recover", request', FALSE) /\ Reported' = "Busy"
    BY <2>1 DEF Work, Reported, Service!Job
  <2>3. Reported = "Down"
    BY <1>42 DEF Boot, Reported
  <2>4. Service!Recover
    BY <2>1, <2>2, <2>3 DEF Service!Recover, Work, Reported
  <2> QED
    BY <2>4
<1>43. CASE CleanupOk
  BY <1>43, RecordSays DEF CleanupOk, controller, backend, process, Service!Uninstall,
    Service!Job, Service!NoJob, Service!Listening, Service!Switching, Service!End
<1>44. CASE CleanupErr
  BY <1>44 DEF CleanupErr, FailedRemove, controller, backend, process, Service!Job,
    Service!NoJob, Service!Listening, Service!Switching, Service!End
<1>45. CASE UNCHANGED vars
  BY <1>45 DEF vars, controller, backend, process, Service!Job, Service!NoJob,
    Service!Listening, Service!Switching, Service!End
<1> QED
  BY <1>1, <1>2, <1>3, <1>4, <1>5, <1>6, <1>7, <1>8, <1>9, <1>10, <1>11, <1>12, <1>13, <1>14,
    <1>15, <1>16, <1>17, <1>18, <1>19, <1>20, <1>21, <1>22, <1>23, <1>24, <1>25, <1>26, <1>27,
    <1>28, <1>29, <1>30, <1>31, <1>32, <1>33, <1>34, <1>35, <1>36, <1>37, <1>38, <1>39, <1>40,
    <1>41, <1>42, <1>43, <1>44, <1>45 DEF Next, OperationStep, ConnectStep, RestoreStep,
    ClearStep

-----------------------------------------------------------------------------
(* What follows for every behaviour. *)

LEMMA TunnelInit == Init => TunnelInv
BY RecordSays DEF Init, TunnelInv, ClearSteps

LEMMA StartRefines == Init => Service!Init
BY RecordSays DEF Init, Service!Init, Service!NoJob, Service!Job

\* Whatever its clients, its process and its route table do, and wherever it is
\* killed, the service keeps ConnectionService's promises: a switch never ends
\* without a tunnel unless it says so, a tunnel comes into force only because it
\* was asked for, and a failure ends blocked exactly when its kill switch asks.
THEOREM Implements ==
  ASSUME "stop" \notin Faults
  PROVE  Spec => ImplementsService
<1>1. SwitchInv /\ TunnelInv /\ [Next]_vars => TunnelInv'
  BY TunnelNext
<1>2. SwitchInv /\ TunnelInv /\ [Next]_vars => [Service!Next]_(Service!vars)
  BY StepRefines
<1> QED
  BY <1>1, <1>2, TunnelInit, StartRefines, SwitchInvariant, PTL
  DEF Spec, ImplementsService, Service!Spec

=============================================================================
