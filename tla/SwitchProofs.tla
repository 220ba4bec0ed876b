---------------------------- MODULE SwitchProofs ----------------------------
(***************************************************************************)
(* Proofs about ServiceRuntime's connections, for any requests: what a     *)
(* switch can be undone to, what a restarted service would bring back, and *)
(* what is left on the host of a connection that is gone.                  *)
(*                                                                         *)
(* The connection reported as "Connected" has to be the one in memory, the *)
(* one in the record and the one the process was started for.  connect()   *)
(* takes the three apart one call at a time; the invariant says which of   *)
(* them still agree at each of its steps, so that whichever way it ends,   *)
(* they agree again.  None of it depends on which steps may fail.          *)
(***************************************************************************)
EXTENDS ServiceRuntimeProofs

\* Steps of connect() that work on a validated candidate, and those that can
\* still report the state that was there before.
CandidateSteps  == ConnectSteps \ {"validate", "release"}
RejectableSteps == {"validate", "persistHold", "installHold", "verifyHold", "undoHold"}

\* Whose operation it is, and which request it is about.
RequestInv ==
  /\ pc \in {"idle", "down"} => request = None /\ origin = "none"
  /\ origin \in {"monitor", "retry"} => request = None
  /\ pc \in ConnectSteps \cup RestoreSteps => request # None
  /\ pc \in CandidateSteps => candidate = request
  /\ pc \in {"verify", "commit"} => owner = request
  /\ pc = "restoreVerify" => owner # None
  /\ pc = "stopActive" => saved = "Connected"
  /\ pc \in RestoreSteps => saved = "Connected"
  /\ saved = "Connected" => origin = "client"

\* The connection in memory is in the record, and its process was started.
Live ==
  active # None /\ owner = active /\ xray # "none" /\ RecoveryRequest(disk) = active

\* Where a connection is live: until a switch stops it, and from its commit on.
LiveInv ==
  /\ pc = "idle" /\ phase = "Connected" => Live
  /\ pc \in RejectableSteps \cup {"stopActive"} /\ saved = "Connected" => Live
  /\ pc \in {"release", "restoreRelease"} => Live

SwitchInv ==
  /\ TypeInv /\ RequestInv /\ LiveInv
  /\ SwitchIsUndoable

\* From the hold to the commit the record is the one persist_hold wrote, and the
\* routes are there if either connection in it asks for them.
HoldInv ==
  /\ pc \in {"installHold", "verifyHold"}
       => disk = Connecting(candidate, active, killswitch(candidate))
  /\ SwitchIsCovered

\* Nothing is left of a connection once its operation has cleared it; a service
\* that reports "Disconnected" has nothing to give up before it holds.
OpenInv ==
  /\ DisconnectedIsOpen
  /\ pc = "down" => xray = "none" /\ active = None
  /\ pc \in RejectableSteps /\ saved = "Disconnected" => xray = "none" /\ active = None
  /\ pc \in {"validate", "persistHold", "installHold"} /\ saved = "Disconnected"
       /\ origin = "client" => routes = "none"
  /\ pc \in {"clearRoutes", "clearFinish"} => xray = "none" /\ active = None
  /\ pc = "clearFinish" /\ ~keep => routes = "none"

-----------------------------------------------------------------------------
(* What the records say. *)

LEMMA NoKillSwitch == ~killswitch(None)
BY RequestsAssumption DEF killswitch

LEMMA RecordSays ==
  /\ \A c, p, k : /\ RecoveryRequest(Connecting(c, p, k)) = p
                  /\ Connecting(c, p, k).state = "connecting"
                  /\ Connecting(c, p, k).request = c
                  /\ Connecting(c, p, k).previous = p
                  /\ Connecting(c, p, k).keep = k
  /\ \A r : RecoveryRequest(Connected(r)) = r
  /\ \A k : RecoveryRequest(Disconnecting(k)) = None
  /\ RecoveryRequest(Blocked) = None
  /\ RecoveryRequest(Disconnected) = None
  /\ RecoveryRequest(Absent) = None
BY DEF RecoveryRequest, Connecting, Connected, Disconnecting, Blocked, Disconnected, Absent, Plain

\* Every step knows the request it goes on with.
LEMMA RequestNext ==
  ASSUME TypeInv, RequestInv, [Next]_vars
  PROVE  RequestInv'
<1> USE RequestsAssumption
<1> USE DEF ConnectSteps, RestoreSteps, ClearSteps, CandidateSteps, RejectableSteps, RequestInv
<1>1. ASSUME NEW r \in Requests, Connect(r) PROVE RequestInv'
  BY <1>1 DEF Connect, BeginConnect, controller, backend, process
<1>2. ASSUME NEW k \in BOOLEAN, Disconnect(k) PROVE RequestInv'
  BY <1>2 DEF Disconnect, BeginDisconnect, controller, backend, process
<1>3. CASE Audit
  BY <1>3 DEF Audit, controller, backend, process
<1>4. CASE ValidateOk
  BY <1>4 DEF ValidateOk, Goto, controller, backend, process
<1>5. CASE ValidateErr
  BY <1>5 DEF ValidateErr, Throw, RetryRecovery, Settle, controller, backend, process
<1>6. CASE PersistHoldOk
  BY <1>6 DEF PersistHoldOk, Goto, controller, backend, process
<1>7. CASE PersistHoldErr
  BY <1>7 DEF PersistHoldErr, Throw, RetryRecovery, Settle, controller, backend, process
<1>8. CASE InstallHoldOk
  BY <1>8 DEF InstallHoldOk, Goto, controller, backend, process
<1>9. CASE InstallHoldErr
  BY <1>9 DEF InstallHoldErr, FailedInstall, Throw, RetryRecovery, Settle, controller, backend,
    process
<1>10. CASE VerifyHoldOk
  BY <1>10 DEF VerifyHoldOk, Goto, controller, backend, process
<1>11. CASE VerifyHoldErr
  BY <1>11 DEF VerifyHoldErr, Goto, controller, backend, process
<1>12. CASE UndoHoldOk
  BY <1>12 DEF UndoHoldOk, ReleaseHoldOk, Throw, RetryRecovery, Settle, controller, backend,
    process
<1>13. CASE UndoHoldErr
  BY <1>13 DEF UndoHoldErr, Throw, RetryRecovery, Settle, controller, backend, process
<1>14. CASE StopActiveOk
  BY <1>14 DEF StopActiveOk, StopActive, StopProcess, Goto, controller, backend, process
<1>15. CASE StopActiveErr
  BY <1>15 DEF StopActiveErr, StopActive, StopProcess, Throw, RetryRecovery, Settle, controller,
    backend, process
<1>16. CASE StartOk
  BY <1>16 DEF StartOk, Goto, controller, backend, process
<1>17. CASE StartErr
  BY <1>17 DEF StartErr, Recover, Goto, controller, backend, process
<1>18. CASE VerifyOk
  BY <1>18 DEF VerifyOk, Goto, controller, backend, process
<1>19. CASE VerifyErr
  BY <1>19 DEF VerifyErr, Recover, Goto, controller, backend, process
<1>20. CASE CommitOk
  BY <1>20 DEF CommitOk, Goto, controller, backend, process
<1>21. CASE CommitErr
  BY <1>21 DEF CommitErr, Recover, Goto, controller, backend, process
<1>22. CASE ReleaseOk
  BY <1>22 DEF ReleaseOk, Settle, controller, backend, process
<1>23. CASE ReleaseErr
  BY <1>23 DEF ReleaseErr, Throw, RetryRecovery, Settle, controller, backend, process
<1>24. CASE RestoreStopOk
  BY <1>24 DEF RestoreStopOk, RestoreStop, StopProcess, Goto, controller, backend, process
<1>25. CASE RestoreStopErr
  BY <1>25 DEF RestoreStopErr, RestoreStop, StopProcess, Throw, RetryRecovery, Settle,
    controller, backend, process
<1>26. CASE RestoreStartOk
  BY <1>26 DEF RestoreStartOk, Goto, controller, backend, process
<1>27. CASE RestoreStartErr
  BY <1>27 DEF RestoreStartErr, Throw, RetryRecovery, Settle, controller, backend, process
<1>28. CASE RestoreVerifyOk
  BY <1>28 DEF RestoreVerifyOk, Goto, controller, backend, process
<1>29. CASE RestoreVerifyErr
  BY <1>29 DEF RestoreVerifyErr, Throw, RetryRecovery, Settle, controller, backend, process
<1>30. CASE RestoreReleaseOk
  BY <1>30 DEF RestoreReleaseOk, Throw, RetryRecovery, Settle, controller, backend, process
<1>31. CASE RestoreReleaseErr
  BY <1>31 DEF RestoreReleaseErr, Throw, RetryRecovery, Settle, controller, backend, process
<1>32. CASE ClearPersistOk
  BY <1>32 DEF ClearPersistOk, Goto, controller, backend, process
<1>33. CASE ClearPersistErr
  BY <1>33 DEF ClearPersistErr, Throw, RetryRecovery, Settle, controller, backend, process
<1>34. CASE ClearStopOk
  BY <1>34 DEF ClearStopOk, StopProcess, Goto, controller, backend, process
<1>35. CASE ClearStopErr
  BY <1>35 DEF ClearStopErr, StopProcess, Throw, RetryRecovery, Settle, controller, backend,
    process
<1>36. CASE ClearRoutesOk
  BY <1>36 DEF ClearRoutesOk, Goto, controller, backend, process
<1>37. CASE ClearRoutesErr
  BY <1>37 DEF ClearRoutesErr, Throw, RetryRecovery, Settle, controller, backend, process
<1>38. CASE ClearFinishOk
  BY <1>38 DEF ClearFinishOk, Throw, RetryRecovery, Settle, controller, backend, process
<1>39. CASE ClearFinishErr
  BY <1>39 DEF ClearFinishErr, Throw, RetryRecovery, Settle, controller, backend, process
<1>40. CASE XrayExits
  BY <1>40 DEF XrayExits, controller, backend, process
<1>41. CASE Crash
  BY <1>41 DEF Crash, StopProcess, controller, backend, process
<1>42. CASE Boot
  BY <1>42 DEF Boot, Resume, BeginConnect, BeginDisconnect, controller, backend, process,
    TypeInv
<1>43. CASE CleanupOk
  BY <1>43 DEF CleanupOk, controller, backend, process
<1>44. CASE CleanupErr
  BY <1>44 DEF CleanupErr, FailedRemove, controller, backend, process
<1>45. CASE UNCHANGED vars
  BY <1>45 DEF vars, controller, backend, process
<1> QED
  BY <1>1, <1>2, <1>3, <1>4, <1>5, <1>6, <1>7, <1>8, <1>9, <1>10, <1>11, <1>12, <1>13, <1>14,
    <1>15, <1>16, <1>17, <1>18, <1>19, <1>20, <1>21, <1>22, <1>23, <1>24, <1>25, <1>26, <1>27,
    <1>28, <1>29, <1>30, <1>31, <1>32, <1>33, <1>34, <1>35, <1>36, <1>37, <1>38, <1>39, <1>40,
    <1>41, <1>42, <1>43, <1>44, <1>45 DEF Next, OperationStep, ConnectStep, RestoreStep,
    ClearStep

\* A connection is taken apart and put together by connect() alone.
LEMMA LiveNext ==
  ASSUME TypeInv, RequestInv, LiveInv, SwitchIsUndoable, [Next]_vars
  PROVE  LiveInv' /\ SwitchIsUndoable'
<1> USE RequestsAssumption
<1> USE DEF ConnectSteps, RestoreSteps, ClearSteps, CandidateSteps, RejectableSteps, RequestInv,
    LiveInv, Live, SwitchIsUndoable, TypeInv
<1>1. ASSUME NEW r \in Requests, Connect(r) PROVE LiveInv' /\ SwitchIsUndoable'
  BY <1>1 DEF Connect, BeginConnect, controller, backend, process
<1>2. ASSUME NEW k \in BOOLEAN, Disconnect(k) PROVE LiveInv' /\ SwitchIsUndoable'
  BY <1>2 DEF Disconnect, BeginDisconnect, controller, backend, process
<1>3. CASE Audit
  BY <1>3 DEF Audit, controller, backend, process
<1>4. CASE ValidateOk
  BY <1>4 DEF ValidateOk, Goto, controller, backend, process
<1>5. CASE ValidateErr
  BY <1>5 DEF ValidateErr, Throw, RetryRecovery, Settle, controller, backend, process
<1>6. CASE PersistHoldOk
  BY <1>6, RecordSays DEF PersistHoldOk, Goto, controller, backend, process
<1>7. CASE PersistHoldErr
  BY <1>7 DEF PersistHoldErr, Throw, RetryRecovery, Settle, controller, backend, process
<1>8. CASE InstallHoldOk
  BY <1>8 DEF InstallHoldOk, Goto, controller, backend, process
<1>9. CASE InstallHoldErr
  BY <1>9 DEF InstallHoldErr, FailedInstall, Throw, RetryRecovery, Settle, controller, backend,
    process
<1>10. CASE VerifyHoldOk
  BY <1>10 DEF VerifyHoldOk, Goto, controller, backend, process
<1>11. CASE VerifyHoldErr
  BY <1>11 DEF VerifyHoldErr, Goto, controller, backend, process
<1>12. CASE UndoHoldOk
  BY <1>12 DEF UndoHoldOk, ReleaseHoldOk, Throw, RetryRecovery, Settle, controller, backend,
    process
<1>13. CASE UndoHoldErr
  BY <1>13 DEF UndoHoldErr, Throw, RetryRecovery, Settle, controller, backend, process
<1>14. CASE StopActiveOk
  BY <1>14 DEF StopActiveOk, StopActive, StopProcess, Goto, controller, backend, process
<1>15. CASE StopActiveErr
  BY <1>15 DEF StopActiveErr, StopActive, StopProcess, Throw, RetryRecovery, Settle, controller,
    backend, process
<1>16. CASE StartOk
  BY <1>16 DEF StartOk, Goto, controller, backend, process
<1>17. CASE StartErr
  BY <1>17 DEF StartErr, Recover, Goto, controller, backend, process
<1>18. CASE VerifyOk
  BY <1>18 DEF VerifyOk, Goto, controller, backend, process
<1>19. CASE VerifyErr
  BY <1>19 DEF VerifyErr, Recover, Goto, controller, backend, process
<1>20. CASE CommitOk
  BY <1>20, RecordSays DEF CommitOk, Goto, controller, backend, process, NoAdapter
<1>21. CASE CommitErr
  BY <1>21 DEF CommitErr, Recover, Goto, controller, backend, process
<1>22. CASE ReleaseOk
  BY <1>22 DEF ReleaseOk, Settle, controller, backend, process
<1>23. CASE ReleaseErr
  BY <1>23 DEF ReleaseErr, Throw, RetryRecovery, Settle, controller, backend, process
<1>24. CASE RestoreStopOk
  BY <1>24 DEF RestoreStopOk, RestoreStop, StopProcess, Goto, controller, backend, process
<1>25. CASE RestoreStopErr
  BY <1>25 DEF RestoreStopErr, RestoreStop, StopProcess, Throw, RetryRecovery, Settle,
    controller, backend, process
<1>26. CASE RestoreStartOk
  BY <1>26 DEF RestoreStartOk, Goto, controller, backend, process
<1>27. CASE RestoreStartErr
  BY <1>27 DEF RestoreStartErr, Throw, RetryRecovery, Settle, controller, backend, process
<1>28. CASE RestoreVerifyOk
  BY <1>28, RecordSays DEF RestoreVerifyOk, Goto, controller, backend, process
<1>29. CASE RestoreVerifyErr
  BY <1>29 DEF RestoreVerifyErr, Throw, RetryRecovery, Settle, controller, backend, process
<1>30. CASE RestoreReleaseOk
  BY <1>30 DEF RestoreReleaseOk, Throw, RetryRecovery, Settle, controller, backend, process
<1>31. CASE RestoreReleaseErr
  BY <1>31 DEF RestoreReleaseErr, Throw, RetryRecovery, Settle, controller, backend, process
<1>32. CASE ClearPersistOk
  BY <1>32, RecordSays DEF ClearPersistOk, Goto, controller, backend, process
<1>33. CASE ClearPersistErr
  BY <1>33 DEF ClearPersistErr, Throw, RetryRecovery, Settle, controller, backend, process
<1>34. CASE ClearStopOk
  BY <1>34 DEF ClearStopOk, StopProcess, Goto, controller, backend, process
<1>35. CASE ClearStopErr
  BY <1>35 DEF ClearStopErr, StopProcess, Throw, RetryRecovery, Settle, controller, backend,
    process
<1>36. CASE ClearRoutesOk
  BY <1>36 DEF ClearRoutesOk, Goto, controller, backend, process
<1>37. CASE ClearRoutesErr
  BY <1>37 DEF ClearRoutesErr, Throw, RetryRecovery, Settle, controller, backend, process
<1>38. CASE ClearFinishOk
  BY <1>38, RecordSays DEF ClearFinishOk, Throw, RetryRecovery, Settle, controller, backend,
    process
<1>39. CASE ClearFinishErr
  BY <1>39 DEF ClearFinishErr, Throw, RetryRecovery, Settle, controller, backend, process
<1>40. CASE XrayExits
  BY <1>40 DEF XrayExits, controller, backend, process
<1>41. CASE Crash
  BY <1>41 DEF Crash, StopProcess, controller, backend, process
<1>42. CASE Boot
  BY <1>42 DEF Boot, Resume, BeginConnect, BeginDisconnect, controller, backend, process
<1>43. CASE CleanupOk
  BY <1>43, RecordSays DEF CleanupOk, controller, backend, process
<1>44. CASE CleanupErr
  BY <1>44 DEF CleanupErr, FailedRemove, controller, backend, process
<1>45. CASE UNCHANGED vars
  BY <1>45 DEF vars, controller, backend, process
<1> QED
  BY <1>1, <1>2, <1>3, <1>4, <1>5, <1>6, <1>7, <1>8, <1>9, <1>10, <1>11, <1>12, <1>13, <1>14,
    <1>15, <1>16, <1>17, <1>18, <1>19, <1>20, <1>21, <1>22, <1>23, <1>24, <1>25, <1>26, <1>27,
    <1>28, <1>29, <1>30, <1>31, <1>32, <1>33, <1>34, <1>35, <1>36, <1>37, <1>38, <1>39, <1>40,
    <1>41, <1>42, <1>43, <1>44, <1>45 DEF Next, OperationStep, ConnectStep, RestoreStep,
    ClearStep

\* No step of a switch between the hold and the commit touches the record or
\* the routes.
LEMMA HoldNext ==
  ASSUME TypeInv, RequestInv, HoldInv, [Next]_vars
  PROVE  HoldInv'
<1> USE RequestsAssumption
<1> USE DEF ConnectSteps, RestoreSteps, ClearSteps, CandidateSteps, RejectableSteps, RequestInv,
    HoldInv, SwitchIsCovered, HoldRequired, KeepBlockedOnFailure
<1>1. ASSUME NEW r \in Requests, Connect(r) PROVE HoldInv'
  BY <1>1 DEF Connect, BeginConnect, controller, backend, process
<1>2. ASSUME NEW k \in BOOLEAN, Disconnect(k) PROVE HoldInv'
  BY <1>2 DEF Disconnect, BeginDisconnect, controller, backend, process
<1>3. CASE Audit
  BY <1>3 DEF Audit, controller, backend, process
<1>4. CASE ValidateOk
  BY <1>4 DEF ValidateOk, Goto, controller, backend, process
<1>5. CASE ValidateErr
  BY <1>5 DEF ValidateErr, Throw, RetryRecovery, Settle, controller, backend, process
<1>6. CASE PersistHoldOk
  BY <1>6, RecordSays DEF PersistHoldOk, Goto, controller, backend, process
<1>7. CASE PersistHoldErr
  BY <1>7 DEF PersistHoldErr, Throw, RetryRecovery, Settle, controller, backend, process
<1>8. CASE InstallHoldOk
  BY <1>8 DEF InstallHoldOk, Goto, controller, backend, process
<1>9. CASE InstallHoldErr
  BY <1>9 DEF InstallHoldErr, FailedInstall, Throw, RetryRecovery, Settle, controller, backend,
    process
<1>10. CASE VerifyHoldOk
  BY <1>10, RecordSays DEF VerifyHoldOk, Goto, controller, backend, process
<1>11. CASE VerifyHoldErr
  BY <1>11 DEF VerifyHoldErr, Goto, controller, backend, process
<1>12. CASE UndoHoldOk
  BY <1>12 DEF UndoHoldOk, ReleaseHoldOk, Throw, RetryRecovery, Settle, controller, backend,
    process
<1>13. CASE UndoHoldErr
  BY <1>13 DEF UndoHoldErr, Throw, RetryRecovery, Settle, controller, backend, process
<1>14. CASE StopActiveOk
  BY <1>14 DEF StopActiveOk, StopActive, StopProcess, Goto, controller, backend, process
<1>15. CASE StopActiveErr
  BY <1>15 DEF StopActiveErr, StopActive, StopProcess, Throw, RetryRecovery, Settle, controller,
    backend, process
<1>16. CASE StartOk
  BY <1>16 DEF StartOk, Goto, controller, backend, process
<1>17. CASE StartErr
  BY <1>17 DEF StartErr, Recover, Goto, controller, backend, process
<1>18. CASE VerifyOk
  BY <1>18 DEF VerifyOk, Goto, controller, backend, process
<1>19. CASE VerifyErr
  BY <1>19 DEF VerifyErr, Recover, Goto, controller, backend, process
<1>20. CASE CommitOk
  BY <1>20 DEF CommitOk, Goto, controller, backend, process
<1>21. CASE CommitErr
  BY <1>21 DEF CommitErr, Recover, Goto, controller, backend, process
<1>22. CASE ReleaseOk
  BY <1>22 DEF ReleaseOk, Settle, controller, backend, process
<1>23. CASE ReleaseErr
  BY <1>23 DEF ReleaseErr, Throw, RetryRecovery, Settle, controller, backend, process
<1>24. CASE RestoreStopOk
  BY <1>24 DEF RestoreStopOk, RestoreStop, StopProcess, Goto, controller, backend, process
<1>25. CASE RestoreStopErr
  BY <1>25 DEF RestoreStopErr, RestoreStop, StopProcess, Throw, RetryRecovery, Settle,
    controller, backend, process
<1>26. CASE RestoreStartOk
  BY <1>26 DEF RestoreStartOk, Goto, controller, backend, process
<1>27. CASE RestoreStartErr
  BY <1>27 DEF RestoreStartErr, Throw, RetryRecovery, Settle, controller, backend, process
<1>28. CASE RestoreVerifyOk
  BY <1>28 DEF RestoreVerifyOk, Goto, controller, backend, process
<1>29. CASE RestoreVerifyErr
  BY <1>29 DEF RestoreVerifyErr, Throw, RetryRecovery, Settle, controller, backend, process
<1>30. CASE RestoreReleaseOk
  BY <1>30 DEF RestoreReleaseOk, Throw, RetryRecovery, Settle, controller, backend, process
<1>31. CASE RestoreReleaseErr
  BY <1>31 DEF RestoreReleaseErr, Throw, RetryRecovery, Settle, controller, backend, process
<1>32. CASE ClearPersistOk
  BY <1>32 DEF ClearPersistOk, Goto, controller, backend, process
<1>33. CASE ClearPersistErr
  BY <1>33 DEF ClearPersistErr, Throw, RetryRecovery, Settle, controller, backend, process
<1>34. CASE ClearStopOk
  BY <1>34 DEF ClearStopOk, StopProcess, Goto, controller, backend, process
<1>35. CASE ClearStopErr
  BY <1>35 DEF ClearStopErr, StopProcess, Throw, RetryRecovery, Settle, controller, backend,
    process
<1>36. CASE ClearRoutesOk
  BY <1>36 DEF ClearRoutesOk, Goto, controller, backend, process
<1>37. CASE ClearRoutesErr
  BY <1>37 DEF ClearRoutesErr, Throw, RetryRecovery, Settle, controller, backend, process
<1>38. CASE ClearFinishOk
  BY <1>38 DEF ClearFinishOk, Throw, RetryRecovery, Settle, controller, backend, process
<1>39. CASE ClearFinishErr
  BY <1>39 DEF ClearFinishErr, Throw, RetryRecovery, Settle, controller, backend, process
<1>40. CASE XrayExits
  BY <1>40 DEF XrayExits, controller, backend, process
<1>41. CASE Crash
  BY <1>41 DEF Crash, StopProcess, controller, backend, process
<1>42. CASE Boot
  BY <1>42 DEF Boot, Resume, BeginConnect, BeginDisconnect, controller, backend, process
<1>43. CASE CleanupOk
  BY <1>43 DEF CleanupOk, controller, backend, process
<1>44. CASE CleanupErr
  BY <1>44 DEF CleanupErr, FailedRemove, controller, backend, process
<1>45. CASE UNCHANGED vars
  BY <1>45 DEF vars, controller, backend, process
<1> QED
  BY <1>1, <1>2, <1>3, <1>4, <1>5, <1>6, <1>7, <1>8, <1>9, <1>10, <1>11, <1>12, <1>13, <1>14,
    <1>15, <1>16, <1>17, <1>18, <1>19, <1>20, <1>21, <1>22, <1>23, <1>24, <1>25, <1>26, <1>27,
    <1>28, <1>29, <1>30, <1>31, <1>32, <1>33, <1>34, <1>35, <1>36, <1>37, <1>38, <1>39, <1>40,
    <1>41, <1>42, <1>43, <1>44, <1>45 DEF Next, OperationStep, ConnectStep, RestoreStep,
    ClearStep

\* As long as route commands do their work, an operation that ends
\* "Disconnected" has removed everything.
LEMMA OpenNext ==
  ASSUME "routes" \notin Faults, TypeInv, RequestInv, OpenInv, [Next]_vars
  PROVE  OpenInv'
<1> USE RequestsAssumption
<1> USE DEF ConnectSteps, RestoreSteps, ClearSteps, CandidateSteps, RejectableSteps, RequestInv,
    OpenInv, DisconnectedIsOpen
<1>1. ASSUME NEW r \in Requests, Connect(r) PROVE OpenInv'
  BY <1>1 DEF Connect, BeginConnect, controller, backend, process
<1>2. ASSUME NEW k \in BOOLEAN, Disconnect(k) PROVE OpenInv'
  BY <1>2 DEF Disconnect, BeginDisconnect, controller, backend, process
<1>3. CASE Audit
  BY <1>3 DEF Audit, controller, backend, process
<1>4. CASE ValidateOk
  BY <1>4 DEF ValidateOk, Goto, controller, backend, process
<1>5. CASE ValidateErr
  BY <1>5 DEF ValidateErr, Throw, RetryRecovery, Settle, controller, backend, process
<1>6. CASE PersistHoldOk
  BY <1>6 DEF PersistHoldOk, Goto, controller, backend, process
<1>7. CASE PersistHoldErr
  BY <1>7 DEF PersistHoldErr, Throw, RetryRecovery, Settle, controller, backend, process
<1>8. CASE InstallHoldOk
  BY <1>8 DEF InstallHoldOk, Goto, controller, backend, process
<1>9. CASE InstallHoldErr
  BY <1>9 DEF InstallHoldErr, FailedInstall, Throw, RetryRecovery, Settle, controller, backend,
    process
<1>10. CASE VerifyHoldOk
  BY <1>10 DEF VerifyHoldOk, Goto, controller, backend, process
<1>11. CASE VerifyHoldErr
  BY <1>11 DEF VerifyHoldErr, Goto, controller, backend, process
<1>12. CASE UndoHoldOk
  BY <1>12, NoKillSwitch DEF UndoHoldOk, ReleaseHoldOk, Throw, RetryRecovery, Settle,
    controller, backend, process
<1>13. CASE UndoHoldErr
  BY <1>13 DEF UndoHoldErr, Throw, RetryRecovery, Settle, controller, backend, process
<1>14. CASE StopActiveOk
  BY <1>14 DEF StopActiveOk, StopActive, StopProcess, Goto, controller, backend, process
<1>15. CASE StopActiveErr
  BY <1>15 DEF StopActiveErr, StopActive, StopProcess, Throw, RetryRecovery, Settle, controller,
    backend, process
<1>16. CASE StartOk
  BY <1>16 DEF StartOk, Goto, controller, backend, process
<1>17. CASE StartErr
  BY <1>17 DEF StartErr, Recover, Goto, controller, backend, process
<1>18. CASE VerifyOk
  BY <1>18 DEF VerifyOk, Goto, controller, backend, process
<1>19. CASE VerifyErr
  BY <1>19 DEF VerifyErr, Recover, Goto, controller, backend, process
<1>20. CASE CommitOk
  BY <1>20 DEF CommitOk, Goto, controller, backend, process
<1>21. CASE CommitErr
  BY <1>21 DEF CommitErr, Recover, Goto, controller, backend, process
<1>22. CASE ReleaseOk
  BY <1>22 DEF ReleaseOk, Settle, controller, backend, process
<1>23. CASE ReleaseErr
  BY <1>23 DEF ReleaseErr, Throw, RetryRecovery, Settle, controller, backend, process
<1>24. CASE RestoreStopOk
  BY <1>24 DEF RestoreStopOk, RestoreStop, StopProcess, Goto, controller, backend, process
<1>25. CASE RestoreStopErr
  BY <1>25 DEF RestoreStopErr, RestoreStop, StopProcess, Throw, RetryRecovery, Settle,
    controller, backend, process
<1>26. CASE RestoreStartOk
  BY <1>26 DEF RestoreStartOk, Goto, controller, backend, process
<1>27. CASE RestoreStartErr
  BY <1>27 DEF RestoreStartErr, Throw, RetryRecovery, Settle, controller, backend, process
<1>28. CASE RestoreVerifyOk
  BY <1>28 DEF RestoreVerifyOk, Goto, controller, backend, process
<1>29. CASE RestoreVerifyErr
  BY <1>29 DEF RestoreVerifyErr, Throw, RetryRecovery, Settle, controller, backend, process
<1>30. CASE RestoreReleaseOk
  BY <1>30 DEF RestoreReleaseOk, Throw, RetryRecovery, Settle, controller, backend, process
<1>31. CASE RestoreReleaseErr
  BY <1>31 DEF RestoreReleaseErr, Throw, RetryRecovery, Settle, controller, backend, process
<1>32. CASE ClearPersistOk
  BY <1>32 DEF ClearPersistOk, Goto, controller, backend, process
<1>33. CASE ClearPersistErr
  BY <1>33 DEF ClearPersistErr, Throw, RetryRecovery, Settle, controller, backend, process
<1>34. CASE ClearStopOk
  BY <1>34 DEF ClearStopOk, StopProcess, Goto, controller, backend, process
<1>35. CASE ClearStopErr
  BY <1>35 DEF ClearStopErr, StopProcess, Throw, RetryRecovery, Settle, controller, backend,
    process
<1>36. CASE ClearRoutesOk
  BY <1>36 DEF ClearRoutesOk, Goto, controller, backend, process
<1>37. CASE ClearRoutesErr
  BY <1>37 DEF ClearRoutesErr, Throw, RetryRecovery, Settle, controller, backend, process
<1>38. CASE ClearFinishOk
  BY <1>38 DEF ClearFinishOk, Throw, RetryRecovery, Settle, controller, backend, process
<1>39. CASE ClearFinishErr
  BY <1>39 DEF ClearFinishErr, Throw, RetryRecovery, Settle, controller, backend, process
<1>40. CASE XrayExits
  BY <1>40 DEF XrayExits, controller, backend, process
<1>41. CASE Crash
  BY <1>41 DEF Crash, StopProcess, controller, backend, process
<1>42. CASE Boot
  BY <1>42 DEF Boot, Resume, BeginConnect, BeginDisconnect, controller, backend, process
<1>43. CASE CleanupOk
  BY <1>43 DEF CleanupOk, controller, backend, process
<1>44. CASE CleanupErr
  BY <1>44 DEF CleanupErr, FailedRemove, controller, backend, process
<1>45. CASE UNCHANGED vars
  BY <1>45 DEF vars, controller, backend, process
<1> QED
  BY <1>1, <1>2, <1>3, <1>4, <1>5, <1>6, <1>7, <1>8, <1>9, <1>10, <1>11, <1>12, <1>13, <1>14,
    <1>15, <1>16, <1>17, <1>18, <1>19, <1>20, <1>21, <1>22, <1>23, <1>24, <1>25, <1>26, <1>27,
    <1>28, <1>29, <1>30, <1>31, <1>32, <1>33, <1>34, <1>35, <1>36, <1>37, <1>38, <1>39, <1>40,
    <1>41, <1>42, <1>43, <1>44, <1>45 DEF Next, OperationStep, ConnectStep, RestoreStep,
    ClearStep

-----------------------------------------------------------------------------
(* What follows for every behaviour. *)

LEMMA SwitchInit == Init => SwitchInv /\ HoldInv /\ OpenInv
<1> SUFFICES ASSUME Init PROVE SwitchInv /\ HoldInv /\ OpenInv
  OBVIOUS
<1>1. TypeInv
  BY TypeInit
<1>2. pc = "down" /\ phase = "Disconnected" /\ request = None /\ origin = "none"
      /\ saved = "Disconnected" /\ active = None /\ xray = "none"
  BY DEF Init
<1> QED
  BY <1>1, <1>2
  DEF SwitchInv, RequestInv, LiveInv, SwitchIsUndoable, HoldInv, SwitchIsCovered, OpenInv,
      DisconnectedIsOpen, ConnectSteps, RestoreSteps, CandidateSteps, RejectableSteps

LEMMA SwitchNext == SwitchInv /\ [Next]_vars => SwitchInv'
BY TypeNext, RequestNext, LiveNext DEF SwitchInv

LEMMA SwitchInvariant == Spec => []SwitchInv
<1>1. Init => SwitchInv
  BY SwitchInit
<1> QED
  BY <1>1, SwitchNext, PTL DEF Spec

\* "Connected" is reported for the connection that the process was started for
\* and that a restarted service would bring back, whichever way a connect, a
\* switch or a restore ended, and whatever failed in it.
THEOREM Recoverable == Spec => []ConnectedIsRecoverable
<1>1. SwitchInv => ConnectedIsRecoverable
  BY DEF SwitchInv, LiveInv, Live, ConnectedIsRecoverable
<1> QED
  BY <1>1, SwitchInvariant, PTL

\* While no tunnel is in force during a switch, the old connection is known both
\* to restore_previous and to a service that is restarted there.
THEOREM Undoable == Spec => []SwitchIsUndoable
<1>1. SwitchInv => SwitchIsUndoable
  BY DEF SwitchInv
<1> QED
  BY <1>1, SwitchInvariant, PTL

\* The blackhole is up from the moment the old tunnel is stopped until the new or
\* the restored one is verified, if either connection asks for it.
THEOREM Covered == Spec => []SwitchIsCovered
<1>1. Init => HoldInv
  BY SwitchInit
<1>2. SwitchInv /\ HoldInv /\ [Next]_vars => HoldInv'
  BY HoldNext DEF SwitchInv
<1>3. HoldInv => SwitchIsCovered
  BY DEF HoldInv
<1> QED
  BY <1>1, <1>2, <1>3, SwitchInvariant, PTL DEF Spec

\* "Disconnected" is reported only when nothing is left on the host, unless a
\* route command fails or the service dies half-way through one.
THEOREM Open ==
  ASSUME "routes" \notin Faults
  PROVE  Spec => []DisconnectedIsOpen
<1>1. Init => OpenInv
  BY SwitchInit
<1>2. SwitchInv /\ OpenInv /\ [Next]_vars => OpenInv'
  BY OpenNext DEF SwitchInv
<1>3. OpenInv => DisconnectedIsOpen
  BY DEF OpenInv
<1> QED
  BY <1>1, <1>2, <1>3, SwitchInvariant, PTL DEF Spec

=============================================================================
