------------------------ MODULE ServiceRuntimeProofs ------------------------
(***************************************************************************)
(* Proofs about ServiceRuntime, for any set of requests and of faults.     *)
(***************************************************************************)
EXTENDS ServiceRuntime, TLAPS

-----------------------------------------------------------------------------
(* Type correctness. *)

\* The adapters a candidate may be bound to are adapters.
LEMMA CandidateInterfaceType ==
  ASSUME TypeOK
  PROVE  CandidateInterfaces \ {"tunnel"} \subseteq Adapters
<1>1. Underneath \subseteq Adapters
  BY DEF TypeOK, Underneath, Adapters
<1>2. BestInterfaces \subseteq {"tunnel"} \cup Adapters
  BY <1>1 DEF BestInterfaces
<1>3. adapter.active \in Adapters
  BY DEF TypeOK
<1> QED
  BY <1>2, <1>3 DEF CandidateInterfaces

\* TypeOK is inductive together with: a phase that can be asked for is settled,
\* because connect() clones it as the state to return to.
TypeInv == TypeOK /\ (pc = "idle" => phase \in Settled)

\* The part of TypeInv about the controller's variables.
ControllerOK ==
  /\ pc \in Steps \cup {"idle", "down"}
  /\ phase \in Phases
  /\ origin \in {"none", "client", "monitor", "boot", "retry"}
  /\ request \in MaybeRequest
  /\ saved \in Settled
  /\ keep \in BOOLEAN
  /\ fallback \in BOOLEAN
  /\ pc = "idle" => phase \in Settled

\* An error settles the operation or starts the retry of a recovery.
LEMMA ThrowType ==
  ASSUME TypeOK, NEW p \in Settled, Throw(p)
  PROVE  ControllerOK'
BY DEF ControllerOK, TypeOK, Throw, RetryRecovery, Settle, Settled, Phases, Steps, ClearSteps,
       MaybeRequest

\* Every step a connect goes on with is a step.
LEMMA GotoType ==
  ASSUME TypeOK, NEW s \in Steps, NEW p \in Phases, Goto(s, p)
  PROVE  ControllerOK'
BY DEF ControllerOK, TypeOK, Goto, Steps, ConnectSteps, RestoreSteps, ClearSteps

LEMMA KillSwitchType == \A r : killswitch(r) \in BOOLEAN
BY DEF killswitch

\* A failed candidate leads to a restore or to a clear.
LEMMA RecoverType ==
  ASSUME TypeOK, Recover
  PROVE  ControllerOK'
BY KillSwitchType
   DEF ControllerOK, TypeOK, Recover, Goto, Phases, Steps, RestoreSteps, ClearSteps

\* A finished operation leaves the controller idle.
LEMMA SettleType ==
  ASSUME NEW p \in Settled, Settle(p)
  PROVE  ControllerOK'
BY DEF ControllerOK, Settle, Settled, Phases, MaybeRequest

\* The records the service writes are records.
LEMMA RecordType ==
  /\ \A c \in MaybeRequest, p \in MaybeRequest, k \in BOOLEAN : Connecting(c, p, k) \in Record
  /\ \A r \in MaybeRequest : Connected(r) \in Record
  /\ \A k \in BOOLEAN : Disconnecting(k) \in Record
  /\ Blocked \in Record /\ Disconnected \in Record /\ Absent \in Record
BY DEF Connecting, Connected, Disconnecting, Blocked, Disconnected, Absent, Plain, Record,
       RecordStates, MaybeRequest

\* Route commands leave the table in one of its three states.
LEMMA RoutesType ==
  ASSUME TypeOK,
         \/ FailedInstall \/ FailedRemove \/ FailedClear
         \/ ReleaseHoldOk \/ ReleaseHoldErr \/ Interrupted
  PROVE  routes' \in {"none", "torn", "full"}
BY DEF TypeOK, FailedInstall, FailedRemove, FailedClear, ReleaseHoldOk, ReleaseHoldErr, Interrupted

\* A record names only connections that clients asked for.
LEMMA ResumeType ==
  ASSUME TypeOK, NEW d \in Record, Resume(d)
  PROVE  ControllerOK'
<1>1. RecoveryRequest(d) \in MaybeRequest
  BY DEF RecoveryRequest, Record
<1>2. KeepBlockedOnFailure(d) \in BOOLEAN /\ RecoveryKeepBlocked(d) \in BOOLEAN
  BY DEF KeepBlockedOnFailure, RecoveryKeepBlocked
<1>3. CASE RecoveryRequest(d) # None
  BY <1>1, <1>2, <1>3
  DEF Resume, BeginConnect, ControllerOK, Steps, ConnectSteps, Phases, Settled
<1>4. CASE RecoveryRequest(d) = None
  BY <1>2, <1>4
  DEF Resume, BeginDisconnect, ControllerOK, Steps, ClearSteps, Phases, Settled, MaybeRequest
<1> QED
  BY <1>3, <1>4

LEMMA TypeInit == Init => TypeInv
<1> SUFFICES ASSUME Init PROVE TypeInv
  OBVIOUS
<1>1. disk \in Record
  BY RecordType DEF Init
<1>2. adapter \in [active: Adapters, previous: Adapters, candidate: Adapters]
  BY DEF Init, NoAdapter, Adapters
<1> QED
  BY <1>1, <1>2 DEF Init, TypeInv, TypeOK, Steps, Phases, Settled, MaybeRequest, Adapters

LEMMA TypeNext == TypeInv /\ [Next]_vars => TypeInv'
<1> SUFFICES ASSUME TypeInv, [Next]_vars PROVE TypeInv'
  OBVIOUS
<1>1. ASSUME NEW r \in Requests, Connect(r) PROVE TypeInv'
  <2>1. /\ pc' = "validate" /\ phase' = "Validating" /\ origin' = "client" /\ request' = r
        /\ saved' = phase /\ phase \in Settled /\ keep' = FALSE /\ fallback' = fallback
    BY <1>1 DEF TypeInv, Connect, BeginConnect
  <2>2. "validate" \in Steps /\ "Validating" \in Phases /\ r \in MaybeRequest
    BY DEF Steps, ConnectSteps, Phases, MaybeRequest
  <2>3. UNCHANGED <<backend, process, routes, disk, armed>>
    BY <1>1 DEF Connect
  <2> QED
    BY <2>1, <2>2, <2>3 DEF TypeInv, TypeOK, backend, process
<1>2. ASSUME NEW k \in BOOLEAN, Disconnect(k) PROVE TypeInv'
  BY <1>2 DEF TypeInv, TypeOK, ControllerOK, Disconnect, BeginDisconnect, backend, process,
    Steps, ClearSteps, Phases, Settled, MaybeRequest
<1>3. CASE Audit
  BY <1>3, KillSwitchType DEF TypeInv, TypeOK, ControllerOK, Audit, backend, process, Steps,
    ClearSteps
<1>4. CASE ValidateOk
  BY <1>4, CandidateInterfaceType, GotoType DEF TypeInv, TypeOK, ControllerOK, ValidateOk,
    process, Steps, ConnectSteps, Phases
<1>5. CASE ValidateErr
  BY <1>5, ThrowType DEF TypeInv, TypeOK, ControllerOK, ValidateErr, backend, process
<1>6. CASE PersistHoldOk
  BY <1>6, RecordType, KillSwitchType, GotoType DEF TypeInv, TypeOK, ControllerOK,
    PersistHoldOk, backend, process, Steps, ConnectSteps
<1>7. CASE PersistHoldErr
  BY <1>7, ThrowType DEF TypeInv, TypeOK, ControllerOK, PersistHoldErr, backend, process
<1>8. CASE InstallHoldOk
  BY <1>8, GotoType DEF TypeInv, TypeOK, ControllerOK, InstallHoldOk, backend, process, Steps,
    ConnectSteps
<1>9. CASE InstallHoldErr
  BY <1>9, ThrowType, RoutesType DEF TypeInv, TypeOK, ControllerOK, InstallHoldErr, backend,
    process
<1>10. CASE VerifyHoldOk
  BY <1>10, GotoType DEF TypeInv, TypeOK, ControllerOK, VerifyHoldOk, backend, process, Steps,
    ConnectSteps, Phases
<1>11. CASE VerifyHoldErr
  BY <1>11, GotoType DEF TypeInv, TypeOK, ControllerOK, VerifyHoldErr, backend, process, Steps,
    ConnectSteps
<1>12. CASE UndoHoldOk
  BY <1>12, ThrowType, RoutesType DEF TypeInv, TypeOK, ControllerOK, UndoHoldOk, backend,
    process
<1>13. CASE UndoHoldErr
  BY <1>13, ThrowType, RoutesType DEF TypeInv, TypeOK, ControllerOK, UndoHoldErr, backend,
    process, Settled
<1>14. CASE StopActiveOk
  BY <1>14, GotoType DEF TypeInv, TypeOK, ControllerOK, StopActiveOk, StopActive, StopProcess,
    Steps, ConnectSteps, Phases, MaybeRequest, Adapters
<1>15. CASE StopActiveErr
  BY <1>15, ThrowType DEF TypeInv, TypeOK, ControllerOK, StopActiveErr, StopActive, StopProcess,
    Settled, MaybeRequest, Adapters
<1>16. CASE StartOk
  BY <1>16, GotoType DEF TypeInv, TypeOK, ControllerOK, StartOk, backend, Steps, ConnectSteps
<1>17. CASE StartErr
  BY <1>17, RecoverType DEF TypeInv, TypeOK, ControllerOK, StartErr, backend, process
<1>18. CASE VerifyOk
  BY <1>18, GotoType DEF TypeInv, TypeOK, ControllerOK, VerifyOk, backend, Steps, ConnectSteps
<1>19. CASE VerifyErr
  BY <1>19, RecoverType DEF TypeInv, TypeOK, ControllerOK, VerifyErr, backend, process
<1>20. CASE CommitOk
  BY <1>20, RecordType, KillSwitchType, GotoType DEF TypeInv, TypeOK, ControllerOK, CommitOk,
    process, NoAdapter, Adapters, MaybeRequest, Steps, ConnectSteps
<1>21. CASE CommitErr
  BY <1>21, RecoverType DEF TypeInv, TypeOK, ControllerOK, CommitErr, backend, process
<1>22. CASE ReleaseOk
  BY <1>22, SettleType, RoutesType DEF TypeInv, TypeOK, ControllerOK, ReleaseOk, backend,
    process, Settled
<1>23. CASE ReleaseErr
  BY <1>23, ThrowType, RoutesType DEF TypeInv, TypeOK, ControllerOK, ReleaseErr, backend,
    process, Settled
<1>24. CASE RestoreStopOk
  BY <1>24, GotoType DEF TypeInv, TypeOK, ControllerOK, RestoreStopOk, RestoreStop, StopProcess,
    backend, Steps, RestoreSteps, Adapters, MaybeRequest
<1>25. CASE RestoreStopErr
  BY <1>25, ThrowType DEF TypeInv, TypeOK, ControllerOK, RestoreStopErr, RestoreStop,
    StopProcess, backend, Settled, Adapters, MaybeRequest
<1>26. CASE RestoreStartOk
  BY <1>26, GotoType DEF TypeInv, TypeOK, ControllerOK, RestoreStartOk, Steps, RestoreSteps,
    Adapters, MaybeRequest
<1>27. CASE RestoreStartErr
  BY <1>27, ThrowType DEF TypeInv, TypeOK, ControllerOK, RestoreStartErr, process, Settled,
    Adapters, MaybeRequest
<1>28. CASE RestoreVerifyOk
  BY <1>28, RecordType, GotoType DEF TypeInv, TypeOK, ControllerOK, RestoreVerifyOk, Steps,
    RestoreSteps, Adapters, MaybeRequest
<1>29. CASE RestoreVerifyErr
  BY <1>29, ThrowType DEF TypeInv, TypeOK, ControllerOK, RestoreVerifyErr, backend, process,
    Settled
<1>30. CASE RestoreReleaseOk
  BY <1>30, ThrowType, RoutesType DEF TypeInv, TypeOK, ControllerOK, RestoreReleaseOk, backend,
    process
<1>31. CASE RestoreReleaseErr
  BY <1>31, ThrowType, RoutesType DEF TypeInv, TypeOK, ControllerOK, RestoreReleaseErr, backend,
    process, Settled
<1>32. CASE ClearPersistOk
  BY <1>32, RecordType, GotoType DEF TypeInv, TypeOK, ControllerOK, ClearPersistOk, backend,
    process, Steps, ClearSteps
<1>33. CASE ClearPersistErr
  BY <1>33, ThrowType DEF TypeInv, TypeOK, ControllerOK, ClearPersistErr, backend, process,
    Settled
<1>34. CASE ClearStopOk
  BY <1>34, GotoType DEF TypeInv, TypeOK, ControllerOK, ClearStopOk, StopProcess, NoAdapter,
    Adapters, MaybeRequest, Steps, ClearSteps
<1>35. CASE ClearStopErr
  BY <1>35, ThrowType DEF TypeInv, TypeOK, ControllerOK, ClearStopErr, StopProcess, backend,
    Settled, Adapters, MaybeRequest
<1>36. CASE ClearRoutesOk
  BY <1>36, GotoType DEF TypeInv, TypeOK, ControllerOK, ClearRoutesOk, backend, process, Steps,
    ClearSteps
<1>37. CASE ClearRoutesErr
  BY <1>37, ThrowType, RoutesType DEF TypeInv, TypeOK, ControllerOK, ClearRoutesErr, backend,
    process, Settled
<1>38. CASE ClearFinishOk
  BY <1>38, ThrowType, SettleType, RecordType DEF TypeInv, TypeOK, ControllerOK, ClearFinishOk,
    backend, process, Settled
<1>39. CASE ClearFinishErr
  BY <1>39, ThrowType DEF TypeInv, TypeOK, ControllerOK, ClearFinishErr, backend, process,
    Settled
<1>40. CASE XrayExits
  BY <1>40 DEF TypeInv, TypeOK, ControllerOK, XrayExits, controller, backend
<1>41. CASE Crash
  BY <1>41, RoutesType DEF TypeInv, TypeOK, ControllerOK, Crash, StopProcess, NoAdapter,
    Adapters, MaybeRequest, Settled, Phases
<1>42. CASE Boot
  <2>1. PICK d \in Record : Resume(d)
    BY <1>42, RecordType DEF TypeInv, TypeOK, Boot
  <2>2. ControllerOK'
    BY <2>1, ResumeType DEF TypeInv
  <2> QED
    BY <1>42, <2>2 DEF TypeInv, TypeOK, ControllerOK, Boot, backend, process
<1>43. CASE CleanupOk
  BY <1>43, RecordType DEF TypeInv, TypeOK, ControllerOK, CleanupOk, controller, backend, process
<1>44. CASE CleanupErr
  BY <1>44 DEF TypeInv, TypeOK, ControllerOK, CleanupErr, FailedRemove, controller, backend, process
<1>45. CASE UNCHANGED vars
  BY <1>45 DEF TypeInv, TypeOK, ControllerOK, vars, controller, backend, process
<1> QED
  BY <1>1, <1>2, <1>3, <1>4, <1>5, <1>6, <1>7, <1>8, <1>9, <1>10, <1>11, <1>12, <1>13, <1>14,
    <1>15, <1>16, <1>17, <1>18, <1>19, <1>20, <1>21, <1>22, <1>23, <1>24, <1>25, <1>26, <1>27,
    <1>28, <1>29, <1>30, <1>31, <1>32, <1>33, <1>34, <1>35, <1>36, <1>37, <1>38, <1>39, <1>40,
    <1>41, <1>42, <1>43, <1>44, <1>45 DEF Next, OperationStep, ConnectStep, RestoreStep, ClearStep

\* Every variable of the service keeps its type, whatever fails.
THEOREM TypeCorrect == Spec => []TypeOK
BY TypeInit, TypeNext, PTL DEF Spec, TypeInv

=============================================================================
