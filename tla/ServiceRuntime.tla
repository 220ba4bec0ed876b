--------------------------- MODULE ServiceRuntime ---------------------------
(***************************************************************************)
(* The privileged service: ConnectionController driving WindowsBackend     *)
(* under the executor's controller mutex, with the Xray process, the       *)
(* kill-switch routes and the desired-state record it owns, the 500 ms     *)
(* runtime monitor, and the recovery a starting service performs.          *)
(*                                                                         *)
(* One operation at a time holds the mutex; pc says where it is.  Every    *)
(* backend call is a step of its own with the outcomes the code            *)
(* distinguishes, so Xray may exit, and the service may die, between any   *)
(* two of them.                                                            *)
(*                                                                         *)
(* Faults names the kinds of step that may fail:                           *)
(*   "probe"    the candidate's validation                                 *)
(*   "persist"  a write of the desired state                               *)
(*   "routes"   a sequence of route commands: it fails, or the service     *)
(*              dies half-way, leaving the table torn                      *)
(*   "stop"     the query of the process that is being stopped             *)
(*   "start"    the start of a process                                     *)
(*   "health"   the wait for the adapter, and the health check             *)
(*   "load"     reading the desired state at startup                       *)
(*   "reboot"   the host restarts: store=active routes are gone            *)
(*                                                                         *)
(* Left out: operation ids (only echoed), split_active and dns_protected   *)
(* (functions of the request), and prepared_candidate, which every         *)
(* function sets and clears together with candidate_request.  Installing   *)
(* the routes is one step here: the gap replace_route opens while it works *)
(* on routes that are already there shows only when the sequence fails.    *)
(***************************************************************************)
EXTENDS DesiredState

CONSTANT Faults

FaultKinds == {"probe", "persist", "routes", "stop", "start", "health", "load", "reboot"}

ASSUME FaultsAssumption == Faults \subseteq FaultKinds

VARIABLES
  \* ConnectionController and the operation that holds the mutex
  pc,         \* the next backend call, "idle", or "down" while no service runs
  phase,      \* state.phase
  origin,     \* who asked: a client, the monitor, or startup recovery
  request,    \* the argument of connect(), None in every other operation
  saved,      \* previous_state.phase inside connect()
  keep,       \* the argument of clear_network_state()
  fallback,   \* keep_blocked_on_failure inside open()
  \* WindowsBackend
  active,     \* active_request
  previous,   \* previous_request
  candidate,  \* candidate_request
  adapter,    \* active_, previous_ and candidate_interface
  \* what the service owns on the host
  xray,       \* the managed process
  owner,      \* the request that process was started for
  bound,      \* the adapter its outbound sockets are bound to
  routes,     \* the loopback blackhole routes in the table
  disk,       \* the desired-state record
  \* history
  armed       \* the kill switch was promised and the user has not let it go

controller == <<pc, phase, origin, request, saved, keep, fallback>>
backend    == <<active, previous, candidate, adapter>>
process    == <<xray, owner, bound>>
vars       == <<controller, backend, process, routes, disk, armed>>

Settled == {"Disconnected", "Connected", "Blocked", "BlockedError"}
Phases  == Settled \cup {"Validating", "Holding", "Starting", "Restoring", "Stopping"}

ConnectSteps == {"validate", "persistHold", "installHold", "verifyHold", "undoHold",
                 "stopActive", "start", "verify", "commit", "release"}
RestoreSteps == {"restoreStop", "restoreStart", "restoreVerify", "restoreRelease"}
ClearSteps   == {"clearPersist", "clearStop", "clearRoutes", "clearFinish"}
Steps        == ConnectSteps \cup RestoreSteps \cup ClearSteps

\* Names of adapters; "loopback" is the one the blackhole routes lead to.
Adapters == {"none", "physical", "loopback"}

NoAdapter == [active |-> "none", previous |-> "none", candidate |-> "none"]

TypeOK ==
  /\ pc \in Steps \cup {"idle", "down"}
  /\ phase \in Phases
  /\ origin \in {"none", "client", "monitor", "boot", "retry"}
  /\ request \in MaybeRequest
  /\ saved \in Settled
  /\ keep \in BOOLEAN
  /\ fallback \in BOOLEAN
  /\ active \in MaybeRequest
  /\ previous \in MaybeRequest
  /\ candidate \in MaybeRequest
  /\ adapter \in [active: Adapters, previous: Adapters, candidate: Adapters]
  /\ bound \in Adapters
  /\ xray \in {"none", "starting", "up", "dead"}
  /\ owner \in MaybeRequest
  /\ routes \in {"none", "torn", "full"}
  /\ disk \in Record
  /\ armed \in BOOLEAN

\* No service is running yet and no state file exists.
Init ==
  /\ pc = "down" /\ phase = "Disconnected" /\ origin = "none" /\ request = None
  /\ saved = "Disconnected" /\ keep = FALSE /\ fallback = FALSE
  /\ active = None /\ previous = None /\ candidate = None /\ adapter = NoAdapter
  /\ xray = "none" /\ owner = None /\ bound = "none"
  /\ routes = "none" /\ disk = Absent /\ armed = FALSE

-----------------------------------------------------------------------------
(***************************************************************************)
(* How an operation ends.  Settle releases the mutex.  Throw is an Err     *)
(* with the controller in phase p: open() answers the first one with a     *)
(* disconnect that keeps the block the record asked for, and the second    *)
(* one with force_blocked.                                                 *)
(***************************************************************************)
Settle(p) ==
  /\ pc' = "idle" /\ phase' = p /\ origin' = "none" /\ request' = None
  /\ saved' = "Disconnected" /\ keep' = FALSE /\ fallback' = FALSE

\* Mutation: the failed recovery is retried by recovering again.
RetryRecoveryForever ==
  /\ pc' = "clearPersist" /\ phase' = "Stopping" /\ origin' = "boot" /\ request' = None
  /\ saved' = "Disconnected" /\ keep' = fallback /\ UNCHANGED fallback

RetryRecovery ==
  /\ pc' = "clearPersist" /\ phase' = "Stopping" /\ origin' = "retry" /\ request' = None
  /\ saved' = "Disconnected" /\ keep' = fallback /\ UNCHANGED fallback

\* Mutation: force_disconnected where open() calls force_blocked.
ThrowDisconnected(p) ==
  \/ origin = "boot" /\ RetryRecovery
  \/ origin = "retry" /\ Settle("Disconnected")
  \/ origin \in {"client", "monitor"} /\ Settle(p)

Throw(p) ==
  \/ origin = "boot" /\ RetryRecovery
  \/ origin = "retry" /\ Settle("Blocked")
  \/ origin \in {"client", "monitor"} /\ Settle(p)

Goto(step, p) ==
  /\ pc' = step /\ phase' = p
  /\ UNCHANGED <<origin, request, saved, keep, fallback>>

\* Mutation: the previous state is cloned after the phase was overwritten.
BeginConnectLateSnapshot(r, by, before) ==
  /\ pc' = "validate" /\ phase' = "Validating" /\ origin' = by /\ request' = r
  /\ saved' = "Validating" /\ keep' = FALSE

\* ConnectionController::connect up to its first backend call.
BeginConnect(r, by, before) ==
  /\ pc' = "validate" /\ phase' = "Validating" /\ origin' = by /\ request' = r
  /\ saved' = before /\ keep' = FALSE

\* ConnectionController::disconnect up to its backend call.
BeginDisconnect(k, by) ==
  /\ pc' = "clearPersist" /\ phase' = "Stopping" /\ origin' = by /\ request' = None
  /\ saved' = "Disconnected" /\ keep' = k

\* Mutation: the connection that is gone decides, not the failed candidate.
RecoverByActive ==
  \/ saved = "Connected" /\ Goto("restoreStop", "Restoring")
  \/ /\ saved # "Connected"
     /\ pc' = "clearPersist" /\ keep' = killswitch(active)
     /\ UNCHANGED <<phase, origin, request, saved, fallback>>

\* recover_candidate_failure: to the old tunnel if there was one, else clear.
Recover ==
  \/ saved = "Connected" /\ Goto("restoreStop", "Restoring")
  \/ /\ saved # "Connected"
     /\ pc' = "clearPersist" /\ keep' = killswitch(request)
     /\ UNCHANGED <<phase, origin, request, saved, fallback>>

-----------------------------------------------------------------------------
(***************************************************************************)
(* The route table, as install_ and remove_killswitch_routes leave it.  A  *)
(* failed sequence has done any part of its work; replace_route deletes    *)
(* before it adds, so even a complete table may end torn.                  *)
(***************************************************************************)
FailedInstall == routes' \in {routes, "torn", "full"}
FailedRemove  == routes' \in IF routes = "none" THEN {"none"} ELSE {routes, "torn", "none"}

FailedClear   == IF keep THEN FailedInstall ELSE FailedRemove

\* Mutation: the connection being replaced is forgotten.
HoldForCandidate == killswitch(candidate)

HoldRequired == killswitch(candidate) \/ killswitch(active)

\* release_transition_hold: the routes stay under a kill-switch connection.
ReleaseHoldOk ==
  \/ killswitch(active) /\ routes = "full" /\ UNCHANGED routes
  \/ ~killswitch(active) /\ routes' = "none"

ReleaseHoldErr ==
  \/ killswitch(active) /\ ("routes" \in Faults \/ routes # "full") /\ UNCHANGED routes
  \/ ~killswitch(active) /\ "routes" \in Faults /\ FailedRemove

StopProcess == xray' = "none" /\ owner' = None /\ bound' = "none"

-----------------------------------------------------------------------------
(* Requests of clients, and the runtime monitor. *)

Connect(r) ==
  /\ pc = "idle"
  /\ BeginConnect(r, "client", phase)
  /\ UNCHANGED <<fallback, backend, process, routes, disk, armed>>

Disconnect(k) ==
  /\ pc = "idle"
  /\ BeginDisconnect(k, "client")
  /\ armed' = (armed /\ k)
  /\ UNCHANGED <<fallback, backend, process, routes, disk>>

\* Mutation: a process that was started but has exited counts as running.
AuditMissing ==
  /\ pc = "idle" /\ phase = "Connected" /\ xray = "none"
  /\ pc' = "clearPersist" /\ origin' = "monitor" /\ keep' = killswitch(active)
  /\ UNCHANGED <<phase, request, saved, fallback, backend, process, routes, disk, armed>>

\* Mutation: unexpected_failure_keep_blocked reads the candidate.
AuditCandidate ==
  /\ pc = "idle" /\ phase = "Connected" /\ xray \in {"none", "dead"}
  /\ pc' = "clearPersist" /\ origin' = "monitor" /\ keep' = killswitch(candidate)
  /\ UNCHANGED <<phase, request, saved, fallback, backend, process, routes, disk, armed>>

\* audit_runtime: only a Connected controller whose process is gone acts.
Audit ==
  /\ pc = "idle" /\ phase = "Connected" /\ xray \in {"none", "dead"}
  /\ pc' = "clearPersist" /\ origin' = "monitor" /\ keep' = killswitch(active)
  /\ UNCHANGED <<phase, request, saved, fallback, backend, process, routes, disk, armed>>

-----------------------------------------------------------------------------
(* connect(): validate, hold. *)

(***************************************************************************)
(* best_outbound_interface_name: the adapter of the route that wins for    *)
(* the endpoint.  The tunnel's routes win over the blackhole, which wins   *)
(* over the physical default route; an answer that is the tunnel is an     *)
(* error.  A starting process may or may not have its routes yet.          *)
(***************************************************************************)
Underneath ==
  (IF routes # "full" THEN {"physical"} ELSE {}) \cup
  (IF routes # "none" THEN {"loopback"} ELSE {})

BestInterfaces ==
  (IF xray \in {"starting", "up"} THEN {"tunnel"} ELSE {}) \cup
  (IF xray # "up" THEN Underneath ELSE {})

CandidateInterfaces == IF active # None THEN {adapter.active} ELSE BestInterfaces

ValidateOk ==
  /\ pc = "validate"
  /\ \E i \in CandidateInterfaces \ {"tunnel"} : adapter' = [adapter EXCEPT !.candidate = i]
  /\ candidate' = request
  /\ Goto("persistHold", "Holding")
  /\ UNCHANGED <<active, previous, process, routes, disk, armed>>

ValidateErr ==
  /\ pc = "validate" /\ ("probe" \in Faults \/ "tunnel" \in CandidateInterfaces)
  /\ Throw(saved)
  /\ UNCHANGED <<backend, process, routes, disk, armed>>

\* Mutation: the record names previous_request, which is not set yet.
PersistHoldForgetful ==
  /\ pc = "persistHold"
  /\ disk' = Connecting(candidate, previous, killswitch(candidate))
  /\ armed' = (armed /\ (origin # "client" \/ saved = "Connected" \/ killswitch(candidate)))
  /\ Goto("installHold", phase)
  /\ UNCHANGED <<backend, process, routes>>

\* From here a connect without kill switch gives up a hold that no tunnel needs.
PersistHoldOk ==
  /\ pc = "persistHold"
  /\ disk' = Connecting(candidate, active, killswitch(candidate))
  /\ armed' = (armed /\ (origin # "client" \/ saved = "Connected" \/ killswitch(candidate)))
  /\ Goto("installHold", phase)
  /\ UNCHANGED <<backend, process, routes>>

PersistHoldErr ==
  /\ pc = "persistHold" /\ "persist" \in Faults
  /\ Throw(saved)
  /\ UNCHANGED <<backend, process, routes, disk, armed>>

InstallHoldOk ==
  /\ pc = "installHold"
  /\ routes' = IF HoldRequired THEN "full" ELSE routes
  /\ Goto("verifyHold", phase)
  /\ UNCHANGED <<backend, process, disk, armed>>

InstallHoldErr ==
  /\ pc = "installHold" /\ HoldRequired /\ "routes" \in Faults
  /\ FailedInstall
  /\ Throw(saved)
  /\ UNCHANGED <<backend, process, disk, armed>>

VerifyHoldOk ==
  /\ pc = "verifyHold" /\ (HoldRequired => routes = "full")
  /\ IF saved = "Connected" THEN Goto("stopActive", phase) ELSE Goto("start", "Starting")
  /\ UNCHANGED <<backend, process, routes, disk, armed>>

VerifyHoldErr ==
  /\ pc = "verifyHold" /\ HoldRequired /\ ("routes" \in Faults \/ routes # "full")
  /\ Goto("undoHold", phase)
  /\ UNCHANGED <<backend, process, routes, disk, armed>>

UndoHoldOk ==
  /\ pc = "undoHold" /\ ReleaseHoldOk
  /\ Throw(saved)
  /\ UNCHANGED <<backend, process, disk, armed>>

UndoHoldErr ==
  /\ pc = "undoHold" /\ ReleaseHoldErr
  /\ Throw("BlockedError")
  /\ UNCHANGED <<backend, process, disk, armed>>

-----------------------------------------------------------------------------
(* connect(): switch to the candidate. *)

\* Mutation: the active request is dropped instead of kept for a restore.
StopActiveForgetful ==
  /\ pc = "stopActive"
  /\ active' = None
  /\ adapter' = [adapter EXCEPT !.active = "none"]
  /\ StopProcess
  /\ UNCHANGED <<previous, candidate, routes, disk, armed>>

\* stop_active; the handle is taken first, so the process dies with it either way.
StopActive ==
  /\ pc = "stopActive"
  /\ previous' = active /\ active' = None
  /\ adapter' = [adapter EXCEPT !.previous = adapter.active, !.active = "none"]
  /\ StopProcess
  /\ UNCHANGED <<candidate, routes, disk, armed>>

StopActiveOk  == StopActive /\ Goto("start", "Starting")
StopActiveErr == "stop" \in Faults /\ StopActive /\ Throw("BlockedError")

StartOk ==
  /\ pc = "start"
  /\ xray' = "starting" /\ owner' = candidate /\ bound' = adapter.candidate
  /\ Goto("verify", phase)
  /\ UNCHANGED <<backend, routes, disk, armed>>

StartErr ==
  /\ pc = "start" /\ "start" \in Faults
  /\ Recover
  /\ UNCHANGED <<backend, process, routes, disk, armed>>

VerifyOk ==
  /\ pc = "verify" /\ xray = "starting"
  /\ xray' = "up"
  /\ Goto("commit", phase)
  /\ UNCHANGED <<owner, bound, backend, routes, disk, armed>>

VerifyErr ==
  /\ pc = "verify" /\ ("health" \in Faults \/ xray = "dead")
  /\ Recover
  /\ UNCHANGED <<backend, process, routes, disk, armed>>

CommitOk ==
  /\ pc = "commit" /\ xray = "up"
  /\ disk' = Connected(request)
  /\ active' = request /\ previous' = None /\ candidate' = None
  /\ adapter' = [NoAdapter EXCEPT !.active = adapter.candidate]
  /\ armed' = killswitch(request)
  /\ Goto("release", phase)
  /\ UNCHANGED <<process, routes>>

CommitErr ==
  /\ pc = "commit" /\ ({"health", "persist"} \cap Faults # {} \/ xray = "dead")
  /\ Recover
  /\ UNCHANGED <<backend, process, routes, disk, armed>>

ReleaseOk ==
  /\ pc = "release" /\ ReleaseHoldOk
  /\ Settle("Connected")
  /\ UNCHANGED <<backend, process, disk, armed>>

ReleaseErr ==
  /\ pc = "release" /\ ReleaseHoldErr
  /\ Throw("BlockedError")
  /\ UNCHANGED <<backend, process, disk, armed>>

-----------------------------------------------------------------------------
(* restore_previous and the release after it. *)

RestoreStop ==
  /\ pc = "restoreStop"
  /\ StopProcess
  /\ UNCHANGED <<backend, routes, disk, armed>>

RestoreStopOk  == RestoreStop /\ Goto("restoreStart", phase)
RestoreStopErr == "stop" \in Faults /\ RestoreStop /\ Throw("BlockedError")

\* The request leaves previous_request before the start; owner keeps it.
RestoreStartOk ==
  /\ pc = "restoreStart" /\ previous # None
  /\ xray' = "starting" /\ owner' = previous /\ bound' = adapter.previous
  /\ previous' = None /\ adapter' = [adapter EXCEPT !.previous = "none"]
  /\ Goto("restoreVerify", phase)
  /\ UNCHANGED <<active, candidate, routes, disk, armed>>

RestoreStartErr ==
  /\ pc = "restoreStart" /\ ("start" \in Faults \/ previous = None)
  /\ previous' = None /\ adapter' = [adapter EXCEPT !.previous = "none"]
  /\ Throw("BlockedError")
  /\ UNCHANGED <<active, candidate, process, routes, disk, armed>>

RestoreVerifyOk ==
  /\ pc = "restoreVerify" /\ xray = "starting"
  /\ xray' = "up"
  /\ disk' = Connected(owner)
  /\ active' = owner /\ candidate' = None
  /\ adapter' = [adapter EXCEPT !.active = bound, !.candidate = "none"]
  /\ Goto("restoreRelease", phase)
  /\ UNCHANGED <<owner, bound, previous, routes, armed>>

RestoreVerifyErr ==
  /\ pc = "restoreVerify" /\ ({"health", "persist"} \cap Faults # {} \/ xray = "dead")
  /\ Throw("BlockedError")
  /\ UNCHANGED <<backend, process, routes, disk, armed>>

RestoreReleaseOk ==
  /\ pc = "restoreRelease" /\ ReleaseHoldOk
  /\ Throw(saved)
  /\ UNCHANGED <<backend, process, disk, armed>>

RestoreReleaseErr ==
  /\ pc = "restoreRelease" /\ ReleaseHoldErr
  /\ Throw("BlockedError")
  /\ UNCHANGED <<backend, process, disk, armed>>

-----------------------------------------------------------------------------
(* clear_network_state, for disconnect, recovery and the monitor alike. *)

ClearPersistOk ==
  /\ pc = "clearPersist"
  /\ disk' = Disconnecting(keep)
  /\ Goto("clearStop", phase)
  /\ UNCHANGED <<backend, process, routes, armed>>

ClearPersistErr ==
  /\ pc = "clearPersist" /\ "persist" \in Faults
  /\ Throw("BlockedError")
  /\ UNCHANGED <<backend, process, routes, disk, armed>>

ClearStopOk ==
  /\ pc = "clearStop"
  /\ StopProcess
  /\ active' = None /\ previous' = None /\ candidate' = None /\ adapter' = NoAdapter
  /\ Goto("clearRoutes", phase)
  /\ UNCHANGED <<routes, disk, armed>>

ClearStopErr ==
  /\ pc = "clearStop" /\ "stop" \in Faults /\ xray # "none"
  /\ StopProcess
  /\ Throw("BlockedError")
  /\ UNCHANGED <<backend, routes, disk, armed>>

ClearRoutesOk ==
  /\ pc = "clearRoutes"
  /\ routes' = IF keep THEN "full" ELSE "none"
  /\ Goto("clearFinish", phase)
  /\ UNCHANGED <<backend, process, disk, armed>>

ClearRoutesErr ==
  /\ pc = "clearRoutes" /\ "routes" \in Faults
  /\ FailedClear
  /\ Throw("BlockedError")
  /\ UNCHANGED <<backend, process, disk, armed>>

\* A connect that got here still returns the error of its candidate.
ClearFinishOk ==
  /\ pc = "clearFinish"
  /\ disk' = IF keep THEN Blocked ELSE Disconnected
  /\ armed' = (armed \/ keep)
  /\ LET p == IF keep THEN "Blocked" ELSE "Disconnected"
     IN  IF request = None THEN Settle(p) ELSE Throw(p)
  /\ UNCHANGED <<backend, process, routes>>

ClearFinishErr ==
  /\ pc = "clearFinish" /\ "persist" \in Faults
  /\ Throw("BlockedError")
  /\ UNCHANGED <<backend, process, routes, disk, armed>>

-----------------------------------------------------------------------------
(* The environment, and the life of the service process. *)

XrayExits ==
  /\ xray \in {"starting", "up"}
  /\ xray' = "dead"
  /\ UNCHANGED <<controller, backend, owner, bound, routes, disk, armed>>

\* The service dies within a sequence of route commands.
Interrupted ==
  \/ pc = "installHold" /\ HoldRequired /\ FailedInstall
  \/ pc \in {"undoHold", "release", "restoreRelease"} /\ ~killswitch(active) /\ FailedRemove
  \/ pc = "clearRoutes" /\ FailedClear

\* A kill, a shutdown that aborts its client tasks, or a power loss.  The job
\* object takes Xray along; memory is lost, the record stays.
Crash ==
  /\ pc # "down"
  /\ pc' = "down" /\ phase' = "Disconnected" /\ origin' = "none" /\ request' = None
  /\ saved' = "Disconnected" /\ keep' = FALSE /\ fallback' = FALSE
  /\ active' = None /\ previous' = None /\ candidate' = None /\ adapter' = NoAdapter
  /\ StopProcess
  /\ \/ UNCHANGED routes
     \/ "routes" \in Faults /\ Interrupted
     \/ "reboot" \in Faults /\ routes' = "none"
  /\ UNCHANGED <<disk, armed>>

\* RuntimeExecutor::open with the record d.
Resume(d) ==
  /\ fallback' = KeepBlockedOnFailure(d)
  /\ IF RecoveryRequest(d) # None
     THEN BeginConnect(RecoveryRequest(d), "boot", "Disconnected")
     ELSE BeginDisconnect(RecoveryKeepBlocked(d), "boot")

Boot ==
  /\ pc = "down"
  /\ \/ Resume(disk)
     \/ "load" \in Faults /\ Resume(Absent)
  /\ UNCHANGED <<backend, process, routes, disk, armed>>

\* varmlen-service --cleanup, run by the uninstaller.
CleanupOk ==
  /\ pc = "down"
  /\ routes' = "none" /\ disk' = Absent /\ armed' = FALSE
  /\ UNCHANGED <<controller, backend, process>>

\* The record outlives a removal of the routes that fails, or its own removal.
CleanupErr ==
  /\ pc = "down"
  /\ \/ "routes" \in Faults /\ FailedRemove
     \/ "persist" \in Faults /\ routes' = "none"
  /\ armed' = FALSE
  /\ UNCHANGED <<controller, backend, process, disk>>

-----------------------------------------------------------------------------
ConnectStep ==
  \/ ValidateOk \/ ValidateErr \/ PersistHoldOk \/ PersistHoldErr
  \/ InstallHoldOk \/ InstallHoldErr \/ VerifyHoldOk \/ VerifyHoldErr
  \/ UndoHoldOk \/ UndoHoldErr \/ StopActiveOk \/ StopActiveErr
  \/ StartOk \/ StartErr \/ VerifyOk \/ VerifyErr
  \/ CommitOk \/ CommitErr \/ ReleaseOk \/ ReleaseErr

RestoreStep ==
  \/ RestoreStopOk \/ RestoreStopErr \/ RestoreStartOk \/ RestoreStartErr
  \/ RestoreVerifyOk \/ RestoreVerifyErr \/ RestoreReleaseOk \/ RestoreReleaseErr

ClearStep ==
  \/ ClearPersistOk \/ ClearPersistErr \/ ClearStopOk \/ ClearStopErr
  \/ ClearRoutesOk \/ ClearRoutesErr \/ ClearFinishOk \/ ClearFinishErr

OperationStep == ConnectStep \/ RestoreStep \/ ClearStep

Next ==
  \/ \E r \in Requests : Connect(r)
  \/ \E k \in BOOLEAN : Disconnect(k)
  \/ Audit
  \/ OperationStep
  \/ XrayExits \/ Crash \/ Boot \/ CleanupOk \/ CleanupErr

Spec == Init /\ [][Next]_vars

(***************************************************************************)
(* Every backend call returns: the waits of the code are bounded.  The     *)
(* service manager restarts a service that died (installer-hooks.nsh).     *)
(* The monitor ticks every 500 ms and the tokio mutex is handed over in    *)
(* FIFO order, so clients cannot keep it out for ever.  Nobody has to ask  *)
(* for a connection.                                                       *)
(***************************************************************************)
Fairness == WF_vars(OperationStep) /\ WF_vars(Boot) /\ SF_vars(Audit)

FairSpec == Spec /\ Fairness

-----------------------------------------------------------------------------
(* Properties. *)

\* A connection that status reports is the one a restarted service would bring
\* back, and the one its process was started for (commit_policy,
\* restore_previous).
ConnectedIsRecoverable ==
  pc = "idle" /\ phase = "Connected" =>
    /\ active # None /\ owner = active /\ xray # "none"
    /\ RecoveryRequest(disk) = active

\* Between the end of the old tunnel and the new one's commit, the old
\* connection is known both to restore_previous and to a restarted service.
SwitchIsUndoable ==
  saved = "Connected" /\ pc \in {"start", "verify", "commit", "restoreStop", "restoreStart"} =>
    previous # None /\ RecoveryRequest(disk) = previous

\* While a candidate is started, and while its predecessor is restored, the
\* blackhole is up whenever the record asks for it (install_transition_hold).
SwitchIsCovered ==
  /\ pc \in {"stopActive", "start", "verify", "commit",
             "restoreStop", "restoreStart", "restoreVerify"}
  /\ KeepBlockedOnFailure(disk)
  => routes = "full"

\* A promise of the kill switch can be read from the record at any moment, so
\* that a service killed there and then restarts closed (open()).
DurableIntent == armed => KeepBlockedOnFailure(disk)

\* As long as the user has not let go of the kill switch, no sequence of
\* failures, crashes and recoveries ends in "Disconnected".
NeverSilentlyOpen == armed /\ pc = "idle" => phase # "Disconnected"

\* Nothing captures the traffic: neither a running tunnel nor the blackhole.
Exposed == xray # "up" /\ routes # "full"

\* The kill switch: from the promise until the user lets go, between any two
\* backend calls, traffic goes into the tunnel or into the blackhole.
FailClosed == armed => ~Exposed

\* "Disconnected" means that nothing of Varmlen is left on the host.
DisconnectedIsOpen ==
  pc = "idle" /\ phase = "Disconnected" => xray = "none" /\ active = None /\ routes = "none"

\* Whatever fails, an operation gives the mutex back.
OperationTerminates == (pc \in Steps) ~> (pc \in {"idle", "down"})

\* A tunnel that died does not stay "Connected" (run_runtime_monitor).
DeadTunnelNoticed ==
  (pc = "idle" /\ phase = "Connected" /\ xray = "dead") ~> (phase # "Connected" \/ xray # "dead")

\* A host that stops restarting the service ends up closed again after a reboot
\* took the blackhole away, because open() replays the record.
StaysUp == <>[][pc # "down" => pc' # "down"]_vars
RecoversClosed == StaysUp => (armed /\ Exposed ~> ~armed \/ ~Exposed)

\* While the kill switch is promised, "Blocked" is reported only over a blackhole
\* that is there, reconnect attempts included.
BlockedMeansHeld == armed /\ pc = "idle" /\ phase = "Blocked" => routes = "full"

\* The candidate is bound to the physical adapter, never to a route of the
\* service's own (validate_candidate, best_outbound_interface_name).
CandidateIsPhysical == pc = "start" => adapter.candidate = "physical"

-----------------------------------------------------------------------------
(***************************************************************************)
(* ServiceRuntime implements ConnectionService.  The tunnel in force is    *)
(* the connection a restarted service would resume.                        *)
(***************************************************************************)
ClientConnect == pc \in Steps /\ origin = "client" /\ request # None

Service == INSTANCE ConnectionService WITH
  status <- IF pc = "down" THEN "Down"
            ELSE IF pc = "idle" THEN phase
            ELSE IF ClientConnect THEN saved ELSE "Busy",
  tunnel <- RecoveryRequest(disk),
  job    <- [kind   |-> IF pc \in {"idle", "down"} THEN "none"
                        ELSE IF pc = "release" THEN "established"
                        ELSE IF ClientConnect THEN "connect"
                        ELSE IF origin \in {"client", "monitor"} THEN "clear" ELSE "recover",
             target |-> request,
             keep   |-> origin \in {"client", "monitor"} /\ request = None /\ keep]

\* Every step is a step of the promised service or invisible to its clients.
ImplementsService == Service!Spec
=============================================================================
