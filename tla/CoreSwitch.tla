----------------------------- MODULE CoreSwitch -----------------------------
(***************************************************************************)
(* The managed Xray core: CoreManager (service/src/core_manager.rs) and    *)
(* RuntimeExecutor::execute_core (service/src/pipe.rs), composed with the  *)
(* connections VarmlenService promises (ConnectionService, which           *)
(* ServiceRuntime implements).                                             *)
(*                                                                         *)
(* Here a connection request is told from another by its xray_version      *)
(* alone, so that tunnel is the version a restarted service would resume.  *)
(* core_operations serialises installing, activating and removing a core   *)
(* with connecting; the controller's mutex is taken inside it.  Neither a  *)
(* disconnect nor the monitor takes core_operations: they interleave with  *)
(* a core operation wherever it does not hold the controller.              *)
(*                                                                         *)
(* Faults names the kinds of step that may fail:                           *)
(*   "release"  the release or its download is refused or breaks off       *)
(*   "program"  the official archive holds another program                 *)
(*   "file"     a file operation of the core manager                       *)
(*   "run"      running xray.exe version                                   *)
(*   "power"    power is lost: an asset that was never flushed is missing, *)
(*              empty, or has a length but not its contents                *)
(*                                                                         *)
(* A version has a directory of its own.  valid_tag lets through "..", and *)
(* tags that end in dots, which name another's; the GUI sends none of them *)
(* and they are left out.                                                  *)
(*                                                                         *)
(* The client's "uninstall the active version" (core.svelte.ts) is its     *)
(* Activate of another version followed by an Uninstall.                   *)
(***************************************************************************)
EXTENDS ConnectionService

CONSTANTS
  Downloads,  \* the versions GitHub offers besides the bundled one
  Bundled,    \* BUNDLED_XRAY_VERSION
  Faults

FaultKinds == {"release", "program", "file", "run", "power"}

Versions == Downloads \cup {Bundled}

ASSUME CoreAssumption ==
  /\ Bundled \notin Downloads /\ None \notin Versions
  /\ Requests = Versions
  /\ Faults \subseteq FaultKinds

VARIABLES
  tag,     \* the contents of active-xray.txt, None while there is no such file
  exe,     \* binary_for(version): none, good, or another program
  asset,   \* the runtime assets staged beside it: none, whole, empty, or
           \* damaged: too short, or with zeroes for contents
  temp,    \* .xray-<version>.exe in the state directory
  op,      \* the operation that holds core_operations
  adrift   \* the live connection was resumed by a restart, or a rollback failed

core     == <<tag, exe, asset, temp, op, adrift>>
allVars  == <<vars, core>>

Programs == {"none", "good", "bad"}
Assets   == {"none", "whole", "empty", "damaged"}

Op(kind, version, old, step) == [kind |-> kind, version |-> version, old |-> old, step |-> step]
NoOp == Op("none", None, None, "none")

OpSteps ==
  [none |-> {"none"}, connect |-> {"request", "switch"},
   install |-> {"download", "extract", "verify", "place"},
   activate |-> {"check", "write", "decide", "switch", "rollback"},
   uninstall |-> {"remove"}]

TypeOK ==
  /\ status \in {"Down", "Busy", "Disconnected", "Connected", "Blocked", "BlockedError"}
  /\ tunnel \in Versions \cup {None}
  /\ job \in [kind: {"none", "connect", "established", "clear", "recover"},
              target: Versions \cup {None}, keep: BOOLEAN]
  /\ tag \in Versions \cup {None}
  /\ exe \in [Versions -> Programs]
  /\ asset \in [Versions -> Assets]
  /\ temp \in [Versions -> Programs \cup {"partial"}]
  /\ \E k \in DOMAIN OpSteps : op \in [kind: {k}, version: Versions \cup {None},
                                       old: Versions \cup {None}, step: OpSteps[k]]
  /\ adrift \in BOOLEAN

\* The bundled core and its assets belong to the installation.
CoreInit ==
  /\ Init
  /\ tag = None /\ op = NoOp /\ adrift = FALSE
  /\ exe = [v \in Versions |-> IF v = Bundled THEN "good" ELSE "none"]
  /\ asset = [v \in Versions |-> IF v = Bundled THEN "whole" ELSE "none"]
  /\ temp = [v \in Versions |-> "none"]

-----------------------------------------------------------------------------
(* What is on the disk. *)

\* resolve_binary: binary_for(v).is_file()
IsInstalled(v) == exe[v] # "none"

\* active_tag(): a tag that cannot be resolved means the bundled core.
active_tag == IF tag # None /\ IsInstalled(tag) THEN tag ELSE Bundled

\* Mutation: whatever carries the name of an asset will do.
StageUnseen(v) ==
  /\ IsInstalled(v)
  /\ asset' = IF asset[v] = "none" THEN [asset EXCEPT ![v] = "whole"] ELSE asset

\* runtime_layout: an asset that is there already has to have a length, and
\* nothing else is asked of it.
Stage(v) ==
  /\ IsInstalled(v) /\ asset[v] # "empty"
  /\ asset' = IF asset[v] = "none" THEN [asset EXCEPT ![v] = "whole"] ELSE asset

\* verify_xray_version: it runs the program and compares what that reports.
Verifies(program) == program = "good"

-----------------------------------------------------------------------------
(***************************************************************************)
(* The controller's mutex.  Activate keeps it from its decision to the end *)
(* of the rollback, beyond the job it starts.                              *)
(***************************************************************************)
ControllerIsFree == Listening /\ op.step # "rollback"

OpConnects == op.step = "switch"

\* A client's disconnect, and the monitor: neither waits for core_operations.
ClientDisconnect == ControllerIsFree /\ (\E k \in BOOLEAN : Disconnect(k)) /\ UNCHANGED core
TunnelLost       == ControllerIsFree /\ Lose /\ UNCHANGED core

\* The core manager exists from the moment open() has finished recovering.
OperationsFree == op = NoOp /\ status # "Down" /\ job.kind \notin {"recover", "established"}

BeginOp(kind, version, old, step) ==
  /\ OperationsFree
  /\ op' = Op(kind, version, old, step)
  /\ UNCHANGED <<vars, tag, exe, asset, temp, adrift>>

EndOp == op' = NoOp

Goto(step) == op' = [op EXCEPT !.step = step]

-----------------------------------------------------------------------------
(* Connecting: the request is given the active version, then the controller. *)

BeginConnect == BeginOp("connect", active_tag, None, "request")

RequestConnect ==
  /\ op.kind = "connect" /\ op.step = "request" /\ ControllerIsFree
  /\ Connect(op.version)
  /\ Goto("switch")
  /\ UNCHANGED <<tag, exe, asset, temp, adrift>>

\* validate_candidate and restore_previous resolve and stage the request's core.
BringUp ==
  /\ Establish
  /\ Stage(job.target)
  /\ UNCHANGED <<tag, exe, temp, op, adrift>>

\* The steps of a connection that do not concern the core.
GiveUpTunnel == (Drop \/ GiveUpRecovery) /\ UNCHANGED core
SettleIdle   == (Clear \/ Settle) /\ UNCHANGED core
BreakClear   == ~OpConnects /\ Break /\ UNCHANGED core

ConnectionUp ==
  /\ Succeed
  /\ IF OpConnects THEN EndOp /\ adrift' = FALSE ELSE UNCHANGED <<op, adrift>>
  /\ UNCHANGED <<tag, exe, asset, temp>>

\* Mutation: a switch that fails leaves the new version active.
ConnectionFailsKeepTag ==
  /\ OpConnects /\ (Reject \/ Fall \/ Break)
  /\ EndOp
  /\ UNCHANGED <<tag, exe, asset, temp, adrift>>

\* Mutation: a failed connect is answered by a rollback, too.
ConnectionFailsBack ==
  /\ OpConnects /\ (Reject \/ Fall \/ Break)
  /\ Goto("rollback")
  /\ UNCHANGED <<tag, exe, asset, temp, adrift>>

\* The candidate's validation has staged its assets, or failed before.
ConnectionFails ==
  /\ OpConnects /\ (Reject \/ Fall \/ Break)
  /\ IF op.kind = "activate" THEN Goto("rollback") ELSE EndOp
  /\ UNCHANGED asset \/ Stage(op.version)
  /\ UNCHANGED <<tag, exe, temp, adrift>>

-----------------------------------------------------------------------------
(***************************************************************************)
(* install(): the release, its download and its checksum, the extraction   *)
(* into a file that must not exist, the version check, the move.           *)
(***************************************************************************)
BeginInstall(v) == BeginOp("install", v, None, "download")

Installing(step) == op.kind = "install" /\ op.step = step

\* TemporaryFiles is dropped with the operation, whatever its outcome.
EndInstall == EndOp /\ temp' = [temp EXCEPT ![op.version] = "none"]

AlreadyInstalled ==
  /\ Installing("download") /\ IsInstalled(op.version)
  /\ EndOp
  /\ UNCHANGED <<vars, tag, exe, asset, temp, adrift>>

\* select_release_asset and the download: official, of the declared size and digest.
Download ==
  /\ Installing("download") /\ ~IsInstalled(op.version)
  /\ Goto("extract")
  /\ UNCHANGED <<vars, tag, exe, asset, temp, adrift>>

\* The release may be refused before there are any temporary files.
DownloadFails ==
  /\ Installing("download") /\ ~IsInstalled(op.version) /\ "release" \in Faults
  /\ EndOp
  /\ temp' \in {temp, [temp EXCEPT ![op.version] = "none"]}
  /\ UNCHANGED <<vars, tag, exe, asset, adrift>>

Extract ==
  /\ Installing("extract") /\ temp[op.version] = "none"
  /\ \E program \in {"good"} \cup (IF "program" \in Faults THEN {"bad"} ELSE {}) :
       temp' = [temp EXCEPT ![op.version] = program]
  /\ Goto("verify")
  /\ UNCHANGED <<vars, tag, exe, asset, adrift>>

\* create_new: a file that an earlier service left behind is in the way, once.
ExtractFails ==
  /\ Installing("extract") /\ ("file" \in Faults \/ temp[op.version] # "none")
  /\ EndInstall
  /\ UNCHANGED <<vars, tag, exe, asset, adrift>>

\* Mutation: the checksum of the archive is trusted to name the version.
VerifyNothing ==
  /\ Installing("verify")
  /\ Goto("place")
  /\ UNCHANGED <<vars, tag, exe, asset, temp, adrift>>

Verify ==
  /\ Installing("verify") /\ Verifies(temp[op.version])
  /\ Goto("place")
  /\ UNCHANGED <<vars, tag, exe, asset, temp, adrift>>

VerifyFails ==
  /\ Installing("verify") /\ ("run" \in Faults \/ ~Verifies(temp[op.version]))
  /\ EndInstall
  /\ UNCHANGED <<vars, tag, exe, asset, adrift>>

Place ==
  /\ Installing("place")
  /\ exe' = [exe EXCEPT ![op.version] = temp[op.version]]
  /\ EndInstall
  /\ UNCHANGED <<vars, tag, asset, adrift>>

PlaceFails ==
  /\ Installing("place") /\ "file" \in Faults
  /\ EndInstall
  /\ UNCHANGED <<vars, tag, exe, asset, adrift>>

-----------------------------------------------------------------------------
(***************************************************************************)
(* Activate: the tag is written first; then a live connection is switched  *)
(* to the new version, and the tag written back if that fails.             *)
(***************************************************************************)
BeginActivate(v) == BeginOp("activate", v, active_tag, "check")

Activating(step) == op.kind = "activate" /\ op.step = step

CheckCore ==
  /\ Activating("check") /\ IsInstalled(op.version) /\ Verifies(exe[op.version])
  /\ Goto("write")
  /\ UNCHANGED <<vars, tag, exe, asset, temp, adrift>>

CheckFails ==
  /\ Activating("check")
  /\ "run" \in Faults \/ ~IsInstalled(op.version) \/ ~Verifies(exe[op.version])
  /\ EndOp
  /\ UNCHANGED <<vars, tag, exe, asset, temp, adrift>>

WriteTag ==
  /\ Activating("write")
  /\ tag' = op.version
  /\ IF op.version = op.old THEN EndOp ELSE Goto("decide")
  /\ UNCHANGED <<vars, exe, asset, temp, adrift>>

WriteFails ==
  /\ Activating("write") /\ "file" \in Faults
  /\ EndOp
  /\ UNCHANGED <<vars, tag, exe, asset, temp, adrift>>

\* The phase is read under the controller's mutex, which a disconnect or the
\* monitor may have had in the meantime.  A connected controller has an active
\* request (ServiceRuntime's ConnectedIsRecoverable).
SwitchNow ==
  /\ Activating("decide") /\ ControllerIsFree /\ status = "Connected"
  /\ Connect(op.version)
  /\ Goto("switch")
  /\ UNCHANGED <<tag, exe, asset, temp, adrift>>

\* Mutation: the blocked phases are forgotten.
SwitchLaterIfOpen ==
  /\ Activating("decide") /\ ControllerIsFree /\ status = "Disconnected"
  /\ EndOp
  /\ UNCHANGED <<vars, tag, exe, asset, temp, adrift>>

SwitchLater ==
  /\ Activating("decide") /\ ControllerIsFree /\ status # "Connected"
  /\ EndOp
  /\ UNCHANGED <<vars, tag, exe, asset, temp, adrift>>

\* activate(&old_tag): the same check and write, whose failure is only reported.
Rollback ==
  /\ Activating("rollback") /\ IsInstalled(op.old) /\ Verifies(exe[op.old])
  /\ tag' = op.old
  /\ EndOp
  /\ UNCHANGED <<vars, exe, asset, temp, adrift>>

RollbackFails ==
  /\ Activating("rollback") /\ Faults \cap {"run", "file"} # {}
  /\ EndOp /\ adrift' = TRUE
  /\ UNCHANGED <<vars, tag, exe, asset, temp>>

-----------------------------------------------------------------------------
(* Uninstall: every version but the bundled and the active one. *)

\* Mutation: only the bundled version is refused.
MayRemoveActive(v) == v # Bundled

MayRemove(v) == v # Bundled /\ v # active_tag

\* Mutation: Uninstall does not wait for core_operations.
RemoveUnlocked(v) ==
  /\ status # "Down" /\ MayRemove(v)
  /\ exe' = [exe EXCEPT ![v] = "none"]
  /\ UNCHANGED <<vars, tag, asset, temp, op, adrift>>

BeginUninstall(v) == BeginOp("uninstall", v, None, "remove")

Uninstalling == op.kind = "uninstall"

Refuse ==
  /\ Uninstalling /\ ~MayRemove(op.version)
  /\ EndOp
  /\ UNCHANGED <<vars, tag, exe, asset, temp, adrift>>

Remove ==
  /\ Uninstalling /\ MayRemove(op.version)
  /\ exe' = [exe EXCEPT ![op.version] = "none"]
  /\ asset' = [asset EXCEPT ![op.version] = "none"]
  /\ EndOp
  /\ UNCHANGED <<vars, tag, temp, adrift>>

\* remove_dir_all stops half-way: a file that is in use stays.
PartlyRemoved ==
  /\ Uninstalling /\ MayRemove(op.version)
  /\ exe' \in {exe, [exe EXCEPT ![op.version] = "none"]}
  /\ asset' \in {asset, [asset EXCEPT ![op.version] = "none"]}

RemoveFails ==
  /\ "file" \in Faults /\ PartlyRemoved
  /\ EndOp
  /\ UNCHANGED <<vars, tag, temp, adrift>>

-----------------------------------------------------------------------------
(* The life of the service. *)

\* What a service that dies may have done of the step it was at.
Unfinished ==
  \/ UNCHANGED <<exe, asset, temp>>
  \/ PartlyRemoved /\ UNCHANGED temp
  \/ /\ Installing("extract") /\ temp[op.version] = "none"
     /\ temp' = [temp EXCEPT ![op.version] = "partial"]
     /\ UNCHANGED <<exe, asset>>
  \/ /\ "power" \in Faults
     /\ \E v \in Downloads, a \in Assets :
          asset[v] = "whole" /\ asset' = [asset EXCEPT ![v] = a]
     /\ UNCHANGED <<exe, temp>>

Die ==
  /\ Crash
  /\ Unfinished
  /\ EndOp /\ adrift' = TRUE
  /\ UNCHANGED tag

Restart == Recover /\ UNCHANGED core

-----------------------------------------------------------------------------
InstallStep ==
  \/ AlreadyInstalled \/ Download \/ DownloadFails \/ Extract \/ ExtractFails
  \/ Verify \/ VerifyFails \/ Place \/ PlaceFails

ActivateStep ==
  \/ CheckCore \/ CheckFails \/ WriteTag \/ WriteFails
  \/ SwitchNow \/ SwitchLater \/ Rollback \/ RollbackFails

UninstallStep == Refuse \/ Remove \/ RemoveFails

\* A step of the job, and the last one of a core operation that waits for it.
JobStep ==
  \/ BringUp \/ GiveUpTunnel
  \/ ConnectionUp \/ ConnectionFails \/ SettleIdle \/ BreakClear

CoreStep == RequestConnect \/ InstallStep \/ ActivateStep \/ UninstallStep

CoreNext ==
  \/ BeginConnect
  \/ \E v \in Versions : BeginInstall(v) \/ BeginActivate(v) \/ BeginUninstall(v)
  \/ CoreStep \/ JobStep
  \/ ClientDisconnect \/ TunnelLost \/ Die \/ Restart

CoreSpec == CoreInit /\ [][CoreNext]_allVars

(***************************************************************************)
(* A job ends (ServiceRuntime's OperationTerminates), and every wait of a  *)
(* core operation is bounded by a timeout.  The controller's mutex is      *)
(* handed over in FIFO order, so that no stream of disconnects keeps it    *)
(* from an operation.                                                      *)
(***************************************************************************)
JobEnds == ConnectionUp \/ ConnectionFails \/ SettleIdle \/ BreakClear

CoreFairSpec ==
  CoreSpec /\ SF_allVars(JobEnds) /\ SF_allVars(CoreStep)

-----------------------------------------------------------------------------
(* Properties. *)

\* Only a program that reports the right version is ever moved into place,
\* whatever an interrupted or failed installation left behind (install()).
InstalledIsVerified == \A v \in Versions : exe[v] \in {"none", "good"}

\* The version active-xray.txt names is never removed behind its back, so that
\* active_tag() does not silently fall back to the bundled core (uninstall()).
TagIsInstalled == tag # None => IsInstalled(tag)

\* Between core operations a live connection runs the version the client is told
\* is active, unless it was resumed by a restart or a rollback failed
\* (execute_core: Activate, Connect).
ActiveIsRunning ==
  op = NoOp /\ job = NoJob /\ status = "Connected" /\ ~adrift => tunnel = active_tag

\* The same live connection's core stays installed through every core operation,
\* so that restoring the connection finds it (core_operations).
LiveCoreKept ==
  job = NoJob /\ status = "Connected" /\ ~adrift => IsInstalled(tunnel)

\* A tunnel comes into force on a verified program, never with missing or empty
\* assets, and with damaged ones only where a loss of power had damaged what was
\* copied but not flushed: stage_runtime_asset asks for a length, not for the
\* contents (runtime_layout).
RunsWhole ==
  [][tunnel' # None /\ tunnel' # tunnel =>
       /\ exe[tunnel'] = "good"
       /\ \/ asset'[tunnel'] = "whole"
          \/ asset[tunnel'] = "damaged" /\ "power" \in Faults]_allVars

\* Whatever fails, core_operations is released: connecting works again.
CoreOperationEnds == (op # NoOp) ~> (op = NoOp)
=============================================================================
