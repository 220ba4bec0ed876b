-------------------------- MODULE CoreSwitchProofs --------------------------
(***************************************************************************)
(* Proofs about CoreSwitch, for any set of downloadable versions and any   *)
(* faults: what is on the disk and which version a live connection runs.   *)
(*                                                                         *)
(* DiskInv is about the disk alone.  JobInv says which jobs an operation   *)
(* can meet: a job of a connect is the one that core_operations waits for, *)
(* and a job that no operation waits for cannot bring up a tunnel unless   *)
(* the service was restarted.  LiveInv says which version is in force at   *)
(* every step of an operation; ActiveIsRunning and LiveCoreKept are what   *)
(* is left of it when there is no job.                                     *)
(***************************************************************************)
EXTENDS CoreSwitch, TLAPS

-----------------------------------------------------------------------------
(* The inductive invariant. *)

\* An operation is about versions it was given, and nothing else has a step.
OpShape ==
  /\ op.kind = "none" <=> op = NoOp
  /\ op.kind # "none" => op.version \in Versions
  /\ op.kind = "activate" => op.old \in Versions /\ IsInstalled(op.old)

\* The disk: what is in place was verified, and the two versions that
\* active_tag() can resolve to are in place.
DiskInv ==
  /\ InstalledIsVerified
  /\ exe[Bundled] = "good"
  /\ TagIsInstalled
  /\ Installing("place") => Verifies(temp[op.version])

\* The tag at every step of the operations that read or write it.
TagInv ==
  /\ op.kind = "connect" => op.version = active_tag
  /\ Activating("check") \/ Activating("write") => op.old = active_tag
  /\ Activating("write") => IsInstalled(op.version)
  /\ Activating("decide") \/ Activating("switch") \/ Activating("rollback")
       => tag = op.version

\* The job at every step of an operation.
JobInv ==
  /\ job.kind = "none" => job = NoJob
  /\ status = "Down" => job = NoJob /\ op = NoOp
  /\ OpConnects <=> job.kind = "connect" \/ (job.kind = "established" /\ status # "Busy")
  /\ OpConnects => job.target = op.version
  /\ job.kind = "connect" => status # "Busy"
  /\ job.kind = "established" => tunnel = job.target
  /\ job.kind = "established" /\ status = "Busy" => op = NoOp /\ adrift
  /\ job.kind = "recover" => op = NoOp /\ status = "Busy"
  /\ job.kind = "clear" => status = "Busy"
  /\ Activating("switch") => status = "Connected"
  /\ Activating("rollback") => job = NoJob

\* A service that was never restarted has nothing to recover.
FreshInv ==
  ~adrift => /\ status = "Down" => tunnel = None
             /\ job.kind = "recover" => job.target = None

\* The version the client was last told is active: the one before, while an
\* Activate has not yet carried its own through.
LiveVersion ==
  IF Activating("decide") \/ Activating("switch") \/ Activating("rollback")
    THEN op.old ELSE active_tag

LiveInv ==
  status = "Connected" /\ ~adrift /\ job.kind \in {"none", "connect"}
    => tunnel = LiveVersion

CoreInv ==
  /\ TypeOK /\ OpShape /\ DiskInv /\ TagInv
  /\ JobInv /\ FreshInv /\ LiveInv

-----------------------------------------------------------------------------
(* Type correctness. *)

LEMMA OpStepsAre ==
  /\ DOMAIN OpSteps = {"none", "connect", "install", "activate", "uninstall"}
  /\ OpSteps["none"] = {"none"}
  /\ OpSteps["connect"] = {"request", "switch"}
  /\ OpSteps["install"] = {"download", "extract", "verify", "place"}
  /\ OpSteps["activate"] = {"check", "write", "decide", "switch", "rollback"}
  /\ OpSteps["uninstall"] = {"remove"}
BY DEF OpSteps

\* TypeOK's line about op, spelled out.
OpTyped(o) ==
  /\ o = Op(o.kind, o.version, o.old, o.step)
  /\ o.version \in Versions \cup {None} /\ o.old \in Versions \cup {None}
  /\ \/ o.kind = "none" /\ o.step = "none"
     \/ o.kind = "connect" /\ o.step \in {"request", "switch"}
     \/ o.kind = "install" /\ o.step \in {"download", "extract", "verify", "place"}
     \/ o.kind = "activate" /\ o.step \in {"check", "write", "decide", "switch", "rollback"}
     \/ o.kind = "uninstall" /\ o.step = "remove"

\* An operation is at one of the steps of its kind.
LEMMA OpType ==
  ASSUME NEW o
  PROVE  OpTyped(o) <=> \E k \in DOMAIN OpSteps :
                          o \in [kind: {k}, version: Versions \cup {None},
                                old: Versions \cup {None}, step: OpSteps[k]]
<1>1. ASSUME OpTyped(o)
      PROVE  o \in [kind: {o.kind}, version: Versions \cup {None},
                   old: Versions \cup {None}, step: OpSteps[o.kind]]
             /\ o.kind \in DOMAIN OpSteps
  BY <1>1, OpStepsAre DEF OpTyped, Op
<1>2. ASSUME NEW k \in DOMAIN OpSteps,
             o \in [kind: {k}, version: Versions \cup {None},
                   old: Versions \cup {None}, step: OpSteps[k]]
      PROVE  OpTyped(o)
  BY <1>2, OpStepsAre DEF OpTyped, Op
<1> QED
  BY <1>1, <1>2

Jobs == [kind: {"none", "connect", "established", "clear", "recover"},
         target: Versions \cup {None}, keep: BOOLEAN]

\* The other lines of TypeOK.
VariablesTyped ==
  /\ status \in {"Down", "Busy", "Disconnected", "Connected", "Blocked", "BlockedError"}
  /\ tunnel \in Versions \cup {None}
  /\ job \in Jobs
  /\ tag \in Versions \cup {None}
  /\ exe \in [Versions -> Programs]
  /\ asset \in [Versions -> Assets]
  /\ temp \in [Versions -> Programs \cup {"partial"}]
  /\ adrift \in BOOLEAN

LEMMA TypeSplit ==
  /\ TypeOK <=> VariablesTyped /\ OpTyped(op)
  /\ TypeOK' <=> VariablesTyped' /\ OpTyped(op')
BY OpType, OpType, Zenon DEF TypeOK, VariablesTyped, Jobs

\* The fields of a job and of an operation, as the steps set them.
LEMMA JobFields ==
  /\ \A r \in Versions \cup {None} :
       Connect(r) => job' \in Jobs /\ job'.kind = "connect" /\ job'.target = r
  /\ (\E k \in BOOLEAN : Disconnect(k)) \/ Lose => job' \in Jobs /\ job'.kind = "clear"
  /\ tunnel \in Versions \cup {None} /\ Recover
       => job' \in Jobs /\ job'.kind = "recover" /\ job'.target \in {tunnel, None}
  /\ GiveUpRecovery => job' \in Jobs /\ job'.kind = "recover" /\ job'.target = None
<1>1. \A r \in Versions \cup {None} :
        Connect(r) => job' \in Jobs /\ job'.kind = "connect" /\ job'.target = r
  BY DEF Connect, Job, Jobs
<1>2. (\E k \in BOOLEAN : Disconnect(k)) => job' \in Jobs /\ job'.kind = "clear"
  BY DEF Disconnect, Job, Jobs
<1>3. Lose => job' \in Jobs /\ job'.kind = "clear"
  BY DEF Lose, Job, Jobs
<1>4. tunnel \in Versions \cup {None} /\ Recover
        => job' \in Jobs /\ job'.kind = "recover" /\ job'.target \in {tunnel, None}
  BY DEF Recover, Job, Jobs
<1>5. GiveUpRecovery => job' \in Jobs /\ job'.kind = "recover" /\ job'.target = None
  BY DEF GiveUpRecovery, Job, Jobs
<1> QED
  BY <1>1, <1>2, <1>3, <1>4, <1>5

LEMMA NoJobFields == NoJob \in Jobs /\ NoJob.kind = "none"
BY DEF NoJob, Job, Jobs

LEMMA EstablishedJob ==
  ASSUME VariablesTyped, Establish
  PROVE  /\ job' \in Jobs /\ job'.kind = "established" /\ job'.target = job.target
         /\ tunnel' \in Versions
BY DEF VariablesTyped, Establish, Jobs

LEMMA ClosedStatus ==
  /\ \A j \in Jobs : Closed(j.keep) \in {"Blocked", "Disconnected"}
  /\ \A r : Closed(r \in KillSwitchRequests) \in {"Blocked", "Disconnected"}
BY DEF Closed, Jobs

LEMMA NoOpFields ==
  OpTyped(NoOp) /\ NoOp.kind = "none" /\ NoOp.step = "none"
BY DEF OpTyped, NoOp, Op

LEMMA OpFields ==
  ASSUME NEW kind, NEW version, NEW old, NEW step
  PROVE  /\ Op(kind, version, old, step).kind = kind
         /\ Op(kind, version, old, step).version = version
         /\ Op(kind, version, old, step).old = old
         /\ Op(kind, version, old, step).step = step
BY DEF Op

LEMMA GotoFields ==
  ASSUME OpTyped(op), NEW step, Goto(step)
  PROVE  op' = Op(op.kind, op.version, op.old, step)
BY DEF OpTyped, Goto, Op

\* active_tag() names a version that is installed.
LEMMA ActiveTag ==
  ASSUME VariablesTyped, DiskInv
  PROVE  active_tag \in Versions /\ IsInstalled(active_tag)
BY CoreAssumption DEF VariablesTyped, DiskInv, active_tag, IsInstalled, Versions, TagIsInstalled

\* Every step keeps the types.
LEMMA TypeNext ==
  ASSUME VariablesTyped, OpTyped(op), OpShape, DiskInv, [CoreNext]_allVars
  PROVE  VariablesTyped' /\ OpTyped(op')
<1> USE DEF VariablesTyped, OpTyped, OpShape, Programs, Installing, Activating
<1>1. CASE BeginConnect
  BY <1>1, OpFields, ActiveTag DEF BeginConnect, BeginOp, OperationsFree, vars
<1>2. ASSUME NEW v \in Versions, BeginInstall(v) PROVE VariablesTyped' /\ OpTyped(op')
  BY <1>2, OpFields DEF BeginInstall, BeginOp, OperationsFree, vars
<1>3. ASSUME NEW v \in Versions, BeginActivate(v) PROVE VariablesTyped' /\ OpTyped(op')
  BY <1>3, OpFields, ActiveTag DEF BeginActivate, BeginOp, OperationsFree, vars
<1>4. ASSUME NEW v \in Versions, BeginUninstall(v) PROVE VariablesTyped' /\ OpTyped(op')
  BY <1>4, OpFields DEF BeginUninstall, BeginOp, OperationsFree, vars
<1>5. CASE RequestConnect
  <2>1. VariablesTyped'
    BY <1>5, JobFields DEF RequestConnect, Connect
  <2>2. OpTyped(op')
    BY <1>5, GotoFields, OpFields DEF RequestConnect
  <2> QED
    BY <2>1, <2>2
<1>6. CASE AlreadyInstalled
  BY <1>6, NoOpFields DEF AlreadyInstalled, EndOp, vars
<1>7. CASE Download
  BY <1>7, GotoFields, OpFields DEF Download, vars
<1>8. CASE DownloadFails
  BY <1>8, NoOpFields DEF DownloadFails, EndOp, vars
<1>9. CASE Extract
  BY <1>9, GotoFields, OpFields DEF Extract, vars
<1>10. CASE ExtractFails
  BY <1>10, NoOpFields DEF ExtractFails, EndInstall, EndOp, vars
<1>11. CASE Verify
  BY <1>11, GotoFields, OpFields DEF Verify, Verifies, vars
<1>12. CASE VerifyFails
  BY <1>12, NoOpFields DEF VerifyFails, EndInstall, EndOp, vars
<1>13. CASE Place
  BY <1>13, NoOpFields DEF Place, EndInstall, EndOp, Verifies, DiskInv, vars
<1>14. CASE PlaceFails
  BY <1>14, NoOpFields DEF PlaceFails, EndInstall, EndOp, vars
<1>15. CASE CheckCore
  BY <1>15, GotoFields, OpFields DEF CheckCore, vars
<1>16. CASE CheckFails
  BY <1>16, NoOpFields DEF CheckFails, EndOp, vars
<1>17. CASE WriteTag
  BY <1>17, GotoFields, OpFields, NoOpFields DEF WriteTag, EndOp, vars
<1>18. CASE WriteFails
  BY <1>18, NoOpFields DEF WriteFails, EndOp, vars
<1>19. CASE SwitchNow
  <2>1. VariablesTyped'
    BY <1>19, JobFields DEF SwitchNow, Connect
  <2>2. OpTyped(op')
    BY <1>19, GotoFields, OpFields DEF SwitchNow
  <2> QED
    BY <2>1, <2>2
<1>20. CASE SwitchLater
  BY <1>20, NoOpFields DEF SwitchLater, EndOp, vars
<1>21. CASE Rollback
  BY <1>21, NoOpFields DEF Rollback, EndOp, vars
<1>22. CASE RollbackFails
  BY <1>22, NoOpFields DEF RollbackFails, EndOp, vars
<1>23. CASE Refuse
  BY <1>23, NoOpFields DEF Refuse, EndOp, vars
<1>24. CASE Remove
  BY <1>24, NoOpFields DEF Remove, MayRemove, EndOp, vars, Assets
<1>25. CASE RemoveFails
  BY <1>25, NoOpFields DEF RemoveFails, PartlyRemoved, MayRemove, EndOp,
    vars, Assets
<1>26. CASE BringUp
  BY <1>26, EstablishedJob DEF BringUp, Establish, Stage, vars, Assets
<1>27. CASE GiveUpTunnel
  <2>1. UNCHANGED core
    BY <1>27 DEF GiveUpTunnel
  <2>2. OpTyped(op')
    BY <2>1 DEF core
  <2>3. CASE Drop
    BY <2>1, <2>3 DEF Drop, core
  <2>4. CASE GiveUpRecovery
    <3>1. job' \in Jobs
      BY <2>4, JobFields
    <3> QED
      BY <2>1, <2>2, <2>4, <3>1 DEF GiveUpRecovery, core
  <2> QED
    BY <1>27, <2>3, <2>4 DEF GiveUpTunnel
<1>28. CASE ConnectionUp
  BY <1>28, NoOpFields, NoJobFields DEF ConnectionUp, Succeed, End, EndOp, vars
<1>29. CASE ConnectionFails
  BY <1>29, GotoFields, OpFields, NoOpFields, NoJobFields, ClosedStatus DEF ConnectionFails,
    Reject, Fall, Break, End, Stage, EndOp, vars, Assets
<1>30. CASE SettleIdle
  BY <1>30, NoJobFields, ClosedStatus DEF SettleIdle, Clear, Settle, End, core, vars
<1>31. CASE BreakClear
  BY <1>31, NoJobFields DEF BreakClear, Break, End, core, vars
<1>32. CASE ClientDisconnect
  BY <1>32, JobFields DEF ClientDisconnect, Disconnect, core, vars
<1>33. CASE TunnelLost
  BY <1>33, JobFields DEF TunnelLost, Lose, core, vars
<1>34. CASE Die
  BY <1>34, NoOpFields, NoJobFields DEF Die, Crash, Unfinished, PartlyRemoved, MayRemove, EndOp,
    vars, Assets
<1>35. CASE Restart
  BY <1>35, JobFields DEF Restart, Recover, core, vars
<1>36. CASE UNCHANGED allVars
  BY <1>36 DEF allVars, core, vars
<1> QED
  BY <1>1, <1>2, <1>3, <1>4, <1>5, <1>6, <1>7, <1>8, <1>9, <1>10, <1>11, <1>12, <1>13, <1>14,
    <1>15, <1>16, <1>17, <1>18, <1>19, <1>20, <1>21, <1>22, <1>23, <1>24, <1>25, <1>26, <1>27,
    <1>28, <1>29, <1>30, <1>31, <1>32, <1>33, <1>34, <1>35, <1>36 DEF CoreNext, CoreStep,
    InstallStep, ActivateStep, UninstallStep, JobStep

-----------------------------------------------------------------------------
(* The disk and the tag. *)

\* Every step leaves an operation with the versions it is about.
LEMMA ShapeNext ==
  ASSUME VariablesTyped, OpTyped(op), OpShape, DiskInv, TagInv, [CoreNext]_allVars
  PROVE  OpShape'
<1> USE DEF VariablesTyped, OpShape, IsInstalled, Installing, Activating, Uninstalling
<1>1. CASE BeginConnect
  BY <1>1, OpFields, ActiveTag, NoOpFields DEF BeginConnect, BeginOp, OperationsFree, vars
<1>2. ASSUME NEW v \in Versions, BeginInstall(v) PROVE OpShape'
  BY <1>2, OpFields, NoOpFields DEF BeginInstall, BeginOp, OperationsFree, vars
<1>3. ASSUME NEW v \in Versions, BeginActivate(v) PROVE OpShape'
  BY <1>3, OpFields, ActiveTag, NoOpFields DEF BeginActivate, BeginOp, OperationsFree, vars
<1>4. ASSUME NEW v \in Versions, BeginUninstall(v) PROVE OpShape'
  BY <1>4, OpFields, NoOpFields DEF BeginUninstall, BeginOp, OperationsFree, vars
<1>5. CASE RequestConnect
  BY <1>5, GotoFields, OpFields, NoOpFields DEF RequestConnect, Connect, vars
<1>6. CASE AlreadyInstalled
  BY <1>6, NoOpFields DEF AlreadyInstalled, EndOp, vars
<1>7. CASE Download
  BY <1>7, GotoFields, OpFields, NoOpFields DEF Download, vars
<1>8. CASE DownloadFails
  BY <1>8, NoOpFields DEF DownloadFails, EndOp, vars
<1>9. CASE Extract
  BY <1>9, GotoFields, OpFields, NoOpFields DEF Extract, vars
<1>10. CASE ExtractFails
  BY <1>10, NoOpFields DEF ExtractFails, EndInstall, EndOp, vars
<1>11. CASE Verify
  BY <1>11, GotoFields, OpFields, NoOpFields DEF Verify, Verifies, vars
<1>12. CASE VerifyFails
  BY <1>12, NoOpFields DEF VerifyFails, EndInstall, EndOp, vars
<1>13. CASE Place
  BY <1>13, NoOpFields DEF Place, EndInstall, EndOp, Verifies, vars
<1>14. CASE PlaceFails
  BY <1>14, NoOpFields DEF PlaceFails, EndInstall, EndOp, vars
<1>15. CASE CheckCore
  BY <1>15, GotoFields, OpFields, NoOpFields DEF CheckCore, vars
<1>16. CASE CheckFails
  BY <1>16, NoOpFields DEF CheckFails, EndOp, vars
<1>17. CASE WriteTag
  BY <1>17, GotoFields, OpFields, NoOpFields DEF WriteTag, EndOp, vars
<1>18. CASE WriteFails
  BY <1>18, NoOpFields DEF WriteFails, EndOp, vars
<1>19. CASE SwitchNow
  BY <1>19, GotoFields, OpFields, NoOpFields DEF SwitchNow, Connect, vars
<1>20. CASE SwitchLater
  BY <1>20, NoOpFields DEF SwitchLater, EndOp, vars
<1>21. CASE Rollback
  BY <1>21, NoOpFields DEF Rollback, EndOp, vars
<1>22. CASE RollbackFails
  BY <1>22, NoOpFields DEF RollbackFails, EndOp, vars
<1>23. CASE Refuse
  BY <1>23, NoOpFields DEF Refuse, EndOp, vars
<1>24. CASE Remove
  BY <1>24, NoOpFields DEF Remove, MayRemove, EndOp, vars
<1>25. CASE RemoveFails
  BY <1>25, NoOpFields DEF RemoveFails, PartlyRemoved, MayRemove, EndOp, vars
<1>26. CASE BringUp
  BY <1>26 DEF BringUp, Establish, Stage, vars
<1>27. CASE GiveUpTunnel
  BY <1>27 DEF GiveUpTunnel, Drop, GiveUpRecovery, core, vars
<1>28. CASE ConnectionUp
  BY <1>28, NoOpFields DEF ConnectionUp, Succeed, End, EndOp, vars
<1>29. CASE ConnectionFails
  BY <1>29, GotoFields, OpFields, NoOpFields DEF ConnectionFails, Reject, Fall, Break, End,
    Stage, EndOp, vars
<1>30. CASE SettleIdle
  BY <1>30 DEF SettleIdle, Clear, Settle, End, core, vars
<1>31. CASE BreakClear
  BY <1>31 DEF BreakClear, Break, End, core, vars
<1>32. CASE ClientDisconnect
  BY <1>32 DEF ClientDisconnect, Disconnect, core, vars
<1>33. CASE TunnelLost
  BY <1>33 DEF TunnelLost, Lose, core, vars
<1>34. CASE Die
  BY <1>34, NoOpFields DEF Die, Crash, Unfinished, PartlyRemoved, MayRemove, EndOp, vars
<1>35. CASE Restart
  BY <1>35 DEF Restart, Recover, core, vars
<1>36. CASE UNCHANGED allVars
  BY <1>36 DEF allVars, core, vars
<1> QED
  BY <1>1, <1>2, <1>3, <1>4, <1>5, <1>6, <1>7, <1>8, <1>9, <1>10, <1>11, <1>12, <1>13, <1>14,
    <1>15, <1>16, <1>17, <1>18, <1>19, <1>20, <1>21, <1>22, <1>23, <1>24, <1>25, <1>26, <1>27,
    <1>28, <1>29, <1>30, <1>31, <1>32, <1>33, <1>34, <1>35, <1>36 DEF CoreNext, CoreStep,
    InstallStep, ActivateStep, UninstallStep, JobStep

\* What a removal may leave undone hits neither the bundled nor the active version.
LEMMA RemovalSpares ==
  ASSUME VariablesTyped, OpShape, DiskInv, PartlyRemoved
  PROVE  /\ \A v \in Versions : exe'[v] \in {"none", "good"}
         /\ exe'[Bundled] = "good"
         /\ tag # None => exe'[tag] # "none"
<1> USE DEF VariablesTyped, OpShape, DiskInv, InstalledIsVerified, TagIsInstalled, IsInstalled
<1>1. CASE exe' = exe
  BY <1>1
<1>2. CASE exe' = [exe EXCEPT ![op.version] = "none"]
  BY <1>2 DEF PartlyRemoved, Uninstalling, MayRemove, active_tag
<1> QED
  BY <1>1, <1>2 DEF PartlyRemoved

\* Every step leaves verified programs only, and the tag on one of them.
LEMMA DiskNext ==
  ASSUME VariablesTyped, OpTyped(op), OpShape, DiskInv, TagInv, [CoreNext]_allVars
  PROVE  DiskInv'
<1> USE DEF VariablesTyped, OpShape, DiskInv, InstalledIsVerified, TagIsInstalled, IsInstalled,
    Verifies, Installing, Activating, Uninstalling
<1>1. CASE BeginConnect
  BY <1>1, OpFields DEF BeginConnect, BeginOp, OperationsFree, vars
<1>2. ASSUME NEW v \in Versions, BeginInstall(v) PROVE DiskInv'
  BY <1>2, OpFields DEF BeginInstall, BeginOp, OperationsFree, vars
<1>3. ASSUME NEW v \in Versions, BeginActivate(v) PROVE DiskInv'
  BY <1>3, OpFields DEF BeginActivate, BeginOp, OperationsFree, vars
<1>4. ASSUME NEW v \in Versions, BeginUninstall(v) PROVE DiskInv'
  BY <1>4, OpFields DEF BeginUninstall, BeginOp, OperationsFree, vars
<1>5. CASE RequestConnect
  BY <1>5, GotoFields, OpFields DEF RequestConnect, Connect, vars
<1>6. CASE AlreadyInstalled
  BY <1>6, NoOpFields DEF AlreadyInstalled, EndOp, vars
<1>7. CASE Download
  BY <1>7, GotoFields, OpFields DEF Download, vars
<1>8. CASE DownloadFails
  BY <1>8, NoOpFields DEF DownloadFails, EndOp, vars
<1>9. CASE Extract
  BY <1>9, GotoFields, OpFields DEF Extract, vars
<1>10. CASE ExtractFails
  BY <1>10, NoOpFields DEF ExtractFails, EndInstall, EndOp, vars
<1>11. CASE Verify
  BY <1>11, GotoFields, OpFields DEF Verify, vars
<1>12. CASE VerifyFails
  BY <1>12, NoOpFields DEF VerifyFails, EndInstall, EndOp, vars
<1>13. CASE Place
  BY <1>13, NoOpFields DEF Place, EndInstall, EndOp, vars
<1>14. CASE PlaceFails
  BY <1>14, NoOpFields DEF PlaceFails, EndInstall, EndOp, vars
<1>15. CASE CheckCore
  BY <1>15, GotoFields, OpFields DEF CheckCore, vars
<1>16. CASE CheckFails
  BY <1>16, NoOpFields DEF CheckFails, EndOp, vars
<1>17. CASE WriteTag
  BY <1>17, GotoFields, OpFields, NoOpFields DEF WriteTag, EndOp, TagInv, vars
<1>18. CASE WriteFails
  BY <1>18, NoOpFields DEF WriteFails, EndOp, vars
<1>19. CASE SwitchNow
  BY <1>19, GotoFields, OpFields DEF SwitchNow, Connect, vars
<1>20. CASE SwitchLater
  BY <1>20, NoOpFields DEF SwitchLater, EndOp, vars
<1>21. CASE Rollback
  BY <1>21, NoOpFields DEF Rollback, EndOp, vars
<1>22. CASE RollbackFails
  BY <1>22, NoOpFields DEF RollbackFails, EndOp, vars
<1>23. CASE Refuse
  BY <1>23, NoOpFields DEF Refuse, EndOp, vars
<1>24. CASE Remove
  BY <1>24, NoOpFields DEF Remove, MayRemove, EndOp, active_tag, vars
<1>25. CASE RemoveFails
  BY <1>25, RemovalSpares, NoOpFields DEF RemoveFails, EndOp
<1>26. CASE BringUp
  BY <1>26 DEF BringUp, Establish, Stage, vars
<1>27. CASE GiveUpTunnel
  BY <1>27 DEF GiveUpTunnel, Drop, GiveUpRecovery, core, vars
<1>28. CASE ConnectionUp
  BY <1>28, NoOpFields DEF ConnectionUp, Succeed, End, EndOp, vars
<1>29. CASE ConnectionFails
  BY <1>29, GotoFields, OpFields, NoOpFields DEF ConnectionFails, Reject, Fall, Break, End,
    Stage, EndOp, vars
<1>30. CASE SettleIdle
  BY <1>30 DEF SettleIdle, Clear, Settle, End, core, vars
<1>31. CASE BreakClear
  BY <1>31 DEF BreakClear, Break, End, core, vars
<1>32. CASE ClientDisconnect
  BY <1>32 DEF ClientDisconnect, Disconnect, core, vars
<1>33. CASE TunnelLost
  BY <1>33 DEF TunnelLost, Lose, core, vars
<1>34. CASE Die
  <2>1. exe' = exe \/ PartlyRemoved
    BY <1>34 DEF Die, Unfinished
  <2> QED
    BY <1>34, <2>1, RemovalSpares, NoOpFields DEF Die, EndOp
<1>35. CASE Restart
  BY <1>35 DEF Restart, Recover, core, vars
<1>36. CASE UNCHANGED allVars
  BY <1>36 DEF allVars, core, vars
<1> QED
  BY <1>1, <1>2, <1>3, <1>4, <1>5, <1>6, <1>7, <1>8, <1>9, <1>10, <1>11, <1>12, <1>13, <1>14,
    <1>15, <1>16, <1>17, <1>18, <1>19, <1>20, <1>21, <1>22, <1>23, <1>24, <1>25, <1>26, <1>27,
    <1>28, <1>29, <1>30, <1>31, <1>32, <1>33, <1>34, <1>35, <1>36 DEF CoreNext, CoreStep,
    InstallStep, ActivateStep, UninstallStep, JobStep

\* Every step of an operation knows the tag it goes on with.
LEMMA TagNext ==
  ASSUME VariablesTyped, OpTyped(op), OpShape, DiskInv, TagInv, [CoreNext]_allVars
  PROVE  TagInv'
<1> USE DEF VariablesTyped, OpShape, DiskInv, TagIsInstalled, TagInv, active_tag, IsInstalled,
    Installing, Activating, Uninstalling
<1>1. CASE BeginConnect
  BY <1>1, OpFields DEF BeginConnect, BeginOp, OperationsFree, vars
<1>2. ASSUME NEW v \in Versions, BeginInstall(v) PROVE TagInv'
  BY <1>2, OpFields DEF BeginInstall, BeginOp, OperationsFree, vars
<1>3. ASSUME NEW v \in Versions, BeginActivate(v) PROVE TagInv'
  BY <1>3, OpFields DEF BeginActivate, BeginOp, OperationsFree, vars
<1>4. ASSUME NEW v \in Versions, BeginUninstall(v) PROVE TagInv'
  BY <1>4, OpFields DEF BeginUninstall, BeginOp, OperationsFree, vars
<1>5. CASE RequestConnect
  BY <1>5, GotoFields, OpFields DEF RequestConnect, Connect, vars
<1>6. CASE AlreadyInstalled
  BY <1>6, NoOpFields DEF AlreadyInstalled, EndOp, vars
<1>7. CASE Download
  BY <1>7, GotoFields, OpFields DEF Download, vars
<1>8. CASE DownloadFails
  BY <1>8, NoOpFields DEF DownloadFails, EndOp, vars
<1>9. CASE Extract
  BY <1>9, GotoFields, OpFields DEF Extract, vars
<1>10. CASE ExtractFails
  BY <1>10, NoOpFields DEF ExtractFails, EndInstall, EndOp, vars
<1>11. CASE Verify
  BY <1>11, GotoFields, OpFields DEF Verify, Verifies, vars
<1>12. CASE VerifyFails
  BY <1>12, NoOpFields DEF VerifyFails, EndInstall, EndOp, vars
<1>13. CASE Place
  BY <1>13, NoOpFields DEF Place, EndInstall, EndOp, Verifies, vars
<1>14. CASE PlaceFails
  BY <1>14, NoOpFields DEF PlaceFails, EndInstall, EndOp, vars
<1>15. CASE CheckCore
  BY <1>15, GotoFields, OpFields DEF CheckCore, vars
<1>16. CASE CheckFails
  BY <1>16, NoOpFields DEF CheckFails, EndOp, vars
<1>17. CASE WriteTag
  BY <1>17, GotoFields, OpFields, NoOpFields DEF WriteTag, EndOp, vars
<1>18. CASE WriteFails
  BY <1>18, NoOpFields DEF WriteFails, EndOp, vars
<1>19. CASE SwitchNow
  BY <1>19, GotoFields, OpFields DEF SwitchNow, Connect, vars
<1>20. CASE SwitchLater
  BY <1>20, NoOpFields DEF SwitchLater, EndOp, vars
<1>21. CASE Rollback
  BY <1>21, NoOpFields DEF Rollback, EndOp, vars
<1>22. CASE RollbackFails
  BY <1>22, NoOpFields DEF RollbackFails, EndOp, vars
<1>23. CASE Refuse
  BY <1>23, NoOpFields DEF Refuse, EndOp, vars
<1>24. CASE Remove
  BY <1>24, NoOpFields DEF Remove, MayRemove, EndOp, vars
<1>25. CASE RemoveFails
  BY <1>25, NoOpFields DEF RemoveFails, PartlyRemoved, MayRemove, EndOp, vars
<1>26. CASE BringUp
  BY <1>26 DEF BringUp, Establish, Stage, vars
<1>27. CASE GiveUpTunnel
  BY <1>27 DEF GiveUpTunnel, Drop, GiveUpRecovery, core, vars
<1>28. CASE ConnectionUp
  BY <1>28, NoOpFields DEF ConnectionUp, Succeed, End, EndOp, vars
<1>29. CASE ConnectionFails
  <2>1. UNCHANGED <<tag, exe>>
    BY <1>29 DEF ConnectionFails
  <2>2. \/ op' = NoOp
        \/ Activating("switch") /\ op' = Op(op.kind, op.version, op.old, "rollback")
    BY <1>29, GotoFields DEF ConnectionFails, OpConnects, EndOp
  <2> QED
    BY <2>1, <2>2, NoOpFields, OpFields
<1>30. CASE SettleIdle
  BY <1>30 DEF SettleIdle, Clear, Settle, End, core, vars
<1>31. CASE BreakClear
  BY <1>31 DEF BreakClear, Break, End, core, vars
<1>32. CASE ClientDisconnect
  BY <1>32 DEF ClientDisconnect, Disconnect, core, vars
<1>33. CASE TunnelLost
  BY <1>33 DEF TunnelLost, Lose, core, vars
<1>34. CASE Die
  BY <1>34, NoOpFields DEF Die, Crash, Unfinished, PartlyRemoved, MayRemove, EndOp, vars
<1>35. CASE Restart
  BY <1>35 DEF Restart, Recover, core, vars
<1>36. CASE UNCHANGED allVars
  BY <1>36 DEF allVars, core, vars
<1> QED
  BY <1>1, <1>2, <1>3, <1>4, <1>5, <1>6, <1>7, <1>8, <1>9, <1>10, <1>11, <1>12, <1>13, <1>14,
    <1>15, <1>16, <1>17, <1>18, <1>19, <1>20, <1>21, <1>22, <1>23, <1>24, <1>25, <1>26, <1>27,
    <1>28, <1>29, <1>30, <1>31, <1>32, <1>33, <1>34, <1>35, <1>36 DEF CoreNext, CoreStep,
    InstallStep, ActivateStep, UninstallStep, JobStep

-----------------------------------------------------------------------------
(* Jobs, and the version of the live connection. *)

\* Every step leaves a job that its operation can meet.
LEMMA JobNext ==
  ASSUME VariablesTyped, OpTyped(op), OpShape, DiskInv, TagInv, JobInv, FreshInv, [CoreNext]_allVars
  PROVE  JobInv'
<1> USE DEF VariablesTyped, OpShape, JobInv, OpConnects, Installing, Activating, Uninstalling
<1>1. CASE BeginConnect
  BY <1>1, OpFields, NoOpFields, NoJobFields DEF BeginConnect, BeginOp, OperationsFree, vars
<1>2. ASSUME NEW v \in Versions, BeginInstall(v) PROVE JobInv'
  BY <1>2, OpFields, NoOpFields, NoJobFields DEF BeginInstall, BeginOp, OperationsFree, vars
<1>3. ASSUME NEW v \in Versions, BeginActivate(v) PROVE JobInv'
  BY <1>3, OpFields, NoOpFields, NoJobFields DEF BeginActivate, BeginOp, OperationsFree, vars
<1>4. ASSUME NEW v \in Versions, BeginUninstall(v) PROVE JobInv'
  BY <1>4, OpFields, NoOpFields, NoJobFields DEF BeginUninstall, BeginOp, OperationsFree, vars
<1>5. CASE RequestConnect
  <2>1. op' = Op(op.kind, op.version, op.old, "switch")
    BY <1>5, GotoFields DEF RequestConnect
  <2>2. /\ job'.kind = "connect" /\ job'.target = op.version
        /\ UNCHANGED status /\ status \notin {"Down", "Busy"}
    BY <1>5, JobFields DEF RequestConnect, ControllerIsFree, Listening, Connect, OpTyped
  <2>3. op'.kind = "activate" => status = "Connected"
    BY <1>5, <2>1, OpFields DEF RequestConnect
  <2> QED
    BY <2>1, <2>2, <2>3, OpFields
<1>6. CASE AlreadyInstalled
  BY <1>6, NoOpFields, NoJobFields DEF AlreadyInstalled, EndOp, vars
<1>7. CASE Download
  BY <1>7, GotoFields, OpFields, NoOpFields, NoJobFields DEF Download, vars
<1>8. CASE DownloadFails
  BY <1>8, NoOpFields, NoJobFields DEF DownloadFails, EndOp, vars
<1>9. CASE Extract
  BY <1>9, GotoFields, OpFields, NoOpFields, NoJobFields DEF Extract, vars
<1>10. CASE ExtractFails
  BY <1>10, NoOpFields, NoJobFields DEF ExtractFails, EndInstall, EndOp, vars
<1>11. CASE Verify
  BY <1>11, GotoFields, OpFields, NoOpFields, NoJobFields DEF Verify, Verifies, vars
<1>12. CASE VerifyFails
  BY <1>12, NoOpFields, NoJobFields DEF VerifyFails, EndInstall, EndOp, vars
<1>13. CASE Place
  BY <1>13, NoOpFields, NoJobFields DEF Place, EndInstall, EndOp, Verifies, vars
<1>14. CASE PlaceFails
  BY <1>14, NoOpFields, NoJobFields DEF PlaceFails, EndInstall, EndOp, vars
<1>15. CASE CheckCore
  BY <1>15, GotoFields, OpFields, NoOpFields, NoJobFields DEF CheckCore, vars
<1>16. CASE CheckFails
  BY <1>16, NoOpFields, NoJobFields DEF CheckFails, EndOp, vars
<1>17. CASE WriteTag
  BY <1>17, GotoFields, OpFields, NoOpFields, NoJobFields DEF WriteTag, EndOp, vars
<1>18. CASE WriteFails
  BY <1>18, NoOpFields, NoJobFields DEF WriteFails, EndOp, vars
<1>19. CASE SwitchNow
  <2>1. op' = Op(op.kind, op.version, op.old, "switch")
    BY <1>19, GotoFields DEF SwitchNow
  <2>2. /\ job'.kind = "connect" /\ job'.target = op.version
        /\ UNCHANGED status /\ status \notin {"Down", "Busy"}
    BY <1>19, JobFields DEF SwitchNow, ControllerIsFree, Listening, Connect, OpTyped
  <2>3. op'.kind = "activate" => status = "Connected"
    BY <1>19, <2>1, OpFields DEF SwitchNow
  <2> QED
    BY <2>1, <2>2, <2>3, OpFields
<1>20. CASE SwitchLater
  BY <1>20, NoOpFields, NoJobFields DEF SwitchLater, EndOp, vars
<1>21. CASE Rollback
  BY <1>21, NoOpFields, NoJobFields DEF Rollback, EndOp, vars
<1>22. CASE RollbackFails
  BY <1>22, NoOpFields, NoJobFields DEF RollbackFails, EndOp, vars
<1>23. CASE Refuse
  BY <1>23, NoOpFields, NoJobFields DEF Refuse, EndOp, OpTyped, vars
<1>24. CASE Remove
  BY <1>24, NoOpFields, NoJobFields DEF Remove, MayRemove, EndOp, OpTyped, vars
<1>25. CASE RemoveFails
  BY <1>25, NoOpFields, NoJobFields DEF RemoveFails, PartlyRemoved, MayRemove, EndOp, OpTyped,
    vars
<1>26. CASE BringUp
  BY <1>26, EstablishedJob, NoJobFields DEF BringUp, Establish, Stage, FreshInv, vars
<1>27. CASE GiveUpTunnel
  BY <1>27, JobFields, NoJobFields DEF GiveUpTunnel, Drop, GiveUpRecovery, core, vars
<1>28. CASE ConnectionUp
  BY <1>28, NoOpFields, NoJobFields DEF ConnectionUp, Succeed, End, EndOp, vars
<1>29. CASE ConnectionFails
  BY <1>29, GotoFields, OpFields, NoOpFields, NoJobFields, ClosedStatus DEF ConnectionFails,
    Reject, Fall, Break, End, Stage, EndOp, vars
<1>30. CASE SettleIdle
  BY <1>30, NoJobFields, ClosedStatus DEF SettleIdle, Clear, Settle, End, core, vars
<1>31. CASE BreakClear
  BY <1>31, NoJobFields DEF BreakClear, Break, End, core, vars
<1>32. CASE ClientDisconnect
  BY <1>32, JobFields, NoJobFields DEF ClientDisconnect, Disconnect, core, ControllerIsFree,
    Listening, vars
<1>33. CASE TunnelLost
  BY <1>33, JobFields, NoJobFields DEF TunnelLost, Lose, core, ControllerIsFree, Listening, vars
<1>34. CASE Die
  BY <1>34, NoOpFields, NoJobFields DEF Die, Crash, Unfinished, PartlyRemoved, MayRemove, EndOp,
    vars
<1>35. CASE Restart
  BY <1>35, JobFields, NoJobFields DEF Restart, Recover, core, vars
<1>36. CASE UNCHANGED allVars
  BY <1>36, NoJobFields DEF allVars, core, vars
<1> QED
  BY <1>1, <1>2, <1>3, <1>4, <1>5, <1>6, <1>7, <1>8, <1>9, <1>10, <1>11, <1>12, <1>13, <1>14,
    <1>15, <1>16, <1>17, <1>18, <1>19, <1>20, <1>21, <1>22, <1>23, <1>24, <1>25, <1>26, <1>27,
    <1>28, <1>29, <1>30, <1>31, <1>32, <1>33, <1>34, <1>35, <1>36 DEF CoreNext, CoreStep,
    InstallStep, ActivateStep, UninstallStep, JobStep

\* Only a restart finds something to recover.
LEMMA FreshNext ==
  ASSUME VariablesTyped, OpTyped(op), OpShape, DiskInv, TagInv, JobInv, FreshInv, [CoreNext]_allVars
  PROVE  FreshInv'
<1> USE DEF VariablesTyped, OpShape, JobInv, FreshInv, OpConnects, Installing, Activating,
    Uninstalling
<1>1. CASE BeginConnect
  BY <1>1, OpFields, NoOpFields, NoJobFields DEF BeginConnect, BeginOp, OperationsFree, vars
<1>2. ASSUME NEW v \in Versions, BeginInstall(v) PROVE FreshInv'
  BY <1>2, OpFields, NoOpFields, NoJobFields DEF BeginInstall, BeginOp, OperationsFree, vars
<1>3. ASSUME NEW v \in Versions, BeginActivate(v) PROVE FreshInv'
  BY <1>3, OpFields, NoOpFields, NoJobFields DEF BeginActivate, BeginOp, OperationsFree, vars
<1>4. ASSUME NEW v \in Versions, BeginUninstall(v) PROVE FreshInv'
  BY <1>4, OpFields, NoOpFields, NoJobFields DEF BeginUninstall, BeginOp, OperationsFree, vars
<1>5. CASE RequestConnect
  BY <1>5, GotoFields, OpFields, JobFields, NoOpFields, NoJobFields DEF RequestConnect, Connect,
    ControllerIsFree, Listening, vars
<1>6. CASE AlreadyInstalled
  BY <1>6, NoOpFields, NoJobFields DEF AlreadyInstalled, EndOp, vars
<1>7. CASE Download
  BY <1>7, GotoFields, OpFields, NoOpFields, NoJobFields DEF Download, vars
<1>8. CASE DownloadFails
  BY <1>8, NoOpFields, NoJobFields DEF DownloadFails, EndOp, vars
<1>9. CASE Extract
  BY <1>9, GotoFields, OpFields, NoOpFields, NoJobFields DEF Extract, vars
<1>10. CASE ExtractFails
  BY <1>10, NoOpFields, NoJobFields DEF ExtractFails, EndInstall, EndOp, vars
<1>11. CASE Verify
  BY <1>11, GotoFields, OpFields, NoOpFields, NoJobFields DEF Verify, Verifies, vars
<1>12. CASE VerifyFails
  BY <1>12, NoOpFields, NoJobFields DEF VerifyFails, EndInstall, EndOp, vars
<1>13. CASE Place
  BY <1>13, NoOpFields, NoJobFields DEF Place, EndInstall, EndOp, Verifies, vars
<1>14. CASE PlaceFails
  BY <1>14, NoOpFields, NoJobFields DEF PlaceFails, EndInstall, EndOp, vars
<1>15. CASE CheckCore
  BY <1>15, GotoFields, OpFields, NoOpFields, NoJobFields DEF CheckCore, vars
<1>16. CASE CheckFails
  BY <1>16, NoOpFields, NoJobFields DEF CheckFails, EndOp, vars
<1>17. CASE WriteTag
  BY <1>17, GotoFields, OpFields, NoOpFields, NoJobFields DEF WriteTag, EndOp, vars
<1>18. CASE WriteFails
  BY <1>18, NoOpFields, NoJobFields DEF WriteFails, EndOp, vars
<1>19. CASE SwitchNow
  BY <1>19, GotoFields, OpFields, JobFields, NoOpFields, NoJobFields DEF SwitchNow, Connect,
    ControllerIsFree, Listening, vars
<1>20. CASE SwitchLater
  BY <1>20, NoOpFields, NoJobFields DEF SwitchLater, EndOp, vars
<1>21. CASE Rollback
  BY <1>21, NoOpFields, NoJobFields DEF Rollback, EndOp, vars
<1>22. CASE RollbackFails
  BY <1>22, NoOpFields, NoJobFields DEF RollbackFails, EndOp, vars
<1>23. CASE Refuse
  BY <1>23, NoOpFields, NoJobFields DEF Refuse, EndOp, vars
<1>24. CASE Remove
  BY <1>24, NoOpFields, NoJobFields DEF Remove, MayRemove, EndOp, vars
<1>25. CASE RemoveFails
  BY <1>25, NoOpFields, NoJobFields DEF RemoveFails, PartlyRemoved, MayRemove, EndOp, vars
<1>26. CASE BringUp
  BY <1>26, EstablishedJob, NoJobFields DEF BringUp, Establish, Stage, vars
<1>27. CASE GiveUpTunnel
  BY <1>27, JobFields, NoJobFields DEF GiveUpTunnel, Drop, GiveUpRecovery, core, vars
<1>28. CASE ConnectionUp
  BY <1>28, NoOpFields, NoJobFields DEF ConnectionUp, Succeed, End, EndOp, vars
<1>29. CASE ConnectionFails
  BY <1>29, GotoFields, OpFields, NoOpFields, NoJobFields, ClosedStatus DEF ConnectionFails,
    Reject, Fall, Break, End, Stage, EndOp, vars
<1>30. CASE SettleIdle
  BY <1>30, NoJobFields, ClosedStatus DEF SettleIdle, Clear, Settle, End, core, vars
<1>31. CASE BreakClear
  BY <1>31, NoJobFields DEF BreakClear, Break, End, core, vars
<1>32. CASE ClientDisconnect
  BY <1>32, JobFields, NoJobFields DEF ClientDisconnect, Disconnect, core, ControllerIsFree,
    Listening, vars
<1>33. CASE TunnelLost
  BY <1>33, JobFields, NoJobFields DEF TunnelLost, Lose, core, ControllerIsFree, Listening, vars
<1>34. CASE Die
  BY <1>34, NoOpFields, NoJobFields DEF Die, Crash, Unfinished, PartlyRemoved, MayRemove, EndOp,
    vars
<1>35. CASE Restart
  BY <1>35, JobFields, NoJobFields DEF Restart, Recover, core, vars
<1>36. CASE UNCHANGED allVars
  BY <1>36, NoJobFields DEF allVars, core, vars
<1> QED
  BY <1>1, <1>2, <1>3, <1>4, <1>5, <1>6, <1>7, <1>8, <1>9, <1>10, <1>11, <1>12, <1>13, <1>14,
    <1>15, <1>16, <1>17, <1>18, <1>19, <1>20, <1>21, <1>22, <1>23, <1>24, <1>25, <1>26, <1>27,
    <1>28, <1>29, <1>30, <1>31, <1>32, <1>33, <1>34, <1>35, <1>36 DEF CoreNext, CoreStep,
    InstallStep, ActivateStep, UninstallStep, JobStep

\* Every step leaves the live connection on the version it belongs to.
LEMMA LiveNext ==
  ASSUME VariablesTyped, OpTyped(op), OpShape, DiskInv, TagInv, JobInv, FreshInv, LiveInv, [CoreNext]_allVars
  PROVE  LiveInv'
<1> USE DEF VariablesTyped, OpShape, DiskInv, TagInv, JobInv, FreshInv, LiveInv, LiveVersion,
    active_tag, IsInstalled, TagIsInstalled, OpConnects, Installing, Activating, Uninstalling
<1>1. CASE BeginConnect
  BY <1>1, OpFields, NoOpFields, NoJobFields DEF BeginConnect, BeginOp, OperationsFree, vars
<1>2. ASSUME NEW v \in Versions, BeginInstall(v) PROVE LiveInv'
  BY <1>2, OpFields, NoOpFields, NoJobFields DEF BeginInstall, BeginOp, OperationsFree, vars
<1>3. ASSUME NEW v \in Versions, BeginActivate(v) PROVE LiveInv'
  BY <1>3, OpFields, NoOpFields, NoJobFields DEF BeginActivate, BeginOp, OperationsFree, vars
<1>4. ASSUME NEW v \in Versions, BeginUninstall(v) PROVE LiveInv'
  BY <1>4, OpFields, NoOpFields, NoJobFields DEF BeginUninstall, BeginOp, OperationsFree, vars
<1>5. CASE RequestConnect
  BY <1>5, GotoFields, OpFields, JobFields, NoOpFields, NoJobFields DEF RequestConnect, Connect,
    ControllerIsFree, Listening, vars
<1>6. CASE AlreadyInstalled
  BY <1>6, NoOpFields, NoJobFields DEF AlreadyInstalled, EndOp, vars
<1>7. CASE Download
  BY <1>7, GotoFields, OpFields, NoOpFields, NoJobFields DEF Download, vars
<1>8. CASE DownloadFails
  BY <1>8, NoOpFields, NoJobFields DEF DownloadFails, EndOp, vars
<1>9. CASE Extract
  BY <1>9, GotoFields, OpFields, NoOpFields, NoJobFields DEF Extract, vars
<1>10. CASE ExtractFails
  BY <1>10, NoOpFields, NoJobFields DEF ExtractFails, EndInstall, EndOp, vars
<1>11. CASE Verify
  BY <1>11, GotoFields, OpFields, NoOpFields, NoJobFields DEF Verify, Verifies, vars
<1>12. CASE VerifyFails
  BY <1>12, NoOpFields, NoJobFields DEF VerifyFails, EndInstall, EndOp, vars
<1>13. CASE Place
  BY <1>13, NoOpFields, NoJobFields DEF Place, EndInstall, EndOp, Verifies, vars
<1>14. CASE PlaceFails
  BY <1>14, NoOpFields, NoJobFields DEF PlaceFails, EndInstall, EndOp, vars
<1>15. CASE CheckCore
  BY <1>15, GotoFields, OpFields, NoOpFields, NoJobFields DEF CheckCore, vars
<1>16. CASE CheckFails
  BY <1>16, NoOpFields, NoJobFields DEF CheckFails, EndOp, vars
<1>17. CASE WriteTag
  BY <1>17, GotoFields, OpFields, NoOpFields, NoJobFields DEF WriteTag, EndOp, vars
<1>18. CASE WriteFails
  BY <1>18, NoOpFields, NoJobFields DEF WriteFails, EndOp, vars
<1>19. CASE SwitchNow
  BY <1>19, GotoFields, OpFields, JobFields, NoOpFields, NoJobFields DEF SwitchNow, Connect,
    ControllerIsFree, Listening, vars
<1>20. CASE SwitchLater
  BY <1>20, NoOpFields, NoJobFields DEF SwitchLater, EndOp, vars
<1>21. CASE Rollback
  <2>1. tag' = op.old /\ UNCHANGED <<status, tunnel, job, exe, adrift>> /\ op' = NoOp
    BY <1>21 DEF Rollback, EndOp, vars
  <2>2. active_tag' = op.old
    BY <1>21, <2>1, CoreAssumption DEF Rollback
  <2> QED
    BY <1>21, <2>1, <2>2, NoOpFields DEF Rollback
<1>22. CASE RollbackFails
  BY <1>22, NoOpFields, NoJobFields DEF RollbackFails, EndOp, vars
<1>23. CASE Refuse
  BY <1>23, NoOpFields, NoJobFields DEF Refuse, EndOp, vars
<1>24. CASE Remove
  BY <1>24, NoOpFields, NoJobFields DEF Remove, MayRemove, EndOp, vars
<1>25. CASE RemoveFails
  BY <1>25, NoOpFields, NoJobFields DEF RemoveFails, PartlyRemoved, MayRemove, EndOp, vars
<1>26. CASE BringUp
  BY <1>26, EstablishedJob, NoJobFields DEF BringUp, Establish, Stage, vars
<1>27. CASE GiveUpTunnel
  BY <1>27, JobFields, NoJobFields DEF GiveUpTunnel, Drop, GiveUpRecovery, core, Switching, vars
<1>28. CASE ConnectionUp
  <2>1. status' = "Connected" /\ UNCHANGED <<tunnel, tag, exe>>
    BY <1>28 DEF ConnectionUp, Succeed, End
  <2>2. CASE OpConnects
    <3>1. tunnel = active_tag
      BY <1>28, <2>2, CoreAssumption DEF ConnectionUp, Succeed, OpTyped
    <3> QED
      BY <1>28, <2>1, <2>2, <3>1, NoOpFields DEF ConnectionUp, EndOp
  <2>3. CASE ~OpConnects
    BY <1>28, <2>1, <2>3 DEF ConnectionUp, Succeed
  <2> QED
    BY <2>2, <2>3
<1>29. CASE ConnectionFails
  BY <1>29, GotoFields, OpFields, NoOpFields, NoJobFields, ClosedStatus DEF ConnectionFails,
    Reject, Fall, Break, End, Stage, EndOp, vars
<1>30. CASE SettleIdle
  BY <1>30, NoJobFields, ClosedStatus DEF SettleIdle, Clear, Settle, End, core, vars
<1>31. CASE BreakClear
  BY <1>31, NoJobFields DEF BreakClear, Break, End, core, vars
<1>32. CASE ClientDisconnect
  BY <1>32, JobFields, NoJobFields DEF ClientDisconnect, Disconnect, core, ControllerIsFree,
    Listening, vars
<1>33. CASE TunnelLost
  BY <1>33, JobFields, NoJobFields DEF TunnelLost, Lose, core, ControllerIsFree, Listening, vars
<1>34. CASE Die
  BY <1>34, NoOpFields, NoJobFields DEF Die, Crash, Unfinished, PartlyRemoved, MayRemove, EndOp,
    vars
<1>35. CASE Restart
  BY <1>35, JobFields, NoJobFields DEF Restart, Recover, core, vars
<1>36. CASE UNCHANGED allVars
  BY <1>36, NoJobFields DEF allVars, core, vars
<1> QED
  BY <1>1, <1>2, <1>3, <1>4, <1>5, <1>6, <1>7, <1>8, <1>9, <1>10, <1>11, <1>12, <1>13, <1>14,
    <1>15, <1>16, <1>17, <1>18, <1>19, <1>20, <1>21, <1>22, <1>23, <1>24, <1>25, <1>26, <1>27,
    <1>28, <1>29, <1>30, <1>31, <1>32, <1>33, <1>34, <1>35, <1>36 DEF CoreNext, CoreStep,
    InstallStep, ActivateStep, UninstallStep, JobStep

-----------------------------------------------------------------------------
(* What follows for every behaviour. *)

LEMMA CoreInvInit == CoreInit => CoreInv
<1> SUFFICES ASSUME CoreInit PROVE CoreInv
  OBVIOUS
<1> USE CoreAssumption, NoOpFields, NoJobFields DEF CoreInit, Init
<1>1. VariablesTyped /\ OpTyped(op)
  BY DEF VariablesTyped, Programs, Assets, Versions
<1>2. OpShape /\ TagInv /\ JobInv /\ FreshInv /\ LiveInv
  BY DEF OpShape, TagInv, JobInv, FreshInv, LiveInv, Activating, OpConnects
<1>3. DiskInv
  BY DEF DiskInv, InstalledIsVerified, TagIsInstalled, Installing, Versions
<1> QED
  BY <1>1, <1>2, <1>3, TypeSplit DEF CoreInv

LEMMA CoreInvNext == CoreInv /\ [CoreNext]_allVars => CoreInv'
BY TypeSplit, TypeNext, ShapeNext, DiskNext, TagNext, JobNext, FreshNext, LiveNext, Zenon
   DEF CoreInv

LEMMA CoreInvariant == CoreSpec => []CoreInv
BY CoreInvInit, CoreInvNext, PTL DEF CoreSpec

\* Every variable keeps its type.
THEOREM CoreTypes == CoreSpec => []TypeOK
BY CoreInvariant, PTL DEF CoreInv

\* Whatever an installation or a service that died left behind, only a program
\* that reports the right version is ever in place (install()).
THEOREM Verified == CoreSpec => []InstalledIsVerified
BY CoreInvariant, PTL DEF CoreInv, DiskInv

\* No removal, failed activation or crash leaves active-xray.txt naming a version
\* that is not installed (uninstall(), activate()).
THEOREM TagNamesInstalled == CoreSpec => []TagIsInstalled
BY CoreInvariant, PTL DEF CoreInv, DiskInv

\* A live connection that no operation is about to change runs the version the
\* client is told is active, wherever its connects, disconnects and losses fell
\* between the steps of core operations (execute_core).
THEOREM ActiveRuns == CoreSpec => []ActiveIsRunning
<1>1. CoreInv => ActiveIsRunning
  BY NoOpFields, NoJobFields
     DEF CoreInv, LiveInv, LiveVersion, ActiveIsRunning, Activating
<1> QED
  BY <1>1, CoreInvariant, PTL

\* The core a live connection runs stays installed, so that restoring the
\* connection finds it (core_operations).
THEOREM LiveCoreStays == CoreSpec => []LiveCoreKept
<1>1. ASSUME CoreInv PROVE LiveCoreKept
  <2>1. active_tag \in Versions /\ IsInstalled(active_tag)
    BY <1>1, TypeSplit, ActiveTag DEF CoreInv
  <2> QED
    BY <1>1, <2>1, NoJobFields
       DEF CoreInv, OpShape, LiveInv, LiveVersion, LiveCoreKept, Activating
<1> QED
  BY <1>1, CoreInvariant, PTL

\* Only a loss of power damages an asset.
Undamaged == \A v \in Versions : asset[v] = "damaged" => "power" \in Faults

LEMMA UndamagedStep ==
  ASSUME CoreInv, Undamaged, [CoreNext]_allVars
  PROVE  Undamaged'
<1>0. asset \in [Versions -> Assets]
  BY TypeSplit DEF CoreInv, VariablesTyped
<1>1. CASE UNCHANGED asset
  BY <1>1 DEF Undamaged
<1>2. ASSUME NEW v, NEW a \in {"none", "whole"}, asset' = [asset EXCEPT ![v] = a]
      PROVE  Undamaged'
  BY <1>0, <1>2 DEF Undamaged
<1>3. ASSUME NEW v, Stage(v) PROVE Undamaged'
  BY <1>1, <1>2, <1>3 DEF Stage
<1>4. CASE PartlyRemoved
  BY <1>1, <1>2, <1>4 DEF PartlyRemoved
<1>5. CASE Die
  <2>1. CASE "power" \in Faults
    BY <1>5, <2>1 DEF Undamaged, Die
  <2>2. CASE "power" \notin Faults
    BY <1>1, <1>4, <1>5, <2>2 DEF Die, Unfinished
  <2> QED
    BY <2>1, <2>2
<1>6. CASE RemoveFails
  BY <1>4, <1>6 DEF RemoveFails
<1>7. CASE Remove
  BY <1>2, <1>7 DEF Remove
<1>8. CASE BringUp
  BY <1>3, <1>8 DEF BringUp
<1>9. CASE ConnectionFails
  BY <1>1, <1>3, <1>9 DEF ConnectionFails
<1>10. ~(Die \/ RemoveFails \/ Remove \/ BringUp \/ ConnectionFails) => UNCHANGED asset
  BY DEF CoreNext, CoreStep, InstallStep, ActivateStep, UninstallStep, JobStep,
         BeginConnect, BeginOp, BeginInstall, BeginActivate, BeginUninstall,
         RequestConnect, AlreadyInstalled, Download, DownloadFails,
         Extract, ExtractFails, Verify, VerifyFails, Place,
         PlaceFails, CheckCore, CheckFails, WriteTag, WriteFails, SwitchNow,
         SwitchLater, Rollback, RollbackFails, Refuse, GiveUpTunnel, ConnectionUp,
         SettleIdle, BreakClear, ClientDisconnect, TunnelLost, Restart, allVars, core
<1> QED
  BY <1>1, <1>5, <1>6, <1>7, <1>8, <1>9, <1>10

\* A tunnel comes into force on a verified program, never with missing or empty
\* assets, and with damaged ones only after a loss of power; also when a restart
\* or a failed switch brings it back (runtime_layout).
THEOREM RunsOnWhole == CoreSpec => RunsWhole
<1> DEFINE Whole == /\ exe[tunnel'] = "good"
                    /\ \/ asset'[tunnel'] = "whole"
                       \/ asset[tunnel'] = "damaged" /\ "power" \in Faults
<1>1. ASSUME CoreInv, Undamaged, [CoreNext]_allVars, tunnel' # None, tunnel' # tunnel
      PROVE  Whole
  <2>1. CASE BringUp
    <3>1. tunnel' = job.target /\ job.target \in Versions /\ Stage(job.target)
      BY <1>1, <2>1, TypeSplit, EstablishedJob DEF CoreInv, VariablesTyped, BringUp, Establish, Jobs
    <3>2. exe[tunnel'] = "good"
      BY <1>1, <3>1 DEF CoreInv, DiskInv, InstalledIsVerified, Stage, IsInstalled
    <3>3. asset \in [Versions -> Assets]
      BY <1>1, TypeSplit DEF CoreInv, VariablesTyped
    <3>4. CASE asset[job.target] = "none"
      BY <3>1, <3>2, <3>3, <3>4 DEF Stage
    <3>5. CASE asset[job.target] # "none"
      BY <1>1, <3>1, <3>2, <3>3, <3>5 DEF Stage, Assets, Undamaged
    <3> QED
      BY <3>4, <3>5
  <2>2. ~BringUp => tunnel' \in {tunnel, None}
    BY <1>1
       DEF CoreNext, CoreStep, InstallStep, ActivateStep, UninstallStep, JobStep,
           BeginConnect, BeginOp, BeginInstall, BeginActivate, BeginUninstall,
           RequestConnect, Connect, AlreadyInstalled, Download, DownloadFails,
           Extract, ExtractFails, EndInstall, Verify, VerifyFails, Place,
           PlaceFails, CheckCore, CheckFails, WriteTag, WriteFails, SwitchNow,
           SwitchLater, Rollback, RollbackFails, Refuse, Remove, RemoveFails,
           GiveUpTunnel, Drop, GiveUpRecovery, ConnectionUp, Succeed, End,
           ConnectionFails, Reject, Fall, Break, SettleIdle, Clear, Settle,
           BreakClear, ClientDisconnect, Disconnect, TunnelLost, Lose, Die, Crash,
           Restart, Recover, vars, allVars, core
  <2> QED
    BY <1>1, <2>1, <2>2
<1>2. CoreInit => Undamaged
  BY DEF CoreInit, Undamaged
<1>3. CoreInv /\ Undamaged /\ [CoreNext]_allVars => Undamaged'
  BY UndamagedStep
<1> HIDE DEF Whole
<1>4. CoreSpec => [][tunnel' # None /\ tunnel' # tunnel => Whole]_allVars
  BY <1>1, <1>2, <1>3, CoreInvariant, PTL DEF CoreSpec
<1> QED
  BY <1>4 DEF RunsWhole, Whole

=============================================================================
