--------------------------- MODULE DesiredState ---------------------------
(***************************************************************************)
(* The desired-state record of VarmlenService (service/src/state_record.rs *)
(* and windows_state.rs) and what a starting service concludes from it     *)
(* (RuntimeExecutor::open in service/src/pipe.rs).  The record is the only *)
(* memory that survives a crash of the service, so every promise that has  *)
(* to outlive a crash must be readable in it.                              *)
(*                                                                         *)
(* A ConnectRequest is a member of Requests: its Xray configuration,       *)
(* endpoints and applications never influence control flow, its killswitch *)
(* flag does.                                                              *)
(***************************************************************************)
CONSTANTS
  Requests,            \* the connection requests clients can make
  KillSwitchRequests,  \* those whose killswitch flag is set
  None                 \* Rust's Option::None

ASSUME RequestsAssumption ==
  /\ KillSwitchRequests \subseteq Requests
  /\ None \notin Requests

MaybeRequest == Requests \cup {None}

\* request.as_ref().is_some_and(|request| request.killswitch)
killswitch(r) == r \in KillSwitchRequests

(***************************************************************************)
(* DesiredStatePhase.  A field that a phase does not carry is None or      *)
(* FALSE; "absent" stands for a state file that does not exist.            *)
(***************************************************************************)
RecordStates ==
  {"absent", "disconnected", "connecting", "connected", "disconnecting", "blocked"}

Record == [state: RecordStates, request: MaybeRequest, previous: MaybeRequest, keep: BOOLEAN]

Plain(s) == [state |-> s, request |-> None, previous |-> None, keep |-> FALSE]

Absent       == Plain("absent")
Disconnected == Plain("disconnected")
Blocked      == Plain("blocked")

Connecting(candidate, previous, requested_kill_switch) ==
  [state |-> "connecting", request |-> candidate, previous |-> previous,
   keep |-> requested_kill_switch]

Connected(request) == [Plain("connected") EXCEPT !.request = request]

Disconnecting(keep_blocked) == [Plain("disconnecting") EXCEPT !.keep = keep_blocked]

-----------------------------------------------------------------------------
\* Mutation: only the interrupted candidate decides, not the connection it replaces.
KeepBlockedOnFailureCandidateOnly(d) ==
  d.state = "blocked" \/ d.keep \/ killswitch(d.request)

\* open(): keep_blocked_on_failure, the fallback of a recovery that fails.
KeepBlockedOnFailure(d) ==
  \/ d.state = "blocked"
  \/ d.keep
  \/ killswitch(d.request)
  \/ killswitch(d.previous)

\* open(): the connection to re-establish, None when the service disconnects.
RecoveryRequest(d) == IF d.state = "connecting" THEN d.previous ELSE d.request

\* Mutation: a record of a block that is complete is not told from an open one.
RecoveryKeepBlockedFlagOnly(d) == d.keep

\* open(): the keep_blocked argument when the service disconnects.
RecoveryKeepBlocked(d) == d.state = "blocked" \/ d.keep
=============================================================================
