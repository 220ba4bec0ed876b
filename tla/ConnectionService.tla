------------------------- MODULE ConnectionService -------------------------
(***************************************************************************)
(* What VarmlenService promises its clients about connections, without     *)
(* saying how: the reported status, the tunnel in force (the connection a  *)
(* restarted service would bring back) and the job being worked on.        *)
(*                                                                         *)
(*   - A switch away from a live connection ends on the new tunnel, on the *)
(*     old one, or in BlockedError with one of the two still in force:     *)
(*     never without a tunnel.                                             *)
(*   - A tunnel comes into force only because a client asked for it, or    *)
(*     because it was in force when the service died.                      *)
(*   - A failed first connection and a lost tunnel end Blocked exactly     *)
(*     when their kill switch asks for it.                                 *)
(***************************************************************************)
CONSTANTS Requests, KillSwitchRequests, None

VARIABLES
  status,  \* the last status reported, "Busy" while there is none to report
  tunnel,  \* the connection in force, or None
  job      \* what the service is doing

vars == <<status, tunnel, job>>

Job(kind, target, keep) == [kind |-> kind, target |-> target, keep |-> keep]
NoJob == Job("none", None, FALSE)

Closed(keep) == IF keep THEN "Blocked" ELSE "Disconnected"

Init == status = "Down" /\ tunnel = None /\ job = NoJob

-----------------------------------------------------------------------------
(* Requests, and what happens to the service. *)

Listening == job = NoJob /\ status \notin {"Down", "Busy"}

Connect(r) ==
  /\ Listening
  /\ job' = Job("connect", r, FALSE)
  /\ UNCHANGED <<status, tunnel>>

Disconnect(k) ==
  /\ Listening
  /\ job' = Job("clear", None, k) /\ status' = "Busy"
  /\ UNCHANGED tunnel

\* The tunnel is found dead.
Lose ==
  /\ Listening /\ status = "Connected"
  /\ job' = Job("clear", None, tunnel \in KillSwitchRequests) /\ status' = "Busy"
  /\ UNCHANGED tunnel

Crash ==
  /\ status # "Down"
  /\ status' = "Down" /\ job' = NoJob
  /\ UNCHANGED tunnel

Recover ==
  /\ status = "Down"
  /\ \E r \in {tunnel, None} : job' = Job("recover", r, FALSE)
  /\ status' = "Busy"
  /\ UNCHANGED tunnel

Uninstall ==
  /\ status = "Down"
  /\ tunnel' = None
  /\ UNCHANGED <<status, job>>

-----------------------------------------------------------------------------
(* Work on the job. *)

Switching == job.kind = "connect" /\ status = "Connected"

Establish ==
  /\ job.kind \in {"connect", "recover"} /\ job.target # None
  /\ tunnel' = job.target
  /\ job' = [job EXCEPT !.kind = "established"]
  /\ UNCHANGED status

\* Only a switch may not give up the tunnel in force.
Drop ==
  /\ job # NoJob /\ job.kind # "established" /\ ~Switching
  /\ tunnel' = None
  /\ UNCHANGED <<status, job>>

GiveUpRecovery ==
  /\ status = "Busy" /\ job.kind \in {"recover", "established"}
  /\ job' = Job("recover", None, FALSE)
  /\ UNCHANGED <<status, tunnel>>

(* The ends of a job. *)

End(s) == status' = s /\ job' = NoJob /\ UNCHANGED tunnel

Succeed == job.kind = "established" /\ End("Connected")

Reject == job.kind = "connect" /\ End(status)

Fall ==
  /\ job.kind = "connect" /\ ~Switching /\ tunnel = None
  /\ End(Closed(job.target \in KillSwitchRequests))

Clear == job.kind = "clear" /\ tunnel = None /\ End(Closed(job.keep))

\* A failed recovery leaves no tunnel, or reports the block.
Settle ==
  /\ job.kind = "recover"
  /\ \/ End("Blocked")
     \/ tunnel = None /\ End("Disconnected")

Break == job.kind \in {"connect", "established", "clear"} /\ End("BlockedError")

Next ==
  \/ \E r \in Requests : Connect(r)
  \/ \E k \in BOOLEAN : Disconnect(k)
  \/ Lose \/ Crash \/ Recover \/ Uninstall
  \/ Establish \/ Drop \/ GiveUpRecovery
  \/ Succeed \/ Reject \/ Fall \/ Clear \/ Settle \/ Break

Spec == Init /\ [][Next]_vars
=============================================================================
