------------------------- MODULE MCServiceRuntime -------------------------
(***************************************************************************)
(* Instances of ServiceRuntime for TLC.  Requests of one kind are          *)
(* interchangeable: the specification tells them apart only by equality    *)
(* and by the kill-switch flag.                                            *)
(***************************************************************************)
EXTENDS ServiceRuntime, TLC

CONSTANTS p1, p2, k1, k2

SwitchRequests == {k1, k2}
BothKinds      == {p1, p2, k1, k2}
OneOfEach      == {p1, k1}
OneSwitch      == {k1}

RequestSymmetry == Permutations({p1, p2}) \cup Permutations({k1, k2})

\* The record stays readable, and a process can always be stopped.  Otherwise a
\* Disconnect that fails to stop it leaves active_request behind, and the next
\* connect records that connection as the one to go back to: a tunnel that was
\* given up comes into force again.
PromiseFaults == FaultKinds \ {"load", "stop"}

\* Nothing but the service's own complete sequences changes the routes.
ProcessFaults == FaultKinds \ {"load", "routes", "reboot"}

\* The host may restart, but the record can be written.
RebootFaults == {"probe", "start", "health", "reboot"}

OnlyRoutes  == {"routes"}
OnlyPersist == {"persist"}
NoFaults    == {}
=============================================================================
