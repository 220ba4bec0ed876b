-------------------------- MODULE KillSwitchRoutes --------------------------
(***************************************************************************)
(* The blackhole of the kill switch and the routes of the tunnel, route by *)
(* route (service/src/windows_routes.rs): what ServiceRuntime calls        *)
(* installing, removing and verifying the hold, and the network of the TUN *)
(* adapter that verifying a candidate configures.  Every netsh command is  *)
(* a step, so Xray may exit, the service die, the host reboot and the      *)
(* network change between any two of them.                                 *)
(*                                                                         *)
(* A route is named by its prefix: the split defaults, or the host route   *)
(* of a local DNS server.  The order within each of the two groups is left *)
(* open.                                                                   *)
(*                                                                         *)
(* Faults names what may fail: "netsh" (a command; a failed delete is      *)
(* ignored by the code), "write" (deleting the route-state file), "read"   *)
(* (loading that file: the code goes on with an empty one).  An install    *)
(* that fails before its first command changes nothing.  The address and   *)
(* the DNS servers of the adapter are commands that may fail.              *)
(***************************************************************************)
EXTENDS Naturals, FiniteSets

CONSTANTS
  Defaults,    \* IPV4_DEFAULTS and IPV6_DEFAULTS
  Servers,     \* local DNS servers the host may meet
  MaxServers,  \* the limit on recorded servers, 128 in the code
  None,
  Faults

ASSUME RoutesAssumption ==
  /\ Defaults \cap Servers = {} /\ None \notin Defaults \cup Servers
  /\ MaxServers \in Nat
  /\ Faults \subseteq {"netsh", "write", "read"}

Routes == Defaults \cup Servers

VARIABLES
  table,     \* the blackhole routes in the route table
  file,      \* dns_servers of the route-state file, empty when there is none
  physical,  \* the local DNS servers of the adapters that are up
  op,        \* the function that is running
  todo,      \* prefixes it still has to work on
  adding,    \* the prefix between the delete and the add of a route, or None
  tun,       \* the split defaults that lead into the TUN adapter, metric 1
  held       \* history: a hold was verified, and no command of it has failed since

vars == <<table, file, physical, op, todo, adding, tun, held>>

TypeOK ==
  /\ table \subseteq Routes
  /\ file \subseteq Servers
  /\ physical \subseteq Servers
  /\ op \in {"idle", "install", "remove", "configure"}
  /\ todo \subseteq Routes
  /\ adding \in Routes \cup {None}
  /\ tun \subseteq Defaults
  /\ held \in BOOLEAN

Init ==
  /\ table = {} /\ file = {} /\ physical \in SUBSET Servers
  /\ op = "idle" /\ todo = {} /\ adding = None
  /\ tun = {} /\ held = FALSE

Return == op' = "idle" /\ todo' = {} /\ adding' = None

\* load_route_state(..).unwrap_or_default()
Loaded == {file} \cup (IF "read" \in Faults THEN {{}} ELSE {})

-----------------------------------------------------------------------------
(* install_killswitch_routes *)

\* Mutation: everything that is installed is recorded, split defaults included.
InstallRecordAll ==
  /\ op = "idle"
  /\ \E loaded \in Loaded : file' = Defaults \cup loaded \cup physical
  /\ op' = "install" /\ todo' = file'
  /\ UNCHANGED <<table, physical, adding, tun, held>>

\* Mutation: only the servers of the moment are recorded.
InstallRecordFresh ==
  /\ op = "idle"
  /\ file' = physical
  /\ op' = "install" /\ todo' = Defaults \cup physical
  /\ UNCHANGED <<table, physical, adding, tun, held>>

\* Old and new servers are recorded before the table changes.
InstallRecord ==
  /\ op = "idle"
  /\ \E loaded \in Loaded :
       LET servers == loaded \cup physical
       IN  /\ Cardinality(servers) <= MaxServers
           /\ file' = servers
           /\ op' = "install" /\ todo' = Defaults \cup servers
  /\ UNCHANGED <<table, physical, adding, tun, held>>

\* The split defaults come before the host routes.
Ready == IF todo \cap Defaults # {} THEN todo \cap Defaults ELSE todo

\* replace_route: delete first, whatever becomes of it.
ReplaceDelete(r) ==
  /\ op = "install" /\ adding = None /\ r \in Ready
  /\ \/ table' = table \ {r}
     \/ "netsh" \in Faults /\ UNCHANGED table
  /\ adding' = r
  /\ UNCHANGED <<file, physical, op, todo, tun, held>>

\* netsh refuses to add a route that is there.
ReplaceAdd ==
  /\ op = "install" /\ adding \notin table \cup {None}
  /\ table' = table \cup {adding}
  /\ todo' = todo \ {adding} /\ adding' = None
  /\ UNCHANGED <<file, physical, op, tun, held>>

ReplaceAddErr ==
  /\ op = "install" /\ adding # None /\ ("netsh" \in Faults \/ adding \in table)
  /\ Return
  /\ held' = FALSE
  /\ UNCHANGED <<table, file, physical, tun>>

\* verify_killswitch_routes(layout, true)
InstallVerify ==
  /\ op = "install" /\ todo = {} /\ Defaults \cup file \subseteq table
  /\ Return
  /\ held' = TRUE
  /\ UNCHANGED <<table, file, physical, tun>>

InstallVerifyErr ==
  /\ op = "install" /\ todo = {} /\ "netsh" \in Faults
  /\ Return
  /\ UNCHANGED <<table, file, physical, tun, held>>

-----------------------------------------------------------------------------
(* remove_killswitch_routes *)

RemoveLoad ==
  /\ op = "idle"
  /\ \E loaded \in Loaded : todo' = Defaults \cup loaded
  /\ op' = "remove" /\ held' = FALSE
  /\ UNCHANGED <<table, file, physical, adding, tun>>

\* delete_route
Delete(r) ==
  /\ op = "remove" /\ r \in Ready
  /\ \/ table' = table \ {r}
     \/ "netsh" \in Faults /\ UNCHANGED table
  /\ todo' = todo \ {r}
  /\ UNCHANGED <<file, physical, op, adding, tun, held>>

\* Mutation: the verification looks at the split defaults only.
GoneDefaults == table \cap Defaults = {}

\* verify_killswitch_routes(layout, false) loads the file again.
Gone == \E loaded \in Loaded : table \cap (Defaults \cup loaded) = {}

\* Ok: the record goes only after the routes it names.
RemoveFile ==
  /\ op = "remove" /\ todo = {} /\ Gone
  /\ file' = {}
  /\ Return
  /\ UNCHANGED <<table, physical, tun, held>>

RemoveErr ==
  /\ op = "remove" /\ todo = {}
  /\ {"netsh", "write"} \cap Faults # {} \/ ~Gone
  /\ Return
  /\ UNCHANGED <<table, file, physical, tun, held>>

-----------------------------------------------------------------------------
(* configure_stable_tun_network, once Xray has brought its adapter up *)

ConfigureStart ==
  /\ op = "idle"
  /\ op' = "configure" /\ todo' = Defaults
  /\ UNCHANGED <<table, file, physical, adding, tun, held>>

\* Mutation: the route is deleted whatever interface it leads to.
TunDeleteAnywhere(r) ==
  /\ op = "configure" /\ adding = None /\ r \in todo
  /\ tun' = tun \ {r} /\ table' = table \ {r}
  /\ adding' = r
  /\ UNCHANGED <<file, physical, op, todo, held>>

\* A reused adapter may still have the route.
TunDelete(r) ==
  /\ op = "configure" /\ adding = None /\ r \in todo
  /\ \/ tun' = tun \ {r}
     \/ "netsh" \in Faults /\ UNCHANGED tun
  /\ adding' = r
  /\ UNCHANGED <<table, file, physical, op, todo, held>>

TunAdd ==
  /\ op = "configure" /\ adding \notin tun \cup {None}
  /\ tun' = tun \cup {adding}
  /\ todo' = todo \ {adding} /\ adding' = None
  /\ UNCHANGED <<table, file, physical, op, held>>

ConfigureErr ==
  /\ op = "configure" /\ ("netsh" \in Faults \/ adding \in tun)
  /\ Return
  /\ UNCHANGED <<table, file, physical, tun, held>>

ConfigureEnd ==
  /\ op = "configure" /\ todo = {}
  /\ Return
  /\ UNCHANGED <<table, file, physical, tun, held>>

-----------------------------------------------------------------------------
(* Around it: Xray exits or is stopped, and its adapter goes with it; the  *)
(* service dies and takes Xray along; the host restarts (store=active      *)
(* routes are gone); the user changes networks.                            *)

XrayExits ==
  /\ tun # {}
  /\ tun' = {}
  /\ UNCHANGED <<table, file, physical, op, todo, adding, held>>

Die ==
  /\ op # "idle"
  /\ tun' = {} /\ held' = (held /\ op # "install")
  /\ Return
  /\ UNCHANGED <<table, file, physical>>

Reboot ==
  /\ table' = {} /\ tun' = {} /\ held' = FALSE
  /\ Return
  /\ UNCHANGED <<file, physical>>

ChangeNetwork ==
  /\ physical' \in SUBSET Servers
  /\ UNCHANGED <<table, file, op, todo, adding, tun, held>>

Install == InstallRecord \/ (\E r \in Routes : ReplaceDelete(r)) \/ ReplaceAdd \/ ReplaceAddErr
             \/ InstallVerify \/ InstallVerifyErr

Configure == ConfigureStart \/ (\E r \in Defaults : TunDelete(r)) \/ TunAdd
               \/ ConfigureErr \/ ConfigureEnd

Remove == RemoveLoad \/ (\E r \in Routes : Delete(r)) \/ RemoveFile \/ RemoveErr

Next == Install \/ Remove \/ Configure \/ XrayExits \/ Die \/ Reboot \/ ChangeNetwork

Spec == Init /\ [][Next]_vars

-----------------------------------------------------------------------------
(* Properties. *)

\* Whenever the service dies, cleanup can find every host route that is in the
\* table: networks may have changed since it was added.
HostRoutesRecorded == table \cap Servers \subseteq file

\* A removal that reports success has left nothing behind.
RemovedMeansGone == [][RemoveFile => table' = {}]_vars

\* windows_routes.rs:25: once verified, the hold stays complete while tunnels come
\* and go above it, until it is removed or the host restarts; installing it again
\* opens no more than the one prefix it is replacing, unless a command fails.
HoldOutlivesTunnels == held => Defaults \ table \subseteq {adding}
=============================================================================
