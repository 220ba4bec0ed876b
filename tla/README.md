# Varmlen for Windows: a TLA+ model

Varmlen is a VPN client. A `LocalSystem` service owns an Xray process with a
Wintun adapter, a set of routes that act as kill switch, and an encrypted record
of what it is supposed to do; a Tauri GUI talks to it over a named pipe. This
directory models the parts where the program can go wrong in ways a test hardly
reaches: switching a live connection, losing it, crashing in between and keeping
the kill switch closed all the while; installing and replacing the core that runs
it; the GUI that talks to it; and the chain of parsers, builders and checks that
turns a link somebody sent into the configuration Xray runs.

    tlc -config ServiceSafety.cfg MCServiceRuntime.tla
    tlapm ServiceRefinementProofs.tla

## The system

| Component | State | Operations | Hard part | Correct when |
|---|---|---|---|---|
| Connection controller (`varmlen-service-core/src/controller.rs`) | reported phase | `connect`, `disconnect`, `audit_runtime`, `force_blocked` | a transaction of ten backend calls, each of which may fail | a switch ends on the new tunnel, on the old one, or in an error state that still knows one of them |
| Windows backend (`windows_backend.rs`) | active, previous, candidate request and adapter, process handle | one method per backend call | what is remembered when a step fails half-way | the old connection is restorable until the new one is committed |
| Kill-switch routes (`windows_routes.rs`) | routes in the active store, route-state file | install, remove, verify, configure the TUN adapter | one `netsh` process per route; deaths in between; reboots | no route is ever left that cleanup cannot find |
| Desired-state record (`state_record.rs`, `windows_state.rs`) | one encrypted file | persist, load, clear | it is all that survives a crash | it carries the kill switch and the connection to resume at every moment |
| Executor, recovery, monitor, host (`pipe.rs`, `windows_service.rs`, `main.rs`) | controller mutex, core-operation mutex, client slots | `open`, Connect, Disconnect, Status, core commands, 500 ms monitor, shutdown, `--cleanup` | recovery from any record; monitor against clients; shutdown aborts tasks | a restart never opens what was promised closed |
| Xray process (`windows_process.rs`, `process_plan.rs`) | child in a job object, staged configuration | validate, start, stop, exit | may exit between any two calls | does not outlive the service, is not taken for alive when it is dead |
| Adapters (`windows_adapter.rs`) | none (reads the host) | best interface, DNS servers | what it reads depends on the service's own routes | the candidate is bound to a physical adapter |
| Core manager (`core_manager.rs`) | installed programs and their assets, active tag, temporary files | install, activate, uninstall, staging of assets | several files, a live reconnect and a rollback, a connection beside them | the active tag names a verified program, and the one in use |
| Request and configuration checks (`varmlen-protocol`, `varmlen-service-core/src/runtime.rs`) | none | validate, inspect, rewrite | they repeat the rules of another program | what the client builds is accepted, and bound to the physical adapter |
| Client configuration (`src-tauri/src/subscription.rs`, `xray.rs`, `split.rs`) | none | eleven parsers, five builders, provider profiles, route rules, probe | free-form input; one field under many names | what a location asks for is what runs, and nothing unsafe does |
| Log store, pipe policy, framing, handler | log files; otherwise none | rotate, tail, authorize, frame | limits | see the repository's tests |
| GUI bridge (`src-tauri/src/vpn.rs`, `service_client.rs`, `core.rs`, `tray.rs`, `lib.rs`) | operation ids, one lock over connect and disconnect | connect, disconnect, status with timeouts; import and fetch of subscriptions | an answer that comes after the timeout; redirects | the phase shown is a phase the service reported; no request leaves the checked addresses |
| Connection store (`src/lib/conn.svelte.ts`, `connection-operation.ts`) | status, generation, debounce timer | connect, disconnect, refresh, config change, drop event | answers out of order | an older answer never overwrites a newer intent |
| Subscription store (`src/lib/subs.svelte.ts`, `subscription-refresh.ts`) | subscriptions, selection, timers | import, refresh, edit, remove, auto-refresh | answers merged into a list that changed meanwhile | no edit is lost, the selection stays on its server |
| Other stores, application discovery, UI, installer | local storage | | | |

A client's request passes the pipe, the executor's mutexes and the controller,
which calls the backend; the backend writes the record, then changes routes and
process. The monitor takes the same controller mutex. A starting service reads the
record and drives the same controller before it accepts clients. `PROJECT.json`
lists every component with its status and every hazard at its line.

## Modules

| Module | Models | Composed with |
|---|---|---|
| `DesiredState` | the record's phases and what `open()` concludes from each | extended by `ServiceRuntime` |
| `ServiceRuntime` | controller, backend, recovery, monitor, process, hold, record, crash, reboot, cleanup | instantiates `ConnectionService` |
| `ConnectionService` | what clients are promised: status, tunnel in force, job | implemented by `ServiceRuntime` |
| `KillSwitchRoutes` | the blackhole and the routes of the TUN adapter, one step per `netsh` command | detail of `routes` in `ServiceRuntime` |
| `CoreSwitch` | core manager, `execute_core`, both mutexes, beside a client that connects and disconnects | extends `ConnectionService` |
| `ClientConnection` | the GUI: `ConnStore`, the generation gate, `vpn_op_lock`, requests with timeouts | instantiates `ConnectionService` as the service it talks to |
| `Records` | maps and lists: keys that may be missing, joined maps, the items of a list that pass a filter | |
| `ShareLinks` | the parsers of `vless`, `vmess`, `trojan`, `ss`, `socks`, `http`, `hysteria2` and `wireguard` links and of WireGuard files | extends `Records` |
| `JsonImport` | Xray JSON: `apply_stream`, `parse_outbound`, the walk of `collect_json_servers`, endpoints | extends `ShareLinks` |
| `RouteRules` | split tunnelling: `build_route_rules`, and which rule Xray takes | |
| `XrayConfig` | provider outbounds and profiles, `validate_server`, the builders, both configurations | extends `JsonImport`, `RouteRules` |
| `RuntimeConfig` | the service's inspections and rewritings of the two configurations | extends `XrayConfig` |
| `LocationPipeline` | the stages a location passes, from text or URL to the process and its restart | extends `RuntimeConfig` |
| `MCServiceRuntime`, `MCKillSwitchRoutes`, `MCCoreSwitch`, `MCClientConnection`, `MCLocationPipeline` | instances for TLC | |
| `ServiceRuntimeProofs` | theorems: types and control state | extends `ServiceRuntime` |
| `KillSwitchProofs`, `SwitchProofs` | theorems: the promise of the kill switch; the bookkeeping of a switch | extend `ServiceRuntimeProofs` |
| `ServiceRefinementProofs` | theorem: the service keeps its promise | extends `SwitchProofs` |
| `LocationPipelineProofs` | theorems: what is imported, requested and run, for every input | extends `LocationPipeline` |
| `KillSwitchRoutesProofs`, `CoreSwitchProofs`, `ClientConnectionProofs` | theorems | each extends its module |

### How ServiceRuntime corresponds to the code

`pc` names the backend call the operation that holds the controller mutex makes
next; every action `XOk`/`XErr` is that call with one of its outcomes, together
with what the controller does with it before the next `await`. `Throw` is the `?`
that ends `connect()`: what becomes of it depends on who called (`origin`), a
client, the monitor, or `open()`, which retries once as a disconnect and then
calls `force_blocked`. `recover_candidate_failure` is `Recover`, followed by the
`restore*` or the `clear*` steps. `clear_network_state` is shared by disconnect,
audit, failed first connections and recovery, as in the code.

Requests are opaque; only the kill-switch flag steers the control flow. `routes`
is `none`, `torn` or `full`; a failed or interrupted install or removal may leave
anything in between. `adapter` and `bound` follow the interface names, so that the
model knows when the candidate is bound to the loopback interface. `armed` is
history: it is set where the service starts to owe a kill switch (a commit or a
completed block with the flag) and cleared where the user lets go (a
disconnect that does not keep the block, a commit without the flag, or, with no
tunnel to fall back on, the Connecting record of a request without the flag).

Crash covers a kill, a power loss and the service manager's stop, which aborts
client tasks at an `await`. The job object takes Xray with the service. `Boot` is
`RuntimeExecutor::open` on the record that is there. `CleanupOk` and `CleanupErr`
are `varmlen-service --cleanup`.

### KillSwitchRoutes

Every `netsh` command is a step. `replace_route` is `ReplaceDelete` then
`ReplaceAdd`; a failing command, a death, a reboot (active-store routes vanish) and
a change of networks may come at any point. The record holds at most `MaxServers`
servers (128 in the code). `configure_stable_tun_network` is `ConfigureStart` (address
and DNS), then `TunDelete` and `TunAdd` per destination, while the blackhole has routes
to the same destinations through loopback; `XrayExits` takes the adapter with its
routes away. `held` is history: a complete installation was verified and neither a
removal, a reboot nor a failed refresh has touched it since. `ServiceRuntime` treats a
whole install as one step; refreshing a blackhole that is in place opens it prefix by
prefix, which `HoldOutlivesTunnels` states and `torn` stands for there.

### CoreSwitch

The service below is `ConnectionService`, so that the run composes the core manager
with everything `ServiceRuntime` may do; a request is told from another by its
`xray_version` alone. `op` is the operation that holds `core_operations`, with the
step it is at: each step is one file operation, one run of `xray.exe version` or one
use of the controller. `ClientDisconnect` and `TunnelLost` take the controller's mutex
only, and so interleave with every operation; `Activate` keeps that mutex from its
decision to the end of its rollback. `exe`, `asset` and `temp` are the files of a
version. `Die` leaves the step it interrupts half done and may, with `power`, leave an
asset that was never flushed missing, empty or `damaged`: too short, or with its length
and zeroes for contents. The staging that follows asks for a length above 0
(`core_manager.rs:376`), so it refuses an empty asset and takes a damaged one;
`RunsWhole` says so. Tags name different directories: the client sends those of the
release list, not `..`, which `valid_tag` (`core_manager.rs:135`) would let pass. `adrift` is history: the live connection was
resumed by a restart, or a rollback failed, and may run another version than the
active one. The program does not prevent uninstalling that version, so
`ActiveIsRunning` and `LiveCoreKept` are claimed of the others.

### ClientConnection

A script runs to its next `await` in one step. `calls` are the `connect()` and
`disconnect()` calls in flight, in the order of `vpn_op_lock`; `at` is the `await` a
call is in: the location parser, the lock or the pipe, the service, or an answer that
has not been handled. A generation number is only ever compared with the latest one,
so a call carries `current`, which `Begin` takes away from all earlier calls. The
service is `ConnectionService`, the specification `ServiceRuntime` implements, so the
run composes the GUI with everything the service may legally do. A request that timed
out stays with the service (`orphans`) and is served first, as the controller's mutex
is fair.

`raced` is history: the overlaps of two calls that the store does not guard against.
A property names the overlaps that break it and is claimed in every behaviour without
them, so a reader sees what each one costs:

| Overlap | Where | Breaks |
|---|---|---|
| `edit` | `onConfigChanged` during a disconnect (`conn.svelte.ts:88`) | `DisconnectIsFinal` |
| `draft` | no `isCurrent` after `selectedServerRaw` (`:114-123`) | `DisconnectIsFinal`, `ShownIsRunning`, `ConnectingIsOwned` |
| `refuse` | `begin()` before the location is known to be valid (`:109-122`) | `ConnectingIsOwned` |
| `poll` | `refresh()` replaces "connecting", or is handled after a newer answer (`:197`) | `DisconnectIsFinal`, `ShownIsRunning` |
| `stale` | no `isCurrent` in the inner `catch` (`:153-155`, `:173-176`) | `ShownIsRunning` |

A configuration is a value; `Signature` is what `configSig()` looks at of it. That
leaves out the sni, path, transport and flow of the location and the log level
(`conn.svelte.ts:64`, `subs.svelte.ts:84`): `Edit` to a configuration of the same
signature schedules nothing, and the connection goes on with the old one.
`ShownIsRunning` is therefore claimed up to `SameSignature`. What is assumed of a
signature is that it shows the kill switch.

`word` is history too: the user's last word, and whether the service has carried out
a disconnect that was the last word.

### ShareLinks to LocationPipeline

Links, servers, outbounds and configurations are records that carry a field only when
the code writes it, so that a missing field and an empty one stay different. A parser
returns the set of its results, empty for an error. What a URL library does with a
string (splitting, decoding) is not modelled: a link is the record of its parts. JSON
is a record; a sequence is an array. Ports are numbers, 0 included. Names in a query or
a JSON object stay the program's, since the properties are about which name ends up
where. `Lower` is the lower-casing of a protocol, which the builders of `xray.rs` do
and the importer does not. The `extra` of an XHTTP link is a name, and `Extras` the
object that name is the JSON of: `TransportSettings` merges its keys into the
outbound, below those of the link, and nothing looks inside before. A missing
password (`Unset`) and an empty one differ, since `ss` and `socks` links with an
encoded pair may carry an empty one. What the model abstracts is named at its
definition: both observatories are one. The service's limit on applications is
`MaxExcludedApps` (256 in the code); a list of more than 64 endpoints, a
configuration above the size limit and a selector field that is not a path do not
occur.

`collect_json_servers` calls itself on what a document contains. `Places` are the
values it reaches, each with the source it inherits and its depth; `Locations` is what
it adds at each. Their order, and a location that stands twice in a document, are left
out: the user chooses one. In `f ++ g` a key of `f` wins, as a later `insert` does;
`Picked` is `filter(..).collect()`.

The inputs are assumed to have the shapes the code's types give them, and no more:
`DocumentsAssumption` (what stands under `outbounds` and `rules` is a list, and a key
that is there has a value), `SelectionsAssumption` (`SplitInput` is two modes and two
lists; `xray.rs:960` drops empty sites), `RedirectsAssumption`. `ProbePortAssumption`
says that the constant 20810 is a port.

`LocationPipeline` gives each stage its place: `Paste`, `PasteUrl`, `Request`,
`Redirected` and `Downloaded` are `fetch_subscription` hop by hop, `Connect` is
`vpn_connect` up to the request, `Accept`, `ProbeFails` and `Run` are
`validate_candidate`, and `Restart` takes the recorded request through the service's
checks again. The two configurations of a request are planned separately, as in the
code: where a plan takes the first element of a `HashSet`, the two may differ.

`RouteOf` is Xray's: the first rule that matches. It is external, and the only thing
said about Xray's routing.

## Runs

| Run | Bounds and faults | Shows |
|---|---|---|
| `service_safety` | two requests of each kind, all faults | the bookkeeping of a switch: `ConnectedIsRecoverable`, `SwitchIsUndoable`, `SwitchIsCovered` |
| `service_promise` | the same, without unreadable records and unstoppable processes | `DurableIntent`, `NeverSilentlyOpen`, and the refinement `ImplementsService` |
| `service_closed` | one request of each kind, faults that leave the routes alone | `FailClosed`, `DisconnectedIsOpen`; liveness `OperationTerminates`, `DeadTunnelNoticed` |
| `service_reboot` | one request of each kind, reboots | `RecoversClosed` |
| `route_table` | two defaults, three servers, room for two | `HostRoutesRecorded`, `RemovedMeansGone`, `HoldOutlivesTunnels` |
| `core_switch` | the bundled core and two downloads, all faults | `InstalledIsVerified`, `TagIsInstalled`, `ActiveIsRunning`, `LiveCoreKept`, `RunsWhole`; liveness `CoreOperationEnds` |
| `location` | a body of each kind, links of each scheme and transport, provider JSON of each shape, each split mode, at most three redirects | eleven properties, below |
| `client` | three configurations, two of one signature, two operations and one poll in flight, four events (user acts, failures, crashes) | `DisconnectIsFinal`, `ShownIsRunning`, `ConnectingIsOwned`; liveness `LossNoticed` |
| `client_reconnect` | the same | a disagreement: a change during a disconnect reconnects after it |
| `blocked_without_routes`, `candidate_on_loopback` | the smallest fault set that shows it | two disagreements of the service's code and documentation |
| `wireguard_stream` | as `location` | a disagreement of client and service about WireGuard outbounds |

Every disagreement is quoted with its lines under `findings`.

The properties of `location` follow a location through the chain. What is accepted:
`FetchesAsAsked` (each hop is checked anew, never downgraded), `ValidatedIsBuildable`
(no builder panics on what validation let through), `BuiltIsAccepted` (the service
does not turn down what the client built, now or after a restart). What is lost or
mistaken on the way: `LinkIsCarried` (an option of a link that the tables list reaches
the key Xray reads),
`BuiltIsParsedBack` (the JSON parser undoes the builder), `SourceIsOwn` (saving a
location unchanged changes nothing). What runs: `NothingUnsafeIsRun`,
`DialledIsPinned`, `RulesLeadSomewhere` (no rule names an outbound that was renamed or
dropped), `SplitIsHonoured` (who leaves past the tunnel, said without rules). Where the
code does not keep a property in full, its comment names what is left out; where the
repository says otherwise, the next section quotes it. `BuiltIsParsedBack` does not hold
of a link that gives its path, mode or spider as empty, which is built as `""`, read
back as absent and built again as the default.

### Disagreements found

Four have a run that refutes the claim (`findings`). In five more the property says
what the code does, and its comment quotes the claim that goes further:

| The repository says | The code does | Property |
|---|---|---|
| `conn.svelte.ts:64`: "Signature of everything that affects the generated config" | the signature has neither sni, path, transport and flow nor the log level; such an edit of a live connection has no effect until the next connect | `ShownIsRunning` |
| `xray.rs:552`: "Certificate and hostname validation are never optional" | the `extra` object of an XHTTP link is merged as it came (`:569`); `allowInsecure` and `masterKeyLog` inside its `downloadSettings` run, only the keys of `runtime.rs:337` are refused | `NothingUnsafeIsRun` |
| `split.rs:5`: "only listed apps/sites are tunneled; default direct", and `:40` | with applications "general" and sites "selective" an unlisted site is tunnelled | `SplitIsHonoured` |
| `subscription.rs:673`: every "remote endpoint a logical location can dial" | neither the second endpoint of an outbound nor one whose protocol is spelt "Trojan" is pinned; the builders run both (`xray.rs:280`) | `DialledIsPinned` |
| `subscription.rs:1311`: options of `vmess` links "aren't silently dropped" | dropped are the REALITY keys of a link accepted with it (`:1301`), the mKCP seed in its path, mode and extra of XHTTP, the authority of gRPC, and the service name when the network is spelt "gun" (`:1339`) | `LinkIsCarried` |

Found while stating `BuiltIsAccepted`, with no claim against it: the GUI lets through
port 0, more than 256 applications (`vpn.rs:161`) and files named by balancers, an
observatory or the depth of an `extra` object, all of which the service refuses.

Bounds. A transaction involves at most an active and a candidate request, and the
requests left over from an earlier one; two of each kind let every pair of
different requests of equal or unequal flag meet, and a third of a kind would be
indistinguishable from one of the two. Nothing else in `ServiceRuntime` is bounded:
its state space is finite. In `KillSwitchRoutes` one default of each family stands
for both of it (all are treated alike, in order before the host routes), and three
servers with a limit of two make the limit, an old network and a new one meet. In
`CoreSwitch` three versions are the one in use, the one being activated and one that
is installed or removed meanwhile; the bundled one cannot be removed. Nothing else is
bounded there. `LocationPipeline` is a pipeline of pure functions: its bound is its
inputs (`MCLocationPipeline`): every scheme with the queries its parser tells apart,
with and without credentials, with no port, 0 and another; every shape of document;
each mode of splitting with and without lists, among them an application spelt in two
ways and one that is gone, and a site with and without its subdomains; one application
more than the limit of the instance; `extra` objects that are harmless, name a file or
ask for no certificate check; a protocol spelt with a capital. In
`ClientConnection` two of three configurations share a signature. Normal progress is
unbounded; what the user does and what goes
wrong is bounded by `MaxEvents`. Four are enough for the bound to be sharp: dropping
any one overlap from any one property lets TLC refute it. When they are used up the
system may stop, so deadlock is not checked there.

Fault sets. `load` (an unreadable record) opens the network by design, so the
promise runs leave it out. `stop` (the query of the child handle fails) breaks the
refinement: `clear_network_state` then returns before it forgets `active_request`,
and the next connect records the connection that was given up as the one to go back
to. `routes` and `reboot` are excluded where the absence of any gap is claimed, and
only there: a torn table is a gap by definition, and `blocked_without_routes`
shows where the code produces one. `core_switch` has all its
faults.

Fairness, in `FairSpec`. WF of `OperationStep`: every wait of a backend call is
bounded (`wait_for_candidate`, probes, 3 s for a killed child). WF of `Boot`: the
installer registers the service for automatic start and unlimited restart
(`src-tauri/windows/installer-hooks.nsh`, `start= auto`, `sc.exe failure`). SF of
`Audit`: the monitor ticks every 500 ms and the tokio mutex is FIFO, so a stream of
clients cannot starve it although each of them disables it for a while. No client
is fair, and no fault. In `ClientConnection` the timers fire, an awaited result is
handled, the service works on (`OperationTerminates`) and restarts; SF of
`PollServed` says that status requests are not given up for ever, which holds since
the controller's mutex is fair and every operation ends. `RecoversClosed` assumes that
crashes stop at some point. `CoreFairSpec`: SF of `JobEnds`, which is
`OperationTerminates` seen from above, and SF of `CoreStep`, since each wait of a core
operation has a timeout (HTTP client, `verify_xray_version`) and the mutex it may wait
for is FIFO: disconnects disable it for a while, again and again, but not for ever.
`LocationPipeline` claims no liveness: a user may leave a location unconnected.

## Proofs

`ServiceRuntimeProofs!TypeCorrect` holds for all requests and faults. It rests on
`TypeInv`: types plus the shape of the control state.

`KillSwitchProofs`. `DurableIntent` is not inductive: whether the next record keeps
the promise depends on what the running operation will write. `IntentInv` adds

- `Presence`, `RecordShape`: which requests are in memory and what the record looks
  like at each step;
- `PromiseToBe`: an operation that is about to arm the kill switch has already
  written a record that shows it;
- `PromiseInRequests`, `PromiseInOperation`: while armed, the promise is in the
  active, previous or candidate request the step will record next, or in the `keep`
  and `fallback` arguments.

Its only assumption is that the record can be read (`"load" \notin Faults`), since
`open()` takes an unreadable one for none. `NotOpened` follows from the same
invariant. `Closed` adds `HeldInv`, which ties the routes to the step, and assumes
away `routes` and `reboot`; it covers every number of requests and all other faults.

`SwitchProofs`: `Recoverable`, `Undoable` and `Covered` for all requests and all
faults, `Open` where no route command fails or is cut short (`"routes" \notin
Faults`). Which connection is in memory, in the record and started are three
variables that `connect()` changes one backend call at a time, so none of the four is
inductive: a call that fails hands over to a restore or a clearing that relies on what
an earlier call left. `SwitchInv` says, step by step, where they still agree:

- `RequestInv`: which request an operation carries, whose the candidate and the
  started process are, and that only a client's connect replaces a live connection;
- `LiveInv`: the three agree as long as a connect may still return to the old
  connection without a restore, and again from a commit on;
- `HoldInv`, for `Covered`: from the hold to the commit, the record is the one
  `persist_hold` wrote;
- `OpenInv`, for `Open`: the steps at which process, connection and routes are
  already gone.

`ServiceRefinementProofs!Implements`: every step of `ServiceRuntime` is a step of
`ConnectionService` or changes nothing that its clients see. `TunnelInv` ties
`active_request` to the record, which is the mapping's tunnel. The step lemmas go call
by call: the commit is `Establish`, the outcome of a clearing is `Clear`, `Fall` or
`Settle`, a failed restore is `Break`. The only assumption is that a process can be
queried (`"stop" \notin Faults`), without which the refinement is false; the run also
leaves out unreadable records, the proof shows that it need not.

`KillSwitchRoutesProofs`: `Recorded` and `RemovalComplete` for any servers and any
limit, assuming the route-state file can be read (the code replaces an unreadable
one). The invariant adds that an install only adds what it has recorded, and that a
removal works on at least what the file holds. `TypeCorrect` needs only the assumption
on the constants. `HoldStays` holds under all faults: `HoldInv` says, per step,
which prefix is being replaced and by whom, that only an installation leaves one open,
and that a removal or a failed command has taken `held` back.

`CoreSwitchProofs`: all safety properties of the run, for any versions and all
faults. `CoreInv` is one invariant, since its parts need each other: `DiskInv` (what
is in place was verified, and both versions `active_tag()` may resolve to are in
place), `TagInv` (what an operation remembers of the tag is still true at the step
that uses it, though the controller's mutex is released in between), `JobInv` (which
job of the service below belongs to which operation), `FreshInv` (only a restart has
something to resume) and `LiveInv`: a live connection that is not adrift runs the
version the client was last told is active, which during an activation is the one
before. `ActiveRuns` and `LiveCoreStays` are `LiveInv` between operations;
`RunsOnWhole` is an action property from the same invariant.

`ClientConnectionProofs`: all safety properties of the run, for any number of calls,
events and configurations and any `Signature`. Calls are a sequence in which each step appends, removes,
moves or changes one, and the first lemmas say what each of these leaves.

- `ClientTypes`: `TypeInv` adds which job the service works on for a call that is
  being served, so that at most one is.
- `SpinnerEnds`: `ConnectingIsOwned` is inductive with it.
- `DisconnectStays`: `CurrentIsLast` (only the last call of the queue is current: the
  generation gate), `TimerHolds` (no reconnect is scheduled beside a current
  disconnect), `ServedAlone` (while it is served, no other request is under way: the
  lock and the fair mutex), and `Done`, what is left once it was carried out: no call
  that can still ask for a tunnel or show one, and a service without work that leads
  to one.
- `ShownRuns`: `WorkInv` relates phase, tunnel and job of the service; `TrackedInv`
  follows the current call from the parser to its answer, `ShownInv` what is shown
  when there is none. Both say: either a scheduled reconnect is due, or an error is
  shown, or the service has the tunnel of what is configured, or none, and goes on to
  nothing else (`Settled`, `Gone`).

The overlaps each of them excludes are the ones of the table above, which TLC shows
to be necessary.

`LocationPipelineProofs`: ten of the eleven properties of `location`, for any
documents, links, selections, redirects, adapters and ports that have the shapes above.
The configuration modules are pure functions, so the invariant remembers where each
value came from and lemmas about those functions do the rest:

- `PipelineInv` is `TypeOK`, `FetchInv` (after an encrypted request the next URL is
  encrypted too), `LocationInv` (a location is one a parser returns: its profile has a
  proxy outbound and `raw_outbound` is the first; a location with a link is that link
  parsed), `RequestInv` (the two configurations are built from two plans of that
  location), `AcceptInv` (what is past the service's checks passed them), `RunInv` (what runs is the request bound to an adapter). None of the
  properties is inductive: a request says nothing of the profile it was planned from.
- What a filter keeps (`PickedIs`; that a finite set of positions can be put in order
  takes an induction by least counterexample, `OrderExists`), what cleaning leaves of an
  outbound (`SanitizedIs`), what a plan holds (`PlanIs`, `PlanReaches`), and that the two
  plans of one location dial the same (`PlansAgree`). From these: `NoPanic`,
  `RoutesArePinned`, `RulesAreKept`, and with `BoundIs` and `RunIs` `ServiceAgrees` and
  `ProvidersAreNotTrusted`.
- `SplitHolds`. Rules are a concatenation of parts; `RouteSplits` gives the route of a
  joined list from those of its halves, and `RouteIs` says part by part which of them
  decides a flow.
- `LinksAreCarried`. A parser keeps a query under its own names (`LinkKept`), the builder
  writes them under Xray's (`LayerAsks`, `TransportAsks`, `ExtraAsks`, `UserAsks`), for
  the options that the tables of `LinkIsCarried` list.
- `EditorRoundTrip`. `ReadBy` says which part of the stream settings each option is read
  from; `LayerBack`, `TransportBack` and `CredentialsBack` that what is built from it is
  what was there.

Lemmas about the longest of these functions name the empty string `Nil` and a looked-up
option `Text`, so that no leaf has to compare string literals, which the SMT encoding of
this prover does poorly; for the same reason a port number is kept behind
`PortNumbers`.

Each invariant was first checked by TLC on the instances of the runs, `Implements`
and `Open` with the faults the theorems allow and the runs leave out.

Model-checked only:

- liveness and `ENABLED` (beyond the prover): `OperationTerminates`,
  `DeadTunnelNoticed`, `RecoversClosed`, `CoreOperationEnds`, `LossNoticed`;
- `SourceIsOwn`: it compares two walks over documents, one from the place where a
  location was found, and what a walk reaches is an induction over its steps. It does not
  hold of every document either: of a list or a profile inside the `outbounds` of
  another object, the source a location inherits holds its siblings too. The run has the
  shapes that providers use and the repository's tests contain;
- the four refuted claims, which the runs show to be false.

## Not modelled

- The subscription store (`subs.svelte.ts`): refresh, merge and selection over a list
  that may change meanwhile. Its hazard is listed without a property.
- The core, split and settings stores: a value each, written by one caller.
- Subscription metadata (traffic, expiry, titles): it is displayed. The choice among
  the assets of a release, the listing of versions: they change nothing; refusing a
  release is an outcome of `DownloadFails`.
- Discovery of applications and icons (`apps.rs`), storage (`storage.rs`): I/O.
- Client slots, framing, authorization by SID, the log store: see the components.
- In the GUI: the listeners of `vpn-dropped` and `vpn-running`, which nothing in
  `src-tauri` emits, and the page being loaded anew.
- UI, installer and build scripts. Operation ids are echoed by the service and never
  compared by it.

## What is left

1. `RecoversClosed` and `KillSwitchProofs!Closed`: what remains true of the routes when
   they may be torn.
2. The subscription store, with the merge of an answer into a list that has changed.
