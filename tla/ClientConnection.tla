-------------------------- MODULE ClientConnection --------------------------
(***************************************************************************)
(* The GUI's side of a connection: ConnStore (conn.svelte.ts) with its     *)
(* ConnectionOperationGate, the commands of vpn.rs behind vpn_op_lock, and *)
(* the requests of service_client.rs, against a service that behaves as    *)
(* ConnectionService promises.                                             *)
(*                                                                         *)
(* Scripts run to their next await in one step.  calls holds the connect() *)
(* and disconnect() calls in flight in the order they queue for            *)
(* vpn_op_lock; poll is the refresh() in flight.  An operation outdates a  *)
(* refresh(), whose answer then has no effect: it leaves at once.          *)
(*                                                                         *)
(* The gate numbers operations; whether a number is still the latest is    *)
(* all that is asked of it, so a call carries current.  begin() clears the *)
(* timer, hence the generation of an armed timer is the latest one.        *)
(* lastSig is the signature of the current configuration after every       *)
(* script, since onConfigChanged runs on each change.                      *)
(*                                                                         *)
(* raced collects overlaps the store does not guard against; a property    *)
(* names those it does not survive:                                        *)
(*   "edit"    a change is scheduled while a disconnect is in flight       *)
(*   "draft"   a call goes on although, while its location was compiled,   *)
(*             another operation began or the configuration changed        *)
(*   "refuse"  a connect() that finds no valid location outdates the one   *)
(*             whose spinner is shown                                      *)
(*   "poll"    a refresh() changes the status with an operation in flight, *)
(*             or its answer waits while an operation is answered          *)
(*   "stale"   an outdated call reports that the service is unreachable    *)
(*                                                                         *)
(* Left out: the vpn-dropped and vpn-running events, which nothing in      *)
(* src-tauri emits; blockedByKillswitch, which follows status; the page    *)
(* being loaded again; core operations, which can hold a connect back in   *)
(* the service.                                                            *)
(***************************************************************************)
EXTENDS Naturals, Sequences, SequencesExt

CONSTANTS
  Configs,            \* what the user can configure: a location and settings
  KillSwitchConfigs,  \* those with the kill switch
  Signature,          \* configSig(): of a configuration, the part it looks at
  MaxCalls,           \* bound on the connect() and disconnect() calls in flight
  MaxEvents,          \* bound on what the user does and what goes wrong, in all
  None

ASSUME ClientAssumption ==
  /\ KillSwitchConfigs \subseteq Configs
  /\ DOMAIN Signature = Configs
  /\ \A c \in KillSwitchConfigs, d \in Configs :
       Signature[c] = Signature[d] => d \in KillSwitchConfigs
  /\ MaxCalls \in Nat \ {0} /\ MaxEvents \in Nat
  /\ None \notin Configs

VARIABLES
  \* ConnStore
  status, error,  \* error: something is shown under the power button
  config,         \* what is configured now
  timer,          \* the debounced reconnect is scheduled
  grace,          \* less than CONNECT_GRACE_MS since "connected"
  calls, poll,
  orphans,        \* requests the client gave up and the service has yet to serve
  \* the service
  service, tunnel, job,
  \* history
  word,           \* the user's last word: to connect ("on"), to disconnect
                  \* ("off"), and that was carried out ("done")
  raced,
  events          \* how much of MaxEvents has been used up

store    == <<status, error, config, timer, grace>>
promised == <<service, tunnel, job>>
history  == <<word, raced>>
vars     == <<store, calls, poll, orphans, promised, history, events>>

Service == INSTANCE ConnectionService
  WITH Requests <- Configs, KillSwitchRequests <- KillSwitchConfigs, status <- service

Overlaps   == {"edit", "draft", "refuse", "poll", "stale"}
Operations == {"connect", "disconnect"}
Rechecks   == {"recheckConnect", "recheckDisconnect"}
Shows      == {"connected", "dropped", "disconnected"}

\* at: "select", "queued" (for the lock, or sent), "served", or the answer
Call(kind, at, c) == [kind |-> kind, at |-> at, current |-> TRUE, config |-> c]
NoPoll == "none"
Answers == Shows \cup {"error"}

\* Types, and that the service works for at most one call, which holds the lock.
TypeOK ==
  /\ status \in Shows \cup {"connecting"}
  /\ error \in BOOLEAN /\ timer \in BOOLEAN /\ grace \in BOOLEAN
  /\ config \in Configs
  /\ calls \in Seq([kind: Operations \cup Rechecks,
                    at: {"select", "queued", "served"} \cup Answers,
                    current: BOOLEAN, config: Configs \cup {None}])
  /\ poll \in {"none", "queued"} \cup Shows
  /\ \A i, j \in DOMAIN calls : calls[i].at = "served" =>
       job # Service!NoJob /\ (i # j => calls[j].at # "served")
  /\ orphans \subseteq Configs \cup {None}
  /\ word \in {"none", "on", "off", "done"} /\ raced \subseteq Overlaps
  /\ events \in 0..MaxEvents

Init ==
  /\ status = "disconnected" /\ error = FALSE /\ config \in Configs
  /\ timer = FALSE /\ grace = FALSE
  /\ calls = <<>> /\ poll = NoPoll /\ orphans = {}
  /\ service = "Disconnected" /\ tunnel = None /\ job = Service!NoJob
  /\ word = "none" /\ raced = {} /\ events = 0

Outdated == [i \in DOMAIN calls |-> [calls[i] EXCEPT !.current = FALSE]]

InFlight(kinds) == \E i \in DOMAIN calls : calls[i].kind \in kinds

\* Mutation: a new operation leaves the scheduled reconnect alone.
BeginKeepsTimer(new) ==
  /\ Len(calls) + Len(new) <= MaxCalls
  /\ calls' = Outdated \o new
  /\ poll' = NoPoll
  /\ UNCHANGED timer

\* operations.begin() and cancel(): earlier calls are outdated.
Begin(new) ==
  /\ Len(calls) + Len(new) <= MaxCalls
  /\ calls' = Outdated \o new
  /\ poll' = NoPoll
  /\ timer' = FALSE

\* What configSig() leaves out of a configuration makes no difference: of the
\* location all but its protocol, host, port, uuid, password and method, and the
\* log level.
SameSignature(c, d) == Signature[c] = Signature[d]

\* The user does something, or something goes wrong.
Spend == events < MaxEvents /\ events' = events + 1

Raced(kind, when) == raced' = raced \cup {k \in {kind} : when}

-----------------------------------------------------------------------------
(* connect() and disconnect() up to the call of the command. *)

\* The location is compiled at once.
ConnectNow ==
  /\ Begin(<<Call("connect", "queued", config)>>)
  /\ status' = "connecting" /\ error' = FALSE
  /\ UNCHANGED raced

\* selectedServerRaw() awaits the parser.
ConnectLater ==
  /\ Begin(<<Call("connect", "select", config)>>)
  /\ error' = FALSE
  /\ UNCHANGED <<status, raced>>

\* There is no location, or its draft is not valid.
ConnectRefused ==
  /\ Begin(<<>>)
  /\ error' = TRUE
  /\ Raced("refuse", status = "connecting")
  /\ UNCHANGED status

StartConnect ==
  /\ ConnectNow \/ ConnectLater \/ ConnectRefused
  /\ UNCHANGED <<config, grace, orphans, promised>>

\* After the parser's answer nobody asks whether the call is still current.
Selected(i) ==
  /\ calls[i].at = "select"
  /\ calls' = Append(RemoveAt(calls, i), [calls[i] EXCEPT !.at = "queued"])
  /\ status' = "connecting"
  /\ Raced("draft", ~calls[i].current \/ ~SameSignature(calls[i].config, config))
  /\ UNCHANGED <<error, config, timer, grace, poll, orphans, promised, word, events>>

SelectErr(i) ==
  /\ Spend
  /\ calls[i].at = "select"
  /\ calls' = RemoveAt(calls, i)
  /\ error' = (error \/ calls[i].current)
  /\ Raced("refuse", calls[i].current /\ status = "connecting")
  /\ UNCHANGED <<status, config, timer, grace, poll, orphans, promised, word>>

StartDisconnect ==
  /\ Begin(<<Call("disconnect", "queued", None)>>)
  /\ word' = "off"
  /\ UNCHANGED <<status, error, config, grace, orphans, promised, raced>>

-----------------------------------------------------------------------------
(* What the user and the clock do. *)

\* toggle(), from the power button or the tray.
ToggleOn ==
  /\ Spend
  /\ status \in {"disconnected", "dropped"}
  /\ StartConnect
  /\ word' = "on"

ToggleOff == status \in {"connected", "connecting"} /\ Spend /\ StartDisconnect

ClearDrop == status = "dropped" /\ Spend /\ StartDisconnect

\* Mutation: a change while the connection is being made is not scheduled.
EditConnectedOnly(c) ==
  /\ Spend
  /\ c # config
  /\ config' = c
  /\ timer' = (timer \/ (~SameSignature(c, config) /\ status = "connected"))
  /\ Raced("edit", timer' /\ InFlight({"disconnect", "recheckDisconnect"}))
  /\ UNCHANGED <<status, error, grace, calls, poll, orphans, promised, word>>

\* onConfigChanged()
Edit(c) ==
  /\ Spend
  /\ c # config
  /\ config' = c
  /\ timer' = (timer \/ (~SameSignature(c, config) /\ status \in {"connected", "connecting"}))
  /\ Raced("edit", timer' /\ InFlight({"disconnect", "recheckDisconnect"}))
  /\ UNCHANGED <<status, error, grace, calls, poll, orphans, promised, word>>

TimerFires == timer /\ StartConnect /\ UNCHANGED <<word, events>>

GraceEnds ==
  /\ grace
  /\ grace' = FALSE
  /\ UNCHANGED <<status, error, config, timer, calls, poll, orphans, promised, history, events>>

\* refresh() takes a snapshot of the generation and begins nothing.
StartRefresh ==
  /\ poll = NoPoll
  /\ poll' = "queued"
  /\ UNCHANGED <<store, calls, orphans, promised, history>>

\* The 2 s interval asks only while "connected" is shown.
Poll == status = "connected" /\ StartRefresh /\ UNCHANGED events

\* The window becomes visible.
Visible == status # "connected" /\ Spend /\ StartRefresh

-----------------------------------------------------------------------------
(* vpn_connect, vpn_disconnect, vpn_status and the pipe. *)

Answer(i, a) == calls' = [calls EXCEPT ![i].at = a, ![i].config = None]

\* A status that was read before an operation's answer may be handled after it.
Overtake == Raced("poll", poll \in Shows)

HoldsLock(i) ==
  /\ calls[i].kind \in Operations
  /\ \A j \in 1..(i - 1) : calls[j].kind \in Operations => calls[j].at \in Answers \cup {"select"}

\* Whose request may be under way.
Sent(i) == calls[i].at = "queued" /\ (calls[i].kind \in Rechecks \/ HoldsLock(i))

\* validate_server fails before the lock is taken, the active core, the
\* applications or the endpoints after it.
PrepareErr(i) ==
  /\ Spend
  /\ calls[i].kind = "connect" /\ calls[i].at = "queued"
  /\ Answer(i, "error")
  /\ UNCHANGED <<store, poll, orphans, promised, history>>

\* The controller's mutex is fair: what was given up comes first.
Serve(i) ==
  /\ Sent(i) /\ calls[i].kind \in Operations /\ orphans = {}
  /\ IF calls[i].kind = "connect" THEN Service!Connect(calls[i].config)
                                  ELSE Service!Disconnect(FALSE)
  /\ Answer(i, "served")
  /\ UNCHANGED <<store, poll, orphans, history, events>>

ServeOrphan(o) ==
  /\ o \in orphans
  /\ IF o = None THEN Service!Disconnect(FALSE) ELSE Service!Connect(o)
  /\ orphans' = orphans \ {o}
  /\ UNCHANGED <<store, calls, poll, history, events>>

\* Mutation: the phase is handed on as it is.
ShownRaw(phase) == phase

\* response(): what the GUI calls a phase.  The mutex hides the phases of an
\* operation under way.
Shown(phase) ==
  CASE phase = "Connected"                  -> "connected"
    [] phase \in {"Blocked", "BlockedError"} -> "dropped"
    [] OTHER                                -> "disconnected"

RecheckServed(i) ==
  /\ Sent(i) /\ calls[i].kind \in Rechecks /\ orphans = {} /\ Service!Listening
  /\ Answer(i, Shown(service))
  /\ UNCHANGED <<store, poll, orphans, promised, history, events>>

PollServed ==
  /\ poll = "queued" /\ orphans = {} /\ Service!Listening
  /\ poll' = Shown(service)
  /\ UNCHANGED <<store, calls, orphans, promised, history, events>>

\* The pipe is created when the recovery is over.
NoPipe ==
  \/ service = "Down"
  \/ service = "Busy" /\ job.kind \in {"recover", "established"}

Unreachable(i) ==
  /\ Sent(i) /\ NoPipe
  /\ Answer(i, "error")
  /\ UNCHANGED <<store, poll, orphans, promised, history, events>>

\* The client drops its pipe; the service does not notice before it answers.
TimeOut(i) ==
  /\ Spend
  /\ Sent(i) \/ calls[i].at = "served"
  /\ ~NoPipe
  /\ Answer(i, "error")
  /\ orphans' = IF Sent(i) /\ calls[i].kind \in Operations
                THEN orphans \cup {calls[i].config} ELSE orphans
  /\ UNCHANGED <<store, poll, promised, history>>

\* There is no pipe, or no answer in time: refresh() leaves everything alone.
PollErr ==
  /\ poll = "queued"
  /\ poll' = NoPoll
  /\ UNCHANGED <<store, calls, orphans, promised, history, events>>

-----------------------------------------------------------------------------
(* The service. *)

Served == {i \in DOMAIN calls : calls[i].at = "served"}

JobDone(a) ==
  /\ calls' = [i \in DOMAIN calls |-> IF i \in Served THEN [calls[i] EXCEPT !.at = a] ELSE calls[i]]
  /\ IF Served = {} THEN UNCHANGED raced ELSE Overtake
  /\ UNCHANGED <<store, orphans, poll>>

JobOk ==
  /\ Service!Succeed \/ Service!Clear \/ Service!Settle
  /\ JobDone(Shown(service'))
  /\ word' = IF word = "off" /\ job.kind = "clear" /\ (\E i \in Served : calls[i].current)
             THEN "done" ELSE word
  /\ UNCHANGED events

JobErr ==
  /\ Spend
  /\ Service!Reject \/ Service!Fall \/ Service!Break
  /\ JobDone("error")
  /\ UNCHANGED word

JobProgress ==
  /\ Service!Establish \/ Service!Drop \/ Service!GiveUpRecovery
  /\ UNCHANGED <<store, calls, poll, orphans, history, events>>

\* The monitor finds the tunnel dead.
ServiceLoses ==
  /\ Spend
  /\ Service!Lose
  /\ UNCHANGED <<store, calls, poll, orphans, history>>

\* Every pipe breaks.
ServiceCrashes ==
  /\ Spend
  /\ Service!Crash
  /\ calls' = [i \in DOMAIN calls |-> IF i \in Served THEN [calls[i] EXCEPT !.at = "error"] ELSE calls[i]]
  /\ orphans' = {}
  /\ UNCHANGED <<store, poll, history>>

ServiceStarts ==
  /\ Service!Recover
  /\ UNCHANGED <<store, calls, poll, orphans, history, events>>

-----------------------------------------------------------------------------
(* The continuations.  Answers are handled in any order: connect() holds its  *)
(* own back to show the spinner.                                              *)

\* applyBackendState()
Apply(a) ==
  /\ status' = a
  /\ grace' = (grace \/ a = "connected")

Ignore == UNCHANGED <<status, error, grace>>

Finish(i) ==
  /\ calls' = RemoveAt(calls, i)
  /\ UNCHANGED <<config, timer, poll, orphans, promised, word, events>>

\* connect() and disconnect() with an answer of the service.
Completed(i) ==
  /\ calls[i].kind \in Operations /\ calls[i].at \in Shows
  /\ IF calls[i].current
     THEN /\ Apply(calls[i].at)
          /\ error' = (calls[i].kind = "connect" /\ (error \/ calls[i].at = "dropped"))
     ELSE Ignore
  /\ Finish(i) /\ UNCHANGED raced

\* An operation that failed asks for the status, if it is current.
Failed(i) ==
  /\ calls[i].kind \in Operations /\ calls[i].at = "error"
  /\ calls' = IF ~calls[i].current THEN RemoveAt(calls, i) ELSE
       [calls EXCEPT ![i].at = "queued", ![i].kind = IF calls[i].kind = "connect"
                                                     THEN "recheckConnect" ELSE "recheckDisconnect"]
  /\ error' = (error \/ calls[i].current)
  /\ UNCHANGED <<status, config, timer, grace, poll, orphans, promised, history, events>>

Rechecked(i) ==
  /\ calls[i].kind \in Rechecks /\ calls[i].at \in Shows
  /\ IF calls[i].current
     THEN Apply(calls[i].at) /\ error' = (error \/ calls[i].at = "dropped")
     ELSE Ignore
  /\ Finish(i) /\ UNCHANGED raced

\* Mutation: a status that cannot be had changes nothing.
RecheckErrSilent(i) ==
  /\ calls[i].kind \in Rechecks /\ calls[i].at = "error"
  /\ Ignore
  /\ Finish(i) /\ UNCHANGED raced

\* Here nobody asks whether the call is still current.
RecheckErr(i) ==
  /\ calls[i].kind \in Rechecks /\ calls[i].at = "error"
  /\ status' = IF calls[i].kind = "recheckConnect" THEN "disconnected" ELSE "dropped"
  /\ UNCHANGED <<error, grace>>
  /\ Finish(i) /\ Raced("stale", ~calls[i].current)

FinishRefresh ==
  /\ poll' = NoPoll
  /\ Raced("poll", status' # status /\ calls # <<>>)
  /\ UNCHANGED <<config, timer, calls, orphans, promised, word, events>>

\* Mutation: a refresh never takes "connected" back.
RefreshTrusting ==
  /\ poll \in Shows
  /\ IF poll # "disconnected"
     THEN Apply(poll) /\ error' = (error \/ poll = "dropped")
     ELSE Ignore
  /\ FinishRefresh

\* refresh() believes "disconnected" only after the grace period.
Refreshed ==
  /\ poll \in Shows
  /\ LET trusted == status \in {"connected", "dropped"} /\ ~grace
     IN  IF (poll = "disconnected" => trusted)
         THEN Apply(poll) /\ error' = (error \/ poll = "dropped")
         ELSE Ignore
  /\ FinishRefresh

-----------------------------------------------------------------------------

Continue(i) ==
  Selected(i) \/ SelectErr(i) \/ Completed(i) \/ Failed(i) \/ Rechecked(i) \/ RecheckErr(i)

Request(i) == PrepareErr(i) \/ Serve(i) \/ RecheckServed(i) \/ Unreachable(i) \/ TimeOut(i)

Next ==
  \/ ToggleOn \/ ToggleOff \/ ClearDrop \/ TimerFires \/ GraceEnds
  \/ Poll \/ Visible \/ PollServed \/ PollErr \/ Refreshed
  \/ \E c \in Configs : Edit(c)
  \/ \E i \in DOMAIN calls : Request(i) \/ Continue(i)
  \/ \E o \in Configs \cup {None} : ServeOrphan(o)
  \/ JobOk \/ JobErr \/ JobProgress \/ ServiceLoses \/ ServiceCrashes \/ ServiceStarts

\* Timers fire, the service works on, restarts and answers, an awaited result is
\* handled; a status request is not given up for ever.
Fairness ==
  /\ WF_vars(TimerFires) /\ WF_vars(GraceEnds) /\ WF_vars(Poll) /\ WF_vars(Refreshed)
  /\ SF_vars(PollServed)
  /\ \A i \in 1..MaxCalls : WF_vars(i \in DOMAIN calls /\ (Request(i) \/ Continue(i)))
  /\ WF_vars(\E o \in Configs \cup {None} : ServeOrphan(o))
  /\ WF_vars(JobOk \/ JobErr \/ JobProgress) /\ WF_vars(ServiceStarts)

Spec == Init /\ [][Next]_vars /\ Fairness

-----------------------------------------------------------------------------

\* After a disconnect the service carried out, nothing but the user's own word
\* brings a tunnel back (vpn.rs: "Explicit power-button disconnect restores
\* ordinary networking"; begin() and the generation of the timer).
DisconnectIsFinal ==
  word = "done" /\ raced \cap {"edit", "draft", "poll"} = {} => tunnel = None

\* The same where a change was made during the disconnect: the test of the gate
\* says it "does not run a scheduled reconnect after explicit disconnect".
DisconnectOutlivesEdits == word = "done" /\ raced = {"edit"} => tunnel = None

Quiet == calls = <<>> /\ poll = NoPoll /\ ~timer /\ orphans = {} /\ job = Service!NoJob

\* When everything has settled, a connection that is shown without an error
\* runs with what is configured, as far as the signature tells (onConfigChanged,
\* lastSig, connect()).  With what is configured it need not run: configSig()
\* says it is the "Signature of everything that affects the generated config",
\* but a change of sni, path, transport, flow or log level is no change to it
\* (selectedKey), and the connection goes on with the old one.
ShownIsRunning ==
  /\ Quiet /\ status = "connected" /\ service = "Connected" /\ ~error
  /\ raced \cap {"draft", "poll", "stale"} = {}
  => tunnel # None /\ SameSignature(tunnel, config)

\* Whenever "connecting" is shown, a current call or the timer is there to end
\* it (isCurrent in connect() and disconnect()).
ConnectingIsOwned ==
  status = "connecting" /\ raced \cap {"refuse", "draft"} = {} =>
    timer \/ \E i \in DOMAIN calls : calls[i].current

\* A tunnel that is lost behind a shown "connected" is noticed, in spite of the
\* grace period and of answers that come late (the interval of +layout.svelte).
LossNoticed ==
  status = "connected" /\ service # "Connected" ~>
    status # "connected" \/ service = "Connected"
=============================================================================
