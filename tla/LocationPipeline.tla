-------------------------- MODULE LocationPipeline --------------------------
(***************************************************************************)
(* From a link to a running configuration: the stages a location passes,   *)
(* each the work of another part of the program.                           *)
(*                                                                         *)
(*   idle       nothing under way                                          *)
(*   fetching   lib.rs requests a subscription, redirect by redirect       *)
(*   imported   subscription.rs has parsed it; a location is chosen        *)
(*   requested  vpn.rs and xray.rs have checked it and built the request   *)
(*   probing    the service has accepted the request and tries its probe   *)
(*   running    the service runs the rewritten configuration               *)
(*   refused    an error is shown                                          *)
(*                                                                         *)
(* "link" is the share link the location came from (Unset for any other),  *)
(* "selection" the split and LAN settings of the connect, "contacted" the  *)
(* last address a subscription request went to.                            *)
(***************************************************************************)
EXTENDS RuntimeConfig

CONSTANTS
  Urls,          \* subscription URLs: [scheme, host, credentials]
  Bodies,        \* what is pasted or downloaded: [kind, content]
  Selections,    \* settings of a connect: [split, allow_lan]
  Interfaces,    \* names of physical adapters
  Ports,         \* ephemeral ports the service may be given
  MaxRedirects,  \* 5 in the code
  MaxExcludedApps  \* 256 in the code

\* A JSON value is what JsonImport says it is: its lists are lists, and a key
\* that is there has a value.
ASSUME DocumentsAssumption ==
  \A body \in Bodies : body.kind = "json" =>
    \A place \in Places(body.content) :
      /\ place.value # Unset
      /\ place.value.type = "object" =>
           LET outbounds == Get(place.value, "outbounds", <<>>)
           IN  /\ IsList(outbounds) /\ Unset \notin ToSet(outbounds)
               /\ IsList(Get(place.value, "rules", <<>>))

\* SplitInput of split.rs.  The sites are those xray.rs:960 keeps: none is empty.
IsSelection(chosen) ==
  /\ DOMAIN chosen = {"split", "allow_lan"}
  /\ DOMAIN chosen.split = {"apps_mode", "sites_mode", "apps", "sites"}
  /\ IsList(chosen.split.apps) /\ IsList(chosen.split.sites)
  /\ \A site \in ToSet(chosen.split.sites) : IsList(site.domain) /\ site.domain # <<>>

ASSUME SelectionsAssumption == \A chosen \in Selections : IsSelection(chosen)

ASSUME RedirectsAssumption == MaxRedirects \in Nat

VARIABLES stage, url, hops, contacted, link, server, selection, request, run, tries

vars == <<stage, url, hops, contacted, link, server, selection, request, run, tries>>

ProbeAttempts == 4

Init ==
  /\ stage = "idle" /\ url = Unset /\ hops = 0 /\ contacted = Unset /\ link = Unset
  /\ server = Unset /\ selection = Unset /\ request = Unset /\ run = Unset /\ tries = 0

Refuse ==
  /\ stage' = "refused"
  /\ UNCHANGED <<url, hops, contacted, link, server, selection, request, run, tries>>

(***************************************************************************)
(* Import.  parse_subscription gives each entry of a body with the link it *)
(* stands for; entries that do not parse are skipped.                      *)
(***************************************************************************)
Entries(body) ==
  CASE body.kind = "json" ->
         {[link |-> Unset, server |-> s] : s \in parse_json_subscription(body.content)}
    [] body.kind = "wireguard" ->
         {[link |-> Unset, server |-> s] : s \in parse_wireguard_config(body.content)}
    [] OTHER ->
         UNION {{[link |-> l, server |-> s] : s \in parse_proxy_uri(l)} :
                  l \in ToSet(body.content)}

\* A lone http(s) link is taken for a subscription unless it names a port and
\* either credentials or a label.
IsProxyText(body) ==
  body.kind = "links" /\ Len(body.content) = 1 /\ body.content[1].scheme \in {"http", "https"}
  => LET l == body.content[1]
     IN  l.port # Unset /\ (l.user # "" \/ l.pass # Unset \/ l.labelled)

Import(body) ==
  /\ \E entry \in Entries(body) : link' = entry.link /\ server' = entry.server
  /\ stage' = "imported"
  /\ url' = Unset
  /\ UNCHANGED <<hops, contacted, selection, request, run, tries>>

Paste(body) == stage = "idle" /\ IsProxyText(body) /\ Import(body)

PasteUrl(u) ==
  /\ stage = "idle"
  /\ stage' = "fetching" /\ url' = u /\ hops' = 0 /\ contacted' = Unset
  /\ UNCHANGED <<link, server, selection, request, run, tries>>

(***************************************************************************)
(* One turn of the loop of fetch_subscription_response: the URL's shape,   *)
(* its host and every address the name resolves to are checked, and the    *)
(* request goes to an address that was.                                    *)
(***************************************************************************)
AcceptableUrl(u) == u.scheme \in {"http", "https"} /\ ~u.credentials

Request(u, resolved) ==
  /\ AcceptableUrl(u) /\ u.host # "private" /\ resolved = "public"
  /\ contacted' = [scheme |-> u.scheme, address |-> resolved]

\* The addresses a host may resolve to: a literal to itself.
Resolutions(host) == IF host = "name" THEN {"public", "private"} ELSE {host}

FetchRefused ==
  /\ stage = "fetching"
  /\ \/ ~AcceptableUrl(url)
     \/ "private" \in Resolutions(url.host)
  /\ Refuse

\* The host answered: with a body, with an error, or with a redirect.
Downloaded(body) ==
  /\ stage = "fetching"
  /\ \E a \in Resolutions(url.host) : Request(url, a)
  /\ \E entry \in Entries(body) : link' = entry.link /\ server' = entry.server
  /\ stage' = "imported" /\ url' = Unset /\ hops' = 0
  /\ UNCHANGED <<selection, request, run, tries>>

FetchFailed ==
  /\ stage = "fetching"
  /\ \E a \in Resolutions(url.host) : Request(url, a)
  /\ stage' = "refused"
  /\ UNCHANGED <<url, hops, link, server, selection, request, run, tries>>

\* Mutation: a redirect is followed wherever it leads.
FollowAnywhere(u, next) == hops < MaxRedirects

MayFollow(u, next) == hops < MaxRedirects /\ (u.scheme = "https" => next.scheme = "https")

Redirected(next) ==
  /\ stage = "fetching"
  /\ \E a \in Resolutions(url.host) : Request(url, a)
  /\ IF MayFollow(url, next)
     THEN url' = next /\ hops' = hops + 1 /\ UNCHANGED stage
     ELSE stage' = "refused" /\ UNCHANGED <<url, hops>>
  /\ UNCHANGED <<link, server, selection, request, run, tries>>

(***************************************************************************)
(* vpn_connect: check, resolve the applications, build both configurations.*)
(* Each of them is planned anew, so the two plans may differ where a plan  *)
(* depends on the order of a HashSet.                                      *)
(***************************************************************************)
\* Two spellings of one file give one selector; a file that is gone fails.
Canonical(app) == IF app = "A" THEN "a" ELSE app

resolve_app_selectors(apps) ==
  LET first(i) == \A j \in 1 .. i - 1 : Canonical(apps[j]) # Canonical(apps[i])
      kept     == Picked(apps, {i \in DOMAIN apps : apps[i] # "" /\ first(i)})
  IN  IF "gone" \in ToSet(apps) THEN {} ELSE {[n \in DOMAIN kept |-> Canonical(kept[n])]}

Connect(chosen) ==
  /\ stage = "imported"
  /\ validate_server(server)
  /\ \E apps \in resolve_app_selectors(chosen.split.apps),
        plan \in outbound_plan(server), probed \in outbound_plan(server) :
       LET split == [chosen.split EXCEPT !.apps = apps]
       IN  /\ selection' = [chosen EXCEPT !.split = split]
           /\ request' = [native    |-> build_xray_config(plan, split, chosen.allow_lan),
                          probe     |-> build_connection_probe_config(probed),
                          endpoints |-> server_endpoints(server),
                          excluded_apps |-> apps]
  /\ stage' = "requested" /\ contacted' = Unset
  /\ UNCHANGED <<url, hops, link, server, run, tries>>

\* A location that is not valid or an application that is gone; but the service
\* may not answer either, and an endpoint not resolve, whatever the location.
ConnectRefused == stage = "imported" /\ Refuse

(***************************************************************************)
(* The service: validate_connect_request and validate_candidate.  The      *)
(* lengths of the texts in a request, the number of its endpoints, which   *)
(* the GUI bounds as well, and the tag of the core are left out.           *)
(***************************************************************************)
ServiceAccepts(r) ==
  /\ r.endpoints # {} /\ \A e \in r.endpoints : e[2] # 0
  /\ Len(r.excluded_apps) <= MaxExcludedApps
  /\ inspect_native_tun_config(r.native)
  /\ inspect_validation_config(r.probe)

Accept ==
  /\ stage = "requested" /\ ServiceAccepts(request)
  /\ stage' = "probing" /\ tries' = 1
  /\ UNCHANGED <<url, hops, contacted, link, server, selection, request, run>>

\* An application may be gone since the GUI found it.
Reject ==
  /\ stage = "requested"
  /\ ~ServiceAccepts(request) \/ selection.split.apps # <<>>
  /\ Refuse

\* validate_config: a port is reserved and the probe started on it; it may be
\* taken in between, or the route not answer, and then another is tried.  What
\* Xray finds wrong in the configuration ends it at once, as does the lack of an
\* adapter to bind to.
ProbeFails ==
  /\ stage = "probing"
  /\ \E port \in Ports : rewrite_validation_ports(request.probe, port) # {}
  /\ \/ tries < ProbeAttempts /\ tries' = tries + 1 /\ UNCHANGED stage
     \/ stage' = "refused" /\ UNCHANGED tries
  /\ UNCHANGED <<url, hops, contacted, link, server, selection, request, run>>

\* Mutation: what is kept for a restart is what is run.
KeepEffective(interface) ==
  /\ stage = "probing"
  /\ \E port \in Ports : rewrite_validation_ports(request.probe, port) # {}
  /\ run' = [config |-> rewrite_native_outbound_interface(request.native, interface),
             interface |-> interface]
  /\ request' = [request EXCEPT !.native = run'.config]
  /\ stage' = "running"
  /\ UNCHANGED <<url, hops, contacted, link, server, selection, tries>>

\* The probe answers; the configuration is bound to the adapter and run.  The
\* request is kept as it came: it is what a restart starts from.
Run(interface) ==
  /\ stage = "probing"
  /\ \E port \in Ports : rewrite_validation_ports(request.probe, port) # {}
  /\ run' = [config |-> rewrite_native_outbound_interface(request.native, interface),
             interface |-> interface]
  /\ stage' = "running"
  /\ UNCHANGED <<url, hops, contacted, link, server, selection, request, tries>>

\* Mutation: the process of before is not given up.
RestartBeside ==
  /\ stage = "running"
  /\ stage' = "requested" /\ tries' = 0
  /\ UNCHANGED <<url, hops, contacted, link, server, selection, request, run>>

\* A restarted service takes the recorded request through the same checks.
Restart ==
  /\ stage = "running"
  /\ stage' = "requested" /\ run' = Unset /\ tries' = 0
  /\ UNCHANGED <<url, hops, contacted, link, server, selection, request>>

Finish ==
  /\ stage \in {"running", "refused"}
  /\ stage' = "idle" /\ url' = Unset /\ hops' = 0 /\ contacted' = Unset /\ link' = Unset
  /\ server' = Unset /\ selection' = Unset /\ request' = Unset /\ run' = Unset /\ tries' = 0

Next ==
  \/ \E body \in Bodies : Paste(body) \/ Downloaded(body)
  \/ \E u \in Urls : PasteUrl(u) \/ Redirected(u)
  \/ FetchRefused \/ FetchFailed
  \/ \E chosen \in Selections : Connect(chosen)
  \/ ConnectRefused \/ Accept \/ Reject \/ ProbeFails \/ Restart \/ Finish
  \/ \E interface \in Interfaces : Run(interface)

Spec == Init /\ [][Next]_vars

(***************************************************************************)
(* Properties.                                                             *)
(***************************************************************************)
Stages == {"idle", "fetching", "imported", "requested", "probing", "running", "refused"}

\* The variables hold what the stage says they hold.
TypeOK ==
  /\ stage \in Stages
  /\ hops \in 0 .. MaxRedirects
  /\ tries \in 0 .. ProbeAttempts
  /\ (url # Unset) => stage \in {"fetching", "refused"}
  /\ stage \in {"imported", "requested", "probing", "running"} =>
       server.protocol \in ProxyProtocols
  /\ stage \in {"requested", "probing", "running"} =>
       /\ DOMAIN request = {"native", "probe", "endpoints", "excluded_apps"}
       /\ DOMAIN selection = {"split", "allow_lan"}
  /\ IF stage = "running" THEN DOMAIN run = {"config", "interface"} ELSE run = Unset

\* xray.rs:428, 771, 1025: the builders take for granted that validate_server
\* left something to build ("validated before config generation") and panic
\* when it did not, in the GUI's process, on whatever a provider sent.
ValidatedIsBuildable ==
  stage = "imported" /\ validate_server(server) => outbound_plan(server) # {}

\* Two programs check a configuration by rules of their own: what the GUI lets
\* through is not turned down by the service later, nor when a restarted
\* service starts from the request it recorded.  Left out are the cases only
\* the service looks at: port 0; more applications than it takes, which the GUI
\* does not count (vpn.rs:161); and a file that is named where the GUI does not
\* look, by a balancer or the observatory, which it takes over as they are, or
\* deep in the extra object of an XHTTP link (xray.rs:569).
BuiltIsAccepted ==
  /\ stage = "requested"
  /\ \A e \in request.endpoints : e[2] # 0
  /\ Len(request.excluded_apps) <= MaxExcludedApps
  /\ \A part \in ToSet(request.native.balancers)
               \cup {Get(request.native, "observatory", None), ExtraOf(server)} :
       Inside(part) \cap PrivilegedFileKeys = {}
  => ServiceAccepts(request)

\* xray.rs:210: "Xray explicitly forbids streamSettings on WireGuard outbounds",
\* which is why the GUI never writes any.
WireguardHasNoStream ==
  stage = "running" =>
    \A ob \in ToSet(run.config.outbounds) :
      ob.protocol = "wireguard" => ~Has(ob, "streamSettings")

\* subscription.rs:673: the routes are pinned for every "remote endpoint a
\* logical location can dial".  They are for an outbound whose protocol is
\* spelt as the importer knows it, with one endpoint that is no sentinel and
\* the credential of its protocol.  They are not, against that comment, for a
\* second endpoint of an outbound, nor for an outbound spelt "Trojan": the
\* builders run it (xray.rs:280), the importer does not parse it
\* (subscription.rs:572).
DialledIsPinned ==
  stage = "running" =>
    \A ob \in ToSet(run.config.outbounds) :
      LET servers == SettingsOf(ob).servers
      IN  /\ ob.protocol \in ProxyProtocols
          /\ Len(servers) = 1
          /\ servers[1].host # "" /\ ~is_balancer_sentinel(servers[1].host)
          /\ servers[1].port # Unset
          /\ Filled(SettingsOf(ob).user, Required(ob.protocol)) = Required(ob.protocol)
          => <<servers[1].host, servers[1].port>> \in request.endpoints

\* The tags a target of a configuration can lead to.
Reached(config, target) ==
  IF Has(target, "outboundTag") THEN {target.outboundTag} \cap Tags(config.outbounds)
  ELSE UNION {UNION {selected \cap Tags(config.outbounds) : selected \in b.selector} :
                b \in {x \in ToSet(config.balancers) : x.tag = target.balancerTag}}

\* The routing was taken over from a provider in part, and its outbounds were
\* renamed or left out: every rule of either configuration still leads to an
\* outbound that is there, those of a target to a proxy.
RulesLeadSomewhere ==
  stage = "requested" =>
    /\ \A config \in {request.native, request.probe} : \A rule \in ToSet(config.rules) :
         Reached(config, TargetOf(rule)) # {}
    /\ LET reached == Reached(request.probe, TargetOf(request.probe.rules[1]))
       IN  \E ob \in ToSet(request.probe.outbounds) :
             ob.tag \in reached /\ IsProxy(ob)

\* xray.rs:552: "Certificate and hostname validation are never optional".  No
\* outbound that is run names a local file or does without the certificate, in
\* whatever layer of a provider's JSON it stands, and what the client must
\* decide itself (sendThrough, mark) is not the provider's.  Against that
\* comment, what the extra object of an XHTTP link holds is run as it came
\* (xray.rs:569), but for the files the service looks for (runtime.rs:337).
NothingUnsafeIsRun ==
  stage = "running" =>
    \A ob \in ToSet(run.config.outbounds) :
      /\ Inside(ob) \cap (FileKeys \cup {"allowInsecure"})
           \subseteq (IF server.outbound = Unset THEN Inside(ExtraOf(server)) ELSE {})
                      \ PrivilegedFileKeys
      /\ ~Has(ob, "sendThrough")
      /\ LET stream == Get(ob, "streamSettings", None)
         IN  /\ ~Has(Get(stream, "sockopt", None), "mark")
             /\ Get(Get(stream, "tlsSettings", None), "allowInsecure", FALSE) # TRUE

(***************************************************************************)
(* What a share link asks for, in the words of the link, and where Xray    *)
(* looks for it.                                                           *)
(***************************************************************************)
UserKeys(vmess) ==
  IF vmess THEN [scy |-> "security", aid |-> "alterId"] ELSE [flow |-> "flow"]

\* The keys of REALITY are not read from a vmess link at all.
LayerKeys(vmess) ==
  LET identity == [sni |-> "serverName", fp |-> "fingerprint"]
  IN  [reality |-> IF vmess THEN identity
                   ELSE identity ++ [pbk |-> "publicKey", sid |-> "shortId", spx |-> "spiderX"],
       tls     |-> identity ++ [alpn |-> "alpn"],
       none    |-> None]

\* The options a transport reads; a vmess link has its own keys for them.
TransportKeys(vmess, query, transport) ==
  LET network == xray_network(transport)
      place   == [path |-> "path", host |-> "host"]
      header  == IF vmess THEN "type" ELSE "headerType"
  IN  CASE network \in {"ws", "httpupgrade", "http"} -> place
        [] network = "xhttp" -> IF vmess THEN place ELSE place ++ [mode |-> "mode"]
        [] network = "grpc" /\ ~vmess ->
             [serviceName |-> "serviceName", authority |-> "authority"]
        [] transport = "grpc" /\ vmess -> [path |-> "serviceName"]
        [] network = "kcp" ->
             [k \in {header} |-> "headerType"] ++ IF vmess THEN None ELSE [seed |-> "seed"]
        [] network = "tcp" /\ Get(query, header, "") = "http" ->
             place ++ [k \in {header} |-> "headerType"]
        [] OTHER -> None

Asks(query, table, settings) ==
  \A k \in Filled(query, DOMAIN table) : Get(settings, table[k], Unset) = query[k]

\* The extra object of an XHTTP link, as far as the link's own options leave it.
ExtraIsCarried(query, settings) ==
  Has(query, "extra") /\ query.extra \in DOMAIN Extras =>
    \A k \in DOMAIN Extras[query.extra] \ ({"path", "mode", "host"} \cap DOMAIN query) :
      Get(settings, k, Unset) = Extras[query.extra][k]

\* An option a link gives reaches the outbound under the key Xray reads,
\* through a parser and a builder that name it differently, and the layer of
\* security is the one the link names (in lower case: anything else is built
\* as "none").  What the tables above do not list is dropped.  Of a vmess link,
\* against subscription.rs:1311 ("aren't silently dropped"): the keys of a
\* REALITY layer it is accepted with (1301), the mKCP seed it gives as its path
\* (1304), the mode and extra object of XHTTP, the authority of gRPC, and, when
\* the network is not spelt "grpc" but "gun" (1339), which is built as gRPC too
\* (xray.rs:493), the name of the service.  Of any: packetEncoding and
\* encryption, which no builder reads, alpn under REALITY, an alterId that is
\* no number, and an extra of a trojan link that is no object.
LinkIsCarried ==
  /\ stage = "requested" /\ link # Unset
  /\ link.scheme \in {"vless", "trojan", "vmess"}
  => LET ob       == request.native.outbounds[1]
         user     == ob.settings.user
         stream   == ob.streamSettings
         settings == Get(stream, "transport", None)
         layer    == Get(stream, "realitySettings", Get(stream, "tlsSettings", None))
         vmess    == link.scheme = "vmess"
         key      == IF vmess THEN "tls" ELSE "security"
         mode     == IF vmess THEN "type" ELSE "mode"
     IN  /\ Get(user, "id", Get(user, "password", "")) = link.user
         /\ Asks(Without(link.query, {"aid"}) ++ Numbers(link.query, {"aid"}),
                 UserKeys(vmess), user)
         /\ Get(link.query, key, "") \in DOMAIN LayerKeys(vmess) =>
              stream.security = link.query[key]
         /\ Asks(link.query, LayerKeys(vmess)[stream.security], layer)
         /\ Asks(link.query, TransportKeys(vmess, link.query, server.transport), settings)
         /\ server.transport = "grpc" =>
              (Get(link.query, mode, "") \in {"multi", "gun"}) = settings.multiMode
         /\ xray_network(server.transport) = "xhttp" /\ ~vmess =>
              ExtraIsCarried(link.query, settings)

\* subscription.rs:571: parse_outbound undoes what was built.  An outbound
\* built from the parsed outbound is the same, for the transports and
\* protocols whose settings the parser reads (not kcp, http, headers, nor an
\* extra object).
\* A link that gives an option as empty is left out: it is built as "", which
\* json_str takes for absent and the builder then replaces by its default.
BuiltIsParsedBack ==
  /\ stage = "requested" /\ server.outbound = Unset
  /\ server.protocol # "wireguard"
  /\ "" \notin {Get(server.opt, "path", "/"), Get(server.opt, "mode", "auto"),
                Get(server.raw, "spx", "/")}
  => LET ob       == request.native.outbounds[1]
         settings == Get(ob.streamSettings, "transport", None)
     IN  xray_network(server.transport) \in {"tcp", "ws", "xhttp", "httpupgrade", "grpc",
                                             "hysteria"}
         /\ ~Has(settings, "headerType") /\ ExtraOf(server) = None
         => \A back \in parse_outbound(ob) : build_proxy_outbound(back) = {ob}

\* subscription.rs:439, 455: the source the editor opens for a location holds
\* that location and no other, so saving it unchanged changes nothing: a
\* profile is one location whatever it contains, an item of a list its own.
SourceIsOwn ==
  stage = "imported" /\ server.source # Unset =>
    parse_json_subscription(server.source) = {server}

(***************************************************************************)
(* The split tunnel, said without rules.                                   *)
(***************************************************************************)
Flows ==
  [inbound : {"tun-in"}, port : {53, 443}, ip : Addresses, process : {"a", "b", ""},
   domain : {<<"example">>, <<"www", "example">>, <<"other">>}]

\* What stands for a name that is resolved, and the profiles with two balancers
\* and no rule that names one: each of the two configurations takes the
\* balancer its own HashSet yields first.
Resolver == [inbound |-> "none", port |-> 443, ip |-> "resolver", process |-> "", domain |-> <<>>]

Ambiguous(s) ==
  s.profile # Unset /\ Composite(s.profile)
  /\ LET targets == ProfileTargets(s.profile, provider_proxy_outbounds(s.profile))
     IN  \E t, u \in targets : t # u

\* xray.rs:906: traffic of the machine leaves past the tunnel only when it was
\* asked to: to the LAN when that is allowed, by the lists of the mode
\* "general", or by not being listed in the mode "selective" of applications.
\* A listed application is decided by its own list, whatever the sites say.
\* The mode of the sites decides the listed sites alone, and so split.rs does
\* not say what the code does: with the applications "general" and the sites
\* "selective" an unlisted site is tunnelled, where split.rs:5 has "only listed
\* apps/sites are tunneled; default direct" and split.rs:40 "only listed sites
\* are tunneled".
\* Names are resolved, in every mode, by the target the probe has shown to be
\* reachable (xray.rs:1053), unless that target is ambiguous.  Which outbound a
\* balancer then picks is not followed here.
SplitIsHonoured ==
  stage = "requested" =>
    LET split  == selection.split
        rules  == request.native.rules
        target == TargetOf(request.probe.rules[1])
        lists(flow) == flow.process # "" /\ flow.process \in ToSet(split.apps)
        sites(flow) == \E site \in ToSet(split.sites) : SiteMatches(site, flow.domain)
        lan(flow) == selection.allow_lan /\ flow.ip = "private"
    IN  /\ Ambiguous(server) \/ RouteOf(rules, Resolver) = target
        /\ \A flow \in Flows :
             LET direct == RouteOf(rules, flow) = ToDirect
             IN  IF flow.port = 53 THEN RouteOf(rules, flow) = [outboundTag |-> "dns-out"]
                 ELSE IF lan(flow) THEN direct
                 ELSE IF lists(flow) THEN direct = ~apps_selective(split)
                 ELSE IF sites(flow) THEN direct = ~sites_selective(split)
                 ELSE direct => apps_selective(split)

\* lib.rs:118, 148: through every redirect, a request goes to an address that
\* was checked, and never in the clear once one was encrypted.
FetchesAsAsked ==
  [][contacted' # Unset /\ contacted' # contacted =>
       /\ contacted'.address = "public"
       /\ contacted # Unset => (contacted.scheme = "https" => contacted'.scheme = "https")]_vars
=============================================================================
