----------------------------- MODULE XrayConfig -----------------------------
(***************************************************************************)
(* The configurations the GUI generates for a location, xray.rs: the one   *)
(* the connection runs and the probe the service tries before it.          *)
(*                                                                         *)
(* A location imported as JSON keeps its own outbounds, cleaned; any other *)
(* gets an outbound built from its fields.  An operator that can fail      *)
(* returns the set of its results: one, or none.  A selector of a balancer *)
(* is the set of the tags it is a prefix of.  The pair of a proxy is       *)
(* called user and password whatever the protocol spells it.               *)
(***************************************************************************)
EXTENDS JsonImport, RouteRules

CONSTANT LowerOf       \* names with capitals, as they are spelt without

\* to_ascii_lowercase
Lower(name) == Get(LowerOf, name, name)

\* The builders ask for a protocol in any case of letters; the importer knows
\* them in lower case only.
IsProxy(ob) == Lower(Get(ob, "protocol", "")) \in ProxyProtocols

ReservedTags == {"direct", "dns-out", "block"}

(***************************************************************************)
(* sanitize_raw_outbound: a provider's outbound, without what the client   *)
(* does not let it decide.                                                 *)
(***************************************************************************)
\* The keys that occur in an object: those its fields show, and those deeper in.
Inside(object) ==
  LET stream == Get(object, "streamSettings", None)
      tls    == Get(stream, "tlsSettings", None)
  IN  Get(object, "inside", {}) \cup Get(Get(stream, "transport", None), "inside", {})
      \cup (IF Get(tls, "allowInsecure", FALSE) = TRUE THEN {"allowInsecure"} ELSE {})

FileKeys == {"certificateFile", "certificateFilePath", "masterKeyLog"}

contains_forbidden_provider_file_reference(object) == Inside(object) \cap FileKeys # {}
contains_insecure_tls_override(object) == "allowInsecure" \in Inside(object)

\* Mutation: only the fields the client reads itself are looked at.
TrustProvider(ob, preserve_tag_and_chains) ==
  {IF preserve_tag_and_chains THEN ob ELSE Put(ob, "tag", "proxy")}

sanitize_raw_outbound(ob, preserve_tag_and_chains) ==
  LET kept    == Without(ob, {"sendThrough"} \cup
                             IF preserve_tag_and_chains THEN {} ELSE {"proxySettings"})
      tagged  == IF preserve_tag_and_chains THEN kept ELSE Put(kept, "tag", "proxy")
      stream  == Get(ob, "streamSettings", None)
      sockopt == Without(Get(stream, "sockopt", None),
                         {"mark"} \cup
                         IF preserve_tag_and_chains THEN {} ELSE {"dialerProxy"})
  IN  IF contains_forbidden_provider_file_reference(ob)
         \/ contains_insecure_tls_override(ob) \/ ~IsProxy(ob)
      THEN {}
      ELSE IF Lower(ob.protocol) = "wireguard" THEN {Without(tagged, {"streamSettings"})}
      ELSE {Put(tagged, "streamSettings", Put(stream, "sockopt", sockopt))}

(***************************************************************************)
(* provider_proxy_outbounds: the cleaned proxy outbounds of a profile, or  *)
(* <<>> when one cannot be accepted.  "proxy-N" counts every outbound.     *)
(***************************************************************************)
DefaultTag(i) == IF i = 1 THEN "proxy" ELSE "proxy-" \o ToString(i)

TagOf(ob, i) == IF Get(ob, "tag", "") = "" THEN DefaultTag(i) ELSE ob.tag

ProviderPositions(outbounds) == {i \in DOMAIN outbounds : IsProxy(outbounds[i])}

provider_proxy_outbounds(profile) ==
  LET obs     == profile.outbounds
      proxies == ProviderPositions(obs)
      clean(i) == {Put(ob, "tag", TagOf(obs[i], i)) :
                     ob \in sanitize_raw_outbound(obs[i], TRUE)}
      tag(i)  == TagOf(obs[i], i)
  IN  IF \A i \in proxies :
           /\ clean(i) # {}
           /\ tag(i) \notin ReservedTags
           /\ \A j \in proxies : tag(i) = tag(j) => i = j
      THEN [n \in 1 .. Cardinality(proxies) |->
              CHOOSE ob \in clean(InOrder(proxies)[n]) : TRUE]
      ELSE <<>>

Tags(outbounds) == {ob.tag : ob \in ToSet(outbounds)}

(***************************************************************************)
(* profile_plan: the outbounds and the target of a profile with several    *)
(* proxies, a balancer or an observatory.  The target is the last rule's   *)
(* that names one of them; else a balancer, the one the iteration of a     *)
(* HashSet happens to meet first; else the first outbound.                 *)
(***************************************************************************)
Composite(profile) ==
  \/ Cardinality(ProviderPositions(profile.outbounds)) > 1
  \/ Get(profile, "balancers", <<>>) # <<>>
  \/ Has(profile, "observatory")

RuleTarget(rule, balancer_tags, proxy_tags) ==
  IF Has(rule, "balancerTag") /\ rule.balancerTag \in balancer_tags
  THEN {[balancerTag |-> rule.balancerTag]}
  ELSE {[outboundTag |-> t] : t \in {x \in proxy_tags :
          Has(rule, "outboundTag") /\ rule.outboundTag = x}}

\* Mutation: a target is taken from the rules whether or not it was kept.
AnyRuleTarget(profile, proxies) ==
  LET rules == Get(profile, "rules", <<>>)
  IN  IF rules # <<>> THEN {Last(rules)} ELSE {[outboundTag |-> proxies[1].tag]}

ProfileTargets(profile, proxies) ==
  LET balancer_tags == {b.tag : b \in ToSet(Get(profile, "balancers", <<>>))}
      rules == Get(profile, "rules", <<>>)
      named == {i \in DOMAIN rules : RuleTarget(rules[i], balancer_tags, Tags(proxies)) # {}}
  IN  IF named # {} THEN RuleTarget(rules[Max(named)], balancer_tags, Tags(proxies))
      ELSE IF balancer_tags # {} THEN {[balancerTag |-> t] : t \in balancer_tags}
      ELSE {[outboundTag |-> proxies[1].tag]}

profile_plan(profile) ==
  LET proxies   == provider_proxy_outbounds(profile)
      balancers == Get(profile, "balancers", <<>>)
  IN  IF \/ proxies = <<>>
         \/ \E b \in ToSet(balancers) :
              \A selected \in b.selector : selected \cap Tags(proxies) = {}
      THEN {}
      ELSE {[proxies |-> proxies, target |-> target, balancers |-> balancers,
             observatory |-> Get(profile, "observatory", Unset)] :
              target \in ProfileTargets(profile, proxies)}

(***************************************************************************)
(* validate_server: what is refused before anything is built.              *)
(***************************************************************************)
SupportedTransports ==
  {"", "raw", "tcp", "xhttp", "splithttp", "ws", "websocket", "grpc", "gun", "httpupgrade",
   "http", "h2", "h3", "kcp", "mkcp", "hysteria"}

\* The names the program knows have no capitals.
ASSUME LowerAssumption ==
  DOMAIN LowerOf \cap (ProxyProtocols \cup SupportedTransports \cup {"tls"}) = {}

\* Mutation: the profile of a location is not looked at before it is built.
ValidateFields(s) ==
  /\ Lower(s.protocol) \in ProxyProtocols
  /\ Lower(s.transport) \in SupportedTransports \cup {"wireguard"}

validate_server(s) ==
  CASE s.profile # Unset ->
         \* outbound_plan: the profile itself, or its only outbound
         /\ provider_proxy_outbounds(s.profile) # <<>>
         /\ Composite(s.profile) => profile_plan(s.profile) # {}
    [] s.profile = Unset /\ s.outbound # Unset ->
         sanitize_raw_outbound(s.outbound, FALSE) # {}
    [] OTHER ->
         /\ Get(s.raw, "allowInsecure", "0") \notin {"1", "true"}
         /\ Lower(s.protocol) \in ProxyProtocols
         /\ IF Lower(s.protocol) = "wireguard"
            THEN s.uuid # "" /\ Get(s.opt, "pbk", "") # ""
            ELSE /\ Lower(s.transport) \in SupportedTransports
                 /\ Lower(s.protocol) = "hysteria" =>
                      Lower(s.transport) = "hysteria" /\ Lower(s.security) = "tls"

(***************************************************************************)
(* build_stream_settings: network, security layer, transport settings.     *)
(***************************************************************************)
xray_network(transport) ==
  LET name == Lower(transport)
  IN  CASE name \in {"xhttp", "splithttp"}      -> "xhttp"
        [] name \in {"ws", "websocket"}         -> "ws"
        [] name \in {"grpc", "gun"}             -> "grpc"
        [] name \in {"http", "h2", "h3"}        -> "http"
        [] name \in {"kcp", "mkcp"}             -> "kcp"
        [] name \in {"httpupgrade", "hysteria"} -> name
        [] OTHER                                -> "tcp"

OrElse(value, default) == IF value = "" THEN default ELSE value

SecurityLayer(s) ==
  LET identity == [serverName  |-> OrElse(Get(s.opt, "sni", ""), s.host),
                   fingerprint |-> OrElse(Get(s.opt, "fp", ""), "chrome")]
  IN  CASE s.security = "reality" ->
             [security |-> "reality",
              realitySettings |-> identity ++ [publicKey |-> Get(s.opt, "pbk", ""),
                                               shortId   |-> Get(s.opt, "sid", ""),
                                               spiderX   |-> Get(s.raw, "spx", "/")]]
        [] s.security = "tls" ->
             [security |-> "tls",
              tlsSettings |-> identity ++ [allowInsecure |-> FALSE]
                              ++ Restrict(s.raw, Filled(s.raw, {"alpn"}))]
        [] OTHER -> [security |-> "none"]

\* The object a location's option "extra" is the JSON of; nothing of it is
\* looked at before it is built in.
ExtraOf(s) ==
  IF xray_network(s.transport) = "xhttp" /\ Has(s.raw, "extra")
     /\ s.raw.extra \in DOMAIN Extras
  THEN Extras[s.raw.extra] ELSE None

\* The settings named after the network; None where it takes none.  Those of
\* XHTTP are the extra object, with the options of the link put over its keys.
TransportSettings(s, network) ==
  LET kept(keys) == Restrict(s.raw, Filled(s.raw, keys))
      path == [path |-> Get(s.opt, "path", "/")]
  IN  CASE network = "xhttp" ->
             kept({"host"}) ++ Restrict(s.opt, {"path", "mode"} \cap DOMAIN s.opt)
             ++ ExtraOf(s) ++ [path |-> "/", mode |-> "auto"]
        [] network \in {"ws", "httpupgrade", "http"} -> path ++ kept({"host"})
        [] network = "grpc" ->
             [serviceName |-> Get(s.raw, "serviceName", ""),
              multiMode   |-> Get(s.opt, "mode", "") \in {"multi", "gun"}]
             ++ kept({"authority"})
        [] network = "kcp" ->
             [headerType |-> Get(s.raw, "headerType", "none")] ++ kept({"seed"})
        [] network = "hysteria" -> [auth |-> s.uuid]
        [] network = "tcp" /\ Get(s.raw, "headerType", "") = "http" ->
             [headerType |-> "http"] ++ kept({"host"})
             ++ Restrict(s.opt, {"path"} \cap DOMAIN s.opt)
        [] OTHER -> None

build_stream_settings(s) ==
  LET network  == xray_network(s.transport)
      settings == TransportSettings(s, network)
  IN  [network |-> network] ++ SecurityLayer(s)
      ++ [k \in {"transport" : x \in {settings} \ {None}} |-> settings]

(***************************************************************************)
(* build_proxy_outbound: the outbound of one location.  It takes a cleaned *)
(* outbound as it is, having been promised by validate_server that there   *)
(* is one: {} is the panic of a broken promise.                            *)
(***************************************************************************)
Endpoint(s) == << [host |-> s.host, port |-> s.port] >>

\* A number that does not parse ("text") is left out.
Numbers(f, keys) == Restrict(f, {k \in keys : Get(f, k, "text") # "text"})

build_wireguard_outbound(s) ==
  [tag |-> "proxy", protocol |-> "wireguard",
   settings |->
     [servers |-> Endpoint(s),
      user |-> [secretKey |-> s.uuid, publicKey |-> Get(s.opt, "pbk", ""),
                localAddress |-> OrElse(Get(s.raw, "localAddress", ""), "10.0.0.1/32"),
                domainStrategy |-> Get(s.raw, "domainStrategy", "ForceIP")]
               ++ Restrict(s.raw, Filled(s.raw, {"preSharedKey", "allowedIPs"}))
               ++ Numbers(s.raw, {"keepAlive", "mtu", "reserved"})]]

Credentials(s) ==
  CASE s.protocol = "vmess" ->
         [id |-> s.uuid, security |-> Get(s.raw, "scy", "auto"),
          alterId |-> Get(Numbers(s.raw, {"aid"}), "aid", "0")]
    [] s.protocol = "trojan" ->
         [password |-> Get(s.opt, "password", s.uuid), flow |-> Get(s.opt, "flow", "")]
    [] s.protocol = "shadowsocks" ->
         [method |-> Get(s.opt, "method", ""), password |-> Get(s.opt, "password", "")]
    [] s.protocol = "hysteria" -> None
    [] s.protocol \in {"http", "socks"} ->
         LET pair == [user |-> s.uuid, password |-> Get(s.opt, "password", "")]
         IN  Restrict(pair, Filled(pair, DOMAIN pair))
    [] OTHER -> [id |-> s.uuid, flow |-> Get(s.opt, "flow", "")]

build_proxy_outbound(s) ==
  IF s.outbound # Unset THEN sanitize_raw_outbound(s.outbound, FALSE)
  ELSE IF s.protocol = "wireguard" THEN {build_wireguard_outbound(s)}
  ELSE {[tag |-> "proxy",
         protocol |-> IF s.protocol \in ProxyProtocols THEN s.protocol ELSE "vless",
         settings |-> [servers |-> Endpoint(s), user |-> Credentials(s)],
         streamSettings |-> build_stream_settings(s)]}

outbound_plan(s) ==
  IF s.profile # Unset /\ Composite(s.profile) THEN profile_plan(s.profile)
  ELSE {[proxies |-> <<ob>>, target |-> [outboundTag |-> "proxy"], balancers |-> <<>>,
         observatory |-> Unset] : ob \in build_proxy_outbound(s)}

(***************************************************************************)
(* build_xray_config and build_connection_probe_config.                    *)
(***************************************************************************)
Extra(plan) == [k \in {"observatory" : x \in {plan.observatory} \ {Unset}} |-> plan.observatory]

build_inbounds ==
  << [tag |-> "tun-in", protocol |-> "tun", name |-> "Varmlen", desc |-> "Varmlen",
      gateway |-> {"10.255.0.1/30", "fd00:7661:726d:6c65::1/64"}, dns |-> {"1.1.1.1"},
      autoSystemRoutingTable |-> {"0.0.0.0/0", "::/0"}, autoOutboundsInterface |-> "auto"] >>

build_xray_config(plan, split, allow_lan) ==
  [log |-> {"loglevel"}, dns |-> {"https://1.1.1.1/dns-query"}, inbounds |-> build_inbounds,
   outbounds |-> plan.proxies \o << [tag |-> "direct", protocol |-> "freedom"],
                                    [tag |-> "dns-out", protocol |-> "dns"],
                                    [tag |-> "block", protocol |-> "blackhole"] >>,
   rules |-> build_route_rules(split, allow_lan, plan.target),
   balancers |-> plan.balancers] ++ Extra(plan)

ConnectionProbePort == 20810

build_connection_probe_config(plan) ==
  [log |-> {"loglevel"},
   inbounds |-> << [tag |-> "socks-in-0", protocol |-> "socks", listen |-> "127.0.0.1",
                    port |-> ConnectionProbePort] >>,
   outbounds |-> plan.proxies \o << [tag |-> "direct", protocol |-> "freedom"] >>,
   rules |-> << [inboundTag |-> "socks-in-0", network |-> "tcp,udp"] ++ plan.target >>,
   balancers |-> plan.balancers] ++ Extra(plan)
=============================================================================
