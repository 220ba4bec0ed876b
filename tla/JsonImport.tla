----------------------------- MODULE JsonImport -----------------------------
(***************************************************************************)
(* The import of Xray JSON, subscription.rs of the GUI: which locations a  *)
(* document holds and what is shown of each.                               *)
(*                                                                         *)
(* A JSON value is a record: [type |-> "text", link], [type |-> "array",   *)
(* items], or [type |-> "object"] with the keys the object has.  A key the *)
(* object lacks is not in the domain of the record.                        *)
(*   protocol, tag, settings, streamSettings, proxySettings, sendThrough   *)
(*            of an outbound; settings is [servers, user], the endpoints   *)
(*            it lists and the keys of its user; streamSettings has        *)
(*            network, security, realitySettings, tlsSettings, sockopt and *)
(*            "transport", the settings named after the network            *)
(*   outbounds, balancers, rules, observatory   of a profile               *)
(*   servers  of a wrapper: the list under any of the five keys            *)
(*   inside   which keys that matter occur at any depth of the object      *)
(***************************************************************************)
EXTENDS ShareLinks

CONSTANT MaxDepth      \* how deep a document is searched: 6 in the code

ProxyProtocols ==
  {"vless", "vmess", "trojan", "shadowsocks", "hysteria", "wireguard", "http", "socks"}

is_proxy_protocol(object) == Get(object, "protocol", "") \in ProxyProtocols

(***************************************************************************)
(* apply_stream: the options shown, from the stream settings.              *)
(***************************************************************************)
normalize_network(network) ==
  CASE network = "raw"       -> "tcp"
    [] network = "splithttp" -> "xhttp"
    [] network = "h2"        -> "http"
    [] OTHER                 -> network

\* Mutation: gRPC is read like the transports that have a path.
PathAndHost(transport) == [opt |-> {"path", "mode"}, raw |-> {"host"}]

TransportOptions(transport) ==
  CASE transport = "ws"          -> [opt |-> {"path"}, raw |-> {"host"}]
    [] transport = "xhttp"       -> [opt |-> {"path", "mode"}, raw |-> {"host"}]
    [] transport = "httpupgrade" -> [opt |-> {"path"}, raw |-> {"host"}]
    [] transport = "grpc"        -> [opt |-> {}, raw |-> {"serviceName", "authority"}]
    [] OTHER                     -> [opt |-> {}, raw |-> {}]

StreamTransport(s, stream) == normalize_network(Get(stream, "network", s.transport))

\* The settings of the layer that is there, without what is empty.
Reality(stream) ==
  LET layer == Get(stream, "realitySettings", None)
  IN  Restrict(layer, Filled(layer, {"serverName", "fingerprint", "publicKey", "shortId",
                                     "spiderX"}))

Tls(stream) ==
  LET layer == Get(stream, "tlsSettings", None)
  IN  Restrict(layer, Filled(layer, {"serverName", "fingerprint", "alpn"}))

StreamOptions(s, stream) ==
  LET settings == Get(stream, "transport", None)
      names    == [sni |-> <<"serverName">>, fp |-> <<"fingerprint">>,
                   pbk |-> <<"publicKey">>, sid |-> <<"shortId">>]
  IN  Named(Reality(stream), names)
      ++ Named(Tls(stream), [sni |-> names.sni, fp |-> names.fp])
      ++ Restrict(settings, Filled(settings, TransportOptions(StreamTransport(s, stream)).opt))
      ++ [k \in {"mode" : m \in {Get(settings, "multiMode", FALSE)} \cap {TRUE}} |-> "multi"]

\* A layer that asks not to be verified is remembered as such a link is.
Insecure(stream) ==
  LET asked == Get(Get(stream, "tlsSettings", None), "allowInsecure", FALSE)
  IN  [k \in {"allowInsecure" : a \in {asked} \cap {TRUE}} |-> "1"]

\* An empty host is left out of every transport: no reader tells it from none.
StreamParameters(s, stream) ==
  LET settings == Get(stream, "transport", None)
  IN  Restrict(settings, Filled(settings, TransportOptions(StreamTransport(s, stream)).raw))
      ++ Named(Reality(stream), [spx |-> <<"spiderX">>])
      ++ Named(Tls(stream), [alpn |-> <<"alpn">>])
      ++ Insecure(stream)

apply_stream(s, stream) ==
  [s EXCEPT
     !.transport = StreamTransport(s, stream),
     !.security = Get(stream, "security", "none"),
     !.opt = StreamOptions(s, stream) ++ s.opt,
     !.raw = StreamParameters(s, stream) ++ s.raw]

(***************************************************************************)
(* parse_outbound: one outbound as a location, by its first endpoint.      *)
(***************************************************************************)
SettingsOf(ob) == Get(ob, "settings", [servers |-> <<>>, user |-> None])

Required(protocol) ==
  CASE protocol \in {"vless", "vmess"} -> {"id"}
    [] protocol = "trojan"             -> {"password"}
    [] OTHER                           -> {}

\* The credential a location is shown with.
CredentialOf(ob) ==
  LET user  == SettingsOf(ob).user
      given == Get(Get(Get(ob, "streamSettings", None), "transport", None), "auth", "")
  IN  CASE ob.protocol \in {"vless", "vmess"} -> Get(user, "id", "")
        [] ob.protocol = "trojan"             -> Get(user, "password", "")
        [] ob.protocol = "hysteria"           -> IF given # "" THEN given ELSE Get(user, "auth", "")
        [] ob.protocol = "wireguard"          -> Get(user, "secretKey", "")
        [] ob.protocol \in {"http", "socks"}  -> Get(user, "user", "")
        [] OTHER                              -> ""

OptionsOf(ob) ==
  LET user == SettingsOf(ob).user
      kept == CASE ob.protocol \in {"vless", "vmess"}  -> {"flow"}
                [] ob.protocol = "trojan"              -> {"flow", "password"}
                [] ob.protocol = "shadowsocks"         -> {"method", "password"}
                [] ob.protocol \in {"http", "socks"}   -> {"password"}
                [] OTHER                               -> {}
  IN  Restrict(user, Filled(user, kept))

ParametersOf(ob) ==
  IF ob.protocol # "vmess" THEN None
  ELSE Named(SettingsOf(ob).user, [scy |-> <<"security">>, aid |-> <<"alterId">>])

\* What an outbound must have to be shown.
IsShowable(ob) ==
  /\ is_proxy_protocol(ob)
  /\ SettingsOf(ob).servers # <<>>
  /\ LET endpoint == SettingsOf(ob).servers[1]
     IN  endpoint.host # "" /\ endpoint.port # Unset /\ ~is_balancer_sentinel(endpoint.host)
  /\ Filled(SettingsOf(ob).user, Required(ob.protocol)) = Required(ob.protocol)

parse_outbound(ob) ==
  LET endpoint == SettingsOf(ob).servers[1]
      plain    == [Base(ob.protocol, endpoint.host, endpoint.port) EXCEPT
                     !.uuid = CredentialOf(ob), !.opt = OptionsOf(ob), !.raw = ParametersOf(ob),
                     !.transport = IF ob.protocol = "wireguard" THEN "wireguard" ELSE "tcp"]
  IN  IF ~IsShowable(ob) THEN {}
      ELSE IF Has(ob, "streamSettings") THEN {apply_stream(plain, ob.streamSettings)}
      ELSE {plain}

\* Mutation: only the endpoint the location is shown with is pinned.
ShownEndpoint(s) == {<<s.host, s.port>>}

\* The endpoints whose routes are pinned for a location.
server_endpoints(s) ==
  LET outbounds == IF s.profile # Unset THEN ToSet(s.profile.outbounds)
                   ELSE IF s.outbound # Unset THEN {s.outbound} ELSE {}
      parsed    == UNION {parse_outbound(ob) : ob \in outbounds}
  IN  {<<x.host, x.port>> : x \in IF parsed = {} THEN {s} ELSE parsed}

(***************************************************************************)
(* collect_json_servers.  A profile with proxy outbounds is one location,  *)
(* shown as the first of them that can be parsed; "source" is the JSON the *)
(* editor opens for it: the object of the list it stands in.               *)
(***************************************************************************)
ProxyPositions(outbounds) == {i \in DOMAIN outbounds : is_proxy_protocol(outbounds[i])}

ProxyOutbounds(v) ==
  LET outbounds == Get(v, "outbounds", <<>>)
  IN  Picked(outbounds, ProxyPositions(outbounds))

Profile(v, source) ==
  LET proxies == ProxyOutbounds(v)
      parsed  == {i \in DOMAIN proxies : parse_outbound(proxies[i]) # {}}
  IN  IF parsed = {} THEN {}
      ELSE {[s EXCEPT !.source = source, !.outbound = proxies[1], !.profile = v] :
              s \in parse_outbound(proxies[Min(parsed)])}

Single(v, source) ==
  {[s EXCEPT !.source = source, !.outbound = v] : s \in parse_outbound(v)}

(***************************************************************************)
(* The walk.  A place of a document is a value, the source it inherited    *)
(* and its depth; the locations of a document are those of all its places, *)
(* without their order.  Nothing below MaxDepth is looked at.              *)
(***************************************************************************)
Place(v, source, depth) == [value |-> v, source |-> source, depth |-> depth]

OwnSource(place) == IF place.source = Unset THEN place.value ELSE place.source

\* Mutation: a wrapper passes its own source on to the locations it lists.
ItemSource(v, item, source) == IF source # Unset THEN source ELSE v

\* What the items of an array take as their source.
SourceOf(v, item, source) ==
  IF source # Unset THEN source ELSE IF item.type = "object" THEN item ELSE Unset

IsProfile(v) == v.type = "object" /\ ProxyPositions(Get(v, "outbounds", <<>>)) # {}
IsOutbound(v) == v.type = "object" /\ is_proxy_protocol(v) /\ ~IsProfile(v)

\* The list of a wrapper stands a step below it, its items another.
Below(place) ==
  LET v == place.value
      items(list, source, steps) ==
        {Place(item, SourceOf(v, item, source), place.depth + steps) : item \in ToSet(list)}
  IN  IF v.type = "array" THEN items(v.items, place.source, 1)
      ELSE IF v.type = "text" \/ IsProfile(v) \/ IsOutbound(v) THEN {}
      ELSE items(Get(v, "outbounds", <<>>), OwnSource(place), 2)
           \cup items(Get(v, "servers", <<>>), Unset, 2)

Places(document) ==
  LET walk[steps \in 0 .. MaxDepth] ==
        IF steps = 0 THEN {Place(document, Unset, 0)}
        ELSE LET seen == walk[steps - 1]
             IN  seen \cup {p \in UNION {Below(place) : place \in seen} : p.depth <= MaxDepth}
  IN  walk[MaxDepth]

Locations(place) ==
  LET v == place.value
  IN  IF v.type = "text" THEN parse_proxy_uri(v.link)
      ELSE IF IsProfile(v) THEN Profile(v, OwnSource(place))
      ELSE IF IsOutbound(v) THEN Single(v, OwnSource(place))
      ELSE {}

parse_json_subscription(document) == UNION {Locations(place) : place \in Places(document)}
=============================================================================
