------------------------- MODULE MCLocationPipeline -------------------------
(***************************************************************************)
(* Links, documents and settings for TLC.  Every scheme meets every query  *)
(* of its own kind, with and without credentials and ports; the documents  *)
(* are the shapes providers send: single outbounds, lists, wrappers, and   *)
(* profiles with chains, balancers, rules, foreign tags and bad parts.     *)
(***************************************************************************)
EXTENDS LocationPipeline

\* The extra objects of XHTTP links, under the texts they are written as.
MCExtras ==
  [object |-> [xmux |-> "x", path |-> "own", mode |-> "stream", host |-> "own"],
   loose  |-> [inside |-> {"allowInsecure", "masterKeyLog"}],
   filed  |-> [inside |-> {"certificateFile"}]]

\* The names in the inputs below that are not in lower case.
MCLowerOf == [Trojan |-> "trojan", WS |-> "ws", TLS |-> "tls"]

Link(scheme, user, pass, port, query) ==
  [scheme |-> scheme, coded |-> FALSE, user |-> user, pass |-> pass, host |-> "h1",
   port |-> port, path |-> "", query |-> query, labelled |-> FALSE]

StreamQueries ==
  {None,
   [type |-> "ws", security |-> "tls", sni |-> "front", path |-> "p", host |-> "hh"],
   [type |-> "tcp", security |-> "reality", sni |-> "front", pbk |-> "key", sid |-> "sid",
    fp |-> "firefox", spx |-> "x", flow |-> "vision"],
   [type |-> "grpc", security |-> "tls", serviceName |-> "svc", authority |-> "au",
    mode |-> "multi", alpn |-> "h2"],
   [type |-> "xhttp", security |-> "reality", pbk |-> "key", path |-> "p", mode |-> "auto",
    extra |-> "object"],
   [type |-> "xhttp", host |-> "hh", mode |-> "auto"],
   [type |-> "xhttp", extra |-> "array"], [type |-> "splithttp", extra |-> "object"],
   [type |-> "xhttp", security |-> "tls", extra |-> "loose"],
   [type |-> "xhttp", security |-> "tls", extra |-> "filed"],
   [type |-> "httpupgrade", security |-> "none", path |-> "p", host |-> "hh"],
   [type |-> "ws", path |-> "", host |-> "", security |-> "reality", spx |-> "", sni |-> ""],
   [type |-> "kcp", headerType |-> "srtp", seed |-> "seed"],
   [type |-> "tcp", headerType |-> "http", host |-> "hh", path |-> "p"],
   [type |-> "h2", security |-> "TLS", path |-> "p"], [type |-> "WS", path |-> "p"],
   [type |-> "quic", security |-> "tls"],
   [security |-> "tls", allowInsecure |-> "1"]}

VmessQueries ==
  {None,
   [net |-> "ws", tls |-> "tls", sni |-> "front", host |-> "hh", path |-> "p", type |-> "none"],
   [net |-> "grpc", tls |-> "reality", path |-> "svc", type |-> "multi", fp |-> "edge"],
   [net |-> "gun", tls |-> "reality", path |-> "svc", pbk |-> "key"],
   [net |-> "tcp", type |-> "http", host |-> "hh", path |-> "p", aid |-> "4", scy |-> "aes"],
   [net |-> "xhttp", path |-> "p", aid |-> "text", extra |-> "object"],
   [net |-> "kcp", tls |-> "", path |-> "seed", type |-> "srtp", alpn |-> "h2"]}

Hysteria2Queries ==
  {None, [sni |-> "front", fp |-> "edge"], [peer |-> "front", auth |-> "a"],
   [insecure |-> "yes"], [obfs |-> "salamander"], [obfs |-> "none", ech |-> ""]}

WireguardQueries ==
  {None,
   [publickey |-> "pk", address |-> "10.8.0.2", mtu |-> "1280", keepAlive |-> "text",
    allowedIPs |-> "all", allowed_ips |-> "some"],
   [private_key |-> "sk", peer_public_key |-> "pk", presharedkey |-> "psk", reserved |-> "1"]}

ProxyQueries == {None, [sni |-> "front"], [allowInsecure |-> "true"]}

Links(schemes, users, queries) ==
  {Link(scheme, user[1], user[2], port, query) :
     scheme \in schemes, user \in users, port \in {Unset, 0, 443}, query \in queries}

Nobody == <<"", Unset>>

AllLinks ==
  Links({"vless", "trojan"}, {Nobody, <<"id", Unset>>}, StreamQueries)
  \cup {[l EXCEPT !.coded = TRUE] : l \in Links({"vmess"}, {Nobody, <<"id", Unset>>}, VmessQueries)}
  \cup Links({"hysteria2"}, {Nobody, <<"id", Unset>>, <<"id", "secret">>}, Hysteria2Queries)
  \cup Links({"wireguard"}, {Nobody, <<"sk", Unset>>}, WireguardQueries)
  \cup Links({"ss"}, {<<"pair64", Unset>>, <<"id", "secret">>, <<"id", "">>, <<"id", Unset>>}, {None})
  \cup Links({"socks", "http", "https"}, {Nobody, <<"pair64", Unset>>, <<"id", "secret">>},
             ProxyQueries)
  \cup Links({"socks"}, {<<"user64", Unset>>}, {None})
  \cup {[Link("socks", "id", pass, 443, None) EXCEPT !.coded = TRUE] :
          pass \in {Unset, "", "secret"}}
  \cup {[Link("http", "", Unset, 443, None) EXCEPT !.labelled = TRUE],
        [Link("https", "id", "secret", 443, None) EXCEPT !.path = "page"],
        [Link("vless", "id", Unset, 443, None) EXCEPT !.host = "balancer.host"],
        [Link("trojan", "id", Unset, 443, None) EXCEPT !.host = "balancer.host"]}

\* JSON.
Text(l) == [type |-> "text", link |-> l]
Array(items) == [type |-> "array", items |-> items]
Object(keys) == [type |-> "object"] ++ keys

Proxy(protocol, tag, host, keys) ==
  Object([protocol |-> protocol, tag |-> tag,
          settings |-> [servers |-> << [host |-> host, port |-> 443] >>,
                        user |-> [id |-> "id", password |-> "secret"]]] ++ keys)

Freedom(tag) == Object([protocol |-> "freedom", tag |-> tag])

Chained(tag) ==
  [streamSettings |-> [network |-> "ws", security |-> "tls", tlsSettings |-> [serverName |-> "front"],
                       transport |-> [path |-> "p"], sockopt |-> [dialerProxy |-> tag, mark |-> "m"]],
   sendThrough |-> "ip", proxySettings |-> tag]

Loose == [streamSettings |-> [network |-> "raw", security |-> "tls", tlsSettings |-> [allowInsecure |-> TRUE]]]

Filed(key) == [inside |-> {key}, streamSettings |-> [network |-> "raw", security |-> "tls"]]

Peers == Object([protocol |-> "wireguard", tag |-> "wg",
                 settings |-> [servers |-> << [host |-> "h1", port |-> 443], [host |-> "h2", port |-> 443] >>,
                               user |-> [secretKey |-> "sk"]],
                 streamSettings |-> [network |-> "raw"]])

Outbounds ==
  {Proxy("vless", "a", "h1", None), Proxy("vmess", "", "h1", Chained("b")),
   Proxy("trojan", "a", "h1", Loose), Proxy("shadowsocks", "a", "h1", Filed("masterKeyLog")),
   Proxy("hysteria", "a", "h1", Filed("certificateFile")), Peers,
   Proxy("vless", "a", "h1", Filed("allowInsecure")),
   Proxy("socks", "a", "balancer.host", None), Object([protocol |-> "vless", tag |-> "a"])}

Balancer(tag, selected) == [tag |-> tag, selector |-> {selected}]

Profiles ==
  {Object([outbounds |-> obs] ++ more) :
     obs \in {<<Proxy("vless", "a", "h1", Chained("b")), Freedom("direct")>>,
              <<Freedom("out"), Proxy("vless", "", "h1", None), Proxy("trojan", "b", "h2", None)>>,
              <<Proxy("vless", "a", "h1", Chained("b")), Proxy("trojan", "b", "h2", None), Freedom("out")>>,
              <<Proxy("vless", "a", "h1", None), Proxy("vless", "a", "h2", None)>>,
              <<Proxy("vless", "a", "h1", None), Proxy("vless", "direct", "h2", None)>>,
              <<Proxy("vless", "a", "h1", None), Proxy("trojan", "b", "h2", Loose)>>,
              <<Proxy("trojan", "a", "h1", Loose)>>,
              <<Object([protocol |-> "vless", tag |-> "a"]), Proxy("vless", "b", "h2", None)>>,
              <<Object([protocol |-> "vless", tag |-> "a", inside |-> {"masterKeyLog"}]),
                Proxy("vless", "b", "h2", None)>>,
              <<Proxy("vless", "a", "h1", None), Proxy("Trojan", "b", "h2", None)>>,
              <<Peers, Proxy("trojan", "b", "h2", None)>>},
     more \in {None,
               [rules |-> << [outboundTag |-> "b"], [outboundTag |-> "out"] >>],
               [balancers |-> << Balancer("best", {"a", "b"}) >>, observatory |-> None,
                rules |-> << [outboundTag |-> "b"], [balancerTag |-> "best"] >>],
               [balancers |-> << Balancer("none", {"out"}) >>, remarks |-> "name"],
               [balancers |-> << Balancer("best", {"a"}) ++ [inside |-> {"certificateFile"}] >>],
               [balancers |-> << Balancer("one", {"a"}), Balancer("two", {"a", "b"}) >>,
                rules |-> << [balancerTag |-> "gone"] >>],
               [observatory |-> [inside |-> {"certificateFile"}]]}}

AProfile == CHOOSE p \in Profiles : Has(p, "rules") /\ Len(p.outbounds) = 3

Documents ==
  Outbounds \cup Profiles \cup
  {Array(<<Proxy("vless", "a", "h1", None), AProfile, Text(Link("vless", "id", Unset, 443, None))>>),
   Object([servers |-> <<Proxy("vless", "a", "h1", None), Proxy("trojan", "b", "h2", None)>>]),
   Array(<<Object([servers |-> <<AProfile, Proxy("trojan", "b", "h2", None)>>])>>),
   Object([outbounds |-> <<Text(Link("trojan", "id", Unset, 443, None)), Freedom("out")>>]),
   Array(<<Array(<<Array(<<Proxy("vless", "a", "h1", None)>>)>>)>>)}

Section(name, keys) == [section |-> name, keys |-> keys]

WireguardFile ==
  << Section("Interface", [privatekey |-> "sk", address |-> "10.8.0.2", mtu |-> "1280"]),
     Section("Peer", [publickey |-> "pk", endpoint |-> [host |-> "h1", port |-> 443],
                      presharedkey |-> "psk"]),
     Section("Peer", [publickey |-> "pk"]),
     Section("Other", [publickey |-> "pk", endpoint |-> [host |-> "h2", port |-> 443]]) >>

MCBodies ==
  {[kind |-> "links", content |-> <<l>>] : l \in AllLinks}
  \cup {[kind |-> "json", content |-> d] : d \in Documents}
  \cup {[kind |-> "wireguard", content |-> WireguardFile]}

\* Applications and sites in either mode, on and off.
Sites == {<<>>, << [suffix |-> TRUE, domain |-> <<"example">>] >>,
          << [suffix |-> FALSE, domain |-> <<"example">>] >>}

MCSelections ==
  {[split |-> [apps_mode |-> m[1], sites_mode |-> m[2], apps |-> apps, sites |-> sites],
    allow_lan |-> lan] :
     m \in {<<"general", "general">>, <<"selective", "general">>, <<"general", "selective">>,
            <<"selective", "selective">>},
     apps \in {<<>>, <<"A", "", "a">>, <<"a", "b">>, <<"gone">>}, sites \in Sites, lan \in BOOLEAN}

MCUrls ==
  {[scheme |-> s, host |-> h, credentials |-> FALSE] :
     s \in {"http", "https"}, h \in {"name", "public", "private"}}
  \cup {[scheme |-> "https", host |-> "name", credentials |-> TRUE],
        [scheme |-> "file", host |-> "name", credentials |-> FALSE]}

MCInterfaces == {"ethernet", "wifi"}
MCPorts == {49152}
=============================================================================
