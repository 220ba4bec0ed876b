----------------------------- MODULE ShareLinks -----------------------------
(***************************************************************************)
(* The parser of share links and WireGuard files, subscription.rs of the   *)
(* GUI: what a link becomes when it is imported.                           *)
(*                                                                         *)
(* A link is taken apart by the url crate, so it is a record here:         *)
(*   scheme    the text before "://"                                       *)
(*   coded     everything after the scheme is one base64 text: the only    *)
(*             form of vmess, an old form of ss and socks                  *)
(*   user      the user name ("" when there is none; "pair64" and "user64" *)
(*             are a user:password in base64, the second with an empty     *)
(*             password), pass  the password (Unset when there is none)    *)
(*   host, port, path   the authority and the path                         *)
(*   query     the query as a function from option names to values; for    *)
(*             vmess the keys of the JSON object                           *)
(*                                                                         *)
(* A parser returns the set of locations it makes of a link: one, or none  *)
(* when it refuses.  Labels are not modelled.                              *)
(***************************************************************************)
EXTENDS Records

CONSTANTS
  Unset,     \* no port, no password, no object, no JSON: an Option that is None
  Extras     \* the option "extra" of XHTTP: the object that each text is the
             \* JSON of; a text outside the domain is no JSON or no object

\* The first of several spellings of an option that the query gives.
query_value(query, names, default) ==
  LET given == {i \in DOMAIN names : Has(query, names[i])}
  IN  IF given = {} THEN default ELSE query[names[Min(given)]]

\* Fields filled from the spellings "table" lists for each of them.
Named(query, table) ==
  [f \in {f \in DOMAIN table : \E n \in ToSet(table[f]) : Has(query, n)} |->
     query_value(query, table[f], Unset)]

(***************************************************************************)
(* A location.  "opt" holds the optional fields that are Some; outbound,   *)
(* profile and source are the JSON it was imported with.                   *)
(***************************************************************************)
Base(protocol, host, port) ==
  [protocol |-> protocol, uuid |-> "", host |-> host, port |-> port,
   transport |-> "tcp", security |-> "none", opt |-> None, raw |-> None,
   outbound |-> Unset, profile |-> Unset, source |-> Unset]

At(protocol, link) == Base(protocol, link.host, link.port)

is_balancer_sentinel(host) == host = "balancer.host"

RootPath(link) == link.path \in {"", "/"}

\* userinfo: the credentials, from a base64 pair where the scheme allows it.
userinfo(link, allow_base64_pair) ==
  IF allow_base64_pair /\ link.pass = Unset /\ link.user \in {"pair64", "user64"}
  THEN [user |-> "id", pass |-> IF link.user = "pair64" THEN "secret" ELSE ""]
  ELSE [user |-> link.user, pass |-> link.pass]

Secret(password) == IF password = Unset THEN None ELSE [password |-> password]

(***************************************************************************)
(* vless and trojan.                                                       *)
(***************************************************************************)
LinkOptions == {"sni", "fp", "pbk", "sid", "flow", "path", "mode"}

parse_vless(link) ==
  {s \in {[At("vless", link) EXCEPT
             !.uuid = link.user,
             !.transport = Get(link.query, "type", "tcp"),
             !.security = Get(link.query, "security", "none"),
             !.opt = Restrict(link.query, DOMAIN link.query
                                \cap (LinkOptions \cup {"packetEncoding"})),
             !.raw = link.query]} :
     /\ link.user # "" /\ link.host # "" /\ link.port # Unset
     /\ s.transport = "xhttp" /\ Has(link.query, "extra") =>
          link.query.extra \in DOMAIN Extras}

parse_trojan(link) ==
  {s \in {[At("trojan", link) EXCEPT
             !.uuid = link.user,
             !.transport = Get(link.query, "type", "tcp"),
             !.security = Get(link.query, "security", "tls"),
             !.opt = Secret(link.user)
                     ++ Restrict(link.query, DOMAIN link.query \cap LinkOptions),
             !.raw = link.query]} :
     link.user # "" /\ link.host # "" /\ link.port # Unset}

(***************************************************************************)
(* Shadowsocks keeps nothing of the query; the pair may be in the user     *)
(* part, in base64 or not, or the whole link may be base64.                *)
(***************************************************************************)
parse_shadowsocks(link) ==
  LET creds == userinfo(link, TRUE)
  IN  {s \in {[At("shadowsocks", link) EXCEPT
                 !.opt = [method |-> creds.user, password |-> creds.pass]]} :
         creds.pass # Unset /\ link.port # Unset}

(***************************************************************************)
(* vmess: a JSON object whose keys mean different things per transport.    *)
(***************************************************************************)
\* Mutation: the path of gRPC stays a path.
PathIsPath(link) ==
  LET keys   == link.query
      header == {h \in {Get(keys, "type", "")} : h \notin {"", "none"}}
  IN  [raw |-> Restrict(keys, Filled(keys, {"host", "alpn", "scy", "aid"}))
               ++ [k \in {"headerType" : h \in header} |-> keys["type"]],
       opt |-> Restrict(keys, {"sni", "fp", "path"} \cap DOMAIN keys)]

VmessOptions(link) ==
  LET keys   == link.query
      grpc   == Get(keys, "net", "tcp") = "grpc"
      header == {h \in {Get(keys, "type", "")} : h \notin {"", "none"}}
      opt    == Restrict(keys, {"sni", "fp", "path"} \cap DOMAIN keys)
      raw    == Restrict(keys, Filled(keys, {"host", "alpn", "scy", "aid"}))
  IN  IF grpc
      THEN [raw |-> raw ++ [k \in {"serviceName" : f \in Filled(keys, {"path"})} |->
                              keys["path"]],
            opt |-> Without(opt, {"path"})
                    ++ [k \in {"mode" : h \in header} |-> keys["type"]]]
      ELSE [raw |-> raw ++ [k \in {"headerType" : h \in header} |-> keys["type"]],
            opt |-> opt]

parse_vmess(link) ==
  LET fields == VmessOptions(link)
      tls    == Get(link.query, "tls", "none")
  IN  {s \in {[At("vmess", link) EXCEPT
                 !.uuid = link.user,
                 !.transport = Get(link.query, "net", "tcp"),
                 !.security = IF tls \in {"tls", "reality"} THEN tls ELSE "none",
                 !.opt = fields.opt,
                 !.raw = fields.raw]} :
         link.host # "" /\ link.port \notin {Unset, 0} /\ link.user # ""}

(***************************************************************************)
(* HTTP and SOCKS proxies; the whole of an old SOCKS link may be base64.   *)
(***************************************************************************)
parse_simple_proxy_uri(link, protocol) ==
  LET creds == userinfo(link, protocol = "socks")
  IN  {s \in {[At(protocol, link) EXCEPT
                 !.uuid = creds.user,
                 !.security = IF link.scheme = "https" THEN "tls" ELSE "none",
                 !.opt = Secret(creds.pass)
                         ++ Named(link.query, [sni |-> <<"sni", "serverName">>,
                                               fp  |-> <<"fp", "fingerprint">>]),
                 !.raw = link.query]} :
         ~link.coded /\ RootPath(link) /\ link.host # "" /\ link.port # Unset}

parse_socks_uri(link) ==
  IF ~link.coded THEN parse_simple_proxy_uri(link, "socks")
  ELSE {s \in {[At("socks", link) EXCEPT !.uuid = link.user,
                                         !.opt = [password |-> link.pass]]} :
          link.pass # Unset /\ link.host # "" /\ link.port # Unset}

(***************************************************************************)
(* Hysteria2: what Xray's transport does not implement is refused.         *)
(***************************************************************************)
Hysteria2Supported(link) ==
  /\ \A k \in {"insecure", "allowInsecure"} :
       Get(link.query, k, "0") \notin {"1", "true", "yes"}
  /\ \A k \in {"obfs", "obfs-password", "mport", "ports", "pinSHA256", "ech"} :
       Get(link.query, k, "none") \in {"", "none"}

parse_hysteria2(link) ==
  LET auth == IF link.user = "" THEN Get(link.query, "auth", "")
              ELSE IF link.pass # Unset THEN "user:pass" ELSE link.user
  IN  {s \in {[At("hysteria", link) EXCEPT
                 !.port = IF link.port = Unset THEN 443 ELSE link.port,
                 !.uuid = auth,
                 !.transport = "hysteria",
                 !.security = "tls",
                 !.opt = Secret(auth) ++ Named(link.query, [sni |-> <<"sni", "peer">>,
                                                  fp |-> <<"fp", "fingerprint">>]),
                 !.raw = link.query]} :
         RootPath(link) /\ link.host # "" /\ auth # "" /\ Hysteria2Supported(link)}

(***************************************************************************)
(* WireGuard: a link, or a file with an [Interface] and its [Peer]s.  Of   *)
(* two spellings the link gives for one setting the later row wins.        *)
(***************************************************************************)
WireguardOptions ==
  [preSharedKey   |-> <<"presharedkey", "pre_shared_key">>,
   localAddress   |-> <<"address", "localAddress">>,
   reserved       |-> <<"reserved">>,
   mtu            |-> <<"mtu">>,
   domainStrategy |-> <<"domainStrategy">>,
   allowedIPs     |-> <<"allowed_ips", "allowedIPs">>,
   keepAlive      |-> <<"persistent_keepalive", "keepAlive">>]

Wireguard(host, port, private_key, public_key, raw) ==
  {s \in {[Base("wireguard", host, port) EXCEPT
             !.uuid = private_key, !.opt = [pbk |-> public_key],
             !.transport = "wireguard", !.raw = raw]} :
     private_key # "" /\ public_key # "" /\ host # "" /\ port # Unset}

parse_wireguard_uri(link) ==
  {s \in Wireguard(link.host, link.port,
           IF link.user # "" THEN link.user
           ELSE query_value(link.query, <<"private_key", "privatekey", "secretKey">>, ""),
           query_value(link.query, <<"publickey", "peer_public_key">>, ""),
           Named(link.query, WireguardOptions)) : RootPath(link)}

\* A file is a sequence of sections; the keys of a later [Interface] win.
\* A peer without an endpoint or a key is left out.
Interface(file) ==
  FoldLeft(LAMBDA old, x : x.keys ++ old, None,
           SelectSeq(file, LAMBDA x : x.section = "Interface"))

parse_wireguard_config(file) ==
  LET interface == Interface(file)
      raw(peer) ==
        Named(interface, [localAddress |-> <<"address">>, mtu |-> <<"mtu">>])
        ++ Named(peer, [preSharedKey |-> <<"presharedkey">>, reserved |-> <<"reserved">>,
                        allowedIPs |-> <<"allowedips">>,
                        keepAlive |-> <<"persistentkeepalive">>])
      location(peer) ==
        IF ~Has(peer, "endpoint") THEN {}
        ELSE Wireguard(peer.endpoint.host, peer.endpoint.port,
                       Get(interface, "privatekey", ""), Get(peer, "publickey", ""),
                       raw(peer))
  IN  UNION {location(x.keys) : x \in {x \in ToSet(file) : x.section = "Peer"}}

(***************************************************************************)
(* The dispatch on the scheme, and the entries that are no server.         *)
(***************************************************************************)
parse_proxy_uri(link) ==
  LET parsed == CASE link.scheme = "vless"       -> parse_vless(link)
                  [] link.scheme = "trojan"      -> parse_trojan(link)
                  [] link.scheme = "ss"          -> parse_shadowsocks(link)
                  [] link.scheme = "vmess"       -> parse_vmess(link)
                  [] link.scheme = "hysteria2"   -> parse_hysteria2(link)
                  [] link.scheme = "wireguard"   -> parse_wireguard_uri(link)
                  [] link.scheme = "socks"       -> parse_socks_uri(link)
                  [] link.scheme \in {"http", "https"} ->
                       parse_simple_proxy_uri(link, "http")
                  [] OTHER                       -> {}
  IN  {s \in parsed : ~is_balancer_sentinel(s.host)}
=============================================================================
