----------------------------- MODULE RouteRules -----------------------------
(***************************************************************************)
(* The split tunnel: the routing rules of a connection's configuration     *)
(* (build_route_rules of xray.rs, SplitInput of split.rs) and the way Xray *)
(* applies them, first match first.                                        *)
(*                                                                         *)
(* A split selection has a mode and a list for applications and another    *)
(* pair for sites; a site is [suffix, domain], "*.example.com" or          *)
(* "example.com", a domain a sequence of labels.  A rule is a record whose *)
(* keys are its conditions and either outboundTag or balancerTag, so is a  *)
(* target.  A flow is [inbound, port, ip, process, domain]: Xray's own     *)
(* resolver enters by no inbound and belongs to no process.                *)
(***************************************************************************)
EXTENDS Records

Addresses == {"private", "resolver", "public"}    \* LAN ranges, 1.1.1.1, the rest

apps_selective(split) == split.apps_mode = "selective"
sites_selective(split) == split.sites_mode = "selective"
enabled_apps(split) == Picked(split.apps, {i \in DOMAIN split.apps : split.apps[i] # ""})

ToDirect == [outboundTag |-> "direct"]

\* Mutation: the sites are looked at before the applications.
SitesFirst(split, allow_lan, target) ==
  << [inboundTag |-> "tun-in", port |-> 53, outboundTag |-> "dns-out"],
     [domain |-> ToSet(split.sites)] ++ IF sites_selective(split) THEN target ELSE ToDirect >>
  \o [i \in DOMAIN enabled_apps(split) |->
        [process |-> enabled_apps(split)[i]]
        ++ IF apps_selective(split) THEN target ELSE ToDirect]
  \o << [ip |-> "resolver"] ++ target,
        [network |-> "tcp,udp"] ++ IF apps_selective(split) THEN ToDirect ELSE target >>

build_route_rules(split, allow_lan, target) ==
  LET listed(selective) == IF selective THEN target ELSE ToDirect
      dns     == << [inboundTag |-> "tun-in", port |-> 53, outboundTag |-> "dns-out"] >>
      lan     == IF allow_lan THEN << [ip |-> "private"] ++ ToDirect >> ELSE <<>>
      apps    == [i \in DOMAIN enabled_apps(split) |->
                    [process |-> enabled_apps(split)[i]] ++ listed(apps_selective(split))]
      sites   == IF split.sites = <<>> THEN <<>>
                 ELSE << [domain |-> ToSet(split.sites)] ++ listed(sites_selective(split)) >>
      doh     == << [ip |-> "resolver"] ++ target >>
      default == << [network |-> "tcp,udp"]
                    ++ IF apps_selective(split) THEN ToDirect ELSE target >>
  IN  dns \o lan \o apps \o sites \o doh \o default

(***************************************************************************)
(* Xray: a rule applies when every condition it names holds.               *)
(***************************************************************************)
SiteMatches(site, domain) ==
  IF site.suffix THEN IsSuffix(site.domain, domain) ELSE domain = site.domain

Matches(rule, flow) ==
  /\ "inboundTag" \in DOMAIN rule => flow.inbound = rule.inboundTag
  /\ "port" \in DOMAIN rule => flow.port = rule.port
  /\ "ip" \in DOMAIN rule => flow.ip = rule.ip
  /\ "process" \in DOMAIN rule => flow.process = rule.process
  /\ "domain" \in DOMAIN rule => \E site \in rule.domain : SiteMatches(site, flow.domain)

TargetOf(rule) ==
  [k \in {"outboundTag", "balancerTag"} \cap DOMAIN rule |-> rule[k]]

RouteOf(rules, flow) == TargetOf(rules[Min({i \in DOMAIN rules : Matches(rules[i], flow)})])
=============================================================================
