--------------------------- MODULE RuntimeConfig ----------------------------
(***************************************************************************)
(* What the service does with the two configurations of a request before   *)
(* it runs them, runtime.rs: it inspects both, gives the probe a port it   *)
(* has reserved, and binds every outbound of the native configuration that *)
(* dials to the physical interface.  A configuration is the record that    *)
(* XrayConfig builds; routing's rules and balancers stand at its top level.*)
(***************************************************************************)
EXTENDS XrayConfig

TopLevelFields ==
  {"log", "dns", "inbounds", "outbounds", "rules", "balancers", "observatory"}

\* The five names the service looks for, of which the providers' files that
\* XrayConfig knows are one.
PrivilegedFileKeys == {"certificateFile"}

\* Every part of a configuration that is taken from a provider.
Parts(config) ==
  ToSet(config.outbounds) \cup ToSet(config.balancers) \cup
  {config[k] : k \in {"observatory"} \cap DOMAIN config}

Acceptable(config) ==
  /\ DOMAIN config \subseteq TopLevelFields
  /\ config.log \subseteq {"loglevel"}
  /\ \A part \in Parts(config) : Inside(part) \cap PrivilegedFileKeys = {}

inspect_native_tun_config(config) ==
  /\ Acceptable(config)
  /\ Len(config.inbounds) = 1
  /\ LET tun == config.inbounds[1]
     IN  /\ tun.protocol = "tun"
         /\ tun.name = "Varmlen" /\ Get(tun, "desc", "") = "Varmlen"
         /\ {"10.255.0.1/30", "fd00:7661:726d:6c65::1/64"} \subseteq Get(tun, "gateway", {})
         /\ "1.1.1.1" \in Get(tun, "dns", {})
         /\ {"0.0.0.0/0", "::/0"} \subseteq Get(tun, "autoSystemRoutingTable", {})
         /\ Get(tun, "autoOutboundsInterface", "") = "auto"

\* The service configures the adapter itself: the settings go.
TunIntent == {"desc", "gateway", "dns", "autoSystemRoutingTable", "autoOutboundsInterface"}

\* The outbound with its socket bound to the physical interface.
Bound(ob, interface) ==
  LET stream == Get(ob, "streamSettings", None)
  IN  IF ob.protocol \in {"blackhole", "dns"} THEN ob
      ELSE Put(ob, "streamSettings",
               Put(stream, "sockopt",
                   Put(Get(stream, "sockopt", None), "interface", interface)))

rewrite_native_outbound_interface(config, interface) ==
  [config EXCEPT
     !.inbounds  = << Without(config.inbounds[1], TunIntent) >>,
     !.outbounds = [i \in DOMAIN config.outbounds |-> Bound(config.outbounds[i], interface)]]

Loopback == {"127.0.0.1", "::1"}
PortNumbers == 1 .. 65535

ASSUME ProbePortAssumption == ConnectionProbePort \in PortNumbers

inspect_validation_config(config) ==
  /\ Acceptable(config)
  /\ \A inbound \in ToSet(config.inbounds) :
       /\ inbound.protocol # "tun"
       /\ Get(inbound, "listen", "") \in Loopback
  /\ \E i \in DOMAIN config.inbounds :
       /\ config.inbounds[i].port \in PortNumbers
       /\ \A j \in DOMAIN config.inbounds : config.inbounds[j].protocol = "socks" <=> j = i

\* The probe's only SOCKS inbound moves to the reserved port.
rewrite_validation_ports(config, port) ==
  {c \in {[config EXCEPT !.inbounds =
             [i \in DOMAIN config.inbounds |->
                IF config.inbounds[i].protocol = "socks"
                THEN [config.inbounds[i] EXCEPT !.port = port] ELSE config.inbounds[i]]]} :
     inspect_validation_config(config) /\ port >= 1024 /\ inspect_validation_config(c)}
=============================================================================
