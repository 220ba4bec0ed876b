----------------------- MODULE LocationPipelineProofs -----------------------
(***************************************************************************)
(* Proofs about the way of a location, for every document, link, selection *)
(* and adapter: what LocationPipeline's Spec keeps whatever is imported.   *)
(*                                                                         *)
(* PipelineInv remembers where a configuration came from: a location keeps *)
(* what its parser guarantees (LocationInv), a request is one that was     *)
(* built for the location by the plans of that location (RequestInv), and  *)
(* what runs is the request bound to an adapter (RunInv).  Every property  *)
(* but SourceIsOwn follows from the invariant by lemmas about the          *)
(* operators of the configuration modules, in the order the configuration  *)
(* is made: what a list that was picked from holds, what a cleaned         *)
(* outbound is, what a plan holds, what each configuration and its rules   *)
(* are, which rule decides a flow, what is run.                            *)
(***************************************************************************)
EXTENDS LocationPipeline, FiniteSetTheorems, WellFoundedInduction, TLAPS

(***************************************************************************)
(* Numbers.                                                                *)
(***************************************************************************)
\* A non-empty set of natural numbers has a least element.
LEMMA LeastNat ==
  ASSUME NEW T \in SUBSET Nat, T # {}
  PROVE  \E x \in T : \A y \in T : x <= y
<1> DEFINE R == OpToRel(<, Nat)
<1>1. PICK x \in T : \A y \in T : <<y, x>> \notin R
  <2>1. IsWellFoundedOn(R, Nat)
    BY NatLessThanWellFounded
  <2> HIDE DEF R
  <2> QED
    BY <2>1, WFMin
<1>2. \A y \in T : ~(y < x)
  BY <1>1 DEF OpToRel
<1> QED
  BY <1>2

LEMMA MinIs ==
  ASSUME NEW T \in SUBSET Nat, T # {}
  PROVE  Min(T) \in T /\ \A y \in T : Min(T) <= y
BY LeastNat DEF Min

(***************************************************************************)
(* Lists.                                                                  *)
(***************************************************************************)
\* The positions of a set can be put in order, whichever they are.
LEMMA OrderExists ==
  ASSUME NEW n \in Nat, NEW I \in SUBSET (1 .. n)
  PROVE  \E p \in [1 .. Cardinality(I) -> I] :
           \A k, m \in 1 .. Cardinality(I) : k < m => p[k] < p[m]
<1> DEFINE Ordered(J) == \E p \in [1 .. Cardinality(J) -> J] :
                           \A k, m \in 1 .. Cardinality(J) : k < m => p[k] < p[m]
           T == {b \in Nat : \E J \in SUBSET (1 .. b) : ~Ordered(J)}
<1>1. ASSUME T # {} PROVE FALSE
  <2>1. T \in SUBSET Nat
    OBVIOUS
  <2>2. PICK b \in T : \A c \in T : b <= c
    <3> HIDE DEF T
    <3> QED
      BY <1>1, <2>1, LeastNat
  <2>3. PICK J \in SUBSET (1 .. b) : ~Ordered(J)
    OBVIOUS
  <2> b \in Nat
    OBVIOUS
  <2>4. IsFiniteSet(1 .. b)
    BY FS_Interval
  <2>5. IsFiniteSet(J)
    BY <2>4, FS_Subset
  <2>6. b # 0
    <3>1. SUFFICES ASSUME b = 0 PROVE FALSE
      OBVIOUS
    <3>2. J = {}
      BY <3>1
    <3>3. Cardinality(J) = 0
      BY <3>2, FS_EmptySet
    <3>4. [k \in 1 .. 0 |-> k] \in [1 .. Cardinality(J) -> J]
      BY <3>3
    <3> QED
      BY <2>3, <3>3, <3>4
  <2>7. b - 1 \in Nat /\ b - 1 \notin T
    <3> HIDE DEF T
    <3> QED
      BY <2>2, <2>6
  <2>8. b \in J
    <3>1. SUFFICES ASSUME b \notin J PROVE FALSE
      OBVIOUS
    <3>2. J \in SUBSET (1 .. b - 1)
      BY <3>1
    <3> QED
      BY <2>3, <2>7, <3>2
  <2> DEFINE K == J \ {b}
             c == Cardinality(K)
  <2>9. K \in SUBSET (1 .. b - 1) /\ K \in SUBSET J
    OBVIOUS
  <2>10. c \in Nat /\ Cardinality(J) = c + 1
    <3>1. IsFiniteSet(K) /\ c = Cardinality(J) - 1
      BY <2>5, <2>8, FS_RemoveElement
    <3>2. c \in Nat /\ Cardinality(J) \in Nat
      BY <2>5, <3>1, FS_CardinalityType
    <3> QED
      BY <3>1, <3>2
  <2>11. PICK q \in [1 .. c -> K] : \A k, m \in 1 .. c : k < m => q[k] < q[m]
    BY <2>7, <2>9
  <2> HIDE DEF K, c
  <2> DEFINE p == [k \in 1 .. c + 1 |-> IF k = c + 1 THEN b ELSE q[k]]
  <2>12. p \in [1 .. c + 1 -> J]
    <3> SUFFICES ASSUME NEW k \in 1 .. c + 1 PROVE p[k] \in J
      OBVIOUS
    <3>1. k = c + 1 \/ k \in 1 .. c
      BY <2>10
    <3> QED
      BY <2>8, <2>9, <2>11, <3>1
  <2>13. \A k, m \in 1 .. c + 1 : k < m => p[k] < p[m]
    <3> SUFFICES ASSUME NEW k \in 1 .. c + 1, NEW m \in 1 .. c + 1, k < m
                 PROVE  p[k] < p[m]
      OBVIOUS
    <3>1. k \in 1 .. c
      BY <2>10
    <3>2. q[k] < b
      <4>1. q[k] \in 1 .. b - 1
        BY <2>9, <2>11, <3>1
      <4> QED
        BY <4>1
    <3>3. p[k] = q[k]
      BY <2>10, <3>1
    <3>4. CASE m = c + 1
      BY <2>10, <3>2, <3>3, <3>4
    <3>5. CASE m \in 1 .. c
      <4>1. p[m] = q[m]
        BY <2>10, <3>5
      <4> QED
        BY <2>11, <3>1, <3>3, <3>5, <4>1
    <3> QED
      BY <2>10, <3>4, <3>5
  <2> HIDE DEF p, c
  <2> QED
    BY <2>3, <2>10, <2>12, <2>13
<1> QED
  BY <1>1

LEMMA InOrderIs ==
  ASSUME NEW n \in Nat, NEW I \in SUBSET (1 .. n)
  PROVE  /\ Cardinality(I) \in Nat
         /\ InOrder(I) \in [1 .. Cardinality(I) -> I]
         /\ \A i \in I : \E k \in 1 .. Cardinality(I) : InOrder(I)[k] = i
<1> DEFINE c == Cardinality(I)
           p == InOrder(I)
<1>1. IsFiniteSet(I) /\ c \in Nat
  <2>1. IsFiniteSet(1 .. n)
    BY FS_Interval
  <2>2. IsFiniteSet(I)
    BY <2>1, FS_Subset
  <2> QED
    BY <2>2, FS_CardinalityType
<1>2. p \in [1 .. c -> I] /\ \A k, m \in 1 .. c : k < m => p[k] < p[m]
  BY OrderExists DEF InOrder
<1>3. \A k, m \in 1 .. c : p[k] = p[m] => k = m
  <2> SUFFICES ASSUME NEW k \in 1 .. c, NEW m \in 1 .. c, p[k] = p[m], k # m
               PROVE  FALSE
    OBVIOUS
  <2>1. k < m \/ m < k
    BY <1>1
  <2>2. p[k] \in 1 .. n /\ p[m] \in 1 .. n
    BY <1>2
  <2> QED
    BY <1>2, <2>1, <2>2
<1>4. p \in Injection(1 .. c, I)
  BY <1>2, <1>3 DEF Injection, IsInjective
<1>5. Cardinality(1 .. c) = c
  BY <1>1, FS_Interval
<1>6. p \in Surjection(1 .. c, I)
  BY <1>1, <1>4, <1>5, FS_Injection
<1> HIDE DEF p, c
<1>7. \A i \in I : \E k \in 1 .. c : p[k] = i
  BY <1>6 DEF Surjection
<1> QED
  BY <1>1, <1>2, <1>7 DEF p, c

LEMMA ListIs ==
  ASSUME NEW s, IsList(s)
  PROVE  Len(s) \in Nat /\ DOMAIN s = 1 .. Len(s)
BY DEF IsList

LEMMA ListWhen ==
  ASSUME NEW n \in Nat, NEW s, s = [i \in 1 .. n |-> s[i]]
  PROVE  IsList(s)
<1>1. DOMAIN s = 1 .. n
  OBVIOUS
<1> QED
  BY <1>1 DEF IsList, ToSet

LEMMA PickedIs ==
  ASSUME NEW s, IsList(s), NEW I \in SUBSET DOMAIN s
  PROVE  /\ Cardinality(I) \in Nat
         /\ Cardinality(I) = 0 <=> I = {}
         /\ DOMAIN Picked(s, I) = 1 .. Cardinality(I)
         /\ ToSet(Picked(s, I)) = {s[i] : i \in I}
         /\ \A S : {s[i] : i \in I} \subseteq S => Picked(s, I) \in Seq(S)
<1>1. Len(s) \in Nat /\ DOMAIN s = 1 .. Len(s)
  BY ListIs
<1>2. /\ Cardinality(I) \in Nat
      /\ InOrder(I) \in [1 .. Cardinality(I) -> I]
      /\ \A i \in I : \E k \in 1 .. Cardinality(I) : InOrder(I)[k] = i
  BY <1>1, InOrderIs
<1>3. Cardinality(I) = 0 <=> I = {}
  <2>1. IsFiniteSet(1 .. Len(s))
    BY <1>1, FS_Interval
  <2>2. IsFiniteSet(I)
    BY <1>1, <2>1, FS_Subset
  <2> QED
    BY <2>2, FS_EmptySet
<1>4. DOMAIN Picked(s, I) = 1 .. Cardinality(I)
  BY DEF Picked
<1>5. ToSet(Picked(s, I)) = {s[i] : i \in I}
  BY <1>2 DEF Picked, ToSet
<1>6. \A S : {s[i] : i \in I} \subseteq S => Picked(s, I) \in Seq(S)
  BY <1>2 DEF Picked
<1> QED
  BY <1>2, <1>3, <1>4, <1>5, <1>6
(***************************************************************************)
(* Maps.                                                                   *)
(***************************************************************************)
\* Two objects that agree on a key.
Agree(f, g, k) == Has(f, k) = Has(g, k) /\ (Has(f, k) => g[k] = f[k])

LEMMA AgreeGet ==
  ASSUME NEW f, NEW g, NEW k, NEW d, Agree(f, g, k)
  PROVE  Get(f, k, d) = Get(g, k, d)
BY DEF Agree, Get, Has

(***************************************************************************)
(* Outbounds.  A location is read from the protocol and the settings of an *)
(* outbound; its stream only adds to what is shown.                        *)
(***************************************************************************)
LocationFields ==
  {"protocol", "uuid", "host", "port", "transport", "security", "opt", "raw", "outbound",
   "profile", "source"}

\* A location as it is parsed: from no outbound and no profile yet.
IsPlain(s) ==
  /\ DOMAIN s = LocationFields
  /\ s.protocol \in ProxyProtocols
  /\ s.outbound = Unset /\ s.profile = Unset

LEMMA StreamIs ==
  ASSUME NEW s, IsPlain(s), NEW stream
  PROVE  /\ IsPlain(apply_stream(s, stream))
         /\ apply_stream(s, stream).host = s.host
         /\ apply_stream(s, stream).port = s.port
BY DEF apply_stream, IsPlain, LocationFields

LEMMA ParsedIs ==
  ASSUME NEW ob, NEW s \in parse_outbound(ob)
  PROVE  /\ IsPlain(s)
         /\ s.host = SettingsOf(ob).servers[1].host
         /\ s.port = SettingsOf(ob).servers[1].port
<1> DEFINE endpoint == SettingsOf(ob).servers[1]
           plain == [Base(ob.protocol, endpoint.host, endpoint.port) EXCEPT
                       !.uuid = CredentialOf(ob), !.opt = OptionsOf(ob),
                       !.raw = ParametersOf(ob),
                       !.transport = IF ob.protocol = "wireguard" THEN "wireguard" ELSE "tcp"]
<1>1. IsShowable(ob) /\ (s = plain \/ s = apply_stream(plain, ob.streamSettings))
  BY DEF parse_outbound
<1>2. ob.protocol \in ProxyProtocols
  BY <1>1 DEF IsShowable, is_proxy_protocol, Get, ProxyProtocols
<1>3. IsPlain(plain) /\ plain.host = endpoint.host /\ plain.port = endpoint.port
  BY <1>2 DEF Base, IsPlain, LocationFields
<1> HIDE DEF plain
<1> QED
  BY <1>1, <1>3, StreamIs

LEMMA ParsedWhen ==
  ASSUME NEW ob
  PROVE  parse_outbound(ob) # {} <=> IsShowable(ob)
BY DEF parse_outbound

LEMMA ShowableAlike ==
  ASSUME NEW x, NEW y, Agree(x, y, "protocol"), Agree(x, y, "settings")
  PROVE  (IsShowable(x) <=> IsShowable(y)) /\ SettingsOf(x) = SettingsOf(y)
<1>1. SettingsOf(x) = SettingsOf(y) /\ (is_proxy_protocol(x) <=> is_proxy_protocol(y))
  BY DEF SettingsOf, is_proxy_protocol, Agree, Get, Has
<1>2. is_proxy_protocol(x) => x.protocol = y.protocol
  BY DEF is_proxy_protocol, Get, ProxyProtocols, Agree
<1> QED
  BY <1>1, <1>2 DEF IsShowable

\* A name the program knows is its own lower case.
LEMMA LowerNames ==
  \A name \in ProxyProtocols \cup SupportedTransports \cup {"tls"} : Lower(name) = name
BY LowerAssumption DEF LowerAssumption, Lower, Get, Has

\* A protocol the importer knows is one the builders know.
LEMMA ProxyIs ==
  ASSUME NEW ob
  PROVE  /\ IsProxy(ob) => Has(ob, "protocol")
         /\ is_proxy_protocol(ob) => IsProxy(ob)
<1>1. Lower("") = "" /\ \A name \in ProxyProtocols : Lower(name) = name
  BY LowerNames DEF SupportedTransports
<1>2. "" \notin ProxyProtocols
  BY DEF ProxyProtocols
<1> QED
  BY <1>1, <1>2 DEF IsProxy, is_proxy_protocol, Get

\* The networks a parser reads by their own names.
LEMMA NetworkOf ==
  /\ \A network \in {"tcp", "ws", "xhttp", "httpupgrade", "grpc", "hysteria"} :
       xray_network(network) = network
  /\ \A transport : Lower(transport) = "hysteria" => xray_network(transport) = "hysteria"
<1>1. \A network \in {"tcp", "ws", "xhttp", "httpupgrade", "grpc", "hysteria"} :
        Lower(network) = network
  BY LowerNames DEF SupportedTransports
<1> QED
  BY <1>1 DEF xray_network

LEMMA ProxyAlike ==
  ASSUME NEW x, NEW y, Agree(x, y, "protocol"), IsProxy(x)
  PROVE  IsProxy(y) /\ x.protocol = y.protocol
<1> DEFINE none == ""
<1>1. Get(x, "protocol", none) = Get(y, "protocol", none)
  <2> HIDE DEF none
  <2> QED
    BY AgreeGet
<1>2. x.protocol = y.protocol
  BY ProxyIs DEF Agree
<1> QED
  BY <1>1, <1>2 DEF IsProxy

\* What is inside an outbound depends on two of its fields.
LEMMA InsideAlike ==
  ASSUME NEW x, NEW y, Get(x, "inside", {}) = Get(y, "inside", {}),
         NEW p, p = Get(x, "streamSettings", None), NEW q, q = Get(y, "streamSettings", None),
         Get(p, "tlsSettings", None) = Get(q, "tlsSettings", None),
         Get(p, "transport", None) = Get(q, "transport", None)
  PROVE  Inside(x) = Inside(y)
BY DEF Inside

Forbidden == FileKeys \cup {"allowInsecure"}

\* What the client decides itself is not the provider's; "more" is what an
\* outbound may have inside all the same.
IsClean(ob, more) ==
  /\ IsProxy(ob)
  /\ Inside(ob) \cap Forbidden \subseteq more
  /\ ~Has(ob, "sendThrough")
  /\ ~Has(Get(Get(ob, "streamSettings", None), "sockopt", None), "mark")
  /\ Get(Get(Get(ob, "streamSettings", None), "tlsSettings", None), "allowInsecure", FALSE)
       # TRUE

LEMMA SanitizedIs ==
  ASSUME NEW ob, NEW keep \in BOOLEAN, NEW x \in sanitize_raw_outbound(ob, keep)
  PROVE  /\ IsClean(x, {})
         /\ Agree(ob, x, "protocol") /\ Agree(ob, x, "settings")
         /\ ~keep => Has(x, "tag") /\ x.tag = "proxy"
<1> DEFINE kept == Without(ob, {"sendThrough"} \cup IF keep THEN {} ELSE {"proxySettings"})
           tagged == IF keep THEN kept ELSE Put(kept, "tag", "proxy")
           stream == Get(ob, "streamSettings", None)
           sockopt == Without(Get(stream, "sockopt", None),
                              {"mark"} \cup IF keep THEN {} ELSE {"dialerProxy"})
           bare == Without(tagged, {"streamSettings"})
           full == Put(tagged, "streamSettings", Put(stream, "sockopt", sockopt))
<1>1. /\ Inside(ob) \cap Forbidden = {}
      /\ IsProxy(ob)
      /\ x = IF Lower(ob.protocol) = "wireguard" THEN bare ELSE full
  BY DEF sanitize_raw_outbound, contains_forbidden_provider_file_reference,
         contains_insecure_tls_override, Forbidden
<1>2. /\ ~Has(sockopt, "mark")
      /\ \A k : k # "sockopt" => Agree(stream, Put(stream, "sockopt", sockopt), k)
  BY DEF Without, Restrict, Has, Put, Agree
<1>3. /\ \A k : k \notin {"sendThrough", "proxySettings", "tag"} => Agree(ob, tagged, k)
      /\ ~Has(tagged, "sendThrough")
      /\ ~keep => Has(tagged, "tag") /\ tagged.tag = "proxy"
  BY DEF Without, Restrict, Has, Put, Agree
<1> HIDE DEF tagged, sockopt
<1>4. CASE Lower(ob.protocol) = "wireguard"
  <2>1. /\ x = bare
        /\ \A k : k # "streamSettings" => Agree(tagged, bare, k)
        /\ Get(bare, "streamSettings", None) = None
    BY <1>1, <1>4 DEF Without, Restrict, Agree, Has, Get
  <2>2. /\ Agree(ob, x, "protocol") /\ Agree(ob, x, "settings") /\ Agree(ob, x, "inside")
        /\ ~Has(x, "sendThrough") /\ (~keep => Has(x, "tag") /\ x.tag = "proxy")
    BY <1>3, <2>1 DEF Agree
  <2>3. Inside(x) \subseteq Inside(ob)
    BY <2>1, <2>2, AgreeGet DEF Inside, None, Get, Has
  <2>4. /\ ~Has(Get(Get(x, "streamSettings", None), "sockopt", None), "mark")
        /\ Get(Get(Get(x, "streamSettings", None), "tlsSettings", None), "allowInsecure", FALSE)
             # TRUE
    BY <2>1 DEF None, Get, Has
  <2>5. IsProxy(x)
    BY <1>1, <2>2, ProxyAlike
  <2> QED
    BY <1>1, <2>2, <2>3, <2>4, <2>5 DEF IsClean
<1>5. CASE Lower(ob.protocol) # "wireguard"
  <2>1. /\ x = full
        /\ \A k : k # "streamSettings" => Agree(tagged, full, k)
        /\ Get(full, "streamSettings", None) = Put(stream, "sockopt", sockopt)
    BY <1>1, <1>5 DEF Agree, Put, Has, Get
  <2>2. /\ Agree(ob, x, "protocol") /\ Agree(ob, x, "settings") /\ Agree(ob, x, "inside")
        /\ ~Has(x, "sendThrough") /\ (~keep => Has(x, "tag") /\ x.tag = "proxy")
    BY <1>3, <2>1 DEF Agree
  <2>3. \A k \in {"tlsSettings", "transport"} :
          Get(Get(x, "streamSettings", None), k, None) = Get(stream, k, None)
    BY <1>2, <2>1, AgreeGet
  <2>4. Inside(x) = Inside(ob)
    <3>1. Get(x, "inside", {}) = Get(ob, "inside", {})
      BY <2>2, AgreeGet
    <3> QED
      BY <2>3, <3>1, InsideAlike
  <2>5. Get(Get(x, "streamSettings", None), "sockopt", None) = sockopt
    BY <2>1 DEF Get, Put, Has
  <2>6. Get(Get(stream, "tlsSettings", None), "allowInsecure", FALSE) # TRUE
    BY <1>1 DEF Inside, Forbidden
  <2>7. IsProxy(x)
    BY <1>1, <2>2, ProxyAlike
  <2> QED
    BY <1>1, <1>2, <2>2, <2>3, <2>4, <2>5, <2>6, <2>7 DEF IsClean
<1> QED
  BY <1>4, <1>5

LEMMA SanitizedEither ==
  ASSUME NEW ob, NEW keep \in BOOLEAN, sanitize_raw_outbound(ob, TRUE) # {}
  PROVE  sanitize_raw_outbound(ob, keep) # {}
BY DEF sanitize_raw_outbound

(***************************************************************************)
(* The profile of a location, and what is kept of it.                      *)
(***************************************************************************)
IsProfileValue(v) ==
  /\ v # Unset
  /\ Has(v, "outbounds") /\ IsList(v.outbounds) /\ Unset \notin ToSet(v.outbounds)
  /\ ProxyPositions(v.outbounds) # {}
  /\ IsList(Get(v, "rules", <<>>))

LEMMA ProxyOutboundsAre ==
  ASSUME NEW v, IsProfileValue(v)
  PROVE  /\ ProxyOutbounds(v) # <<>>
         /\ IsList(ProxyOutbounds(v))
         /\ \A ob \in ToSet(ProxyOutbounds(v)) :
              \E i \in ProxyPositions(v.outbounds) : ob = v.outbounds[i]
<1> DEFINE obs == v.outbounds
           I == ProxyPositions(obs)
<1>1. ProxyOutbounds(v) = Picked(obs, I)
  BY DEF ProxyOutbounds, IsProfileValue, Get
<1>2. IsList(obs) /\ I \in SUBSET DOMAIN obs /\ I # {}
  BY DEF IsProfileValue, ProxyPositions
<1> HIDE DEF obs, I
<1>3. /\ Cardinality(I) \in Nat /\ Cardinality(I) # 0
      /\ DOMAIN Picked(obs, I) = 1 .. Cardinality(I)
      /\ ToSet(Picked(obs, I)) = {obs[i] : i \in I}
      /\ Picked(obs, I) \in Seq({obs[i] : i \in I})
  BY <1>2, PickedIs
<1>4. Picked(obs, I) # <<>>
  BY <1>3
<1>5. IsList(Picked(obs, I))
  BY <1>3 DEF IsList
<1> QED
  BY <1>1, <1>3, <1>4, <1>5 DEF obs, I

\* The outbound a profile is shown by is one of its own.
LEMMA FirstProxyIs ==
  ASSUME NEW v, IsProfileValue(v)
  PROVE  /\ ProxyOutbounds(v)[1] \in ToSet(v.outbounds)
         /\ ProxyOutbounds(v)[1] # Unset
<1> DEFINE proxies == ProxyOutbounds(v)
<1>1. /\ proxies # <<>> /\ IsList(proxies)
      /\ \A ob \in ToSet(proxies) : \E i \in ProxyPositions(v.outbounds) : ob = v.outbounds[i]
  BY ProxyOutboundsAre
<1>2. \A i \in ProxyPositions(v.outbounds) : v.outbounds[i] \in ToSet(v.outbounds)
  BY DEF ProxyPositions, ToSet
<1> HIDE DEF proxies
<1>3. proxies[1] \in ToSet(proxies)
  BY <1>1 DEF IsList, ToSet
<1>4. proxies[1] \in ToSet(v.outbounds)
  BY <1>1, <1>2, <1>3
<1> QED
  BY <1>4 DEF IsProfileValue, proxies

\* One of the outbounds that are kept.
IsKept(v, x) ==
  \E i \in ProviderPositions(v.outbounds) :
    /\ TagOf(v.outbounds[i], i) \notin ReservedTags
    /\ \E ob \in sanitize_raw_outbound(v.outbounds[i], TRUE) :
         x = Put(ob, "tag", TagOf(v.outbounds[i], i))

LEMMA ProviderIs ==
  ASSUME NEW v, IsProfileValue(v), provider_proxy_outbounds(v) # <<>>
  PROVE  /\ IsList(provider_proxy_outbounds(v))
         /\ \A x \in ToSet(provider_proxy_outbounds(v)) : IsKept(v, x)
         /\ \A i \in ProviderPositions(v.outbounds) :
              sanitize_raw_outbound(v.outbounds[i], TRUE) # {}
<1> DEFINE obs == v.outbounds
           I == ProviderPositions(obs)
           clean(i) == {Put(ob, "tag", TagOf(obs[i], i)) :
                          ob \in sanitize_raw_outbound(obs[i], TRUE)}
           chosen(i) == CHOOSE ob \in clean(i) : TRUE
           P == [n \in 1 .. Cardinality(I) |-> chosen(InOrder(I)[n])]
<1>1. /\ provider_proxy_outbounds(v) = P
      /\ \A i \in I : clean(i) # {} /\ TagOf(obs[i], i) \notin ReservedTags
  BY DEF provider_proxy_outbounds
<1>2. /\ Len(obs) \in Nat /\ DOMAIN obs = 1 .. Len(obs)
  BY ListIs DEF IsProfileValue
<1>3. I \in SUBSET (1 .. Len(obs))
  BY <1>2 DEF ProviderPositions
<1> HIDE DEF obs, I
<1>4. Cardinality(I) \in Nat /\ InOrder(I) \in [1 .. Cardinality(I) -> I]
  BY <1>2, <1>3, InOrderIs
<1>5. \A n \in 1 .. Cardinality(I) : InOrder(I)[n] \in I /\ P[n] \in clean(InOrder(I)[n])
  <2> SUFFICES ASSUME NEW n \in 1 .. Cardinality(I)
               PROVE  InOrder(I)[n] \in I /\ P[n] \in clean(InOrder(I)[n])
    OBVIOUS
  <2>1. InOrder(I)[n] \in I
    BY <1>4
  <2>2. clean(InOrder(I)[n]) # {}
    BY <1>1, <2>1
  <2> HIDE DEF clean
  <2> QED
    BY <2>1, <2>2
<1>6. \A x \in ToSet(P) : IsKept(v, x)
  <2> SUFFICES ASSUME NEW n \in 1 .. Cardinality(I) PROVE IsKept(v, P[n])
    BY DEF ToSet
  <2>1. PICK i \in I : P[n] \in clean(i)
    BY <1>5
  <2> HIDE DEF P
  <2> QED
    BY <1>1, <2>1 DEF IsKept, obs, I
<1>7. IsList(P)
  <2>1. P = [n \in 1 .. Cardinality(I) |-> P[n]]
    <3> HIDE DEF chosen
    <3> QED
      OBVIOUS
  <2> HIDE DEF P
  <2> QED
    BY <1>4, <2>1, ListWhen
<1>8. \A i \in I : sanitize_raw_outbound(obs[i], TRUE) # {}
  BY <1>1
<1> HIDE DEF P
<1> QED
  BY <1>1, <1>6, <1>7, <1>8 DEF obs, I

(***************************************************************************)
(* The plan of a location.                                                 *)
(***************************************************************************)
\* The endpoint an outbound dials first is one of those that are pinned.
IsPinned(ob, endpoints) ==
  IsShowable(ob) =>
    LET endpoint == SettingsOf(ob).servers[1]
    IN  <<endpoint.host, endpoint.port>> \in endpoints

\* What a location of no outbound may bring in: the extra object of its link.
Brought(s) == IF s.outbound = Unset THEN Inside(ExtraOf(s)) ELSE {}

IsPlan(plan, s) ==
  /\ IsList(plan.proxies)
  /\ \A ob \in ToSet(plan.proxies) :
       /\ IsClean(ob, Brought(s)) /\ Has(ob, "tag") /\ ob.tag \notin ReservedTags
       /\ IsPinned(ob, server_endpoints(s))
  /\ \A b \in ToSet(plan.balancers) :
       \E selected \in b.selector : selected \cap Tags(plan.proxies) # {}
  /\ \/ \E t \in Tags(plan.proxies) : plan.target = [outboundTag |-> t]
     \/ \E b \in ToSet(plan.balancers) : plan.target = [balancerTag |-> b.tag]

\* What a location of no outbound owes to the link it came from.
IsOfLink(s) ==
  /\ s.protocol = "trojan" => Get(s.opt, "password", s.uuid) = s.uuid
  /\ s.protocol \in {"shadowsocks", "http", "socks"} => s.transport = "tcp"

\* What an imported location carries with it.
IsLocation(s) ==
  /\ s.protocol \in ProxyProtocols
  /\ s.outbound = Unset => IsOfLink(s)
  /\ s.profile # Unset =>
       IsProfileValue(s.profile) /\ s.outbound = ProxyOutbounds(s.profile)[1]

LEMMA EndpointsAre ==
  ASSUME NEW s, NEW ob,
         \/ s.profile # Unset /\ ob \in ToSet(s.profile.outbounds)
         \/ s.profile = Unset /\ s.outbound # Unset /\ ob = s.outbound
  PROVE  IsPinned(ob, server_endpoints(s))
<1> DEFINE outbounds == IF s.profile # Unset THEN ToSet(s.profile.outbounds)
                        ELSE IF s.outbound # Unset THEN {s.outbound} ELSE {}
           parsed == UNION {parse_outbound(x) : x \in outbounds}
<1>1. server_endpoints(s) = {<<x.host, x.port>> : x \in IF parsed = {} THEN {s} ELSE parsed}
  BY DEF server_endpoints
<1>2. SUFFICES ASSUME IsShowable(ob)
               PROVE  <<SettingsOf(ob).servers[1].host, SettingsOf(ob).servers[1].port>>
                        \in server_endpoints(s)
  BY DEF IsPinned
<1>3. PICK x \in parse_outbound(ob) : TRUE
  BY <1>2, ParsedWhen
<1>4. x \in parsed
  BY <1>3
<1>5. x.host = SettingsOf(ob).servers[1].host /\ x.port = SettingsOf(ob).servers[1].port
  BY <1>3, ParsedIs
<1> HIDE DEF parsed
<1> QED
  BY <1>1, <1>4, <1>5

LEMMA EndpointsExist ==
  ASSUME NEW s
  PROVE  server_endpoints(s) # {}
<1> DEFINE outbounds == IF s.profile # Unset THEN ToSet(s.profile.outbounds)
                        ELSE IF s.outbound # Unset THEN {s.outbound} ELSE {}
           parsed == UNION {parse_outbound(x) : x \in outbounds}
<1>1. server_endpoints(s) = {<<x.host, x.port>> : x \in IF parsed = {} THEN {s} ELSE parsed}
  BY DEF server_endpoints
<1> HIDE DEF parsed
<1> QED
  BY <1>1

LEMMA PinnedAlike ==
  ASSUME NEW x, NEW y, NEW endpoints, Agree(x, y, "protocol"), Agree(x, y, "settings"),
         IsPinned(x, endpoints)
  PROVE  IsPinned(y, endpoints)
BY ShowableAlike DEF IsPinned

LEMMA KeptIs ==
  ASSUME NEW s, s.profile # Unset, IsLocation(s), NEW x, IsKept(s.profile, x)
  PROVE  /\ IsClean(x, Brought(s)) /\ Has(x, "tag") /\ x.tag \notin ReservedTags
         /\ IsPinned(x, server_endpoints(s))
<1> DEFINE obs == s.profile.outbounds
<1>1. PICK i \in ProviderPositions(obs) :
        /\ TagOf(obs[i], i) \notin ReservedTags
        /\ \E ob \in sanitize_raw_outbound(obs[i], TRUE) : x = Put(ob, "tag", TagOf(obs[i], i))
  BY DEF IsKept
<1>2. PICK ob \in sanitize_raw_outbound(obs[i], TRUE) : x = Put(ob, "tag", TagOf(obs[i], i))
  BY <1>1
<1>3. IsClean(ob, {}) /\ Agree(obs[i], ob, "protocol") /\ Agree(obs[i], ob, "settings")
  BY SanitizedIs
<1>4. Has(x, "tag") /\ x.tag \notin ReservedTags /\ \A k : k # "tag" => Agree(ob, x, k)
  BY <1>1, <1>2 DEF Put, Has, Agree
<1>5. IsClean(x, Brought(s))
  <2>1. /\ \A k \in {"inside", "streamSettings", "protocol"} : \A d : Get(ob, k, d) = Get(x, k, d)
        /\ ~Has(x, "sendThrough")
    BY <1>3, <1>4, AgreeGet DEF IsClean, Agree
  <2>2. Inside(x) = Inside(ob) /\ (IsProxy(ob) => IsProxy(x))
    BY <2>1 DEF Inside, IsProxy
  <2> QED
    BY <1>3, <2>1, <2>2 DEF IsClean
<1>6. obs[i] \in ToSet(obs)
  BY DEF ProviderPositions, ToSet
<1>7. IsPinned(obs[i], server_endpoints(s))
  BY <1>6, EndpointsAre
<1>8. IsPinned(x, server_endpoints(s))
  BY <1>3, <1>4, <1>7, PinnedAlike DEF Agree
<1> QED
  BY <1>4, <1>5, <1>8

LEMMA LayerIs ==
  ASSUME NEW s
  PROVE  /\ ~Has(SecurityLayer(s), "sockopt") /\ ~Has(SecurityLayer(s), "transport")
         /\ Get(Get(SecurityLayer(s), "tlsSettings", None), "allowInsecure", FALSE) # TRUE
BY DEF SecurityLayer, Has, Get, None, ++

\* The settings of a transport hold what the extra object of XHTTP does.
LEMMA NothingInside ==
  ASSUME NEW s, NEW network, network = xray_network(s.transport)
  PROVE  Get(TransportSettings(s, network), "inside", {}) = Get(ExtraOf(s), "inside", {})
<1> DEFINE kept(K) == Restrict(s.raw, Filled(s.raw, K))
           settings == TransportSettings(s, network)
           options(K) == Restrict(s.opt, K \cap DOMAIN s.opt)
<1>1. /\ \A K : DOMAIN kept(K) \subseteq K
      /\ \A K : DOMAIN options(K) \subseteq K
  BY DEF Restrict, Filled
<1>2. CASE network = "xhttp"
  <2> DEFINE extra == ExtraOf(s)
             host == kept({"host"})
             own == options({"path", "mode"})
             rest == [path |-> "/", mode |-> "auto"]
  <2>1. settings = ((host ++ own) ++ extra) ++ rest
    BY <1>2 DEF TransportSettings
  <2>2. DOMAIN host \subseteq {"host"} /\ DOMAIN own \subseteq {"path", "mode"}
    BY <1>1
  <2>3. DOMAIN rest = {"path", "mode"}
    OBVIOUS
  <2> HIDE DEF settings, extra, host, own, rest
  <2>4. /\ Has(settings, "inside") <=> Has(extra, "inside")
        /\ Has(extra, "inside") => settings["inside"] = extra["inside"]
    BY <2>1, <2>2, <2>3 DEF ++, Has
  <2> QED
    BY <2>4 DEF Get, settings, extra
<1>3. CASE network # "xhttp"
  <2>1. ExtraOf(s) = None
    BY <1>3 DEF ExtraOf
  <2>2. "inside" \notin DOMAIN settings
    <3> DEFINE path == [path |-> Get(s.opt, "path", "/")]
    <3>1. CASE network \in {"ws", "httpupgrade", "http"}
      <4>1. settings = path ++ kept({"host"}) /\ DOMAIN path = {"path"}
        BY <3>1 DEF TransportSettings
      <4>2. DOMAIN kept({"host"}) \subseteq {"host"}
        BY <1>1
      <4> HIDE DEF kept, path, settings
      <4> QED
        BY <4>1, <4>2 DEF ++
    <3>2. CASE network = "grpc"
      <4> DEFINE gun == [serviceName |-> Get(s.raw, "serviceName", ""),
                         multiMode   |-> Get(s.opt, "mode", "") \in {"multi", "gun"}]
      <4>1. settings = gun ++ kept({"authority"}) /\ DOMAIN gun = {"serviceName", "multiMode"}
        BY <3>2 DEF TransportSettings
      <4>2. DOMAIN kept({"authority"}) \subseteq {"authority"}
        BY <1>1
      <4> HIDE DEF kept, gun, settings
      <4> QED
        BY <4>1, <4>2 DEF ++
    <3>3. CASE network = "kcp"
      <4> DEFINE type == [headerType |-> Get(s.raw, "headerType", "none")]
      <4>1. settings = type ++ kept({"seed"}) /\ DOMAIN type = {"headerType"}
        BY <3>3 DEF TransportSettings
      <4>2. DOMAIN kept({"seed"}) \subseteq {"seed"}
        BY <1>1
      <4> HIDE DEF kept, type, settings
      <4> QED
        BY <4>1, <4>2 DEF ++
    <3>4. CASE network = "hysteria"
      <4>1. settings = [auth |-> s.uuid]
        BY <3>4 DEF TransportSettings
      <4> HIDE DEF settings
      <4> QED
        BY <4>1
    <3>5. CASE network = "tcp" /\ Get(s.raw, "headerType", "") = "http"
      <4> DEFINE type == [headerType |-> "http"]
      <4>1. settings = (type ++ kept({"host"})) ++ options({"path"})
            /\ DOMAIN type = {"headerType"}
        BY <3>5 DEF TransportSettings
      <4>2. DOMAIN kept({"host"}) \subseteq {"host"} /\ DOMAIN options({"path"}) \subseteq {"path"}
        BY <1>1
      <4> HIDE DEF kept, options, type, settings
      <4> QED
        BY <4>1, <4>2 DEF ++
    <3>6. CASE /\ network \notin {"ws", "httpupgrade", "http", "grpc", "kcp", "hysteria"}
               /\ ~(network = "tcp" /\ Get(s.raw, "headerType", "") = "http")
      <4>1. settings = None
        BY <1>3, <3>6 DEF TransportSettings
      <4> HIDE DEF settings
      <4> QED
        BY <4>1 DEF None
    <3> QED
      BY <3>1, <3>2, <3>3, <3>4, <3>5, <3>6
  <2> HIDE DEF settings
  <2> QED
    BY <2>1, <2>2 DEF Get, Has, None, settings
<1> QED
  BY <1>2, <1>3

LEMMA StreamBuilt ==
  ASSUME NEW s
  PROVE  /\ ~Has(build_stream_settings(s), "sockopt")
         /\ Get(Get(build_stream_settings(s), "tlsSettings", None), "allowInsecure", FALSE) # TRUE
         /\ Get(Get(build_stream_settings(s), "transport", None), "inside", {})
              = Get(ExtraOf(s), "inside", {})
<1> DEFINE layer == SecurityLayer(s)
           settings == TransportSettings(s, xray_network(s.transport))
           more == [k \in {"transport" : x \in {settings} \ {None}} |-> settings]
           stream == build_stream_settings(s)
<1>1. stream = [network |-> xray_network(s.transport)] ++ layer ++ more
  BY DEF build_stream_settings
<1>2. /\ DOMAIN more = IF settings = None THEN {} ELSE {"transport"}
      /\ settings # None => more["transport"] = settings
  OBVIOUS
<1>3. /\ ~Has(layer, "sockopt") /\ ~Has(layer, "transport")
      /\ Get(Get(layer, "tlsSettings", None), "allowInsecure", FALSE) # TRUE
  BY LayerIs
<1>4. Get(settings, "inside", {}) = Get(ExtraOf(s), "inside", {})
  BY NothingInside
<1> HIDE DEF layer, more, settings, stream
<1>5. Get(stream, "transport", None) = settings
  BY <1>1, <1>2, <1>3 DEF Has, Get, ++
<1>6. ~Has(stream, "sockopt")
  BY <1>1, <1>2, <1>3 DEF Has, ++
<1>7. Get(stream, "tlsSettings", None) = Get(layer, "tlsSettings", None)
  <2>1. /\ Has(stream, "tlsSettings") <=> Has(layer, "tlsSettings")
        /\ Has(layer, "tlsSettings") => stream["tlsSettings"] = layer["tlsSettings"]
    BY <1>1, <1>2 DEF Has, ++
  <2> QED
    BY <2>1 DEF Get
<1> QED
  BY <1>3, <1>4, <1>5, <1>6, <1>7 DEF stream

LEMMA BuiltIs ==
  ASSUME NEW s, s.outbound = Unset, s.protocol \in ProxyProtocols,
         NEW ob \in build_proxy_outbound(s)
  PROVE  /\ IsClean(ob, Brought(s)) /\ Has(ob, "tag") /\ ob.tag = "proxy"
         /\ SettingsOf(ob).servers[1] = [host |-> s.host, port |-> s.port]
<1>1. CASE s.protocol = "wireguard"
  <2>1. ob = build_wireguard_outbound(s)
    BY <1>1 DEF build_proxy_outbound
  <2>2. /\ DOMAIN ob = {"tag", "protocol", "settings"}
        /\ ob.tag = "proxy" /\ ob.protocol = "wireguard"
        /\ ob.settings.servers = Endpoint(s)
    BY <2>1 DEF build_wireguard_outbound
  <2>3. IsProxy(ob)
    BY <2>2, ProxyIs DEF is_proxy_protocol, ProxyProtocols, Get, Has
  <2>4. Get(ob, "streamSettings", None) = None /\ Get(ob, "inside", {}) = {}
        /\ ~Has(ob, "sendThrough") /\ SettingsOf(ob) = ob.settings
    BY <2>2 DEF SettingsOf, Get, Has
  <2>5. \A k, d : Get(None, k, d) = d /\ ~Has(None, k)
    BY DEF Get, Has, None
  <2>6. Inside(ob) = {}
    BY <2>4, <2>5 DEF Inside
  <2>7. IsClean(ob, Brought(s))
    <3>1. /\ ~Has(Get(None, "sockopt", None), "mark")
          /\ Get(Get(None, "tlsSettings", None), "allowInsecure", FALSE) # TRUE
      BY <2>5
    <3> QED
      BY <2>3, <2>4, <2>6, <3>1 DEF IsClean
  <2>8. Has(ob, "tag") /\ Endpoint(s)[1] = [host |-> s.host, port |-> s.port]
    BY <2>2 DEF Has, Endpoint
  <2> QED
    BY <2>2, <2>4, <2>7, <2>8
<1>2. CASE s.protocol # "wireguard"
  <2>1. ob = [tag |-> "proxy", protocol |-> s.protocol,
              settings |-> [servers |-> Endpoint(s), user |-> Credentials(s)],
              streamSettings |-> build_stream_settings(s)]
    BY <1>2 DEF build_proxy_outbound
  <2>2. /\ DOMAIN ob = {"tag", "protocol", "settings", "streamSettings"}
        /\ ob.tag = "proxy" /\ ob.protocol = s.protocol
        /\ ob.settings.servers = Endpoint(s)
        /\ ob.streamSettings = build_stream_settings(s)
    BY <2>1
  <2>3. /\ Get(ob, "streamSettings", None) = build_stream_settings(s)
        /\ Get(ob, "inside", {}) = {} /\ ~Has(ob, "sendThrough")
        /\ is_proxy_protocol(ob) /\ SettingsOf(ob) = ob.settings
    BY <2>2 DEF Get, Has, is_proxy_protocol, SettingsOf
  <2>4. Inside(ob) \subseteq Brought(s)
    <3> DEFINE stream == build_stream_settings(s)
    <3>1. /\ Get(Get(stream, "transport", None), "inside", {}) = Get(ExtraOf(s), "inside", {})
          /\ Get(Get(stream, "tlsSettings", None), "allowInsecure", FALSE) # TRUE
      BY StreamBuilt
    <3> HIDE DEF stream
    <3>2. Get(ob, "streamSettings", None) = stream
      BY <2>3 DEF stream
    <3>3. Inside(ob) = Get(ExtraOf(s), "inside", {})
      BY <2>3, <3>1, <3>2 DEF Inside
    <3>4. Get(ExtraOf(s), "inside", {}) \subseteq Inside(ExtraOf(s))
      BY DEF Inside
    <3> QED
      BY <3>3, <3>4 DEF Brought
  <2>5. ~Has(Get(build_stream_settings(s), "sockopt", None), "mark")
    BY StreamBuilt DEF Get, Has, None
  <2>6. IsProxy(ob)
    BY <2>3, ProxyIs
  <2>7. Get(Get(build_stream_settings(s), "tlsSettings", None), "allowInsecure", FALSE) # TRUE
    BY StreamBuilt
  <2>8. IsClean(ob, Brought(s))
    BY <2>3, <2>4, <2>5, <2>6, <2>7 DEF IsClean
  <2>9. Has(ob, "tag") /\ Endpoint(s)[1] = [host |-> s.host, port |-> s.port]
    BY <2>2 DEF Has, Endpoint
  <2> QED
    BY <2>2, <2>3, <2>8, <2>9
<1> QED
  BY <1>1, <1>2

\* A location of a single outbound, or of fields only.
LEMMA SinglePlanIs ==
  ASSUME NEW s, IsLocation(s), NEW ob \in build_proxy_outbound(s)
  PROVE  /\ IsClean(ob, Brought(s)) /\ Has(ob, "tag") /\ ob.tag = "proxy"
         /\ IsPinned(ob, server_endpoints(s))
<1>1. CASE s.outbound # Unset
  <2>1. ob \in sanitize_raw_outbound(s.outbound, FALSE)
    BY <1>1 DEF build_proxy_outbound
  <2>2. /\ IsClean(ob, {}) /\ Has(ob, "tag") /\ ob.tag = "proxy"
        /\ Agree(s.outbound, ob, "protocol") /\ Agree(s.outbound, ob, "settings")
    BY <2>1, SanitizedIs
  <2>3. IsPinned(s.outbound, server_endpoints(s))
    <3>1. CASE s.profile = Unset
      BY <1>1, <3>1, EndpointsAre
    <3>2. CASE s.profile # Unset
      <4>1. IsProfileValue(s.profile) /\ s.outbound = ProxyOutbounds(s.profile)[1]
        BY <3>2 DEF IsLocation
      <4>2. s.outbound \in ToSet(s.profile.outbounds)
        BY <4>1, FirstProxyIs
      <4> QED
        BY <3>2, <4>2, EndpointsAre
    <3> QED
      BY <3>1, <3>2
  <2>4. IsClean(ob, Brought(s))
    BY <2>2 DEF IsClean
  <2> QED
    BY <2>2, <2>3, <2>4, PinnedAlike
<1>2. CASE s.outbound = Unset
  <2>1. s.profile = Unset
    <3>1. SUFFICES ASSUME s.profile # Unset PROVE FALSE
      OBVIOUS
    <3>2. IsProfileValue(s.profile) /\ s.outbound = ProxyOutbounds(s.profile)[1]
      BY <3>1 DEF IsLocation
    <3> QED
      BY <1>2, <3>2, FirstProxyIs
  <2>2. server_endpoints(s) = {<<s.host, s.port>>}
    BY <1>2, <2>1 DEF server_endpoints
  <2>3. /\ IsClean(ob, Brought(s)) /\ Has(ob, "tag") /\ ob.tag = "proxy"
        /\ SettingsOf(ob).servers[1] = [host |-> s.host, port |-> s.port]
    BY <1>2, BuiltIs DEF IsLocation
  <2> QED
    BY <2>2, <2>3 DEF IsPinned
<1> QED
  BY <1>1, <1>2

LEMMA TargetIs ==
  ASSUME NEW v, IsProfileValue(v), NEW proxies, IsList(proxies), proxies # <<>>,
         NEW target \in ProfileTargets(v, proxies)
  PROVE  \/ \E t \in Tags(proxies) : target = [outboundTag |-> t]
         \/ \E b \in ToSet(Get(v, "balancers", <<>>)) : target = [balancerTag |-> b.tag]
<1> DEFINE balancers == ToSet(Get(v, "balancers", <<>>))
           tags == {b.tag : b \in balancers}
           rules == Get(v, "rules", <<>>)
           named == {i \in DOMAIN rules : RuleTarget(rules[i], tags, Tags(proxies)) # {}}
<1>1. target \in IF named # {} THEN RuleTarget(rules[Max(named)], tags, Tags(proxies))
                 ELSE IF tags # {} THEN {[balancerTag |-> t] : t \in tags}
                 ELSE {[outboundTag |-> proxies[1].tag]}
  BY DEF ProfileTargets
<1>2. proxies[1].tag \in Tags(proxies)
  BY ListIs DEF Tags, ToSet, IsList
<1>3. \A rule : \A x \in RuleTarget(rule, tags, Tags(proxies)) :
        \/ \E t \in Tags(proxies) : x = [outboundTag |-> t]
        \/ \E t \in tags : x = [balancerTag |-> t]
  BY DEF RuleTarget
<1> HIDE DEF rules, named, balancers
<1>4. (\E t \in Tags(proxies) : target = [outboundTag |-> t])
      \/ \E t \in tags : target = [balancerTag |-> t]
  <2> HIDE DEF tags
  <2>1. CASE named # {}
    BY <1>1, <1>3, <2>1
  <2>2. CASE named = {} /\ tags # {}
    BY <1>1, <2>2
  <2>3. CASE named = {} /\ tags = {}
    BY <1>1, <1>2, <2>3
  <2> QED
    BY <2>1, <2>2, <2>3
<1> QED
  BY <1>4 DEF balancers

LEMMA PlanIs ==
  ASSUME NEW s, IsLocation(s), validate_server(s), NEW plan \in outbound_plan(s)
  PROVE  IsPlan(plan, s)
<1>1. CASE s.profile # Unset /\ Composite(s.profile)
  <2> DEFINE v == s.profile
             proxies == provider_proxy_outbounds(v)
             balancers == Get(v, "balancers", <<>>)
  <2>1. /\ proxies # <<>>
        /\ \A b \in ToSet(balancers) : ~ \A x \in b.selector : x \cap Tags(proxies) = {}
        /\ \E target \in ProfileTargets(v, proxies) :
             plan = [proxies |-> proxies, target |-> target, balancers |-> balancers,
                     observatory |-> Get(v, "observatory", Unset)]
    BY <1>1 DEF outbound_plan, profile_plan
  <2>2. IsProfileValue(v)
    BY <1>1 DEF IsLocation
  <2>3. IsList(proxies) /\ \A x \in ToSet(proxies) : IsKept(v, x)
    BY <2>1, <2>2, ProviderIs
  <2> HIDE DEF proxies, balancers, v
  <2>4. PICK target \in ProfileTargets(v, proxies) :
           plan.proxies = proxies /\ plan.target = target /\ plan.balancers = balancers
    BY <2>1
  <2>5. \/ \E t \in Tags(proxies) : target = [outboundTag |-> t]
        \/ \E b \in ToSet(balancers) : target = [balancerTag |-> b.tag]
    BY <2>1, <2>2, <2>3, TargetIs DEF balancers
  <2>6. \A x \in ToSet(proxies) :
          /\ IsClean(x, Brought(s)) /\ Has(x, "tag") /\ x.tag \notin ReservedTags
          /\ IsPinned(x, server_endpoints(s))
    BY <1>1, <2>3, KeptIs DEF v
  <2> QED
    BY <2>1, <2>3, <2>4, <2>5, <2>6 DEF IsPlan
<1>2. CASE ~(s.profile # Unset /\ Composite(s.profile))
  <2>1. PICK ob \in build_proxy_outbound(s) :
          /\ plan.proxies = <<ob>> /\ plan.target = [outboundTag |-> "proxy"]
          /\ plan.balancers = <<>>
    BY <1>2 DEF outbound_plan
  <2>2. /\ IsClean(ob, Brought(s)) /\ Has(ob, "tag") /\ ob.tag = "proxy"
        /\ IsPinned(ob, server_endpoints(s))
    BY SinglePlanIs
  <2>3. IsList(<<ob>>) /\ ToSet(<<ob>>) = {ob} /\ ToSet(<<>>) = {}
    BY DEF IsList, ToSet
  <2>4. Tags(<<ob>>) = {"proxy"}
    BY <2>2, <2>3 DEF Tags
  <2> QED
    BY <2>1, <2>2, <2>3, <2>4 DEF IsPlan, ReservedTags
<1> QED
  BY <1>1, <1>2

\* Planned twice, a location differs in its target at most.
LEMMA PlansAgree ==
  ASSUME NEW s, NEW p \in outbound_plan(s), NEW q \in outbound_plan(s)
  PROVE  /\ p.proxies = q.proxies /\ p.balancers = q.balancers
         /\ p.observatory = q.observatory
         /\ ~Ambiguous(s) => p.target = q.target
<1>1. CASE s.profile # Unset /\ Composite(s.profile)
  BY <1>1 DEF outbound_plan, profile_plan, Ambiguous
<1>2. CASE ~(s.profile # Unset /\ Composite(s.profile))
  <2>1. \A x, y \in build_proxy_outbound(s) : x = y
    BY DEF build_proxy_outbound, sanitize_raw_outbound
  <2> QED
    BY <1>2, <2>1 DEF outbound_plan
<1> QED
  BY <1>1, <1>2

LEMMA PlanExists ==
  ASSUME NEW s, IsLocation(s), validate_server(s)
  PROVE  outbound_plan(s) # {}
<1>1. CASE s.profile # Unset /\ Composite(s.profile)
  BY <1>1 DEF validate_server, outbound_plan
<1>2. CASE s.profile # Unset /\ ~Composite(s.profile)
  <2>1. /\ IsProfileValue(s.profile) /\ s.outbound = ProxyOutbounds(s.profile)[1]
        /\ provider_proxy_outbounds(s.profile) # <<>>
    BY <1>2 DEF IsLocation, validate_server
  <2>2. s.outbound \in ToSet(ProxyOutbounds(s.profile))
    BY <2>1, ProxyOutboundsAre, ListIs DEF ToSet
  <2>3. PICK i \in ProxyPositions(s.profile.outbounds) : s.outbound = s.profile.outbounds[i]
    BY <2>1, <2>2, ProxyOutboundsAre
  <2>a. i \in ProviderPositions(s.profile.outbounds)
    BY <2>3, ProxyIs DEF ProxyPositions, ProviderPositions
  <2>4. sanitize_raw_outbound(s.outbound, TRUE) # {}
    BY <2>1, <2>3, <2>a, ProviderIs
  <2>5. sanitize_raw_outbound(s.outbound, FALSE) # {}
    BY <2>4, SanitizedEither
  <2>6. s.outbound # Unset
    BY <2>1, <2>3 DEF IsProfileValue, ProxyPositions, ToSet
  <2> QED
    BY <1>2, <2>5, <2>6 DEF outbound_plan, build_proxy_outbound
<1>3. CASE s.profile = Unset /\ s.outbound # Unset
  BY <1>3 DEF validate_server, outbound_plan, build_proxy_outbound
<1>4. CASE s.profile = Unset /\ s.outbound = Unset
  BY <1>4 DEF outbound_plan, build_proxy_outbound
<1> QED
  BY <1>1, <1>2, <1>3, <1>4

(***************************************************************************)
(* Import.                                                                 *)
(***************************************************************************)
LEMMA BaseIs ==
  ASSUME NEW protocol \in ProxyProtocols, NEW host, NEW port
  PROVE  IsPlain(Base(protocol, host, port))
BY DEF Base, IsPlain, LocationFields

LEMMA WireguardIs ==
  ASSUME NEW host, NEW port, NEW private_key, NEW public_key, NEW raw,
         NEW s \in Wireguard(host, port, private_key, public_key, raw)
  PROVE  IsPlain(s) /\ IsOfLink(s)
<1> DEFINE base == Base("wireguard", host, port)
<1>1. s = [base EXCEPT !.uuid = private_key, !.opt = [pbk |-> public_key],
                       !.transport = "wireguard", !.raw = raw]
  BY DEF Wireguard
<1>2. IsPlain(base)
  BY BaseIs DEF ProxyProtocols
<1>3. base.protocol = "wireguard"
  BY DEF Base
<1> HIDE DEF base
<1>4. s.protocol = "wireguard" /\ IsPlain(s)
  BY <1>1, <1>2, <1>3 DEF IsPlain, LocationFields
<1> QED
  BY <1>4 DEF IsOfLink

LEMMA LinkIs ==
  ASSUME NEW l, NEW s \in parse_proxy_uri(l)
  PROVE  IsPlain(s) /\ IsOfLink(s)
<1> DEFINE parsed == {parse_vless(l), parse_trojan(l), parse_shadowsocks(l),
                      parse_vmess(l), parse_hysteria2(l), parse_wireguard_uri(l),
                      parse_socks_uri(l), parse_simple_proxy_uri(l, "http")}
<1>1. \E P \in parsed : s \in P
  BY DEF parse_proxy_uri
<1>2. \A protocol \in ProxyProtocols : IsPlain(At(protocol, l))
  BY BaseIs DEF At
<1>3. {"vless", "trojan", "shadowsocks", "vmess", "hysteria", "wireguard", "socks", "http"}
        \subseteq ProxyProtocols
  BY DEF ProxyProtocols
<1>a. \A protocol \in ProxyProtocols :
        At(protocol, l).protocol = protocol /\ At(protocol, l).transport = "tcp"
  BY DEF At, Base
<1>4. CASE s \in parse_vless(l)
  <2> DEFINE base == At("vless", l)
             options == Restrict(l.query, DOMAIN l.query
                                            \cap (LinkOptions \cup {"packetEncoding"}))
             transport == Get(l.query, "type", "tcp")
             security == Get(l.query, "security", "none")
  <2>1. s = [base EXCEPT !.uuid = l.user, !.transport = transport, !.security = security,
                         !.opt = options, !.raw = l.query]
    BY <1>4 DEF parse_vless
  <2>2. IsPlain(base) /\ base.protocol = "vless" /\ base.transport = "tcp"
    BY <1>2, <1>3, <1>a
  <2> HIDE DEF base, options, transport, security
  <2>3. IsPlain(s) /\ s.protocol = "vless"
    BY <2>1, <2>2 DEF IsPlain, LocationFields
  <2> QED
    BY <2>3 DEF IsOfLink
<1>5. CASE s \in parse_trojan(l)
  <2> DEFINE base == At("trojan", l)
             kept == Restrict(l.query, DOMAIN l.query \cap LinkOptions)
             options == Secret(l.user) ++ kept
             transport == Get(l.query, "type", "tcp")
             security == Get(l.query, "security", "tls")
  <2>1. s = [base EXCEPT !.uuid = l.user, !.transport = transport, !.security = security,
                         !.opt = options, !.raw = l.query]
    BY <1>5 DEF parse_trojan
  <2>2. IsPlain(base) /\ base.protocol = "trojan" /\ base.transport = "tcp"
    BY <1>2, <1>3, <1>a
  <2>3. ~Has(kept, "password")
    BY DEF Restrict, Has, LinkOptions
  <2> HIDE DEF kept
  <2>4. Get(options, "password", l.user) = l.user
    <3>1. CASE l.user = Unset
      <4>1. ~Has(options, "password")
        BY <2>3, <3>1 DEF Secret, None, Has, ++
      <4> QED
        BY <4>1 DEF Get
    <3>2. CASE l.user # Unset
      <4>1. Has(options, "password") /\ options["password"] = l.user
        BY <3>2 DEF Secret, Has, ++
      <4> QED
        BY <4>1 DEF Get
    <3> QED
      BY <3>1, <3>2
  <2> HIDE DEF base, options, transport, security
  <2>5. IsPlain(s) /\ s.protocol = "trojan" /\ s.uuid = l.user /\ s.opt = options
    BY <2>1, <2>2 DEF IsPlain, LocationFields
  <2> QED
    BY <2>4, <2>5 DEF IsOfLink
<1>6. CASE s \in parse_shadowsocks(l)
  <2> DEFINE base == At("shadowsocks", l)
             creds == userinfo(l, TRUE)
             options == [method |-> creds.user, password |-> creds.pass]
  <2>1. s = [base EXCEPT !.opt = options]
    BY <1>6 DEF parse_shadowsocks
  <2>2. IsPlain(base) /\ base.protocol = "shadowsocks" /\ base.transport = "tcp"
    BY <1>2, <1>3, <1>a
  <2> HIDE DEF base, options
  <2>3. IsPlain(s) /\ s.protocol = "shadowsocks" /\ s.transport = "tcp"
    BY <2>1, <2>2 DEF IsPlain, LocationFields
  <2> QED
    BY <2>3 DEF IsOfLink
<1>7. CASE s \in parse_vmess(l)
  <2> DEFINE base == At("vmess", l)
             fields == VmessOptions(l)
             options == fields.opt
             parameters == fields.raw
             transport == Get(l.query, "net", "tcp")
             tls == Get(l.query, "tls", "none")
             security == IF tls \in {"tls", "reality"} THEN tls ELSE "none"
  <2>1. s = [base EXCEPT !.uuid = l.user, !.transport = transport, !.security = security,
                         !.opt = options, !.raw = parameters]
    BY <1>7 DEF parse_vmess
  <2>2. IsPlain(base) /\ base.protocol = "vmess" /\ base.transport = "tcp"
    BY <1>2, <1>3, <1>a
  <2> HIDE DEF base, options, parameters, transport, security
  <2>3. IsPlain(s) /\ s.protocol = "vmess"
    BY <2>1, <2>2 DEF IsPlain, LocationFields
  <2> QED
    BY <2>3 DEF IsOfLink
<1>8. CASE s \in parse_hysteria2(l)
  <2> DEFINE base == At("hysteria", l)
             auth == IF l.user = "" THEN Get(l.query, "auth", "")
                     ELSE IF l.pass # Unset THEN "user:pass" ELSE l.user
             options == Secret(auth) ++ Named(l.query, [sni |-> <<"sni", "peer">>,
                                                           fp  |-> <<"fp", "fingerprint">>])
             port == IF l.port = Unset THEN 443 ELSE l.port
  <2>1. s = [base EXCEPT !.port = port, !.uuid = auth, !.transport = "hysteria",
                         !.security = "tls", !.opt = options, !.raw = l.query]
    BY <1>8 DEF parse_hysteria2
  <2>2. IsPlain(base) /\ base.protocol = "hysteria" /\ base.transport = "tcp"
    BY <1>2, <1>3, <1>a
  <2> HIDE DEF base, auth, options, port
  <2>3. IsPlain(s) /\ s.protocol = "hysteria"
    BY <2>1, <2>2 DEF IsPlain, LocationFields
  <2> QED
    BY <2>3 DEF IsOfLink
<1>9. CASE s \in parse_wireguard_uri(l)
  BY <1>9, WireguardIs DEF parse_wireguard_uri
<1>10. \A protocol \in {"socks", "http"} : \A x \in parse_simple_proxy_uri(l, protocol) :
         IsPlain(x) /\ IsOfLink(x)
  <2> SUFFICES ASSUME NEW protocol \in {"socks", "http"},
                      NEW x \in parse_simple_proxy_uri(l, protocol)
               PROVE  IsPlain(x) /\ IsOfLink(x)
    OBVIOUS
  <2>1. /\ IsPlain(At(protocol, l)) /\ At(protocol, l).protocol = protocol
        /\ At(protocol, l).transport = "tcp"
    BY <1>2, <1>3, <1>a
  <2> DEFINE creds == userinfo(l, protocol = "socks")
             options == Secret(creds.pass)
                        ++ Named(l.query, [sni |-> <<"sni", "serverName">>,
                                              fp  |-> <<"fp", "fingerprint">>])
             security == IF l.scheme = "https" THEN "tls" ELSE "none"
  <2>2. x = [At(protocol, l) EXCEPT !.uuid = creds.user, !.security = security,
                                       !.opt = options, !.raw = l.query]
    BY DEF parse_simple_proxy_uri
  <2> HIDE DEF creds, options, security
  <2>3. IsPlain(x) /\ x.protocol = protocol /\ x.transport = "tcp"
    BY <2>1, <2>2 DEF IsPlain, LocationFields
  <2> QED
    BY <2>3 DEF IsOfLink
<1>11. CASE s \in parse_socks_uri(l)
  <2>1. CASE l.coded
    <3> DEFINE base == At("socks", l)
               options == [password |-> l.pass]
    <3>1. s = [base EXCEPT !.uuid = l.user, !.opt = options]
      BY <1>11, <2>1 DEF parse_socks_uri
    <3>2. IsPlain(base) /\ base.protocol = "socks" /\ base.transport = "tcp"
      BY <1>2, <1>3, <1>a
    <3> HIDE DEF base, options
    <3>3. IsPlain(s) /\ s.protocol = "socks" /\ s.transport = "tcp"
      BY <3>1, <3>2 DEF IsPlain, LocationFields
    <3> QED
      BY <3>3 DEF IsOfLink
  <2>2. CASE ~l.coded
    BY <1>10, <1>11, <2>2 DEF parse_socks_uri
  <2> QED
    BY <2>1, <2>2
<1>12. CASE s \in parse_simple_proxy_uri(l, "http")
  BY <1>10, <1>12
<1> QED
  BY <1>1, <1>4, <1>5, <1>6, <1>7, <1>8, <1>9, <1>11, <1>12

LEMMA PlainIsLocation ==
  ASSUME NEW s, IsPlain(s), IsOfLink(s)
  PROVE  IsLocation(s)
BY DEF IsPlain, IsLocation

LEMMA FileIs ==
  ASSUME NEW file, NEW s \in parse_wireguard_config(file)
  PROVE  IsPlain(s) /\ IsOfLink(s)
<1> DEFINE interface == Interface(file)
           raw(peer) ==
             Named(interface, [localAddress |-> <<"address">>, mtu |-> <<"mtu">>])
             ++ Named(peer, [preSharedKey |-> <<"presharedkey">>, reserved |-> <<"reserved">>,
                             allowedIPs |-> <<"allowedips">>,
                             keepAlive |-> <<"persistentkeepalive">>])
           location(peer) ==
             IF ~Has(peer, "endpoint") THEN {}
             ELSE Wireguard(peer.endpoint.host, peer.endpoint.port,
                            Get(interface, "privatekey", ""), Get(peer, "publickey", ""),
                            raw(peer))
<1>1. PICK x \in ToSet(file) : s \in location(x.keys)
  <2>1. parse_wireguard_config(file) =
          UNION {location(x.keys) : x \in {x \in ToSet(file) : x.section = "Peer"}}
    BY DEF parse_wireguard_config
  <2> HIDE DEF location
  <2> QED
    BY <2>1
<1> HIDE DEF interface, raw
<1> QED
  BY <1>1, WireguardIs

LEMMA PlaceIs ==
  ASSUME NEW place,
         place.value # Unset,
         place.value.type = "object" =>
           LET outbounds == Get(place.value, "outbounds", <<>>)
           IN  /\ IsList(outbounds) /\ Unset \notin ToSet(outbounds)
               /\ IsList(Get(place.value, "rules", <<>>)),
         NEW s \in Locations(place)
  PROVE  IsLocation(s)
<1> DEFINE v == place.value
<1>1. CASE v.type = "text"
  BY <1>1, LinkIs, PlainIsLocation DEF Locations
<1>2. CASE v.type # "text" /\ IsProfile(v)
  <2>1. s \in Profile(v, OwnSource(place))
    BY <1>2 DEF Locations
  <2>2. PICK x, i : /\ x \in parse_outbound(ProxyOutbounds(v)[i])
                    /\ s = [x EXCEPT !.source = OwnSource(place),
                                     !.outbound = ProxyOutbounds(v)[1], !.profile = v]
    BY <2>1 DEF Profile
  <2>3. IsPlain(x)
    BY <2>2, ParsedIs
  <2>4. ProxyPositions(Get(v, "outbounds", <<>>)) # {} /\ v.type = "object"
    BY <1>2 DEF IsProfile
  <2>5. Has(v, "outbounds")
    BY <2>4 DEF ProxyPositions, Get
  <2>6. IsProfileValue(v)
    BY <2>4, <2>5 DEF IsProfileValue, Get
  <2>7. /\ s.protocol = x.protocol /\ s.profile = v /\ s.outbound = ProxyOutbounds(v)[1]
    BY <2>2, <2>3 DEF IsPlain, LocationFields
  <2>8. s.outbound # Unset
    <3>1. s.outbound \in ToSet(ProxyOutbounds(v))
      BY <2>6, <2>7, ProxyOutboundsAre, ListIs DEF ToSet
    <3> QED
      BY <2>6, <3>1, ProxyOutboundsAre DEF IsProfileValue, ProxyPositions, ToSet
  <2> QED
    BY <2>3, <2>6, <2>7, <2>8 DEF IsLocation, IsPlain
<1>3. CASE v.type # "text" /\ ~IsProfile(v)
  <2>1. s \in Single(v, OwnSource(place))
    BY <1>3 DEF Locations
  <2>2. PICK x \in parse_outbound(v) : s = [x EXCEPT !.source = OwnSource(place), !.outbound = v]
    BY <2>1 DEF Single
  <2>3. IsPlain(x)
    BY <2>2, ParsedIs
  <2>4. s.protocol = x.protocol /\ s.profile = Unset /\ s.outbound # Unset
    BY <2>2, <2>3 DEF IsPlain, LocationFields
  <2> QED
    BY <2>3, <2>4 DEF IsLocation, IsPlain
<1> QED
  BY <1>1, <1>2, <1>3

LEMMA EntryIs ==
  ASSUME NEW body \in Bodies, NEW entry \in Entries(body)
  PROVE  /\ IsLocation(entry.server)
         /\ entry.link # Unset => entry.server \in parse_proxy_uri(entry.link)
<1>1. CASE body.kind = "json"
  <2>1. PICK s \in parse_json_subscription(body.content) : entry = [link |-> Unset, server |-> s]
    BY <1>1 DEF Entries
  <2>2. PICK place \in Places(body.content) : s \in Locations(place)
    BY DEF parse_json_subscription
  <2>3. IsLocation(s)
    BY <1>1, <2>2, PlaceIs, DocumentsAssumption DEF DocumentsAssumption
  <2> QED
    BY <2>1, <2>3
<1>2. CASE body.kind = "wireguard"
  BY <1>2, FileIs, PlainIsLocation DEF Entries
<1>3. CASE body.kind \notin {"json", "wireguard"}
  BY <1>3, LinkIs, PlainIsLocation DEF Entries
<1> QED
  BY <1>1, <1>2, <1>3

(***************************************************************************)
(* The two configurations.                                                 *)
(***************************************************************************)
LEMMA OneItem ==
  ASSUME NEW x
  PROVE  /\ DOMAIN <<x>> = {1} /\ <<x>>[1] = x
         /\ ToSet(<<x>>) = {x} /\ IsList(<<x>>)
<1>1. DOMAIN <<x>> = 1 .. 1 /\ <<x>>[1] = x
  OBVIOUS
<1>2. 1 .. 1 = {1}
  OBVIOUS
<1>3. DOMAIN <<x>> = {1}
  BY <1>1, <1>2, Zenon
<1>4. ToSet(<<x>>) = {x}
  BY <1>1, <1>3 DEF ToSet
<1>5. IsList(<<x>>)
  BY <1>4 DEF IsList
<1> QED
  BY <1>1, <1>3, <1>4, <1>5

LEMMA JoinedParts ==
  ASSUME NEW a, NEW b, IsList(a), IsList(b)
  PROVE  /\ DOMAIN (a \o b) = 1 .. (Len(a) + Len(b))
         /\ \A i \in 1 .. Len(a) : (a \o b)[i] = a[i]
         /\ \A i \in 1 .. Len(b) : (a \o b)[Len(a) + i] = b[i]
<1>1. a \in Seq(ToSet(a) \cup ToSet(b)) /\ b \in Seq(ToSet(a) \cup ToSet(b))
  BY DEF IsList
<1> QED
  BY <1>1

LEMMA JoinedIs ==
  ASSUME NEW a, NEW b, IsList(a), IsList(b)
  PROVE  IsList(a \o b) /\ ToSet(a \o b) = ToSet(a) \cup ToSet(b)
<1> DEFINE S == ToSet(a) \cup ToSet(b)
<1>1. a \in Seq(S) /\ b \in Seq(S)
  BY DEF IsList
<1>2. /\ Len(a) \in Nat /\ Len(b) \in Nat
      /\ \A i \in 1 .. Len(a) : (a \o b)[i] = a[i]
      /\ \A i \in 1 .. Len(b) : (a \o b)[Len(a) + i] = b[i]
      /\ DOMAIN (a \o b) = 1 .. (Len(a) + Len(b))
      /\ DOMAIN a = 1 .. Len(a) /\ DOMAIN b = 1 .. Len(b)
  BY JoinedParts, ListIs
<1>3. ToSet(a \o b) \subseteq S
  BY <1>1 DEF ToSet
<1>4. S \subseteq ToSet(a \o b)
  <2>1. ASSUME NEW i \in 1 .. Len(a) PROVE a[i] \in ToSet(a \o b)
    BY <1>2 DEF ToSet
  <2>2. ASSUME NEW i \in 1 .. Len(b) PROVE b[i] \in ToSet(a \o b)
    <3>1. Len(a) + i \in 1 .. (Len(a) + Len(b))
      BY <1>2
    <3> QED
      BY <1>2, <3>1 DEF ToSet
  <2>3. ToSet(a) \subseteq ToSet(a \o b) /\ ToSet(b) \subseteq ToSet(a \o b)
    BY <1>2, <2>1, <2>2 DEF ToSet
  <2> QED
    BY <2>3
<1>5. a \o b \in Seq(S)
  BY <1>1
<1> QED
  BY <1>3, <1>4, <1>5 DEF IsList

NativeExtra ==
  << [tag |-> "direct", protocol |-> "freedom"], [tag |-> "dns-out", protocol |-> "dns"],
     [tag |-> "block", protocol |-> "blackhole"] >>

ProbeExtra == << [tag |-> "direct", protocol |-> "freedom"] >>

LEMMA ExtraIs ==
  ASSUME NEW plan
  PROVE  /\ DOMAIN Extra(plan) = IF plan.observatory = Unset THEN {} ELSE {"observatory"}
         /\ plan.observatory # Unset => Extra(plan).observatory = plan.observatory
BY DEF Extra

LEMMA NativeIs ==
  ASSUME NEW plan, NEW split, NEW allow_lan, NEW c, c = build_xray_config(plan, split, allow_lan)
  PROVE  /\ DOMAIN c \subseteq TopLevelFields
         /\ c.log = {"loglevel"} /\ c.inbounds = build_inbounds
         /\ c.outbounds = plan.proxies \o NativeExtra
         /\ c.rules = build_route_rules(split, allow_lan, plan.target)
         /\ c.balancers = plan.balancers
         /\ Has(c, "observatory") <=> plan.observatory # Unset
         /\ Has(c, "observatory") => c.observatory = plan.observatory
         /\ {"inbounds", "outbounds"} \subseteq DOMAIN c
<1>1. /\ DOMAIN Extra(plan) = IF plan.observatory = Unset THEN {} ELSE {"observatory"}
      /\ plan.observatory # Unset => Extra(plan).observatory = plan.observatory
  BY ExtraIs
<1> QED
  BY <1>1 DEF build_xray_config, TopLevelFields, NativeExtra, Has, ++

LEMMA ProbeIs ==
  ASSUME NEW plan, NEW c, c = build_connection_probe_config(plan)
  PROVE  /\ DOMAIN c \subseteq TopLevelFields
         /\ c.log = {"loglevel"}
         /\ c.inbounds = << [tag |-> "socks-in-0", protocol |-> "socks",
                             listen |-> "127.0.0.1", port |-> ConnectionProbePort] >>
         /\ c.outbounds = plan.proxies \o ProbeExtra
         /\ c.rules = << [inboundTag |-> "socks-in-0", network |-> "tcp,udp"] ++ plan.target >>
         /\ c.balancers = plan.balancers
         /\ Has(c, "observatory") <=> plan.observatory # Unset
         /\ Has(c, "observatory") => c.observatory = plan.observatory
<1>1. /\ DOMAIN Extra(plan) = IF plan.observatory = Unset THEN {} ELSE {"observatory"}
      /\ plan.observatory # Unset => Extra(plan).observatory = plan.observatory
  BY ExtraIs
<1> QED
  BY <1>1 DEF build_connection_probe_config, TopLevelFields, ProbeExtra, Has, ++

\* The client's own outbounds are clean, too, and lead to no server.
LEMMA OwnOutboundsAre ==
  /\ IsList(NativeExtra) /\ IsList(ProbeExtra)
  /\ ToSet(NativeExtra) = {[tag |-> "direct", protocol |-> "freedom"],
                           [tag |-> "dns-out", protocol |-> "dns"],
                           [tag |-> "block", protocol |-> "blackhole"]}
  /\ ToSet(ProbeExtra) = {[tag |-> "direct", protocol |-> "freedom"]}
BY DEF IsList, ToSet, NativeExtra, ProbeExtra

\* An outbound that may be run, with no more inside than "more" of what is
\* forbidden.
IsFit(ob, more) ==
  /\ Has(ob, "protocol")
  /\ Inside(ob) \cap Forbidden \subseteq more
  /\ ~Has(ob, "sendThrough")
  /\ ~Has(Get(Get(ob, "streamSettings", None), "sockopt", None), "mark")
  /\ Get(Get(Get(ob, "streamSettings", None), "tlsSettings", None), "allowInsecure", FALSE)
       # TRUE

LEMMA OwnIsFit ==
  ASSUME NEW tag, NEW protocol, protocol \notin ProxyProtocols, NEW endpoints, NEW more
  PROVE  /\ IsFit([tag |-> tag, protocol |-> protocol], more)
         /\ IsPinned([tag |-> tag, protocol |-> protocol], endpoints)
<1> DEFINE ob == [tag |-> tag, protocol |-> protocol]
<1>1. DOMAIN ob = {"tag", "protocol"} /\ ob.protocol = protocol
  OBVIOUS
<1> HIDE DEF ob
<1>2. /\ Has(ob, "protocol") /\ ~Has(ob, "sendThrough")
      /\ Get(ob, "streamSettings", None) = None /\ Get(ob, "inside", {}) = {}
  BY <1>1 DEF Has, Get
<1>3. \A k, d : Get(None, k, d) = d /\ ~Has(None, k)
  BY DEF Get, Has, None
<1>4. Inside(ob) = {}
  BY <1>2, <1>3 DEF Inside
<1>5. IsFit(ob, more)
  BY <1>2, <1>3, <1>4 DEF IsFit
<1>6. ~is_proxy_protocol(ob)
  BY <1>1, <1>2 DEF is_proxy_protocol, Get
<1> QED
  BY <1>5, <1>6 DEF IsPinned, IsShowable, ob

LEMMA OutboundsAre ==
  ASSUME NEW plan, NEW s, IsPlan(plan, s), NEW extra \in {NativeExtra, ProbeExtra}
  PROVE  /\ IsList(plan.proxies \o extra)
         /\ ToSet(plan.proxies \o extra) = ToSet(plan.proxies) \cup ToSet(extra)
         /\ \A ob \in ToSet(plan.proxies \o extra) :
              IsFit(ob, Brought(s)) /\ IsPinned(ob, server_endpoints(s))
<1>1. /\ IsList(plan.proxies) /\ IsList(extra)
  BY OwnOutboundsAre DEF IsPlan
<1>2. \A ob \in ToSet(plan.proxies) : IsFit(ob, Brought(s)) /\ IsPinned(ob, server_endpoints(s))
  BY ProxyIs DEF IsPlan, IsClean, IsFit
<1>3. {"freedom", "dns", "blackhole"} \cap ProxyProtocols = {}
  BY DEF ProxyProtocols
<1>4. \A ob \in ToSet(extra) : IsFit(ob, Brought(s)) /\ IsPinned(ob, server_endpoints(s))
  BY <1>3, OwnIsFit, OwnOutboundsAre
<1> QED
  BY <1>1, <1>2, <1>4, JoinedIs

(***************************************************************************)
(* Routing.                                                                *)
(***************************************************************************)
IsTarget(t) == (\E x : t = [outboundTag |-> x]) \/ \E x : t = [balancerTag |-> x]

Hits(rules, flow) == \E rule \in ToSet(rules) : Matches(rule, flow)

LEMMA RuleTargetIs ==
  ASSUME NEW c, NEW t, IsTarget(t), "outboundTag" \notin DOMAIN c, "balancerTag" \notin DOMAIN c
  PROVE  TargetOf(c ++ t) = t
<1>1. CASE \E x : t = [outboundTag |-> x]
  BY <1>1 DEF TargetOf, ++
<1>2. CASE \E x : t = [balancerTag |-> x]
  BY <1>2 DEF TargetOf, ++
<1> QED
  BY <1>1, <1>2 DEF IsTarget

\* A target is no condition.
LEMMA RuleMatches ==
  ASSUME NEW c, NEW t, IsTarget(t), NEW flow
  PROVE  Matches(c ++ t, flow) <=> Matches(c, flow)
<1>1. \A k \in {"inboundTag", "port", "ip", "process", "domain"} :
        /\ k \in DOMAIN (c ++ t) <=> k \in DOMAIN c
        /\ k \in DOMAIN c => (c ++ t)[k] = c[k]
  <2>1. DOMAIN t \subseteq {"outboundTag", "balancerTag"}
    BY DEF IsTarget
  <2> QED
    BY <2>1 DEF ++
<1> DEFINE r == c ++ t
<1> HIDE DEF r
<1>2. \A k \in {"inboundTag", "port", "ip", "process", "domain"} :
        (k \in DOMAIN r <=> k \in DOMAIN c) /\ (k \in DOMAIN c => r[k] = c[k])
  BY <1>1 DEF r
<1>3. Matches(r, flow) <=> Matches(c, flow)
  BY <1>2 DEF Matches
<1> QED
  BY <1>3 DEF r

LEMMA SameTarget ==
  ASSUME NEW rules, IsList(rules), NEW flow, Hits(rules, flow), NEW t,
         \A rule \in ToSet(rules) : TargetOf(rule) = t
  PROVE  RouteOf(rules, flow) = t
<1> DEFINE T == {i \in DOMAIN rules : Matches(rules[i], flow)}
<1>1. T \in SUBSET Nat /\ T # {}
  BY ListIs DEF Hits, ToSet
<1>2. Min(T) \in T
  BY <1>1, MinIs
<1>3. rules[Min(T)] \in ToSet(rules)
  BY <1>2 DEF ToSet
<1> QED
  BY <1>3 DEF RouteOf

\* The first rule that applies stands in the first list that has one.
LEMMA RouteSplits ==
  ASSUME NEW a, NEW b, IsList(a), IsList(b), NEW flow, Hits(a, flow) \/ Hits(b, flow)
  PROVE  /\ Hits(a \o b, flow)
         /\ RouteOf(a \o b, flow) = IF Hits(a, flow) THEN RouteOf(a, flow) ELSE RouteOf(b, flow)
<1> DEFINE A == {i \in DOMAIN a : Matches(a[i], flow)}
           B == {i \in DOMAIN b : Matches(b[i], flow)}
           c == a \o b
           C == {i \in DOMAIN c : Matches(c[i], flow)}
<1>1. /\ Len(a) \in Nat /\ DOMAIN a = 1 .. Len(a)
      /\ Len(b) \in Nat /\ DOMAIN b = 1 .. Len(b)
  BY ListIs
<1>2. /\ DOMAIN c = 1 .. (Len(a) + Len(b))
      /\ \A i \in 1 .. Len(a) : c[i] = a[i]
      /\ \A i \in 1 .. Len(b) : c[Len(a) + i] = b[i]
  BY JoinedParts
<1>3. ToSet(c) = ToSet(a) \cup ToSet(b)
  BY JoinedIs
<1>4. Hits(c, flow)
  BY <1>3 DEF Hits
<1> HIDE DEF c
<1>5. C \in SUBSET Nat /\ C # {}
  BY <1>1, <1>2, <1>4 DEF Hits, ToSet
<1>6. Min(C) \in C /\ \A y \in C : Min(C) <= y
  BY <1>5, MinIs
<1>7. CASE Hits(a, flow)
  <2>1. A \in SUBSET Nat /\ A # {}
    BY <1>1, <1>7 DEF Hits, ToSet
  <2>2. Min(A) \in A /\ \A y \in A : Min(A) <= y
    BY <2>1, MinIs
  <2>3. Min(A) \in C
    BY <1>1, <1>2, <2>2
  <2> DEFINE x == Min(A)  y == Min(C)
  <2>0. x \in 1 .. Len(a) /\ y \in 1 .. (Len(a) + Len(b)) /\ y <= x
    BY <1>1, <1>2, <1>6, <2>2, <2>3
  <2>b. Matches(c[y], flow) /\ \A z \in A : x <= z
    BY <1>6, <2>2
  <2> HIDE DEF x, y, A, C
  <2>c. y \in 1 .. Len(a)
    BY <1>1, <2>0
  <2>4. y \in A
    BY <1>1, <1>2, <2>b, <2>c DEF A
  <2>5. y = x
    BY <1>1, <2>0, <2>b, <2>4
  <2>6. c[Min(C)] = a[Min(A)]
    BY <1>2, <2>0, <2>5 DEF x, y
  <2> QED
    BY <1>4, <1>7, <2>6 DEF RouteOf, c, A, C
<1>8. CASE ~Hits(a, flow)
  <2>1. A = {}
    BY <1>8 DEF Hits, ToSet
  <2>2. B \in SUBSET Nat /\ B # {}
    BY <1>1, <1>8 DEF Hits, ToSet
  <2>3. Min(B) \in B /\ \A y \in B : Min(B) <= y
    BY <2>2, MinIs
  <2>4. Len(a) + Min(B) \in C
    BY <1>1, <1>2, <2>3
  <2>5. PICK m \in B : Min(C) = Len(a) + m
    <3>1. Min(C) \in 1 .. (Len(a) + Len(b)) /\ Matches(c[Min(C)], flow)
      BY <1>2, <1>6
    <3>2. Min(C) \notin 1 .. Len(a)
      BY <1>1, <1>2, <2>1, <3>1
    <3>3. Min(C) - Len(a) \in 1 .. Len(b) /\ Min(C) = Len(a) + (Min(C) - Len(a))
      BY <1>1, <3>1, <3>2
    <3>4. Min(C) - Len(a) \in B
      BY <1>1, <1>2, <3>1, <3>3
    <3> QED
      BY <3>3, <3>4
  <2> DEFINE x == Min(B)  y == Min(C)
  <2>0. m \in Nat /\ x \in Nat /\ Len(a) \in Nat
    BY <1>1, <2>3
  <2>b. y = Len(a) + m /\ y <= Len(a) + x /\ x <= m
    BY <1>6, <2>3, <2>4, <2>5
  <2> HIDE DEF x, y, A, B, C
  <2>c. m = x
    BY <2>0, <2>b
  <2>6. m = Min(B)
    BY <2>c DEF x
  <2>7. c[Min(C)] = b[Min(B)]
    BY <1>2, <2>3, <2>5, <2>6 DEF B
  <2> QED
    BY <1>4, <1>8, <2>7 DEF RouteOf, c, B, C
<1> QED
  BY <1>7, <1>8

\* A part of a list of rules: the flows it decides, and where it leads them.
Decides(rules, flow, when, t) ==
  /\ IsList(rules)
  /\ Hits(rules, flow) <=> when
  /\ when => RouteOf(rules, flow) = t

LEMMA PartDecides ==
  ASSUME NEW rules, IsList(rules), NEW flow, NEW when \in BOOLEAN, NEW t,
         Hits(rules, flow) <=> when, \A rule \in ToSet(rules) : TargetOf(rule) = t
  PROVE  Decides(rules, flow, when, t)
BY SameTarget DEF Decides

LEMMA PartsDecide ==
  ASSUME NEW a, NEW b, NEW flow, NEW c \in BOOLEAN, NEW d \in BOOLEAN, NEW t, NEW u,
         Decides(a, flow, c, t), Decides(b, flow, d, u)
  PROVE  Decides(a \o b, flow, c \/ d, IF c THEN t ELSE u)
<1>1. IsList(a \o b) /\ ToSet(a \o b) = ToSet(a) \cup ToSet(b)
  BY JoinedIs DEF Decides
<1>2. Hits(a \o b, flow) <=> c \/ d
  BY <1>1 DEF Hits, Decides
<1>3. c \/ d => RouteOf(a \o b, flow) = IF c THEN t ELSE u
  BY RouteSplits DEF Decides
<1> QED
  BY <1>1, <1>2, <1>3 DEF Decides

DnsRules == << [inboundTag |-> "tun-in", port |-> 53, outboundTag |-> "dns-out"] >>
LanRules(allow_lan) == IF allow_lan THEN << [ip |-> "private"] ++ ToDirect >> ELSE <<>>
AppRules(split, t) ==
  [i \in DOMAIN enabled_apps(split) |-> [process |-> enabled_apps(split)[i]] ++ t]
SiteRules(split, t) ==
  IF split.sites = <<>> THEN <<>> ELSE << [domain |-> ToSet(split.sites)] ++ t >>
ResolverRules(t) == << [ip |-> "resolver"] ++ t >>
LastRules(t) == << [network |-> "tcp,udp"] ++ t >>

Listed(selective, target) == IF selective THEN target ELSE ToDirect
Unlisted(selective, target) == IF selective THEN ToDirect ELSE target

LEMMA RulesAre ==
  ASSUME NEW split, NEW allow_lan, NEW target
  PROVE  build_route_rules(split, allow_lan, target) =
           DnsRules \o LanRules(allow_lan)
           \o AppRules(split, Listed(apps_selective(split), target))
           \o SiteRules(split, Listed(sites_selective(split), target))
           \o ResolverRules(target) \o LastRules(Unlisted(apps_selective(split), target))
BY DEF build_route_rules, DnsRules, LanRules, AppRules, SiteRules, ResolverRules, LastRules,
       Listed, Unlisted

LEMMA OneRule ==
  ASSUME NEW c, NEW t, IsTarget(t), "outboundTag" \notin DOMAIN c, "balancerTag" \notin DOMAIN c,
         NEW flow, NEW when \in BOOLEAN, Matches(c, flow) <=> when
  PROVE  Decides(<< c ++ t >>, flow, when, t)
<1> DEFINE r == c ++ t
<1>1. TargetOf(r) = t /\ (Matches(r, flow) <=> when)
  BY RuleTargetIs, RuleMatches
<1> HIDE DEF r
<1>2. ToSet(<<r>>) = {r} /\ IsList(<<r>>)
  BY OneItem
<1>3. Hits(<<r>>, flow) <=> when
  BY <1>1, <1>2 DEF Hits
<1>4. Decides(<<r>>, flow, when, t)
  BY <1>1, <1>2, <1>3, PartDecides
<1> QED
  BY <1>4 DEF r

LEMMA NoRule ==
  ASSUME NEW flow, NEW t
  PROVE  Decides(<<>>, flow, FALSE, t)
BY DEF Decides, Hits, ToSet, IsList

LEMMA AppsAre ==
  ASSUME NEW chosen, IsSelection(chosen)
  PROVE  /\ Len(enabled_apps(chosen.split)) \in Nat
         /\ DOMAIN enabled_apps(chosen.split) = 1 .. Len(enabled_apps(chosen.split))
         /\ ToSet(enabled_apps(chosen.split)) = ToSet(chosen.split.apps) \ {""}
<1> DEFINE apps == chosen.split.apps
           I == {i \in DOMAIN apps : apps[i] # ""}
           kept == Picked(apps, I)
<1>1. IsList(apps)
  BY DEF IsSelection
<1>2. kept \in Seq({apps[i] : i \in I}) /\ ToSet(kept) = {apps[i] : i \in I}
  <2>1. I \in SUBSET DOMAIN apps
    OBVIOUS
  <2> HIDE DEF apps, I
  <2> QED
    BY <1>1, <2>1, PickedIs
<1>3. enabled_apps(chosen.split) = kept
  BY DEF enabled_apps
<1>4. Len(kept) \in Nat /\ DOMAIN kept = 1 .. Len(kept)
  <2> HIDE DEF kept, I
  <2> QED
    BY <1>2
<1>5. {apps[i] : i \in I} = ToSet(apps) \ {""}
  BY DEF ToSet
<1> QED
  BY <1>2, <1>3, <1>4, <1>5

LEMMA AppRulesDecide ==
  ASSUME NEW chosen, IsSelection(chosen), NEW t, IsTarget(t), NEW flow
  PROVE  Decides(AppRules(chosen.split, t), flow,
                 flow.process \in ToSet(chosen.split.apps) \ {""}, t)
<1> DEFINE apps == enabled_apps(chosen.split)
           rules == AppRules(chosen.split, t)
           rule(p) == [process |-> p] ++ t
<1>1. Len(apps) \in Nat /\ DOMAIN apps = 1 .. Len(apps)
      /\ ToSet(apps) = ToSet(chosen.split.apps) \ {""}
  BY AppsAre
<1>2. \A p : TargetOf(rule(p)) = t /\ (Matches(rule(p), flow) <=> flow.process = p)
  <2> SUFFICES ASSUME NEW p
               PROVE  TargetOf(rule(p)) = t /\ (Matches(rule(p), flow) <=> flow.process = p)
    OBVIOUS
  <2>1. Matches([process |-> p], flow) <=> flow.process = p
    BY DEF Matches
  <2> QED
    BY <2>1, RuleTargetIs, RuleMatches
<1>3. rules = [i \in 1 .. Len(apps) |-> rule(apps[i])]
  BY <1>1 DEF AppRules
<1> HIDE DEF apps, rules, rule
<1>4. DOMAIN rules = 1 .. Len(apps) /\ rules = [i \in 1 .. Len(apps) |-> rules[i]]
  BY <1>3
<1>5. IsList(rules)
  BY <1>1, <1>4, ListWhen
<1>6. ToSet(rules) = {rule(p) : p \in ToSet(apps)}
  <2>1. \A i \in 1 .. Len(apps) : rules[i] = rule(apps[i])
    BY <1>3
  <2>2. ToSet(rules) = {rules[i] : i \in 1 .. Len(apps)}
    BY <1>4 DEF ToSet
  <2>3. ToSet(apps) = {apps[i] : i \in 1 .. Len(apps)}
    BY <1>1 DEF ToSet
  <2> QED
    BY <2>1, <2>2, <2>3
<1>7. Hits(rules, flow) <=> flow.process \in ToSet(apps)
  BY <1>2, <1>6 DEF Hits
<1>8. \A r \in ToSet(rules) : TargetOf(r) = t
  BY <1>2, <1>6
<1>9. Decides(rules, flow, flow.process \in ToSet(apps), t)
  <2> DEFINE when == flow.process \in ToSet(apps)
  <2>1. when \in BOOLEAN
    OBVIOUS
  <2>2. Hits(rules, flow) <=> when
    BY <1>7
  <2> HIDE DEF when
  <2>3. Decides(rules, flow, when, t)
    BY <1>5, <1>8, <2>1, <2>2, PartDecides
  <2> QED
    BY <2>3 DEF when
<1> QED
  BY <1>1, <1>9 DEF rules

\* Whether the list of sites names the domain of a flow.
OnSites(split, flow) == \E site \in ToSet(split.sites) : SiteMatches(site, flow.domain)

LEMMA SiteRulesDecide ==
  ASSUME NEW chosen, IsSelection(chosen), NEW t, IsTarget(t), NEW flow
  PROVE  Decides(SiteRules(chosen.split, t), flow, OnSites(chosen.split, flow), t)
<1> DEFINE c == [domain |-> ToSet(chosen.split.sites)]
<1>1. CASE chosen.split.sites = <<>>
  <2>1. ~OnSites(chosen.split, flow)
    BY <1>1 DEF OnSites, ToSet
  <2> QED
    BY <1>1, <2>1, NoRule DEF SiteRules, Decides
<1>2. CASE chosen.split.sites # <<>>
  <2>1. Matches(c, flow) <=> OnSites(chosen.split, flow)
    BY DEF Matches, OnSites
  <2>2. OnSites(chosen.split, flow) \in BOOLEAN
    BY DEF OnSites
  <2>3. Decides(<< c ++ t >>, flow, OnSites(chosen.split, flow), t)
    BY <2>1, <2>2, OneRule
  <2> QED
    BY <1>2, <2>3 DEF SiteRules
<1> QED
  BY <1>1, <1>2

\* The rules, said without rules: what comes first decides.
LEMMA RouteIs ==
  ASSUME NEW chosen, IsSelection(chosen), NEW target, IsTarget(target), NEW flow
  PROVE  RouteOf(build_route_rules(chosen.split, chosen.allow_lan, target), flow) =
           IF flow.inbound = "tun-in" /\ flow.port = 53 THEN [outboundTag |-> "dns-out"]
           ELSE IF chosen.allow_lan /\ flow.ip = "private" THEN ToDirect
           ELSE IF flow.process \in ToSet(chosen.split.apps) \ {""}
                THEN Listed(apps_selective(chosen.split), target)
           ELSE IF OnSites(chosen.split, flow)
                THEN Listed(sites_selective(chosen.split), target)
           ELSE IF flow.ip = "resolver" THEN target
           ELSE Unlisted(apps_selective(chosen.split), target)
<1> DEFINE split == chosen.split
           t1 == [outboundTag |-> "dns-out"]
           t3 == Listed(apps_selective(split), target)
           t4 == Listed(sites_selective(split), target)
           t6 == Unlisted(apps_selective(split), target)
           c1 == flow.inbound = "tun-in" /\ flow.port = 53
           c2 == chosen.allow_lan /\ flow.ip = "private"
           c3 == flow.process \in ToSet(split.apps) \ {""}
           c4 == OnSites(split, flow)
           c5 == flow.ip = "resolver"
           lan  == LanRules(chosen.allow_lan)
           apps == AppRules(split, t3)
           sites == SiteRules(split, t4)
           doh  == ResolverRules(target)
           last == LastRules(t6)
<1>1. build_route_rules(split, chosen.allow_lan, target)
        = DnsRules \o lan \o apps \o sites \o doh \o last
  BY RulesAre
<1>2. IsTarget(ToDirect) /\ IsTarget(t3) /\ IsTarget(t4) /\ IsTarget(t6)
  BY DEF IsTarget, ToDirect, Listed, Unlisted
<1>3. /\ c1 \in BOOLEAN /\ c2 \in BOOLEAN /\ c3 \in BOOLEAN /\ c4 \in BOOLEAN
      /\ c5 \in BOOLEAN
  BY DEF OnSites
<1>4. Decides(DnsRules, flow, c1, t1)
  <2> DEFINE r == [inboundTag |-> "tun-in", port |-> 53, outboundTag |-> "dns-out"]
  <2>1. TargetOf(r) = t1
    BY DEF TargetOf
  <2>2. Matches(r, flow) <=> c1
    BY DEF Matches
  <2> HIDE DEF r, c1, t1
  <2>3. ToSet(<<r>>) = {r} /\ IsList(<<r>>)
    BY OneItem
  <2>4. Hits(<<r>>, flow) <=> c1
    BY <2>2, <2>3 DEF Hits
  <2>5. Decides(<<r>>, flow, c1, t1)
    BY <1>3, <2>1, <2>3, <2>4, PartDecides
  <2> QED
    BY <2>5 DEF DnsRules, r
<1>5. Decides(lan, flow, c2, ToDirect)
  <2>1. CASE chosen.allow_lan
    <3>1. Matches([ip |-> "private"], flow) <=> c2
      BY <2>1 DEF Matches
    <3> HIDE DEF c2
    <3>2. Decides(<< [ip |-> "private"] ++ ToDirect >>, flow, c2, ToDirect)
      BY <1>2, <1>3, <3>1, OneRule
    <3> QED
      BY <2>1, <3>2 DEF LanRules
  <2>2. CASE ~chosen.allow_lan
    BY <2>2, NoRule DEF LanRules, Decides
  <2> QED
    BY <2>1, <2>2
<1>6. Decides(apps, flow, c3, t3)
  BY <1>2, AppRulesDecide
<1>7. Decides(sites, flow, c4, t4)
  BY <1>2, SiteRulesDecide
<1>8. Decides(doh, flow, c5, target)
  <2>1. Matches([ip |-> "resolver"], flow) <=> c5
    BY DEF Matches
  <2> HIDE DEF c5
  <2> QED
    BY <1>3, <2>1, OneRule DEF ResolverRules
<1>9. Decides(last, flow, TRUE, t6)
  <2>1. Matches([network |-> "tcp,udp"], flow) <=> TRUE
    BY DEF Matches
  <2> HIDE DEF t6
  <2> QED
    BY <1>2, <2>1, OneRule DEF LastRules
<1> HIDE DEF t1, t3, t4, t6, c1, c2, c3, c4, c5, lan, apps, sites, doh, last
<1> DEFINE u2 == IF c1 THEN t1 ELSE ToDirect
           u3 == IF c1 \/ c2 THEN u2 ELSE t3
           u4 == IF c1 \/ c2 \/ c3 THEN u3 ELSE t4
           u5 == IF c1 \/ c2 \/ c3 \/ c4 THEN u4 ELSE target
           u6 == IF c1 \/ c2 \/ c3 \/ c4 \/ c5 THEN u5 ELSE t6
<1>10. Decides(DnsRules \o lan, flow, c1 \/ c2, u2)
  BY <1>3, <1>4, <1>5, PartsDecide
<1>11. Decides(DnsRules \o lan \o apps, flow, (c1 \/ c2) \/ c3, u3)
  <2> DEFINE c == c1 \/ c2
  <2>1. c \in BOOLEAN /\ Decides(DnsRules \o lan, flow, c, u2)
    BY <1>10
  <2> HIDE DEF c, u2
  <2>2. Decides(DnsRules \o lan \o apps, flow, c \/ c3, IF c THEN u2 ELSE t3)
    BY <1>3, <1>6, <2>1, PartsDecide
  <2> QED
    BY <2>2 DEF c
<1>12. Decides(DnsRules \o lan \o apps \o sites, flow, (c1 \/ c2 \/ c3) \/ c4, u4)
  <2> DEFINE c == c1 \/ c2 \/ c3
  <2>1. c \in BOOLEAN /\ Decides(DnsRules \o lan \o apps, flow, c, u3)
    BY <1>11
  <2> HIDE DEF c, u3
  <2>2. Decides(DnsRules \o lan \o apps \o sites, flow, c \/ c4, IF c THEN u3 ELSE t4)
    BY <1>3, <1>7, <2>1, PartsDecide
  <2> QED
    BY <2>2 DEF c
<1>13. Decides(DnsRules \o lan \o apps \o sites \o doh, flow, (c1 \/ c2 \/ c3 \/ c4) \/ c5, u5)
  <2> DEFINE c == c1 \/ c2 \/ c3 \/ c4
  <2>1. c \in BOOLEAN /\ Decides(DnsRules \o lan \o apps \o sites, flow, c, u4)
    BY <1>12
  <2> HIDE DEF c, u4
  <2>2. Decides(DnsRules \o lan \o apps \o sites \o doh, flow, c \/ c5,
                IF c THEN u4 ELSE target)
    BY <1>3, <1>8, <2>1, PartsDecide
  <2> QED
    BY <2>2 DEF c
<1>14. Decides(DnsRules \o lan \o apps \o sites \o doh \o last, flow, TRUE, u6)
  <2> DEFINE c == c1 \/ c2 \/ c3 \/ c4 \/ c5
  <2>1. c \in BOOLEAN /\ Decides(DnsRules \o lan \o apps \o sites \o doh, flow, c, u5)
    BY <1>13
  <2> DEFINE d == TRUE
  <2>2. d \in BOOLEAN /\ Decides(last, flow, d, t6)
    BY <1>9
  <2> HIDE DEF c, d, u5
  <2>3. Decides(DnsRules \o lan \o apps \o sites \o doh \o last, flow, c \/ d,
                IF c THEN u5 ELSE t6)
    BY <2>1, <2>2, PartsDecide
  <2>4. Decides(DnsRules \o lan \o apps \o sites \o doh \o last, flow, TRUE,
                IF c THEN u5 ELSE t6)
    BY <2>3 DEF Decides, d
  <2> QED
    BY <2>4 DEF c
<1>15. RouteOf(build_route_rules(split, chosen.allow_lan, target), flow) = u6
  BY <1>1, <1>14 DEF Decides
<1>16. u6 = IF c1 THEN t1 ELSE IF c2 THEN ToDirect ELSE IF c3 THEN t3 ELSE IF c4 THEN t4
            ELSE IF c5 THEN target ELSE t6
  OBVIOUS
<1> QED
  BY <1>15, <1>16 DEF t1, t3, t4, t6, c1, c2, c3, c4, c5

LEMMA ConditionsAre ==
  ASSUME NEW v, NEW t, IsTarget(t)
  PROVE  /\ TargetOf([ip |-> v] ++ t) = t
         /\ TargetOf([process |-> v] ++ t) = t
         /\ TargetOf([domain |-> v] ++ t) = t
         /\ TargetOf([network |-> v] ++ t) = t
         /\ TargetOf([inboundTag |-> "socks-in-0", network |-> v] ++ t) = t
<1> DEFINE all == {[ip |-> v], [process |-> v], [domain |-> v], [network |-> v],
                   [inboundTag |-> "socks-in-0", network |-> v]}
<1>1. \A c \in all : "outboundTag" \notin DOMAIN c /\ "balancerTag" \notin DOMAIN c
  OBVIOUS
<1> HIDE DEF all
<1>2. \A c \in all : TargetOf(c ++ t) = t
  BY <1>1, RuleTargetIs
<1> QED
  BY <1>2 DEF all

\* Where any rule leads.
LEMMA RuleTargetsAre ==
  ASSUME NEW chosen, IsSelection(chosen), NEW target, IsTarget(target),
         NEW rule \in ToSet(build_route_rules(chosen.split, chosen.allow_lan, target))
  PROVE  TargetOf(rule) \in {[outboundTag |-> "dns-out"], ToDirect, target}
<1> DEFINE split == chosen.split
           t3 == Listed(apps_selective(split), target)
           t4 == Listed(sites_selective(split), target)
           t6 == Unlisted(apps_selective(split), target)
           lan  == LanRules(chosen.allow_lan)
           apps == AppRules(split, t3)
           sites == SiteRules(split, t4)
           doh  == ResolverRules(target)
           last == LastRules(t6)
<1>1. build_route_rules(split, chosen.allow_lan, target)
        = DnsRules \o lan \o apps \o sites \o doh \o last
  BY RulesAre
<1>2. /\ IsTarget(ToDirect) /\ t3 \in {ToDirect, target} /\ t4 \in {ToDirect, target}
      /\ t6 \in {ToDirect, target}
  BY DEF IsTarget, ToDirect, Listed, Unlisted
<1>3. IsList(DnsRules) /\ ToSet(DnsRules) =
        {[inboundTag |-> "tun-in", port |-> 53, outboundTag |-> "dns-out"]}
  BY OneItem DEF DnsRules
<1>4. IsList(lan) /\ ToSet(lan) \subseteq {[ip |-> "private"] ++ ToDirect}
  <2>1. IsList(<<>>) /\ ToSet(<<>>) = {}
    BY DEF IsList, ToSet
  <2> QED
    BY <2>1, OneItem DEF LanRules
<1>5. IsList(apps) /\ \A r \in ToSet(apps) : \E p : r = [process |-> p] ++ t3
  <2>1. Len(enabled_apps(split)) \in Nat
        /\ DOMAIN enabled_apps(split) = 1 .. Len(enabled_apps(split))
    BY AppsAre
  <2>2. apps = [i \in 1 .. Len(enabled_apps(split)) |->
                  [process |-> enabled_apps(split)[i]] ++ t3]
    BY <2>1 DEF AppRules
  <2> HIDE DEF apps, t3
  <2>3. apps = [i \in 1 .. Len(enabled_apps(split)) |-> apps[i]]
    BY <2>2
  <2>4. IsList(apps)
    BY <2>1, <2>3, ListWhen
  <2> QED
    BY <2>2, <2>4 DEF ToSet
<1>6. IsList(sites) /\ \A r \in ToSet(sites) : \E d : r = [domain |-> d] ++ t4
  <2> DEFINE r == [domain |-> ToSet(split.sites)] ++ t4
  <2>1. CASE split.sites = <<>>
    <3>1. sites = <<>>
      BY <2>1 DEF SiteRules
    <3> HIDE DEF sites
    <3> QED
      BY <3>1 DEF IsList, ToSet
  <2>2. CASE split.sites # <<>>
    <3>1. sites = <<r>>
      BY <2>2 DEF SiteRules
    <3>2. r = [domain |-> ToSet(split.sites)] ++ t4
      OBVIOUS
    <3> HIDE DEF sites, r, t4
    <3>3. IsList(<<r>>) /\ ToSet(<<r>>) = {r}
      BY OneItem
    <3> QED
      BY <3>1, <3>2, <3>3
  <2> QED
    BY <2>1, <2>2
<1>7. IsList(doh) /\ ToSet(doh) = {[ip |-> "resolver"] ++ target}
  BY OneItem DEF ResolverRules
<1>8. IsList(last) /\ ToSet(last) = {[network |-> "tcp,udp"] ++ t6}
  <2> HIDE DEF t6
  <2> QED
    BY OneItem DEF LastRules
<1> HIDE DEF t3, t4, t6, lan, apps, sites, doh, last
<1>9. /\ IsList(DnsRules \o lan)
      /\ ToSet(DnsRules \o lan) = ToSet(DnsRules) \cup ToSet(lan)
  BY <1>3, <1>4, JoinedIs
<1>10. /\ IsList(DnsRules \o lan \o apps)
       /\ ToSet(DnsRules \o lan \o apps) = ToSet(DnsRules) \cup ToSet(lan) \cup ToSet(apps)
  BY <1>5, <1>9, JoinedIs
<1>11. /\ IsList(DnsRules \o lan \o apps \o sites)
       /\ ToSet(DnsRules \o lan \o apps \o sites) =
            ToSet(DnsRules) \cup ToSet(lan) \cup ToSet(apps) \cup ToSet(sites)
  BY <1>6, <1>10, JoinedIs
<1>12. /\ IsList(DnsRules \o lan \o apps \o sites \o doh)
       /\ ToSet(DnsRules \o lan \o apps \o sites \o doh) =
            ToSet(DnsRules) \cup ToSet(lan) \cup ToSet(apps) \cup ToSet(sites) \cup ToSet(doh)
  BY <1>7, <1>11, JoinedIs
<1>13. ToSet(DnsRules \o lan \o apps \o sites \o doh \o last) =
         ToSet(DnsRules) \cup ToSet(lan) \cup ToSet(apps) \cup ToSet(sites) \cup ToSet(doh)
         \cup ToSet(last)
  BY <1>8, <1>12, JoinedIs
<1>14. IsTarget(t3) /\ IsTarget(t4) /\ IsTarget(t6)
  BY <1>2
<1>15. CASE rule \in ToSet(DnsRules)
  BY <1>3, <1>15 DEF TargetOf
<1>16. CASE rule \in ToSet(lan)
  <2>1. TargetOf([ip |-> "private"] ++ ToDirect) = ToDirect
    BY <1>2, ConditionsAre
  <2> QED
    BY <1>4, <1>16, <2>1
<1>17. CASE rule \in ToSet(apps)
  <2>1. \A p : TargetOf([process |-> p] ++ t3) = t3
    BY <1>14, ConditionsAre
  <2> QED
    BY <1>2, <1>5, <1>17, <2>1
<1>18. CASE rule \in ToSet(sites)
  <2>1. \A d : TargetOf([domain |-> d] ++ t4) = t4
    BY <1>14, ConditionsAre
  <2> QED
    BY <1>2, <1>6, <1>18, <2>1
<1>19. CASE rule \in ToSet(doh)
  <2>1. TargetOf([ip |-> "resolver"] ++ target) = target
    BY ConditionsAre
  <2> QED
    BY <1>7, <1>19, <2>1
<1>20. CASE rule \in ToSet(last)
  <2>1. TargetOf([network |-> "tcp,udp"] ++ t6) = t6
    BY <1>14, ConditionsAre
  <2> QED
    BY <1>2, <1>8, <1>20, <2>1
<1> QED
  BY <1>1, <1>13, <1>15, <1>16, <1>17, <1>18, <1>19, <1>20

LEMMA PlanReaches ==
  ASSUME NEW plan, NEW s, IsPlan(plan, s), NEW extra, IsList(extra),
         NEW c, c.outbounds = plan.proxies \o extra, c.balancers = plan.balancers
  PROVE  /\ IsTarget(plan.target) /\ plan.target # ToDirect
         /\ \E t \in Tags(plan.proxies) : t \in Reached(c, plan.target)
         /\ \A ob \in ToSet(extra) : Reached(c, [outboundTag |-> ob.tag]) # {}
<1>1. ToSet(c.outbounds) = ToSet(plan.proxies) \cup ToSet(extra)
  BY JoinedIs DEF IsPlan
<1>2. Tags(plan.proxies) \subseteq Tags(c.outbounds) /\ Tags(extra) \subseteq Tags(c.outbounds)
  BY <1>1 DEF Tags
<1>3. \A t : Reached(c, [outboundTag |-> t]) = {t} \cap Tags(c.outbounds)
  BY DEF Reached, Has
<1>4. \A ob \in ToSet(extra) : Reached(c, [outboundTag |-> ob.tag]) # {}
  BY <1>2, <1>3 DEF Tags
<1>5. CASE \E t \in Tags(plan.proxies) : plan.target = [outboundTag |-> t]
  <2>1. PICK t \in Tags(plan.proxies) : plan.target = [outboundTag |-> t]
    BY <1>5
  <2>2. t \in Reached(c, plan.target)
    BY <1>2, <1>3, <2>1
  <2>3. t # "direct"
    BY DEF Tags, IsPlan, ReservedTags
  <2>4. IsTarget(plan.target)
    BY <2>1 DEF IsTarget
  <2>5. plan.target # ToDirect
    <3>1. plan.target.outboundTag = t /\ ToDirect.outboundTag = "direct"
      BY <2>1 DEF ToDirect
    <3> QED
      BY <2>3, <3>1
  <2> QED
    BY <1>4, <2>2, <2>4, <2>5
<1>6. CASE \E b \in ToSet(plan.balancers) : plan.target = [balancerTag |-> b.tag]
  <2>1. PICK b \in ToSet(plan.balancers) : plan.target = [balancerTag |-> b.tag]
    BY <1>6
  <2>2. PICK selected \in b.selector : selected \cap Tags(plan.proxies) # {}
    BY DEF IsPlan
  <2>3. PICK t \in Tags(plan.proxies) : t \in selected
    BY <2>2
  <2>4. /\ DOMAIN plan.target = {"balancerTag"} /\ plan.target.balancerTag = b.tag
        /\ DOMAIN ToDirect = {"outboundTag"}
    BY <2>1 DEF ToDirect
  <2>5. t \in Reached(c, plan.target)
    <3>1. t \in selected \cap Tags(c.outbounds)
      BY <1>2, <2>3
    <3>2. b \in {x \in ToSet(c.balancers) : x.tag = plan.target.balancerTag}
      BY <2>4
    <3> QED
      BY <2>2, <2>4, <3>1, <3>2 DEF Reached, Has
  <2>6. IsTarget(plan.target) /\ plan.target # ToDirect
    BY <2>1, <2>4 DEF IsTarget
  <2> QED
    BY <1>4, <2>5, <2>6
<1> QED
  BY <1>5, <1>6 DEF IsPlan

(***************************************************************************)
(* Requests, and what is run of them.                                      *)
(***************************************************************************)
\* A request as it is built, from a plan for each of its configurations.
RequestOf(plan, probed, s, sel) ==
  [native    |-> build_xray_config(plan, sel.split, sel.allow_lan),
   probe     |-> build_connection_probe_config(probed),
   endpoints |-> server_endpoints(s),
   excluded_apps |-> sel.split.apps]

IsRequest(r, s, sel) ==
  /\ validate_server(s)
  /\ \E plan \in outbound_plan(s), probed \in outbound_plan(s) :
       r = RequestOf(plan, probed, s, sel)

RunOf(r, interface) ==
  [config |-> rewrite_native_outbound_interface(r.native, interface), interface |-> interface]

\* The binding to an adapter adds to an outbound nothing that is forbidden.
LEMMA BoundIs ==
  ASSUME NEW ob, NEW interface, NEW endpoints, NEW more, IsFit(ob, more), IsPinned(ob, endpoints)
  PROVE  IsFit(Bound(ob, interface), more) /\ IsPinned(Bound(ob, interface), endpoints)
<1> DEFINE x == Bound(ob, interface)
           stream == Get(ob, "streamSettings", None)
           sockopt == Get(stream, "sockopt", None)
           socket == Put(sockopt, "interface", interface)
<1>1. CASE ob.protocol \in {"dns", "blackhole"}
  BY <1>1 DEF Bound
<1>2. CASE ob.protocol \notin {"dns", "blackhole"}
  <2>1. x = Put(ob, "streamSettings", Put(stream, "sockopt", socket))
    BY <1>2 DEF Bound
  <2>2. \A k : k # "streamSettings" => Agree(ob, x, k)
    BY <2>1 DEF Put, Agree, Has
  <2>3. Get(x, "streamSettings", None) = Put(stream, "sockopt", socket)
    BY <2>1 DEF Put, Get, Has
  <2>4. Get(Put(stream, "sockopt", socket), "sockopt", None) = socket
    BY DEF Put, Get, Has
  <2>5. ~Has(sockopt, "mark") => ~Has(socket, "mark")
    BY DEF Put, Has
  <2>6. \A k : k # "sockopt" => Agree(stream, Put(stream, "sockopt", socket), k)
    BY DEF Put, Agree, Has
  <2> HIDE DEF x, socket, stream, sockopt
  <2>7. Get(x, "inside", {}) = Get(ob, "inside", {})
    BY <2>2, AgreeGet
  <2>8. \A k \in {"tlsSettings", "transport"} :
          Get(Get(x, "streamSettings", None), k, None) = Get(stream, k, None)
    BY <2>3, <2>6, AgreeGet
  <2>9. Inside(x) = Inside(ob)
    BY <2>7, <2>8, InsideAlike DEF stream
  <2>10. IsFit(x, more)
    <3>1. Has(x, "protocol") /\ ~Has(x, "sendThrough")
      BY <2>2 DEF IsFit, Agree
    <3>2. ~Has(Get(Get(x, "streamSettings", None), "sockopt", None), "mark")
      BY <2>3, <2>4, <2>5 DEF IsFit, stream, sockopt
    <3>3. Get(Get(Get(x, "streamSettings", None), "tlsSettings", None), "allowInsecure", FALSE)
            # TRUE
      BY <2>8 DEF IsFit, stream
    <3> QED
      BY <2>9, <3>1, <3>2, <3>3 DEF IsFit
  <2>11. IsPinned(x, endpoints)
    BY <2>2, PinnedAlike
  <2> QED
    BY <2>10, <2>11 DEF x
<1> QED
  BY <1>1, <1>2

LEMMA RunIs ==
  ASSUME NEW s, NEW sel, NEW r, IsLocation(s), IsRequest(r, s, sel), ServiceAccepts(r),
         NEW interface, NEW ob \in ToSet(RunOf(r, interface).config.outbounds)
  PROVE  IsFit(ob, Brought(s) \ PrivilegedFileKeys) /\ IsPinned(ob, r.endpoints)
<1>1. PICK plan \in outbound_plan(s), probed \in outbound_plan(s) :
        r = RequestOf(plan, probed, s, sel)
  BY DEF IsRequest
<1>2. IsPlan(plan, s) /\ r.endpoints = server_endpoints(s)
  BY <1>1, PlanIs DEF IsRequest, RequestOf
<1> DEFINE obs == r.native.outbounds
           more == Brought(s) \ PrivilegedFileKeys
<1>3. obs = plan.proxies \o NativeExtra /\ "outbounds" \in DOMAIN r.native
  BY <1>1, NativeIs DEF RequestOf
<1>4. \A x \in ToSet(obs) : IsFit(x, Brought(s)) /\ IsPinned(x, r.endpoints)
  BY <1>2, <1>3, OutboundsAre
<1>5. \A x \in ToSet(obs) : Inside(x) \cap PrivilegedFileKeys = {}
  BY DEF ServiceAccepts, inspect_native_tun_config, Acceptable, Parts
<1> HIDE DEF obs
<1>6. \A x \in ToSet(obs) : IsFit(x, more) /\ IsPinned(x, r.endpoints)
  BY <1>4, <1>5 DEF IsFit
<1>7. RunOf(r, interface).config.outbounds = [i \in DOMAIN obs |-> Bound(obs[i], interface)]
  BY <1>3 DEF RunOf, rewrite_native_outbound_interface, obs
<1>8. PICK i \in DOMAIN obs : ob = Bound(obs[i], interface)
  BY <1>7 DEF ToSet
<1>9. IsFit(obs[i], more) /\ IsPinned(obs[i], r.endpoints)
  BY <1>6 DEF ToSet
<1> QED
  BY <1>8, <1>9, BoundIs

LEMMA OneSocks ==
  ASSUME NEW c, Acceptable(c), NEW inbound, c.inbounds = <<inbound>>,
         inbound.port \in PortNumbers, inbound.protocol = "socks",
         Get(inbound, "listen", "") \in Loopback
  PROVE  inspect_validation_config(c)
<1>1. DOMAIN c.inbounds = {1} /\ c.inbounds[1] = inbound /\ ToSet(c.inbounds) = {inbound}
  BY OneItem
<1> QED
  BY <1>1 DEF inspect_validation_config

LEMMA RequestIsAccepted ==
  ASSUME NEW s, NEW sel, NEW r, IsLocation(s), IsRequest(r, s, sel),
         \A e \in r.endpoints : e[2] # 0, Len(r.excluded_apps) <= MaxExcludedApps,
         \A part \in ToSet(r.native.balancers)
                     \cup {Get(r.native, "observatory", None), ExtraOf(s)} :
           Inside(part) \cap PrivilegedFileKeys = {}
  PROVE  ServiceAccepts(r)
<1>1. PICK plan \in outbound_plan(s), probed \in outbound_plan(s) :
        r = RequestOf(plan, probed, s, sel)
  BY DEF IsRequest
<1> DEFINE native == r.native
           probe == r.probe
<1>2. r.endpoints = server_endpoints(s) /\ native = build_xray_config(plan, sel.split, sel.allow_lan)
      /\ probe = build_connection_probe_config(probed)
  BY <1>1 DEF RequestOf
<1>3. IsPlan(plan, s) /\ IsPlan(probed, s)
  BY <1>2, PlanIs DEF IsRequest
<1>4. plan.balancers = probed.balancers /\ plan.observatory = probed.observatory
  BY PlansAgree
<1>5. r.endpoints # {}
  BY <1>2, EndpointsExist
<1> HIDE DEF native, probe
<1>6. /\ DOMAIN native \subseteq TopLevelFields /\ native.log = {"loglevel"}
      /\ native.inbounds = build_inbounds
      /\ native.outbounds = plan.proxies \o NativeExtra /\ native.balancers = plan.balancers
      /\ Has(native, "observatory") <=> plan.observatory # Unset
      /\ Has(native, "observatory") => native.observatory = plan.observatory
  BY <1>2, NativeIs
<1>7. /\ DOMAIN probe \subseteq TopLevelFields /\ probe.log = {"loglevel"}
      /\ probe.inbounds = << [tag |-> "socks-in-0", protocol |-> "socks",
                              listen |-> "127.0.0.1", port |-> ConnectionProbePort] >>
      /\ probe.outbounds = probed.proxies \o ProbeExtra /\ probe.balancers = probed.balancers
      /\ Has(probe, "observatory") <=> probed.observatory # Unset
      /\ Has(probe, "observatory") => probe.observatory = probed.observatory
  BY <1>2, ProbeIs
<1>8. /\ \A ob \in ToSet(native.outbounds) : IsFit(ob, Brought(s))
      /\ \A ob \in ToSet(probe.outbounds) : IsFit(ob, Brought(s))
  BY <1>3, <1>6, <1>7, OutboundsAre
<1>9. \A ob : IsFit(ob, Brought(s)) => Inside(ob) \cap PrivilegedFileKeys = {}
  <2>1. Brought(s) \cap PrivilegedFileKeys = {}
    BY DEF Brought
  <2> QED
    BY <2>1 DEF IsFit, Forbidden, FileKeys, PrivilegedFileKeys
<1>10. /\ \A b \in ToSet(plan.balancers) : Inside(b) \cap PrivilegedFileKeys = {}
       /\ plan.observatory # Unset => Inside(plan.observatory) \cap PrivilegedFileKeys = {}
  BY <1>6 DEF Get, native
<1>11. Acceptable(native)
  BY <1>6, <1>8, <1>9, <1>10 DEF Acceptable, Parts, Has
<1>12. Acceptable(probe)
  BY <1>4, <1>7, <1>8, <1>9, <1>10 DEF Acceptable, Parts, Has
<1>13. inspect_native_tun_config(native)
  <2>1. /\ Len(native.inbounds) = 1
        /\ native.inbounds[1] =
             [tag |-> "tun-in", protocol |-> "tun", name |-> "Varmlen", desc |-> "Varmlen",
              gateway |-> {"10.255.0.1/30", "fd00:7661:726d:6c65::1/64"}, dns |-> {"1.1.1.1"},
              autoSystemRoutingTable |-> {"0.0.0.0/0", "::/0"}, autoOutboundsInterface |-> "auto"]
    BY <1>6 DEF build_inbounds
  <2> QED
    BY <1>11, <2>1 DEF inspect_native_tun_config, Get, Has
<1>14. inspect_validation_config(probe)
  <2> DEFINE inbound == [tag |-> "socks-in-0", protocol |-> "socks",
                         listen |-> "127.0.0.1", port |-> ConnectionProbePort]
  <2>1. probe.inbounds = <<inbound>>
    BY <1>7
  <2>2. /\ inbound.port \in PortNumbers /\ inbound.protocol = "socks"
        /\ Get(inbound, "listen", "") \in Loopback
    BY ProbePortAssumption DEF Get, Has, Loopback
  <2> HIDE DEF inbound
  <2> QED
    BY <1>12, <2>1, <2>2, OneSocks
<1> QED
  BY <1>5, <1>13, <1>14 DEF ServiceAccepts, native, probe

(***************************************************************************)
(* The invariant.                                                          *)
(***************************************************************************)
Chosen == {"imported", "requested", "probing", "running"}
Asked == {"requested", "probing", "running"}

\* The next request of a subscription is no less protected than the last.
FetchInv ==
  stage = "fetching" /\ contacted # Unset => (contacted.scheme = "https" => url.scheme = "https")

LocationInv ==
  stage \in Chosen =>
    /\ IsLocation(server)
    /\ link # Unset => server \in parse_proxy_uri(link)

RequestInv ==
  stage \in Asked => IsSelection(selection) /\ IsRequest(request, server, selection)

\* What is tried and run has passed the checks of the service.
AcceptInv == stage \in {"probing", "running"} => ServiceAccepts(request)

RunInv == stage = "running" => \E interface \in Interfaces : run = RunOf(request, interface)

PipelineInv == TypeOK /\ FetchInv /\ LocationInv /\ RequestInv /\ AcceptInv /\ RunInv

LEMMA InitInv == Init => PipelineInv
BY RedirectsAssumption DEF Init, PipelineInv, TypeOK, Stages, ProbeAttempts, FetchInv,
   LocationInv, RequestInv, AcceptInv, RunInv, Chosen, Asked, RedirectsAssumption

LEMMA ImportInv ==
  ASSUME PipelineInv, NEW body \in Bodies, stage' = "imported", url' = Unset,
         hops' \in {hops, 0}, tries' = tries, run' = run, stage # "running",
         \E entry \in Entries(body) : link' = entry.link /\ server' = entry.server
  PROVE  PipelineInv'
<1>1. IsLocation(server') /\ (link' # Unset => server' \in parse_proxy_uri(link'))
  BY EntryIs
<1>2. server'.protocol \in ProxyProtocols
  BY <1>1 DEF IsLocation
<1>3. TypeOK'
  BY <1>2, RedirectsAssumption DEF PipelineInv, TypeOK, Stages, RedirectsAssumption
<1>4. FetchInv' /\ RequestInv' /\ AcceptInv' /\ RunInv'
  BY DEF FetchInv, RequestInv, AcceptInv, RunInv, Asked
<1>5. LocationInv'
  BY <1>1 DEF LocationInv
<1> QED
  BY <1>3, <1>4, <1>5 DEF PipelineInv

\* Two spellings of a file give one selector, in a list of selectors.
LEMMA SelectorsAre ==
  ASSUME NEW chosen, IsSelection(chosen),
         NEW apps \in resolve_app_selectors(chosen.split.apps)
  PROVE  IsSelection([chosen EXCEPT !.split = [chosen.split EXCEPT !.apps = apps]])
<1> DEFINE given == chosen.split.apps
           first(i) == \A j \in 1 .. i - 1 : Canonical(given[j]) # Canonical(given[i])
           I == {i \in DOMAIN given : given[i] # "" /\ first(i)}
           kept == Picked(given, I)
           selectors == [n \in DOMAIN kept |-> Canonical(kept[n])]
<1>1. apps = selectors
  BY DEF resolve_app_selectors
<1>2. IsList(given) /\ I \in SUBSET DOMAIN given
  BY DEF IsSelection
<1> HIDE DEF I, given
<1>3. Cardinality(I) \in Nat /\ DOMAIN kept = 1 .. Cardinality(I)
  BY <1>2, PickedIs
<1> HIDE DEF kept
<1>4. selectors = [n \in 1 .. Cardinality(I) |-> selectors[n]]
  BY <1>3
<1> HIDE DEF selectors
<1>5. IsList(apps)
  BY <1>1, <1>3, <1>4, ListWhen
<1> QED
  BY <1>5 DEF IsSelection

LEMMA ConnectInv ==
  ASSUME PipelineInv, NEW chosen \in Selections, Connect(chosen)
  PROVE  PipelineInv'
<1>1. PICK apps \in resolve_app_selectors(chosen.split.apps),
           plan \in outbound_plan(server), probed \in outbound_plan(server) :
        LET split == [chosen.split EXCEPT !.apps = apps]
        IN  /\ selection' = [chosen EXCEPT !.split = split]
            /\ request' = [native    |-> build_xray_config(plan, split, chosen.allow_lan),
                           probe     |-> build_connection_probe_config(probed),
                           endpoints |-> server_endpoints(server),
                           excluded_apps |-> apps]
  BY DEF Connect
<1>2. IsSelection(chosen)
  BY SelectionsAssumption DEF SelectionsAssumption
<1>3. IsSelection(selection')
  BY <1>1, <1>2, SelectorsAre
<1>4. /\ selection'.split = [chosen.split EXCEPT !.apps = apps]
      /\ selection'.split.apps = apps
      /\ selection'.allow_lan = chosen.allow_lan
  BY <1>1, <1>2 DEF IsSelection
<1>5. request' = RequestOf(plan, probed, server, selection')
  BY <1>1, <1>4 DEF RequestOf
<1>6. /\ validate_server(server) /\ stage = "imported" /\ stage' = "requested"
      /\ url' = url /\ hops' = hops /\ link' = link /\ server' = server /\ run' = run
      /\ tries' = tries
  BY DEF Connect
<1>7. IsRequest(request', server', selection')
  BY <1>5, <1>6 DEF IsRequest
<1>8. DOMAIN request' = {"native", "probe", "endpoints", "excluded_apps"}
  BY <1>5 DEF RequestOf
<1>9. DOMAIN selection' = {"split", "allow_lan"}
  BY <1>3 DEF IsSelection
<1>10. TypeOK'
  BY <1>6, <1>8, <1>9 DEF PipelineInv, TypeOK, Stages
<1>11. LocationInv' /\ RequestInv'
  BY <1>3, <1>6, <1>7 DEF PipelineInv, LocationInv, RequestInv, Chosen
<1>12. FetchInv' /\ RunInv' /\ AcceptInv'
  BY <1>6 DEF FetchInv, RunInv, AcceptInv
<1> QED
  BY <1>10, <1>11, <1>12 DEF PipelineInv

LEMMA StepInv == PipelineInv /\ [Next]_vars => PipelineInv'
<1> SUFFICES ASSUME PipelineInv, [Next]_vars PROVE PipelineInv'
  OBVIOUS
<1> USE DEF Chosen, Asked
<1>1. ASSUME NEW body \in Bodies, Paste(body) PROVE PipelineInv'
  BY <1>1, ImportInv DEF Paste, Import
<1>2. ASSUME NEW body \in Bodies, Downloaded(body) PROVE PipelineInv'
  BY <1>2, ImportInv DEF Downloaded
<1>3. ASSUME NEW u \in Urls, PasteUrl(u) PROVE PipelineInv'
  BY <1>3, RedirectsAssumption
  DEF PasteUrl, PipelineInv, TypeOK, FetchInv, LocationInv, RequestInv,
      AcceptInv, RunInv, Stages,
      RedirectsAssumption
<1>4. ASSUME NEW u \in Urls, Redirected(u) PROVE PipelineInv'
  <2>1. TypeOK'
    BY <1>4, RedirectsAssumption
    DEF Redirected, MayFollow, PipelineInv, TypeOK, Stages, RedirectsAssumption
  <2>2. FetchInv'
    BY <1>4 DEF Redirected, Request, MayFollow, PipelineInv, FetchInv
  <2>3. LocationInv' /\ RequestInv' /\ AcceptInv' /\ RunInv'
    BY <1>4 DEF Redirected, LocationInv, RequestInv, AcceptInv, RunInv
  <2> QED
    BY <2>1, <2>2, <2>3 DEF PipelineInv
<1>5. CASE FetchRefused \/ ConnectRefused \/ Reject
  <2>1. stage \notin {"running"} /\ Refuse
    BY <1>5 DEF FetchRefused, ConnectRefused, Reject
  <2> QED
    BY <2>1
    DEF Refuse, PipelineInv, TypeOK, FetchInv, LocationInv, RequestInv,
        AcceptInv, RunInv, Stages
<1>6. CASE FetchFailed
  BY <1>6
  DEF FetchFailed, PipelineInv, TypeOK, FetchInv, LocationInv, RequestInv,
      AcceptInv, RunInv, Stages
<1>7. ASSUME NEW chosen \in Selections, Connect(chosen) PROVE PipelineInv'
  BY <1>7, ConnectInv
<1>8. CASE Accept
  BY <1>8
  DEF Accept, PipelineInv, TypeOK, FetchInv, LocationInv, RequestInv,
      AcceptInv, RunInv, Stages,
              ProbeAttempts
<1>9. CASE ProbeFails
  BY <1>9
  DEF ProbeFails, PipelineInv, TypeOK, FetchInv, LocationInv, RequestInv,
      AcceptInv, RunInv, Stages,
              ProbeAttempts
<1>10. ASSUME NEW interface \in Interfaces, Run(interface) PROVE PipelineInv'
  <2>1. run' = RunOf(request, interface) /\ DOMAIN run' = {"config", "interface"}
    BY <1>10 DEF Run, RunOf
  <2>2. /\ stage = "probing" /\ stage' = "running" /\ url' = url /\ hops' = hops
        /\ link' = link /\ server' = server /\ selection' = selection /\ request' = request
        /\ tries' = tries
    BY <1>10 DEF Run
  <2> QED
    BY <2>1, <2>2
    DEF PipelineInv, TypeOK, FetchInv, LocationInv, RequestInv,
        AcceptInv, RunInv, Stages
<1>11. CASE Restart
  BY <1>11
  DEF Restart, PipelineInv, TypeOK, FetchInv, LocationInv, RequestInv,
      AcceptInv, RunInv, Stages,
               ProbeAttempts
<1>12. CASE Finish
  BY <1>12, RedirectsAssumption
  DEF Finish, PipelineInv, TypeOK, FetchInv, LocationInv, RequestInv,
      AcceptInv, RunInv, Stages,
      ProbeAttempts, RedirectsAssumption
<1>13. CASE UNCHANGED vars
  BY <1>13 DEF vars, PipelineInv, TypeOK, FetchInv, LocationInv, RequestInv, AcceptInv, RunInv
<1> QED
  BY <1>1, <1>2, <1>3, <1>4, <1>5, <1>6, <1>7, <1>8, <1>9, <1>10, <1>11, <1>12, <1>13 DEF Next

\* Whatever the program is given, a location, a request and a running
\* configuration are what the stage before them makes: of the location by its
\* parser (subscription.rs), of the request by the plans of that location
\* (vpn.rs, xray.rs), of what runs by the binding to an adapter (runtime.rs).
THEOREM PipelineInvariant == Spec => []PipelineInv
BY InitInv, StepInv, PTL DEF Spec

(***************************************************************************)
(* The properties, from the invariant.                                     *)
(***************************************************************************)
\* The variables hold what the stage says they hold, for every input.
THEOREM TypeCorrect == Spec => []TypeOK
<1>1. PipelineInv => TypeOK
  BY DEF PipelineInv
<1> QED
  BY <1>1, PipelineInvariant, PTL

\* A subscription request (lib.rs:118, 148) only ever goes to a public address,
\* and once one was encrypted none of the redirects it follows is in the clear,
\* however many redirects are allowed and wherever they lead.
THEOREM RedirectsAreSafe == Spec => FetchesAsAsked
<1>1. ASSUME PipelineInv, [Next]_vars, contacted' # Unset, contacted' # contacted
      PROVE  /\ contacted'.address = "public"
             /\ contacted # Unset =>
                  (contacted.scheme = "https" => contacted'.scheme = "https")
  <2> USE <1>1
  <2>1. PICK a : stage = "fetching" /\ Request(url, a)
    <3>1. CASE \E body \in Bodies : Paste(body)
      BY <3>1 DEF Paste, Import
    <3>2. CASE \E body \in Bodies : Downloaded(body)
      BY <3>2 DEF Downloaded
    <3>3. CASE \E u \in Urls : PasteUrl(u)
      BY <3>3 DEF PasteUrl
    <3>4. CASE \E u \in Urls : Redirected(u)
      BY <3>4 DEF Redirected
    <3>5. CASE FetchRefused \/ ConnectRefused \/ Reject
      BY <3>5 DEF FetchRefused, ConnectRefused, Reject, Refuse
    <3>6. CASE FetchFailed
      BY <3>6 DEF FetchFailed
    <3>7. CASE \E chosen \in Selections : Connect(chosen)
      BY <3>7 DEF Connect
    <3>8. CASE Accept \/ ProbeFails \/ Restart \/ \E interface \in Interfaces : Run(interface)
      BY <3>8 DEF Accept, ProbeFails, Restart, Run
    <3>9. CASE Finish
      BY <3>9 DEF Finish
    <3>10. CASE UNCHANGED vars
      BY <3>10 DEF vars
    <3> QED
      BY <3>1, <3>2, <3>3, <3>4, <3>5, <3>6, <3>7, <3>8, <3>9, <3>10 DEF Next
  <2>2. contacted'.address = "public" /\ contacted'.scheme = url.scheme
    BY <2>1 DEF Request
  <2> QED
    BY <2>1, <2>2 DEF PipelineInv, FetchInv
<1>2. PipelineInv /\ [Next]_vars =>
        [contacted' # Unset /\ contacted' # contacted =>
           /\ contacted'.address = "public"
           /\ contacted # Unset => (contacted.scheme = "https" => contacted'.scheme = "https")]_vars
  BY <1>1
<1> QED
  BY <1>2, PipelineInvariant, PTL DEF Spec, FetchesAsAsked

\* xray.rs:428, 771, 1025: a location validate_server lets through has a plan,
\* so that no "validated before config generation" can panic, on any document
\* and any link.  It rests on what the parsers keep of what they read: the
\* profile of a location has a proxy outbound, and its first is the outbound.
THEOREM NoPanic == Spec => []ValidatedIsBuildable
<1>1. PipelineInv => ValidatedIsBuildable
  BY PlanExists DEF PipelineInv, LocationInv, Chosen, ValidatedIsBuildable
<1> QED
  BY <1>1, PipelineInvariant, PTL

\* Every request the GUI builds passes the checks the service makes of it
\* (validate_connect_request, validate_candidate), but for port 0, for more
\* applications than the service takes and for files that a balancer, the
\* observatory or the extra object of an XHTTP link names: beyond these the two
\* programs agree on what may be run, for every location and every selection.
THEOREM ServiceAgrees == Spec => []BuiltIsAccepted
<1>1. PipelineInv => BuiltIsAccepted
  BY RequestIsAccepted
  DEF PipelineInv, LocationInv, RequestInv, Chosen, Asked, BuiltIsAccepted
<1> QED
  BY <1>1, PipelineInvariant, PTL

LEMMA RunningIs ==
  ASSUME PipelineInv, stage = "running", NEW ob \in ToSet(run.config.outbounds)
  PROVE  IsFit(ob, Brought(server) \ PrivilegedFileKeys) /\ IsPinned(ob, request.endpoints)
<1>1. PICK interface \in Interfaces : run = RunOf(request, interface)
  BY DEF PipelineInv, RunInv
<1>2. IsLocation(server) /\ IsRequest(request, server, selection) /\ ServiceAccepts(request)
  BY DEF PipelineInv, LocationInv, RequestInv, AcceptInv, Chosen, Asked
<1> QED
  BY <1>1, <1>2, RunIs

\* subscription.rs:673: an outbound that runs, spelt as the importer knows it and
\* with the credential and one endpoint of its own, dials one whose route
\* server_endpoints had pinned, though cleaning, tagging and binding changed the
\* outbound in between.
THEOREM RoutesArePinned == Spec => []DialledIsPinned
<1>1. ASSUME PipelineInv, stage = "running", NEW ob \in ToSet(run.config.outbounds),
             NEW servers, servers = SettingsOf(ob).servers,
             ob.protocol \in ProxyProtocols, Len(servers) = 1, servers[1].host # "",
             ~is_balancer_sentinel(servers[1].host), servers[1].port # Unset,
             Filled(SettingsOf(ob).user, Required(ob.protocol)) = Required(ob.protocol)
      PROVE  <<servers[1].host, servers[1].port>> \in request.endpoints
  <2>1. IsFit(ob, Brought(server) \ PrivilegedFileKeys) /\ IsPinned(ob, request.endpoints)
    BY <1>1, RunningIs
  <2>2. Has(ob, "protocol")
    BY <2>1 DEF IsFit
  <2>3. is_proxy_protocol(ob)
    BY <1>1, <2>2 DEF is_proxy_protocol, Get
  <2>4. servers # <<>>
    <3>1. \A s : Len(s) = 1 => s # <<>>
      OBVIOUS
    <3> QED
      BY <1>1, <3>1, Zenon
  <2>5. IsShowable(ob)
    BY <1>1, <2>3, <2>4 DEF IsShowable
  <2> QED
    BY <1>1, <2>1, <2>5 DEF IsPinned
<1>2. PipelineInv => DialledIsPinned
  BY <1>1 DEF DialledIsPinned
<1> QED
  BY <1>2, PipelineInvariant, PTL

\* xray.rs:552: no outbound that runs names a local file, overrides the check of
\* the certificate or sets what the client must decide, at whatever depth of a
\* provider's JSON; the binding to the adapter adds none of it.  Only the extra
\* object of an XHTTP link may bring some of it in, and then none of the files
\* the service looks for.
THEOREM ProvidersAreNotTrusted == Spec => []NothingUnsafeIsRun
<1>1. ASSUME PipelineInv, stage = "running", NEW ob \in ToSet(run.config.outbounds)
      PROVE  /\ Inside(ob) \cap (FileKeys \cup {"allowInsecure"})
                  \subseteq (IF server.outbound = Unset THEN Inside(ExtraOf(server)) ELSE {})
                             \ PrivilegedFileKeys
             /\ ~Has(ob, "sendThrough")
             /\ LET stream == Get(ob, "streamSettings", None)
                IN  /\ ~Has(Get(stream, "sockopt", None), "mark")
                    /\ Get(Get(stream, "tlsSettings", None), "allowInsecure", FALSE) # TRUE
  BY <1>1, RunningIs DEF IsFit, Forbidden, Brought
<1>2. PipelineInv => NothingUnsafeIsRun
  BY <1>1 DEF NothingUnsafeIsRun
<1> QED
  BY <1>2, PipelineInvariant, PTL

\* The request of a location, its two plans and its selection.
LEMMA RequestedIs ==
  ASSUME PipelineInv, stage = "requested"
  PROVE  /\ IsSelection(selection)
         /\ \E plan \in outbound_plan(server), probed \in outbound_plan(server) :
              /\ request.native =
                   build_xray_config(plan, selection.split, selection.allow_lan)
              /\ request.probe = build_connection_probe_config(probed)
              /\ IsPlan(plan, server)
              /\ IsPlan(probed, server)
<1>1. IsLocation(server) /\ IsSelection(selection) /\ IsRequest(request, server, selection)
  BY DEF PipelineInv, LocationInv, RequestInv, Chosen, Asked
<1>2. PICK plan \in outbound_plan(server), probed \in outbound_plan(server) :
        request = RequestOf(plan, probed, server, selection)
  BY <1>1 DEF IsRequest
<1>3. /\ request.native = build_xray_config(plan, selection.split, selection.allow_lan)
      /\ request.probe = build_connection_probe_config(probed)
  BY <1>2 DEF RequestOf
<1>4. IsPlan(plan, server) /\ IsPlan(probed, server)
  BY <1>1, PlanIs DEF IsRequest
<1> QED
  BY <1>1, <1>3, <1>4

LEMMA ProbeRuleIs ==
  ASSUME NEW plan, IsTarget(plan.target), NEW c, c = build_connection_probe_config(plan)
  PROVE  /\ \A rule \in ToSet(c.rules) : TargetOf(rule) = plan.target
         /\ TargetOf(c.rules[1]) = plan.target
<1> DEFINE rule == [inboundTag |-> "socks-in-0", network |-> "tcp,udp"] ++ plan.target
<1>1. c.rules = <<rule>>
  BY ProbeIs
<1>2. TargetOf(rule) = plan.target
  BY ConditionsAre
<1> HIDE DEF rule
<1> QED
  BY <1>1, <1>2, OneItem

\* The rules of both configurations lead to outbounds that are there, and the
\* target of the probe to a proxy, for every profile: a rule is kept only with
\* a target that was, and a balancer only when it selects one of the proxies
\* that passed the cleaning (profile_plan, build_route_rules).
THEOREM RulesAreKept == Spec => []RulesLeadSomewhere
<1>1. ASSUME PipelineInv, stage = "requested" PROVE RulesLeadSomewhere
  <2>1. PICK plan \in outbound_plan(server), probed \in outbound_plan(server) :
              /\ request.native =
                   build_xray_config(plan, selection.split, selection.allow_lan)
              /\ request.probe = build_connection_probe_config(probed)
              /\ IsPlan(plan, server)
              /\ IsPlan(probed, server)
    BY <1>1, RequestedIs
  <2> DEFINE native == request.native  probe == request.probe
  <2>2. /\ native.outbounds = plan.proxies \o NativeExtra /\ native.balancers = plan.balancers
        /\ native.rules = build_route_rules(selection.split, selection.allow_lan, plan.target)
    BY <2>1, NativeIs
  <2>3. /\ probe.outbounds = probed.proxies \o ProbeExtra
        /\ probe.balancers = probed.balancers
    BY <2>1, ProbeIs
  <2> HIDE DEF native, probe
  <2>4. /\ IsTarget(plan.target) /\ Reached(native, plan.target) # {}
        /\ \A ob \in ToSet(NativeExtra) : Reached(native, [outboundTag |-> ob.tag]) # {}
    BY <2>1, <2>2, PlanReaches, OwnOutboundsAre
  <2>5. /\ Reached(native, [outboundTag |-> "dns-out"]) # {}
        /\ Reached(native, ToDirect) # {}
    BY <2>4, OwnOutboundsAre DEF ToDirect
  <2>6. \A rule \in ToSet(native.rules) : Reached(native, TargetOf(rule)) # {}
    BY <1>1, <2>2, <2>4, <2>5, RequestedIs, RuleTargetsAre
  <2>7. /\ IsTarget(probed.target)
        /\ \E t \in Tags(probed.proxies) : t \in Reached(probe, probed.target)
    BY <2>1, <2>3, PlanReaches, OwnOutboundsAre
  <2>8. /\ \A rule \in ToSet(probe.rules) : TargetOf(rule) = probed.target
        /\ TargetOf(probe.rules[1]) = probed.target
    BY <2>1, <2>7, ProbeRuleIs DEF probe
  <2>9. \A rule \in ToSet(probe.rules) : Reached(probe, TargetOf(rule)) # {}
    BY <2>7, <2>8
  <2>10. \E ob \in ToSet(probe.outbounds) :
           ob.tag \in Reached(probe, TargetOf(probe.rules[1])) /\ IsProxy(ob)
    <3>1. PICK ob \in ToSet(probed.proxies) : ob.tag \in Reached(probe, probed.target)
      BY <2>7 DEF Tags
    <3>2. ob \in ToSet(probe.outbounds)
      BY <2>1, <2>3, OutboundsAre
    <3>3. IsProxy(ob)
      BY <2>1 DEF IsPlan, IsClean
    <3> QED
      BY <2>8, <3>1, <3>2, <3>3
  <2> QED
    BY <2>6, <2>9, <2>10 DEF RulesLeadSomewhere, native, probe
<1>2. PipelineInv => RulesLeadSomewhere
  BY <1>1 DEF RulesLeadSomewhere
<1> QED
  BY <1>2, PipelineInvariant, PTL

LEMMA NoName ==
  ASSUME NEW chosen, IsSelection(chosen)
  PROVE  ~OnSites(chosen.split, Resolver)
<1>1. SUFFICES ASSUME NEW site \in ToSet(chosen.split.sites), SiteMatches(site, <<>>)
               PROVE  FALSE
  BY DEF OnSites, Resolver
<1>2. site.domain # <<>> /\ Len(site.domain) \in Nat /\ DOMAIN site.domain = 1 .. Len(site.domain)
  BY ListIs DEF IsSelection
<1>3. IsSuffix(site.domain, <<>>)
  BY <1>1, <1>2 DEF SiteMatches
<1>4. Len(Reverse(site.domain)) <= Len(Reverse(<<>>))
  BY <1>3 DEF IsSuffix, IsPrefix
<1>5. Len(Reverse(site.domain)) = Len(site.domain) /\ Len(Reverse(<<>>)) = 0
  BY <1>2 DEF Reverse
<1>6. Len(site.domain) = 0
  BY <1>2, <1>4, <1>5
<1>7. IsList(site.domain)
  BY DEF IsSelection
<1> QED
  BY <1>2, <1>6, <1>7 DEF IsList

\* xray.rs:906: the first rule that matches a flow sends it where the split
\* tunnel says, in both modes of the lists of applications and of sites, with
\* the LAN allowed or not, for every list: DNS to the resolver, listed traffic
\* by its list, the rest past the tunnel only in the selective mode of the
\* applications, whatever the mode of the sites.
THEOREM SplitHolds == Spec => []SplitIsHonoured
<1>1. ASSUME PipelineInv, stage = "requested" PROVE SplitIsHonoured
  <2>1. PICK plan \in outbound_plan(server), probed \in outbound_plan(server) :
              /\ request.native =
                   build_xray_config(plan, selection.split, selection.allow_lan)
              /\ request.probe = build_connection_probe_config(probed)
              /\ IsPlan(plan, server)
              /\ IsPlan(probed, server)
    BY <1>1, RequestedIs
  <2>2. IsSelection(selection)
    BY <1>1, RequestedIs
  <2> DEFINE split == selection.split
             rules == request.native.rules
             target == plan.target
  <2>3. rules = build_route_rules(split, selection.allow_lan, target)
    BY <2>1, NativeIs
  <2>4. IsTarget(target) /\ target # ToDirect /\ IsTarget(probed.target)
    <3>1. /\ request.native.outbounds = plan.proxies \o NativeExtra
          /\ request.native.balancers = plan.balancers
      BY <2>1, NativeIs
    <3>2. /\ request.probe.outbounds = probed.proxies \o ProbeExtra
          /\ request.probe.balancers = probed.balancers
      BY <2>1, ProbeIs
    <3> QED
      BY <2>1, <3>1, <3>2, PlanReaches, OwnOutboundsAre
  <2>5. TargetOf(request.probe.rules[1]) = probed.target
    BY <2>1, <2>4, ProbeRuleIs
  <2>6. Ambiguous(server) \/ target = probed.target
    BY PlansAgree
  <2> HIDE DEF rules, target, split
  <2>7. \A flow : RouteOf(rules, flow) =
           IF flow.inbound = "tun-in" /\ flow.port = 53 THEN [outboundTag |-> "dns-out"]
           ELSE IF selection.allow_lan /\ flow.ip = "private" THEN ToDirect
           ELSE IF flow.process \in ToSet(split.apps) \ {""}
                THEN Listed(apps_selective(split), target)
           ELSE IF OnSites(split, flow)
                THEN Listed(sites_selective(split), target)
           ELSE IF flow.ip = "resolver" THEN target
           ELSE Unlisted(apps_selective(split), target)
    BY <2>2, <2>3, <2>4, RouteIs DEF split
  <2>8. RouteOf(rules, Resolver) = target
    <3>1. ~OnSites(split, Resolver)
      BY <2>2, NoName DEF split
    <3>2. /\ Resolver.inbound # "tun-in" /\ Resolver.ip = "resolver"
          /\ Resolver.ip # "private" /\ Resolver.process = ""
      BY DEF Resolver
    <3> QED
      BY <2>7, <3>1, <3>2
  <2>9. ASSUME NEW flow \in Flows
        PROVE  LET direct == RouteOf(rules, flow) = ToDirect
               IN  IF flow.port = 53 THEN RouteOf(rules, flow) = [outboundTag |-> "dns-out"]
                   ELSE IF selection.allow_lan /\ flow.ip = "private" THEN direct
                   ELSE IF flow.process # "" /\ flow.process \in ToSet(split.apps)
                        THEN direct = ~apps_selective(split)
                   ELSE IF \E site \in ToSet(split.sites) : SiteMatches(site, flow.domain)
                        THEN direct = ~sites_selective(split)
                   ELSE direct => apps_selective(split)
    <3>1. flow.inbound = "tun-in"
      BY DEF Flows
    <3>2. apps_selective(split) \in BOOLEAN /\ sites_selective(split) \in BOOLEAN
      BY DEF apps_selective, sites_selective
    <3> DEFINE route == RouteOf(rules, flow)
               lan == selection.allow_lan /\ flow.ip = "private"
               app == flow.process # "" /\ flow.process \in ToSet(split.apps)
               site == OnSites(split, flow)
    <3>3. route = IF flow.port = 53 THEN [outboundTag |-> "dns-out"]
                  ELSE IF lan THEN ToDirect
                  ELSE IF app THEN Listed(apps_selective(split), target)
                  ELSE IF site THEN Listed(sites_selective(split), target)
                  ELSE IF flow.ip = "resolver" THEN target
                  ELSE Unlisted(apps_selective(split), target)
      BY <2>7, <3>1
    <3> HIDE DEF route, lan, app, site
    <3>4. CASE flow.port = 53
      BY <3>3, <3>4 DEF route
    <3>5. CASE flow.port # 53 /\ lan
      BY <3>3, <3>5 DEF route, lan
    <3>6. CASE flow.port # 53 /\ ~lan /\ app
      <4>1. route = ToDirect <=> ~apps_selective(split)
        BY <2>4, <3>3, <3>6 DEF Listed
      <4> QED
        BY <3>2, <3>6, <4>1 DEF route, lan, app
    <3>7. CASE flow.port # 53 /\ ~lan /\ ~app /\ site
      <4>1. route = ToDirect <=> ~sites_selective(split)
        BY <2>4, <3>3, <3>7 DEF Listed
      <4> QED
        BY <3>2, <3>7, <4>1 DEF route, lan, app, site, OnSites
    <3>8. CASE flow.port # 53 /\ ~lan /\ ~app /\ ~site
      <4>1. route = ToDirect => apps_selective(split)
        BY <2>4, <3>3, <3>8 DEF Unlisted
      <4> QED
        BY <3>8, <4>1 DEF route, lan, app, site, OnSites
    <3> QED
      BY <3>4, <3>5, <3>6, <3>7, <3>8
  <2> QED
    BY <2>5, <2>6, <2>8, <2>9 DEF SplitIsHonoured, split, rules
<1>2. PipelineInv => SplitIsHonoured
  BY <1>1 DEF SplitIsHonoured
<1> QED
  BY <1>2, PipelineInvariant, PTL

(***************************************************************************)
(* What a link asks for.                                                   *)
(***************************************************************************)
\* An option a query gives is in f, under the name x.
Reads(query, k, f, x) == Get(query, k, "") # "" => Has(f, x) /\ f[x] = query[k]

\* Of the options K, f has those a query gives.
Carries(f, query, K) == \A k \in K : Reads(query, k, f, k)

LEMMA RestrictCarries ==
  ASSUME NEW query, NEW S, NEW K, K \subseteq S
  PROVE  /\ Carries(query, query, K)
         /\ Carries(Restrict(query, DOMAIN query \cap S), query, K)
         /\ Carries(Restrict(query, S \cap DOMAIN query), query, K)
         /\ Carries(Restrict(query, Filled(query, S)), query, K)
BY DEF Carries, Reads, Restrict, Filled, Get, Has

LEMMA JoinReads ==
  ASSUME NEW query, NEW k, NEW f, NEW g, NEW x
  PROVE  /\ Reads(query, k, f, x) => Reads(query, k, f ++ g, x)
         /\ Reads(query, k, g, x) /\ x \notin DOMAIN f => Reads(query, k, f ++ g, x)
<1> DEFINE given == Get(query, k, "") # ""
<1>1. /\ Has(f, x) => Has(f ++ g, x) /\ (f ++ g)[x] = f[x]
      /\ Has(g, x) /\ x \notin DOMAIN f => Has(f ++ g, x) /\ (f ++ g)[x] = g[x]
  BY DEF Has, ++
<1>2. \A h : Reads(query, k, h, x) <=> (given => Has(h, x) /\ h[x] = query[k])
  BY DEF Reads
<1> HIDE DEF given
<1> QED
  BY <1>1, <1>2

LEMMA JoinCarries ==
  ASSUME NEW f, NEW g, NEW query, NEW K
  PROVE  /\ Carries(f, query, K) => Carries(f ++ g, query, K)
         /\ Carries(g, query, K) /\ DOMAIN f \cap K = {} => Carries(f ++ g, query, K)
BY JoinReads DEF Carries

\* A field filled with an option that was kept, and the options kept again.
LEMMA FieldReads ==
  ASSUME NEW query, NEW k, NEW f, Reads(query, k, f, k)
  PROVE  /\ \A g, x, d : Has(g, x) /\ g[x] = Get(f, k, d) => Reads(query, k, g, x)
         /\ \A K : k \in K => Reads(query, k, Restrict(f, Filled(f, K)), k)
         /\ \A K : k \in K => Reads(query, k, Restrict(f, K \cap DOMAIN f), k)
<1> DEFINE none == ""  given == Get(query, k, none) # none
<1>1. \A g, x : Reads(query, k, g, x) <=> (given => Has(g, x) /\ g[x] = query[k])
  BY DEF Reads
<1>2. given => query[k] # none
  BY DEF Get
<1>3. \A K : Filled(f, K) = {n \in K : Get(f, n, none) # none}
  BY DEF Filled
<1> HIDE DEF none, given
<1>4. given => Has(f, k) /\ f[k] = query[k]
  BY <1>1
<1>5. given => \A d : Get(f, k, d) = query[k]
  BY <1>4 DEF Get
<1>6. ASSUME given, NEW K, k \in K
      PROVE  /\ Has(Restrict(f, Filled(f, K)), k)
             /\ Restrict(f, Filled(f, K))[k] = query[k]
  <2>1. k \in Filled(f, K)
    BY <1>2, <1>3, <1>5, <1>6
  <2> QED
    BY <1>4, <1>6, <2>1 DEF Restrict, Has
<1>7. ASSUME given, NEW K, k \in K
      PROVE  /\ Has(Restrict(f, K \cap DOMAIN f), k)
             /\ Restrict(f, K \cap DOMAIN f)[k] = query[k]
  BY <1>4, <1>7 DEF Restrict, Has
<1> QED
  BY <1>1, <1>5, <1>6, <1>7

LEMMA AsksWhen ==
  ASSUME NEW query, NEW table, NEW f, \A k \in DOMAIN table : Reads(query, k, f, table[k])
  PROVE  Asks(query, table, f)
<1>1. \A k \in Filled(query, DOMAIN table) :
        k \in DOMAIN table /\ Has(f, table[k]) /\ f[table[k]] = query[k]
  BY DEF Filled, Reads
<1> QED
  BY <1>1 DEF Asks, Get

IsMulti(mode) == mode \in {"multi", "gun"}

\* The header a link names, or "none" when it names none.
HeaderIsKept(query, k, raw) == Get(query, k, "") # "" => Get(raw, "headerType", "none") = query[k]

\* What the parsers of vless, trojan and vmess keep of a link.
LinkIsKept(l, s) ==
  LET vmess == l.scheme = "vmess"
      key   == IF vmess THEN "tls" ELSE "security"
      mode  == IF vmess THEN "type" ELSE "mode"
  IN  /\ s.protocol = l.scheme /\ s.outbound = Unset /\ s.profile = Unset
      /\ s.uuid = l.user
      /\ Get(l.query, key, "") \in {"reality", "tls", "none"} => s.security = l.query[key]
      /\ Carries(s.opt, l.query, {"sni", "fp"})
      /\ ~vmess => /\ s.raw = l.query
                   /\ Carries(s.opt, l.query, {"pbk", "sid", "path", "mode", "flow"})
                   /\ DOMAIN s.opt \cap {"path", "mode"} \subseteq DOMAIN l.query
      /\ vmess => Carries(s.raw, l.query, {"host", "alpn", "scy", "aid"})
      /\ vmess /\ s.transport # "grpc" =>
           Carries(s.opt, l.query, {"path"}) /\ HeaderIsKept(l.query, "type", s.raw)
      /\ vmess /\ s.transport = "grpc" => Reads(l.query, "path", s.raw, "serviceName")
      /\ s.transport = "grpc" => IsMulti(Get(s.opt, "mode", "")) = IsMulti(Get(l.query, mode, ""))

LEMMA VlessIsKept ==
  ASSUME NEW l, l.scheme = "vless", NEW s \in parse_vless(l)
  PROVE  LinkIsKept(l, s)
<1> DEFINE S == LinkOptions \cup {"packetEncoding"}
           opt == Restrict(l.query, DOMAIN l.query \cap S)
<1>1. /\ s.protocol = "vless" /\ s.outbound = Unset /\ s.profile = Unset /\ s.uuid = l.user
      /\ s.security = Get(l.query, "security", "none")
      /\ s.opt = opt /\ s.raw = l.query
  BY DEF parse_vless, At, Base
<1>2. /\ Carries(opt, l.query, {"sni", "fp"})
      /\ Carries(opt, l.query, {"pbk", "sid", "path", "mode", "flow"})
  BY RestrictCarries DEF LinkOptions
<1>3. DOMAIN opt \subseteq DOMAIN l.query /\ "mode" \in S
  BY DEF Restrict, LinkOptions
<1>4. \A d : Get(opt, "mode", d) = Get(l.query, "mode", d)
  BY <1>3 DEF Get, Has, Restrict
<1> HIDE DEF opt
<1>5. Get(l.query, "security", "") \in {"reality", "tls", "none"} =>
        s.security = l.query["security"]
  BY <1>1 DEF Get, Has
<1> QED
  BY <1>1, <1>2, <1>3, <1>4, <1>5 DEF LinkIsKept

LEMMA TrojanIsKept ==
  ASSUME NEW l, l.scheme = "trojan", NEW s \in parse_trojan(l)
  PROVE  LinkIsKept(l, s)
<1> DEFINE kept == Restrict(l.query, DOMAIN l.query \cap LinkOptions)
           secret == Secret(l.user)
           opt == secret ++ kept
<1>1. /\ s.protocol = "trojan" /\ s.outbound = Unset /\ s.profile = Unset /\ s.uuid = l.user
      /\ s.security = Get(l.query, "security", "tls")
      /\ s.opt = opt /\ s.raw = l.query
  BY DEF parse_trojan, At, Base
<1>2. /\ Carries(kept, l.query, {"sni", "fp"})
      /\ Carries(kept, l.query, {"pbk", "sid", "path", "mode", "flow"})
  BY RestrictCarries DEF LinkOptions
<1>3. /\ DOMAIN kept \subseteq DOMAIN l.query
      /\ \A d : Get(kept, "mode", d) = Get(l.query, "mode", d)
  BY DEF LinkOptions, Restrict, Get, Has
<1>4. DOMAIN secret \subseteq {"password"}
  BY DEF Secret, None
<1> HIDE DEF kept, secret
<1>5. /\ DOMAIN secret \cap {"sni", "fp"} = {} /\ "mode" \notin DOMAIN secret
      /\ DOMAIN secret \cap {"pbk", "sid", "path", "mode", "flow"} = {}
  BY <1>4
<1>6. /\ Carries(opt, l.query, {"sni", "fp"})
      /\ Carries(opt, l.query, {"pbk", "sid", "path", "mode", "flow"})
  BY <1>2, <1>5, JoinCarries
<1>7. DOMAIN opt \cap {"path", "mode"} \subseteq DOMAIN l.query
  BY <1>3, <1>4 DEF ++
<1>8. \A d : Get(opt, "mode", d) = Get(l.query, "mode", d)
  <2>1. (Has(opt, "mode") <=> Has(kept, "mode"))
        /\ (Has(kept, "mode") => opt["mode"] = kept["mode"])
    BY <1>5 DEF Has, ++
  <2>2. \A d : Get(opt, "mode", d) = Get(kept, "mode", d)
    BY <2>1 DEF Get
  <2> QED
    BY <1>3, <2>2
<1> HIDE DEF opt
<1>9. Get(l.query, "security", "") \in {"reality", "tls", "none"} =>
        s.security = l.query["security"]
  BY <1>1 DEF Get, Has
<1> QED
  BY <1>1, <1>6, <1>7, <1>8, <1>9 DEF LinkIsKept

LEMMA VmessIsKept ==
  ASSUME NEW l, l.scheme = "vmess", NEW s \in parse_vmess(l)
  PROVE  LinkIsKept(l, s)
<1> DEFINE keys == l.query
           tls == Get(keys, "tls", "none")
           header == {h \in {Get(keys, "type", "")} : h \notin {"", "none"}}
           opt == Restrict(keys, {"sni", "fp", "path"} \cap DOMAIN keys)
           raw == Restrict(keys, Filled(keys, {"host", "alpn", "scy", "aid"}))
           name == [k \in {"serviceName" : f \in Filled(keys, {"path"})} |-> keys["path"]]
           mode == [k \in {"mode" : h \in header} |-> keys["type"]]
           type == [k \in {"headerType" : h \in header} |-> keys["type"]]
           bare == Without(opt, {"path"})
<1>1. /\ s.protocol = "vmess" /\ s.outbound = Unset /\ s.profile = Unset /\ s.uuid = l.user
      /\ s.transport = Get(keys, "net", "tcp")
      /\ s.security = IF tls \in {"tls", "reality"} THEN tls ELSE "none"
      /\ s.opt = VmessOptions(l).opt /\ s.raw = VmessOptions(l).raw
  BY DEF parse_vmess, At, Base
<1>2. VmessOptions(l) =
        IF s.transport = "grpc" THEN [raw |-> raw ++ name, opt |-> bare ++ mode]
        ELSE [raw |-> raw ++ type, opt |-> opt]
  BY <1>1 DEF VmessOptions
<1>3. /\ Carries(raw, keys, {"host", "alpn", "scy", "aid"})
      /\ Carries(opt, keys, {"sni", "fp"}) /\ Carries(opt, keys, {"path"})
  BY RestrictCarries
<1>4. Carries(bare, keys, {"sni", "fp"})
  BY DEF Carries, Reads, Without, Restrict, Get, Has
<1>5. /\ "serviceName" \notin DOMAIN raw /\ "headerType" \notin DOMAIN raw
      /\ "mode" \notin DOMAIN bare
  BY DEF Restrict, Filled, Without
<1>6. Reads(keys, "path", name, "serviceName")
  <2>1. Get(keys, "path", "") # "" => "path" \in Filled(keys, {"path"})
    BY DEF Filled
  <2>2. "path" \in Filled(keys, {"path"}) =>
          "serviceName" \in DOMAIN name /\ name["serviceName"] = keys["path"]
    OBVIOUS
  <2> HIDE DEF name
  <2> QED
    BY <2>1, <2>2 DEF Reads, Has
<1>7. Get(keys, "tls", "") \in {"reality", "tls", "none"} => s.security = keys["tls"]
  BY <1>1 DEF Get, Has
<1>8. /\ header # {} => Has(keys, "type") /\ keys["type"] = Get(keys, "type", "")
      /\ header = {} => Get(keys, "type", "") \in {"", "none"}
      /\ DOMAIN mode = {"mode" : h \in header} /\ DOMAIN type = {"headerType" : h \in header}
      /\ header # {} => /\ Has(mode, "mode") /\ mode["mode"] = keys["type"]
                        /\ Has(type, "headerType") /\ type["headerType"] = keys["type"]
  BY DEF Get, Has
<1> HIDE DEF raw, opt, name, mode, type, bare, header
<1>9. IsMulti(Get(bare ++ mode, "mode", "")) = IsMulti(Get(keys, "type", ""))
  <2>1. CASE header # {}
    <3>1. Has(bare ++ mode, "mode") /\ (bare ++ mode)["mode"] = mode["mode"]
      BY <1>5, <1>8, <2>1 DEF Has, ++
    <3>2. Get(bare ++ mode, "mode", "") = Get(keys, "type", "")
      BY <1>8, <2>1, <3>1 DEF Get
    <3> QED
      BY <3>2
  <2>2. CASE header = {}
    <3>1. ~Has(bare ++ mode, "mode")
      BY <1>5, <1>8, <2>2 DEF Has, ++
    <3>2. Get(bare ++ mode, "mode", "") = ""
      BY <3>1 DEF Get
    <3>3. IsMulti("") = FALSE /\ IsMulti("none") = FALSE
      BY DEF IsMulti
    <3>4. IsMulti(Get(keys, "type", "")) = FALSE
      BY <1>8, <2>2, <3>3
    <3> QED
      BY <3>2, <3>3, <3>4
  <2> QED
    BY <2>1, <2>2
<1>10. HeaderIsKept(keys, "type", raw ++ type)
  <2>1. CASE header # {}
    <3>1. Has(raw ++ type, "headerType") /\ (raw ++ type)["headerType"] = type["headerType"]
      BY <1>5, <1>8, <2>1 DEF Has, ++
    <3>2. Get(raw ++ type, "headerType", "none") = keys["type"]
      BY <1>8, <2>1, <3>1 DEF Get
    <3> QED
      BY <3>2 DEF HeaderIsKept
  <2>2. CASE header = {}
    <3>1. ~Has(raw ++ type, "headerType")
      BY <1>5, <1>8, <2>2 DEF Has, ++
    <3>2. Get(raw ++ type, "headerType", "none") = "none"
      BY <3>1 DEF Get
    <3>3. Get(keys, "type", "") # "" => keys["type"] = "none"
      BY <1>8, <2>2 DEF Get
    <3> QED
      BY <3>2, <3>3 DEF HeaderIsKept
  <2> QED
    BY <2>1, <2>2
<1> HIDE DEF keys
<1>11. CASE s.transport = "grpc"
  <2>1. s.raw = raw ++ name /\ s.opt = bare ++ mode
    BY <1>1, <1>2, <1>11
  <2>2. /\ Carries(s.raw, keys, {"host", "alpn", "scy", "aid"})
        /\ Carries(s.opt, keys, {"sni", "fp"})
    BY <1>3, <1>4, <2>1, JoinCarries
  <2>3. Reads(keys, "path", s.raw, "serviceName")
    BY <1>5, <1>6, <2>1, JoinReads
  <2> QED
    BY <1>1, <1>7, <1>9, <1>11, <2>1, <2>2, <2>3 DEF LinkIsKept, keys
<1>12. CASE s.transport # "grpc"
  <2>1. s.raw = raw ++ type /\ s.opt = opt
    BY <1>1, <1>2, <1>12
  <2>2. Carries(s.raw, keys, {"host", "alpn", "scy", "aid"})
    BY <1>3, <2>1, JoinCarries
  <2> QED
    BY <1>1, <1>3, <1>7, <1>10, <1>12, <2>1, <2>2 DEF LinkIsKept, keys
<1> QED
  BY <1>11, <1>12

LEMMA LinkKept ==
  ASSUME NEW l, l.scheme \in {"vless", "trojan", "vmess"}, NEW s \in parse_proxy_uri(l)
  PROVE  LinkIsKept(l, s)
<1>1. CASE l.scheme = "vless"
  BY <1>1, VlessIsKept DEF parse_proxy_uri
<1>2. CASE l.scheme = "trojan"
  BY <1>2, TrojanIsKept DEF parse_proxy_uri
<1>3. CASE l.scheme = "vmess"
  BY <1>3, VmessIsKept DEF parse_proxy_uri
<1> QED
  BY <1>1, <1>2, <1>3

\* The settings of the security layer and of the transport, where Xray looks.
LayerOf(stream) == Get(stream, "realitySettings", Get(stream, "tlsSettings", None))

Identity(s) == [serverName  |-> OrElse(Get(s.opt, "sni", ""), s.host),
                fingerprint |-> OrElse(Get(s.opt, "fp", ""), "chrome")]

LEMMA StreamParts ==
  ASSUME NEW s, NEW stream, stream = build_stream_settings(s)
  PROVE  /\ stream.security = IF s.security \in {"reality", "tls"} THEN s.security ELSE "none"
         /\ LayerOf(stream) =
              IF s.security = "reality"
              THEN Identity(s) ++ [publicKey |-> Get(s.opt, "pbk", ""),
                                   shortId   |-> Get(s.opt, "sid", ""),
                                   spiderX   |-> Get(s.raw, "spx", "/")]
              ELSE IF s.security = "tls"
              THEN Identity(s) ++ [allowInsecure |-> FALSE]
                               ++ Restrict(s.raw, Filled(s.raw, {"alpn"}))
              ELSE None
         /\ Get(stream, "transport", None) = TransportSettings(s, xray_network(s.transport))
         /\ Has(stream, "network") /\ stream.network = xray_network(s.transport)
         /\ Has(stream, "security")
         /\ s.security = "reality" => /\ Get(stream, "realitySettings", None) = LayerOf(stream)
                                      /\ Get(stream, "tlsSettings", None) = None
         /\ s.security = "tls" => /\ Get(stream, "tlsSettings", None) = LayerOf(stream)
                                  /\ Get(stream, "realitySettings", None) = None
<1> DEFINE network == xray_network(s.transport)
           settings == TransportSettings(s, network)
           more == [k \in {"transport" : x \in {settings} \ {None}} |-> settings]
           layer == SecurityLayer(s)
           real == Identity(s) ++ [publicKey |-> Get(s.opt, "pbk", ""),
                                   shortId   |-> Get(s.opt, "sid", ""),
                                   spiderX   |-> Get(s.raw, "spx", "/")]
           tls  == Identity(s) ++ [allowInsecure |-> FALSE]
                               ++ Restrict(s.raw, Filled(s.raw, {"alpn"}))
<1>1. stream = [network |-> network] ++ layer ++ more
  BY DEF build_stream_settings
<1>2. layer = IF s.security = "reality" THEN [security |-> "reality", realitySettings |-> real]
              ELSE IF s.security = "tls" THEN [security |-> "tls", tlsSettings |-> tls]
              ELSE [security |-> "none"]
  BY DEF SecurityLayer, Identity
<1>3. DOMAIN more = IF settings = None THEN {} ELSE {"transport"}
  OBVIOUS
<1>4. settings # None => more["transport"] = settings
  OBVIOUS
<1> HIDE DEF network, settings, more, layer, real, tls
<1>5. DOMAIN layer = IF s.security = "reality" THEN {"security", "realitySettings"}
                     ELSE IF s.security = "tls" THEN {"security", "tlsSettings"}
                     ELSE {"security"}
  BY <1>2
<1>6. /\ DOMAIN stream = {"network"} \cup DOMAIN layer \cup DOMAIN more
      /\ \A k \in DOMAIN layer : stream[k] = layer[k]
      /\ "transport" \in DOMAIN more => stream["transport"] = more["transport"]
  <2>1. "network" \notin DOMAIN layer /\ "transport" \notin DOMAIN layer
    BY <1>5
  <2> QED
    BY <1>1, <2>1 DEF ++
<1>7. stream.security = IF s.security \in {"reality", "tls"} THEN s.security ELSE "none"
  <2>1. stream.security = layer.security
    BY <1>5, <1>6
  <2> QED
    BY <1>2, <2>1
<1>8. LayerOf(stream) = IF s.security = "reality" THEN real
                        ELSE IF s.security = "tls" THEN tls ELSE None
  <2>1. /\ Has(stream, "realitySettings") <=> s.security = "reality"
        /\ Has(stream, "tlsSettings") <=> s.security = "tls"
    BY <1>3, <1>5, <1>6 DEF Has
  <2>2. /\ s.security = "reality" => stream.realitySettings = real
        /\ s.security = "tls" => stream.tlsSettings = tls
    BY <1>2, <1>5, <1>6
  <2> QED
    BY <2>1, <2>2 DEF LayerOf, Get
<1>9. Get(stream, "transport", None) = settings
  BY <1>3, <1>4, <1>5, <1>6 DEF Get, Has
<1>10. Has(stream, "network") /\ stream.network = network /\ Has(stream, "security")
  BY <1>1, <1>5, <1>6 DEF Has, ++
<1>11. /\ s.security = "reality" => /\ Get(stream, "realitySettings", None) = LayerOf(stream)
                                   /\ Get(stream, "tlsSettings", None) = None
       /\ s.security = "tls" => /\ Get(stream, "tlsSettings", None) = LayerOf(stream)
                                /\ Get(stream, "realitySettings", None) = None
  BY <1>3, <1>5, <1>6 DEF LayerOf, Get, Has
<1> QED
  BY <1>7, <1>8, <1>9, <1>10, <1>11 DEF real, tls, settings, network

LEMMA LayerKeysAre ==
  ASSUME NEW vmess
  PROVE  LET identity == [sni |-> "serverName", fp |-> "fingerprint"]
         IN  /\ LayerKeys(vmess)["reality"] =
                  IF vmess THEN identity
                  ELSE identity ++ [pbk |-> "publicKey", sid |-> "shortId", spx |-> "spiderX"]
             /\ LayerKeys(vmess)["tls"] = identity ++ [alpn |-> "alpn"]
             /\ LayerKeys(vmess)["none"] = None
             /\ DOMAIN LayerKeys(vmess) = {"reality", "tls", "none"}
BY DEF LayerKeys

LEMMA LayerAsks ==
  ASSUME NEW l, NEW s, LinkIsKept(l, s), NEW stream, stream = build_stream_settings(s)
  PROVE  Asks(l.query, LayerKeys(l.scheme = "vmess")[stream.security], LayerOf(stream))
<1> DEFINE vmess == l.scheme = "vmess"
           query == l.query
           identity == [sni |-> "serverName", fp |-> "fingerprint"]
           more == [pbk |-> "publicKey", sid |-> "shortId", spx |-> "spiderX"]
           layer == LayerOf(stream)
<1>1. /\ stream.security = IF s.security \in {"reality", "tls"} THEN s.security ELSE "none"
      /\ layer =
              IF s.security = "reality"
              THEN Identity(s) ++ [publicKey |-> Get(s.opt, "pbk", ""),
                                   shortId   |-> Get(s.opt, "sid", ""),
                                   spiderX   |-> Get(s.raw, "spx", "/")]
              ELSE IF s.security = "tls"
              THEN Identity(s) ++ [allowInsecure |-> FALSE]
                               ++ Restrict(s.raw, Filled(s.raw, {"alpn"}))
              ELSE None
  BY StreamParts
<1>2. Carries(s.opt, query, {"sni", "fp"})
  BY DEF LinkIsKept
<1>3. /\ Get(query, "sni", "") # "" => Identity(s).serverName = query["sni"]
      /\ Get(query, "fp", "") # "" => Identity(s).fingerprint = query["fp"]
      /\ DOMAIN Identity(s) = {"serverName", "fingerprint"}
  <2>1. /\ Get(query, "sni", "") # "" => Get(s.opt, "sni", "") = Get(query, "sni", "")
        /\ Get(query, "fp", "") # "" => Get(s.opt, "fp", "") = Get(query, "fp", "")
    BY <1>2 DEF Carries, Reads, Get, Has
  <2>2. /\ Get(query, "sni", "") # "" => Get(query, "sni", "") = query["sni"]
        /\ Get(query, "fp", "") # "" => Get(query, "fp", "") = query["fp"]
    BY DEF Get, Has
  <2> QED
    BY <2>1, <2>2 DEF Identity, OrElse
<1> HIDE DEF layer, query
<1>4. CASE s.security = "reality"
  <2>1. LayerKeys(vmess)[stream.security] = IF vmess THEN identity ELSE identity ++ more
    <3>1. stream.security = "reality"
      BY <1>1, <1>4
    <3> QED
      BY <3>1, LayerKeysAre
  <2>2. DOMAIN (identity ++ more) = {"sni", "fp", "pbk", "sid", "spx"}
        /\ (identity ++ more)["sni"] = "serverName" /\ (identity ++ more)["fp"] = "fingerprint"
        /\ (identity ++ more)["pbk"] = "publicKey" /\ (identity ++ more)["sid"] = "shortId"
        /\ (identity ++ more)["spx"] = "spiderX"
    BY DEF ++
  <2>3. /\ Has(layer, "serverName") /\ layer["serverName"] = Identity(s).serverName
        /\ Has(layer, "fingerprint") /\ layer["fingerprint"] = Identity(s).fingerprint
        /\ Has(layer, "publicKey") /\ layer["publicKey"] = Get(s.opt, "pbk", "")
        /\ Has(layer, "shortId") /\ layer["shortId"] = Get(s.opt, "sid", "")
        /\ Has(layer, "spiderX") /\ layer["spiderX"] = Get(s.raw, "spx", "/")
    <3> DEFINE i == Identity(s)
    <3> HIDE DEF i
    <3>1. layer = i ++ [publicKey |-> Get(s.opt, "pbk", ""),
                        shortId   |-> Get(s.opt, "sid", ""),
                        spiderX   |-> Get(s.raw, "spx", "/")]
      BY <1>1, <1>4 DEF i
    <3>2. DOMAIN i = {"serverName", "fingerprint"}
      BY <1>3 DEF i
    <3>3. /\ Has(layer, "serverName") /\ layer["serverName"] = i["serverName"]
          /\ Has(layer, "fingerprint") /\ layer["fingerprint"] = i["fingerprint"]
          /\ Has(layer, "publicKey") /\ layer["publicKey"] = Get(s.opt, "pbk", "")
          /\ Has(layer, "shortId") /\ layer["shortId"] = Get(s.opt, "sid", "")
          /\ Has(layer, "spiderX") /\ layer["spiderX"] = Get(s.raw, "spx", "/")
      BY <3>1, <3>2 DEF ++, Has
    <3> QED
      BY <3>3 DEF i
  <2>4. ~vmess =>
          /\ Get(query, "pbk", "") # "" => Get(s.opt, "pbk", "") = query["pbk"]
          /\ Get(query, "sid", "") # "" => Get(s.opt, "sid", "") = query["sid"]
          /\ Get(query, "spx", "") # "" => Get(s.raw, "spx", "/") = query["spx"]
    <3> SUFFICES ASSUME ~vmess
                 PROVE  /\ Get(query, "pbk", "") # "" => Get(s.opt, "pbk", "") = query["pbk"]
                        /\ Get(query, "sid", "") # "" => Get(s.opt, "sid", "") = query["sid"]
                        /\ Get(query, "spx", "") # "" => Get(s.raw, "spx", "/") = query["spx"]
      OBVIOUS
    <3>1. Carries(s.opt, query, {"pbk", "sid", "path", "mode", "flow"}) /\ s.raw = query
      BY DEF LinkIsKept, query
    <3>2. Get(query, "spx", "") # "" => Get(s.raw, "spx", "/") = query["spx"]
      BY <3>1 DEF Get, Has
    <3>3. \A k \in {"pbk", "sid", "path", "mode", "flow"} :
            Get(query, k, "") # "" => Get(s.opt, k, "") = query[k]
      BY <3>1 DEF Carries, Reads, Get, Has
    <3> QED
      BY <3>2, <3>3
  <2>0. /\ DOMAIN identity = {"sni", "fp"}
        /\ identity["sni"] = "serverName" /\ identity["fp"] = "fingerprint"
    OBVIOUS
  <2> HIDE DEF identity, more
  <2>5. CASE vmess
    <3>1. Asks(query, identity, layer)
      BY <1>3, <2>3, <2>0 DEF Asks, Filled, Get
    <3> QED
      BY <2>1, <2>5, <3>1 DEF query, layer
  <2>6. CASE ~vmess
    <3> DEFINE table == identity ++ more
    <3>1. /\ Get(query, "sni", "") # "" => Get(layer, "serverName", Unset) = query["sni"]
          /\ Get(query, "fp", "") # "" => Get(layer, "fingerprint", Unset) = query["fp"]
      BY <1>3, <2>3 DEF Get
    <3>2. /\ Get(query, "pbk", "") # "" => Get(layer, "publicKey", Unset) = query["pbk"]
          /\ Get(query, "sid", "") # "" => Get(layer, "shortId", Unset) = query["sid"]
          /\ Get(query, "spx", "") # "" => Get(layer, "spiderX", Unset) = query["spx"]
      BY <2>3, <2>4, <2>6 DEF Get
    <3>3. DOMAIN table = {"sni", "fp", "pbk", "sid", "spx"}
      BY <2>2
    <3>4. ASSUME NEW k \in DOMAIN table, Get(query, k, "") # ""
          PROVE  Get(layer, table[k], Unset) = query[k]
      <4> HIDE DEF table
      <4>1. /\ table["sni"] = "serverName" /\ table["fp"] = "fingerprint"
            /\ table["pbk"] = "publicKey" /\ table["sid"] = "shortId" /\ table["spx"] = "spiderX"
        BY <2>2 DEF table
      <4>2. k \in {"sni", "fp", "pbk", "sid", "spx"}
        BY <3>3
      <4> QED
        BY <3>1, <3>2, <3>4, <4>1, <4>2
    <3> HIDE DEF table
    <3>5. Asks(query, table, layer)
      BY <3>4 DEF Asks, Filled
    <3> QED
      BY <2>1, <2>6, <3>5 DEF query, layer, table
  <2> QED
    BY <2>5, <2>6
<1>5. CASE s.security = "tls"
  <2> DEFINE alpn == [alpn |-> "alpn"]
             kept == Restrict(s.raw, Filled(s.raw, {"alpn"}))
             i == Identity(s)
  <2>1. LayerKeys(vmess)[stream.security] = identity ++ alpn
    <3>1. stream.security = "tls"
      BY <1>1, <1>5
    <3> QED
      BY <3>1, LayerKeysAre
  <2>2. DOMAIN (identity ++ alpn) = {"sni", "fp", "alpn"}
        /\ (identity ++ alpn)["sni"] = "serverName" /\ (identity ++ alpn)["fp"] = "fingerprint"
        /\ (identity ++ alpn)["alpn"] = "alpn"
    BY DEF ++
  <2>3. Carries(s.raw, query, {"alpn"})
    BY RestrictCarries DEF LinkIsKept, Carries, query
  <2>4. Get(query, "alpn", "") # "" => Has(kept, "alpn") /\ kept["alpn"] = query["alpn"]
    <3>1. Get(query, "alpn", "") # "" => Get(query, "alpn", "") = query["alpn"]
      BY DEF Get, Has
    <3> QED
      BY <2>3, <3>1 DEF Carries, Reads, Restrict, Filled, Get, Has
  <2>5. layer = i ++ [allowInsecure |-> FALSE] ++ kept
    BY <1>1, <1>5
  <2>6. DOMAIN i = {"serverName", "fingerprint"}
    BY <1>3
  <2> HIDE DEF i, kept
  <2>7. /\ Has(layer, "serverName") /\ layer["serverName"] = i["serverName"]
        /\ Has(layer, "fingerprint") /\ layer["fingerprint"] = i["fingerprint"]
        /\ Has(kept, "alpn") => Has(layer, "alpn") /\ layer["alpn"] = kept["alpn"]
    BY <2>5, <2>6 DEF ++, Has
  <2>8. /\ Get(query, "sni", "") # "" => i["serverName"] = query["sni"]
        /\ Get(query, "fp", "") # "" => i["fingerprint"] = query["fp"]
    BY <1>3 DEF i
  <2> HIDE DEF identity, alpn
  <2>9. Asks(query, identity ++ alpn, layer)
    BY <2>2, <2>4, <2>7, <2>8 DEF Asks, Filled, Get
  <2> QED
    BY <2>1, <2>9 DEF query, layer
<1>6. CASE s.security \notin {"reality", "tls"}
  <2>1. LayerKeys(vmess)[stream.security] = None
    <3>1. stream.security = "none"
      BY <1>1, <1>6
    <3> QED
      BY <3>1, LayerKeysAre
  <2>2. Asks(query, None, layer)
    BY DEF Asks, Filled, None
  <2> QED
    BY <2>1, <2>2 DEF query, layer
<1> QED
  BY <1>4, <1>5, <1>6

LEMMA TransportAsks ==
  ASSUME NEW l, NEW s, LinkIsKept(l, s), NEW settings,
         settings = TransportSettings(s, xray_network(s.transport))
  PROVE  Asks(l.query, TransportKeys(l.scheme = "vmess", l.query, s.transport), settings)
<1> DEFINE vmess == l.scheme = "vmess"
           query == l.query
           network == xray_network(s.transport)
           header == IF vmess THEN "type" ELSE "headerType"
           kept(keys) == Restrict(s.raw, Filled(s.raw, keys))
           own(keys) == Restrict(s.opt, keys \cap DOMAIN s.opt)
           place == [path |-> "path", host |-> "host"]
           named == [k \in {header} |-> "headerType"]
           table == TransportKeys(vmess, query, s.transport)
<1>1. /\ ~vmess => /\ Carries(s.opt, query, {"pbk", "sid", "path", "mode", "flow"})
                   /\ s.raw = query
      /\ vmess => Carries(s.raw, query, {"host", "alpn", "scy", "aid"})
      /\ vmess /\ s.transport # "grpc" =>
           Carries(s.opt, query, {"path"}) /\ HeaderIsKept(query, "type", s.raw)
      /\ vmess /\ s.transport = "grpc" => Reads(query, "path", s.raw, "serviceName")
  BY DEF LinkIsKept
<1>2. s.transport = "grpc" => network = "grpc"
  BY NetworkOf
<1>3. header = (IF vmess THEN "type" ELSE "headerType") /\ header \notin {"path", "host"}
  OBVIOUS
<1>4. DOMAIN named = {header} /\ named[header] = "headerType"
  OBVIOUS
<1>5. /\ \A K : DOMAIN kept(K) \subseteq K
      /\ \A K : DOMAIN own(K) \subseteq K
  BY DEF Restrict, Filled
<1>6. DOMAIN place = {"path", "host"} /\ place["path"] = "path" /\ place["host"] = "host"
  OBVIOUS
<1>7. \A k : Reads(query, k, query, k)
  BY DEF Reads, Get, Has
<1> HIDE DEF vmess, query, network, header, named, place
<1>8. Reads(query, "host", s.raw, "host")
  BY <1>1, <1>7 DEF Carries
<1>9. Reads(query, "path", s.opt, "path") \/ (s.transport = "grpc" /\ vmess)
  BY <1>1 DEF Carries
<1>10. \A f, k : Reads(query, k, f, k) =>
         /\ \A g, x, d : Has(g, x) /\ g[x] = Get(f, k, d) => Reads(query, k, g, x)
         /\ \A K : k \in K => Reads(query, k, Restrict(f, Filled(f, K)), k)
         /\ \A K : k \in K => Reads(query, k, Restrict(f, K \cap DOMAIN f), k)
  BY FieldReads
<1>11. Reads(query, "host", kept({"host"}), "host")
  BY <1>8, <1>10
<1>12. CASE vmess /\ s.transport = "grpc"
  <2>1. table = [path |-> "serviceName"]
    BY <1>2, <1>12 DEF TransportKeys, network
  <2>2. DOMAIN table = {"path"} /\ table["path"] = "serviceName"
    BY <2>1
  <2> DEFINE gun == [serviceName |-> Get(s.raw, "serviceName", ""),
                     multiMode   |-> Get(s.opt, "mode", "") \in {"multi", "gun"}]
  <2>3. settings = gun ++ kept({"authority"})
    BY <1>2, <1>12 DEF TransportSettings, network
  <2>4. Has(gun, "serviceName") /\ \E d : gun["serviceName"] = Get(s.raw, "serviceName", d)
    BY DEF Has
  <2> HIDE DEF table, kept, gun
  <2>5. Reads(query, "path", gun, "serviceName")
    <3>1. Get(query, "path", "") # "" => Has(s.raw, "serviceName")
            /\ s.raw["serviceName"] = query["path"]
      BY <1>1, <1>12 DEF Reads
    <3>2. Has(s.raw, "serviceName") => gun["serviceName"] = s.raw["serviceName"]
      BY <2>4 DEF Get
    <3> QED
      BY <2>4, <3>1, <3>2 DEF Reads
  <2>6. Reads(query, "path", settings, "serviceName")
    BY <2>3, <2>5, JoinReads
  <2>7. Asks(query, table, settings)
    BY <2>2, <2>6, AsksWhen
  <2> QED
    BY <2>7 DEF query, vmess, table
<1>13. CASE ~vmess /\ network = "grpc"
  <2>1. table = [serviceName |-> "serviceName", authority |-> "authority"]
    BY <1>13 DEF TransportKeys, network
  <2>2. /\ DOMAIN table = {"serviceName", "authority"}
        /\ table["serviceName"] = "serviceName" /\ table["authority"] = "authority"
    BY <2>1
  <2> DEFINE gun == [serviceName |-> Get(s.raw, "serviceName", ""),
                     multiMode   |-> Get(s.opt, "mode", "") \in {"multi", "gun"}]
  <2>3. settings = gun ++ kept({"authority"})
    BY <1>13 DEF TransportSettings, network
  <2>4. /\ DOMAIN gun = {"serviceName", "multiMode"}
        /\ Has(gun, "serviceName") /\ \E d : gun["serviceName"] = Get(s.raw, "serviceName", d)
    BY DEF Has
  <2>5. Reads(query, "authority", kept({"authority"}), "authority")
    BY <1>1, <1>7, <1>10, <1>13
  <2> HIDE DEF table, kept, gun
  <2>6. Reads(query, "serviceName", gun, "serviceName")
    BY <1>1, <1>7, <1>10, <1>13, <2>4
  <2>7. /\ Reads(query, "serviceName", settings, "serviceName")
        /\ Reads(query, "authority", settings, "authority")
    BY <2>3, <2>4, <2>5, <2>6, JoinReads
  <2>8. Asks(query, table, settings)
    BY <2>2, <2>7, AsksWhen
  <2> QED
    BY <2>8 DEF query, vmess, table
<1>14. CASE network = "xhttp"
  <2> DEFINE rest == [path |-> "/", mode |-> "auto"]
             mode == [mode |-> "mode"]
             first == kept({"host"}) ++ own({"path", "mode"})
  <2>1. table = IF vmess THEN place ELSE place ++ mode
    BY <1>2, <1>14 DEF TransportKeys, network, place
  <2>2. DOMAIN mode = {"mode"} /\ mode["mode"] = "mode"
    OBVIOUS
  <2>3. settings = first ++ ExtraOf(s) ++ rest
    BY <1>14 DEF TransportSettings, network
  <2>4. s.transport # "grpc"
    BY <1>2, <1>14
  <2>5. Reads(query, "path", own({"path", "mode"}), "path")
    BY <1>9, <1>10, <2>4
  <2>6. ~vmess => Reads(query, "mode", own({"path", "mode"}), "mode")
    <3>1. ~vmess => Reads(query, "mode", s.opt, "mode")
      BY <1>1 DEF Carries
    <3> QED
      BY <1>10, <3>1
  <2> HIDE DEF table, kept, own, rest, mode
  <2>7. /\ Reads(query, "path", first, "path") /\ Reads(query, "host", first, "host")
        /\ ~vmess => Reads(query, "mode", first, "mode")
    <3>1. "path" \notin DOMAIN kept({"host"}) /\ "mode" \notin DOMAIN kept({"host"})
      BY <1>5 DEF kept
    <3> QED
      BY <1>11, <2>5, <2>6, <3>1, JoinReads DEF kept
  <2> HIDE DEF first
  <2>8. /\ Reads(query, "path", settings, "path") /\ Reads(query, "host", settings, "host")
        /\ ~vmess => Reads(query, "mode", settings, "mode")
    <3> DEFINE second == first ++ ExtraOf(s)
    <3>1. /\ Reads(query, "path", second, "path") /\ Reads(query, "host", second, "host")
          /\ ~vmess => Reads(query, "mode", second, "mode")
      BY <2>7, JoinReads
    <3> HIDE DEF second
    <3>2. settings = second ++ rest
      BY <2>3 DEF second
    <3> QED
      BY <3>1, <3>2, JoinReads
  <2>9. \A k \in DOMAIN table : Reads(query, k, settings, table[k])
    <3>1. CASE vmess
      <4>1. table = place
        BY <2>1, <3>1
      <4> QED
        BY <1>6, <2>8, <4>1
    <3>2. CASE ~vmess
      <4>1. table = place ++ mode
        BY <2>1, <3>2
      <4>2. /\ DOMAIN table = {"path", "host", "mode"}
            /\ table["path"] = "path" /\ table["host"] = "host" /\ table["mode"] = "mode"
        BY <1>6, <2>2, <4>1 DEF ++
      <4> QED
        BY <2>8, <3>2, <4>2
    <3> QED
      BY <3>1, <3>2
  <2>10. Asks(query, table, settings)
    BY <2>9, AsksWhen
  <2> QED
    BY <2>10 DEF query, vmess, table
<1>15. CASE network \in {"ws", "httpupgrade", "http"}
  <2> DEFINE path == [path |-> Get(s.opt, "path", "/")]
  <2>1. table = place
    BY <1>2, <1>15 DEF TransportKeys, network, place
  <2>2. settings = path ++ kept({"host"})
    BY <1>15 DEF TransportSettings, network
  <2>3. /\ DOMAIN path = {"path"} /\ Has(path, "path")
        /\ path["path"] = Get(s.opt, "path", "/")
    BY DEF Has
  <2>4. s.transport # "grpc"
    BY <1>2, <1>15
  <2> HIDE DEF path, table, kept
  <2>5. Reads(query, "path", path, "path")
    BY <1>9, <1>10, <2>3, <2>4
  <2>6. Reads(query, "path", settings, "path") /\ Reads(query, "host", settings, "host")
    BY <1>11, <2>2, <2>3, <2>5, JoinReads DEF kept
  <2>7. Asks(query, table, settings)
    BY <1>6, <2>1, <2>6, AsksWhen
  <2> QED
    BY <2>7 DEF query, vmess, table
<1>16. CASE network = "kcp"
  <2> DEFINE seed == [seed |-> "seed"]
             type == [headerType |-> Get(s.raw, "headerType", "none")]
  <2>1. table = named ++ (IF vmess THEN None ELSE seed)
    BY <1>2, <1>16 DEF TransportKeys, network, named, header
  <2>2. DOMAIN seed = {"seed"} /\ seed["seed"] = "seed" /\ DOMAIN None = {}
    BY DEF None
  <2>3. settings = type ++ kept({"seed"})
    BY <1>16 DEF TransportSettings, network
  <2>4. /\ DOMAIN type = {"headerType"} /\ Has(type, "headerType")
        /\ type["headerType"] = Get(s.raw, "headerType", "none")
    BY DEF Has
  <2>5. ~vmess => Reads(query, "seed", kept({"seed"}), "seed")
    BY <1>1, <1>7, <1>10
  <2>6. s.transport # "grpc"
    BY <1>2, <1>16
  <2> HIDE DEF table, seed, type, kept
  <2>7. Reads(query, header, type, "headerType")
    <3>1. CASE vmess
      <4>1. header = "type" /\ HeaderIsKept(query, "type", s.raw)
        BY <1>1, <1>3, <2>6, <3>1
      <4> QED
        BY <2>4, <4>1 DEF HeaderIsKept, Reads
    <3>2. CASE ~vmess
      <4>1. header = "headerType" /\ s.raw = query
        BY <1>1, <1>3, <3>2
      <4> QED
        BY <1>7, <1>10, <2>4, <4>1
    <3> QED
      BY <3>1, <3>2
  <2>8. /\ Reads(query, header, settings, "headerType")
        /\ ~vmess => Reads(query, "seed", settings, "seed")
    BY <2>3, <2>4, <2>5, <2>7, JoinReads
  <2>9. \A k \in DOMAIN table : Reads(query, k, settings, table[k])
    <3>1. CASE vmess
      <4>1. DOMAIN table = {header} /\ table[header] = "headerType"
        <5>1. table = named ++ None
          BY <2>1, <3>1
        <5> QED
          BY <1>4, <2>2, <5>1 DEF ++
      <4> QED
        BY <2>8, <4>1
    <3>2. CASE ~vmess
      <4>1. table = named ++ seed /\ header = "headerType"
        BY <1>3, <2>1, <3>2
      <4>2. /\ DOMAIN table = {header, "seed"}
            /\ table[header] = "headerType" /\ table["seed"] = "seed"
        BY <1>4, <2>2, <4>1 DEF ++
      <4> QED
        BY <2>8, <3>2, <4>2
    <3> QED
      BY <3>1, <3>2
  <2>10. Asks(query, table, settings)
    BY <2>9, AsksWhen
  <2> QED
    BY <2>10 DEF query, vmess, table
<1>17. CASE network = "tcp" /\ Get(query, header, "") = "http"
  <2> DEFINE type == [headerType |-> "http"]
             first == type ++ kept({"host"})
  <2>1. table = place ++ named
    BY <1>2, <1>17 DEF TransportKeys, network, place, named, header
  <2>2. s.transport # "grpc"
    BY <1>2, <1>17
  <2>3. query[header] = "http"
    BY <1>17 DEF Get
  <2>4. Get(s.raw, "headerType", "") = "http"
    <3>1. CASE vmess
      <4>1. header = "type" /\ HeaderIsKept(query, "type", s.raw)
        BY <1>1, <1>3, <2>2, <3>1
      <4>2. Get(s.raw, "headerType", "none") = "http"
        BY <1>17, <2>3, <4>1 DEF HeaderIsKept
      <4> QED
        BY <4>2 DEF Get
    <3>2. CASE ~vmess
      BY <1>1, <1>3, <1>17, <3>2
    <3> QED
      BY <3>1, <3>2
  <2>5. settings = first ++ own({"path"})
    BY <1>17, <2>4 DEF TransportSettings, network
  <2>6. DOMAIN type = {"headerType"} /\ Has(type, "headerType") /\ type["headerType"] = "http"
    BY DEF Has
  <2>7. Reads(query, "path", own({"path"}), "path")
    BY <1>9, <1>10, <2>2
  <2> HIDE DEF table, type, kept, own
  <2>8. Reads(query, header, type, "headerType")
    BY <2>3, <2>6 DEF Reads
  <2>9. /\ "path" \notin DOMAIN first
        /\ Reads(query, header, first, "headerType") /\ Reads(query, "host", first, "host")
    <3>1. "host" \notin DOMAIN type /\ DOMAIN kept({"host"}) \subseteq {"host"}
      BY <1>5, <2>6 DEF kept
    <3>2. "path" \notin DOMAIN first
      BY <2>6, <3>1 DEF ++
    <3> QED
      BY <1>11, <2>8, <3>1, <3>2, JoinReads DEF kept
  <2> HIDE DEF first
  <2>10. /\ Reads(query, header, settings, "headerType") /\ Reads(query, "host", settings, "host")
         /\ Reads(query, "path", settings, "path")
    BY <2>5, <2>7, <2>9, JoinReads
  <2>11. /\ DOMAIN table = {"path", "host", header}
         /\ table["path"] = "path" /\ table["host"] = "host" /\ table[header] = "headerType"
    BY <1>3, <1>4, <1>6, <2>1 DEF ++
  <2>12. Asks(query, table, settings)
    BY <2>10, <2>11, AsksWhen
  <2> QED
    BY <2>12 DEF query, vmess, table
<1>18. CASE /\ ~(vmess /\ s.transport = "grpc") /\ ~(~vmess /\ network = "grpc")
            /\ network \notin {"xhttp", "ws", "httpupgrade", "http", "kcp"}
            /\ ~(network = "tcp" /\ Get(query, header, "") = "http")
  <2>1. table = None
    BY <1>18 DEF TransportKeys, network, header
  <2>2. Asks(query, None, settings)
    BY DEF Asks, Filled, None
  <2> QED
    BY <2>1, <2>2 DEF query, vmess
<1> QED
  BY <1>12, <1>13, <1>14, <1>15, <1>16, <1>17, <1>18

\* A gRPC outbound is of several streams when the link says so.
LEMMA GunIs ==
  ASSUME NEW s, s.transport = "grpc", NEW settings,
         settings = TransportSettings(s, xray_network(s.transport))
  PROVE  settings.multiMode = IsMulti(Get(s.opt, "mode", ""))
<1> DEFINE gun == [serviceName |-> Get(s.raw, "serviceName", ""),
                   multiMode   |-> Get(s.opt, "mode", "") \in {"multi", "gun"}]
           kept == Restrict(s.raw, Filled(s.raw, {"authority"}))
<1>1. xray_network(s.transport) = "grpc"
  BY NetworkOf
<1>2. settings = gun ++ kept
  BY <1>1 DEF TransportSettings
<1>3. "multiMode" \in DOMAIN gun /\ gun["multiMode"] = IsMulti(Get(s.opt, "mode", ""))
  BY DEF IsMulti
<1> HIDE DEF gun, kept
<1>4. settings["multiMode"] = gun["multiMode"]
  BY <1>2, <1>3 DEF ++
<1> QED
  BY <1>3, <1>4

\* What the extra object of an XHTTP link says is in the settings.
LEMMA ExtraAsks ==
  ASSUME NEW l, NEW s, LinkIsKept(l, s), l.scheme # "vmess", NEW settings,
         xray_network(s.transport) = "xhttp", settings = TransportSettings(s, "xhttp")
  PROVE  ExtraIsCarried(l.query, settings)
<1> DEFINE query == l.query
           extra == ExtraOf(s)
           host == Restrict(s.raw, Filled(s.raw, {"host"}))
           own == Restrict(s.opt, {"path", "mode"} \cap DOMAIN s.opt)
           rest == [path |-> "/", mode |-> "auto"]
<1>1. s.raw = query /\ DOMAIN s.opt \cap {"path", "mode"} \subseteq DOMAIN query
  BY DEF LinkIsKept
<1>2. Has(query, "extra") /\ query.extra \in DOMAIN Extras => extra = Extras[query.extra]
  BY <1>1 DEF ExtraOf
<1>3. settings = ((host ++ own) ++ extra) ++ rest
  BY DEF TransportSettings
<1>4. DOMAIN own \subseteq {"path", "mode"} \cap DOMAIN query
  BY <1>1 DEF Restrict
<1>5. DOMAIN host \subseteq {"host"} \cap DOMAIN query
  BY <1>1 DEF Restrict, Filled, Get, Has
<1> HIDE DEF query, extra, host, own, rest
<1>6. ASSUME NEW k \in DOMAIN extra \ ({"path", "mode", "host"} \cap DOMAIN query)
      PROVE  k \in DOMAIN settings /\ settings[k] = extra[k]
  <2>1. k \notin DOMAIN (host ++ own)
    BY <1>4, <1>5 DEF ++
  <2> QED
    BY <1>3, <2>1 DEF ++
<1>7. \A k \in DOMAIN extra \ ({"path", "mode", "host"} \cap DOMAIN query) :
        Get(settings, k, Unset) = extra[k]
  BY <1>6 DEF Get, Has
<1> QED
  BY <1>2, <1>7 DEF ExtraIsCarried, query

\* The credential of the link, and what it says of the user.
UserIsCarried(l, user) ==
  /\ Get(user, "id", Get(user, "password", "")) = l.user
  /\ Asks(Without(l.query, {"aid"}) ++ Numbers(l.query, {"aid"}),
          UserKeys(l.scheme = "vmess"), user)

LEMMA UserAsks ==
  ASSUME NEW l, l.scheme \in {"vless", "trojan", "vmess"}, NEW s, LinkIsKept(l, s), IsOfLink(s)
  PROVE  UserIsCarried(l, Credentials(s))
<1> DEFINE query == l.query
           user == Credentials(s)
           plain == Without(query, {"aid"})
           number == Numbers(query, {"aid"})
           asked == plain ++ number
<1>1. s.uuid = l.user /\ s.protocol = l.scheme
  BY DEF LinkIsKept
<1>2. /\ \A k : k # "aid" => Agree(query, plain, k)
      /\ ~Has(plain, "aid") /\ DOMAIN number \subseteq {"aid"}
      /\ Has(number, "aid") => /\ Has(query, "aid") /\ query["aid"] # "text"
                               /\ number["aid"] = query["aid"]
  BY DEF Without, Numbers, Restrict, Agree, Has, Get
<1> HIDE DEF plain, number, query
<1>3. \A k : k # "aid" => Agree(query, asked, k)
  <2> SUFFICES ASSUME NEW k, k # "aid" PROVE Agree(query, asked, k)
    OBVIOUS
  <2>1. Agree(query, plain, k) /\ ~Has(number, k)
    BY <1>2 DEF Has
  <2> QED
    BY <2>1 DEF Agree, Has, ++
<1>4. /\ Has(asked, "aid") <=> Has(number, "aid")
      /\ Has(number, "aid") => asked["aid"] = number["aid"]
  BY <1>2 DEF Has, ++
<1> HIDE DEF asked, user
<1>5. \A k, f, x : k # "aid" /\ Reads(query, k, f, x) => Reads(asked, k, f, x)
  <2> SUFFICES ASSUME NEW k, NEW f, NEW x, k # "aid", Reads(query, k, f, x)
               PROVE  Reads(asked, k, f, x)
    OBVIOUS
  <2>1. \A d : Get(asked, k, d) = Get(query, k, d)
    BY <1>3, AgreeGet
  <2>2. Has(query, k) => asked[k] = query[k]
    BY <1>3 DEF Agree
  <2>3. Get(query, k, "") # "" => Has(query, k)
    BY DEF Get
  <2> QED
    BY <2>1, <2>2, <2>3 DEF Reads
<1>6. CASE l.scheme = "vmess"
  <2> DEFINE table == UserKeys(l.scheme = "vmess")
             aid == Numbers(s.raw, {"aid"})
  <2>1. /\ DOMAIN table = {"scy", "aid"}
        /\ table["scy"] = "security" /\ table["aid"] = "alterId"
    BY <1>6 DEF UserKeys
  <2>2. user = [id |-> s.uuid, security |-> Get(s.raw, "scy", "auto"),
                alterId |-> Get(aid, "aid", "0")]
    BY <1>1, <1>6 DEF Credentials, user
  <2>3. /\ Has(user, "id") /\ user["id"] = l.user
        /\ Has(user, "security") /\ user["security"] = Get(s.raw, "scy", "auto")
        /\ Has(user, "alterId") /\ user["alterId"] = Get(aid, "aid", "0")
    BY <1>1, <2>2 DEF Has
  <2>4. Reads(query, "scy", s.raw, "scy") /\ Reads(query, "aid", s.raw, "aid")
    BY <1>6 DEF LinkIsKept, Carries, query
  <2>5. Reads(query, "scy", user, "security")
    BY <2>3, <2>4, FieldReads
  <2>6. Reads(asked, "aid", user, "alterId")
    <3>1. SUFFICES ASSUME Get(asked, "aid", "") # ""
                   PROVE  user["alterId"] = asked["aid"]
      BY <2>3 DEF Reads
    <3>2. Has(asked, "aid") /\ asked["aid"] # ""
      BY <3>1 DEF Get
    <3>3. /\ Has(query, "aid") /\ query["aid"] # "text" /\ asked["aid"] = query["aid"]
      BY <1>2, <1>4, <3>2
    <3>4. Get(query, "aid", "") # ""
      BY <3>2, <3>3 DEF Get
    <3>5. Has(s.raw, "aid") /\ s.raw["aid"] = query["aid"]
      BY <2>4, <3>4 DEF Reads
    <3>6. Has(aid, "aid") /\ aid["aid"] = s.raw["aid"]
      BY <3>3, <3>5 DEF Numbers, Restrict, Has, Get
    <3> HIDE DEF aid
    <3>7. Get(aid, "aid", "0") = s.raw["aid"]
      BY <3>6 DEF Get
    <3> QED
      BY <2>3, <3>3, <3>5, <3>7
  <2> HIDE DEF table, aid
  <2>7. Asks(asked, table, user)
    BY <1>5, <2>1, <2>5, <2>6, AsksWhen
  <2>8. Get(user, "id", Get(user, "password", "")) = l.user
    BY <2>3 DEF Get
  <2> QED
    BY <2>7, <2>8 DEF UserIsCarried, asked, plain, number, query, user, table
<1>7. CASE l.scheme # "vmess"
  <2> DEFINE table == UserKeys(l.scheme = "vmess")
  <2>1. DOMAIN table = {"flow"} /\ table["flow"] = "flow"
    BY <1>7 DEF UserKeys
  <2>2. Reads(query, "flow", s.opt, "flow")
    BY <1>7 DEF LinkIsKept, Carries, query
  <2>3. /\ Has(user, "flow") /\ user["flow"] = Get(s.opt, "flow", "")
        /\ Get(user, "id", Get(user, "password", "")) = l.user
    <3>1. CASE l.scheme = "vless"
      <4>1. user = [id |-> s.uuid, flow |-> Get(s.opt, "flow", "")]
        BY <1>1, <3>1 DEF Credentials, user
      <4>2. /\ Has(user, "flow") /\ user["flow"] = Get(s.opt, "flow", "")
            /\ Has(user, "id") /\ user["id"] = s.uuid
        BY <4>1 DEF Has
      <4> QED
        BY <1>1, <4>2 DEF Get
    <3>2. CASE l.scheme = "trojan"
      <4>1. user = [password |-> Get(s.opt, "password", s.uuid), flow |-> Get(s.opt, "flow", "")]
        BY <1>1, <3>2 DEF Credentials, user
      <4>2. /\ Has(user, "flow") /\ user["flow"] = Get(s.opt, "flow", "")
            /\ Has(user, "password") /\ user["password"] = Get(s.opt, "password", s.uuid)
            /\ ~Has(user, "id")
        BY <4>1 DEF Has
      <4>3. Get(s.opt, "password", s.uuid) = l.user
        BY <1>1, <3>2 DEF IsOfLink
      <4> QED
        BY <4>2, <4>3 DEF Get
    <3> QED
      BY <1>7, <3>1, <3>2
  <2>4. Reads(query, "flow", user, "flow")
    BY <2>2, <2>3, FieldReads
  <2> HIDE DEF table
  <2>5. Asks(asked, table, user)
    BY <1>5, <2>1, <2>4, AsksWhen
  <2> QED
    BY <2>3, <2>5 DEF UserIsCarried, asked, plain, number, query, user, table
<1> QED
  BY <1>6, <1>7

\* What a vless, trojan or vmess link asks for is in the outbound built for it,
\* under the name Xray reads: none of the options the tables UserKeys,
\* LayerKeys and TransportKeys list, nor the extra object of XHTTP, is lost
\* between the parser that names it (parse_vless, parse_trojan, parse_vmess) and
\* the builder that renames it (build_stream_settings), and the security layer
\* is the link's.  What the code drops is in no table (see LinkIsCarried).
THEOREM LinksAreCarried == Spec => []LinkIsCarried
<1>1. ASSUME PipelineInv, stage = "requested", link # Unset,
             link.scheme \in {"vless", "trojan", "vmess"}
      PROVE  LinkIsCarried
  <2>1. LinkIsKept(link, server)
    BY <1>1, LinkKept DEF PipelineInv, LocationInv, Chosen
  <2>2. PICK plan \in outbound_plan(server), probed \in outbound_plan(server) :
          request.native = build_xray_config(plan, selection.split, selection.allow_lan)
    BY <1>1, RequestedIs
  <2> DEFINE ob == [tag |-> "proxy", protocol |-> server.protocol,
                    settings |-> [servers |-> Endpoint(server), user |-> Credentials(server)],
                    streamSettings |-> build_stream_settings(server)]
  <2>3. build_proxy_outbound(server) = {ob}
    <3>1. /\ server.outbound = Unset /\ server.protocol # "wireguard"
          /\ server.protocol \in ProxyProtocols
      BY <1>1, <2>1 DEF LinkIsKept, ProxyProtocols
    <3> QED
      BY <3>1 DEF build_proxy_outbound
  <2>4. plan.proxies = <<ob>>
    <3> HIDE DEF ob
    <3>1. server.profile = Unset
      BY <2>1 DEF LinkIsKept
    <3>2. \E x \in build_proxy_outbound(server) : plan.proxies = <<x>>
      BY <3>1 DEF outbound_plan
    <3> QED
      BY <2>3, <3>2
  <2>5. request.native.outbounds[1] = ob
    <3> HIDE DEF ob
    <3>a. request.native.outbounds = plan.proxies \o NativeExtra
      BY <2>2, NativeIs
    <3>1. request.native.outbounds = <<ob>> \o NativeExtra
      BY <2>4, <3>a
    <3>2. IsList(<<ob>>) /\ Len(<<ob>>) = 1 /\ <<ob>>[1] = ob
      BY OneItem
    <3> QED
      BY <3>1, <3>2, OwnOutboundsAre, JoinedParts
  <2> DEFINE stream == build_stream_settings(server)
             vmess == link.scheme = "vmess"
             key == IF vmess THEN "tls" ELSE "security"
  <2>6. Get(link.query, key, "") \in DOMAIN LayerKeys(vmess) =>
          stream.security = link.query[key]
    <3>1. stream.security =
            IF server.security \in {"reality", "tls"} THEN server.security ELSE "none"
      BY StreamParts
    <3>2. Get(link.query, key, "") \in {"reality", "tls", "none"} =>
            server.security = link.query[key]
      BY <2>1 DEF LinkIsKept
    <3>3. Get(link.query, key, "") \in {"reality", "tls", "none"} =>
            link.query[key] \in {"reality", "tls", "none"}
      BY DEF Get, Has
    <3> HIDE DEF stream, key, vmess
    <3>4. DOMAIN LayerKeys(vmess) = {"reality", "tls", "none"}
      BY LayerKeysAre
    <3> QED
      BY <3>1, <3>2, <3>3, <3>4
  <2>7. Asks(link.query, LayerKeys(vmess)[stream.security], LayerOf(stream))
    BY <2>1, LayerAsks
  <2> DEFINE settings == Get(stream, "transport", None)
             mode == IF vmess THEN "type" ELSE "mode"
  <2>8. settings = TransportSettings(server, xray_network(server.transport))
    BY StreamParts
  <2>9. Asks(link.query, TransportKeys(vmess, link.query, server.transport), settings)
    BY <2>1, <2>8, TransportAsks
  <2>10. server.transport = "grpc" =>
           (Get(link.query, mode, "") \in {"multi", "gun"}) = settings.multiMode
    <3>1. server.transport = "grpc" => settings.multiMode = IsMulti(Get(server.opt, "mode", ""))
      BY <2>8, GunIs
    <3>2. server.transport = "grpc" =>
            IsMulti(Get(server.opt, "mode", "")) = IsMulti(Get(link.query, mode, ""))
      BY <2>1 DEF LinkIsKept
    <3>3. IsMulti(Get(link.query, mode, "")) = (Get(link.query, mode, "") \in {"multi", "gun"})
      BY DEF IsMulti
    <3> HIDE DEF settings, mode
    <3> QED
      BY <3>1, <3>2, <3>3
  <2>11. xray_network(server.transport) = "xhttp" /\ ~vmess => ExtraIsCarried(link.query, settings)
    BY <2>1, <2>8, ExtraAsks
  <2>12. UserIsCarried(link, Credentials(server))
    <3>1. IsOfLink(server)
      BY <1>1, <2>1 DEF PipelineInv, LocationInv, Chosen, IsLocation, LinkIsKept
    <3> QED
      BY <1>1, <2>1, <3>1, UserAsks
  <2>13. /\ request.native.outbounds[1].streamSettings = stream
         /\ request.native.outbounds[1].settings.user = Credentials(server)
    BY <2>5
  <2> HIDE DEF ob, stream
  <2>14. Asks(link.query, LayerKeys(vmess)[stream.security],
              Get(stream, "realitySettings", Get(stream, "tlsSettings", None)))
    BY <2>7 DEF LayerOf
  <2> QED
    BY <2>6, <2>9, <2>10, <2>11, <2>12, <2>13, <2>14 DEF LinkIsCarried, UserIsCarried
<1>2. PipelineInv => LinkIsCarried
  BY <1>1 DEF LinkIsCarried
<1> QED
  BY <1>2, PipelineInvariant, PTL

(***************************************************************************)
(* An outbound that was built, parsed back.                                *)
(***************************************************************************)
LEMMA ValueIs ==
  ASSUME NEW query, NEW n, NEW d
  PROVE  query_value(query, <<n>>, d) = Get(query, n, d)
<1> DEFINE given == {i \in DOMAIN <<n>> : Has(query, <<n>>[i])}
<1>1. given = IF Has(query, n) THEN {1} ELSE {}
  OBVIOUS
<1>2. query_value(query, <<n>>, d) = IF given = {} THEN d ELSE query[<<n>>[Min(given)]]
  BY DEF query_value
<1> HIDE DEF given
<1>3. Has(query, n) => Min(given) = 1
  BY <1>1, MinIs
<1> QED
  BY <1>1, <1>2, <1>3 DEF Get

\* A field of a map stands for a key of another.
Stands(g, x, f, n) == (Has(g, x) <=> Has(f, n)) /\ (Has(f, n) => g[x] = f[n])

LEMMA NamedIs ==
  ASSUME NEW f, NEW table
  PROVE  /\ DOMAIN Named(f, table) \subseteq DOMAIN table
         /\ \A x \in DOMAIN table : \A n : table[x] = <<n>> => Stands(Named(f, table), x, f, n)
<1>1. DOMAIN Named(f, table) \subseteq DOMAIN table
  BY DEF Named
<1>2. ASSUME NEW x \in DOMAIN table, NEW n, table[x] = <<n>>
      PROVE  Stands(Named(f, table), x, f, n)
  <2>1. ToSet(<<n>>) = {n}
    BY OneItem
  <2>2. x \in DOMAIN Named(f, table) <=> Has(f, n)
    BY <1>2, <2>1 DEF Named
  <2>3. Has(f, n) => Named(f, table)[x] = query_value(f, <<n>>, Unset)
    BY <1>2, <2>1, <2>2 DEF Named
  <2> QED
    BY <2>2, <2>3, ValueIs DEF Stands, Has, Get
<1> QED
  BY <1>1, <1>2

LEMMA RestrictFilled ==
  ASSUME NEW f, NEW K
  PROVE  /\ DOMAIN Restrict(f, Filled(f, K)) \subseteq K
         /\ \A k \in K : Get(Restrict(f, Filled(f, K)), k, "") = Get(f, k, "")
         /\ \A k \in K : Has(Restrict(f, Filled(f, K)), k) <=> Get(f, k, "") # ""
BY DEF Restrict, Filled, Get, Has

LEMMA SameFilled ==
  ASSUME NEW f, NEW g, NEW K, \A k \in K : Get(f, k, "") = Get(g, k, "")
  PROVE  Restrict(f, Filled(f, K)) = Restrict(g, Filled(g, K))
<1>1. Filled(f, K) = Filled(g, K)
  BY DEF Filled
<1>2. \A k \in Filled(f, K) : f[k] = g[k]
  BY DEF Filled, Get
<1> QED
  BY <1>1, <1>2 DEF Restrict

\* The same, of the options the layer and the transport keep.
LEMMA SameKept ==
  ASSUME NEW f, NEW g
  PROVE  /\ Get(f, "alpn", "") = Get(g, "alpn", "") =>
              Restrict(f, Filled(f, {"alpn"})) = Restrict(g, Filled(g, {"alpn"}))
         /\ Get(f, "host", "") = Get(g, "host", "") =>
              Restrict(f, Filled(f, {"host"})) = Restrict(g, Filled(g, {"host"}))
         /\ Get(f, "authority", "") = Get(g, "authority", "") =>
              Restrict(f, Filled(f, {"authority"})) = Restrict(g, Filled(g, {"authority"}))
<1> QED
  <2> SUFFICES ASSUME NEW k, Get(f, k, "") = Get(g, k, "")
               PROVE  Restrict(f, Filled(f, {k})) = Restrict(g, Filled(g, {k}))
    OBVIOUS
  <2> DEFINE one == {k}
  <2>1. \A x \in one : Get(f, x, "") = Get(g, x, "")
    OBVIOUS
  <2> HIDE DEF one
  <2>2. Restrict(f, Filled(f, one)) = Restrict(g, Filled(g, one))
    BY <2>1, SameFilled
  <2> QED
    BY <2>2 DEF one

LEMMA LayerSame ==
  ASSUME NEW s, NEW b, Identity(b) = Identity(s) \/ s.security \notin {"reality", "tls"},
         b.security = IF s.security \in {"reality", "tls"} THEN s.security ELSE "none",
         s.security = "reality" =>
           /\ Get(b.opt, "pbk", "") = Get(s.opt, "pbk", "")
           /\ Get(b.opt, "sid", "") = Get(s.opt, "sid", "")
           /\ Get(b.raw, "spx", "/") = Get(s.raw, "spx", "/"),
         s.security = "tls" => Get(b.raw, "alpn", "") = Get(s.raw, "alpn", "")
  PROVE  SecurityLayer(b) = SecurityLayer(s)
<1>1. CASE s.security = "reality"
  BY <1>1 DEF SecurityLayer, Identity
<1>2. CASE s.security = "tls"
  <2> DEFINE f == b.raw
             g == s.raw
  <2>1. Get(f, "alpn", "") = Get(g, "alpn", "")
    BY <1>2
  <2> HIDE DEF f, g
  <2>2. Restrict(f, Filled(f, {"alpn"})) = Restrict(g, Filled(g, {"alpn"}))
    BY <2>1, SameKept
  <2> QED
    BY <1>2, <2>2 DEF SecurityLayer, Identity, f, g
<1>3. CASE s.security \notin {"reality", "tls"}
  BY <1>3 DEF SecurityLayer
<1> QED
  BY <1>1, <1>2, <1>3

\* The settings of gRPC.
Gun(raw, multi) ==
  [serviceName |-> Get(raw, "serviceName", ""), multiMode |-> multi]
  ++ Restrict(raw, Filled(raw, {"authority"}))

Several(s) == Get(s.opt, "mode", "") \in {"multi", "gun"}

\* The settings of XHTTP, of a location without an extra object.
Kept(settings, K) == Restrict(settings, Filled(settings, K))
XhttpOf(p, m, kept) == [path |-> p] ++ [mode |-> m] ++ kept

LEMMA XhttpIs ==
  ASSUME NEW s, ExtraOf(s) = None
  PROVE  TransportSettings(s, "xhttp")
           = XhttpOf(Get(s.opt, "path", "/"), Get(s.opt, "mode", "auto"), Kept(s.raw, {"host"}))
<1> DEFINE kept == Kept(s.raw, {"host"})
           own == Restrict(s.opt, {"path", "mode"} \cap DOMAIN s.opt)
           rest == [path |-> "/", mode |-> "auto"]
           p == Get(s.opt, "path", "/")
           m == Get(s.opt, "mode", "auto")
           f == [path |-> p]
           g == [mode |-> m]
           left == ((kept ++ own) ++ None) ++ rest
           right == (f ++ g) ++ kept
<1>1. TransportSettings(s, "xhttp") = left
  BY DEF TransportSettings, Kept
<1>2. DOMAIN kept \subseteq {"host"}
  BY DEF Kept, Restrict, Filled
<1>3. /\ DOMAIN own = {"path", "mode"} \cap DOMAIN s.opt
      /\ \A k \in DOMAIN own : own[k] = s.opt[k]
  BY DEF Restrict
<1>4. /\ DOMAIN rest = {"path", "mode"} /\ rest["path"] = "/" /\ rest["mode"] = "auto"
      /\ DOMAIN f = {"path"} /\ f["path"] = p /\ DOMAIN g = {"mode"} /\ g["mode"] = m
      /\ DOMAIN None = {}
  BY DEF None
<1>5. /\ p = IF "path" \in DOMAIN s.opt THEN s.opt["path"] ELSE "/"
      /\ m = IF "mode" \in DOMAIN s.opt THEN s.opt["mode"] ELSE "auto"
  BY DEF Get, Has
<1> HIDE DEF kept, own, rest, p, m, f, g
<1>6. \A a, b : a ++ b = [x \in DOMAIN (a ++ b) |-> (a ++ b)[x]]
  BY DEF ++
<1>7. /\ DOMAIN left = DOMAIN kept \cup {"path", "mode"}
      /\ left["path"] = p /\ left["mode"] = m
      /\ \A x \in DOMAIN kept : left[x] = kept[x]
  <2> DEFINE one == kept ++ own
             two == one ++ None
  <2>1. /\ DOMAIN one = DOMAIN kept \cup DOMAIN own
        /\ \A x \in DOMAIN one : one[x] = IF x \in DOMAIN kept THEN kept[x] ELSE own[x]
    BY DEF ++
  <2> HIDE DEF one
  <2>2. DOMAIN two = DOMAIN one /\ \A x \in DOMAIN one : two[x] = one[x]
    BY <1>4 DEF ++
  <2> HIDE DEF two
  <2>3. /\ DOMAIN (two ++ rest) = DOMAIN two \cup DOMAIN rest
        /\ \A x \in DOMAIN (two ++ rest) :
             (two ++ rest)[x] = IF x \in DOMAIN two THEN two[x] ELSE rest[x]
    BY DEF ++
  <2>4. left = two ++ rest
    BY DEF one, two
  <2> HIDE DEF left
  <2>5. DOMAIN left = DOMAIN kept \cup {"path", "mode"}
    BY <1>3, <1>4, <2>1, <2>2, <2>3, <2>4
  <2>6. \A x \in DOMAIN left : left[x] = IF x \in DOMAIN kept THEN kept[x]
                                        ELSE IF x \in DOMAIN own THEN own[x] ELSE rest[x]
    BY <2>1, <2>2, <2>3, <2>4
  <2>7. "path" \notin DOMAIN kept /\ "mode" \notin DOMAIN kept
    BY <1>2
  <2>8. left["path"] = p
    BY <1>3, <1>4, <1>5, <2>5, <2>6, <2>7
  <2>9. left["mode"] = m
    BY <1>3, <1>4, <1>5, <2>5, <2>6, <2>7
  <2> QED
    BY <2>5, <2>6, <2>8, <2>9
<1>8. /\ DOMAIN right = DOMAIN kept \cup {"path", "mode"}
      /\ right["path"] = p /\ right["mode"] = m
      /\ \A x \in DOMAIN kept : right[x] = kept[x]
  <2> DEFINE one == f ++ g
  <2>1. DOMAIN one = {"path", "mode"} /\ one["path"] = p /\ one["mode"] = m
    BY <1>4 DEF ++
  <2> HIDE DEF one
  <2>2. /\ DOMAIN (one ++ kept) = DOMAIN one \cup DOMAIN kept
        /\ \A x \in DOMAIN (one ++ kept) :
             (one ++ kept)[x] = IF x \in DOMAIN one THEN one[x] ELSE kept[x]
    BY DEF ++
  <2>3. right = one ++ kept
    BY DEF one
  <2> HIDE DEF right
  <2> QED
    BY <1>2, <2>1, <2>2, <2>3
<1>9. /\ left = [x \in DOMAIN left |-> left[x]]
      /\ right = [x \in DOMAIN right |-> right[x]]
  BY <1>6
<1> HIDE DEF left, right
<1>10. left = right
  <2>1. \A x \in DOMAIN left : left[x] = right[x]
    BY <1>7, <1>8
  <2> QED
    BY <1>7, <1>8, <1>9, <2>1
<1> QED
  BY <1>1, <1>10 DEF XhttpOf, right, f, g, p, m, kept

LEMMA TransportSame ==
  ASSUME NEW s, NEW b,
         NEW network \in {"tcp", "ws", "xhttp", "httpupgrade", "grpc", "hysteria"},
         network = "tcp" =>
           Get(s.raw, "headerType", "") # "http" /\ Get(b.raw, "headerType", "") # "http",
         network \in {"ws", "xhttp", "httpupgrade"} =>
           /\ Get(b.opt, "path", "/") = Get(s.opt, "path", "/")
           /\ Get(b.raw, "host", "") = Get(s.raw, "host", ""),
         network = "xhttp" =>
           /\ Get(b.opt, "mode", "auto") = Get(s.opt, "mode", "auto")
           /\ ExtraOf(b) = None /\ ExtraOf(s) = None,
         network = "grpc" =>
           /\ Get(b.raw, "serviceName", "") = Get(s.raw, "serviceName", "")
           /\ Get(b.raw, "authority", "") = Get(s.raw, "authority", "")
           /\ Several(b) = Several(s),
         network = "hysteria" => b.uuid = s.uuid
  PROVE  TransportSettings(b, network) = TransportSettings(s, network)
<1> DEFINE f == b.raw
           g == s.raw
<1>1. CASE network = "tcp"
  BY <1>1 DEF TransportSettings
<1>2. CASE network \in {"ws", "httpupgrade"}
  <2>1. Get(f, "host", "") = Get(g, "host", "")
    BY <1>2
  <2> HIDE DEF f, g
  <2>2. Restrict(f, Filled(f, {"host"})) = Restrict(g, Filled(g, {"host"}))
    BY <2>1, SameKept
  <2> QED
    BY <1>2, <2>2 DEF TransportSettings, f, g
<1>3. CASE network = "xhttp"
  <2>1. Get(f, "host", "") = Get(g, "host", "")
    BY <1>3
  <2> HIDE DEF f, g
  <2>2. Kept(f, {"host"}) = Kept(g, {"host"})
    BY <2>1, SameKept DEF Kept
  <2>3. /\ Get(b.opt, "path", "/") = Get(s.opt, "path", "/")
        /\ Get(b.opt, "mode", "auto") = Get(s.opt, "mode", "auto")
        /\ ExtraOf(b) = None /\ ExtraOf(s) = None
    BY <1>3
  <2>4. TransportSettings(b, "xhttp") = TransportSettings(s, "xhttp")
    BY <2>2, <2>3, XhttpIs DEF f, g
  <2> QED
    BY <1>3, <2>4
<1>4. CASE network = "grpc"
  <2>1. /\ Get(f, "authority", "") = Get(g, "authority", "")
        /\ Get(f, "serviceName", "") = Get(g, "serviceName", "")
    BY <1>4
  <2>2. Several(b) = Several(s)
    BY <1>4
  <2>3. Gun(f, Several(b)) = Gun(g, Several(s))
    <3> HIDE DEF f, g
    <3>1. Restrict(f, Filled(f, {"authority"})) = Restrict(g, Filled(g, {"authority"}))
      BY <2>1, SameKept
    <3>2. \A m : Gun(f, m) = Gun(g, m)
      BY <2>1, <3>1 DEF Gun
    <3> QED
      BY <2>2, <3>2
  <2> QED
    BY <1>4, <2>3 DEF TransportSettings, Gun, Several
<1>5. CASE network = "hysteria"
  BY <1>5 DEF TransportSettings
<1> QED
  BY <1>1, <1>2, <1>3, <1>4, <1>5

LEMMA JoinGets ==
  ASSUME NEW f, NEW g, NEW k, NEW d
  PROVE  /\ Get(f ++ g, k, d) = Get(f, k, Get(g, k, d))
         /\ Has(f ++ g, k) <=> Has(f, k) \/ Has(g, k)
<1> DEFINE both == f ++ g
<1>1. DOMAIN both = DOMAIN f \cup DOMAIN g
  BY DEF ++
<1>2. \A x \in DOMAIN both : both[x] = IF x \in DOMAIN f THEN f[x] ELSE g[x]
  BY DEF ++
<1> HIDE DEF both
<1>3. Get(both, k, d) = Get(f, k, Get(g, k, d)) /\ (Has(both, k) <=> Has(f, k) \/ Has(g, k))
  BY <1>1, <1>2 DEF Get, Has
<1> QED
  BY <1>3 DEF both

\* The outbound built for a location that is not a cleaned one.
BuiltFrom(s) ==
  [tag |-> "proxy", protocol |-> s.protocol,
   settings |-> [servers |-> Endpoint(s), user |-> Credentials(s)],
   streamSettings |-> build_stream_settings(s)]

LEMMA ParsedParts ==
  ASSUME NEW s, NEW ob, ob = BuiltFrom(s), NEW b \in parse_outbound(ob)
  PROVE  LET stream == build_stream_settings(s)
         IN  /\ b.protocol = s.protocol /\ b.host = s.host /\ b.port = s.port
             /\ s.host # "" /\ s.protocol \in ProxyProtocols
             /\ Filled(Credentials(s), Required(s.protocol)) = Required(s.protocol)
             /\ b.outbound = Unset /\ b.profile = Unset
             /\ b.uuid = CredentialOf(ob)
             /\ b.transport = normalize_network(xray_network(s.transport))
             /\ b.security = stream.security
             /\ \E plain : /\ b.opt = StreamOptions(plain, stream) ++ OptionsOf(ob)
                           /\ b.raw = StreamParameters(plain, stream) ++ ParametersOf(ob)
                           /\ StreamTransport(plain, stream) = b.transport
<1> DEFINE stream == build_stream_settings(s)
           endpoint == SettingsOf(ob).servers[1]
           plain == [Base(ob.protocol, endpoint.host, endpoint.port) EXCEPT
                       !.uuid = CredentialOf(ob), !.opt = OptionsOf(ob), !.raw = ParametersOf(ob),
                       !.transport = IF ob.protocol = "wireguard" THEN "wireguard" ELSE "tcp"]
<1>1. /\ Has(ob, "settings") /\ Has(ob, "streamSettings") /\ Has(ob, "protocol")
      /\ ob.protocol = s.protocol /\ ob.streamSettings = stream
      /\ ob.settings = [servers |-> Endpoint(s), user |-> Credentials(s)]
  BY DEF BuiltFrom, Has
<1>2. SettingsOf(ob) = [servers |-> Endpoint(s), user |-> Credentials(s)]
  BY <1>1 DEF SettingsOf, Get
<1>3. /\ endpoint.host = s.host /\ endpoint.port = s.port
      /\ SettingsOf(ob).user = Credentials(s)
  BY <1>2 DEF Endpoint
<1>4. /\ Has(stream, "network") /\ stream.network = xray_network(s.transport)
      /\ Has(stream, "security")
  BY StreamParts
<1> HIDE DEF stream
<1>5. IsShowable(ob) /\ b = apply_stream(plain, stream)
  <2> HIDE DEF plain
  <2>1. IsShowable(ob)
    BY DEF parse_outbound
  <2>2. parse_outbound(ob) = {apply_stream(plain, ob.streamSettings)}
    BY <1>1, <2>1 DEF parse_outbound, plain
  <2> QED
    BY <1>1, <2>1, <2>2
<1>6. /\ plain.protocol = s.protocol /\ plain.host = s.host /\ plain.port = s.port
      /\ plain.uuid = CredentialOf(ob) /\ plain.outbound = Unset /\ plain.profile = Unset
      /\ plain.opt = OptionsOf(ob) /\ plain.raw = ParametersOf(ob)
  BY <1>1, <1>3 DEF Base
<1>7. \A k \in {"protocol", "uuid", "host", "port", "transport", "security", "opt", "raw",
               "outbound", "profile", "source"} : k \in DOMAIN plain
  BY DEF Base
<1> HIDE DEF plain, endpoint
<1>8. /\ b.protocol = plain.protocol /\ b.host = plain.host /\ b.port = plain.port
      /\ b.outbound = plain.outbound /\ b.profile = plain.profile /\ b.uuid = plain.uuid
      /\ b.transport = StreamTransport(plain, stream)
      /\ b.security = Get(stream, "security", "none")
      /\ b.opt = StreamOptions(plain, stream) ++ plain.opt
      /\ b.raw = StreamParameters(plain, stream) ++ plain.raw
  BY <1>5, <1>7 DEF apply_stream
<1>9. /\ StreamTransport(plain, stream) = normalize_network(xray_network(s.transport))
      /\ Get(stream, "security", "none") = stream.security
  BY <1>4 DEF StreamTransport, Get
<1>10. /\ s.host # "" /\ s.protocol \in ProxyProtocols
       /\ Filled(Credentials(s), Required(s.protocol)) = Required(s.protocol)
  <2>1. endpoint.host # ""
    BY <1>5 DEF IsShowable, endpoint
  <2>2. Filled(SettingsOf(ob).user, Required(ob.protocol)) = Required(ob.protocol)
    BY <1>5 DEF IsShowable
  <2>3. s.protocol \in ProxyProtocols
    BY <1>1, <1>5 DEF IsShowable, is_proxy_protocol, Get
  <2> QED
    BY <1>1, <1>3, <2>1, <2>2, <2>3
<1> QED
  BY <1>6, <1>8, <1>9, <1>10 DEF stream

LEMMA UserFields ==
  ASSUME NEW a, NEW c
  PROVE  /\ Get([id |-> a, flow |-> c], "id", "") = a
         /\ Get([id |-> a, flow |-> c], "flow", "") = c
         /\ Get([password |-> a, flow |-> c], "password", "") = a
         /\ Get([password |-> a, flow |-> c], "flow", "") = c
         /\ Get([method |-> a, password |-> c], "method", "") = a
         /\ Get([method |-> a, password |-> c], "password", "") = c
BY DEF Get, Has

\* The credentials and their options come from the outbound that was parsed.
IsShownBy(b, ob) ==
  /\ b.uuid = CredentialOf(ob)
  /\ \A k \in {"flow", "method", "password"} : \A d : Get(b.opt, k, d) = Get(OptionsOf(ob), k, d)
  /\ \A k \in {"scy", "aid"} : \A d : Get(b.raw, k, d) = Get(ParametersOf(ob), k, d)

LEMMA CredentialsBack ==
  ASSUME NEW s, IsOfLink(s), s.protocol \in ProxyProtocols \ {"wireguard"},
         s.protocol = "hysteria" => xray_network(s.transport) = "hysteria",
         NEW ob, ob = BuiltFrom(s),
         Filled(Credentials(s), Required(s.protocol)) = Required(s.protocol),
         NEW b, b.protocol = s.protocol, IsShownBy(b, ob)
  PROVE  /\ Credentials(b) = Credentials(s)
         /\ s.protocol \notin {"shadowsocks", "http", "socks"} => b.uuid = s.uuid
<1> DEFINE user == Credentials(s)
<1>1. /\ ob.protocol = s.protocol /\ SettingsOf(ob).user = user
      /\ Get(ob, "streamSettings", None) = build_stream_settings(s)
  BY DEF BuiltFrom, SettingsOf, Get, Has
<1> DEFINE kept == CASE s.protocol \in {"vless", "vmess"}  -> {"flow"}
                     [] s.protocol = "trojan"              -> {"flow", "password"}
                     [] s.protocol = "shadowsocks"         -> {"method", "password"}
                     [] s.protocol \in {"http", "socks"}   -> {"password"}
                     [] OTHER                              -> {}
<1>2. OptionsOf(ob) = Restrict(user, Filled(user, kept))
  BY <1>1 DEF OptionsOf
<1>3. \A k \in kept \cap {"flow", "method", "password"} : Get(b.opt, k, "") = Get(user, k, "")
  <2> HIDE DEF kept, user
  <2> DEFINE options == Restrict(user, Filled(user, kept))
  <2>1. \A k \in kept : Get(options, k, "") = Get(user, k, "")
    BY RestrictFilled
  <2>2. OptionsOf(ob) = options
    BY <1>2
  <2> HIDE DEF options
  <2> QED
    BY <2>1, <2>2 DEF IsShownBy
<1>4. CASE s.protocol = "vless"
  <2>1. user = [id |-> s.uuid, flow |-> Get(s.opt, "flow", "")]
    BY <1>4 DEF Credentials
  <2>2. Get(b.opt, "flow", "") = Get(s.opt, "flow", "")
    <3> DEFINE flow == Get(s.opt, "flow", "")
    <3>1. user = [id |-> s.uuid, flow |-> flow]
      BY <2>1
    <3> HIDE DEF user, flow
    <3>2. Get(user, "flow", "") = flow
      BY <3>1, UserFields
    <3> QED
      BY <1>3, <1>4, <3>2 DEF flow
  <2>3. b.uuid = s.uuid
    <3> HIDE DEF user
    <3>2. Get(user, "id", "") = s.uuid
      BY <2>1, UserFields
    <3> QED
      BY <1>1, <1>4, <3>2 DEF CredentialOf, IsShownBy
  <2> QED
    BY <1>4, <2>2, <2>3 DEF Credentials
<1>5. CASE s.protocol = "vmess"
  <2> DEFINE aid == Get(Numbers(s.raw, {"aid"}), "aid", "0")
  <2>1. user = [id |-> s.uuid, security |-> Get(s.raw, "scy", "auto"),
                alterId |-> aid]
    BY <1>5 DEF Credentials
  <2>2. /\ Get(user, "id", "") = s.uuid
        /\ Has(user, "security") /\ user.security = Get(s.raw, "scy", "auto")
        /\ Has(user, "alterId") /\ user.alterId = aid
    BY <2>1 DEF Get, Has
  <2>a. aid # "text"
    BY DEF Numbers, Restrict, Get, Has
  <2>3. b.uuid = s.uuid
    BY <1>1, <1>5, <2>2 DEF CredentialOf, IsShownBy
  <2> DEFINE table == [scy |-> <<"security">>, aid |-> <<"alterId">>]
  <2>4. ParametersOf(ob) = Named(user, table)
    BY <1>1, <1>5 DEF ParametersOf
  <2>5. /\ DOMAIN table = {"scy", "aid"}
        /\ table["scy"] = <<"security">> /\ table["aid"] = <<"alterId">>
    OBVIOUS
  <2> HIDE DEF table, user, aid
  <2>6. /\ Stands(Named(user, table), "scy", user, "security")
        /\ Stands(Named(user, table), "aid", user, "alterId")
    BY <2>5, NamedIs
  <2>7. /\ Get(b.raw, "scy", "auto") = Get(s.raw, "scy", "auto")
        /\ \A d : Get(b.raw, "aid", d) = aid
    <3>1. /\ Get(Named(user, table), "scy", "auto") = Get(s.raw, "scy", "auto")
          /\ \A d : Get(Named(user, table), "aid", d) = aid
      BY <2>2, <2>6 DEF Stands, Get
    <3> QED
      BY <2>4, <3>1 DEF IsShownBy
  <2>8. Get(Numbers(b.raw, {"aid"}), "aid", "0") = aid
    <3>1. Has(b.raw, "aid") => b.raw["aid"] = aid
      BY <2>7 DEF Get
    <3>2. Has(b.raw, "aid") \/ aid = "0"
      BY <2>7 DEF Get
    <3> QED
      BY <2>a, <3>1, <3>2 DEF Numbers, Restrict, Get, Has
  <2> QED
    BY <1>5, <2>3, <2>7, <2>8 DEF Credentials, aid
<1>6. CASE s.protocol = "trojan"
  <2>1. user = [password |-> Get(s.opt, "password", s.uuid), flow |-> Get(s.opt, "flow", "")]
    BY <1>6 DEF Credentials
  <2>2. /\ Get(user, "password", "") = Get(s.opt, "password", s.uuid)
        /\ Get(user, "flow", "") = Get(s.opt, "flow", "")
    <3> DEFINE password == Get(s.opt, "password", s.uuid)
               flow == Get(s.opt, "flow", "")
    <3>1. user = [password |-> password, flow |-> flow]
      BY <2>1
    <3> HIDE DEF user, password, flow
    <3>2. Get(user, "password", "") = password /\ Get(user, "flow", "") = flow
      BY <3>1, UserFields
    <3> QED
      BY <3>2 DEF password, flow
  <2>3. b.uuid = s.uuid
    BY <1>1, <1>6, <2>2 DEF CredentialOf, IsOfLink, IsShownBy
  <2>4. Get(user, "password", "") # ""
    BY <1>6 DEF Required, Filled
  <2> HIDE DEF user
  <2>5. Get(b.opt, "password", "") = Get(user, "password", "")
        /\ Get(b.opt, "flow", "") = Get(user, "flow", "")
    BY <1>3, <1>6
  <2>6. Get(b.opt, "password", b.uuid) = Get(s.opt, "password", s.uuid)
    BY <2>2, <2>4, <2>5 DEF Get
  <2>7. Get(b.opt, "flow", "") = Get(s.opt, "flow", "")
    BY <2>2, <2>5
  <2>8. Credentials(b) = [password |-> Get(b.opt, "password", b.uuid),
                          flow |-> Get(b.opt, "flow", "")]
    BY <1>6 DEF Credentials
  <2>9. Credentials(s) = [password |-> Get(s.opt, "password", s.uuid),
                          flow |-> Get(s.opt, "flow", "")]
    BY <1>6 DEF Credentials
  <2> QED
    BY <1>6, <2>3, <2>6, <2>7, <2>8, <2>9
<1>7. CASE s.protocol = "shadowsocks"
  <2>1. user = [method |-> Get(s.opt, "method", ""), password |-> Get(s.opt, "password", "")]
    BY <1>7 DEF Credentials
  <2>2. /\ Get(user, "method", "") = Get(s.opt, "method", "")
        /\ Get(user, "password", "") = Get(s.opt, "password", "")
    <3> DEFINE method == Get(s.opt, "method", "")
               password == Get(s.opt, "password", "")
    <3>1. user = [method |-> method, password |-> password]
      BY <2>1
    <3> HIDE DEF user, method, password
    <3>2. Get(user, "method", "") = method /\ Get(user, "password", "") = password
      BY <3>1, UserFields
    <3> QED
      BY <3>2 DEF method, password
  <2>3. /\ Get(b.opt, "method", "") = Get(s.opt, "method", "")
        /\ Get(b.opt, "password", "") = Get(s.opt, "password", "")
    BY <1>3, <1>7, <2>2
  <2> QED
    BY <1>7, <2>3 DEF Credentials
<1>8. CASE s.protocol \in {"http", "socks"}
  <2> DEFINE pair == [user |-> s.uuid, password |-> Get(s.opt, "password", "")]
             again == [user |-> b.uuid, password |-> Get(b.opt, "password", "")]
  <2>1. user = Restrict(pair, Filled(pair, DOMAIN pair))
    BY <1>8 DEF Credentials
  <2>2. /\ DOMAIN pair = {"user", "password"}
        /\ Get(pair, "user", "") = s.uuid
        /\ Get(pair, "password", "") = Get(s.opt, "password", "")
    BY DEF Get, Has
  <2>3. Get(user, "user", "") = s.uuid /\ Get(user, "password", "") = Get(s.opt, "password", "")
    <3> HIDE DEF pair, user
    <3>1. user = Restrict(pair, Filled(pair, {"user", "password"}))
      BY <2>1, <2>2
    <3>2. \A k \in {"user", "password"} :
            Get(Restrict(pair, Filled(pair, {"user", "password"})), k, "") = Get(pair, k, "")
      BY RestrictFilled
    <3> QED
      BY <2>2, <3>1, <3>2
  <2> HIDE DEF user
  <2>4. b.uuid = s.uuid
    BY <1>1, <1>8, <2>3 DEF CredentialOf, IsShownBy
  <2>5. Get(b.opt, "password", "") = Get(s.opt, "password", "")
    BY <1>3, <1>8, <2>3
  <2>6. again = pair
    BY <2>4, <2>5
  <2>7. Credentials(b) = Restrict(again, Filled(again, DOMAIN again))
    BY <1>8 DEF Credentials
  <2> HIDE DEF again, pair
  <2> QED
    BY <1>8, <2>1, <2>6, <2>7 DEF user
<1>9. CASE s.protocol = "hysteria"
  <2>1. Get(build_stream_settings(s), "transport", None) = [auth |-> s.uuid]
    <3>1. Get(build_stream_settings(s), "transport", None) = TransportSettings(s, "hysteria")
      BY <1>9, StreamParts
    <3> QED
      BY <3>1 DEF TransportSettings
  <2>2. Get([auth |-> s.uuid], "auth", "") = s.uuid /\ Get(user, "auth", "") = ""
    BY <1>9 DEF Credentials, Get, Has, None
  <2> DEFINE given == Get([auth |-> s.uuid], "auth", "")
             other == Get(user, "auth", "")
  <2>3. CredentialOf(ob) = IF given # "" THEN given ELSE other
    <3> HIDE DEF user
    <3> QED
      BY <1>1, <1>9, <2>1 DEF CredentialOf
  <2> HIDE DEF given, other
  <2>4. given = s.uuid /\ other = ""
    BY <2>2 DEF given, other
  <2>5. b.uuid = s.uuid
    BY <2>3, <2>4 DEF IsShownBy
  <2> QED
    BY <1>9, <2>5 DEF Credentials
<1> QED
  BY <1>4, <1>5, <1>6, <1>7, <1>8, <1>9 DEF ProxyProtocols

\* An option that may be left out, as a text.
Nil == ""
Text(f, k) == Get(f, k, "")

\* The layer that was built, read back: what the parser finds in it.
RealityOf(a, b, c, d, e) ==
  [serverName |-> a, fingerprint |-> b] ++ [publicKey |-> c, shortId |-> d, spiderX |-> e]

TlsOf(a, b, kept) ==
  [serverName |-> a, fingerprint |-> b] ++ [allowInsecure |-> FALSE] ++ kept

LEMMA RealityFields ==
  ASSUME NEW a, NEW b, NEW c, NEW d, NEW e, NEW layer,
         layer = RealityOf(a, b, c, d, e)
  PROVE  /\ Text(layer, "serverName") = a /\ Text(layer, "fingerprint") = b
         /\ Text(layer, "publicKey") = c /\ Text(layer, "shortId") = d
         /\ Text(layer, "spiderX") = e
<1> DEFINE f == [serverName |-> a, fingerprint |-> b]
           g == [publicKey |-> c, shortId |-> d, spiderX |-> e]
<1>1. \A x : /\ Get(f, "serverName", Get(g, "serverName", x)) = a
             /\ Get(f, "fingerprint", Get(g, "fingerprint", x)) = b
             /\ Get(f, "publicKey", Get(g, "publicKey", x)) = c
             /\ Get(f, "shortId", Get(g, "shortId", x)) = d
             /\ Get(f, "spiderX", Get(g, "spiderX", x)) = e
  BY DEF Get, Has
<1>2. layer = f ++ g
  BY DEF RealityOf
<1> HIDE DEF f, g
<1>3. \A k, x : Get(layer, k, x) = Get(f, k, Get(g, k, x))
  BY <1>2, JoinGets
<1>4. \A x : /\ Get(layer, "serverName", x) = a /\ Get(layer, "fingerprint", x) = b
             /\ Get(layer, "publicKey", x) = c /\ Get(layer, "shortId", x) = d
             /\ Get(layer, "spiderX", x) = e
  BY <1>1, <1>3
<1> QED
  BY <1>4 DEF Text

LEMMA TlsFields ==
  ASSUME NEW a, NEW b, NEW kept, DOMAIN kept \subseteq {"alpn"}, NEW layer,
         layer = TlsOf(a, b, kept)
  PROVE  /\ Text(layer, "serverName") = a /\ Text(layer, "fingerprint") = b
         /\ Text(layer, "alpn") = Text(kept, "alpn")
<1> DEFINE f == [serverName |-> a, fingerprint |-> b]
           g == [allowInsecure |-> FALSE]
<1>1. \A d : /\ Get(f, "serverName", d) = a
             /\ Get(f, "fingerprint", d) = b
             /\ Get(f, "alpn", Get(g, "alpn", d)) = d
  BY DEF Get, Has
<1>2. layer = (f ++ g) ++ kept
  BY DEF TlsOf
<1> HIDE DEF f, g
<1>3. \A k, d : Get(layer, k, d) = Get(f, k, Get(g, k, Get(kept, k, d)))
  <2>1. \A k, d : Get(layer, k, d) = Get(f ++ g, k, Get(kept, k, d))
    BY <1>2, JoinGets
  <2>2. \A k, d : Get(f ++ g, k, d) = Get(f, k, Get(g, k, d))
    BY JoinGets
  <2> QED
    BY <2>1, <2>2
<1>4. \A d : /\ Get(layer, "serverName", d) = a /\ Get(layer, "fingerprint", d) = b
             /\ Get(layer, "alpn", d) = Get(kept, "alpn", d)
  BY <1>1, <1>3
<1> QED
  BY <1>4 DEF Text

LEMMA LayersRead ==
  ASSUME NEW s, NEW stream, stream = build_stream_settings(s)
  PROVE  /\ s.security = "reality" =>
              LET layer == Reality(stream)
              IN  /\ DOMAIN Tls(stream) = {}
                  /\ Text(layer, "serverName") = Identity(s).serverName
                  /\ Text(layer, "fingerprint") = Identity(s).fingerprint
                  /\ Text(layer, "publicKey") = Text(s.opt, "pbk")
                  /\ Text(layer, "shortId") = Text(s.opt, "sid")
                  /\ Text(layer, "spiderX") = Get(s.raw, "spx", "/")
                  /\ \A k : Has(layer, k) <=> Text(layer, k) # Nil
         /\ s.security = "tls" =>
              LET layer == Tls(stream)
              IN  /\ DOMAIN Reality(stream) = {}
                  /\ Text(layer, "serverName") = Identity(s).serverName
                  /\ Text(layer, "fingerprint") = Identity(s).fingerprint
                  /\ Text(layer, "alpn") = Text(s.raw, "alpn")
                  /\ \A k : Has(layer, k) <=> Text(layer, k) # Nil
<1> DEFINE R == {"serverName", "fingerprint", "publicKey", "shortId", "spiderX"}
           T == {"serverName", "fingerprint", "alpn"}
           layer == LayerOf(stream)
           reality == Get(stream, "realitySettings", None)
           tls == Get(stream, "tlsSettings", None)
           a == Identity(s).serverName
           b == Identity(s).fingerprint
<1>1. /\ Reality(stream) = Restrict(reality, Filled(reality, R))
      /\ Tls(stream) = Restrict(tls, Filled(tls, T))
  BY DEF Reality, Tls
<1>2. Identity(s) = [serverName |-> a, fingerprint |-> b]
  BY DEF Identity
<1>3. ASSUME NEW f, NEW K, NEW kept, kept = Restrict(f, Filled(f, K))
      PROVE  /\ \A k \in K : Text(kept, k) = Text(f, k)
             /\ \A k : Has(kept, k) <=> Text(kept, k) # Nil
  BY <1>3 DEF Restrict, Filled, Get, Has, Text, Nil
<1>4. \A K : DOMAIN Restrict(None, Filled(None, K)) = {}
  BY DEF Restrict, Filled, Get, Has, None
<1>5. CASE s.security = "reality"
  <2> DEFINE c == Text(s.opt, "pbk")
             d == Text(s.opt, "sid")
             e == Get(s.raw, "spx", "/")
  <2>1. /\ reality = layer /\ tls = None
        /\ layer = Identity(s) ++ [publicKey |-> c, shortId |-> d, spiderX |-> e]
    BY <1>5, StreamParts DEF Text
  <2>2. layer = RealityOf(a, b, c, d, e)
    BY <1>2, <2>1 DEF RealityOf
  <2> HIDE DEF a, b, c, d, e, layer, reality, tls, R, T
  <2>3. /\ Text(layer, "serverName") = a /\ Text(layer, "fingerprint") = b
        /\ Text(layer, "publicKey") = c /\ Text(layer, "shortId") = d
        /\ Text(layer, "spiderX") = e
    BY <2>2, RealityFields
  <2>4. DOMAIN Tls(stream) = {}
    BY <1>1, <1>4, <2>1
  <2>5. /\ \A k \in R : Text(Reality(stream), k) = Text(layer, k)
        /\ \A k : Has(Reality(stream), k) <=> Text(Reality(stream), k) # Nil
    BY <1>1, <1>3, <2>1
  <2> QED
    BY <1>5, <2>3, <2>4, <2>5 DEF a, b, c, d, e, R
<1>6. CASE s.security = "tls"
  <2> DEFINE kept == Restrict(s.raw, Filled(s.raw, {"alpn"}))
  <2>1. /\ tls = layer /\ reality = None
        /\ layer = Identity(s) ++ [allowInsecure |-> FALSE] ++ kept
    BY <1>6, StreamParts
  <2>2. layer = TlsOf(a, b, kept)
    BY <1>2, <2>1 DEF TlsOf
  <2>3. DOMAIN kept \subseteq {"alpn"} /\ Text(kept, "alpn") = Text(s.raw, "alpn")
    BY RestrictFilled DEF Text
  <2> HIDE DEF a, b, kept, layer, reality, tls, R, T
  <2>4. /\ Text(layer, "serverName") = a /\ Text(layer, "fingerprint") = b
        /\ Text(layer, "alpn") = Text(kept, "alpn")
    BY <2>2, <2>3, TlsFields
  <2>5. DOMAIN Reality(stream) = {}
    BY <1>1, <1>4, <2>1
  <2>6. /\ \A k \in T : Text(Tls(stream), k) = Text(layer, k)
        /\ \A k : Has(Tls(stream), k) <=> Text(Tls(stream), k) # Nil
    BY <1>1, <1>3, <2>1
  <2> QED
    BY <1>6, <2>3, <2>4, <2>5, <2>6 DEF a, b, T
<1> QED
  BY <1>5, <1>6

\* What apply_stream fills the options and the parameters from.
ShownReality(stream) ==
  Named(Reality(stream), [sni |-> <<"serverName">>, fp |-> <<"fingerprint">>,
                          pbk |-> <<"publicKey">>, sid |-> <<"shortId">>])
ShownTls(stream) ==
  Named(Tls(stream), [sni |-> <<"serverName">>, fp |-> <<"fingerprint">>])
ShownSpider(stream) == Named(Reality(stream), [spx |-> <<"spiderX">>])
ShownAlpn(stream) == Named(Tls(stream), [alpn |-> <<"alpn">>])
MultiMode(settings) ==
  [k \in {"mode" : m \in {Get(settings, "multiMode", FALSE)} \cap {TRUE}} |-> "multi"]

LEMMA NoGet ==
  ASSUME NEW f, NEW k, ~Has(f, k), NEW d
  PROVE  Get(f, k, d) = d
BY DEF Get

LEMMA StandsGet ==
  ASSUME NEW f, NEW g, NEW x, NEW n, Stands(g, x, f, n), Has(f, n) <=> Text(f, n) # Nil, NEW d
  PROVE  Get(g, x, d) = IF Text(f, n) # Nil THEN Text(f, n) ELSE d
<1>1. Has(f, n) => Text(f, n) = f[n]
  BY DEF Text, Get
<1> QED
  BY <1>1 DEF Stands, Get

LEMMA ShownIs ==
  ASSUME NEW stream
  PROVE  /\ Stands(ShownReality(stream), "sni", Reality(stream), "serverName")
         /\ Stands(ShownReality(stream), "fp", Reality(stream), "fingerprint")
         /\ Stands(ShownReality(stream), "pbk", Reality(stream), "publicKey")
         /\ Stands(ShownReality(stream), "sid", Reality(stream), "shortId")
         /\ Stands(ShownTls(stream), "sni", Tls(stream), "serverName")
         /\ Stands(ShownTls(stream), "fp", Tls(stream), "fingerprint")
         /\ Stands(ShownSpider(stream), "spx", Reality(stream), "spiderX")
         /\ Stands(ShownAlpn(stream), "alpn", Tls(stream), "alpn")
         /\ DOMAIN ShownReality(stream) \subseteq {"sni", "fp", "pbk", "sid"}
         /\ DOMAIN ShownTls(stream) \subseteq {"sni", "fp"}
         /\ DOMAIN ShownSpider(stream) \subseteq {"spx"}
         /\ DOMAIN ShownAlpn(stream) \subseteq {"alpn"}
<1> DEFINE t1 == [sni |-> <<"serverName">>, fp |-> <<"fingerprint">>,
                  pbk |-> <<"publicKey">>, sid |-> <<"shortId">>]
           t2 == [sni |-> <<"serverName">>, fp |-> <<"fingerprint">>]
           t3 == [spx |-> <<"spiderX">>]
           t4 == [alpn |-> <<"alpn">>]
           reality == Reality(stream)
           tls == Tls(stream)
<1>1. /\ DOMAIN t1 = {"sni", "fp", "pbk", "sid"} /\ DOMAIN t2 = {"sni", "fp"}
      /\ DOMAIN t3 = {"spx"} /\ DOMAIN t4 = {"alpn"}
  OBVIOUS
<1>2. /\ t1["sni"] = <<"serverName">> /\ t1["fp"] = <<"fingerprint">>
      /\ t1["pbk"] = <<"publicKey">> /\ t1["sid"] = <<"shortId">>
      /\ t2["sni"] = <<"serverName">> /\ t2["fp"] = <<"fingerprint">>
      /\ t3["spx"] = <<"spiderX">> /\ t4["alpn"] = <<"alpn">>
  OBVIOUS
<1>3. /\ ShownReality(stream) = Named(reality, t1) /\ ShownTls(stream) = Named(tls, t2)
      /\ ShownSpider(stream) = Named(reality, t3) /\ ShownAlpn(stream) = Named(tls, t4)
  BY DEF ShownReality, ShownTls, ShownSpider, ShownAlpn
<1> HIDE DEF t1, t2, t3, t4
<1>4. /\ Stands(Named(reality, t1), "sni", reality, "serverName")
      /\ Stands(Named(reality, t1), "fp", reality, "fingerprint")
      /\ Stands(Named(reality, t1), "pbk", reality, "publicKey")
      /\ Stands(Named(reality, t1), "sid", reality, "shortId")
      /\ DOMAIN Named(reality, t1) \subseteq DOMAIN t1
  BY <1>1, <1>2, NamedIs
<1>5. /\ Stands(Named(tls, t2), "sni", tls, "serverName")
      /\ Stands(Named(tls, t2), "fp", tls, "fingerprint")
      /\ DOMAIN Named(tls, t2) \subseteq DOMAIN t2
  BY <1>1, <1>2, NamedIs
<1>6. /\ Stands(Named(reality, t3), "spx", reality, "spiderX")
      /\ DOMAIN Named(reality, t3) \subseteq DOMAIN t3
  BY <1>1, <1>2, NamedIs
<1>7. /\ Stands(Named(tls, t4), "alpn", tls, "alpn")
      /\ DOMAIN Named(tls, t4) \subseteq DOMAIN t4
  BY <1>1, <1>2, NamedIs
<1> QED
  BY <1>1, <1>3, <1>4, <1>5, <1>6, <1>7

LEMMA OptionsAre ==
  ASSUME NEW plain, NEW stream, NEW more, NEW opt, opt = StreamOptions(plain, stream) ++ more,
         NEW settings, settings = Get(stream, "transport", None),
         NEW K, K = TransportOptions(StreamTransport(plain, stream)).opt
  PROVE  \A k, d :
           Get(opt, k, d) =
             Get(ShownReality(stream), k, Get(ShownTls(stream), k,
               Get(Kept(settings, K), k, Get(MultiMode(settings), k, Get(more, k, d)))))
<1> DEFINE a == ShownReality(stream)
           b == ShownTls(stream)
           c == Kept(settings, K)
           e == MultiMode(settings)
<1>1. opt = (((a ++ b) ++ c) ++ e) ++ more
  BY DEF StreamOptions, ShownReality, ShownTls, Kept, MultiMode
<1> HIDE DEF a, b, c, e
<1>2. \A k, d : Get(opt, k, d) = Get(((a ++ b) ++ c) ++ e, k, Get(more, k, d))
  BY <1>1, JoinGets
<1>3. \A k, d : Get(((a ++ b) ++ c) ++ e, k, d) = Get((a ++ b) ++ c, k, Get(e, k, d))
  BY JoinGets
<1>4. \A k, d : Get((a ++ b) ++ c, k, d) = Get(a, k, Get(b, k, Get(c, k, d)))
  BY JoinGets
<1> QED
  BY <1>2, <1>3, <1>4 DEF a, b, c, e

LEMMA ParametersAre ==
  ASSUME NEW plain, NEW stream, NEW more, NEW raw,
         raw = StreamParameters(plain, stream) ++ more,
         NEW settings, settings = Get(stream, "transport", None),
         NEW K, K = TransportOptions(StreamTransport(plain, stream)).raw
  PROVE  \A k, d :
           Get(raw, k, d) =
             Get(Kept(settings, K), k, Get(ShownSpider(stream), k,
               Get(ShownAlpn(stream), k, Get(Insecure(stream), k, Get(more, k, d)))))
<1> DEFINE a == Kept(settings, K)
           b == ShownSpider(stream)
           c == ShownAlpn(stream)
           e == Insecure(stream)
<1>1. raw = (((a ++ b) ++ c) ++ e) ++ more
  BY DEF StreamParameters, ShownSpider, ShownAlpn, Kept
<1> HIDE DEF a, b, c, e
<1>2. \A k, d : Get(raw, k, d) = Get(((a ++ b) ++ c) ++ e, k, Get(more, k, d))
  BY <1>1, JoinGets
<1>3. \A k, d : Get(((a ++ b) ++ c) ++ e, k, d) = Get((a ++ b) ++ c, k, Get(e, k, d))
  BY JoinGets
<1>4. \A k, d : Get((a ++ b) ++ c, k, d) = Get(a, k, Get(b, k, Get(c, k, d)))
  BY JoinGets
<1> QED
  BY <1>2, <1>3, <1>4 DEF a, b, c, e

\* The keys of the other parts.
LEMMA PartKeys ==
  ASSUME NEW settings, NEW ob
  PROVE  /\ \A K : DOMAIN Kept(settings, K) \subseteq K
         /\ DOMAIN MultiMode(settings) \subseteq {"mode"}
         /\ DOMAIN OptionsOf(ob) \subseteq {"flow", "method", "password"}
         /\ DOMAIN ParametersOf(ob) \subseteq {"scy", "aid"}
         /\ \A transport :
              /\ TransportOptions(transport).opt \subseteq {"path", "mode"}
              /\ TransportOptions(transport).raw \subseteq {"host", "serviceName", "authority"}
<1>1. \A f, K : DOMAIN Restrict(f, Filled(f, K)) \subseteq K
  BY DEF Restrict, Filled
<1>2. \A K : DOMAIN Kept(settings, K) \subseteq K
  BY <1>1 DEF Kept
<1>3. DOMAIN MultiMode(settings) \subseteq {"mode"}
  BY DEF MultiMode
<1>4. DOMAIN OptionsOf(ob) \subseteq {"flow", "method", "password"}
  <2> DEFINE user == SettingsOf(ob).user
             kept == CASE ob.protocol \in {"vless", "vmess"}  -> {"flow"}
                       [] ob.protocol = "trojan"              -> {"flow", "password"}
                       [] ob.protocol = "shadowsocks"         -> {"method", "password"}
                       [] ob.protocol \in {"http", "socks"}   -> {"password"}
                       [] OTHER                               -> {}
  <2>1. OptionsOf(ob) = Restrict(user, Filled(user, kept))
    BY DEF OptionsOf
  <2>2. kept \subseteq {"flow", "method", "password"}
    OBVIOUS
  <2> HIDE DEF kept, user
  <2> QED
    BY <1>1, <2>1, <2>2
<1>5. DOMAIN ParametersOf(ob) \subseteq {"scy", "aid"}
  <2> DEFINE table == [scy |-> <<"security">>, aid |-> <<"alterId">>]
             user == SettingsOf(ob).user
  <2>1. ParametersOf(ob) = None \/ ParametersOf(ob) = Named(user, table)
    BY DEF ParametersOf
  <2>2. DOMAIN table = {"scy", "aid"} /\ DOMAIN None = {}
    BY DEF None
  <2> HIDE DEF table, user
  <2>3. DOMAIN Named(user, table) \subseteq DOMAIN table
    BY NamedIs
  <2> QED
    BY <2>1, <2>2, <2>3
<1>6. \A transport :
        /\ TransportOptions(transport).opt \subseteq {"path", "mode"}
        /\ TransportOptions(transport).raw \subseteq {"host", "serviceName", "authority"}
  BY DEF TransportOptions
<1> QED
  BY <1>2, <1>3, <1>4, <1>5, <1>6

\* The options and parameters of a location shown from an outbound.
IsRead(b, stream, ob) ==
  LET settings == Get(stream, "transport", None)
      kept     == TransportOptions(b.transport)
  IN  /\ \A k, d :
           Get(b.opt, k, d) =
             Get(ShownReality(stream), k, Get(ShownTls(stream), k,
               Get(Kept(settings, kept.opt), k,
                 Get(MultiMode(settings), k, Get(OptionsOf(ob), k, d)))))
      /\ \A k, d :
           Get(b.raw, k, d) =
             Get(Kept(settings, kept.raw), k, Get(ShownSpider(stream), k,
               Get(ShownAlpn(stream), k, Get(Insecure(stream), k, Get(ParametersOf(ob), k, d)))))

\* What each part says of the keys of the others: nothing.
LEMMA ReadBy ==
  ASSUME NEW b, NEW stream, NEW ob, IsRead(b, stream, ob)
  PROVE  LET settings == Get(stream, "transport", None)
             kept     == TransportOptions(b.transport)
         IN  /\ \A k \in {"sni", "fp"} : \A d :
                  Get(b.opt, k, d) = Get(ShownReality(stream), k, Get(ShownTls(stream), k, d))
             /\ \A k \in {"pbk", "sid"} : \A d : Get(b.opt, k, d) = Get(ShownReality(stream), k, d)
             /\ \A k \in {"path", "mode"} : \A d :
                  Get(b.opt, k, d) =
                    Get(Kept(settings, kept.opt), k, Get(MultiMode(settings), k, d))
             /\ \A k \in {"flow", "method", "password"} : \A d :
                  Get(b.opt, k, d) = Get(OptionsOf(ob), k, d)
             /\ \A d : Get(b.raw, "spx", d) = Get(ShownSpider(stream), "spx", d)
             /\ \A d : Get(b.raw, "alpn", d) = Get(ShownAlpn(stream), "alpn", d)
             /\ \A k \in {"host", "serviceName", "authority"} : \A d :
                  Get(b.raw, k, d) = Get(Kept(settings, kept.raw), k, d)
             /\ \A k \in {"scy", "aid"} : \A d : Get(b.raw, k, d) = Get(ParametersOf(ob), k, d)
             /\ \A k \in {"headerType", "extra"} : \A d : Get(b.raw, k, d) = d
<1> DEFINE settings == Get(stream, "transport", None)
           o == Kept(settings, TransportOptions(b.transport).opt)
           r == Kept(settings, TransportOptions(b.transport).raw)
           sr == ShownReality(stream)
           st == ShownTls(stream)
           sp == ShownSpider(stream)
           sa == ShownAlpn(stream)
           si == Insecure(stream)
           mm == MultiMode(settings)
           oo == OptionsOf(ob)
           po == ParametersOf(ob)
<1>1. /\ DOMAIN sr \subseteq {"sni", "fp", "pbk", "sid"} /\ DOMAIN st \subseteq {"sni", "fp"}
      /\ DOMAIN sp \subseteq {"spx"} /\ DOMAIN sa \subseteq {"alpn"}
      /\ DOMAIN si \subseteq {"allowInsecure"}
  BY ShownIs DEF Insecure
<1>2. /\ DOMAIN o \subseteq {"path", "mode"} /\ DOMAIN mm \subseteq {"mode"}
      /\ DOMAIN r \subseteq {"host", "serviceName", "authority"}
      /\ DOMAIN oo \subseteq {"flow", "method", "password"} /\ DOMAIN po \subseteq {"scy", "aid"}
  BY PartKeys
<1>3. /\ \A k, d : Get(b.opt, k, d) = Get(sr, k, Get(st, k, Get(o, k, Get(mm, k, Get(oo, k, d)))))
      /\ \A k, d : Get(b.raw, k, d) = Get(r, k, Get(sp, k, Get(sa, k, Get(si, k, Get(po, k, d)))))
  BY DEF IsRead
<1> HIDE DEF settings, o, r, sr, st, sp, sa, si, mm, oo, po
<1>4. \A f, k, d : k \notin DOMAIN f => Get(f, k, d) = d
  BY DEF Get, Has
<1>5. ASSUME NEW k \in {"sni", "fp"}, NEW d
      PROVE  Get(b.opt, k, d) = Get(sr, k, Get(st, k, d))
  <2>1. k \notin DOMAIN o /\ k \notin DOMAIN mm /\ k \notin DOMAIN oo
    BY <1>1, <1>2
  <2>2. \A x : Get(o, k, x) = x /\ Get(mm, k, x) = x /\ Get(oo, k, x) = x
    BY <1>4, <2>1
  <2> QED
    BY <1>3, <2>2
<1>6. ASSUME NEW k \in {"pbk", "sid"}, NEW d
      PROVE  Get(b.opt, k, d) = Get(sr, k, d)
  <2>1. k \notin DOMAIN st /\ k \notin DOMAIN o /\ k \notin DOMAIN mm /\ k \notin DOMAIN oo
    BY <1>1, <1>2
  <2>2. \A x : Get(st, k, x) = x /\ Get(o, k, x) = x /\ Get(mm, k, x) = x /\ Get(oo, k, x) = x
    BY <1>4, <2>1
  <2> QED
    BY <1>3, <2>2
<1>7. ASSUME NEW k \in {"path", "mode"}, NEW d
      PROVE  Get(b.opt, k, d) = Get(o, k, Get(mm, k, d))
  <2>1. k \notin DOMAIN sr /\ k \notin DOMAIN st /\ k \notin DOMAIN oo
    BY <1>1, <1>2
  <2>2. \A x : Get(sr, k, x) = x /\ Get(st, k, x) = x /\ Get(oo, k, x) = x
    BY <1>4, <2>1
  <2> QED
    BY <1>3, <2>2
<1>8. ASSUME NEW k \in {"flow", "method", "password"}, NEW d
      PROVE  Get(b.opt, k, d) = Get(oo, k, d)
  <2>1. k \notin DOMAIN sr /\ k \notin DOMAIN st /\ k \notin DOMAIN o /\ k \notin DOMAIN mm
    BY <1>1, <1>2
  <2>2. \A x : Get(sr, k, x) = x /\ Get(st, k, x) = x /\ Get(o, k, x) = x /\ Get(mm, k, x) = x
    BY <1>4, <2>1
  <2> QED
    BY <1>3, <2>2
<1>9. ASSUME NEW k \in {"host", "serviceName", "authority"}, NEW d
      PROVE  Get(b.raw, k, d) = Get(r, k, d)
  <2>1. k \notin DOMAIN sp /\ k \notin DOMAIN sa /\ k \notin DOMAIN si /\ k \notin DOMAIN po
    BY <1>1, <1>2
  <2>2. \A x : Get(sp, k, x) = x /\ Get(sa, k, x) = x /\ Get(si, k, x) = x /\ Get(po, k, x) = x
    BY <1>4, <2>1
  <2> QED
    BY <1>3, <2>2
<1>10. ASSUME NEW k \in {"scy", "aid"}, NEW d
      PROVE  Get(b.raw, k, d) = Get(po, k, d)
  <2>1. k \notin DOMAIN r /\ k \notin DOMAIN sp /\ k \notin DOMAIN sa /\ k \notin DOMAIN si
    BY <1>1, <1>2
  <2>2. \A x : Get(r, k, x) = x /\ Get(sp, k, x) = x /\ Get(sa, k, x) = x /\ Get(si, k, x) = x
    BY <1>4, <2>1
  <2> QED
    BY <1>3, <2>2
<1>11. ASSUME NEW k \in {"headerType", "extra"}, NEW d
      PROVE  Get(b.raw, k, d) = d
  <2>1. /\ k \notin DOMAIN r /\ k \notin DOMAIN sp /\ k \notin DOMAIN sa /\ k \notin DOMAIN si
        /\ k \notin DOMAIN po
    BY <1>1, <1>2
  <2>2. \A x : /\ Get(r, k, x) = x /\ Get(sp, k, x) = x /\ Get(sa, k, x) = x
              /\ Get(si, k, x) = x /\ Get(po, k, x) = x
    BY <1>4, <2>1
  <2> QED
    BY <1>3, <2>2
<1>12. /\ \A d : Get(b.raw, "spx", d) = Get(sp, "spx", d)
       /\ \A d : Get(b.raw, "alpn", d) = Get(sa, "alpn", d)
  <2>1. /\ "spx" \notin DOMAIN r /\ "spx" \notin DOMAIN sa /\ "spx" \notin DOMAIN si
        /\ "spx" \notin DOMAIN po /\ "alpn" \notin DOMAIN r /\ "alpn" \notin DOMAIN sp
        /\ "alpn" \notin DOMAIN si /\ "alpn" \notin DOMAIN po
    BY <1>1, <1>2
  <2>2. \A x : /\ Get(r, "spx", x) = x /\ Get(sa, "spx", x) = x /\ Get(si, "spx", x) = x
              /\ Get(po, "spx", x) = x /\ Get(r, "alpn", x) = x /\ Get(sp, "alpn", x) = x
              /\ Get(si, "alpn", x) = x /\ Get(po, "alpn", x) = x
    BY <1>4, <2>1
  <2> QED
    BY <1>3, <2>2
<1> QED
  BY <1>5, <1>6, <1>7, <1>8, <1>9, <1>10, <1>11, <1>12
     DEF settings, o, r, sr, st, sp, sa, si, mm, oo, po

LEMMA OrElseIs ==
  ASSUME NEW x, NEW y, y # Nil
  PROVE  /\ OrElse(x, y) # Nil
         /\ OrElse(OrElse(x, y), y) = OrElse(x, y)
BY DEF OrElse, Nil

LEMMA LayerBack ==
  ASSUME NEW s, s.host # Nil, Get(s.raw, "spx", "/") # Nil, NEW ob,
         NEW b, b.host = s.host, b.security = build_stream_settings(s).security,
         IsRead(b, build_stream_settings(s), ob)
  PROVE  SecurityLayer(b) = SecurityLayer(s)
<1> DEFINE stream == build_stream_settings(s)
           reality == Reality(stream)
           tls == Tls(stream)
           sr == ShownReality(stream)
           st == ShownTls(stream)
           name == Identity(s).serverName
           print == Identity(s).fingerprint
<1>1. b.security = IF s.security \in {"reality", "tls"} THEN s.security ELSE "none"
  BY StreamParts
<1>2. name # Nil /\ print # Nil
  <2>1. name = OrElse(Text(s.opt, "sni"), s.host) /\ print = OrElse(Text(s.opt, "fp"), "chrome")
    BY DEF Identity, Text
  <2>2. "chrome" # Nil
    BY DEF Nil
  <2> QED
    BY <2>1, <2>2, OrElseIs
<1>3. ASSUME \A d : Get(b.opt, "sni", d) = name, \A d : Get(b.opt, "fp", d) = print
      PROVE  Identity(b) = Identity(s)
  <2>1. Text(b.opt, "sni") = name /\ Text(b.opt, "fp") = print
    BY <1>3 DEF Text
  <2>2. /\ Identity(b) = [serverName |-> OrElse(Text(b.opt, "sni"), b.host),
                          fingerprint |-> OrElse(Text(b.opt, "fp"), "chrome")]
        /\ Identity(s) = [serverName |-> OrElse(Text(s.opt, "sni"), s.host),
                          fingerprint |-> OrElse(Text(s.opt, "fp"), "chrome")]
    BY DEF Identity, Text
  <2>3. OrElse(name, s.host) = name /\ OrElse(print, "chrome") = print
    BY <1>2 DEF OrElse, Nil
  <2>4. Identity(b) = [serverName |-> name, fingerprint |-> print]
    <3> HIDE DEF name, print
    <3> QED
      BY <2>1, <2>2, <2>3
  <2>5. Identity(s) = [serverName |-> name, fingerprint |-> print]
    BY <2>2
  <2> QED
    BY <2>4, <2>5
<1>4. CASE s.security = "reality"
  <2> HIDE DEF stream
  <2>1. /\ DOMAIN tls = {} /\ Text(reality, "serverName") = name
        /\ Text(reality, "fingerprint") = print
        /\ Text(reality, "publicKey") = Text(s.opt, "pbk")
        /\ Text(reality, "shortId") = Text(s.opt, "sid")
        /\ Text(reality, "spiderX") = Get(s.raw, "spx", "/")
        /\ \A k : Has(reality, k) <=> Text(reality, k) # Nil
    BY <1>4, LayersRead DEF stream
  <2> HIDE DEF reality, tls, sr, st, name, print
  <2>2. /\ \A d : Get(sr, "sni", d) = name
        /\ \A d : Get(sr, "fp", d) = print
        /\ \A d : Get(sr, "pbk", d) = IF Text(s.opt, "pbk") # Nil THEN Text(s.opt, "pbk") ELSE d
        /\ \A d : Get(sr, "sid", d) = IF Text(s.opt, "sid") # Nil THEN Text(s.opt, "sid") ELSE d
    <3>1. /\ Stands(sr, "sni", reality, "serverName") /\ Stands(sr, "fp", reality, "fingerprint")
          /\ Stands(sr, "pbk", reality, "publicKey") /\ Stands(sr, "sid", reality, "shortId")
      BY ShownIs DEF sr, reality
    <3> QED
      BY <1>2, <2>1, <3>1, StandsGet
  <2>3. \A d : Get(ShownSpider(stream), "spx", d) = Get(s.raw, "spx", "/")
    <3>1. Stands(ShownSpider(stream), "spx", reality, "spiderX")
      BY ShownIs DEF reality
    <3> QED
      BY <2>1, <3>1, StandsGet
  <2>4. /\ \A d : Get(b.opt, "sni", d) = name
        /\ \A d : Get(b.opt, "fp", d) = print
        /\ \A d : Get(b.opt, "pbk", d) = Get(sr, "pbk", d)
        /\ \A d : Get(b.opt, "sid", d) = Get(sr, "sid", d)
        /\ \A d : Get(b.raw, "spx", d) = Get(s.raw, "spx", "/")
    BY <2>2, <2>3, ReadBy DEF stream, sr
  <2>5. Identity(b) = Identity(s)
    BY <1>3, <2>4
  <2>6. Text(b.opt, "pbk") = Text(s.opt, "pbk") /\ Text(b.opt, "sid") = Text(s.opt, "sid")
    BY <2>2, <2>4 DEF Text, Nil
  <2> QED
    BY <1>1, <1>4, <2>4, <2>5, <2>6, LayerSame DEF Text
<1>5. CASE s.security = "tls"
  <2> HIDE DEF stream
  <2>1. /\ DOMAIN reality = {} /\ Text(tls, "serverName") = name
        /\ Text(tls, "fingerprint") = print
        /\ Text(tls, "alpn") = Text(s.raw, "alpn")
        /\ \A k : Has(tls, k) <=> Text(tls, k) # Nil
    BY <1>5, LayersRead DEF stream
  <2> HIDE DEF reality, tls, sr, st, name, print
  <2>2. \A d : Get(st, "sni", d) = name /\ Get(st, "fp", d) = print
    <3>1. Stands(st, "sni", tls, "serverName") /\ Stands(st, "fp", tls, "fingerprint")
      BY ShownIs DEF st, tls
    <3> QED
      BY <1>2, <2>1, <3>1, StandsGet
  <2>3. \A d : Get(sr, "sni", d) = d /\ Get(sr, "fp", d) = d
    <3>1. Stands(sr, "sni", reality, "serverName") /\ Stands(sr, "fp", reality, "fingerprint")
      BY ShownIs DEF sr, reality
    <3> QED
      BY <2>1, <3>1 DEF Stands, Has, Get
  <2>4. /\ \A d : Get(b.opt, "sni", d) = Get(sr, "sni", Get(st, "sni", d))
        /\ \A d : Get(b.opt, "fp", d) = Get(sr, "fp", Get(st, "fp", d))
        /\ \A d : Get(b.raw, "alpn", d) = Get(ShownAlpn(stream), "alpn", d)
    BY ReadBy DEF stream, sr, st
  <2>5. Identity(b) = Identity(s)
    BY <1>3, <2>2, <2>3, <2>4
  <2>6. \A d : Get(ShownAlpn(stream), "alpn", d)
                 = IF Text(s.raw, "alpn") # Nil THEN Text(s.raw, "alpn") ELSE d
    <3>1. Stands(ShownAlpn(stream), "alpn", tls, "alpn")
      BY ShownIs DEF tls
    <3> QED
      BY <2>1, <3>1, StandsGet
  <2>7. Text(b.raw, "alpn") = Text(s.raw, "alpn")
    BY <2>4, <2>6 DEF Text, Nil
  <2> QED
    BY <1>1, <1>5, <2>5, <2>7, LayerSame DEF Text
<1>6. CASE s.security \notin {"reality", "tls"}
  BY <1>1, <1>6, LayerSame
<1> QED
  BY <1>4, <1>5, <1>6

LEMMA KeptGet ==
  ASSUME NEW f, NEW K, NEW k \in K
  PROVE  /\ Text(f, k) # Nil => \A d : Get(Kept(f, K), k, d) = Text(f, k)
         /\ Text(Kept(f, K), k) = Text(f, k)
<1>1. Has(Kept(f, K), k) <=> Text(f, k) # Nil
  BY DEF Kept, Restrict, Filled, Has, Text, Nil
<1>2. Has(Kept(f, K), k) => Kept(f, K)[k] = Text(f, k)
  BY <1>1 DEF Kept, Restrict, Filled, Has, Text, Nil, Get
<1>3. \A d : Get(Kept(f, K), k, d) = IF Text(f, k) # Nil THEN Text(f, k) ELSE d
  BY <1>1, <1>2 DEF Get
<1>4. Text(Kept(f, K), k) = IF Text(f, k) # Nil THEN Text(f, k) ELSE Nil
  BY <1>3 DEF Text, Nil
<1> QED
  BY <1>3, <1>4

\* The settings of the transports, as maps of values.
PathOf(p, kept) == [path |-> p] ++ kept
GunOf(n, multi, kept) == [serviceName |-> n, multiMode |-> multi] ++ kept

LEMMA PathFields ==
  ASSUME NEW p, NEW kept
  PROVE  /\ Text(PathOf(p, kept), "path") = p
         /\ Text(PathOf(p, kept), "host") = Text(kept, "host")
<1> DEFINE f == [path |-> p]
<1>1. \A d : Get(f, "path", d) = p /\ Get(f, "host", d) = d
  BY DEF Get, Has
<1> HIDE DEF f
<1>2. \A k, d : Get(f ++ kept, k, d) = Get(f, k, Get(kept, k, d))
  BY JoinGets
<1>3. \A d : Get(f ++ kept, "path", d) = p /\ Get(f ++ kept, "host", d) = Get(kept, "host", d)
  BY <1>1, <1>2
<1>4. PathOf(p, kept) = f ++ kept
  BY DEF PathOf, f
<1> QED
  BY <1>3, <1>4 DEF Text

LEMMA XhttpFields ==
  ASSUME NEW p, NEW m, NEW kept
  PROVE  /\ Text(XhttpOf(p, m, kept), "path") = p
         /\ Text(XhttpOf(p, m, kept), "mode") = m
         /\ Text(XhttpOf(p, m, kept), "host") = Text(kept, "host")
<1> DEFINE f == [path |-> p]
           g == [mode |-> m]
<1>1. \A d : /\ Get(f, "path", d) = p /\ Get(f, "host", d) = d
             /\ Get(f, "mode", d) = d /\ Get(g, "mode", d) = m /\ Get(g, "host", d) = d
  BY DEF Get, Has
<1> HIDE DEF f, g
<1>2. /\ \A k, d : Get((f ++ g) ++ kept, k, d) = Get(f ++ g, k, Get(kept, k, d))
      /\ \A k, d : Get(f ++ g, k, d) = Get(f, k, Get(g, k, d))
  BY JoinGets
<1>3. \A d : /\ Get((f ++ g) ++ kept, "path", d) = p
             /\ Get((f ++ g) ++ kept, "mode", d) = m
             /\ Get((f ++ g) ++ kept, "host", d) = Get(kept, "host", d)
  BY <1>1, <1>2
<1>4. XhttpOf(p, m, kept) = (f ++ g) ++ kept
  BY DEF XhttpOf, f, g
<1> QED
  BY <1>3, <1>4 DEF Text

LEMMA GunFields ==
  ASSUME NEW n, NEW multi, NEW kept
  PROVE  /\ Text(GunOf(n, multi, kept), "serviceName") = n
         /\ Text(GunOf(n, multi, kept), "authority") = Text(kept, "authority")
         /\ \A d : Get(GunOf(n, multi, kept), "multiMode", d) = multi
<1> DEFINE f == [serviceName |-> n, multiMode |-> multi]
<1>1. \A d : /\ Get(f, "serviceName", d) = n /\ Get(f, "authority", d) = d
             /\ Get(f, "multiMode", d) = multi
  BY DEF Get, Has
<1> HIDE DEF f
<1>2. \A k, d : Get(f ++ kept, k, d) = Get(f, k, Get(kept, k, d))
  BY JoinGets
<1>3. \A d : /\ Get(f ++ kept, "serviceName", d) = n
             /\ Get(f ++ kept, "authority", d) = Get(kept, "authority", d)
             /\ Get(f ++ kept, "multiMode", d) = multi
  BY <1>1, <1>2
<1>4. GunOf(n, multi, kept) = f ++ kept
  BY DEF GunOf, f
<1> QED
  BY <1>3, <1>4 DEF Text

Networks == {"tcp", "ws", "xhttp", "httpupgrade", "grpc", "hysteria"}

LEMMA NetworkIs ==
  ASSUME NEW network \in Networks
  PROVE  normalize_network(network) = network /\ xray_network(network) = network
BY NetworkOf DEF Networks, normalize_network

LEMMA TransportBack ==
  ASSUME NEW s, NEW ob, NEW b, NEW network \in Networks, network = xray_network(s.transport),
         b.transport = network, IsRead(b, build_stream_settings(s), ob),
         network = "hysteria" => b.uuid = s.uuid,
         Get(s.opt, "path", "/") # Nil, Get(s.opt, "mode", "auto") # Nil,
         ~Has(TransportSettings(s, network), "headerType"), ExtraOf(s) = None
  PROVE  TransportSettings(b, network) = TransportSettings(s, network)
<1> DEFINE stream == build_stream_settings(s)
           settings == TransportSettings(s, network)
           opt == TransportOptions(network).opt
           raw == TransportOptions(network).raw
<1>1. /\ \A k \in {"path", "mode"} : \A d :
           Get(b.opt, k, d) = Get(Kept(settings, opt), k, Get(MultiMode(settings), k, d))
      /\ \A k \in {"host", "serviceName", "authority"} : \A d :
           Get(b.raw, k, d) = Get(Kept(settings, raw), k, d)
      /\ \A k \in {"headerType", "extra"} : \A d : Get(b.raw, k, d) = d
  <2>1. Get(stream, "transport", None) = settings
    BY StreamParts
  <2> HIDE DEF settings
  <2> QED
    BY <2>1, ReadBy
<1>2. \A k \in {"host", "serviceName", "authority"} : k \in raw => Text(b.raw, k) = Text(settings, k)
  <2> HIDE DEF settings, raw
  <2>1. \A f, K : \A k \in K : Text(Kept(f, K), k) = Text(f, k)
    BY KeptGet
  <2>2. ASSUME NEW k \in {"host", "serviceName", "authority"}, k \in raw
        PROVE  Text(b.raw, k) = Text(settings, k)
    <3>1. Text(Kept(settings, raw), k) = Text(settings, k)
      BY <2>1, <2>2
    <3>2. \A d : Get(b.raw, k, d) = Get(Kept(settings, raw), k, d)
      BY <1>1
    <3> QED
      BY <3>1, <3>2 DEF Text
  <2> QED
    BY <2>2
<1>3. ASSUME NEW k \in {"path", "mode"} \cap opt, Text(settings, k) # Nil
      PROVE  \A d : Get(b.opt, k, d) = Text(settings, k)
  <2> HIDE DEF settings, opt
  <2>0. \A f, K : \A x \in K :
          Text(f, x) # Nil => \A d : Get(Kept(f, K), x, d) = Text(f, x)
    BY KeptGet
  <2>1. \A d : Get(Kept(settings, opt), k, d) = Text(settings, k)
    BY <1>3, <2>0
  <2> QED
    BY <1>1, <1>3, <2>1
<1> DEFINE path == Get(s.opt, "path", "/")
           mode == Get(s.opt, "mode", "auto")
<1>4. CASE network \in {"ws", "httpupgrade"}
  <2> DEFINE kept == Kept(s.raw, {"host"})
  <2>1. settings = PathOf(path, kept)
    BY <1>4 DEF TransportSettings, PathOf, Kept
  <2>2. opt = {"path"} /\ raw = {"host"}
    BY <1>4 DEF TransportOptions
  <2>3. Text(kept, "host") = Text(s.raw, "host")
    BY KeptGet
  <2> HIDE DEF settings, opt, raw, path, kept
  <2>4. Text(settings, "path") = path /\ Text(settings, "host") = Text(kept, "host")
    BY <2>1, PathFields
  <2>5. path # Nil
    BY DEF path
  <2>6. \A d : Get(b.opt, "path", d) = path
    BY <1>3, <2>2, <2>4, <2>5
  <2>7. Text(b.raw, "host") = Text(s.raw, "host")
    BY <1>2, <2>2, <2>3, <2>4
  <2>8. Get(b.opt, "path", "/") = Get(s.opt, "path", "/")
    BY <2>6 DEF path
  <2>9. Get(b.raw, "host", "") = Get(s.raw, "host", "")
    BY <2>7 DEF Text
  <2>10. network # "tcp" /\ network # "xhttp" /\ network # "grpc" /\ network # "hysteria"
    BY <1>4
  <2>11. network \in {"tcp", "ws", "xhttp", "httpupgrade", "grpc", "hysteria"}
    BY <1>4
  <2> QED
    BY <2>8, <2>9, <2>10, <2>11, TransportSame
<1>5. CASE network = "xhttp"
  <2> DEFINE kept == Kept(s.raw, {"host"})
  <2>1. settings = XhttpOf(path, mode, kept)
    BY <1>5, XhttpIs
  <2>2. opt = {"path", "mode"} /\ raw = {"host"}
    BY <1>5 DEF TransportOptions
  <2>3. Text(kept, "host") = Text(s.raw, "host")
    BY KeptGet
  <2>4. path # Nil /\ mode # Nil
    OBVIOUS
  <2>5. ExtraOf(b) = None
    <3>1. ~Has(b.raw, "extra")
      <4>1. Get(b.raw, "extra", 0) = 0 /\ Get(b.raw, "extra", 1) = 1
        BY <1>1
      <4> QED
        BY <4>1 DEF Get
    <3> QED
      BY <3>1 DEF ExtraOf
  <2> HIDE DEF settings, opt, raw, path, mode, kept
  <2>6. /\ Text(settings, "path") = path /\ Text(settings, "mode") = mode
        /\ Text(settings, "host") = Text(kept, "host")
    BY <2>1, XhttpFields
  <2>7. \A d : Get(b.opt, "path", d) = path /\ Get(b.opt, "mode", d) = mode
    BY <1>3, <2>2, <2>4, <2>6
  <2>8. Text(b.raw, "host") = Text(s.raw, "host")
    BY <1>2, <2>2, <2>3, <2>6
  <2> QED
    BY <1>5, <2>5, <2>7, <2>8, TransportSame DEF Text, path, mode
<1>6. CASE network = "grpc"
  <2> DEFINE kept == Kept(s.raw, {"authority"})
             name == Text(s.raw, "serviceName")
             multi == Several(s)
  <2>1. settings = GunOf(name, multi, kept)
    BY <1>6 DEF TransportSettings, GunOf, Kept, Text, Several
  <2>2. opt = {} /\ raw = {"serviceName", "authority"}
    BY <1>6 DEF TransportOptions
  <2>3. Text(kept, "authority") = Text(s.raw, "authority")
    BY KeptGet
  <2>4. multi \in BOOLEAN
    BY DEF Several
  <2> HIDE DEF settings, opt, raw, kept, name, multi
  <2>5. /\ Text(settings, "serviceName") = name
        /\ Text(settings, "authority") = Text(kept, "authority")
        /\ \A d : Get(settings, "multiMode", d) = multi
    BY <2>1, GunFields
  <2>6. /\ Text(b.raw, "serviceName") = Text(s.raw, "serviceName")
        /\ Text(b.raw, "authority") = Text(s.raw, "authority")
    BY <1>2, <2>2, <2>3, <2>5 DEF name
  <2>7. \A d : Get(MultiMode(settings), "mode", d) = IF multi THEN "multi" ELSE d
    BY <2>4, <2>5 DEF MultiMode, Get, Has
  <2>8. \A d : Get(b.opt, "mode", d) = IF multi THEN "multi" ELSE d
    <3>1. \A d : Get(Kept(settings, opt), "mode", d) = d
      BY <2>2, PartKeys, NoGet DEF Has
    <3> QED
      BY <1>1, <2>7, <3>1
  <2>9. Text(b.opt, "mode") = IF multi THEN "multi" ELSE Nil
    BY <2>8 DEF Text, Nil
  <2>10. Several(b) = Several(s)
    <3>1. Several(b) = (Text(b.opt, "mode") \in {"multi", "gun"})
      BY DEF Several, Text
    <3>2. Nil \notin {"multi", "gun"}
      BY DEF Nil
    <3>3. CASE multi
      BY <2>9, <3>1, <3>3 DEF multi
    <3>4. CASE ~multi
      BY <2>4, <2>9, <3>1, <3>2, <3>4 DEF multi
    <3> QED
      BY <3>3, <3>4
  <2> QED
    BY <1>6, <2>6, <2>10, TransportSame DEF Text
<1>7. CASE network = "hysteria"
  BY <1>7, TransportSame
<1>8. CASE network = "tcp"
  <2>1. Get(s.raw, "headerType", Nil) # "http"
    <3>1. CASE Get(s.raw, "headerType", Nil) = "http"
      <4> DEFINE f == [headerType |-> "http"]
                 g == Kept(s.raw, {"host"})
                 h == Restrict(s.opt, {"path"} \cap DOMAIN s.opt)
      <4>1. settings = (f ++ g) ++ h
        BY <1>8, <3>1 DEF TransportSettings, Kept, Nil
      <4>2. Has(f, "headerType")
        BY DEF Has
      <4>3. ~Has(settings, "headerType")
        OBVIOUS
      <4> HIDE DEF f, g, h, settings
      <4> QED
        BY <4>1, <4>2, <4>3, JoinGets
    <3> QED
      BY <3>1
  <2>2. \A d : Get(b.raw, "headerType", d) = d
    BY <1>1
  <2>3. Get(b.raw, "headerType", Nil) # "http"
    BY <2>2 DEF Nil
  <2> QED
    BY <1>8, <2>1, <2>3, TransportSame DEF Nil
<1> QED
  BY <1>4, <1>5, <1>6, <1>7, <1>8 DEF Networks

\* The location as it is read back from what was built for it.
LEMMA ReadBack ==
  ASSUME NEW s, IsOfLink(s), s.protocol \in ProxyProtocols \ {"wireguard"},
         s.protocol = "hysteria" => xray_network(s.transport) = "hysteria",
         xray_network(s.transport) \in Networks,
         Get(s.opt, "path", "/") # Nil, Get(s.opt, "mode", "auto") # Nil,
         Get(s.raw, "spx", "/") # Nil,
         ~Has(TransportSettings(s, xray_network(s.transport)), "headerType"),
         ExtraOf(s) = None,
         NEW back \in parse_outbound(BuiltFrom(s))
  PROVE  build_proxy_outbound(back) = {BuiltFrom(s)}
<1> DEFINE ob == BuiltFrom(s)
           stream == build_stream_settings(s)
           network == xray_network(s.transport)
<1>1. /\ back.protocol = s.protocol /\ back.host = s.host /\ back.port = s.port
      /\ s.host # Nil
      /\ Filled(Credentials(s), Required(s.protocol)) = Required(s.protocol)
      /\ back.outbound = Unset /\ back.uuid = CredentialOf(ob)
      /\ back.transport = normalize_network(network) /\ back.security = stream.security
  BY ParsedParts DEF Nil
<1>2. normalize_network(network) = network /\ xray_network(network) = network
  BY NetworkIs
<1>3. IsRead(back, stream, ob)
  <2>1. PICK plain : /\ back.opt = StreamOptions(plain, stream) ++ OptionsOf(ob)
                     /\ back.raw = StreamParameters(plain, stream) ++ ParametersOf(ob)
                     /\ StreamTransport(plain, stream) = back.transport
    BY ParsedParts
  <2> DEFINE settings == Get(stream, "transport", None)
             opt == TransportOptions(back.transport).opt
             raw == TransportOptions(back.transport).raw
             options == OptionsOf(ob)
             parameters == ParametersOf(ob)
  <2>2. /\ opt = TransportOptions(StreamTransport(plain, stream)).opt
        /\ raw = TransportOptions(StreamTransport(plain, stream)).raw
    BY <2>1
  <2> HIDE DEF ob, stream, settings, opt, raw, options, parameters
  <2>3. \A k, d : Get(back.opt, k, d) =
          Get(ShownReality(stream), k, Get(ShownTls(stream), k,
            Get(Kept(settings, opt), k, Get(MultiMode(settings), k, Get(options, k, d)))))
    BY <2>1, <2>2, OptionsAre DEF settings, options
  <2>4. \A k, d : Get(back.raw, k, d) =
          Get(Kept(settings, raw), k, Get(ShownSpider(stream), k,
            Get(ShownAlpn(stream), k, Get(Insecure(stream), k, Get(parameters, k, d)))))
    BY <2>1, <2>2, ParametersAre DEF settings, parameters
  <2> QED
    BY <2>3, <2>4 DEF IsRead, settings, opt, raw, options, parameters
<1>4. IsShownBy(back, ob)
  <2> HIDE DEF ob, stream
  <2> QED
    BY <1>1, <1>3, ReadBy DEF IsShownBy
<1>5. s.protocol = "hysteria" => network = "hysteria"
  OBVIOUS
<1>6. /\ Credentials(back) = Credentials(s)
      /\ s.protocol \notin {"shadowsocks", "http", "socks"} => back.uuid = s.uuid
  BY <1>1, <1>4, <1>5, CredentialsBack
<1>7. network = "hysteria" => back.uuid = s.uuid
  <2>1. s.protocol \in {"shadowsocks", "http", "socks"} => network = "tcp"
    BY NetworkOf DEF IsOfLink
  <2> QED
    BY <1>6, <2>1
<1>8. SecurityLayer(back) = SecurityLayer(s)
  BY <1>1, <1>3, LayerBack
<1>9. TransportSettings(back, network) = TransportSettings(s, network)
  BY <1>1, <1>2, <1>3, <1>7, TransportBack
<1>10. build_stream_settings(back) = build_stream_settings(s)
  <2>1. xray_network(back.transport) = network
    BY <1>1, <1>2
  <2> QED
    BY <1>8, <1>9, <2>1 DEF build_stream_settings
<1>11. Endpoint(back) = Endpoint(s)
  BY <1>1 DEF Endpoint
<1>12. back.outbound = Unset /\ back.protocol \in ProxyProtocols \ {"wireguard"}
  BY <1>1
<1>13. build_proxy_outbound(back) = {BuiltFrom(back)}
  BY <1>12 DEF build_proxy_outbound, BuiltFrom
<1> QED
  BY <1>1, <1>6, <1>10, <1>11, <1>13 DEF BuiltFrom

\* subscription.rs:571: parse_outbound undoes build_proxy_outbound.  What the
\* editor reads back from an outbound that was built is built again as that
\* same outbound, for every protocol, layer and transport the parser reads: the
\* defaults the builder writes are options like any other when read back.
THEOREM EditorRoundTrip == Spec => []BuiltIsParsedBack
<1>1. ASSUME PipelineInv, stage = "requested", server.outbound = Unset,
             server.protocol # "wireguard"
      PROVE  /\ request.native.outbounds[1] = BuiltFrom(server)
             /\ IsOfLink(server) /\ server.protocol \in ProxyProtocols \ {"wireguard"}
             /\ server.protocol = "hysteria" => xray_network(server.transport) = "hysteria"
  <2>1. IsLocation(server) /\ validate_server(server)
    BY <1>1 DEF PipelineInv, LocationInv, RequestInv, IsRequest, Chosen, Asked
  <2>2. server.profile = Unset
    <3>1. ASSUME server.profile # Unset PROVE FALSE
      <4>1. /\ IsProfileValue(server.profile)
            /\ server.outbound = ProxyOutbounds(server.profile)[1]
        BY <2>1, <3>1 DEF IsLocation
      <4>2. server.outbound # Unset
        BY <4>1, FirstProxyIs
      <4> QED
        BY <1>1, <4>2
    <3> QED
      BY <3>1
  <2>3. /\ IsOfLink(server) /\ server.protocol \in ProxyProtocols \ {"wireguard"}
        /\ server.protocol = "hysteria" => xray_network(server.transport) = "hysteria"
    <3>1. IsOfLink(server) /\ server.protocol \in ProxyProtocols \ {"wireguard"}
      BY <1>1, <2>1 DEF IsLocation
    <3>2. Lower(server.protocol) = server.protocol
      BY <3>1, LowerNames
    <3>3. server.protocol = "hysteria" => Lower(server.transport) = "hysteria"
      BY <1>1, <2>1, <2>2, <3>2 DEF validate_server
    <3> QED
      BY <3>1, <3>3, NetworkOf
  <2>4. request.native.outbounds[1] = BuiltFrom(server)
    <3>1. PICK plan \in outbound_plan(server) :
            request.native = build_xray_config(plan, selection.split, selection.allow_lan)
      BY <1>1, RequestedIs
    <3>2. build_proxy_outbound(server) = {BuiltFrom(server)}
      BY <1>1, <2>3 DEF build_proxy_outbound, BuiltFrom
    <3>3. \E x \in build_proxy_outbound(server) : plan.proxies = <<x>>
      BY <2>2 DEF outbound_plan
    <3>4. plan.proxies = <<BuiltFrom(server)>>
      BY <3>2, <3>3
    <3> DEFINE ob == BuiltFrom(server)
    <3> HIDE DEF ob
    <3>5. request.native.outbounds = plan.proxies \o NativeExtra
      BY <3>1, NativeIs
    <3>6. request.native.outbounds = <<ob>> \o NativeExtra
      BY <3>4, <3>5 DEF ob
    <3>7. IsList(<<ob>>) /\ Len(<<ob>>) = 1 /\ <<ob>>[1] = ob
      BY OneItem
    <3>8. request.native.outbounds[1] = ob
      BY <3>6, <3>7, OwnOutboundsAre, JoinedParts
    <3> QED
      BY <3>8 DEF ob
  <2> QED
    BY <2>3, <2>4
<1>2. Get(BuiltFrom(server).streamSettings, "transport", None)
        = TransportSettings(server, xray_network(server.transport))
  BY StreamParts DEF BuiltFrom
<1>3. ASSUME PipelineInv
      PROVE  BuiltIsParsedBack
  <2> DEFINE ob == request.native.outbounds[1]
             settings == Get(ob.streamSettings, "transport", None)
  <2>1. SUFFICES ASSUME stage = "requested", server.outbound = Unset,
                        server.protocol # "wireguard",
                        "" \notin {Get(server.opt, "path", "/"), Get(server.opt, "mode", "auto"),
                                   Get(server.raw, "spx", "/")},
                        xray_network(server.transport) \in
                          {"tcp", "ws", "xhttp", "httpupgrade", "grpc", "hysteria"},
                        ~Has(settings, "headerType"), ExtraOf(server) = None,
                        NEW back \in parse_outbound(ob)
                 PROVE  build_proxy_outbound(back) = {ob}
    BY DEF BuiltIsParsedBack
  <2>2. /\ ob = BuiltFrom(server)
        /\ IsOfLink(server) /\ server.protocol \in ProxyProtocols \ {"wireguard"}
        /\ server.protocol = "hysteria" => xray_network(server.transport) = "hysteria"
    BY <1>1, <1>3, <2>1
  <2>3. settings = TransportSettings(server, xray_network(server.transport))
    BY <1>2, <2>2
  <2>4. /\ Get(server.opt, "path", "/") # Nil /\ Get(server.opt, "mode", "auto") # Nil
        /\ Get(server.raw, "spx", "/") # Nil
    BY <2>1 DEF Nil
  <2>5. xray_network(server.transport) \in Networks
    BY <2>1 DEF Networks
  <2>6. /\ ~Has(settings, "headerType") /\ ExtraOf(server) = None
        /\ back \in parse_outbound(ob)
    BY <2>1
  <2> HIDE DEF ob, settings
  <2> QED
    BY <2>2, <2>3, <2>4, <2>5, <2>6, ReadBack
<1>4. PipelineInv => BuiltIsParsedBack
  BY <1>3
<1> QED
  BY <1>4, PipelineInvariant, PTL
=============================================================================
