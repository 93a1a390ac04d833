----------------------------- MODULE AccessRules -----------------------------
(***************************************************************************)
(* Who may talk to a workload and whom it may talk to: the network algebra *)
(* of src/domain.rs and the NetworkPolicy and load-balancer ranges that    *)
(* src/reconcile.rs derives from a revision of the service.  A network is  *)
(* the set of its addresses; two networks are nested or disjoint.  A       *)
(* revision is a record with the fields of IsRevision.                     *)
(***************************************************************************)
EXTENDS Integers, FiniteSets, FiniteSetsExt

CONSTANTS
    Address,        \* the addresses of both families
    Networks,       \* the CIDRs, as sets of addresses
    FamilyRoots,    \* 0.0.0.0/0 and ::/0
    Roots,          \* PUBLIC_EGRESS_ROOTS
    Protected,      \* PROTECTED_EGRESS_CIDRS
    Extra,          \* additional_protected_networks of the operator
    Nowhere,        \* 0.0.0.0/32 and ::/128, no packet's source
    Dns, SecretManager, Guard,  \* the operator's service networks
    MaxEffective,   \* MAX_EFFECTIVE_SOURCE_CIDRS
    Halves(_),      \* the two children of a network
    Aggregate(_)    \* IpNet::aggregate

\* Peers that a policy names by label rather than by address.
Labels == {"gateway", "activator", "organization", "kube-dns"}
Everyone == Address \cup Labels

ASSUME NetworkAssumption ==
    /\ Address \cap Labels = {}
    /\ Networks \subseteq SUBSET Address
    /\ \A a, b \in Networks : a \subseteq b \/ b \subseteq a \/ a \cap b = {}
    /\ FamilyRoots \cup Roots \cup Protected \cup Extra \cup Nowhere \subseteq Networks
    /\ Dns \cup SecretManager \cup Guard \subseteq Networks

\* The library merges networks without changing the addresses they cover.
ASSUME AggregateAssumption ==
    \A s \in SUBSET Networks :
        Aggregate(s) \subseteq Networks /\ UNION Aggregate(s) = UNION s

\* A network that contains another one has children, and they make it up.
ASSUME HalvesAssumption ==
    /\ IsFiniteSet(Address)
    /\ \A a, d \in Networks : d \subseteq a /\ d # a =>
          /\ Halves(a) \subseteq Networks \ {a}
          /\ UNION Halves(a) = a

IsRevision(x) ==
    /\ x.mode \in {"ip", "load_balancer", "web"}
    /\ x.kind \in {"internal", "public"}
    /\ x.traffic \in {"forwarded", "direct"}
    /\ x.egress \in {"disabled", "restricted", "internet"}
    /\ {x.ports, x.zero, x.vpc, x.org, x.secrets} \subseteq BOOLEAN
    /\ x.allowed \cup x.denied \cup x.allowedTo \cup x.deniedTo \subseteq Networks

Overlap(a, b) == a \subseteq b \/ b \subseteq a

(***************************************************************************)
(* subtract_network: what is left of network a without network d.          *)
(***************************************************************************)
SubtractNetwork(a, d) ==
    LET left[n \in Networks] ==
          IF n \subseteq d THEN {}
          ELSE IF ~ d \subseteq n THEN {n}
          ELSE UNION {left[h] : h \in Halves(n)}
    IN  left[a]

\* One denied network of the loop; an expansion beyond the limit is an error.
Deny(d, acc) ==
    LET next == UNION {SubtractNetwork(a, d) : a \in acc.nets}
    IN  IF acc.ok /\ Cardinality(next) <= MaxEffective
        THEN [ok |-> TRUE, nets |-> Aggregate(next)]
        ELSE [ok |-> FALSE, nets |-> {}]

EffectiveSourceNetworks(x) ==
    FoldSet(Deny,
            [ok |-> TRUE, nets |-> IF x.allowed = {} THEN FamilyRoots
                                   ELSE Aggregate(x.allowed)],
            x.denied)

(***************************************************************************)
(* ip_blocks: the roots that no denied network swallows, each with the     *)
(* denied networks inside it as exceptions.                                *)
(***************************************************************************)
\* Mutant: a root inside a denied network is kept.
IpBlocksKept(roots, denied) ==
    {[cidr |-> c, except |-> {d \in Aggregate(denied) : d \subseteq c}] : c \in Aggregate(roots)}

IpBlocks(roots, denied) ==
    LET gone == Aggregate(denied)
    IN  {[cidr |-> c, except |-> {d \in gone : d \subseteq c}] :
            c \in {r \in Aggregate(roots) : \A d \in gone : ~ r \subseteq d}}

Admits(block) == block.cidr \ UNION block.except

DestinationIpBlocks(x) ==
    IpBlocks(CASE x.egress = "disabled"   -> {}
               [] x.egress = "restricted" -> x.allowedTo
               [] x.egress = "internet"   -> Roots,
             Protected \cup Extra \cup x.deniedTo)

PublicSourceIpBlocks(x) ==
    IpBlocks(IF x.allowed = {} THEN Roots ELSE x.allowed, x.denied \cup Protected)

(***************************************************************************)
(* validate: the rules about exposure, sources and egress.                 *)
(***************************************************************************)
ValidEgress(x) ==
    /\ x.egress # "restricted" => x.allowedTo = {}
    /\ \A n \in x.allowedTo, p \in Protected : ~ Overlap(n, p)

HasSourcePolicy(x) == x.allowed # {} \/ x.denied # {}

Valid(x) ==
    /\ x.zero => x.mode = "web"
    /\ x.mode \in {"load_balancer", "web"} => x.kind = "public" /\ x.traffic = "forwarded"
    /\ x.mode = "web" => x.ports /\ ~ HasSourcePolicy(x)
    /\ x.auth # "none" => x.mode = "web"
    /\ x.kind = "internal" => x.traffic = "forwarded"
    /\ EffectiveSourceNetworks(x).ok
    /\ ValidEgress(x)
    /\ x.vpc => ~ x.org

(***************************************************************************)
(* desired_network_policy_with_networks.  A rule is the set of peers it    *)
(* admits; normalize_network_policy omits an empty peer list, and an        *)
(* omitted list admits everyone.                                            *)
(***************************************************************************)
Rule(peers) == IF peers = {} THEN Everyone ELSE UNION peers

Ingress(x, forwarders) ==
    LET sources == {Admits(b) : b \in PublicSourceIpBlocks(x)}
                     \cup (IF x.traffic = "forwarded" THEN forwarders ELSE {})
    IN  CASE ~ x.ports -> {}
          [] x.ports /\ x.mode = "web" ->
                Rule({{"gateway"}} \cup IF x.zero THEN {{"activator"}} ELSE {})
          [] x.ports /\ x.mode # "web" /\ x.kind = "internal" ->
                IF x.vpc THEN {} ELSE Rule({{"organization"}})
          [] x.ports /\ x.mode # "web" /\ x.kind = "public" ->
                IF sources = {} THEN {} ELSE Rule(sources)

\* Egress as pairs of a peer and the ports it is open on.
Egress(x) ==
    LET destinations == {Admits(b) : b \in DestinationIpBlocks(x)}
    IN  (Rule(Dns \cup {{"kube-dns"}}) \X {"dns"})
        \cup (IF x.secrets THEN Rule(SecretManager) \X {"https"} ELSE {})
        \cup (IF ~ x.vpc /\ x.org THEN Rule({{"organization"}}) \X {"any"} ELSE {})
        \cup (IF ~ x.vpc /\ destinations # {} THEN Rule(destinations) \X {"any"} ELSE {})
        \cup (IF x.vpc THEN Rule(Guard) \X {"guard"} ELSE {})

\* The two configurations the derivation refuses with an error.
PolicyRefused(x) == (x.secrets /\ SecretManager = {}) \/ (x.vpc /\ Guard = {})

(***************************************************************************)
(* desired_service_with_hostname: kind and source ranges of the Service.   *)
(***************************************************************************)
DesiredService(x) ==
    CASE ~ x.ports -> [kind |-> "none", ranges |-> {}]
      [] x.ports /\ (x.kind = "internal" \/ x.mode = "web") ->
            [kind |-> "ClusterIP", ranges |-> {}]
      [] x.ports /\ x.kind = "public" /\ x.mode # "web" ->
            [kind |-> "LoadBalancer",
             ranges |-> IF ~ HasSourcePolicy(x) THEN {}
                        ELSE IF EffectiveSourceNetworks(x).nets = {} THEN Nowhere
                        ELSE EffectiveSourceNetworks(x).nets]

(***************************************************************************)
(* What a revision asks for, as sets of addresses: the reference for the   *)
(* policies above.                                                         *)
(***************************************************************************)
Listed(s, all, no) == (IF s = {} THEN UNION all ELSE UNION s) \ UNION no

Entering(x, forwarders) ==
    IF x.ports /\ x.kind = "public" /\ x.mode # "web"
    THEN Listed(x.allowed, Roots, x.denied \cup Protected) \cup UNION forwarders
    ELSE {}

Leaving(x) ==
    IF x.vpc \/ x.egress = "disabled" THEN {}
    ELSE Listed(x.allowedTo, IF x.egress = "internet" THEN Roots ELSE {},
                Protected \cup Extra \cup x.deniedTo)
=============================================================================
