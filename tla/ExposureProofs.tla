---------------------------- MODULE ExposureProofs ----------------------------
(***************************************************************************)
(* For any networks, domains, revisions and starting states: no route is   *)
(* open without the authentication it was prepared for, a service that     *)
(* leaves web has lost its route before its Service changes, and the       *)
(* network policy and the source ranges in force at the end of a round are *)
(* the ones asked for.                                                     *)
(*                                                                         *)
(* The first part is about AccessRules: the network policy derived from a  *)
(* revision admits exactly what the revision asks for, for all addresses,  *)
(* networks and lists of networks.  It rests on two facts about networks:  *)
(* any two are nested or disjoint, and aggregation does not change what a  *)
(* list covers.  A root that survives is inside no denied network, so a    *)
(* denied network that meets it lies inside it, and is one of its          *)
(* exceptions.  The source ranges are computed by a recursion that halves  *)
(* a network until the denied one is cut out, inside a loop over the       *)
(* denied networks; a least network, or list, that came out wrong would    *)
(* have come out wrong already for a smaller one.                          *)
(*                                                                         *)
(* GuardedRoute is not inductive.  What makes it so (GInv) is what the     *)
(* round knows between its requests: from the comparison of the policy to  *)
(* its application an open route has the desired policy, and from there to *)
(* the publication a ready one has a policy that was accepted for a secret *)
(* that is either still the current one or has been replaced, since a      *)
(* resource version is never given twice.                                  *)
(***************************************************************************)
EXTENDS Exposure, LeastElements

Admitted(blocks) == UNION {Admits(b) : b \in blocks}

(* The addresses a list of networks covers.                                *)
Cover(list) == UNION list

(* Two lists cover the same addresses when each address is in both covers. *)
LEMMA CoverMember ==
    \A list : \A a : a \in Cover(list) <=> \E n \in list : a \in n
<1> QED
  BY DEF Cover

(* IpNet::aggregate covers what it was given.                              *)
LEMMA AggregateCovers ==
    ASSUME NEW list \in SUBSET Networks
    PROVE  Aggregate(list) \subseteq Networks /\ Cover(Aggregate(list)) = Cover(list)
<1> QED
  BY AggregateAssumption DEF Cover

(* ip_blocks: the blocks admit the roots without the denied networks.      *)
THEOREM BlocksExact ==
    ASSUME NEW roots \in SUBSET Networks, NEW denied \in SUBSET Networks
    PROVE  Admitted(IpBlocks(roots, denied)) = Cover(roots) \ Cover(denied)
<1> DEFINE kept == Aggregate(roots)
           gone == Aggregate(denied)
<1>1. kept \subseteq Networks /\ Cover(kept) = Cover(roots)
  BY AggregateCovers
<1>2. gone \subseteq Networks /\ Cover(gone) = Cover(denied)
  BY AggregateCovers
<1> HIDE DEF kept, gone
<1>3. ASSUME NEW a, a \in Admitted(IpBlocks(roots, denied))
      PROVE  a \in Cover(kept) \ Cover(gone)
  <2>1. PICK c \in kept : /\ \A d \in gone : ~ c \subseteq d
                          /\ a \in c \ UNION {d \in gone : d \subseteq c}
    BY <1>3 DEF Admitted, IpBlocks, Admits, kept, gone
  <2>2. ASSUME NEW d \in gone, a \in d
        PROVE  FALSE
    <3>1. c \subseteq d \/ d \subseteq c \/ c \cap d = {}
      BY <1>1, <1>2, NetworkAssumption
    <3> QED
      BY <2>1, <2>2, <3>1
  <2> QED
    BY <2>1, <2>2, CoverMember
<1>4. ASSUME NEW a, a \in Cover(kept) \ Cover(gone)
      PROVE  a \in Admitted(IpBlocks(roots, denied))
  <2>1. \A d \in gone : a \notin d
    BY <1>4, CoverMember
  <2>2. PICK c \in kept : a \in c
    BY <1>4, CoverMember
  <2>3. \A d \in gone : ~ c \subseteq d
    BY <2>1, <2>2
  <2> DEFINE b == [cidr |-> c, except |-> {d \in gone : d \subseteq c}]
  <2>4. b \in IpBlocks(roots, denied)
    BY <2>3 DEF IpBlocks, kept, gone
  <2>5. a \in Admits(b)
    BY <2>1, <2>2 DEF Admits
  <2> QED
    BY <2>4, <2>5 DEF Admitted
<1>5. Admitted(IpBlocks(roots, denied)) = Cover(kept) \ Cover(gone)
  BY <1>3, <1>4
<1> QED
  BY <1>1, <1>2, <1>5

(* Egress: an address can be reached on any port only if the revision asks *)
(* for it and it is neither protected by the platform nor by the operator, *)
(* nor denied; an empty list of destinations never opens the policy.       *)
THEOREM EgressExact ==
    ASSUME NEW x, IsRevision(x), ValidEgress(x)
    PROVE  {p \in Address : <<p, "any">> \in Egress(x)} = Leaving(x)
<1> DEFINE destinations == {Admits(b) : b \in DestinationIpBlocks(x)}
           roots == CASE x.egress = "disabled"   -> {}
                      [] x.egress = "restricted" -> x.allowedTo
                      [] x.egress = "internet"   -> Roots
           no == Protected \cup Extra \cup x.deniedTo
<1>1. roots \in SUBSET Networks /\ no \in SUBSET Networks
  BY NetworkAssumption DEF IsRevision
<1>2. UNION destinations = Cover(roots) \ Cover(no)
  BY <1>1, BlocksExact DEF Admitted, DestinationIpBlocks
<1>3. UNION destinations \subseteq Address
  <2> HIDE DEF destinations, roots, no
  <2>1. Cover(roots) \subseteq Address
    BY <1>1, NetworkAssumption, CoverMember
  <2> QED
    BY <1>2, <2>1
<1>4. ASSUME ~ x.vpc
      PROVE  Leaving(x) = Cover(roots) \ Cover(no)
  <2>1. CASE x.egress = "disabled"
    <3>1. Cover(roots) = {}
      BY <2>1, CoverMember
    <3> QED
      BY <2>1, <3>1 DEF Leaving
  <2>2. CASE x.egress = "restricted"
    <3>1. Leaving(x) = Listed(x.allowedTo, {}, no) /\ roots = x.allowedTo
      BY <1>4, <2>2 DEF Leaving
    <3>2. Listed(x.allowedTo, {}, no) = Cover(x.allowedTo) \ Cover(no)
      BY DEF Listed, Cover
    <3> QED
      BY <3>1, <3>2
  <2>3. CASE x.egress = "internet"
    <3>1. Leaving(x) = Listed(x.allowedTo, Roots, no) /\ roots = Roots
      BY <1>4, <2>3 DEF Leaving
    <3>2. Listed({}, Roots, no) = Cover(Roots) \ Cover(no)
      BY DEF Listed, Cover
    <3>3. x.allowedTo = {}
      BY <2>3 DEF ValidEgress
    <3> QED
      BY <3>1, <3>2, <3>3
  <2> QED
    BY <2>1, <2>2, <2>3 DEF IsRevision
<1>5. "organization" \notin Address
  BY NetworkAssumption DEF Labels
<1> HIDE DEF roots, no
<1>6. ASSUME NEW p \in Address
      PROVE  <<p, "any">> \in Egress(x) <=> ~ x.vpc /\ p \in UNION destinations
  <2>1. Rule({{"organization"}}) = {"organization"}
    BY DEF Rule
  <2>2. destinations # {} => Rule(destinations) = UNION destinations
    BY DEF Rule
  <2> HIDE DEF destinations
  <2>3. Egress(x) =
          (Rule(Dns \cup {{"kube-dns"}}) \X {"dns"})
          \cup (IF x.secrets THEN Rule(SecretManager) \X {"https"} ELSE {})
          \cup (IF ~ x.vpc /\ x.org THEN Rule({{"organization"}}) \X {"any"} ELSE {})
          \cup (IF ~ x.vpc /\ destinations # {} THEN Rule(destinations) \X {"any"} ELSE {})
          \cup (IF x.vpc THEN Rule(Guard) \X {"guard"} ELSE {})
    BY DEF Egress, destinations
  <2>4. CASE x.vpc
    BY <2>3, <2>4
  <2>5. CASE ~ x.vpc
    <3>1. <<p, "any">> \notin Rule({{"organization"}}) \X {"any"}
      BY <2>1, <1>5
    <3>2. <<p, "any">> \in Egress(x) <=> destinations # {} /\ p \in Rule(destinations)
      BY <2>3, <2>5, <3>1
    <3> QED
      BY <3>2, <2>2, <2>5
  <2> QED
    BY <2>4, <2>5
<1>7. CASE x.vpc
  BY <1>6, <1>7 DEF Leaving
<1>8. CASE ~ x.vpc
  BY <1>2, <1>3, <1>4, <1>6, <1>8
<1> QED
  BY <1>7, <1>8

(* Ingress: exactly the allowed sources that are neither denied nor        *)
(* protected, and the forwarders that carry the traffic; web and internal  *)
(* services are not reached by address at all.                             *)
THEOREM IngressExact ==
    ASSUME NEW x, IsRevision(x), NEW forwarders \in SUBSET Networks,
           x.traffic # "forwarded" => forwarders = {}
    PROVE  Ingress(x, forwarders) \cap Address = Entering(x, forwarders)
<1> DEFINE admitted == {Admits(b) : b \in PublicSourceIpBlocks(x)}
           sources == admitted \cup (IF x.traffic = "forwarded" THEN forwarders ELSE {})
           roots == IF x.allowed = {} THEN Roots ELSE x.allowed
           no == x.denied \cup Protected
<1>1. roots \in SUBSET Networks /\ no \in SUBSET Networks
  BY NetworkAssumption DEF IsRevision
<1>2. Cover(admitted) = Cover(roots) \ Cover(no)
  BY <1>1, BlocksExact DEF Admitted, PublicSourceIpBlocks, Cover
<1>3. Cover(sources) = Listed(x.allowed, Roots, no) \cup Cover(forwarders)
  <2>1. sources = admitted \cup forwarders
    BY DEF IsRevision
  <2> HIDE DEF admitted, sources
  <2>2. Cover(sources) = Cover(admitted) \cup Cover(forwarders)
    BY <2>1, CoverMember
  <2>3. CASE x.allowed = {}
    BY <2>2, <2>3, <1>2 DEF Listed, Cover
  <2>4. CASE x.allowed # {}
    BY <2>2, <2>4, <1>2 DEF Listed, Cover
  <2> QED
    BY <2>3, <2>4
<1>4. Cover(sources) \subseteq Address
  <2>1. Cover(roots) \subseteq Address /\ Cover(forwarders) \subseteq Address
    BY <1>1, NetworkAssumption, CoverMember
  <2>2. sources = admitted \cup forwarders
    BY DEF IsRevision
  <2> HIDE DEF admitted, sources, roots, no
  <2>3. Cover(sources) = Cover(admitted) \cup Cover(forwarders)
    BY <2>2, CoverMember
  <2> QED
    BY <1>2, <2>1, <2>3
<1>5. Labels \cap Address = {}
  BY NetworkAssumption
<1>6. CASE ~ x.ports
  BY <1>6 DEF Ingress, Entering
<1>7. CASE x.ports /\ x.mode = "web"
  <2>1. Ingress(x, forwarders) \subseteq {"gateway", "activator"}
    BY <1>7 DEF Ingress, Rule
  <2> QED
    BY <2>1, <1>5, <1>7 DEF Entering, Labels
<1>8. CASE x.ports /\ x.mode # "web" /\ x.kind = "internal"
  <2>1. Ingress(x, forwarders) \subseteq {"organization"}
    BY <1>8 DEF Ingress, Rule
  <2> QED
    BY <2>1, <1>5, <1>8 DEF Entering, Labels
<1>9. CASE x.ports /\ x.mode # "web" /\ x.kind = "public"
  <2>1. Ingress(x, forwarders) = IF sources = {} THEN {} ELSE Rule(sources)
    BY <1>9 DEF Ingress
  <2> HIDE DEF sources
  <2>2. Ingress(x, forwarders) = Cover(sources)
    BY <2>1 DEF Rule, Cover
  <2>3. Entering(x, forwarders) = Listed(x.allowed, Roots, no) \cup Cover(forwarders)
    BY <1>9 DEF Entering, Cover
  <2> QED
    BY <2>2, <2>3, <1>3, <1>4
<1> QED
  BY <1>6, <1>7, <1>8, <1>9 DEF IsRevision

(* subtract_network: the halves of a network are smaller, so the recursion *)
(* ends, and what it leaves are networks that cover what is not denied.    *)
LEMMA SubtractExact ==
    ASSUME NEW a \in Networks, NEW d \in Networks
    PROVE  /\ SubtractNetwork(a, d) \subseteq Networks
           /\ Cover(SubtractNetwork(a, d)) = a \ d
<1> DEFINE D == Networks
           A == SUBSET Networks
           Val(n, f) == IF n \subseteq d THEN {}
                        ELSE IF ~ d \subseteq n THEN {n}
                        ELSE UNION {f[h] : h \in Halves(n)}
           F == [p \in D \X [D -> A] |-> Val(p[1], p[2])]
           Is(f) == f = [n \in Networks |-> Val(n, f)]
           left == CHOOSE f : Is(f)
<1>1. ASSUME NEW n \in D, ~ n \subseteq d, d \subseteq n
      PROVE  /\ Halves(n) \subseteq D /\ UNION Halves(n) = n
             /\ \A h \in Halves(n) : h \subseteq n /\ h # n
  BY <1>1, HalvesAssumption
<1>2. ASSUME NEW n \in D, NEW f \in [D -> A]
      PROVE  Val(n, f) \in A
  <2>1. CASE n \subseteq d \/ ~ d \subseteq n
    BY <2>1
  <2>2. CASE ~ n \subseteq d /\ d \subseteq n
    <3>1. \A h \in Halves(n) : f[h] \subseteq Networks
      BY <1>1, <2>2
    <3> QED
      BY <2>2, <3>1
  <2> QED
    BY <2>1, <2>2
<1>3. ASSUME NEW n \in D, NEW f \in [D -> A]
      PROVE  F[<<n, f>>] = Val(n, f)
  <2> HIDE DEF D, A, Val
  <2> QED
    OBVIOUS
<1>4. F \in [D \X [D -> A] -> A]
  <2>1. \A p \in D \X [D -> A] : Val(p[1], p[2]) \in A
    <3> HIDE DEF D, A, Val, F
    <3> QED
      BY <1>2
  <2> HIDE DEF D, A, Val
  <2> QED
    BY <2>1
<1>5. Local(F, D, A)
  <2>1. SUFFICES ASSUME NEW n \in D, NEW g \in [D -> A], NEW h \in [D -> A],
                        \A y \in D : y \subseteq n /\ y # n => g[y] = h[y]
                 PROVE  F[<<n, g>>] = F[<<n, h>>]
    <3> HIDE DEF F, D, A
    <3> QED
      BY DEF Local
  <2>2. Val(n, g) = Val(n, h)
    <3>1. CASE n \subseteq d \/ ~ d \subseteq n
      BY <3>1
    <3>2. CASE ~ n \subseteq d /\ d \subseteq n
      <4>1. \A y \in Halves(n) : g[y] = h[y]
        BY <1>1, <2>1, <3>2
      <4>2. UNION {g[y] : y \in Halves(n)} = UNION {h[y] : y \in Halves(n)}
        BY <4>1
      <4> QED
        BY <3>2, <4>2
    <3> QED
      BY <3>1, <3>2
  <2> HIDE DEF F, D, A, Val
  <2> QED
    BY <1>3, <2>1, <2>2
<1>6. \E f : Is(f)
  <2>1. D \in SUBSET (SUBSET Address) /\ IsFiniteSet(Address) /\ {} \in A
    BY NetworkAssumption, HalvesAssumption
  <2> HIDE DEF F, D, A, Val
  <2>2. Recursive(Address, F, D, A)
    BY <1>4, <1>5, <2>1, Zenon DEF Recursive
  <2>3. HasRecursion(F, D, A)
    BY <2>1, <2>2, RecursionExists
  <2>4. PICK f \in [D -> A] : \A n \in D : f[n] = F[<<n, f>>]
    BY <2>3, Zenon DEF HasRecursion
  <2>5. \A n \in D : f[n] = Val(n, f)
    BY <1>3, <2>4
  <2>6. f = [n \in D |-> Val(n, f)]
    BY <2>5
  <2> QED
    BY <2>6 DEF D
<1>7. Is(left)
  <2> HIDE DEF Is
  <2> QED
    BY <1>6, Zenon
<1>8. SubtractNetwork(a, d) = left[a]
  BY Zenon DEF SubtractNetwork
<1> HIDE DEF left
<1>9. \A n \in Networks : left[n] = Val(n, left)
  <2> HIDE DEF Val
  <2> QED
    BY <1>7
<1> DEFINE Right(n) == left[n] \subseteq Networks /\ Cover(left[n]) = n \ d
           Bad == {n \in Networks : ~ Right(n)}
<1>10. Bad = {}
  <2>1. SUFFICES ASSUME Bad # {} PROVE FALSE
    OBVIOUS
  <2>2. PICK n \in Bad : \A y \in Bad : y \subseteq n => y = n
    <3>1. Bad \in SUBSET (SUBSET Address) /\ IsFiniteSet(Address)
      BY NetworkAssumption, HalvesAssumption
    <3> HIDE DEF Bad
    <3> QED
      BY <2>1, <3>1, LeastSubset
  <2>3. n \in Networks /\ ~ Right(n) /\ \A y \in Networks : y \subseteq n /\ y # n => Right(y)
    BY <2>2
  <2>4. left[n] = Val(n, left)
    BY <1>9, <2>3
  <2> HIDE DEF Bad
  <2>5. CASE n \subseteq d
    <3>1. left[n] = {} /\ n \ d = {}
      BY <2>4, <2>5
    <3> QED
      BY <2>3, <3>1, CoverMember
  <2>6. CASE ~ n \subseteq d /\ ~ d \subseteq n
    <3>1. left[n] = {n}
      BY <2>4, <2>6
    <3>2. n \ d = n
      BY <2>3, <2>6, NetworkAssumption
    <3> QED
      BY <2>3, <3>1, <3>2 DEF Cover
  <2>7. CASE ~ n \subseteq d /\ d \subseteq n
    <3>1. left[n] = UNION {left[h] : h \in Halves(n)}
      BY <2>4, <2>7
    <3>2. \A h \in Halves(n) : Right(h)
      BY <1>1, <2>3, <2>7
    <3>3. left[n] \subseteq Networks
      BY <3>1, <3>2
    <3>4. \A e : e \in Cover(left[n]) <=> \E h \in Halves(n) : e \in Cover(left[h])
      BY <3>1, CoverMember
    <3>5. \A e : e \in Cover(left[n]) <=> \E h \in Halves(n) : e \in h \ d
      BY <3>2, <3>4
    <3>6. \A e : e \in n <=> \E h \in Halves(n) : e \in h
      BY <1>1, <2>3, <2>7
    <3>7. Cover(left[n]) = n \ d
      BY <3>5, <3>6
    <3> QED
      BY <2>3, <3>3, <3>7
  <2> QED
    BY <2>5, <2>6, <2>7
<1> QED
  BY <1>8, <1>10

(* One denied network more: the addresses it covers are gone, and nothing  *)
(* else is.                                                                *)
LEMMA DenyExact ==
    ASSUME NEW d \in Networks, NEW acc \in [ok : BOOLEAN, nets : SUBSET Networks]
    PROVE  /\ Deny(d, acc) \in [ok : BOOLEAN, nets : SUBSET Networks]
           /\ Deny(d, acc).ok => acc.ok /\ Cover(Deny(d, acc).nets) = Cover(acc.nets) \ d
<1> DEFINE next == UNION {SubtractNetwork(a, d) : a \in acc.nets}
<1>1. \A a \in acc.nets : /\ SubtractNetwork(a, d) \subseteq Networks
                          /\ Cover(SubtractNetwork(a, d)) = a \ d
  BY SubtractExact
<1>2. next \in SUBSET Networks
  BY <1>1
<1>3. Cover(next) = Cover(acc.nets) \ d
  <2>1. \A e : e \in Cover(next) <=> \E a \in acc.nets : e \in Cover(SubtractNetwork(a, d))
    BY CoverMember
  <2>2. \A e : e \in Cover(next) <=> \E a \in acc.nets : e \in a \ d
    BY <1>1, <2>1
  <2> HIDE DEF next
  <2> QED
    BY <2>2, CoverMember
<1>4. Deny(d, acc) = IF acc.ok /\ Cardinality(next) <= MaxEffective
                     THEN [ok |-> TRUE, nets |-> Aggregate(next)]
                     ELSE [ok |-> FALSE, nets |-> {}]
  BY DEF Deny
<1> HIDE DEF next
<1>5. Aggregate(next) \subseteq Networks /\ Cover(Aggregate(next)) = Cover(next)
  BY <1>2, AggregateCovers
<1>6. CASE acc.ok /\ Cardinality(next) <= MaxEffective
  BY <1>3, <1>4, <1>5, <1>6
<1>7. CASE ~ (acc.ok /\ Cardinality(next) <= MaxEffective)
  BY <1>4, <1>7
<1> QED
  BY <1>6, <1>7

(* effective_source_networks: unless the expansion is refused, the result  *)
(* covers the allowed sources, or every address of both families where     *)
(* none are named, without the denied ones.                                *)
THEOREM SourcesExact ==
    ASSUME NEW x, IsRevision(x), EffectiveSourceNetworks(x).ok
    PROVE  /\ EffectiveSourceNetworks(x).nets \subseteq Networks
           /\ Cover(EffectiveSourceNetworks(x).nets) = Listed(x.allowed, FamilyRoots, x.denied)
<1> DEFINE S == x.denied
           A == [ok : BOOLEAN, nets : SUBSET Networks]
           base == [ok |-> TRUE, nets |-> IF x.allowed = {} THEN FamilyRoots
                                          ELSE Aggregate(x.allowed)]
           op == [p \in S \X A |-> Deny(p[1], p[2])]
           Is(f) == f = [s \in SUBSET S |->
                           IF s = {} THEN base ELSE Deny(Pick(s), f[s \ {Pick(s)}])]
           iter == CHOOSE f : Is(f)
<1>1. S \in SUBSET Networks /\ x.allowed \in SUBSET Networks
  BY DEF IsRevision
<1>2. IsFiniteSet(S)
  <2>1. IsFiniteSet(SUBSET Address)
    BY HalvesAssumption, FS_SUBSET
  <2>2. S \subseteq SUBSET Address
    BY <1>1, NetworkAssumption
  <2> HIDE DEF S
  <2> QED
    BY <2>1, <2>2, FS_Subset
<1>3. base \in A /\ base.ok /\ Cover(base.nets) \ Cover(S) = Listed(x.allowed, FamilyRoots, S)
  <2>1. Aggregate(x.allowed) \subseteq Networks /\ Cover(Aggregate(x.allowed)) = Cover(x.allowed)
    BY <1>1, AggregateCovers
  <2>2. FamilyRoots \subseteq Networks
    BY NetworkAssumption
  <2>3. CASE x.allowed = {}
    BY <2>2, <2>3 DEF Listed, Cover
  <2>4. CASE x.allowed # {}
    BY <2>1, <2>4 DEF Listed, Cover
  <2> QED
    BY <2>3, <2>4
<1>4. EffectiveSourceNetworks(x) = iter[S]
  BY Zenon DEF EffectiveSourceNetworks, FoldSet, MapThenFoldSet, Pick
<1> HIDE DEF S, A, base
<1>5. \A d \in S, acc \in A : Deny(d, acc) \in A
  BY <1>1, DenyExact DEF A
<1>6. \E f : Is(f)
  <2>1. op \in [S \X A -> A]
    BY <1>5
  <2>2. \A d \in S, acc \in A : op[<<d, acc>>] = Deny(d, acc)
    OBVIOUS
  <2> HIDE DEF op
  <2>3. HasFold(S, A, base, op)
    BY <1>2, <1>3, <2>1, FoldExists
  <2>4. PICK f \in [SUBSET S -> A] : \A s \in SUBSET S :
           f[s] = IF s = {} THEN base ELSE op[<<Pick(s), f[s \ {Pick(s)}]>>]
    BY <2>3, Zenon DEF HasFold
  <2>5. ASSUME NEW s \in SUBSET S
        PROVE  f[s] = IF s = {} THEN base ELSE Deny(Pick(s), f[s \ {Pick(s)}])
    <3>1. CASE s = {}
      BY <2>4, <3>1
    <3>2. CASE s # {}
      <4>1. Pick(s) \in S /\ s \ {Pick(s)} \in SUBSET S
        BY <3>2, PickIn
      <4>2. f[s \ {Pick(s)}] \in A
        BY <4>1
      <4>3. f[s] = op[<<Pick(s), f[s \ {Pick(s)}]>>]
        BY <2>4, <3>2, Zenon
      <4> QED
        BY <2>2, <3>2, <4>1, <4>2, <4>3
    <3> QED
      BY <3>1, <3>2
  <2>6. Is(f)
    BY <2>5
  <2> QED
    BY <2>6
<1>7. Is(iter)
  <2> HIDE DEF Is
  <2> QED
    BY <1>6, Zenon
<1> HIDE DEF iter
<1>8. \A s \in SUBSET S :
         iter[s] = IF s = {} THEN base ELSE Deny(Pick(s), iter[s \ {Pick(s)}])
  BY <1>7
<1> HIDE DEF Is
<1> DEFINE Right(s) == /\ iter[s] \in A
                       /\ iter[s].ok => Cover(iter[s].nets) = Cover(base.nets) \ Cover(s)
           Bad == {s \in SUBSET S : ~ Right(s)}
<1>9. Bad = {}
  <2>1. SUFFICES ASSUME Bad # {} PROVE FALSE
    OBVIOUS
  <2>2. PICK s \in Bad : \A y \in Bad : y \subseteq s => y = s
    <3>1. Bad \in SUBSET (SUBSET S)
      OBVIOUS
    <3> HIDE DEF Bad
    <3> QED
      BY <1>2, <2>1, <3>1, LeastSubset
  <2>3. s \in SUBSET S /\ ~ Right(s) /\ \A y \in SUBSET S : y \subseteq s /\ y # s => Right(y)
    BY <2>2
  <2> HIDE DEF Bad
  <2>4. CASE s = {}
    <3>1. iter[s] = base
      BY <1>8, <2>3, <2>4
    <3>2. Cover(s) = {}
      BY <2>4, CoverMember
    <3> QED
      BY <1>3, <2>3, <3>1, <3>2
  <2>5. CASE s # {}
    <3> DEFINE d == Pick(s)
               rest == s \ {Pick(s)}
    <3>1. d \in s /\ d \in Networks /\ rest \in SUBSET S /\ rest \subseteq s /\ rest # s
      BY <1>1, <2>3, <2>5, PickIn
    <3>2. iter[s] = Deny(d, iter[rest])
      BY <1>8, <2>3, <2>5
    <3>3. s = rest \cup {d}
      BY <3>1
    <3> HIDE DEF d, rest
    <3>4. Right(rest)
      BY <2>3, <3>1
    <3>5. /\ iter[s] \in A
          /\ iter[s].ok => iter[rest].ok /\ Cover(iter[s].nets) = Cover(iter[rest].nets) \ d
      BY <3>1, <3>2, <3>4, DenyExact DEF A
    <3>6. Cover(s) = Cover(rest) \cup d
      BY <3>3, CoverMember
    <3>7. ASSUME iter[s].ok PROVE Cover(iter[s].nets) = Cover(base.nets) \ Cover(s)
      BY <3>4, <3>5, <3>6, <3>7
    <3> QED
      BY <2>3, <3>5, <3>7
  <2> QED
    BY <2>4, <2>5
<1>10. Right(S)
  <2>1. S \in SUBSET S
    OBVIOUS
  <2> HIDE DEF Right
  <2> QED
    BY <1>9, <2>1
<1>11. iter[S].nets \subseteq Networks
  BY <1>10 DEF A
<1> QED
  BY <1>3, <1>4, <1>10, <1>11 DEF S
-----------------------------------------------------------------------------
Revs == {s.rev : s \in Starts} \cup Later
Auths == {"none"} \cup {x.auth : x \in Revs}

Shape(r) ==
    r = [pc |-> r.pc, view |-> r.view, gen |-> r.gen, list |-> r.list, todo |-> r.todo,
         name |-> r.name, rv |-> r.rv, ready |-> r.ready, forwarders |-> r.forwarders,
         shown |-> r.shown]

TInv ==
    /\ secret \in [rv : Nat, owned : BOOLEAN]
    /\ serial \in Nat
    /\ route \in [Names -> [to : {"none", "blocked", "activator", "service"},
                            settled : BOOLEAN]]
    /\ policy \in [Names -> [auth : Auths, rv : Nat, settled : BOOLEAN]]
    /\ asked \in [Names -> Auths]
    /\ svc.rev \in Revs
    /\ Shape(round)
    /\ round.name \in Names /\ round.rv \in Nat /\ round.ready \in BOOLEAN
    /\ round.todo \subseteq Aliases
    /\ round.pc # "idle" => round.view \in Revs

(* The policy was accepted for its secret, unless that is replaced by now. *)
Safe(n) == policy[n].rv > 0 /\ (policy[n].settled \/ policy[n].rv # secret.rv)

GInv ==
    /\ secret.rv <= serial /\ round.rv <= serial
    /\ \A n \in Names : policy[n].rv <= serial /\ asked[n] = policy[n].auth
    /\ \A n \in Names : Open(n) /\ policy[n].auth # "none" => Safe(n)
    /\ round.pc \in {"compare", "apply"} => round.view.auth # "none"
    /\ round.pc = "apply" /\ Open(round.name) =>
          /\ policy[round.name].auth = round.view.auth
          /\ policy[round.name].rv = round.rv
          /\ Safe(round.name)
    /\ /\ round.pc \in {"opened", "network", "service", "publish"}
       /\ round.ready /\ policy[round.name].auth # "none"
       => Safe(round.name)
    /\ round.pc \in {"network", "service", "publish"} => round.name = Main

RInv ==
    round.pc \in {"network", "service", "publish", "report"} /\ ~ Web(round.view) =>
        route[Main] = NoRoute

NInv ==
    /\ Valid(svc.rev)
    /\ round.pc # "idle" => Valid(round.view)
    /\ round.pc \in {"network", "service", "publish", "report"} =>
          /\ round.forwarders \in SUBSET Networks
          /\ round.view.traffic # "forwarded" => round.forwarders = {}
    /\ round.pc \in {"service", "publish", "report"} =>
          netpol = [in |-> Ingress(round.view, round.forwarders), out |-> Egress(round.view)]

(* From its application to the end of the round the Service is the desired one; only the *)
(* network controller touches it, to assign an address.                                  *)
SInv ==
    /\ lb = [kind |-> lb.kind, ranges |-> lb.ranges, assigned |-> lb.assigned]
    /\ round.pc \in {"publish", "report"} =>
          /\ lb.kind = DesiredService(round.view).kind
          /\ lb.ranges = DesiredService(round.view).ranges
-----------------------------------------------------------------------------
(* Every step keeps the types. *)
LEMMA TInvStep ==
    ASSUME TInv, [XNext]_vars
    PROVE  TInv'
<1>1. CASE Start
  BY <1>1, ExposureAssumption DEF Start, Idle, At, cluster, TInv, Shape, Names, Revs, Auths
<1>2. CASE DropPolicy
  BY <1>2, ExposureAssumption DEF DropPolicy, NoPolicy, At, cluster, TInv, Shape, Names, Revs,
     Auths
<1>3. CASE AliasesDone
  BY <1>3, ExposureAssumption DEF AliasesDone, At, cluster, TInv, Shape, Names, Revs, Auths
<1>4. CASE PrepareOpen
  BY <1>4, ExposureAssumption DEF PrepareOpen, NoPolicy, At, cluster, TInv, Shape, Names,
     Revs, Auths
<1>5. CASE ReadSecret
  <2>1. secret' \in [rv : Nat, owned : BOOLEAN] /\ serial' \in Nat
    <3>1. CASE secret.rv > 0 /\ ~ secret.owned
      <4>1. secret' = [rv |-> serial + 1, owned |-> TRUE] /\ serial' = serial + 1
        BY <1>5, <3>1, Zenon DEF ReadSecret
      <4> QED
        BY <4>1 DEF TInv
    <3>2. CASE ~ (secret.rv > 0 /\ ~ secret.owned)
      <4>1. UNCHANGED <<secret, serial>>
        BY <1>5, <3>2, Zenon DEF ReadSecret
      <4> QED
        BY <4>1 DEF TInv
    <3> QED
      BY <3>1, <3>2
  <2>2. secret'.rv \in Nat
    BY <2>1
  <2> QED
    BY <1>5, <2>1, <2>2 DEF ReadSecret, At, TInv, Shape, Names, Revs, Auths
<1>6. CASE BlockFirst
  BY <1>6, ExposureAssumption DEF BlockFirst, Routed, SameSpec, PolicyIsReady, Goto, At,
     cluster, TInv, Shape, Names, Revs, Auths
<1>7. CASE ApplyPolicy
  BY <1>7, ExposureAssumption DEF ApplyPolicy, SameSpec, At, cluster, TInv, Shape, Names,
     Revs, Auths
<1>8. CASE PublishAlias
  BY <1>8, ExposureAssumption DEF PublishAlias, Routed, Backend, At, cluster, TInv, Shape,
     Names, Revs, Auths
<1>9. CASE LeaveWeb
  BY <1>9, ExposureAssumption DEF LeaveWeb, NoRoute, Web, AssignedForwarders, At, cluster,
     TInv, Shape, Names, Revs, Auths
<1>10. CASE ApplyNetworkPolicy
  BY <1>10, ExposureAssumption DEF ApplyNetworkPolicy, Goto, At, cluster, TInv, Shape, Names,
     Revs, Auths
<1>11. CASE ApplyService
  BY <1>11, ExposureAssumption DEF ApplyService, Goto, At, cluster, TInv, Shape, Names, Revs,
     Auths
<1>12. CASE PublishRoute
  BY <1>12, ExposureAssumption DEF PublishRoute, Routed, Backend, Web, At, cluster, TInv,
     Shape, Names, Revs, Auths
<1>13. CASE Report
  BY <1>13, ExposureAssumption DEF Report, Idle, At, cluster, TInv, Shape, Names, Revs, Auths
<1>14. CASE AliasesFail
  BY <1>14, ExposureAssumption DEF AliasesFail, At, cluster, TInv, Shape, Names, Revs, Auths
<1>15. CASE Abort
  BY <1>15, ExposureAssumption DEF Abort, Idle, At, cluster, TInv, Shape, Names, Revs, Auths
<1>16. CASE Update
  BY <1>16, ExposureAssumption DEF Update, Valid, cluster, TInv, Shape, Names, Revs, Auths
<1>17. CASE PutContext
  BY <1>17, ExposureAssumption DEF PutContext, cluster, TInv, Shape, Names, Revs, Auths
<1>18. CASE BlockExistingRoute
  BY <1>18, ExposureAssumption DEF BlockExistingRoute, Routed, NoRoute, cluster, TInv, Shape,
     Names, Revs, Auths
<1>19. CASE PutSecret
  BY <1>19, ExposureAssumption DEF PutSecret, cluster, TInv, Shape, Names, Revs, Auths
<1>20. CASE DeleteContext
  BY <1>20, ExposureAssumption DEF DeleteContext, cluster, TInv, Shape, Names, Revs, Auths
<1>21. CASE DeleteSecret
  BY <1>21, ExposureAssumption DEF DeleteSecret, cluster, TInv, Shape, Names, Revs, Auths
<1>22. CASE AssignAddress
  BY <1>22, ExposureAssumption DEF AssignAddress, cluster, TInv, Shape, Names, Revs, Auths
<1>23. ASSUME NEW a \in Aliases, DropRoute(a)
      PROVE  TInv'
  BY <1>23, ExposureAssumption DEF DropRoute, NoRoute, At, cluster, TInv, Shape, Names, Revs,
     Auths
<1>24. ASSUME NEW a \in Aliases, PrepareAlias(a)
      PROVE  TInv'
  BY <1>24, ExposureAssumption DEF PrepareAlias, At, cluster, TInv, Shape, Names, Revs, Auths
<1>25. ASSUME NEW a \in Aliases, AddDomain(a)
      PROVE  TInv'
  BY <1>25, ExposureAssumption DEF AddDomain, cluster, TInv, Shape, Names, Revs, Auths
<1>26. ASSUME NEW a \in Aliases, RemoveDomain(a)
      PROVE  TInv'
  BY <1>26, ExposureAssumption DEF RemoveDomain, cluster, TInv, Shape, Names, Revs, Auths
<1>27. ASSUME NEW a \in Aliases, VerifyDomain(a)
      PROVE  TInv'
  BY <1>27, ExposureAssumption DEF VerifyDomain, cluster, TInv, Shape, Names, Revs, Auths
<1>28. ASSUME NEW a \in Aliases, LapseDomain(a)
      PROVE  TInv'
  BY <1>28, ExposureAssumption DEF LapseDomain, cluster, TInv, Shape, Names, Revs, Auths
<1>29. ASSUME NEW a \in Aliases, ReleaseDomain(a)
      PROVE  TInv'
  BY <1>29, ExposureAssumption DEF ReleaseDomain, cluster, TInv, Shape, Names, Revs, Auths
<1>30. ASSUME NEW n \in Names, AcceptRoute(n)
      PROVE  TInv'
  BY <1>30, ExposureAssumption DEF AcceptRoute, Open, NoRoute, cluster, TInv, Shape, Names,
     Revs, Auths
<1>31. ASSUME NEW n \in Names, JudgePolicy(n)
      PROVE  TInv'
  BY <1>31, ExposureAssumption, ZenonT(40) DEF JudgePolicy, cluster, TInv, Shape, Names, Revs, Auths
<1>32. CASE UNCHANGED vars
  BY <1>32 DEF vars, TInv, Shape, Names, Revs, Auths
<1> QED
  BY <1>1, <1>2, <1>3, <1>4, <1>5, <1>6, <1>7, <1>8, <1>9, <1>10, <1>11, <1>12, <1>13, <1>14,
     <1>15, <1>16, <1>17, <1>18, <1>19, <1>20, <1>21, <1>22, <1>23, <1>24, <1>25, <1>26,
     <1>27, <1>28, <1>29, <1>30, <1>31, <1>32 DEF XNext, Step, Command, Outside

(* Every step keeps the routes guarded. *)
LEMMA GInvStep ==
    ASSUME TInv, GInv, [XNext]_vars
    PROVE  GInv'
<1>1. CASE Start
  BY <1>1, ExposureAssumption DEF Start, Idle, At, cluster, GInv, Safe, Open, TInv, Shape,
     Names, Revs, Auths
<1>2. CASE DropPolicy
  BY <1>2, ExposureAssumption DEF DropPolicy, NoPolicy, At, cluster, GInv, Safe, Open, TInv,
     Shape, Names, Revs, Auths
<1>3. CASE AliasesDone
  BY <1>3, ExposureAssumption DEF AliasesDone, At, cluster, GInv, Safe, Open, TInv, Shape,
     Names, Revs, Auths
<1>4. CASE PrepareOpen
  BY <1>4, ExposureAssumption DEF PrepareOpen, NoPolicy, At, cluster, GInv, Safe, Open, TInv,
     Shape, Names, Revs, Auths
<1>5. CASE ReadSecret
  BY <1>5, ExposureAssumption DEF ReadSecret, At, cluster, GInv, Safe, Open, TInv, Shape,
     Names, Revs, Auths
<1>6. CASE BlockFirst
  BY <1>6, ExposureAssumption DEF BlockFirst, Routed, SameSpec, PolicyIsReady, Goto, At,
     cluster, GInv, Safe, Open, TInv, Shape, Names, Revs, Auths
<1>7. CASE ApplyPolicy
  BY <1>7, ExposureAssumption DEF ApplyPolicy, SameSpec, At, cluster, GInv, Safe, Open, TInv,
     Shape, Names, Revs, Auths
<1>8. CASE PublishAlias
  BY <1>8, ExposureAssumption DEF PublishAlias, Routed, Backend, At, cluster, GInv, Safe,
     Open, TInv, Shape, Names, Revs, Auths
<1>9. CASE LeaveWeb
  BY <1>9, ExposureAssumption DEF LeaveWeb, NoRoute, Web, AssignedForwarders, At, cluster,
     GInv, Safe, Open, TInv, Shape, Names, Revs, Auths
<1>10. CASE ApplyNetworkPolicy
  BY <1>10, ExposureAssumption DEF ApplyNetworkPolicy, Goto, At, cluster, GInv, Safe, Open,
     TInv, Shape, Names, Revs, Auths
<1>11. CASE ApplyService
  BY <1>11, ExposureAssumption DEF ApplyService, Goto, At, cluster, GInv, Safe, Open, TInv,
     Shape, Names, Revs, Auths
<1>12. CASE PublishRoute
  BY <1>12, ExposureAssumption DEF PublishRoute, Routed, Backend, Web, At, cluster, GInv,
     Safe, Open, TInv, Shape, Names, Revs, Auths
<1>13. CASE Report
  BY <1>13, ExposureAssumption DEF Report, Idle, At, cluster, GInv, Safe, Open, TInv, Shape,
     Names, Revs, Auths
<1>14. CASE AliasesFail
  BY <1>14, ExposureAssumption DEF AliasesFail, At, cluster, GInv, Safe, Open, TInv, Shape,
     Names, Revs, Auths
<1>15. CASE Abort
  BY <1>15, ExposureAssumption DEF Abort, Idle, At, cluster, GInv, Safe, Open, TInv, Shape,
     Names, Revs, Auths
<1>16. CASE Update
  BY <1>16, ExposureAssumption DEF Update, Valid, cluster, GInv, Safe, Open, TInv, Shape,
     Names, Revs, Auths
<1>17. CASE PutContext
  BY <1>17, ExposureAssumption DEF PutContext, cluster, GInv, Safe, Open, TInv, Shape, Names,
     Revs, Auths
<1>18. CASE BlockExistingRoute
  BY <1>18, ExposureAssumption DEF BlockExistingRoute, Routed, NoRoute, cluster, GInv, Safe,
     Open, TInv, Shape, Names, Revs, Auths
<1>19. CASE PutSecret
  BY <1>19, ExposureAssumption DEF PutSecret, cluster, GInv, Safe, Open, TInv, Shape, Names,
     Revs, Auths
<1>20. CASE DeleteContext
  BY <1>20, ExposureAssumption DEF DeleteContext, cluster, GInv, Safe, Open, TInv, Shape,
     Names, Revs, Auths
<1>21. CASE DeleteSecret
  BY <1>21, ExposureAssumption DEF DeleteSecret, cluster, GInv, Safe, Open, TInv, Shape,
     Names, Revs, Auths
<1>22. CASE AssignAddress
  BY <1>22, ExposureAssumption DEF AssignAddress, cluster, GInv, Safe, Open, TInv, Shape,
     Names, Revs, Auths
<1>23. ASSUME NEW a \in Aliases, DropRoute(a)
      PROVE  GInv'
  BY <1>23, ExposureAssumption DEF DropRoute, NoRoute, At, cluster, GInv, Safe, Open, TInv,
     Shape, Names, Revs, Auths
<1>24. ASSUME NEW a \in Aliases, PrepareAlias(a)
      PROVE  GInv'
  BY <1>24, ExposureAssumption DEF PrepareAlias, At, cluster, GInv, Safe, Open, TInv, Shape,
     Names, Revs, Auths
<1>25. ASSUME NEW a \in Aliases, AddDomain(a)
      PROVE  GInv'
  BY <1>25, ExposureAssumption DEF AddDomain, cluster, GInv, Safe, Open, TInv, Shape, Names,
     Revs, Auths
<1>26. ASSUME NEW a \in Aliases, RemoveDomain(a)
      PROVE  GInv'
  BY <1>26, ExposureAssumption DEF RemoveDomain, cluster, GInv, Safe, Open, TInv, Shape,
     Names, Revs, Auths
<1>27. ASSUME NEW a \in Aliases, VerifyDomain(a)
      PROVE  GInv'
  BY <1>27, ExposureAssumption DEF VerifyDomain, cluster, GInv, Safe, Open, TInv, Shape,
     Names, Revs, Auths
<1>28. ASSUME NEW a \in Aliases, LapseDomain(a)
      PROVE  GInv'
  BY <1>28, ExposureAssumption DEF LapseDomain, cluster, GInv, Safe, Open, TInv, Shape, Names,
     Revs, Auths
<1>29. ASSUME NEW a \in Aliases, ReleaseDomain(a)
      PROVE  GInv'
  BY <1>29, ExposureAssumption DEF ReleaseDomain, cluster, GInv, Safe, Open, TInv, Shape,
     Names, Revs, Auths
<1>30. ASSUME NEW n \in Names, AcceptRoute(n)
      PROVE  GInv'
  BY <1>30, ExposureAssumption DEF AcceptRoute, Open, NoRoute, cluster, GInv, Safe, TInv,
     Shape, Names, Revs, Auths
<1>31. ASSUME NEW n \in Names, JudgePolicy(n)
      PROVE  GInv'
  BY <1>31, ExposureAssumption DEF JudgePolicy, cluster, GInv, Safe, Open, TInv, Shape, Names,
     Revs, Auths
<1>32. CASE UNCHANGED vars
  BY <1>32 DEF vars, GInv, Safe, Open, TInv, Shape, Names, Revs, Auths
<1> QED
  BY <1>1, <1>2, <1>3, <1>4, <1>5, <1>6, <1>7, <1>8, <1>9, <1>10, <1>11, <1>12, <1>13, <1>14,
     <1>15, <1>16, <1>17, <1>18, <1>19, <1>20, <1>21, <1>22, <1>23, <1>24, <1>25, <1>26,
     <1>27, <1>28, <1>29, <1>30, <1>31, <1>32 DEF XNext, Step, Command, Outside

(* Every step keeps the route away from a service that left web. *)
LEMMA RInvStep ==
    ASSUME TInv, RInv, [XNext]_vars
    PROVE  RInv'
<1>1. CASE Start
  BY <1>1, ExposureAssumption DEF Start, Idle, At, cluster, RInv, Web, TInv, Shape, Names,
     Revs, Auths
<1>2. CASE DropPolicy
  BY <1>2, ExposureAssumption DEF DropPolicy, NoPolicy, At, cluster, RInv, Web, TInv, Shape,
     Names, Revs, Auths
<1>3. CASE AliasesDone
  BY <1>3, ExposureAssumption DEF AliasesDone, At, cluster, RInv, Web, TInv, Shape, Names,
     Revs, Auths
<1>4. CASE PrepareOpen
  BY <1>4, ExposureAssumption DEF PrepareOpen, NoPolicy, At, cluster, RInv, Web, TInv, Shape,
     Names, Revs, Auths
<1>5. CASE ReadSecret
  BY <1>5, ExposureAssumption DEF ReadSecret, At, cluster, RInv, Web, TInv, Shape, Names,
     Revs, Auths
<1>6. CASE BlockFirst
  BY <1>6, ExposureAssumption DEF BlockFirst, Routed, SameSpec, PolicyIsReady, Goto, At,
     cluster, RInv, Web, TInv, Shape, Names, Revs, Auths
<1>7. CASE ApplyPolicy
  BY <1>7, ExposureAssumption DEF ApplyPolicy, SameSpec, At, cluster, RInv, Web, TInv, Shape,
     Names, Revs, Auths
<1>8. CASE PublishAlias
  BY <1>8, ExposureAssumption DEF PublishAlias, Routed, Backend, At, cluster, RInv, Web, TInv,
     Shape, Names, Revs, Auths
<1>9. CASE LeaveWeb
  BY <1>9, ExposureAssumption DEF LeaveWeb, NoRoute, Web, AssignedForwarders, At, cluster,
     RInv, TInv, Shape, Names, Revs, Auths
<1>10. CASE ApplyNetworkPolicy
  BY <1>10, ExposureAssumption DEF ApplyNetworkPolicy, Goto, At, cluster, RInv, Web, TInv,
     Shape, Names, Revs, Auths
<1>11. CASE ApplyService
  BY <1>11, ExposureAssumption DEF ApplyService, Goto, At, cluster, RInv, Web, TInv, Shape,
     Names, Revs, Auths
<1>12. CASE PublishRoute
  BY <1>12, ExposureAssumption DEF PublishRoute, Routed, Backend, Web, At, cluster, RInv,
     TInv, Shape, Names, Revs, Auths
<1>13. CASE Report
  BY <1>13, ExposureAssumption DEF Report, Idle, At, cluster, RInv, Web, TInv, Shape, Names,
     Revs, Auths
<1>14. CASE AliasesFail
  BY <1>14, ExposureAssumption DEF AliasesFail, At, cluster, RInv, Web, TInv, Shape, Names,
     Revs, Auths
<1>15. CASE Abort
  BY <1>15, ExposureAssumption DEF Abort, Idle, At, cluster, RInv, Web, TInv, Shape, Names,
     Revs, Auths
<1>16. CASE Update
  BY <1>16, ExposureAssumption DEF Update, Valid, cluster, RInv, Web, TInv, Shape, Names,
     Revs, Auths
<1>17. CASE PutContext
  BY <1>17, ExposureAssumption DEF PutContext, cluster, RInv, Web, TInv, Shape, Names, Revs,
     Auths
<1>18. CASE BlockExistingRoute
  <2>1. round' = round
    BY <1>18 DEF BlockExistingRoute
  <2>2. route[Main] = NoRoute => route' = route
    BY <1>18 DEF BlockExistingRoute, NoRoute
  <2> QED
    BY <2>1, <2>2 DEF RInv, Web
<1>19. CASE PutSecret
  BY <1>19, ExposureAssumption DEF PutSecret, cluster, RInv, Web, TInv, Shape, Names, Revs,
     Auths
<1>20. CASE DeleteContext
  BY <1>20, ExposureAssumption DEF DeleteContext, cluster, RInv, Web, TInv, Shape, Names,
     Revs, Auths
<1>21. CASE DeleteSecret
  BY <1>21, ExposureAssumption DEF DeleteSecret, cluster, RInv, Web, TInv, Shape, Names, Revs,
     Auths
<1>22. CASE AssignAddress
  BY <1>22, ExposureAssumption DEF AssignAddress, cluster, RInv, Web, TInv, Shape, Names,
     Revs, Auths
<1>23. ASSUME NEW a \in Aliases, DropRoute(a)
      PROVE  RInv'
  BY <1>23, ExposureAssumption DEF DropRoute, NoRoute, At, cluster, RInv, Web, TInv, Shape,
     Names, Revs, Auths
<1>24. ASSUME NEW a \in Aliases, PrepareAlias(a)
      PROVE  RInv'
  BY <1>24, ExposureAssumption DEF PrepareAlias, At, cluster, RInv, Web, TInv, Shape, Names,
     Revs, Auths
<1>25. ASSUME NEW a \in Aliases, AddDomain(a)
      PROVE  RInv'
  BY <1>25, ExposureAssumption DEF AddDomain, cluster, RInv, Web, TInv, Shape, Names, Revs,
     Auths
<1>26. ASSUME NEW a \in Aliases, RemoveDomain(a)
      PROVE  RInv'
  BY <1>26, ExposureAssumption DEF RemoveDomain, cluster, RInv, Web, TInv, Shape, Names, Revs,
     Auths
<1>27. ASSUME NEW a \in Aliases, VerifyDomain(a)
      PROVE  RInv'
  BY <1>27, ExposureAssumption DEF VerifyDomain, cluster, RInv, Web, TInv, Shape, Names, Revs,
     Auths
<1>28. ASSUME NEW a \in Aliases, LapseDomain(a)
      PROVE  RInv'
  BY <1>28, ExposureAssumption DEF LapseDomain, cluster, RInv, Web, TInv, Shape, Names, Revs,
     Auths
<1>29. ASSUME NEW a \in Aliases, ReleaseDomain(a)
      PROVE  RInv'
  BY <1>29, ExposureAssumption DEF ReleaseDomain, cluster, RInv, Web, TInv, Shape, Names,
     Revs, Auths
<1>30. ASSUME NEW n \in Names, AcceptRoute(n)
      PROVE  RInv'
  <2>1. round' = round
    BY <1>30 DEF AcceptRoute
  <2>2. route' = [route EXCEPT ![n] = [route[n] EXCEPT !.settled = TRUE]] /\ Open(n)
    BY <1>30 DEF AcceptRoute
  <2>3. route[Main] = NoRoute => n # Main
    BY <2>2 DEF Open, NoRoute
  <2>4. Main \in Names
    BY DEF Names
  <2>5. route[Main] = NoRoute => route'[Main] = route[Main]
    BY <2>2, <2>3, <2>4 DEF TInv
  <2> QED
    BY <2>1, <2>5 DEF RInv, Web
<1>31. ASSUME NEW n \in Names, JudgePolicy(n)
      PROVE  RInv'
  BY <1>31, ExposureAssumption DEF JudgePolicy, cluster, RInv, Web, TInv, Shape, Names, Revs,
     Auths
<1>32. CASE UNCHANGED vars
  BY <1>32 DEF vars, RInv, Web, TInv, Shape, Names, Revs, Auths
<1> QED
  BY <1>1, <1>2, <1>3, <1>4, <1>5, <1>6, <1>7, <1>8, <1>9, <1>10, <1>11, <1>12, <1>13, <1>14,
     <1>15, <1>16, <1>17, <1>18, <1>19, <1>20, <1>21, <1>22, <1>23, <1>24, <1>25, <1>26,
     <1>27, <1>28, <1>29, <1>30, <1>31, <1>32 DEF XNext, Step, Command, Outside

(* Every step keeps the network policy that of the view. *)
LEMMA NInvStep ==
    ASSUME TInv, NInv, [XNext]_vars
    PROVE  NInv'
<1>1. CASE Start
  BY <1>1, ExposureAssumption DEF Start, Idle, At, cluster, NInv, TInv, Shape, Names, Revs,
     Auths
<1>2. CASE DropPolicy
  BY <1>2, ExposureAssumption DEF DropPolicy, NoPolicy, At, cluster, NInv, TInv, Shape, Names,
     Revs, Auths
<1>3. CASE AliasesDone
  BY <1>3, ExposureAssumption DEF AliasesDone, At, cluster, NInv, TInv, Shape, Names, Revs,
     Auths
<1>4. CASE PrepareOpen
  BY <1>4, ExposureAssumption DEF PrepareOpen, NoPolicy, At, cluster, NInv, TInv, Shape,
     Names, Revs, Auths
<1>5. CASE ReadSecret
  BY <1>5, ExposureAssumption DEF ReadSecret, At, cluster, NInv, TInv, Shape, Names, Revs, Auths
<1>6. CASE BlockFirst
  BY <1>6, ExposureAssumption DEF BlockFirst, Routed, SameSpec, PolicyIsReady, Goto, At,
     cluster, NInv, TInv, Shape, Names, Revs, Auths
<1>7. CASE ApplyPolicy
  BY <1>7, ExposureAssumption DEF ApplyPolicy, SameSpec, At, cluster, NInv, TInv, Shape,
     Names, Revs, Auths
<1>8. CASE PublishAlias
  BY <1>8, ExposureAssumption DEF PublishAlias, Routed, Backend, At, cluster, NInv, TInv,
     Shape, Names, Revs, Auths
<1>9. CASE LeaveWeb
  BY <1>9, ExposureAssumption DEF LeaveWeb, NoRoute, Web, AssignedForwarders, At, cluster,
     NInv, TInv, Shape, Names, Revs, Auths
<1>10. CASE ApplyNetworkPolicy
  BY <1>10, ExposureAssumption DEF ApplyNetworkPolicy, Goto, At, cluster, NInv, TInv, Shape,
     Names, Revs, Auths
<1>11. CASE ApplyService
  BY <1>11, ExposureAssumption DEF ApplyService, Goto, At, cluster, NInv, TInv, Shape, Names,
     Revs, Auths
<1>12. CASE PublishRoute
  BY <1>12, ExposureAssumption DEF PublishRoute, Routed, Backend, Web, At, cluster, NInv,
     TInv, Shape, Names, Revs, Auths
<1>13. CASE Report
  BY <1>13, ExposureAssumption DEF Report, Idle, At, cluster, NInv, TInv, Shape, Names, Revs,
     Auths
<1>14. CASE AliasesFail
  BY <1>14, ExposureAssumption DEF AliasesFail, At, cluster, NInv, TInv, Shape, Names, Revs,
     Auths
<1>15. CASE Abort
  BY <1>15, ExposureAssumption DEF Abort, Idle, At, cluster, NInv, TInv, Shape, Names, Revs,
     Auths
<1>16. CASE Update
  BY <1>16, ExposureAssumption DEF Update, cluster, NInv, TInv, Shape, Names, Revs, Auths
<1>17. CASE PutContext
  BY <1>17, ExposureAssumption DEF PutContext, cluster, NInv, TInv, Shape, Names, Revs, Auths
<1>18. CASE BlockExistingRoute
  BY <1>18, ExposureAssumption DEF BlockExistingRoute, Routed, NoRoute, cluster, NInv, TInv,
     Shape, Names, Revs, Auths
<1>19. CASE PutSecret
  BY <1>19, ExposureAssumption DEF PutSecret, cluster, NInv, TInv, Shape, Names, Revs, Auths
<1>20. CASE DeleteContext
  BY <1>20, ExposureAssumption DEF DeleteContext, cluster, NInv, TInv, Shape, Names, Revs, Auths
<1>21. CASE DeleteSecret
  BY <1>21, ExposureAssumption DEF DeleteSecret, cluster, NInv, TInv, Shape, Names, Revs, Auths
<1>22. CASE AssignAddress
  BY <1>22, ExposureAssumption DEF AssignAddress, cluster, NInv, TInv, Shape, Names, Revs, Auths
<1>23. ASSUME NEW a \in Aliases, DropRoute(a)
      PROVE  NInv'
  BY <1>23, ExposureAssumption DEF DropRoute, NoRoute, At, cluster, NInv, TInv, Shape, Names,
     Revs, Auths
<1>24. ASSUME NEW a \in Aliases, PrepareAlias(a)
      PROVE  NInv'
  BY <1>24, ExposureAssumption DEF PrepareAlias, At, cluster, NInv, TInv, Shape, Names, Revs,
     Auths
<1>25. ASSUME NEW a \in Aliases, AddDomain(a)
      PROVE  NInv'
  BY <1>25, ExposureAssumption DEF AddDomain, cluster, NInv, TInv, Shape, Names, Revs, Auths
<1>26. ASSUME NEW a \in Aliases, RemoveDomain(a)
      PROVE  NInv'
  BY <1>26, ExposureAssumption DEF RemoveDomain, cluster, NInv, TInv, Shape, Names, Revs, Auths
<1>27. ASSUME NEW a \in Aliases, VerifyDomain(a)
      PROVE  NInv'
  BY <1>27, ExposureAssumption DEF VerifyDomain, cluster, NInv, TInv, Shape, Names, Revs, Auths
<1>28. ASSUME NEW a \in Aliases, LapseDomain(a)
      PROVE  NInv'
  BY <1>28, ExposureAssumption DEF LapseDomain, cluster, NInv, TInv, Shape, Names, Revs, Auths
<1>29. ASSUME NEW a \in Aliases, ReleaseDomain(a)
      PROVE  NInv'
  BY <1>29, ExposureAssumption DEF ReleaseDomain, cluster, NInv, TInv, Shape, Names, Revs, Auths
<1>30. ASSUME NEW n \in Names, AcceptRoute(n)
      PROVE  NInv'
  BY <1>30, ExposureAssumption DEF AcceptRoute, Open, NoRoute, cluster, NInv, TInv, Shape,
     Names, Revs, Auths
<1>31. ASSUME NEW n \in Names, JudgePolicy(n)
      PROVE  NInv'
  BY <1>31, ExposureAssumption DEF JudgePolicy, cluster, NInv, TInv, Shape, Names, Revs, Auths
<1>32. CASE UNCHANGED vars
  BY <1>32 DEF vars, NInv, TInv, Shape, Names, Revs, Auths
<1> QED
  BY <1>1, <1>2, <1>3, <1>4, <1>5, <1>6, <1>7, <1>8, <1>9, <1>10, <1>11, <1>12, <1>13, <1>14,
     <1>15, <1>16, <1>17, <1>18, <1>19, <1>20, <1>21, <1>22, <1>23, <1>24, <1>25, <1>26,
     <1>27, <1>28, <1>29, <1>30, <1>31, <1>32 DEF XNext, Step, Command, Outside

(* Every step keeps the Service that of the view. *)
LEMMA SInvStep ==
    ASSUME TInv, SInv, [XNext]_vars
    PROVE  SInv'
<1>1. CASE ApplyService
  <2>1. /\ lb' = [kind |-> DesiredService(round.view).kind,
                  ranges |-> DesiredService(round.view).ranges,
                  assigned |-> lb.assigned /\ DesiredService(round.view).kind = "LoadBalancer"]
        /\ round' = [round EXCEPT !.pc = "publish"]
    BY <1>1, Zenon DEF ApplyService, Goto
  <2>2. round'.view = round.view
    BY <2>1 DEF TInv, Shape
  <2> QED
    BY <2>1, <2>2 DEF SInv
<1>2. CASE AssignAddress
  <2>1. lb' = [lb EXCEPT !.assigned = TRUE] /\ round' = round
    BY <1>2 DEF AssignAddress
  <2>2. lb' = [kind |-> lb.kind, ranges |-> lb.ranges, assigned |-> TRUE]
    BY <2>1 DEF SInv
  <2> QED
    BY <2>1, <2>2 DEF SInv
<1>3. CASE PublishRoute
  <2>1. /\ lb' = lb /\ round.pc = "publish"
        /\ round' = [round EXCEPT !.pc = "report", !.shown = Endpoints]
    BY <1>3 DEF PublishRoute, At
  <2>2. round'.view = round.view
    BY <2>1 DEF TInv, Shape
  <2> QED
    BY <2>1, <2>2 DEF SInv
<1>4. ASSUME ~ ApplyService, ~ AssignAddress, ~ PublishRoute
      PROVE  lb' = lb
  BY <1>4 DEF XNext, Step, Command, Outside, vars, Start, DropPolicy, AliasesDone,
     PrepareOpen, ReadSecret, BlockFirst, ApplyPolicy, PublishAlias, LeaveWeb,
     ApplyNetworkPolicy, Report, DropRoute, PrepareAlias, AliasesFail, Abort,
     Update, PutContext, BlockExistingRoute, PutSecret, DeleteContext, DeleteSecret,
     AddDomain, RemoveDomain, VerifyDomain, LapseDomain, ReleaseDomain, AcceptRoute,
     JudgePolicy
<1>5. ASSUME Step \/ AliasesFail \/ Abort, ~ ApplyService, ~ PublishRoute
      PROVE  round'.pc \notin {"publish", "report"}
  <2>1. CASE Start \/ Report \/ Abort
    <3>1. Idle.pc = "idle" /\ Shape(Idle)
      BY DEF Idle, Shape
    <3>2. CASE Start
      <4>1. round'.pc = "aliases"
        BY <3>1, <3>2 DEF Start, Shape
      <4> QED
        BY <4>1
    <3>3. CASE Report \/ Abort
      <4>1. round' = Idle
        BY <3>3, Zenon DEF Report, Abort
      <4> QED
        BY <3>1, <4>1
    <3> QED
      BY <2>1, <3>2, <3>3
  <2>2. CASE DropPolicy \/ PublishAlias \/ AliasesDone \/ AliasesFail
    BY <2>2 DEF DropPolicy, PublishAlias, AliasesDone, AliasesFail, TInv, Shape
  <2>3. CASE PrepareOpen \/ ReadSecret \/ BlockFirst \/ ApplyPolicy
    BY <2>3 DEF PrepareOpen, ReadSecret, BlockFirst, ApplyPolicy, Goto, TInv, Shape
  <2>4. CASE LeaveWeb \/ ApplyNetworkPolicy
    BY <2>4 DEF LeaveWeb, ApplyNetworkPolicy, Goto, TInv, Shape
  <2>5. ASSUME NEW a \in Aliases, DropRoute(a) \/ PrepareAlias(a)
        PROVE  round'.pc \notin {"publish", "report"}
    BY <2>5 DEF DropRoute, PrepareAlias, TInv, Shape
  <2> QED
    BY <1>5, <2>1, <2>2, <2>3, <2>4, <2>5 DEF Step
<1>6. ASSUME Command \/ Outside \/ UNCHANGED vars
      PROVE  round' = round
  BY <1>6 DEF Command, Outside, vars, Update, PutContext, BlockExistingRoute, PutSecret,
     DeleteContext, DeleteSecret, AddDomain, RemoveDomain, AssignAddress, VerifyDomain,
     LapseDomain, ReleaseDomain, AcceptRoute, JudgePolicy
<1>7. ASSUME ~ ApplyService, ~ AssignAddress, ~ PublishRoute
      PROVE  SInv'
  <2>1. lb' = lb
    BY <1>4, <1>7
  <2>2. round' = round \/ round'.pc \notin {"publish", "report"}
    BY <1>5, <1>6, <1>7 DEF XNext
  <2> QED
    BY <2>1, <2>2 DEF SInv
<1> QED
  BY <1>1, <1>2, <1>3, <1>7

-----------------------------------------------------------------------------
XInv == TInv /\ GInv /\ RInv /\ NInv /\ SInv

(* The invariant holds where a behaviour may begin.                        *)
LEMMA InitXInv ==
    ASSUME Init
    PROVE  XInv
<1>1. PICK s \in Starts : svc = [gen |-> s.gen, rev |-> s.rev]
                          /\ secret = [rv |-> s.secret, owned |-> FALSE]
  BY DEF Init
<1>2. /\ serial = 1 /\ round = Idle
      /\ route = [n \in Names |-> NoRoute] /\ policy = [n \in Names |-> NoPolicy]
      /\ asked = [n \in Names |-> "none"]
  BY DEF Init
<1>3. s.secret \in {0, 1} /\ Valid(s.rev) /\ s.rev \in Revs
  BY ExposureAssumption DEF Revs
<1>4. TInv
  BY <1>1, <1>2, <1>3 DEF TInv, Shape, Idle, NoRoute, NoPolicy, Names, Auths
<1>5. GInv
  BY <1>1, <1>2, <1>3 DEF GInv, Idle, NoRoute, NoPolicy, Open, Names
<1>6. RInv
  BY <1>2 DEF RInv, Idle
<1>7. NInv
  BY <1>1, <1>2, <1>3 DEF NInv, Idle
<1>8. SInv
  <2>1. lb = [kind |-> "none", ranges |-> {}, assigned |-> FALSE]
    BY DEF Init
  <2> QED
    BY <1>2, <2>1 DEF SInv, Idle
<1> QED
  BY <1>4, <1>5, <1>6, <1>7, <1>8 DEF XInv

(* The inductive invariant of routes, policies and rounds.                 *)
THEOREM ExposureInvariance == XSpec => []XInv
<1>1. XInv /\ [XNext]_vars => XInv'
  BY TInvStep, GInvStep, RInvStep, NInvStep, SInvStep DEF XInv
<1> QED
  BY <1>1, InitXInv, PTL DEF XSpec

(* GuardedRoute: lb_auth::prepare and the publication of the route never   *)
(* leave a route open under a policy that is not the prepared one, or that *)
(* was not accepted for the secret it names.                               *)
THEOREM RoutesAreGuarded == XSpec => []GuardedRoute
<1>1. XInv => GuardedRoute
  BY DEF XInv, GInv, GuardedRoute, Safe
<1> QED
  BY <1>1, ExposureInvariance, PTL

(* RouteLeavesFirst: when a Service turns into a load balancer, the route  *)
(* of the service that was on the web is gone.                             *)
THEOREM RouteIsGoneFirst == XSpec => RouteLeavesFirst
<1> DEFINE Leaves == lb.kind = "ClusterIP" /\ lb'.kind = "LoadBalancer" => route'[Main] = NoRoute
<1>1. ASSUME XInv, [XNext]_vars
      PROVE  Leaves
  <2>1. CASE ApplyService
    <3>1. /\ round.pc = "service" /\ route' = route
          /\ lb'.kind = DesiredService(round.view).kind
      BY <2>1 DEF ApplyService, At
    <3>2. round.view \in Revs
      BY <1>1, <3>1 DEF XInv, TInv
    <3>3. IsRevision(round.view)
      BY <3>2, ExposureAssumption DEF Revs
    <3>4. DesiredService(round.view).kind = "LoadBalancer" => ~ Web(round.view)
      BY <3>3 DEF DesiredService, Web, IsRevision
    <3> QED
      BY <1>1, <3>1, <3>4 DEF XInv, RInv
  <2>2. CASE AssignAddress
    BY <2>2 DEF AssignAddress
  <2>3. ASSUME [XNext]_vars, ~ ApplyService, ~ AssignAddress
        PROVE  lb' = lb
    BY <2>3 DEF XNext, Step, Command, Outside, vars, Start, DropPolicy, AliasesDone,
       PrepareOpen, ReadSecret, BlockFirst, ApplyPolicy, PublishAlias, LeaveWeb,
       ApplyNetworkPolicy, PublishRoute, Report, DropRoute, PrepareAlias, AliasesFail, Abort,
       Update, PutContext, BlockExistingRoute, PutSecret, DeleteContext, DeleteSecret,
       AddDomain, RemoveDomain, VerifyDomain, LapseDomain, ReleaseDomain, AcceptRoute,
       JudgePolicy
  <2> QED
    BY <1>1, <2>1, <2>2, <2>3
<1> QED
  BY <1>1, ExposureInvariance, PTL DEF XSpec, RouteLeavesFirst

(* PolicyAsAsked: at the end of a round the NetworkPolicy in force admits  *)
(* exactly the addresses the revision asks for, in and out.                *)
THEOREM PolicyIsAsAsked == XSpec => []PolicyAsAsked
<1>1. ASSUME XInv, At("report")
      PROVE  /\ netpol.in \cap Address = Entering(round.view, round.forwarders)
             /\ {p \in Address : <<p, "any">> \in netpol.out} = Leaving(round.view)
  <2>1. round.view \in Revs /\ ValidEgress(round.view)
    BY <1>1 DEF XInv, TInv, NInv, At, Valid
  <2>2. IsRevision(round.view)
    BY <2>1, ExposureAssumption DEF Revs
  <2>3. /\ round.forwarders \in SUBSET Networks
        /\ round.view.traffic # "forwarded" => round.forwarders = {}
        /\ netpol = [in |-> Ingress(round.view, round.forwarders), out |-> Egress(round.view)]
    BY <1>1 DEF XInv, NInv, At
  <2>4. Ingress(round.view, round.forwarders) \cap Address
          = Entering(round.view, round.forwarders)
    BY <2>2, <2>3, IngressExact
  <2>5. {p \in Address : <<p, "any">> \in Egress(round.view)} = Leaving(round.view)
    BY <2>1, <2>2, EgressExact
  <2>6. /\ netpol.in = Ingress(round.view, round.forwarders)
        /\ netpol.out = Egress(round.view)
    BY <2>3
  <2> QED
    BY <2>4, <2>5, <2>6
<1>2. XInv => PolicyAsAsked
  BY <1>1 DEF PolicyAsAsked
<1> QED
  BY <1>2, ExposureInvariance, PTL

(* AccessAsAsked: besides, the source ranges of the load balancer cover    *)
(* the allowed sources without the denied ones, up to the two addresses    *)
(* that are no packet's source.                                            *)
THEOREM AccessIsAsAsked == XSpec => []AccessAsAsked
<1> DEFINE Asked == Listed(round.view.allowed, FamilyRoots, round.view.denied)
<1>1. ASSUME XInv, At("report"), lb.kind = "LoadBalancer", HasSourcePolicy(round.view)
      PROVE  (UNION lb.ranges) \ UNION Nowhere = Asked \ UNION Nowhere
  <2> DEFINE x == round.view
             nets == EffectiveSourceNetworks(x).nets
  <2>1. x \in Revs /\ Valid(x)
    BY <1>1 DEF XInv, TInv, NInv, At
  <2>2. IsRevision(x) /\ EffectiveSourceNetworks(x).ok
    BY <2>1, ExposureAssumption DEF Revs, Valid
  <2>3. DesiredService(x).kind = "LoadBalancer" /\ lb.ranges = DesiredService(x).ranges
    BY <1>1 DEF XInv, SInv, At
  <2>4. Cover(nets) = Asked
    <3> HIDE DEF x
    <3>1. Cover(nets) = Listed(x.allowed, FamilyRoots, x.denied)
      BY <2>2, SourcesExact
    <3> QED
      BY <3>1 DEF x
  <2>5. lb.ranges = IF nets = {} THEN Nowhere ELSE nets
    <3>1. x.ports \in BOOLEAN /\ x.kind \in {"internal", "public"}
      BY <2>2 DEF IsRevision
    <3> HIDE DEF x, nets
    <3>2. x.ports /\ x.kind = "public" /\ x.mode # "web"
      BY <2>3, <3>1 DEF DesiredService
    <3>3. DesiredService(x).ranges = IF ~ HasSourcePolicy(x) THEN {}
                                     ELSE IF nets = {} THEN Nowhere ELSE nets
      BY <3>2 DEF DesiredService, nets
    <3>4. HasSourcePolicy(x)
      BY <1>1 DEF x
    <3> QED
      BY <2>3, <3>3, <3>4
  <2> HIDE DEF nets, Asked
  <2>6. CASE nets = {}
    BY <2>4, <2>5, <2>6 DEF Cover
  <2>7. CASE nets # {}
    BY <2>4, <2>5, <2>7 DEF Cover
  <2> QED
    BY <2>6, <2>7
<1>2. XInv => (At("report") /\ lb.kind = "LoadBalancer" /\ HasSourcePolicy(round.view) =>
                 (UNION lb.ranges) \ UNION Nowhere = Asked \ UNION Nowhere)
  BY <1>1
<1>3. XInv /\ PolicyAsAsked => AccessAsAsked
  BY <1>2 DEF AccessAsAsked
<1> QED
  BY <1>3, ExposureInvariance, PolicyIsAsAsked, PTL
=============================================================================
