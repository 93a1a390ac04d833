------------------------------- MODULE Exposure -------------------------------
(***************************************************************************)
(* How a revision of a service reaches the network: one reconcile round of *)
(* src/reconcile.rs routes the custom domains, prepares the browser        *)
(* authentication of every route (src/lb_auth.rs), applies the network     *)
(* policy and the Service and publishes the HTTPRoute, while the provider  *)
(* API writes client secrets and registers domains and the gateway and the *)
(* network controller answer in their own time.  The round of one service  *)
(* is sequential; an error, an early return or a restart ends it anywhere. *)
(***************************************************************************)
EXTENDS AccessRules

CONSTANTS
    Aliases,    \* the custom hostnames of the service
    Forwarders, \* the host networks of the nodes that forward its traffic
    MaxGen,     \* bound on the service's revisions
    Starts,     \* records [rev, gen, secret, budget]: where a behaviour may begin
    Later       \* the revisions an update may bring

Main == "main"
Names == {Main} \cup Aliases

ASSUME ExposureAssumption ==
    /\ Main \notin Aliases
    /\ Forwarders \subseteq Networks
    /\ \A s \in Starts : IsRevision(s.rev) /\ Valid(s.rev) /\ s.secret \in {0, 1}
    /\ \A x \in Later : IsRevision(x)

VARIABLES
    budget,     \* disturbances left
    svc,        \* the FlashService: generation and revision
    status,     \* its status: observed generation and whether endpoints are shown
    secret,     \* the client secret: resource version (0: absent) and ownership
    serial,     \* the last resource version given to a secret
    alias,      \* each FlashDomain: none, pending, ready or deleting
    route,      \* each HTTPRoute: its backend and whether the gateway accepted it
    policy,     \* each SecurityPolicy: configuration, secret version, acceptance
    asked,      \* the authentication each route was last prepared for (history)
    lb,         \* the Service: kind, source ranges, address assigned
    netpol,     \* what the NetworkPolicy admits, in and out
    round,      \* the controller's round
    api         \* the secret command the API is serving

vars == <<budget, svc, status, secret, serial, alias, route, policy, asked, lb,
          netpol, round, api>>
cluster == <<svc, secret, serial, alias, api>>

NoRoute == [to |-> "none", settled |-> FALSE]
NoPolicy == [auth |-> "none", rv |-> 0, settled |-> FALSE]
Idle == [pc |-> "idle", view |-> <<>>, gen |-> 0, list |-> [a \in Aliases |-> "none"],
         todo |-> {}, name |-> Main, rv |-> 0, ready |-> FALSE, forwarders |-> {},
         shown |-> FALSE]

Init ==
    /\ \E s \in Starts :
          /\ budget = s.budget
          /\ svc = [gen |-> s.gen, rev |-> s.rev]
          /\ secret = [rv |-> s.secret, owned |-> FALSE]
    /\ status = [gen |-> 0, endpoints |-> FALSE]
    /\ serial = 1
    /\ alias = [a \in Aliases |-> "none"]
    /\ route = [n \in Names |-> NoRoute]
    /\ policy = [n \in Names |-> NoPolicy]
    /\ asked = [n \in Names |-> "none"]
    /\ lb = [kind |-> "none", ranges |-> {}, assigned |-> FALSE]
    /\ netpol = [in |-> {}, out |-> {}]
    /\ round = Idle
    /\ api = "none"

Disturb == budget > 0 /\ budget' = budget - 1
Calm == UNCHANGED budget

Web(x) == x.mode = "web"
\* desired_http_route: a service that scales to zero is reached through the activator.
Backend(x) == IF x.zero THEN "activator" ELSE "service"
Open(n) == route[n].to \in {"activator", "service"}

\* A server-side apply: a changed object is a new generation, not yet accepted.
Routed(n, to) ==
    IF route[n].to = to THEN route ELSE [route EXCEPT ![n] = [to |-> to, settled |-> FALSE]]

\* route_is_ready and policy_is_ready: accepted at the current generation.
RouteIsReady(n) == Open(n) /\ route[n].settled
PolicyIsReady(n) == policy[n].auth # "none" /\ policy[n].settled

----------------------------------------------------------------------------
(***************************************************************************)
(* The round.                                                              *)
(***************************************************************************)
At(pc) == round.pc = pc
Goto(pc) == round' = [round EXCEPT !.pc = pc]

Start ==
    /\ At("idle")
    /\ round' = [Idle EXCEPT !.pc = "aliases", !.view = svc.rev, !.gen = svc.gen,
                             !.list = alias, !.todo = {a \in Aliases : alias[a] # "none"}]
    /\ Calm /\ UNCHANGED <<cluster, status, route, policy, asked, lb, netpol>>

\* reconcile_routes: a domain that is not verified, or has no base route, loses its
\* route and then its policy.
DropRoute(a) ==
    /\ At("aliases") /\ a \in round.todo
    /\ ~ (round.list[a] = "ready" /\ Web(round.view))
    /\ route' = [route EXCEPT ![a] = NoRoute]
    /\ round' = [round EXCEPT !.pc = "drop", !.name = a]
    /\ Calm /\ UNCHANGED <<cluster, status, policy, asked, lb, netpol>>

DropPolicy ==
    /\ At("drop")
    /\ policy' = [policy EXCEPT ![round.name] = NoPolicy]
    /\ asked' = [asked EXCEPT ![round.name] = "none"]
    /\ round' = [round EXCEPT !.pc = "aliases", !.todo = @ \ {round.name}]
    /\ Calm /\ UNCHANGED <<cluster, status, route, lb, netpol>>

PrepareAlias(a) ==
    /\ At("aliases") /\ a \in round.todo
    /\ round.list[a] = "ready" /\ Web(round.view)
    /\ round' = [round EXCEPT !.pc = "prepare", !.name = a]
    /\ Calm /\ UNCHANGED <<cluster, status, route, policy, asked, lb, netpol>>

\* An error among the domains is logged and leaves the remaining ones as they are.
AliasesFail ==
    /\ round.pc \in {"aliases", "drop", "prepare", "compare", "apply", "opened"}
    /\ At("aliases") => round.todo # {}
    /\ ~ At("aliases") => round.name # Main
    /\ round' = [round EXCEPT !.pc = "prepare", !.name = Main, !.todo = {}]
    /\ Disturb /\ UNCHANGED <<cluster, status, route, policy, asked, lb, netpol>>

AliasesDone ==
    /\ At("aliases") /\ round.todo = {}
    /\ round' = [round EXCEPT !.pc = "prepare", !.name = Main]
    /\ Calm /\ UNCHANGED <<cluster, status, route, policy, asked, lb, netpol>>

(***************************************************************************)
(* lb_auth::prepare for the route round.name.                              *)
(***************************************************************************)
PrepareOpen ==
    /\ At("prepare") /\ round.view.auth = "none"
    /\ policy' = [policy EXCEPT ![round.name] = NoPolicy]
    /\ asked' = [asked EXCEPT ![round.name] = "none"]
    /\ round' = [round EXCEPT !.pc = "opened", !.ready = TRUE]
    /\ Calm /\ UNCHANGED <<cluster, status, route, lb, netpol>>

\* Reads the secret and adopts it, fenced on its version, if nobody owns it.
ReadSecret ==
    /\ At("prepare") /\ round.view.auth # "none"
    /\ IF secret.rv > 0 /\ ~ secret.owned
       THEN /\ serial' = serial + 1
            /\ secret' = [rv |-> serial + 1, owned |-> TRUE]
       ELSE UNCHANGED <<secret, serial>>
    /\ round' = [round EXCEPT !.pc = "compare", !.rv = secret'.rv]
    /\ Calm /\ UNCHANGED <<svc, alias, api, status, route, policy, asked, lb, netpol>>

\* Mutant: the secret's version is left out of the cookie names.
SameSpecAnySecret(n) == policy[n].auth = round.view.auth

SameSpec(n) == policy[n].auth = round.view.auth /\ policy[n].rv = round.rv

\* Mutant: the policy is changed under the open route.
BlockFirstNever ==
    /\ At("compare")
    /\ Goto("apply")
    /\ Calm /\ UNCHANGED <<cluster, status, route, policy, asked, lb, netpol>>

\* A policy that is not the desired one, or not accepted, first blocks the route.
BlockFirst ==
    /\ At("compare")
    /\ route' = IF SameSpec(round.name) /\ PolicyIsReady(round.name)
                THEN route ELSE Routed(round.name, "blocked")
    /\ Goto("apply")
    /\ Calm /\ UNCHANGED <<cluster, status, policy, asked, lb, netpol>>

ApplyPolicy ==
    /\ At("apply")
    /\ policy' = IF SameSpec(round.name) THEN policy
                 ELSE [policy EXCEPT ![round.name] =
                          [auth |-> round.view.auth, rv |-> round.rv, settled |-> FALSE]]
    /\ asked' = [asked EXCEPT ![round.name] = round.view.auth]
    /\ round' = [round EXCEPT !.pc = "opened",
                              !.ready = round.rv > 0 /\ policy'[round.name].settled]
    /\ Calm /\ UNCHANGED <<cluster, status, route, lb, netpol>>

PublishAlias ==
    /\ At("opened") /\ round.name # Main
    /\ route' = IF round.ready THEN Routed(round.name, Backend(round.view)) ELSE route
    /\ round' = [round EXCEPT !.pc = "aliases", !.todo = @ \ {round.name}]
    /\ Calm /\ UNCHANGED <<cluster, status, policy, asked, lb, netpol>>

(***************************************************************************)
(* The rest of the round: a service that left web loses its route before   *)
(* anything else changes; then the policy, the Service and the route.      *)
(***************************************************************************)
AssignedForwarders(x) ==
    IF x.kind = "public" /\ x.traffic = "forwarded" /\ ~ Web(x) /\ lb.assigned
    THEN Forwarders ELSE {}

\* Mutant: the route is left for a later round.
LeaveWebLater ==
    /\ At("opened") /\ round.name = Main
    /\ round' = [round EXCEPT !.pc = IF PolicyRefused(round.view) THEN "idle" ELSE "network",
                              !.forwarders = AssignedForwarders(round.view)]
    /\ Calm /\ UNCHANGED <<cluster, status, route, policy, asked, lb, netpol>>

LeaveWeb ==
    /\ At("opened") /\ round.name = Main
    /\ route' = IF Web(round.view) THEN route ELSE [route EXCEPT ![Main] = NoRoute]
    /\ round' = [round EXCEPT !.pc = IF PolicyRefused(round.view) THEN "idle" ELSE "network",
                              !.forwarders = AssignedForwarders(round.view)]
    /\ Calm /\ UNCHANGED <<cluster, status, policy, asked, lb, netpol>>

ApplyNetworkPolicy ==
    /\ At("network")
    /\ netpol' = [in |-> Ingress(round.view, round.forwarders), out |-> Egress(round.view)]
    /\ Goto("service")
    /\ Calm /\ UNCHANGED <<cluster, status, route, policy, asked, lb>>

ApplyService ==
    /\ At("service")
    /\ LET desired == DesiredService(round.view)
       IN  lb' = [kind |-> desired.kind, ranges |-> desired.ranges,
                  assigned |-> lb.assigned /\ desired.kind = "LoadBalancer"]
    /\ Goto("publish")
    /\ Calm /\ UNCHANGED <<cluster, status, route, policy, asked, netpol>>

\* web_endpoints and service_endpoints, from what the apply returned.
Endpoints ==
    CASE lb.kind = "none" -> FALSE
      [] lb.kind # "none" /\ Web(round.view) -> round.ready /\ RouteIsReady(Main)'
      [] lb.kind # "none" /\ ~ Web(round.view) /\ round.view.kind = "internal" -> TRUE
      [] lb.kind # "none" /\ ~ Web(round.view) /\ round.view.kind = "public" -> lb.assigned

PublishRoute ==
    /\ At("publish")
    /\ route' = IF Web(round.view)
                THEN Routed(Main, IF round.ready THEN Backend(round.view) ELSE "blocked")
                ELSE route
    /\ round' = [round EXCEPT !.pc = "report", !.shown = Endpoints]
    /\ Calm /\ UNCHANGED <<cluster, status, policy, asked, lb, netpol>>

Report ==
    /\ At("report")
    /\ status' = [gen |-> round.gen, endpoints |-> round.shown]
    /\ round' = Idle
    /\ Calm /\ UNCHANGED <<cluster, route, policy, asked, lb, netpol>>

\* An error, an early return before the rollout or a restart; the next round starts over.
Abort ==
    /\ ~ At("idle")
    /\ round' = Idle
    /\ Disturb /\ UNCHANGED <<cluster, status, route, policy, asked, lb, netpol>>

----------------------------------------------------------------------------
(***************************************************************************)
(* The provider API.                                                       *)
(***************************************************************************)
Update ==
    \E x \in Later :
        /\ svc.gen < MaxGen /\ Valid(x) /\ x # svc.rev
        /\ svc' = [gen |-> svc.gen + 1, rev |-> x]
        /\ Calm
        /\ UNCHANGED <<secret, serial, alias, api, status, route, policy, asked, lb, netpol, round>>

\* put_load_balancer_secret: looks at the service, blocks its route, writes the secret.
PutContext ==
    /\ api = "none"
    /\ api' = IF svc.rev.auth # "none" THEN "block" ELSE "write"
    /\ Disturb
    /\ UNCHANGED <<svc, secret, serial, alias, status, route, policy, asked, lb,
                   netpol, round>>

BlockExistingRoute ==
    /\ api = "block"
    /\ route' = IF route[Main].to = "none" THEN route ELSE Routed(Main, "blocked")
    /\ api' = "write"
    /\ Calm
    /\ UNCHANGED <<svc, secret, serial, alias, status, policy, asked, lb, netpol, round>>

PutSecret ==
    /\ api = "write"
    /\ serial' = serial + 1
    /\ secret' = [rv |-> serial + 1, owned |-> TRUE]
    /\ api' = "none"
    /\ Calm
    /\ UNCHANGED <<svc, alias, status, route, policy, asked, lb, netpol, round>>

\* delete_load_balancer_secret: refused while the service refers to the secret.
DeleteContext ==
    /\ api = "none" /\ svc.rev.auth = "none"
    /\ api' = "delete"
    /\ Disturb
    /\ UNCHANGED <<svc, secret, serial, alias, status, route, policy, asked, lb,
                   netpol, round>>

DeleteSecret ==
    /\ api = "delete"
    /\ secret' = [rv |-> 0, owned |-> FALSE]
    /\ api' = "none"
    /\ Calm
    /\ UNCHANGED <<svc, serial, alias, status, route, policy, asked, lb, netpol, round>>

AddDomain(a) ==
    /\ Web(svc.rev) /\ alias[a] = "none"
    /\ alias' = [alias EXCEPT ![a] = "pending"]
    /\ Disturb
    /\ UNCHANGED <<svc, secret, serial, api, status, route, policy, asked, lb,
                   netpol, round>>

RemoveDomain(a) ==
    /\ alias[a] \in {"pending", "ready"}
    /\ alias' = [alias EXCEPT ![a] = "deleting"]
    /\ Disturb
    /\ UNCHANGED <<svc, secret, serial, api, status, route, policy, asked, lb,
                   netpol, round>>

\* status_view: the phase the API lists for a domain.
DomainPhase(a) ==
    CASE alias[a] = "deleting" -> "deleting"
      [] alias[a] = "ready" ->
            IF RouteIsReady(a) /\ (svc.rev.auth # "none" => PolicyIsReady(a))
            THEN "ready" ELSE "routing"
      [] alias[a] \in {"none", "pending"} -> alias[a]

----------------------------------------------------------------------------
(***************************************************************************)
(* Outside this repository: the domain worker, the gateway and the network *)
(* controller.                                                             *)
(***************************************************************************)
\* DNS and TLS of a domain are verified, lapse, or its removal completes.
VerifyDomain(a) ==
    /\ alias[a] = "pending"
    /\ alias' = [alias EXCEPT ![a] = "ready"]
    /\ Calm
    /\ UNCHANGED <<svc, secret, serial, api, status, route, policy, asked, lb, netpol, round>>

LapseDomain(a) ==
    /\ alias[a] = "ready"
    /\ alias' = [alias EXCEPT ![a] = "pending"]
    /\ Disturb
    /\ UNCHANGED <<svc, secret, serial, api, status, route, policy, asked, lb,
                   netpol, round>>

ReleaseDomain(a) ==
    /\ alias[a] = "deleting" /\ route[a].to = "none"
    /\ alias' = [alias EXCEPT ![a] = "none"]
    /\ Calm
    /\ UNCHANGED <<svc, secret, serial, api, status, route, policy, asked, lb, netpol, round>>

\* A route is accepted once its backend resolves; a blocked one never resolves.
AcceptRoute(n) ==
    /\ Open(n) /\ ~ route[n].settled
    /\ route[n].to = "service" => lb.kind # "none"
    /\ route' = [route EXCEPT ![n].settled = TRUE]
    /\ Calm
    /\ UNCHANGED <<cluster, status, policy, asked, lb, netpol, round>>

\* A policy is accepted while its secret is there.
JudgePolicy(n) ==
    /\ policy[n].auth # "none" /\ policy[n].settled # (secret.rv > 0)
    /\ policy' = [policy EXCEPT ![n].settled = ~ @]
    /\ Calm
    /\ UNCHANGED <<cluster, status, route, asked, lb, netpol, round>>

AssignAddress ==
    /\ lb.kind = "LoadBalancer" /\ ~ lb.assigned
    /\ lb' = [lb EXCEPT !.assigned = TRUE]
    /\ Calm
    /\ UNCHANGED <<cluster, status, route, policy, asked, netpol, round>>

----------------------------------------------------------------------------
Step ==
    \/ Start \/ DropPolicy \/ AliasesDone \/ PrepareOpen \/ ReadSecret \/ BlockFirst
    \/ ApplyPolicy \/ PublishAlias \/ LeaveWeb \/ ApplyNetworkPolicy \/ ApplyService
    \/ PublishRoute \/ Report
    \/ \E a \in Aliases : DropRoute(a) \/ PrepareAlias(a)

Command ==
    \/ Update \/ PutContext \/ BlockExistingRoute \/ PutSecret \/ DeleteContext \/ DeleteSecret
    \/ \E a \in Aliases : AddDomain(a) \/ RemoveDomain(a)

Outside ==
    \/ AssignAddress
    \/ \E a \in Aliases : VerifyDomain(a) \/ LapseDomain(a) \/ ReleaseDomain(a)
    \/ \E n \in Names : AcceptRoute(n) \/ JudgePolicy(n)

XNext == Step \/ AliasesFail \/ Abort \/ Command \/ Outside

XSpec == Init /\ [][XNext]_vars

\* The controller keeps running rounds, a command that began ends, and the gateway,
\* the domain worker and the network controller answer eventually.
XFairSpec ==
    /\ XSpec
    /\ WF_vars(Step) /\ WF_vars(BlockExistingRoute \/ PutSecret \/ DeleteSecret)
    /\ WF_vars(AssignAddress)
    /\ \A a \in Aliases : WF_vars(VerifyDomain(a)) /\ WF_vars(ReleaseDomain(a))
    /\ \A n \in Names : WF_vars(AcceptRoute(n)) /\ WF_vars(JudgePolicy(n))

----------------------------------------------------------------------------
(***************************************************************************)
(* Properties.                                                             *)
(***************************************************************************)
\* A route that was last prepared for an authentication serves the workload only under an
\* accepted policy of that very authentication, whatever the API, the gateway and restarts do
\* between the check in lb_auth::prepare and the publication of the route.
GuardedRoute ==
    \A n \in Names :
        Open(n) /\ asked[n] # "none" =>
            policy[n].auth = asked[n] /\ (policy[n].settled \/ policy[n].rv # secret.rv)

\* When the round reports, the NetworkPolicy in force admits exactly the addresses the revision
\* asks for: inwards what is allowed and neither denied nor protected, plus the assigned
\* forwarders; outwards, to any port, what the egress policy allows and nothing protected.
PolicyAsAsked ==
    At("report") =>
        /\ netpol.in \cap Address = Entering(round.view, round.forwarders)
        /\ {p \in Address : <<p, "any">> \in netpol.out} = Leaving(round.view)

\* The same holds of the source ranges of a load balancer: together, policy and ranges let in
\* whom the revision names and nobody else.
AccessAsAsked ==
    /\ PolicyAsAsked
    /\ At("report") /\ lb.kind = "LoadBalancer" /\ HasSourcePolicy(round.view) =>
          (UNION lb.ranges) \ UNION Nowhere =
            Listed(round.view.allowed, FamilyRoots, round.view.denied) \ UNION Nowhere

\* Switching away from web deletes the HTTPRoute before the Service changes, also when the API
\* blocks the route for a new client secret at the same time.
RouteLeavesFirst ==
    [][lb.kind = "ClusterIP" /\ lb'.kind = "LoadBalancer" => route'[Main] = NoRoute]_vars

Settled ==
    LET registered == {Main} \cup {a \in Aliases : alias[a] # "none"}
    IN  /\ status.gen = svc.gen
        /\ svc.rev.auth # "none" => \A n \in registered :
              Open(n) => policy[n] = [auth |-> svc.rev.auth, rv |-> secret.rv, settled |-> TRUE]
        /\ ~ Web(svc.rev) => \A n \in registered : route[n] = NoRoute
        /\ Web(svc.rev) /\ (svc.rev.auth # "none" => secret.rv > 0) =>
              /\ status.endpoints /\ RouteIsReady(Main)
              /\ \A a \in Aliases : alias[a] = "ready" => DomainPhase(a) = "ready"

\* Once revisions, secrets and domains stop changing, every registered route ends up where the last of
\* them put it: reported, open under the current secret's accepted policy, or gone.
RoutesSettle == <>[](PolicyRefused(svc.rev) \/ Settled)
=============================================================================
