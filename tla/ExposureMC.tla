------------------------------ MODULE ExposureMC ------------------------------
(* Two address families of four addresses each, and the scenarios of the run. *)
EXTENDS Exposure

V4 == <<"v4.0", "v4.1", "v4.2", "v4.3">>
V6 == <<"v6.0", "v6.1", "v6.2", "v6.3">>
Cells(f, i, j) == {f[k] : k \in i..j}
Blocks(f) == {Cells(f, 1, 4), Cells(f, 1, 2), Cells(f, 3, 4)} \cup {{f[k]} : k \in 1..4}
BothFamilies == Cells(V4, 1, 4) \cup Cells(V6, 1, 4)
AllNetworks == Blocks(V4) \cup Blocks(V6)
Whole == {Cells(V4, 1, 4), Cells(V6, 1, 4)}
Public == {Cells(V4, 1, 4), Cells(V6, 3, 4)}
Reserved == {{"v4.0"}, {"v4.3"}, {"v6.0"}}
Unroutable == {{"v4.0"}, {"v6.0"}}
Operator == {{"v6.2"}}
Hosts == {{"v4.3"}}

MaximalIn(S) == {n \in S : \A m \in S : n \subseteq m => m = n}
HalvesOf(n) == MaximalIn({m \in AllNetworks : m \subseteq n /\ m # n})
Aggregated == [u \in SUBSET BothFamilies |-> MaximalIn({n \in AllNetworks : n \subseteq u})]
AggregateOf(S) == Aggregated[UNION S]

Plain == [mode |-> "ip", kind |-> "public", traffic |-> "forwarded", ports |-> TRUE,
          zero |-> FALSE, auth |-> "none", vpc |-> FALSE, org |-> FALSE, secrets |-> FALSE,
          egress |-> "internet", allowed |-> {}, denied |-> {}, allowedTo |-> {}, deniedTo |-> {}]
Site == [Plain EXCEPT !.mode = "web"]
Sleepy == [Site EXCEPT !.zero = TRUE]
Login == [Site EXCEPT !.auth = "x"]
OtherLogin == [Site EXCEPT !.auth = "y"]

\* Revisions whose lists of networks vary, each reconciled on its own.
Few(n) == {s \in SUBSET AllNetworks : Cardinality(s) <= n}
Sources == {[Plain EXCEPT !.allowed = a, !.denied = d] : a \in Few(2), d \in Few(1)}
             \cup {[Plain EXCEPT !.allowed = a, !.denied = d] : a \in Few(1), d \in Few(2)}
Destinations == {[Plain EXCEPT !.egress = e, !.allowedTo = a, !.deniedTo = d] :
               e \in {"disabled", "restricted", "internet"}, a \in Few(2), d \in Few(1)}
Shapes == [mode : {"ip", "load_balancer", "web"}, kind : {"internal", "public"},
           traffic : {"forwarded", "direct"}, ports : BOOLEAN, zero : BOOLEAN, auth : {"none"},
           vpc : BOOLEAN, org : BOOLEAN, secrets : BOOLEAN, egress : {"internet"},
           allowed : {{}}, denied : {{}}, allowedTo : {{}}, deniedTo : {{}}]

Alone(R) == [rev : {x \in R : Valid(x)}, gen : {MaxGen}, secret : {0}, budget : {0}]
Changing == [rev : {Login, Site}, gen : {1}, secret : {0, 1}, budget : {2}]
AllStarts == Alone(Sources \cup Destinations \cup Shapes) \cup Changing
Updates == {Plain, Site, Sleepy, Login, OtherLogin}
=============================================================================
