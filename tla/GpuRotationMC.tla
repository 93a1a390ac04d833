--------------------------- MODULE GpuRotationMC ----------------------------
(* Instances of GpuRotation: alice has two jobs, bob and carol one each. *)
EXTENDS GpuRotation
CONSTANTS orgA, orgB, orgC, alice, bob, carol, typeX

Owners ==
    [j \in Jobs |-> CASE j \in {1, 2} -> [org |-> orgA, subject |-> alice]
                      [] j = 3 -> [org |-> orgB, subject |-> bob]
                      [] OTHER -> [org |-> orgC, subject |-> carol]]

OneType == [d \in Devices |-> typeX]
=============================================================================
