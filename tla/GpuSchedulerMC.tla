--------------------------- MODULE GpuSchedulerMC ---------------------------
(* Instances of GpuScheduler: job 1 is alice's, any other job is bob's; the  *)
(* devices share one type, or device 1 differs from the others.              *)
EXTENDS GpuScheduler

CONSTANTS r1, r2, orgA, orgB, alice, bob, typeX, typeY

OneOwnerEach == [j \in Jobs |-> IF j = 1 THEN [org |-> orgA, subject |-> alice]
                                ELSE [org |-> orgB, subject |-> bob]]

OneType == [d \in Devices |-> typeX]

TypePerDevice == [d \in Devices |-> IF d = 1 THEN typeX ELSE typeY]
=============================================================================
