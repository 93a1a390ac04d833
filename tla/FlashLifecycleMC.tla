-------------------------- MODULE FlashLifecycleMC --------------------------
(* Instances of FlashLifecycle: the desired states its commands choose from. *)
EXTENDS FlashLifecycle

CONSTANTS w1, w2, r1, r2

Wanted(stopped, gpu, scaling, image) ==
    [stopped |-> stopped, gpu |-> gpu, scaling |-> scaling, image |-> image]

(* Stopped and running, sleeping when idle. *)
SleepyCpu == {Wanted(s, FALSE, "zero", "good") : s \in BOOLEAN}
SleepyGpu == {Wanted(s, TRUE, "zero", "good") : s \in BOOLEAN}

(* A sleeping service with or without a GPU, and a stopped one. *)
Sleepy == SleepyGpu \cup {Wanted(FALSE, FALSE, "zero", "good")}

(* Autoscaling on and off, an image that is refused, and a stop. *)
Scaled == {Wanted(FALSE, FALSE, "hpa", "good"), Wanted(FALSE, FALSE, "fixed", "good"),
           Wanted(FALSE, FALSE, "hpa", "bad"), Wanted(TRUE, FALSE, "hpa", "good")}

(* A GPU service, and a stopped one without GPU. *)
GivesUpGpu == {Wanted(FALSE, TRUE, "fixed", "good"), Wanted(TRUE, FALSE, "fixed", "good")}
=============================================================================
