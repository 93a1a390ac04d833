----------------------------- MODULE BackupVault -----------------------------
(***************************************************************************)
(* What the backup service promises about stored data, with every          *)
(* controller, lock and destination left out.  For each backup the vault   *)
(* holds nothing, an incomplete copy or a whole copy of a disk.  A restore *)
(* may only begin from a whole copy, and a copy that a restore is still    *)
(* reading is never discarded.  BackupLifecycle implements this module.    *)
(***************************************************************************)
CONSTANT Backups

VARIABLES data,      \* backup -> "none", "partial" or "whole"
          reading    \* backups that a restored disk is being filled from

vvars == <<data, reading>>

Init ==
    /\ data = [b \in Backups |-> "none"]
    /\ reading = {}

Begin(b) ==
    /\ data[b] = "none"
    /\ data' = [data EXCEPT ![b] = "partial"]
    /\ UNCHANGED reading

Complete(b) ==
    /\ data[b] = "partial"
    /\ data' = [data EXCEPT ![b] = "whole"]
    /\ UNCHANGED reading

Discard(b) ==
    /\ data[b] # "none"
    /\ b \notin reading
    /\ data' = [data EXCEPT ![b] = "none"]
    /\ UNCHANGED reading

StartRestore(b) ==
    /\ data[b] = "whole"
    /\ reading' = reading \cup {b}
    /\ UNCHANGED data

EndRestore(b) ==
    /\ b \in reading
    /\ reading' = reading \ {b}
    /\ UNCHANGED data

Next ==
    \E b \in Backups :
        \/ Begin(b)
        \/ Complete(b)
        \/ Discard(b)
        \/ StartRestore(b)
        \/ EndRestore(b)

Spec == Init /\ [][Next]_vvars
=============================================================================
