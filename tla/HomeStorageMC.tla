---------------------------- MODULE HomeStorageMC ----------------------------
(* Instances of HomeStorage: a MiB is two units and a GiB four MiB.        *)
EXTENDS HomeStorage

CONSTANTS small, large, tag, digest

Sizes == [c \in Contents |-> IF c = small THEN 2 ELSE 11]

Rev(image, disk, rootfs, persistent, stateless) ==
    [gen |-> 1, image |-> image, disk |-> disk, rootfs |-> rootfs,
     persistent |-> persistent, stateless |-> stateless]

(* A home of before the rounding, provided with whole MiB.                 *)
Legacy == [kept |-> TRUE, requested |-> 5, capacity |-> 6, resizing |-> FALSE]
(* A home being restored from a backup of that size.                       *)
Restored == [kept |-> TRUE, requested |-> 6, capacity |-> 0, resizing |-> FALSE]

Plain == [claim |-> NoClaim, class |-> TRUE, updates |-> {Rev(tag, 2, 0, 0, FALSE)},
          outages |-> FALSE, short |-> FALSE, crashes |-> FALSE, retags |-> FALSE]

(* Sizes go up and down, with and without a disk of before.                *)
Resizing ==
    {[Plain EXCEPT !.claim = c, !.crashes = TRUE, !.short = TRUE,
                   !.updates = {Rev(digest, 4, 0, 0, FALSE), Rev(digest, 3, 1, 0, FALSE),
                                Rev(digest, 4, 1, 2, FALSE), Rev(digest, 2, 0, 0, TRUE)}] :
        c \in {NoClaim, Legacy, Restored}}
(* The image changes while the registry fails now and then.                *)
Imaging ==
    {[Plain EXCEPT !.class = k, !.outages = TRUE, !.retags = TRUE, !.crashes = TRUE,
                   !.updates = {Rev(tag, 2, 0, 0, FALSE), Rev(digest, 2, 0, 0, FALSE),
                                Rev(tag, 1, 0, 0, FALSE)}] :
        k \in BOOLEAN}
(* An update of the image meets a shortage.                                *)
ShortOfCapacity ==
    {[Plain EXCEPT !.short = TRUE,
                   !.updates = {Rev(tag, 2, 0, 0, FALSE), Rev(digest, 2, 0, 0, FALSE)}]}

Usual == Resizing \cup Imaging
=============================================================================
