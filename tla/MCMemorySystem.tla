--------------------------- MODULE MCMemorySystem ---------------------------
(***************************************************************************)
(* Sixteen frames.  Limine's tables (LimineBoot) sit in the reserved       *)
(* frames 0..7; frames 8..15 are one usable entry, whose first two bytes   *)
(* pmm_init takes for the bitmap.                                          *)
(***************************************************************************)
EXTENDS MemorySystem, LimineBoot

MCFrames == 0..15

MCBootMem == LimineTables(MCFrames, TRUE)

MCMemMaps == {<<[base |-> 0, length |-> 8 * P, usable |-> FALSE],
                [base |-> 8 * P, length |-> 8 * P, usable |-> TRUE]>>}

MCBadAddrs == {}

=============================================================================
