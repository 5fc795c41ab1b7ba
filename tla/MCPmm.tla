------------------------------- MODULE MCPmm -------------------------------
(***************************************************************************)
(* Model-checking instances of Pmm.  Memory maps are given in 4 KiB pages  *)
(* and are shaped like Limine's: page-aligned entries, frame 0 reserved    *)
(* (the real-mode IVT/BIOS area), holes between usable RAM.                *)
(***************************************************************************)
EXTENDS Pmm

P == 4096

Entry(firstPage, pages, usable) ==
  [base |-> firstPage * P, length |-> pages * P, usable |-> usable]

\* 16 frames, frame 0 and frame 8 reserved, usable entries sorted.
LimineLikeMap ==
  << Entry(0, 1, FALSE), Entry(1, 7, TRUE), Entry(8, 1, FALSE), Entry(9, 7, TRUE) >>

\* The same RAM with the entries listed out of address order (spec 6: never
\* assume the entries are sorted); the bitmap lands in the upper entry.
UnsortedMap ==
  << Entry(9, 7, TRUE), Entry(0, 1, FALSE), Entry(8, 1, FALSE), Entry(1, 7, TRUE) >>

\* 12 frames: total_pages is not a multiple of 8, so frames 8..11 have
\* their bits in the byte step 3 never initialises; frames 8 and 9 are
\* reserved.
TailByteMap ==
  << Entry(0, 1, FALSE), Entry(1, 7, TRUE), Entry(8, 2, FALSE), Entry(10, 2, TRUE) >>

\* Spec Scenario A, scaled to 16 frames: one usable entry covering all RAM
\* from address 0.
ScenarioAMap == << Entry(0, 16, TRUE) >>

MCFrames == 0..15
MCSlots == {0}
MCBootMem == [f \in MCFrames |-> [s \in MCSlots |-> {}]]
MCBadAddrs == {16 * P}

MCPassMaps == {LimineLikeMap, UnsortedMap}
MCTailMaps == {TailByteMap}
MCScenarioAMaps == {ScenarioAMap}

=============================================================================
