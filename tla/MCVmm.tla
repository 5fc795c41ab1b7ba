------------------------------- MODULE MCVmm -------------------------------
(***************************************************************************)
(* Vmm against an ideal frame allocator: first fit over a set of free      *)
(* frames, never handing out a frame twice.  This checks vmm.c on its own  *)
(* terms; MCMemorySystem puts the real pmm.c underneath it.                *)
(* Boot tables are LimineBoot's; frames 8..12 are free RAM.                *)
(***************************************************************************)
EXTENDS Vmm, LimineBoot

MCFrames == 0..12

MCBootMem == LimineTables(MCFrames, TRUE)

\* The ideal allocator: the least free frame, or 0 when none is left.
IdealAlloc(p, m) ==
  IF p = {} THEN [addr |-> 0, pfa |-> p, mem |-> m]
  ELSE [addr |-> Min(p) * P, pfa |-> p \ {Min(p)}, mem |-> m]

IdealFree(p, m, a) == [pfa |-> p \cup {a \div P}, mem |-> m]

MCInitPfa == 8..12

=============================================================================
