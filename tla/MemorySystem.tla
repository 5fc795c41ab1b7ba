---------------------------- MODULE MemorySystem ----------------------------
(***************************************************************************)
(* The memory subsystem as one program: vmm.c calling pmm.c.  The page     *)
(* tables vmm.c creates and the bitmap pmm.c keeps are in the same         *)
(* physical memory (mem), and vmm.c's frame allocator is pmm_alloc_page    *)
(* and pmm_free_page over the static pmm_t.                                *)
(*                                                                         *)
(* memory_init (memory.c) calls pmm_init first; every other operation      *)
(* runs after it.                                                          *)
(***************************************************************************)
EXTENDS Pmm

CONSTANTS BootPml4, IdentityMapped, VAs, FlagChoices, MaxSpaces, MaxHeld, FollowBootOrder

VARIABLES fault, cr3, kernelPml4, nxe, spaces, tlb, held, intended

vars == <<memmap, pmm, mem, fault, booted, bootMap, grants,
          cr3, kernelPml4, nxe, spaces, tlb, held, intended>>

\* pmm_alloc_page and pmm_free_page in the allocator interface of Vmm: the
\* pmm_t itself never changes after pmm_init, only the bitmap in mem.
PmmAlloc(p, m) ==
  LET r == PmmAllocPage(p, m) IN [addr |-> r.addr, pfa |-> p, mem |-> r.mem]

PmmFree(p, m, a) == [pfa |-> p, mem |-> PmmFreePage(p, m, a)]

V == INSTANCE Vmm WITH pfa <- pmm, PfaAlloc <- PmmAlloc, PfaFree <- PmmFree,
                       InitPfa <- PmmZero

vmmOnly == <<fault, cr3, kernelPml4, nxe, spaces, tlb, held, intended>>

Init == PmmInitState /\ V!VmmInitState

Next ==
  \/ (PmmInit \/ PmmInitNoResponse) /\ UNCHANGED vmmOnly
  \/ booted /\ V!VmmNext /\ UNCHANGED <<memmap, booted, bootMap>>

Spec == Init /\ [][Next]_vars

(***************************************************************************)
(* Properties.                                                             *)
(***************************************************************************)
\* No double allocation (spec 8) across the whole subsystem: whatever page
\* tables vmm_create and vmm_map build in frames pmm_alloc_page handed out,
\* and however consumers allocate and free around them, no frame is held
\* by two owners at once.
SystemNoDoubleGrant == \A f \in Frames : grants[f] <= 1

=============================================================================
