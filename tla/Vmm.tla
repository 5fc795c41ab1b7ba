-------------------------------- MODULE Vmm --------------------------------
(***************************************************************************)
(* The address-space manager of src/kernel/src/vmm.c, together with the    *)
(* CPU state it drives (CR3, EFER.NXE, the TLB) and the consumers that     *)
(* allocate frames and map them.                                           *)
(*                                                                         *)
(* Page tables are words of physical memory (PhysMem).  A virtual address  *)
(* is given by its four 9-bit indices <<PML4, PDPT, PD, PT>> (the          *)
(* PML4_INDEX .. PT_INDEX macros).  Frames come from a frame allocator     *)
(* that is a parameter: PfaAlloc(pfa, mem) and PfaFree(pfa, mem, addr)     *)
(* return the allocator's new state, and PfaAlloc the address it returns,  *)
(* 0 meaning failure, as pmm_alloc_page does.                              *)
(***************************************************************************)
EXTENDS PhysMem, Sequences

CONSTANTS
  PfaAlloc(_, _),
  PfaFree(_, _, _),
  InitPfa,         \* allocator state at boot
  BootMem,         \* physical memory at boot, with the bootloader's tables
  BootPml4,        \* frame of the PML4 Limine leaves in CR3
  IdentityMapped,  \* Limine's tables also map low physical memory at virtual 0
  VAs,             \* virtual pages used, as <<i4, i3, i2, i1>>
  FlagChoices,     \* flag sets consumers pass to vmm_map
  MaxSpaces,       \* bound on vmm_create calls that succeed
  MaxHeld,         \* bound on data frames consumers hold at once
  FollowBootOrder  \* callers run vmm_init once, before any vmm_create

ASSUME BootPml4 \in Frames
ASSUME \A v \in VAs : v \in Slots \X Slots \X Slots \X Slots
ASSUME MaxSpaces \in Nat /\ MaxHeld \in Nat /\ FollowBootOrder \in BOOLEAN /\ IdentityMapped \in BOOLEAN

VARIABLES
  mem,         \* physical memory
  pfa,         \* frame allocator state
  fault,       \* the kernel took an unhandled CPU exception and stopped
  grants,      \* history: outstanding frames each successful allocation handed out
  cr3,         \* frame of the active PML4
  kernelPml4,  \* kernel_vmm.pml4 as a frame, NULL before vmm_init
  nxe,         \* EFER.NXE
  spaces,      \* PML4 frames of the vmm_t's vmm_create returned
  tlb,         \* cached translation per virtual page, or None
  held,        \* frames consumers allocated for data
  intended     \* history: the last successful vmm_map of each (space, page)

vmmVars == <<mem, pfa, fault, grants, cr3, kernelPml4, nxe, spaces, tlb, held, intended>>

\* Pointer values: a frame reached through PHYS_TO_VIRT, the literal NULL
\* pointer, or an address whose dereference faults.
NULL == -2
BAD == -1

None == [frame |-> -1, flags |-> {}]

LowerVAs == {v \in VAs : v[1] < 256}
UpperVAs == {v \in VAs : v[1] >= 256}

\* The frame a kernel access through pointer ptr reaches, or BAD if it
\* faults.  NULL is virtual 0: mapped to physical 0 only by Limine's tables.
Deref(ptr, root) ==
  IF ptr >= 0 THEN ptr
  ELSE IF ptr = NULL /\ root = BootPml4 /\ IdentityMapped THEN 0
  ELSE BAD

(***************************************************************************)
(* The hardware page walk (MMU), used for the TLB and for the properties.  *)
(* It takes the address from bits 12..51 of each entry; a PD entry with   *)
(* HUGE maps a 2 MiB page (Limine's identity map uses them).              *)
(***************************************************************************)
RECURSIVE HwWalk(_, _, _)
HwWalk(m, f, idxs) ==
  LET W == WordAt(m, f, Head(idxs)) IN
  IF ~Present(W) THEN None
  ELSE IF Len(idxs) = 1 THEN [frame |-> FrameOfBits(W), flags |-> FlagsOf(W)]
  ELSE IF Len(idxs) = 2 /\ FlagBit.HUGE \in W
  THEN [frame |-> FrameOfBits(W) + idxs[2], flags |-> FlagsOf(W)]
  ELSE IF FrameOfBits(W) \notin Frames THEN None
  ELSE HwWalk(m, FrameOfBits(W), Tail(idxs))

Translate(m, root, v) == HwWalk(m, root, v)

\* Frames of the tables below the PML4 that the walk for v passes through.
RECURSIVE WalkTables(_, _, _)
WalkTables(m, f, idxs) ==
  LET W == WordAt(m, f, Head(idxs)) IN
  IF Len(idxs) = 1 \/ ~Present(W) \/ FrameOfBits(W) \notin Frames
     \/ (Len(idxs) = 2 /\ FlagBit.HUGE \in W) THEN {}
  ELSE {FrameOfBits(W)} \cup WalkTables(m, FrameOfBits(W), Tail(idxs))

\* The PML4, PDPT and PD entries the walk for v passes through.
RECURSIVE UpperEntries(_, _, _)
UpperEntries(m, f, idxs) ==
  LET W == WordAt(m, f, Head(idxs)) IN
  IF Len(idxs) = 1 \/ ~Present(W) \/ FrameOfBits(W) \notin Frames THEN {}
  ELSE {W} \cup UpperEntries(m, FrameOfBits(W), Tail(idxs))

\* All bits set in the entries the walk for v passes through.
RECURSIVE PathBits(_, _, _)
PathBits(m, f, idxs) ==
  LET W == WordAt(m, f, Head(idxs)) IN
  IF ~Present(W) THEN {}
  ELSE IF Len(idxs) = 1 \/ (Len(idxs) = 2 /\ FlagBit.HUGE \in W) THEN W
  ELSE IF FrameOfBits(W) \notin Frames THEN {}
  ELSE W \cup PathBits(m, FrameOfBits(W), Tail(idxs))

\* The index macros: v is the tuple of the address's four 9-bit fields.
PML4_INDEX(v) == v[1]

\* A mutation of PDPT_INDEX: shifted by 21, as PD_INDEX is.
PDPT_INDEX_Shift21(v) == v[3]

PDPT_INDEX(v) == v[2]
PD_INDEX(v) == v[3]
PT_INDEX(v) == v[4]

(***************************************************************************)
(* get_or_create_table(parent, index, flags), on a state record            *)
(* st = [mem, pfa, grants, fault, ptr] where ptr is parent and, on return, *)
(* the child table.  A fault stops the computation.                        *)
(***************************************************************************)
GetOrCreateTable(st, index, flags) ==
  LET pf == Deref(st.ptr, cr3) IN
  IF st.fault THEN st
  ELSE IF pf = BAD THEN [st EXCEPT !.fault = TRUE]
  ELSE LET W == WordAt(st.mem, pf, index) IN
    IF Present(W) THEN [st EXCEPT !.ptr = TableFrame(W)]
    ELSE LET r == PfaAlloc(st.pfa, st.mem)
             t == r.addr \div PAGE_SIZE
         IN IF r.addr = 0
            THEN [st EXCEPT !.mem = r.mem, !.pfa = r.pfa, !.ptr = NULL]
            ELSE [st EXCEPT !.mem = [WriteWord(r.mem, pf, index, EntryBits(r.addr, flags))
                                       EXCEPT ![t] = ZeroFrame],
                            !.pfa = r.pfa,
                            !.grants = [@ EXCEPT ![t] = @ + 1],
                            !.ptr = t]

(***************************************************************************)
(* vmm.c operations.                                                       *)
(***************************************************************************)

\* Mutations of the PML4 copy in vmm_create: the loop starting at 257, and
\* copying all 512 entries.
NewPml4From257(m, src) == [sl \in Slots |-> IF sl >= 257 THEN m[src][sl] ELSE {}]
NewPml4CopyAll(m, src) == [sl \in Slots |-> m[src][sl]]

\* The two loops of vmm_create: entries 256..511 from the kernel's PML4,
\* entries 0..255 zero.
NewPml4(m, src) == [sl \in Slots |-> IF sl >= 256 THEN m[src][sl] ELSE {}]

\* A mutation of vmm_map: invlpg(virt) left out.
InvlpgMissing(t, v) == t

\* invlpg(virt): the CPU drops its cached translation of the page.
Invlpg(t, v) == [t EXCEPT ![v] = None]

\* vmm_init: capture CR3 as the kernel's PML4, then paging_enable_nx sets
\* EFER.NXE (bit 11 of MSR 0xC0000080).
VmmInit ==
  /\ ~fault
  /\ FollowBootOrder => kernelPml4 = NULL
  /\ kernelPml4' = cr3
  /\ nxe' = TRUE
  /\ UNCHANGED <<mem, pfa, fault, grants, cr3, spaces, tlb, held, intended>>

\* vmm_create, kmalloc having returned the vmm_t (when it returns NULL the
\* call returns NULL and changes nothing).  The new PML4 copies the
\* kernel's entries 256..511 and zeroes 0..255.
VmmCreate ==
  /\ ~fault
  /\ Cardinality(spaces) < MaxSpaces
  /\ FollowBootOrder => kernelPml4 # NULL
  /\ LET r   == PfaAlloc(pfa, mem)
         n   == r.addr \div PAGE_SIZE
         src == Deref(kernelPml4, cr3)
     IN IF r.addr = 0
        THEN /\ mem' = r.mem /\ pfa' = r.pfa
             /\ UNCHANGED <<fault, grants, spaces, intended>>
        ELSE IF src = BAD
        THEN /\ mem' = r.mem /\ pfa' = r.pfa /\ fault' = TRUE
             /\ grants' = [grants EXCEPT ![n] = @ + 1]
             /\ UNCHANGED <<spaces, intended>>
        ELSE /\ mem' = [r.mem EXCEPT ![n] = NewPml4(r.mem, src)]
             /\ pfa' = r.pfa
             /\ grants' = [grants EXCEPT ![n] = @ + 1]
             /\ spaces' = spaces \cup {n}
             /\ intended' = [intended EXCEPT ![n] = [v \in VAs |-> None]]
             /\ UNCHANGED fault
  /\ UNCHANGED <<cr3, kernelPml4, nxe, tlb, held>>

\* vmm_map(vmm, virt, phys, flags): three get_or_create_table calls (the
\* NULL result of the first two is passed on unchecked), then the PT entry
\* is written and invlpg(virt) drops the cached translation.
VmmMap(s, v, phys, flags) ==
  /\ ~fault
  /\ LET st0 == [mem |-> mem, pfa |-> pfa, grants |-> grants, fault |-> FALSE, ptr |-> s]
         st1 == GetOrCreateTable(st0, PML4_INDEX(v), flags)
         st2 == GetOrCreateTable(st1, PDPT_INDEX(v), flags)
         st3 == GetOrCreateTable(st2, PD_INDEX(v), flags)
         pt  == Deref(st3.ptr, cr3)
     IN /\ pfa' = st3.pfa
        /\ grants' = st3.grants
        /\ IF st3.fault \/ (st3.ptr # NULL /\ pt = BAD)
           THEN /\ fault' = TRUE /\ mem' = st3.mem
                /\ UNCHANGED <<tlb, intended>>
           ELSE IF st3.ptr = NULL
           THEN /\ mem' = st3.mem
                /\ UNCHANGED <<fault, tlb, intended>>
           ELSE /\ mem' = WriteWord(st3.mem, pt, PT_INDEX(v), EntryBits(phys, flags))
                /\ tlb' = Invlpg(tlb, v)
                /\ intended' = [intended EXCEPT ![s][v] =
                                  [frame |-> phys \div PAGE_SIZE, flags |-> flags \cup {"PRESENT"}]]
                /\ UNCHANGED fault
  /\ UNCHANGED <<cr3, kernelPml4, nxe, spaces, held>>

\* A mutation of vmm_switch: write_cr3(vmm->pml4), the virtual address of
\* the PML4 instead of pml4_phys, which is no frame.
VmmSwitchVirt(s) ==
  /\ ~fault
  /\ cr3' = BAD
  /\ tlb' = [v \in VAs |-> IF "GLOBAL" \in tlb[v].flags THEN tlb[v] ELSE None]
  /\ UNCHANGED <<mem, pfa, fault, grants, kernelPml4, nxe, spaces, held, intended>>

\* vmm_switch: write_cr3 loads the PML4; the CPU drops every cached
\* translation that is not GLOBAL.
VmmSwitch(s) ==
  /\ ~fault
  /\ cr3' = s
  /\ tlb' = [v \in VAs |-> IF "GLOBAL" \in tlb[v].flags THEN tlb[v] ELSE None]
  /\ UNCHANGED <<mem, pfa, fault, grants, kernelPml4, nxe, spaces, held, intended>>

(***************************************************************************)
(* The CPU and the consumers of the interface.                             *)
(***************************************************************************)

\* An access to v misses the TLB: the MMU walks the active tables and caches
\* the translation.  NX in an entry while EFER.NXE is clear is a reserved-bit
\* page fault.
Access(v) ==
  /\ ~fault
  /\ tlb[v] = None
  /\ Translate(mem, cr3, v) # None
  /\ IF FlagBit.NX \in PathBits(mem, cr3, v) /\ ~nxe
     THEN fault' = TRUE /\ UNCHANGED tlb
     ELSE tlb' = [tlb EXCEPT ![v] = Translate(mem, cr3, v)] /\ UNCHANGED fault
  /\ UNCHANGED <<mem, pfa, grants, cr3, kernelPml4, nxe, spaces, held, intended>>

\* A consumer takes a frame for data with pmm_alloc_page.
ConsumerAlloc ==
  /\ ~fault
  /\ Cardinality(held) < MaxHeld
  /\ LET r == PfaAlloc(pfa, mem) IN
     /\ mem' = r.mem /\ pfa' = r.pfa
     /\ IF r.addr = 0 THEN UNCHANGED <<grants, held>>
        ELSE /\ grants' = [grants EXCEPT ![r.addr \div PAGE_SIZE] = @ + 1]
             /\ held' = held \cup {r.addr \div PAGE_SIZE}
  /\ UNCHANGED <<fault, cr3, kernelPml4, nxe, spaces, tlb, intended>>

\* A consumer returns a data frame it no longer maps (there is no unmap).
ConsumerFree(f) ==
  /\ ~fault
  /\ f \in held
  /\ \A s \in spaces, v \in VAs : intended[s][v].frame # f
  /\ LET r == PfaFree(pfa, mem, f * PAGE_SIZE) IN mem' = r.mem /\ pfa' = r.pfa
  /\ grants' = [grants EXCEPT ![f] = @ - 1]
  /\ held' = held \ {f}
  /\ UNCHANGED <<fault, cr3, kernelPml4, nxe, spaces, tlb, intended>>

\* After an unhandled exception the kernel executes nothing more.
VmmHalted == fault /\ UNCHANGED vmmVars

VmmInitState ==
  /\ mem = BootMem
  /\ pfa = InitPfa
  /\ fault = FALSE
  /\ grants = [f \in Frames |-> 0]
  /\ cr3 = BootPml4
  /\ kernelPml4 = NULL
  /\ nxe = FALSE
  /\ spaces = {}
  /\ tlb = [v \in VAs |-> None]
  /\ held = {}
  /\ intended = [f \in Frames |-> [v \in VAs |-> None]]

VmmNext ==
  \/ VmmInit
  \/ VmmCreate
  \/ \E s \in spaces, v \in VAs, f \in held, fl \in FlagChoices :
        VmmMap(s, v, f * PAGE_SIZE, fl)
  \/ \E s \in spaces : VmmSwitch(s)
  \/ \E v \in VAs : Access(v)
  \/ ConsumerAlloc
  \/ \E f \in held : ConsumerFree(f)
  \/ VmmHalted

VmmSpec == VmmInitState /\ [][VmmNext]_vmmVars

(***************************************************************************)
(* Properties.                                                             *)
(***************************************************************************)
VmmTypeOK ==
  /\ mem \in [Frames -> [Slots -> Word]]
  /\ fault \in BOOLEAN /\ nxe \in BOOLEAN
  /\ grants \in [Frames -> Nat]
  /\ cr3 \in Frames /\ kernelPml4 \in Frames \cup {NULL}
  /\ spaces \subseteq Frames /\ held \subseteq Frames
  /\ tlb \in [VAs -> [frame : Int, flags : SUBSET FlagNames]]
  /\ intended \in [Frames -> [VAs -> [frame : Int, flags : SUBSET FlagNames]]]

\* Mapping correctness (spec 8): after any sequence of vmm_create, vmm_map,
\* allocations and frees, walking a space's tables for a lower-half page it
\* mapped yields the frame and flags of the last successful vmm_map of it.
MappingCorrect ==
  \A s \in spaces, v \in LowerVAs :
     intended[s][v] # None => Translate(mem, s, v) = intended[s][v]

\* Higher-half sharing (spec 8): every space vmm_create returned resolves a
\* higher-half page under a PML4 entry the kernel had at boot exactly as
\* the kernel's own tables do, including pages mapped later through any
\* space.
HigherHalfShared ==
  \A s \in spaces, v \in UpperVAs :
     Present(WordAt(BootMem, BootPml4, v[1])) =>
        Translate(mem, s, v) = Translate(mem, BootPml4, v)

\* Translation freshness (spec 8): every translation the TLB holds is the
\* one the active tables give, after vmm_map (invlpg) and vmm_switch (CR3
\* reload), whichever space the map went through.
TlbFresh ==
  \A v \in VAs : tlb[v] # None => tlb[v] = Translate(mem, cr3, v)

\* Lower-half isolation (spec 4.2): no page table below the PML4 that a
\* space reaches through its lower half is reachable from another space's
\* lower half.
LowerTables(s) == UNION {WalkTables(mem, s, v) : v \in LowerVAs}

LowerHalfIsolated ==
  \A s1, s2 \in spaces : s1 # s2 => LowerTables(s1) \cap LowerTables(s2) = {}

\* The kernel never takes an unhandled exception inside vmm.c (spec 7:
\* failures are returned, never fatal outside the bootstrap path).
NoFault == ~fault

\* The access a present leaf grants is the access the walk grants: vmm_map
\* puts the caller's flags on the intermediate tables "so that a USER
\* mapping's intermediate tables are also USER-accessible" (spec 4.2).
EffectiveRightsMatchLeaf ==
  \A s \in spaces, v \in LowerVAs :
     intended[s][v] # None =>
        \A x \in intended[s][v].flags \cap {"WRITABLE", "USER"} :
           \A W \in UpperEntries(mem, s, v) : FlagBit[x] \in W

=============================================================================
