-------------------------------- MODULE Pmm --------------------------------
(***************************************************************************)
(* The physical frame allocator of src/kernel/src/pmm.c.                   *)
(*                                                                         *)
(* pmm_init sizes a bitmap from the Limine memory map, carves its storage  *)
(* out of the first usable entry that is large enough, marks everything    *)
(* used and then clears the bit of every page of every usable entry.       *)
(* pmm_alloc_page scans for the first clear bit; pmm_free_page clears one. *)
(*                                                                         *)
(* The bitmap is not a separate variable: it is bytes of physical memory   *)
(* (mem, from PhysMem) at bitmap_phys, read and written through the direct *)
(* map, exactly where the code keeps it.                                   *)
(***************************************************************************)
EXTENDS PhysMem, Sequences

CONSTANTS
  MemMaps,   \* the Limine memory maps considered: sequences of [base, length, usable]
  BootMem,   \* content of physical memory when the kernel starts
  BadAddrs   \* addresses passed to pmm_free_page that no allocation returned

ASSUME BootMem \in [Frames -> [Slots -> Word]]

VARIABLES
  memmap,    \* the Limine memmap entries; pmm_init carves the bitmap out of one
  pmm,       \* the static pmm_t: total_pages, bitmap_size, bitmap_phys
  mem,       \* physical memory (PhysMem)
  booted,    \* pmm_init has been called (the boot path calls it once)
  bootMap,   \* history: the memory map as the bootloader provided it
  grants     \* history: outstanding frames each successful allocation handed out

pmmVars == <<memmap, pmm, mem, booted, bootMap, grants>>

\* The static pmm_t before pmm_init: zero-initialised.
PmmZero == [total_pages |-> 0, bitmap_size |-> 0, bitmap_phys |-> 0]

(***************************************************************************)
(* The bitmap.  Bit i is bit i % 8 of byte i / 8 at bitmap_phys.           *)
(***************************************************************************)
BitLoc(p, i) ==
  LET a == p.bitmap_phys + i \div 8
      o == a % PAGE_SIZE
  IN [f |-> a \div PAGE_SIZE, slot |-> ByteBitPos(o, i % 8).slot, bit |-> ByteBitPos(o, i % 8).bit]

BitmapBit(p, m, i) ==
  LET l == BitLoc(p, i) IN IF l.bit \in m[l.f][l.slot] THEN 1 ELSE 0

\* "bitmap[i / 8] |= 1 << (i % 8)" (v = 1) and "&= ~(1 << (i % 8))" (v = 0).
WriteBitmapBit(p, m, i, v) ==
  LET l == BitLoc(p, i)
  IN [m EXCEPT ![l.f][l.slot] = IF v = 1 THEN @ \cup {l.bit} ELSE @ \ {l.bit}]

\* Set the bits at locations S, then clear those at locations C.
ApplyBits(m, S, C) ==
  [f \in DOMAIN m |-> [s \in DOMAIN m[f] |->
     (m[f][s] \cup {l.bit : l \in {x \in S : x.f = f /\ x.slot = s}})
       \ {l.bit : l \in {x \in C : x.f = f /\ x.slot = s}}]]

\* Frames whose bytes hold the part of the bitmap the code reads and writes.
BitmapFrames(p) ==
  IF p.total_pages = 0 THEN {}
  ELSE {BitLoc(p, i).f : i \in 0..p.total_pages - 1}

(***************************************************************************)
(* pmm_init, steps 1 to 4.                                                 *)
(***************************************************************************)
UsableIdx(mm) == {i \in DOMAIN mm : mm[i].usable}

HighestAddr(mm) ==
  IF UsableIdx(mm) = {} THEN 0
  ELSE Max({mm[i].base + mm[i].length : i \in UsableIdx(mm)})

\* A mutation of step 4: the loop runs to j <= length, one page too far.
RegionPagesPastEnd(e) ==
  {(e.base + j * PAGE_SIZE) \div PAGE_SIZE : j \in 0..((e.length + PAGE_SIZE - 1) \div PAGE_SIZE)}

\* Pages touched by "for (j = 0; j < length; j += 4096) page_idx = (base + j) / 4096".
RegionPages(e) ==
  {(e.base + j * PAGE_SIZE) \div PAGE_SIZE : j \in 0..((e.length + PAGE_SIZE - 1) \div PAGE_SIZE) - 1}

\* Pages whose bits step 4 clears: every in-range page of a usable entry.
FreedPages(p, mm) ==
  {pg \in UNION {RegionPages(mm[i]) : i \in UsableIdx(mm)} : pg < p.total_pages}

\* Steps 2 to 4, with the bitmap found in entry k.  When no entry fits
\* (k = 0), pmm.bitmap stays NULL and steps 3 and 4 write through virtual
\* address 0, which Limine's identity map sends to physical 0; the memmap
\* is left alone.  Bytes 0 .. bitmap_size-1
\* are set to 0xFF (step 3); when total_pages is not a multiple of 8 the
\* last pages' bits live in byte bitmap_size, which step 3 never writes:
\* those bits start as whatever that memory held, a nondeterministic choice
\* (the set tail of bits that read 1).
PmmInitFound(k, total, bs) ==
  LET p   == [total_pages |-> total, bitmap_size |-> bs,
              bitmap_phys |-> IF k = 0 THEN 0 ELSE memmap[k].base]
      mm  == IF k = 0 THEN memmap
             ELSE [memmap EXCEPT ![k].base = @ + bs, ![k].length = @ - bs]
      tailPages == {pg \in 0..total - 1 : pg \div 8 >= bs}
  IN \E tail \in SUBSET tailPages :
      LET m3 == ApplyBits(mem, {BitLoc(p, i) : i \in 0..8 * bs - 1} \cup {BitLoc(p, pg) : pg \in tail},
                               {BitLoc(p, pg) : pg \in tailPages \ tail})
      IN /\ pmm' = p
         /\ memmap' = mm
         /\ mem' = ApplyBits(m3, {}, {BitLoc(p, pg) : pg \in FreedPages(p, mm)})

\* pmm_init with both Limine responses present: step 1 sizes the bitmap,
\* step 2 takes the first usable entry large enough for it.
PmmInit ==
  /\ ~booted
  /\ booted' = TRUE
  /\ LET total == HighestAddr(memmap) \div PAGE_SIZE
         bs    == total \div 8
         fit   == {i \in UsableIdx(memmap) : memmap[i].length >= bs}
     IN PmmInitFound(IF fit = {} THEN 0 ELSE Min(fit), total, bs)
  /\ UNCHANGED <<bootMap, grants>>

\* pmm_init when Limine did not answer the memmap or HHDM request: it returns
\* at once and the allocator stays empty.
PmmInitNoResponse ==
  /\ ~booted
  /\ booted' = TRUE
  /\ UNCHANGED <<memmap, pmm, mem, bootMap, grants>>

(***************************************************************************)
(* pmm_alloc_page and pmm_free_page, as operators on (pmm, mem) so that    *)
(* vmm.c's callers can chain them inside one handler.                      *)
(***************************************************************************)
FreeIdx(p, m) == {i \in 0..p.total_pages - 1 : BitmapBit(p, m, i) = 0}

\* A mutation of pmm_alloc_page: the bit is not set before returning.
PmmAllocPageNoMark(p, m) ==
  IF FreeIdx(p, m) = {} THEN [addr |-> 0, mem |-> m]
  ELSE [addr |-> Min(FreeIdx(p, m)) * PAGE_SIZE, mem |-> m]

\* Returns the address handed out (0 means failure) and the new memory.
PmmAllocPage(p, m) ==
  IF FreeIdx(p, m) = {} THEN [addr |-> 0, mem |-> m]
  ELSE LET i == Min(FreeIdx(p, m))
       IN [addr |-> i * PAGE_SIZE, mem |-> WriteBitmapBit(p, m, i, 1)]

\* A mutation of pmm_free_page: the range test is page_idx < total_pages - 1.
PmmFreePageSkipLast(p, m, addr) ==
  IF addr \div PAGE_SIZE < p.total_pages - 1
  THEN WriteBitmapBit(p, m, addr \div PAGE_SIZE, 0)
  ELSE m

PmmFreePage(p, m, addr) ==
  IF addr \div PAGE_SIZE < p.total_pages
  THEN WriteBitmapBit(p, m, addr \div PAGE_SIZE, 0)
  ELSE m

Grant(g, addr) ==
  IF addr = 0 THEN g ELSE [g EXCEPT ![addr \div PAGE_SIZE] = @ + 1]

Ungrant(g, addr) ==
  IF addr \div PAGE_SIZE \in Frames /\ g[addr \div PAGE_SIZE] > 0
  THEN [g EXCEPT ![addr \div PAGE_SIZE] = @ - 1] ELSE g

\* A consumer (kernel heap, process creation) calls pmm_alloc_page.
AllocPage ==
  /\ LET r == PmmAllocPage(pmm, mem)
     IN /\ mem' = r.mem
        /\ grants' = Grant(grants, r.addr)
  /\ UNCHANGED <<memmap, pmm, booted, bootMap>>

\* A consumer frees a frame it holds, or an address no allocation returned.
FreePage(addr) ==
  /\ mem' = PmmFreePage(pmm, mem, addr)
  /\ grants' = Ungrant(grants, addr)
  /\ UNCHANGED <<memmap, pmm, booted, bootMap>>

PmmInitState ==
  /\ memmap \in MemMaps
  /\ bootMap = memmap
  /\ pmm = PmmZero
  /\ mem = BootMem
  /\ booted = FALSE
  /\ grants = [f \in Frames |-> 0]

PmmNext ==
  \/ PmmInit
  \/ PmmInitNoResponse
  \/ AllocPage
  \/ \E f \in Frames : grants[f] > 0 /\ FreePage(f * PAGE_SIZE)
  \/ \E a \in BadAddrs : FreePage(a)

PmmSpec == PmmInitState /\ [][PmmNext]_pmmVars

(***************************************************************************)
(* Properties.                                                             *)
(***************************************************************************)
\* A frame lies wholly inside a usable entry of the map the bootloader gave.
UsableInBootMap(f) ==
  \E i \in UsableIdx(bootMap) :
     /\ bootMap[i].base <= f * PAGE_SIZE
     /\ (f + 1) * PAGE_SIZE <= bootMap[i].base + bootMap[i].length

\* No double allocation (spec section 8): however allocations and frees of
\* the consumers interleave, pmm_alloc_page never hands out a frame that a
\* consumer still holds.
NoDoubleGrant == \A f \in Frames : grants[f] <= 1

\* pmm_alloc_page only hands out usable RAM: never a frame the bootloader
\* reported reserved, including the frames whose bits live in the bitmap's
\* last, partially initialised byte.
GrantedFramesUsable == \A f \in Frames : grants[f] > 0 => UsableInBootMap(f)

\* The frame that stores the bitmap is never handed out to a consumer
\* (spec, Scenario A: "enough leading frames are marked used to host the
\* bitmap itself").
BitmapNeverGranted ==
  \A f \in BitmapFrames(pmm) : grants[f] = 0

\* No frame is lost (spec 4.1: a freed frame can be allocated again): once
\* pmm_init has run, every frame that lies in a usable entry of the boot
\* map, is not one of the bitmap's own frames and is held by no consumer
\* has its bit clear, so a later pmm_alloc_page can return it.  It ties
\* step 4's freeing loop, the bits pmm_alloc_page sets and the bits
\* pmm_free_page clears to what the consumers were actually handed; a
\* frame whose bit is set while the caller took the address 0 for the
\* failure value is lost.
NoFrameLost ==
  booted =>
    \A f \in 0 .. pmm.total_pages - 1 :
      UsableInBootMap(f) /\ f \notin BitmapFrames(pmm) /\ grants[f] = 0
        => BitmapBit(pmm, mem, f) = 0

=============================================================================
