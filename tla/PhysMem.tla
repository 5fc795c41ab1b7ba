------------------------------ MODULE PhysMem ------------------------------
(***************************************************************************)
(* Physical memory as the kernel's memory subsystem sees it through the    *)
(* direct map (PHYS_TO_VIRT in kernel/types.h).  Both the frame            *)
(* allocator's bitmap (pmm.c) and the page tables (vmm.c) live in this     *)
(* memory, so they are modelled over one array and can alias each other    *)
(* exactly as they can in the kernel.                                      *)
(*                                                                         *)
(* Memory is kept as little-endian 64-bit words, one per table index in    *)
(* Slots (the only entries the virtual addresses of a model reach); a word *)
(* is the set of its set bit positions (TLC integers are 32-bit).  Byte k  *)
(* of a frame is bits 8*(k%8) .. 8*(k%8)+7 of word k/8.                    *)
(***************************************************************************)
EXTENDS Integers, FiniteSets, FiniteSetsExt

CONSTANTS
  PAGE_SIZE,   \* 4096, memory.h
  Frames,      \* physical frame numbers present in the model, 0 included
  Slots        \* table indices (0..511) whose entries are kept

ASSUME PAGE_SIZE = 4096
ASSUME 0 \in Frames /\ Frames \subseteq Nat
ASSUME Slots \subseteq 0..511

Word == SUBSET (0..63)

\* A frame whose kept words are all zero (memory handed out by the allocator
\* is never read before being written, so its initial content is irrelevant).
ZeroFrame == [s \in Slots |-> {}]

Bit(v, j) == (v \div (2 ^ j)) % 2

\* Where bit j of byte k of a frame is kept: word k / 8, bit 8 * (k % 8) + j.
ByteBitPos(k, j) == [slot |-> k \div 8, bit |-> 8 * (k % 8) + j]

(***************************************************************************)
(* Page flags, bit-exact (memory.h page_flags_t).                          *)
(***************************************************************************)
FlagBit == [PRESENT |-> 0, WRITABLE |-> 1, USER |-> 2, WRITETHROUGH |-> 3,
            NOCACHE |-> 4, ACCESSED |-> 5, DIRTY |-> 6, HUGE |-> 7,
            GLOBAL |-> 8, NX |-> 63]

FlagNames == DOMAIN FlagBit

\* The 64-bit word stored at table index s of frame f.
WordAt(m, f, s) == m[f][s]

WriteWord(m, f, s, W) == [m EXCEPT ![f][s] = W]

\* Bit positions of a frame-aligned physical address (bits 12 and up).
AddrBits(addr) ==
  {12 + j : j \in {i \in 0..19 : Bit(addr \div PAGE_SIZE, i) = 1}}

\* "phys | flags | PAGE_PRESENT" (vmm.c get_or_create_table and vmm_map).
EntryBits(addr, flags) == AddrBits(addr) \cup {FlagBit[x] : x \in flags} \cup {0}

Present(W) == 0 \in W

\* The flags of an entry, by name.
FlagsOf(W) == {x \in FlagNames : FlagBit[x] \in W}

(***************************************************************************)
(* "entry & PAGE_MASK": PAGE_MASK is ~(PAGE_SIZE - 1) computed in int and  *)
(* sign-extended to 64 bits, so it clears bits 0..11 only and keeps NX.    *)
(* The masked value is a frame address only when bits 52..63 are clear;   *)
(* otherwise PHYS_TO_VIRT of it is not a canonical address.               *)
(***************************************************************************)
MaskedBits(W) == {b \in W : b >= 12}

RECURSIVE SumPow(_)
SumPow(S) == IF S = {} THEN 0 ELSE LET b == CHOOSE x \in S : TRUE IN 2 ^ b + SumPow(S \ {b})

FrameOfBits(W) == SumPow({b - 12 : b \in {x \in W : x \in 12..51}})

\* The frame reached by dereferencing PHYS_TO_VIRT(entry & PAGE_MASK), or -1
\* when that access faults (non-canonical address, or no such memory).
TableFrame(W) ==
  IF \E b \in MaskedBits(W) : b > 51 THEN -1
  ELSE IF FrameOfBits(W) \in Frames THEN FrameOfBits(W) ELSE -1

=============================================================================
