----------------------------- MODULE LimineBoot -----------------------------
(***************************************************************************)
(* Physical memory as Limine hands it to the kernel, for the MC modules.   *)
(*                                                                         *)
(* PML4 in frame 1; PML4[0] identity-maps physical 0 .. 2 MiB with a HUGE  *)
(* PD entry (tables in frames 2, 3); PML4[256] maps the kernel page        *)
(* <<256,0,0,0>> to frame 7 (tables in frames 4, 5, 6).                    *)
(***************************************************************************)
EXTENDS PhysMem

P == 4096

MCSlots == {0, 1, 256, 257}

MCVAs == {<<0, 0, 0, 0>>, <<0, 1, 0, 0>>, <<256, 0, 0, 1>>}

MCFlags == {{"WRITABLE"}, {"WRITABLE", "USER"}}

LimineTables(frames, identity) ==
  LET Zeroed == [f \in frames |-> [s \in MCSlots |-> {}]]
      m1 == WriteWord(Zeroed, 1, 256, EntryBits(4 * P, {"WRITABLE"}))
      m2 == WriteWord(m1, 4, 0, EntryBits(5 * P, {"WRITABLE"}))
      m3 == WriteWord(m2, 5, 0, EntryBits(6 * P, {"WRITABLE"}))
      m4 == WriteWord(m3, 6, 0, EntryBits(7 * P, {"WRITABLE"}))
      i1 == WriteWord(m4, 1, 0, EntryBits(2 * P, {"WRITABLE"}))
      i2 == WriteWord(i1, 2, 0, EntryBits(3 * P, {"WRITABLE"}))
      i3 == WriteWord(i2, 3, 0, EntryBits(0, {"WRITABLE", "HUGE"}))
  IN IF identity THEN i3 ELSE m4

=============================================================================
