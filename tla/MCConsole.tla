------------------------------ MODULE MCConsole ------------------------------
(***************************************************************************)
(* A 10 x 2 screen: wide enough for a tab stop inside a row (8) and one    *)
(* past it (16, a wrap); two rows, so a new line on the last row scrolls.  *)
(* The formats are the kernel's own console_printf formats, with the       *)
(* literal text around each conversion cut down.                           *)
(***************************************************************************)
EXTENDS Console

CH_A == 65
CH_DOT == 46
CH_0 == 48

MCChars == {CH_A, NL, TAB, BS, CR, 7, 200}

MCBootCell == <<0, 0>>

MCColors == {0, 10}

MCPositions == {<<9, 1>>, <<12, 5>>}

\* jarfs.c:130 "%d.%d" (JARFS_VERSION 1.0); jarvis_gui.c:64 "%dx%d";
\* pmm.c:66 "%lu"; shell.c:175 "%s" given NULL; shell.c:672 "12%%";
\* and %i, %x, %X, %c, %p with one argument each.
MCFormats ==
  { [fmt |-> <<PCT, CH_d, CH_DOT, PCT, CH_d>>, args |-> <<1, 0>>],
    [fmt |-> <<PCT, CH_d, CH_x, PCT, CH_d>>, args |-> <<-40, 25>>],
    [fmt |-> <<PCT, CH_l, CH_u>>, args |-> <<4095>>],
    [fmt |-> <<PCT, CH_s>>, args |-> <<NullPtr>>],
    [fmt |-> <<49, 50, PCT, PCT>>, args |-> <<>>],
    [fmt |-> <<PCT, CH_i, PCT, CH_x, PCT, CH_X>>, args |-> <<-1, 171, 171>>],
    [fmt |-> <<PCT, CH_c, PCT, CH_p>>, args |-> <<CH_A, <<0, 753664>>>>] }

\* shell.c:430-435 "%8lu MB": a field width.
MCWidthFormats == {[fmt |-> <<PCT, 56, CH_l, CH_u>>, args |-> <<16>>]}

=============================================================================
