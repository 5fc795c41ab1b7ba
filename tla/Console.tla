------------------------------- MODULE Console -------------------------------
(***************************************************************************)
(* The VGA text console of console.c: the static main_console (the active  *)
(* console; no other console_t exists) and the VGA text memory it draws    *)
(* into.                                                                   *)
(*                                                                         *)
(* main_console is a zeroed static until console_init runs: buffer NULL,   *)
(* width and height 0, scrolling and the cursor off.  Every call may come  *)
(* before console_init, and a write through the NULL buffer is recorded    *)
(* in wild.  A u32 is U32_BITS wide: only width - 1 and height - 1 on a    *)
(* zeroed console reach its top.                                           *)
(***************************************************************************)
EXTENDS ConsoleFormat, FiniteSets

CONSTANTS
  VGA_WIDTH, VGA_HEIGHT,  \* the text mode's columns and rows
  U32_BITS,               \* the width of u32
  BootCell,               \* what VGA memory holds before console_init clears it
  Chars,                  \* bytes passed to console_putchar
  Colors,                 \* vga_color_t values passed to the colour calls
  Positions,              \* <<x, y>> passed to console_set_cursor_pos
  Formats,                \* [fmt, args] passed to console_printf
  MaxCalls                \* bound on the number of console calls

VARIABLES
  con,    \* main_console: the console_t fields
  vga,    \* VGA text memory, cell index -> <<byte, colour>>
  wild,   \* <<buffer, index>> of each write that missed VGA memory
  calls   \* number of console calls so far

vars == <<con, vga, wild, calls>>

U32 == 2 ^ U32_BITS
AddU32(a, b) == (a + b) % U32
SubU32(a, b) == (a - b) % U32

Cells == 0 .. VGA_WIDTH * VGA_HEIGHT - 1

NL == 10
CR == 13
TAB == 9
BS == 8
VGA_BLACK == 0
VGA_LIGHT_GREY == 7

\* c >= ' ' on a (signed) char: bytes 0x80.. are negative.
Printable(c) == c >= SP /\ c < 128

vga_entry_color(fg, bg) == fg + 16 * bg

ZeroConsole ==
  [buffer |-> "NULL", width |-> 0, height |-> 0, cursor_x |-> 0, cursor_y |-> 0,
   color |-> 0, cursor_enabled |-> FALSE, scroll_enabled |-> FALSE]

(***************************************************************************)
(* The console calls as operators on a state record st = [con, vga, wild], *)
(* so that console_printf can chain console_putchar.                       *)
(***************************************************************************)
\* console->buffer[index] = cell.
Store(st, index, cell) ==
  IF st.con.buffer = "VGA" /\ index \in Cells
  THEN [st EXCEPT !.vga[index] = cell]
  ELSE [st EXCEPT !.wild = @ \cup {<<st.con.buffer, index>>}]

Blank(color) == <<SP, color>>

\* console_set_cursor_pos: clamp to the last column and row.
SetCursorPos(st, x, y) ==
  LET k == st.con IN
  [st EXCEPT !.con.cursor_x = IF x >= k.width THEN SubU32(k.width, 1) ELSE x,
             !.con.cursor_y = IF y >= k.height THEN SubU32(k.height, 1) ELSE y]

\* console_clear: every cell blank in the current colour, cursor home.
Clear(st) ==
  LET k == st.con
      n == k.width * k.height
      filled == IF k.buffer = "VGA"
                THEN [st EXCEPT !.vga = [i \in Cells |->
                                          IF i < n THEN Blank(k.color) ELSE @[i]]]
                ELSE st
  IN  SetCursorPos([filled EXCEPT !.con.cursor_x = 0, !.con.cursor_y = 0], 0, 0)

\* console_scroll_up: rows 1..height-1 move up one row, the last row is
\* cleared.  On a zeroed console both loops run over zero columns.
ScrollUp(st) ==
  LET k == st.con
      w == k.width
      h == k.height
  IN  IF k.buffer = "NULL" THEN st
      ELSE [st EXCEPT !.vga = [i \in Cells |->
                                 CASE i < (h - 1) * w -> @[i + w]
                                   [] i < h * w       -> Blank(k.color)
                                   [] OTHER           -> @[i]]]

\* console_scroll_down: rows move down one row, the first row is cleared.
ScrollDown(st) ==
  LET k == st.con
      w == k.width
      h == k.height
  IN  IF k.buffer = "NULL" THEN st
      ELSE [st EXCEPT !.vga = [i \in Cells |->
                                 CASE i < w     -> Blank(k.color)
                                   [] i < h * w -> @[i - w]
                                   [] OTHER     -> @[i]]]

\* (x + 8) & ~7 on a u32.
TabStop(x) == (AddU32(x, 8) \div 8) * 8

\* The character branch of console_putchar.
PutcharChar(st, c) ==
  LET k == st.con
      at(x) == k.cursor_y * k.width + x
  IN  CASE c = NL  -> [st EXCEPT !.con.cursor_x = 0, !.con.cursor_y = AddU32(@, 1)]
        [] c = CR  -> [st EXCEPT !.con.cursor_x = 0]
        [] c = TAB -> [st EXCEPT !.con.cursor_x = TabStop(@)]
        [] c = BS  -> IF k.cursor_x > 0
                      THEN Store([st EXCEPT !.con.cursor_x = @ - 1],
                                 at(k.cursor_x - 1), Blank(k.color))
                      ELSE st
        [] Printable(c) -> [Store(st, at(k.cursor_x), <<c, k.color>>)
                              EXCEPT !.con.cursor_x = AddU32(@, 1)]
        [] OTHER   -> st

\* Mutant: the wrap test with > instead of >=.
WrapLineLate(st) ==
  IF st.con.cursor_x > st.con.width
  THEN [st EXCEPT !.con.cursor_x = 0, !.con.cursor_y = AddU32(@, 1)]
  ELSE st

\* Past the last column: to the start of the next row.
WrapLine(st) ==
  IF st.con.cursor_x >= st.con.width
  THEN [st EXCEPT !.con.cursor_x = 0, !.con.cursor_y = AddU32(@, 1)]
  ELSE st

\* Past the last row: scroll and stay on the last row, or go back to row 0.
WrapScreen(st) ==
  IF st.con.cursor_y < st.con.height THEN st
  ELSE IF st.con.scroll_enabled
       THEN [ScrollUp(st) EXCEPT !.con.cursor_y = SubU32(st.con.height, 1)]
       ELSE [st EXCEPT !.con.cursor_y = 0]

MoveCursor(st) ==
  IF st.con.cursor_enabled
  THEN SetCursorPos(st, st.con.cursor_x, st.con.cursor_y)
  ELSE st

Putchar(st, c) == MoveCursor(WrapScreen(WrapLine(PutcharChar(st, c))))

\* console_puts: console_putchar on each byte.
Puts(st, s) == FoldLeft(Putchar, st, s)

\* console_printf: console_vprintf's bytes through console_putchar.
Printf(st, f) == Puts(st, Vprintf(f.fmt, f.args))

(***************************************************************************)
(* Actions: one per console call.                                          *)
(***************************************************************************)
now == [con |-> con, vga |-> vga, wild |-> wild]

\* A call: the console becomes after.
Call(after) ==
  /\ calls < MaxCalls
  /\ con' = after.con
  /\ vga' = after.vga
  /\ wild' = after.wild
  /\ calls' = calls + 1

ConsoleInit ==
  LET started == [now EXCEPT !.con = [buffer |-> "VGA", width |-> VGA_WIDTH,
                                 height |-> VGA_HEIGHT, cursor_x |-> 0, cursor_y |-> 0,
                                 color |-> vga_entry_color(VGA_LIGHT_GREY, VGA_BLACK),
                                 cursor_enabled |-> TRUE, scroll_enabled |-> TRUE]]
  IN  Call([Clear(started) EXCEPT !.con.cursor_enabled = TRUE])

ConsoleClear == Call(Clear(now))

ConsolePutchar(c) == Call(Putchar(now, c))

ConsolePrintf(f) == Call(Printf(now, f))

ConsoleSetColor(fg, bg) == Call([now EXCEPT !.con.color = vga_entry_color(fg, bg)])

\* console_ai_output, _thinking, _warning and _error: a foreground on black.
ConsoleAiColor(fg) == ConsoleSetColor(fg, VGA_BLACK)

ConsoleSetForeground(c) == Call([now EXCEPT !.con.color = @ - (@ % 16) + c])

ConsoleSetBackground(c) == Call([now EXCEPT !.con.color = (@ % 16) + ((c * 16) % 256)])

ConsoleResetColor ==
  Call([now EXCEPT !.con.color = vga_entry_color(VGA_LIGHT_GREY, VGA_BLACK)])

ConsoleEnableCursor == Call([now EXCEPT !.con.cursor_enabled = TRUE])

ConsoleDisableCursor == Call([now EXCEPT !.con.cursor_enabled = FALSE])

ConsoleSetCursorPos(p) == Call(SetCursorPos(now, p[1], p[2]))

ConsoleScrollUp == Call(ScrollUp(now))

ConsoleScrollDown == Call(ScrollDown(now))

\* The model's callers stop after MaxCalls calls.
CallsDone == calls = MaxCalls /\ UNCHANGED vars

Init ==
  /\ con = ZeroConsole
  /\ vga = [i \in Cells |-> BootCell]
  /\ wild = {}
  /\ calls = 0

Next ==
  \/ ConsoleInit
  \/ ConsoleClear
  \/ \E c \in Chars : ConsolePutchar(c)
  \/ \E f \in Formats : ConsolePrintf(f)
  \/ \E fg, bg \in Colors : ConsoleSetColor(fg, bg)
  \/ \E c \in Colors : ConsoleAiColor(c)
  \/ \E c \in Colors : ConsoleSetForeground(c) \/ ConsoleSetBackground(c)
  \/ ConsoleResetColor
  \/ ConsoleEnableCursor
  \/ ConsoleDisableCursor
  \/ \E p \in Positions : ConsoleSetCursorPos(p)
  \/ ConsoleScrollUp
  \/ ConsoleScrollDown
  \/ CallsDone

Spec == Init /\ [][Next]_vars

(***************************************************************************)
(* Properties.                                                             *)
(***************************************************************************)
\* Once console_init has pointed the buffer at VGA memory, every cell
\* console_putchar, console_clear and the scrolls write lies inside it:
\* the cursor arithmetic (tab stops, line wrap, scroll, clamping in
\* console_set_cursor_pos) never yields y * width + x past the screen.
\* Writes made through the NULL buffer before console_init are not counted.
VgaWritesInBounds == \A w \in wild : w[1] = "NULL"

\* console_printf on an initialised console writes, from the cursor on,
\* exactly what C's printf would print for the same format and arguments,
\* when that text is printable and ends before the last column.
Shows(v, k, text) ==
  \A j \in 1 .. Len(text) :
    v[k.cursor_y * k.width + k.cursor_x + j - 1] = <<text[j], k.color>>

PrintfShowsText ==
  [][\A f \in Formats :
       LET ref == RefPrintf(f.fmt, f.args) IN
       (/\ ConsolePrintf(f)
        /\ con.buffer = "VGA"
        /\ \A j \in 1 .. Len(ref) : Printable(ref[j])
        /\ con.cursor_x + Len(ref) < con.width)
       => Shows(vga', con, ref)]_vars

\* No console call writes anywhere but VGA memory.  console_init is the
\* only call that gives main_console a buffer.
NoStrayWrites == wild = {}

=============================================================================
