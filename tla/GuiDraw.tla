------------------------------- MODULE GuiDraw -------------------------------
(***************************************************************************)
(* The pixel and line drawing of jarvis_gui.c, over its static abs.  A   *)
(* framebuffer is a record: its width and height, double_buffered, and    *)
(* its two buffers as functions from the pixel index y * width + x to a  *)
(* colour (the packed u32 of color_t, here a small integer).             *)
(***************************************************************************)
EXTENDS Integers, Sequences, SequencesExt

\* jarvis_gui.c's static abs (it #undefs libc's).  INT_MIN, whose negation overflows, is out of
\* reach of screen coordinates.
abs(n) == IF n < 0 THEN -n ELSE n

\* framebuffer_create's buffers after memset(0): w * h black pixels.
ZeroBuffer(w, h) == [i \in 0 .. w * h - 1 |-> 0]

\* framebuffer_draw_pixel: off-screen coordinates are ignored; the pixel
\* goes to the back buffer when the framebuffer is double buffered.
framebuffer_draw_pixel(fb, x, y, c) ==
  IF x < 0 \/ x >= fb.width \/ y < 0 \/ y >= fb.height THEN fb
  ELSE IF fb.double_buffered THEN [fb EXCEPT !.back_buffer[y * fb.width + x] = c]
  ELSE [fb EXCEPT !.pixels[y * fb.width + x] = c]

\* framebuffer_clear: every pixel of the buffer drawn to gets colour c.
framebuffer_clear(fb, c) ==
  IF fb.double_buffered THEN [fb EXCEPT !.back_buffer = [i \in DOMAIN @ |-> c]]
  ELSE [fb EXCEPT !.pixels = [i \in DOMAIN @ |-> c]]

\* framebuffer_present: memcpy of the back buffer to the screen; nothing
\* for a single-buffered framebuffer.  framebuffer_create returns NULL
\* rather than a double-buffered framebuffer without a back buffer.
framebuffer_present(fb) ==
  IF fb.double_buffered THEN [fb EXCEPT !.pixels = fb.back_buffer] ELSE fb

\* Mutant: the y test reads err after the x step instead of the saved e2.
LineStepReread(p, dx, dy, sx, sy) ==
  LET e2 == 2 * p.err
      ex == IF e2 >= dy THEN dy ELSE 0
  IN  [x |-> IF e2 >= dy THEN p.x + sx ELSE p.x,
       y |-> IF 2 * (p.err + ex) <= dx THEN p.y + sy ELSE p.y,
       err |-> p.err + ex + (IF 2 * (p.err + ex) <= dx THEN dx ELSE 0)]

\* One turn of framebuffer_draw_line's loop after the pixel: e2 = 2 * err,
\* then the x step when e2 >= dy and the y step when e2 <= dx, both
\* tested against the same e2.
LineStep(p, dx, dy, sx, sy) ==
  LET e2 == 2 * p.err IN
  [x |-> IF e2 >= dy THEN p.x + sx ELSE p.x,
   y |-> IF e2 <= dx THEN p.y + sy ELSE p.y,
   err |-> p.err + (IF e2 >= dy THEN dy ELSE 0) + (IF e2 <= dx THEN dx ELSE 0)]

\* The points the loop hands to framebuffer_draw_pixel, from p on, until
\* it has drawn (x2, y2).  fuel bounds the recursion: the loop takes at
\* most |dx| + |dy| + 1 turns.
RECURSIVE LinePoints(_, _, _, _, _, _, _, _)
LinePoints(p, x2, y2, dx, dy, sx, sy, fuel) ==
  IF (p.x = x2 /\ p.y = y2) \/ fuel = 0 THEN <<<<p.x, p.y>>>>
  ELSE <<<<p.x, p.y>>>> \o LinePoints(LineStep(p, dx, dy, sx, sy), x2, y2, dx, dy, sx, sy, fuel - 1)

\* framebuffer_draw_line's set-up: dx = |x2 - x1|, dy = -|y2 - y1|, the
\* step signs, err = dx + dy.
DrawnPoints(x1, y1, x2, y2) ==
  LET dx == abs(x2 - x1)
      dy == -abs(y2 - y1)
      sx == IF x1 < x2 THEN 1 ELSE -1
      sy == IF y1 < y2 THEN 1 ELSE -1
  IN  LinePoints([x |-> x1, y |-> y1, err |-> dx + dy], x2, y2, dx, dy, sx, sy, dx - dy + 1)

framebuffer_draw_line(fb, x1, y1, x2, y2, c) ==
  LET plot(b, q) == framebuffer_draw_pixel(b, q[1], q[2], c)
  IN  FoldLeft(plot, fb, DrawnPoints(x1, y1, x2, y2))

=============================================================================
