----------------------------- MODULE LibcStdio -----------------------------
(***************************************************************************)
(* stdio.c's string formatting: vsnprintf and the three calls built on it. *)
(* The destination is a LibcString array [mem, over] and str an index in  *)
(* it.  The loop's state is [buf, out, count], out being the index that    *)
(* *out stores to.  An argument is an int, a string (or NULL), or a        *)
(* pointer <<high word, low word>>.                                        *)
(***************************************************************************)
EXTENDS LibcStdlib, PrintfSpec

\* (size_t)-1: no format output comes near it.
SIZE_MAX == 2 ^ 30

\* size - 1 on a size_t: 0 wraps to SIZE_MAX.
Limit(size) == IF size = 0 THEN SIZE_MAX ELSE size - 1

\* *out++ = c; count++ for each byte of text.
Store(s, c) == [buf |-> Poke(s.buf, s.out, c), out |-> s.out + 1, count |-> s.count + 1]

Put(st, text) == FoldLeft(Store, st, text)

\* Mutant: the copy loop without its count < size - 1 test.
CopyUnchecked(st, text, lim) == Put(st, text)

\* for (p = buf; *p && count < size - 1; p++) { *out++ = *p; count++; }
CopyCapped(st, text, lim) ==
  FoldLeft(LAMBDA s, c : IF s.count < lim THEN Store(s, c) ELSE s, st, text)

\* ultoa((unsigned long)p, buf + 2, 16) of a 64-bit pointer.
PtrHex(p) ==
  IF p[1] = 0 THEN ultoa(p[2], 16)
  ELSE ultoa(p[1], 16) \o [j \in 1 .. 8 - Len(ultoa(p[2], 16)) |-> ZERO] \o ultoa(p[2], 16)

\* The switch on the character after '%'.
Convert(st, c, arg, lim) ==
  CASE c \in {CH_d, CH_i} -> CopyCapped(st, itoa(arg, 10), lim)
    [] c = CH_u           -> CopyCapped(st, utoa(arg, 10), lim)
    [] c \in {CH_x, CH_X} -> CopyCapped(st, utoa(arg, 16), lim)
    [] c = CH_p           -> CopyCapped(st, ZeroX \o PtrHex(arg), lim)
    [] c = CH_s           -> CopyCapped(st, IF arg = NullPtr THEN NullText ELSE arg, lim)
    [] c = CH_c           -> Put(st, <<arg % 256>>)
    [] c = PCT            -> Put(st, <<PCT>>)
    [] OTHER              -> Put(st, <<PCT, c>>)

\* Whether the conversion takes a va_arg.
Consumes(c) == c \in {CH_d, CH_i, CH_u, CH_x, CH_X, CH_p, CH_s, CH_c}

\* while (*format && count < size - 1): a '%' followed by a character
\* converts, anything else is copied.
RECURSIVE VsnFrom(_, _, _, _, _)
VsnFrom(st, fmt, i, args, lim) ==
  IF i > Len(fmt) \/ st.count >= lim THEN st
  ELSE IF fmt[i] = PCT /\ i < Len(fmt)
  THEN LET c == fmt[i + 1] IN
       VsnFrom(Convert(st, c, IF args = <<>> THEN 0 ELSE Head(args), lim), fmt, i + 2,
               IF Consumes(c) THEN Tail(args) ELSE args, lim)
  ELSE VsnFrom(Put(st, <<fmt[i]>>), fmt, i + 1, args, lim)

\* vsnprintf: the loop, then *out = '\0' when size > 0; returns count.
vsnprintf(b, str, size, fmt, args) ==
  LET r == VsnFrom([buf |-> b, out |-> str, count |-> 0], fmt, 1, args, Limit(size))
  IN  [buf |-> IF size > 0 THEN Poke(r.buf, r.out, 0) ELSE r.buf, ret |-> r.count]

snprintf(b, str, size, fmt, args) == vsnprintf(b, str, size, fmt, args)

\* vsprintf passes (size_t)-1 as the size.
vsprintf(b, str, fmt, args) == vsnprintf(b, str, SIZE_MAX, fmt, args)

sprintf(b, str, fmt, args) == vsprintf(b, str, fmt, args)

=============================================================================
