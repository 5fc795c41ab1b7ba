---------------------------- MODULE ConsoleFormat ----------------------------
(***************************************************************************)
(* console_vprintf and its integer conversions (console.c) as operators:   *)
(* from a format and its arguments to the bytes console_putchar receives.  *)
(* A string is the sequence of its byte codes, without the NUL.            *)
(*                                                                         *)
(* Integers are TLC integers.  int keeps its 32-bit range, INT_MIN         *)
(* included.  A long or unsigned long argument takes values below 2^31     *)
(* only, and an unsigned argument is never negative.  A pointer is the     *)
(* pair <<high word, low word>> of its 64 bits.                            *)
(***************************************************************************)
EXTENDS PrintfSpec

CONSTANT
  StrayByte   \* the byte this build keeps just before "0123456789abcdef"

INT_MIN == -2147483647 - 1

\* C's / on int and long: the quotient truncated toward zero.
CDiv(a, b) == IF a >= 0 \/ a % b = 0 THEN a \div b ELSE a \div b + 1

\* i = -i on an int.  Negating INT_MIN overflows; the build wraps it back
\* to INT_MIN.
Neg32(i) == IF i = INT_MIN THEN i ELSE -i

\* "0123456789abcdef"[k].  A negative k (a digit of a negative value)
\* reads the byte before the literal.
DigitByte(k) ==
  CASE k \in 0..9   -> ZERO + k
    [] k \in 10..15 -> 87 + k
    [] OTHER        -> StrayByte

\* The do { tmp = value; value /= base; *ptr++ = digits[tmp - value*base]; }
\* while (value) loop: the digits, least significant first.
RECURSIVE ToaDigits(_, _)
ToaDigits(value, base) ==
  LET q == CDiv(value, base)
  IN  <<DigitByte(value - q * base)>> \o
      (IF q = 0 THEN <<>> ELSE ToaDigits(q, base))

\* Mutant: the reversal loop left out.
ToaUnreversed(value, base) == ToaDigits(value, base)

\* The conversion with its in-place reversal (ptr1 and ptr swapping).
Toa(value, base) == Reverse(ToaDigits(value, base))

\* The four conversions run the same code over int, unsigned int, long
\* and unsigned long.
Itoa(value, base) == Toa(value, base)
Uitoa(value, base) == Toa(value, base)
Ltoa(value, base) == Toa(value, base)
Ultoa(value, base) == Toa(value, base)

\* (unsigned int) of a 64-bit pointer keeps the low word.
PtrAsUint(p) == p[2]

\* %X: the hex digits a-f moved to A-F by *p -= 32.
Upper(s) == [k \in DOMAIN s |-> IF s[k] \in 97..102 THEN s[k] - 32 ELSE s[k]]

\* A %d or %ld argument: a '-' for a negative value, then the digits of
\* its negation.
Signed(n, digits) == IF n < 0 THEN <<MINUS>> \o digits ELSE digits

\* The conversion a single character after '%' selects, and whether it
\* takes an argument (va_arg).
Takes(c) == c \in {CH_c, CH_s, CH_d, CH_i, CH_u, CH_x, CH_X, CH_p}

Conversion(c, arg) ==
  CASE c = CH_c             -> <<arg % 256>>
    [] c = CH_s             -> IF arg = NullPtr THEN NullText ELSE arg
    [] c \in {CH_d, CH_i}   -> Signed(arg, Itoa(IF arg < 0 THEN Neg32(arg) ELSE arg, 10))
    [] c = CH_u             -> Uitoa(arg, 10)
    [] c = CH_x             -> Uitoa(arg, 16)
    [] c = CH_X             -> Upper(Uitoa(arg, 16))
    [] c = CH_p             -> ZeroX \o Uitoa(PtrAsUint(arg), 16)
    [] c = PCT              -> <<PCT>>
    [] OTHER                -> <<PCT, c>>

\* After "%l": u, d and x take an unsigned long or a long; any other
\* character prints nothing and is skipped.
TakesLong(c) == c \in {CH_u, CH_d, CH_x}

LongConversion(c, arg) ==
  CASE c = CH_u -> Ultoa(arg, 10)
    [] c = CH_d -> Signed(arg, Ltoa(IF arg < 0 THEN -arg ELSE arg, 10))
    [] c = CH_x -> Ultoa(arg, 16)
    [] OTHER    -> <<>>

ArgOf(args) == IF args = <<>> THEN 0 ELSE Head(args)

Rest(args, used) == IF used THEN Tail(args) ELSE args

\* The while (*fmt) loop from position i.  A '%' that is the last
\* character prints itself.  A format ending in "%l" makes the loop step
\* past the NUL; no caller passes one, and the model stops there.
RECURSIVE VprintfFrom(_, _, _)
VprintfFrom(fmt, i, args) ==
  IF i > Len(fmt) THEN <<>>
  ELSE IF fmt[i] = PCT /\ i < Len(fmt)
  THEN IF fmt[i + 1] = CH_l
       THEN IF i + 2 > Len(fmt) THEN <<>>
            ELSE LongConversion(fmt[i + 2], ArgOf(args))
                   \o VprintfFrom(fmt, i + 3, Rest(args, TakesLong(fmt[i + 2])))
       ELSE Conversion(fmt[i + 1], ArgOf(args))
              \o VprintfFrom(fmt, i + 2, Rest(args, Takes(fmt[i + 1])))
  ELSE <<fmt[i]>> \o VprintfFrom(fmt, i + 1, args)

Vprintf(fmt, args) == VprintfFrom(fmt, 1, args)

=============================================================================
