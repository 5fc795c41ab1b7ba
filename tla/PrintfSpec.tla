----------------------------- MODULE PrintfSpec -----------------------------
(***************************************************************************)
(* What C's printf prints, for the subset of formats the kernel writes,    *)
(* and the byte codes of the format characters.  Both printf               *)
(* implementations of the repository are checked against it: console.c's  *)
(* console_vprintf and stdio.c's vsnprintf.  A string is the sequence of   *)
(* its byte codes, without the NUL.  A pointer is <<high word, low word>>. *)
(***************************************************************************)
EXTENDS Integers, Sequences, SequencesExt

CONSTANT NullPtr   \* a NULL char * argument

\* Byte codes of the characters console_vprintf tests for or prints.
PCT == 37
MINUS == 45
ZERO == 48
SP == 32
CH_c == 99
CH_s == 115
CH_d == 100
CH_i == 105
CH_u == 117
CH_x == 120
CH_X == 88
CH_p == 112
CH_l == 108
NullText == <<40, 110, 117, 108, 108, 41>>   \* "(null)"
ZeroX == <<ZERO, CH_x>>                       \* "0x"

(***************************************************************************)
(* Reference: what C's printf prints for a format of the subset the        *)
(* kernel's callers write: '%', an optional field width, an optional 'l',  *)
(* and one of c s d i u x X p %.  Numbers are written positionally (digit  *)
(* j of a k-digit number is n \div b^(k-j) % b), not by repeated division. *)
(* A negative n is written as its last digit and the rest, so that        *)
(* INT_MIN, whose magnitude TLC cannot hold, is in the domain.             *)
(***************************************************************************)
RECURSIVE Places(_, _)
Places(n, b) == IF n < b THEN 1 ELSE 1 + Places(n \div b, b)

RefDigit(d) == IF d < 10 THEN 48 + d ELSE 97 + (d - 10)

RefText(n, b) ==
  LET k == Places(n, b) IN [j \in 1 .. k |-> RefDigit((n \div b ^ (k - j)) % b)]

PadWith(ch, w, s) == [j \in 1 .. (w - Len(s)) |-> ch] \o s

RefUpper(s) == [j \in DOMAIN s |-> IF s[j] >= 97 THEN s[j] - 32 ELSE s[j]]

\* n / 10 of C, for a negative n.
RefQuot(n) == IF n % 10 = 0 THEN n \div 10 ELSE n \div 10 + 1

RefSigned(n) ==
  IF n >= 0 THEN RefText(n, 10)
  ELSE LET q == -RefQuot(n)
           last == <<RefDigit(-(n + q * 10))>>
       IN  <<MINUS>> \o (IF q = 0 THEN last ELSE RefText(q, 10) \o last)

RefPointer(p) ==
  ZeroX \o (IF p[1] = 0 THEN RefText(p[2], 16)
            ELSE RefText(p[1], 16) \o PadWith(ZERO, 8, RefText(p[2], 16)))

RefConversion(c, arg) ==
  CASE c = CH_c           -> <<arg % 256>>
    [] c = CH_s           -> IF arg = NullPtr THEN NullText ELSE arg
    [] c \in {CH_d, CH_i} -> RefSigned(arg)
    [] c = CH_u           -> RefText(arg, 10)
    [] c = CH_x           -> RefText(arg, 16)
    [] c = CH_X           -> RefUpper(RefText(arg, 16))
    [] c = CH_p           -> RefPointer(arg)
    [] c = PCT            -> <<PCT>>

RECURSIVE DigitsEnd(_, _)
DigitsEnd(fmt, j) == IF j <= Len(fmt) /\ fmt[j] \in 48..57 THEN DigitsEnd(fmt, j + 1) ELSE j

RECURSIVE RefFrom(_, _, _)
RefFrom(fmt, i, args) ==
  IF i > Len(fmt) THEN <<>>
  ELSE IF fmt[i] # PCT THEN <<fmt[i]>> \o RefFrom(fmt, i + 1, args)
  ELSE LET j     == DigitsEnd(fmt, i + 1)
           width == FoldLeft(LAMBDA a, d : 10 * a + d - ZERO, 0, SubSeq(fmt, i + 1, j - 1))
           k     == IF j <= Len(fmt) /\ fmt[j] = CH_l THEN j + 1 ELSE j
       IN  PadWith(SP, width, RefConversion(fmt[k], IF args = <<>> THEN 0 ELSE Head(args)))
             \o RefFrom(fmt, k + 1, IF fmt[k] # PCT THEN Tail(args) ELSE args)

RefPrintf(fmt, args) == RefFrom(fmt, 1, args)

=============================================================================
