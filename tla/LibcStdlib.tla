----------------------------- MODULE LibcStdlib -----------------------------
(***************************************************************************)
(* stdlib.c as operators: atoi and atol, the integer-to-string             *)
(* conversions, div, qsort, bsearch, rand, and the allocation wrappers     *)
(* over kmalloc.  An array is a sequence; index i of C is element i + 1.   *)
(* The element comparator is the usual int one, *a - *b.                   *)
(***************************************************************************)
EXTENDS LibcString

\* C's / and % on int and long.
CDiv(a, b) == IF a >= 0 \/ a % b = 0 THEN a \div b ELSE a \div b + 1
CRem(a, b) == a - CDiv(a, b) * b

div(numer, denom) == [quot |-> CDiv(numer, denom), rem |-> CRem(numer, denom)]

(***************************************************************************)
(* atoi and atol: blanks, one sign, then digits; the sign multiplies the   *)
(* magnitude.  The inputs stay inside int.                                 *)
(***************************************************************************)
RECURSIVE AtoiDigits(_, _, _)
AtoiDigits(s, p, acc) ==
  IF isdigit(ch(s, p)) THEN AtoiDigits(s, p + 1, acc * 10 + (ch(s, p) - 48)) ELSE acc

atoi(s) ==
  LET p == SkipSpace(s, 0)
      sign == IF ch(s, p) = 45 THEN -1 ELSE 1
  IN  sign * AtoiDigits(s, IF ch(s, p) \in {43, 45} THEN p + 1 ELSE p, 0)

atol(s) == atoi(s)

(***************************************************************************)
(* itoa, ltoa, utoa and ultoa: a '-' only for a negative value in base 10, *)
(* then the digits of |value % base|, least significant first, reversed    *)
(* in place.  A base outside 2..36 gives "".                               *)
(***************************************************************************)
ToaChar(k) == IF k < 10 THEN 48 + k ELSE 87 + k

\* Mutant: the digit of a negative remainder taken as it is.
DigitSigned(res) == ToaChar(res)

\* "0123456789abcdefghijklmnopqrstuvwxyz"[res < 0 ? -res : res]
DigitOf(res) == ToaChar(IF res < 0 THEN -res ELSE res)

RECURSIVE LowFirstDigits(_, _)
LowFirstDigits(value, base) ==
  LET res == CRem(value, base)
      q   == CDiv(value, base)
  IN  <<DigitOf(res)>> \o
      (IF q = 0 THEN <<>> ELSE LowFirstDigits(q, base))

itoa(value, base) ==
  IF base < 2 \/ base > 36 THEN <<>>
  ELSE (IF value < 0 /\ base = 10 THEN <<45>> ELSE <<>>) \o Reverse(LowFirstDigits(value, base))

ltoa(value, base) == itoa(value, base)

utoa(value, base) ==
  IF base < 2 \/ base > 36 THEN <<>> ELSE Reverse(LowFirstDigits(value, base))

ultoa(value, base) == utoa(value, base)

(***************************************************************************)
(* qsort: Lomuto partition around the last element, then the two sides.    *)
(* A segment is (lo, n): n elements from index lo.                         *)
(***************************************************************************)
compar(x, y) == x - y

\* Mutant: the swap's third store (arr[i] = temp) left out.
SwapOneWay(a, i, j) == [a EXCEPT ![i + 1] = a[j + 1]]

\* The byte-by-byte swap of two elements.
Swap(a, i, j) == [a EXCEPT ![i + 1] = a[j + 1], ![j + 1] = a[i + 1]]

\* for (i = 0; i < nmemb - 1; i++) if (compar(arr + i, pivot) < 0) ...
RECURSIVE Partition(_, _, _, _)
Partition(a, i, pivot, store) ==
  IF i >= pivot THEN [arr |-> a, store |-> store]
  ELSE IF compar(a[i + 1], a[pivot + 1]) < 0
  THEN Partition(Swap(a, store, i), i + 1, pivot, store + 1)
  ELSE Partition(a, i + 1, pivot, store)

RECURSIVE QsortSeg(_, _, _)
QsortSeg(a, lo, n) ==
  IF n <= 1 THEN a
  ELSE LET pivot == lo + n - 1
           part  == Partition(a, lo, pivot, lo)
           left  == part.store - lo
           a1    == Swap(part.arr, part.store, pivot)
       IN  QsortSeg(QsortSeg(a1, lo, left), part.store + 1, n - left - 1)

qsort(a) == QsortSeg(a, 0, Len(a))

(***************************************************************************)
(* bsearch over a sorted array: the index of an element equal to key, or   *)
(* NULL.                                                                   *)
(***************************************************************************)
\* Mutant: right = mid - 1 when the key is smaller.
NarrowInclusive(cmp, left, right, mid) ==
  IF cmp < 0 THEN [l |-> left, r |-> mid - 1] ELSE [l |-> mid + 1, r |-> right]

\* cmp < 0: right = mid; otherwise left = mid + 1.
Narrow(cmp, left, right, mid) ==
  IF cmp < 0 THEN [l |-> left, r |-> mid] ELSE [l |-> mid + 1, r |-> right]

RECURSIVE BsearchFrom(_, _, _, _)
BsearchFrom(key, a, left, right) ==
  IF left >= right THEN NULL
  ELSE LET mid == left + (right - left) \div 2
           cmp == compar(key, a[mid + 1])
           nx  == Narrow(cmp, left, right, mid)
       IN  IF cmp = 0 THEN mid ELSE BsearchFrom(key, a, nx.l, nx.r)

bsearch(key, a) == BsearchFrom(key, a, 0, Len(a))

(***************************************************************************)
(* rand and srand over the u32 rand_seed, kept as <<high, low>> 16-bit     *)
(* halves: seed * 1103515245 + 12345 mod 2^32, then (seed >> 16) & 0x7FFF. *)
(***************************************************************************)
RandA == <<16838, 20077>>   \* 1103515245 = 16838 * 2^16 + 20077

RandStep(seed) ==
  LET lo == seed[2] * RandA[2] + 12345
      hi == ((seed[1] * RandA[2]) % 65536) + ((seed[2] * RandA[1]) % 65536) + (lo \div 65536)
  IN  <<hi % 65536, lo % 65536>>

rand(seed) == [seed |-> RandStep(seed), val |-> RandStep(seed)[1] % 32768]

srand(seed) == <<seed \div 65536, seed % 65536>>

(***************************************************************************)
(* Allocation wrappers.  kmalloc returns NULL, so each returns NULL: calloc *)
(* zeroes nothing, and realloc frees nothing unless size is 0.             *)
(***************************************************************************)
malloc(size) == kmalloc(size)

calloc(nmemb, size) == kmalloc(nmemb * size)

realloc(ptr, size) ==
  CASE ptr = NULL -> kmalloc(size)
    [] size = 0   -> NULL
    [] OTHER      -> kmalloc(size)

=============================================================================
