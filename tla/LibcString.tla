----------------------------- MODULE LibcString -----------------------------
(***************************************************************************)
(* string.c as operators.  A string argument is the sequence of its byte   *)
(* codes without the NUL; ch(s, i) is s[i] of C (0-based), NUL past the    *)
(* end.  A pointer result is a 0-based index, or NULL.                     *)
(*                                                                         *)
(* A destination is a buffer [mem, over]: mem is the array the caller      *)
(* owns (a sequence of bytes), and over collects the index of every store  *)
(* that falls past its end.  The loops are recursive operators over the    *)
(* same variables as the C loops.                                          *)
(***************************************************************************)
EXTENDS Integers, Sequences, SequencesExt, CType

NULL == -1

ch(s, i) == IF i < Len(s) THEN s[i + 1] ELSE 0

\* A store to dest[i], and a load from it (0 past the array).
Poke(b, i, v) ==
  IF i < Len(b.mem) THEN [b EXCEPT !.mem[i + 1] = v]
  ELSE [b EXCEPT !.over = @ \cup {i}]
Peek(b, i) == IF i < Len(b.mem) THEN b.mem[i + 1] ELSE 0

\* The string that starts at index p of an array holding a NUL after p.
RECURSIVE CStrAt(_, _)
CStrAt(m, p) == IF p >= Len(m) \/ m[p + 1] = 0 THEN <<>> ELSE <<m[p + 1]>> \o CStrAt(m, p + 1)

(***************************************************************************)
(* Memory operations.                                                      *)
(***************************************************************************)
\* memcpy: n bytes of src to dest[at ..].
memcpy(b, at, src, n) == FoldLeft(LAMBDA d, k : Poke(d, at + k, ch(src, k)), b,
                                  [j \in 1 .. n |-> j - 1])

memset(b, at, c, n) == FoldLeft(LAMBDA d, k : Poke(d, at + k, c % 256), b,
                                [j \in 1 .. n |-> j - 1])

\* memmove inside one array: *d++ = *s++ upward, *--d = *--s downward.
RECURSIVE MoveUp(_, _, _, _)
MoveUp(b, d, s, n) == IF n = 0 THEN b ELSE MoveUp(Poke(b, d, Peek(b, s)), d + 1, s + 1, n - 1)

RECURSIVE MoveDown(_, _, _, _)
MoveDown(b, d, s, n) ==
  IF n = 0 THEN b ELSE MoveDown(Poke(b, d + n - 1, Peek(b, s + n - 1)), d, s, n - 1)

\* Mutant: the copy always runs upward.
MemmoveUpward(b, d, s, n) == MoveUp(b, d, s, n)

memmove(b, d, s, n) == IF d < s THEN MoveUp(b, d, s, n) ELSE MoveDown(b, d, s, n)

RECURSIVE MemcmpFrom(_, _, _, _)
MemcmpFrom(a, c, n, i) ==
  IF n = 0 THEN 0
  ELSE IF ch(a, i) # ch(c, i) THEN ch(a, i) - ch(c, i)
  ELSE MemcmpFrom(a, c, n - 1, i + 1)
memcmp(a, c, n) == MemcmpFrom(a, c, n, 0)

RECURSIVE MemchrFrom(_, _, _, _)
MemchrFrom(s, c, n, i) ==
  IF n = 0 THEN NULL
  ELSE IF ch(s, i) = c % 256 THEN i
  ELSE MemchrFrom(s, c, n - 1, i + 1)
memchr(s, c, n) == MemchrFrom(s, c, n, 0)

(***************************************************************************)
(* Lengths, copies and concatenation.                                      *)
(***************************************************************************)
RECURSIVE StrnlenFrom(_, _, _)
StrnlenFrom(s, i, m) == IF ch(s, i) # 0 /\ m # 0 THEN StrnlenFrom(s, i + 1, m - 1) ELSE i
strnlen(s, maxlen) == StrnlenFrom(s, 0, maxlen)

strlen(s) == Len(s)

\* strcpy: every byte of src and its NUL.
strcpy(b, at, src) == memcpy(b, at, src, Len(src) + 1)

\* while (n && (*d++ = *src++)) n--; the NUL store leaves n as it is, and
\* while (n--) *d++ = '\0' then stores n more NULs after it.
RECURSIVE StrncpyFrom(_, _, _, _, _)
StrncpyFrom(b, d, src, i, n) ==
  IF n = 0 THEN b
  ELSE IF ch(src, i) = 0 THEN memset(Poke(b, d, 0), d + 1, 0, n)
  ELSE StrncpyFrom(Poke(b, d, ch(src, i)), d + 1, src, i + 1, n - 1)
strncpy(b, src, n) == StrncpyFrom(b, 0, src, 0, n)

\* strcat: src and its NUL over the NUL of dest.
strcat(b, src) == strcpy(b, Len(CStrAt(b.mem, 0)), src)

\* while (n-- && (*d++ = *src++)); *d = '\0': after the NUL of src, d has
\* moved past it and one more NUL is stored.
RECURSIVE StrncatFrom(_, _, _, _, _)
StrncatFrom(b, d, src, i, n) ==
  IF n = 0 THEN Poke(b, d, 0)
  ELSE IF ch(src, i) = 0 THEN Poke(Poke(b, d, 0), d + 1, 0)
  ELSE StrncatFrom(Poke(b, d, ch(src, i)), d + 1, src, i + 1, n - 1)
strncat(b, src, n) == StrncatFrom(b, Len(CStrAt(b.mem, 0)), src, 0, n)

\* Mutant: copy = (len < size) ? len : size.
StrlcpyWhole(b, at, src, size) ==
  [buf |-> IF size > 0
           THEN LET copy == IF Len(src) < size THEN Len(src) ELSE size
                IN  Poke(memcpy(b, at, src, copy), at + copy, 0)
           ELSE b,
   ret |-> Len(src)]

\* strlcpy: at most size - 1 bytes and a NUL; returns strlen(src).
strlcpy(b, at, src, size) ==
  [buf |-> IF size > 0
           THEN LET copy == IF Len(src) < size - 1 THEN Len(src) ELSE size - 1
                IN  Poke(memcpy(b, at, src, copy), at + copy, 0)
           ELSE b,
   ret |-> Len(src)]

\* strlcat: strnlen(dst, size) of the array's string, then strlcpy at its end.
strlcat(b, src, size) ==
  LET dlen == strnlen(b.mem, size)
      tail == strlcpy(b, dlen, src, size - dlen)
  IN  IF dlen = size THEN [buf |-> b, ret |-> size + Len(src)]
      ELSE [buf |-> tail.buf, ret |-> dlen + tail.ret]

(***************************************************************************)
(* Comparison.  Bytes are compared as unsigned char.                       *)
(***************************************************************************)
RECURSIVE StrcmpFrom(_, _, _)
StrcmpFrom(s1, s2, i) ==
  IF ch(s1, i) # 0 /\ ch(s1, i) = ch(s2, i) THEN StrcmpFrom(s1, s2, i + 1)
  ELSE ch(s1, i) - ch(s2, i)
\* Mutant: the operands of the subtraction swapped.
StrcmpSwapped(s1, s2) == StrcmpFrom(s2, s1, 0)

strcmp(s1, s2) == StrcmpFrom(s1, s2, 0)

RECURSIVE StrncmpFrom(_, _, _, _)
StrncmpFrom(s1, s2, n, i) ==
  IF n # 0 /\ ch(s1, i) # 0 /\ ch(s1, i) = ch(s2, i) THEN StrncmpFrom(s1, s2, n - 1, i + 1)
  ELSE IF n = 0 THEN 0 ELSE ch(s1, i) - ch(s2, i)
strncmp(s1, s2, n) == StrncmpFrom(s1, s2, n, 0)

RECURSIVE StrcasecmpFrom(_, _, _)
StrcasecmpFrom(s1, s2, i) ==
  IF ch(s1, i) # 0 /\ tolower(ch(s1, i)) = tolower(ch(s2, i))
  THEN StrcasecmpFrom(s1, s2, i + 1)
  ELSE tolower(ch(s1, i)) - tolower(ch(s2, i))
strcasecmp(s1, s2) == StrcasecmpFrom(s1, s2, 0)

startswith(s, prefix) == strncmp(s, prefix, Len(prefix)) = 0

endswith(s, suffix) ==
  /\ Len(suffix) <= Len(s)
  /\ strcmp(SubSeq(s, Len(s) - Len(suffix) + 1, Len(s)), suffix) = 0

(***************************************************************************)
(* Search.  (char)c of a byte code below 128 is the same code.            *)
(***************************************************************************)
RECURSIVE StrchrFrom(_, _, _)
StrchrFrom(s, c, i) ==
  IF ch(s, i) # 0 THEN IF ch(s, i) = c THEN i ELSE StrchrFrom(s, c, i + 1)
  ELSE IF c = 0 THEN i ELSE NULL
strchr(s, c) == StrchrFrom(s, c, 0)

RECURSIVE StrrchrFrom(_, _, _, _)
StrrchrFrom(s, c, i, last) ==
  IF ch(s, i) # 0 THEN StrrchrFrom(s, c, i + 1, IF ch(s, i) = c THEN i ELSE last)
  ELSE IF c = 0 THEN i ELSE last
strrchr(s, c) == StrrchrFrom(s, c, 0, NULL)

\* Mutant: the inner loop compares the first byte only.
MatchFirstOnly(hay, needle, h, n) ==
  IF ch(hay, h) # 0 /\ ch(hay, h) = ch(needle, n) THEN Len(needle) ELSE n

\* The inner loop of strstr: how far needle matches haystack from h.
RECURSIVE MatchFrom(_, _, _, _)
MatchFrom(hay, needle, h, n) ==
  IF ch(hay, h) # 0 /\ ch(needle, n) # 0 /\ ch(hay, h) = ch(needle, n)
  THEN MatchFrom(hay, needle, h + 1, n + 1) ELSE n

RECURSIVE StrstrFrom(_, _, _)
StrstrFrom(hay, needle, h) ==
  IF ch(hay, h) = 0 THEN NULL
  ELSE IF ch(needle, MatchFrom(hay, needle, h, 0)) = 0 THEN h
  ELSE StrstrFrom(hay, needle, h + 1)
strstr(hay, needle) == IF ch(needle, 0) = 0 THEN 0 ELSE StrstrFrom(hay, needle, 0)

RECURSIVE StrpbrkFrom(_, _, _)
StrpbrkFrom(s, accept, i) ==
  IF ch(s, i) = 0 THEN NULL
  ELSE IF strchr(accept, ch(s, i)) # NULL THEN i
  ELSE StrpbrkFrom(s, accept, i + 1)
strpbrk(s, accept) == StrpbrkFrom(s, accept, 0)

RECURSIVE SpanFrom(_, _, _, _)
SpanFrom(s, set, i, in) ==
  IF ch(s, i) # 0 /\ (strchr(set, ch(s, i)) # NULL) = in THEN SpanFrom(s, set, i + 1, in) ELSE i
strspn(s, accept) == SpanFrom(s, accept, 0, TRUE)
strcspn(s, reject) == SpanFrom(s, reject, 0, FALSE)

(***************************************************************************)
(* strtok_r over a writable array m.  str and the result are indices into  *)
(* m, or NULL; save is *saveptr.                                           *)
(***************************************************************************)
\* Mutant: the delimiter after the token is not overwritten.
TokenEndKept(m, e) == m

TokenEnd(m, e) == [m EXCEPT ![e + 1] = 0]

strtok_r(m, str, delim, save) ==
  LET p0 == IF str # NULL THEN str ELSE save
      p1 == p0 + strspn(CStrAt(m, p0), delim)
      e  == p1 + strcspn(CStrAt(m, p1), delim)
  IN  CASE p0 = NULL     -> [mem |-> m, save |-> p0, tok |-> NULL]
        [] m[p1 + 1] = 0 -> [mem |-> m, save |-> NULL, tok |-> NULL]
        [] m[e + 1] # 0  -> [mem |-> TokenEnd(m, e), save |-> e + 1, tok |-> p1]
        [] OTHER         -> [mem |-> m, save |-> NULL, tok |-> p1]

(***************************************************************************)
(* strtoul and strtol.  Digits past a string's value range are not given:  *)
(* result * base + digit never wraps in the inputs.                        *)
(***************************************************************************)
DigitValue(c) ==
  IF isdigit(c) THEN c - 48 ELSE IF isalpha(c) THEN tolower(c) - 97 + 10 ELSE -1

RECURSIVE SkipSpace(_, _)
SkipSpace(s, p) == IF isspace(ch(s, p)) THEN SkipSpace(s, p + 1) ELSE p

RECURSIVE DigitsFrom(_, _, _, _)
DigitsFrom(s, p, base, acc) ==
  LET d == DigitValue(ch(s, p)) IN
  IF ch(s, p) = 0 \/ d < 0 \/ d >= base THEN [val |-> acc, end |-> p]
  ELSE DigitsFrom(s, p + 1, base, acc * base + d)

\* One sign is skipped and ignored; base 0 picks 16, 8 or 10 from a prefix.
strtoul(s, p0, base) ==
  LET p1  == SkipSpace(s, p0)
      p   == IF ch(s, p1) \in {43, 45} THEN p1 + 1 ELSE p1
      hex == ch(s, p) = 48 /\ tolower(ch(s, p + 1)) = 120
  IN  CASE base = 0 /\ hex            -> DigitsFrom(s, p + 2, 16, 0)
        [] base = 0 /\ ch(s, p) = 48  -> DigitsFrom(s, p + 1, 8, 0)
        [] base = 0                   -> DigitsFrom(s, p, 10, 0)
        [] base = 16 /\ hex           -> DigitsFrom(s, p + 2, 16, 0)
        [] OTHER                      -> DigitsFrom(s, p, base, 0)

\* strtol skips blanks and one sign, then hands the rest to strtoul.
strtol(s, base) ==
  LET p1  == SkipSpace(s, 0)
      neg == ch(s, p1) = 45
      r   == strtoul(s, IF neg \/ ch(s, p1) = 43 THEN p1 + 1 ELSE p1, base)
  IN  [r EXCEPT !.val = IF neg THEN -@ ELSE @]

(***************************************************************************)
(* Trimming in a writable array m, from index p.                           *)
(***************************************************************************)
RECURSIVE strltrim(_, _)
strltrim(m, p) == IF m[p + 1] # 0 /\ isspace(m[p + 1]) THEN strltrim(m, p + 1) ELSE p

RECURSIVE TrimEnd(_, _, _)
TrimEnd(m, p, e) == IF e > p /\ isspace(m[e + 1]) THEN TrimEnd(m, p, e - 1) ELSE e

\* Mutant: the NUL stored over the last kept byte.
StrrtrimShort(m, p) ==
  LET len == Len(CStrAt(m, p)) IN
  IF len = 0 THEN m ELSE [m EXCEPT ![TrimEnd(m, p, p + len - 1) + 1] = 0]

\* strrtrim: *(end + 1) = '\0' after the last byte that is not a blank, or
\* after str[0] whatever it is.
strrtrim(m, p) ==
  LET len == Len(CStrAt(m, p)) IN
  IF len = 0 THEN m ELSE [m EXCEPT ![TrimEnd(m, p, p + len - 1) + 2] = 0]

\* strtrim: the array after strrtrim, and the pointer strltrim returned.
strtrim(m, p) == [mem |-> strrtrim(m, strltrim(m, p)), at |-> strltrim(m, p)]

(***************************************************************************)
(* strdup and strndup: kmalloc of this build (stubs.c) returns NULL, so    *)
(* both return NULL without copying.                                       *)
(***************************************************************************)
kmalloc(size) == NULL

strdup(s) == kmalloc(Len(s) + 1)

strndup(s, n) == kmalloc(strnlen(s, n) + 1)

=============================================================================
