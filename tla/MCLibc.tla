------------------------------- MODULE MCLibc -------------------------------
(***************************************************************************)
(* Strings of up to three bytes (four for the tokenised, trimmed and      *)
(* sorted ones): enough for a match that fails on its second byte, a field *)
(* between two delimiters, and a three-way partition.  Upper and lower     *)
(* case letters and a blank tell the comparisons apart.                    *)
(***************************************************************************)
EXTENDS Libc

MCCmpBytes == {32, 65, 97, 98}      \* ' ' 'A' 'a' 'b'
MCCopyBytes == {97, 98}
MCTokBytes == {32, 44, 97}          \* ' ' ',' 'a'
MCDelims == {<<32>>, <<32, 44>>}
MCTrimBytes == {9, 32, 97}          \* '\t' ' ' 'a'
MCSortVals == {1, 2, 3}
\* Around zero, both sides of a digit boundary, and the int extremes that
\* itoa can negate.
MCIntVals == (-12 .. 12) \cup {-100, 99, 100, 255, 256, 2147483647, -2147483647}
MCBases == {2, 8, 10, 16, 36}
MCSeeds == {0, 12345, 2147483647}
\* Formats of the kernel's kind: a conversion alone, between text, two in a
\* row, and after a "%%".
MCFormats == {<<37, 100>>,                  \* "%d"
              <<120, 61, 37, 120, 59>>,     \* "x=%x;"
              <<37, 115, 37, 99>>,          \* "%s%c"
              <<37, 37, 37, 117>>,          \* "%%%u"
              <<37, 112>>}                  \* "%p"
MCFmtInts == {-2147483647, -5, 0, 42}
MCFmtUints == {0, 255, 2147483647}
MCFmtStrs == {<<>>, <<97, 98>>}
\* 0x1000, and 0x10000000ff with a non-zero high word.
MCFmtPtrs == {<<0, 4096>>, <<16, 255>>}
\* The epoch and its last second, 1972-02-29 12:00, 1972-12-31, the last
\* second of 1999, 2000-02-29 and 2000-03-01 (the 400-year leap day),
\* time()'s 2024-01-01, and INT_MAX (2038-01-19 03:14:07).
MCTimes == {0, 86399, 68212800, 94608000, 946684799, 951782400, 951868800,
            1704067200, 2147483647}
\* End points one pixel off a 3 x 2 screen on every side, and on it: lines
\* of every octant, vertical, horizontal, single points and clipped ones.
MCLineCoords == -1 .. 3

=============================================================================
