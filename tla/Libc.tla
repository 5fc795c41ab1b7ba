-------------------------------- MODULE Libc --------------------------------
(***************************************************************************)
(* The libc of string.c, stdlib.c, stdio.c, time.c and ctype.c, called by *)
(* a test driver.                                                         *)
(* The state t is one call's arguments, or one caller's session with a     *)
(* stateful call: a strtok_r tokenisation of one array, or the rand_seed   *)
(* of rand and srand.  A step either starts a new case, drawn from the     *)
(* small input sets below, or makes the next call of the session.  The     *)
(* properties compare each result with a reference definition.            *)
(***************************************************************************)
EXTENDS LibcTime, GuiDraw, FiniteSets

CONSTANTS
  CmpBytes,    \* bytes of the compared and searched strings
  CopyBytes,   \* bytes of the copied strings
  TokBytes,    \* bytes of the tokenised strings
  Delims,      \* delimiter strings of strtok_r
  TrimBytes,   \* bytes of the trimmed strings
  SortVals,    \* element values of the sorted arrays
  IntVals,     \* int values converted to text and back
  Bases,       \* bases of the conversions
  Seeds,       \* arguments of srand
  MaxLen,      \* longest string or array argument
  MaxCap,      \* largest destination array
  MaxRand,     \* rand calls in one session
  Formats,     \* snprintf formats
  FmtInts,     \* arguments of %d
  FmtUints,    \* arguments of %u and %x
  FmtStrs,     \* non-NULL arguments of %s
  FmtPtrs,     \* arguments of %p, <<high word, low word>>
  MaxFmt,      \* largest snprintf size
  Times,       \* time_t values given to gmtime
  LineCoords,  \* coordinates of framebuffer_draw_line's end points
  FbWidth,     \* the drawn framebuffer's width
  FbHeight     \* and height

VARIABLE t

Strs(A, k) == UNION {[1 .. j -> A] : j \in 0 .. k}

Zeros(n) == [j \in 1 .. n |-> 0]

\* The array memmove works in: four distinct bytes.
MoveArray == <<97, 98, 65, 32>>

CmpCases == [kind : {"cmp"}, a : Strs(CmpBytes, MaxLen), b : Strs(CmpBytes, MaxLen - 1),
             n : 0 .. MaxLen]

CopyCases ==
  {c \in [kind : {"copy"}, dst : Strs(CopyBytes, MaxCap - 1), cap : 1 .. MaxCap,
          src : Strs(CopyBytes, MaxLen), size : 0 .. MaxCap] :
     Len(c.dst) < c.cap /\ c.size <= c.cap}

MoveCases ==
  {c \in [kind : {"move"}, d : 0 .. 3, s : 0 .. 3, n : 0 .. 4] :
     c.d + c.n <= 4 /\ c.s + c.n <= 4}

\* A tokenisation before its first call: strtok_r(str, delim, &save).
TokStart(o, d) ==
  [kind |-> "tok", orig |-> o, delim |-> d, mem |-> o \o <<0>>, save |-> NULL,
   first |-> TRUE, toks |-> <<>>, nulls |-> 0]

TokCases == {TokStart(o, d) : o \in Strs(TokBytes, MaxLen + 1), d \in Delims}

TrimCases == [kind : {"trim"}, s : Strs(TrimBytes, MaxLen + 1)]

SortCases == [kind : {"sort"}, a : Strs(SortVals, MaxLen + 1), key : SortVals \cup {0}]

IntCases == [kind : {"int"}, v : IntVals, b : Bases]

\* A session of rand calls from the boot value rand_seed = 1.
RandBoot == [kind |-> "rand", seed |-> <<0, 1>>, n |-> 0, val |-> 0]

\* The conversion characters of a format, from index i, that take an argument.
RECURSIVE Conversions(_, _)
Conversions(f, i) ==
  IF i >= Len(f) THEN <<>>
  ELSE IF f[i] = PCT
  THEN (IF f[i + 1] = PCT THEN <<>> ELSE <<f[i + 1]>>) \o Conversions(f, i + 2)
  ELSE Conversions(f, i + 1)

ArgsOf(c) ==
  CASE c \in {CH_d, CH_i} -> FmtInts
    [] c \in {CH_u, CH_x} -> FmtUints
    [] c = CH_s           -> FmtStrs \cup {NullPtr}
    [] c = CH_p           -> FmtPtrs
    [] c = CH_c           -> {97}

\* The argument lists that fit the conversions cs.
RECURSIVE ArgLists(_)
ArgLists(cs) ==
  IF cs = <<>> THEN {<<>>}
  ELSE {<<x>> \o r : x \in ArgsOf(Head(cs)), r \in ArgLists(Tail(cs))}

FmtCases ==
  UNION {[kind : {"fmt"}, fmt : {f}, args : ArgLists(Conversions(f, 1)), size : 1 .. MaxFmt] : f \in Formats}

TimeCases == [kind : {"time"}, secs : Times]

\* A framebuffer as framebuffer_create leaves it, with or without a back
\* buffer (NULL when single buffered).
NewFb(dbl) ==
  [width |-> FbWidth, height |-> FbHeight, double_buffered |-> dbl,
   pixels |-> ZeroBuffer(FbWidth, FbHeight),
   back_buffer |-> IF dbl THEN ZeroBuffer(FbWidth, FbHeight) ELSE NullPtr]

LineCases ==
  [kind : {"line"}, x1 : LineCoords, y1 : LineCoords, x2 : LineCoords, y2 : LineCoords,
   fb : {NewFb(TRUE), NewFb(FALSE)}]

Cases ==
  CmpCases \cup CopyCases \cup MoveCases \cup TokCases \cup TrimCases \cup SortCases
    \cup IntCases \cup FmtCases \cup TimeCases \cup LineCases
    \cup {RandBoot}

(***************************************************************************)
(* Actions.                                                                *)
(***************************************************************************)
\* A new caller, with new arguments.
NewCase == \E c \in Cases : t' = c

\* The next strtok_r call: the array first, NULL afterwards.  A caller
\* stops after the second NULL result.
StrtokCall ==
  /\ t.kind = "tok"
  /\ t.nulls < 2
  /\ LET r == strtok_r(t.mem, IF t.first THEN 0 ELSE NULL, t.delim, t.save) IN
     t' = [t EXCEPT !.mem = r.mem, !.save = r.save, !.first = FALSE,
                    !.toks = IF r.tok = NULL THEN @ ELSE Append(@, r.tok),
                    !.nulls = IF r.tok = NULL THEN @ + 1 ELSE @]

RandCall ==
  /\ t.kind = "rand"
  /\ t.n < MaxRand
  /\ LET r == rand(t.seed) IN
     t' = [t EXCEPT !.seed = r.seed, !.val = r.val, !.n = @ + 1]

SrandCall(s) ==
  /\ t.kind = "rand"
  /\ t' = [t EXCEPT !.seed = srand(s)]

Init == t = RandBoot

Next == NewCase \/ StrtokCall \/ RandCall \/ \E s \in Seeds : SrandCall(s)

Spec == Init /\ [][Next]_t

(***************************************************************************)
(* Reference definitions.                                                  *)
(***************************************************************************)
\* -1, 0 or 1 for x before, equal to or after y in dictionary order.
LexLess(x, y) ==
  \E i \in 0 .. Len(x) :
    /\ i < Len(y)
    /\ SubSeq(x, 1, i) = SubSeq(y, 1, i)
    /\ i = Len(x) \/ x[i + 1] < y[i + 1]
LexOrder(x, y) == IF x = y THEN 0 ELSE IF LexLess(x, y) THEN -1 ELSE 1

Sgn(k) == IF k < 0 THEN -1 ELSE IF k = 0 THEN 0 ELSE 1

Upto(x, n) == SubSeq(x, 1, IF n < Len(x) THEN n ELSE Len(x))

Padded(x, n) == [j \in 1 .. n |-> IF j <= Len(x) THEN x[j] ELSE 0]

Lower(x) == [j \in DOMAIN x |-> IF x[j] \in 65 .. 90 THEN x[j] + 32 ELSE x[j]]

FirstIn(I) == IF I = {} THEN NULL ELSE Min(I)
LastIn(I) == IF I = {} THEN NULL ELSE Max(I)

At(s, c) == {i \in 0 .. Len(s) - 1 : s[i + 1] = c}

Occurrences(h, n) == {i \in 0 .. Len(h) - Len(n) : SubSeq(h, i + 1, i + Len(n)) = n}

Span(s, S, in) == Max({k \in 0 .. Len(s) : \A j \in 1 .. k : (s[j] \in S) = in})

\* The fields of s: its maximal runs of bytes outside D, in order.
Fields(s, D) ==
  LET starts == {i \in 1 .. Len(s) : s[i] \notin D /\ (i = 1 \/ s[i - 1] \in D)}
      first  == SetToSortSeq(starts, <)
      end(b) == CHOOSE e \in b .. Len(s) :
                  (\A k \in b .. e : s[k] \notin D) /\ (e = Len(s) \/ s[e + 1] \in D)
  IN  [j \in 1 .. Len(first) |-> SubSeq(s, first[j], end(first[j]))]

Blanks == {9, 10, 11, 12, 13, 32}

Trimmed(s) ==
  LET keep == {i \in 1 .. Len(s) : s[i] \notin Blanks}
  IN  IF keep = {} THEN <<>> ELSE SubSeq(s, Min(keep), Max(keep))

\* Days from 1970-01-01 to year y, month m (1-12), day d of the proleptic
\* Gregorian calendar, counted in 400-year eras from 0000-03-01.
DaysFromCivil(y, m, d) ==
  LET yy  == IF m <= 2 THEN y - 1 ELSE y
      era == yy \div 400
      yoe == yy - era * 400
      doy == (153 * (IF m > 2 THEN m - 3 ELSE m + 9) + 2) \div 5 + d - 1
      doe == yoe * 365 + yoe \div 4 - yoe \div 100 + doy
  IN  era * 146097 + doe - 719468

MonthLength(y, m) ==
  IF m = 12 THEN DaysFromCivil(y + 1, 1, 1) - DaysFromCivil(y, 12, 1)
  ELSE DaysFromCivil(y, m + 1, 1) - DaysFromCivil(y, m, 1)

(***************************************************************************)
(* Properties.                                                             *)
(***************************************************************************)
\* strcmp, strncmp, strcasecmp and memcmp order their arguments as
\* dictionary order on unsigned bytes (on the first n, or ignoring case),
\* and startswith and endswith agree with prefix and suffix.
CompareOrder ==
  t.kind = "cmp" =>
    /\ Sgn(strcmp(t.a, t.b)) = LexOrder(t.a, t.b)
    /\ Sgn(strncmp(t.a, t.b, t.n)) = LexOrder(Upto(t.a, t.n), Upto(t.b, t.n))
    /\ Sgn(strcasecmp(t.a, t.b)) = LexOrder(Lower(t.a), Lower(t.b))
    /\ Sgn(memcmp(t.a, t.b, t.n)) = LexOrder(Padded(t.a, t.n), Padded(t.b, t.n))
    /\ startswith(t.a, t.b) = IsPrefix(t.b, t.a)
    /\ endswith(t.a, t.b) = IsSuffix(t.b, t.a)

\* The search functions return the first (strrchr: the last) match: strchr,
\* strrchr and memchr of a byte, strchr of NUL (the terminator), strstr of a
\* substring, strpbrk of any byte of a set, and strspn and strcspn the
\* length of the prefix inside (outside) the set.
SearchFindsFirst ==
  t.kind = "cmp" =>
    /\ \A c \in CmpBytes :
         /\ strchr(t.a, c) = FirstIn(At(t.a, c))
         /\ strrchr(t.a, c) = LastIn(At(t.a, c))
         /\ memchr(t.a, c, Len(t.a)) = FirstIn(At(t.a, c))
    /\ strchr(t.a, 0) = Len(t.a) /\ strrchr(t.a, 0) = Len(t.a)
    /\ strstr(t.a, t.b) = FirstIn(Occurrences(t.a, t.b))
    /\ strpbrk(t.a, t.b) = FirstIn({i \in 0 .. Len(t.a) - 1 : t.a[i + 1] \in ToSet(t.b)})
    /\ strspn(t.a, t.b) = Span(t.a, ToSet(t.b), TRUE)
    /\ strcspn(t.a, t.b) = Span(t.a, ToSet(t.b), FALSE)

\* Copies into an array of cap bytes holding dst stay inside it when the
\* caller passes the array's size: strlcpy and strlcat (size <= cap) keep
\* BSD's result and return value; strcat when dst and src fit; strncat with
\* n bytes of room after dst; strncpy(dst, src, cap - 1) into a zeroed array,
\* the pattern of jarfs.c and jarvis_gui.c, leaves a terminated prefix.
BoundedCopies ==
  t.kind = "copy" =>
    LET arr  == [mem |-> t.dst \o Zeros(t.cap - Len(t.dst)), over |-> {}]
        dlen == Len(t.dst)
        l    == strlcpy(arr, 0, t.src, t.size)
        c    == strlcat(arr, t.src, t.size)
        k    == strncpy([mem |-> Zeros(t.cap), over |-> {}], t.src, t.cap - 1)
        n    == t.cap - dlen - 1
        nc   == strncat(arr, t.src, n)
    IN  /\ l.buf.over = {} /\ l.ret = Len(t.src)
        /\ t.size > 0 => CStrAt(l.buf.mem, 0) = Upto(t.src, t.size - 1)
        /\ c.buf.over = {}
        /\ dlen < t.size => /\ c.ret = dlen + Len(t.src)
                            /\ CStrAt(c.buf.mem, 0) = Upto(t.dst \o t.src, t.size - 1)
        /\ dlen >= t.size => c.ret = t.size + Len(t.src) /\ c.buf = arr
        /\ dlen + Len(t.src) < t.cap =>
             LET sc == strcat(arr, t.src) IN sc.over = {} /\ CStrAt(sc.mem, 0) = t.dst \o t.src
        /\ nc.over = {} /\ CStrAt(nc.mem, 0) = t.dst \o Upto(t.src, n)
        /\ k.over = {} /\ CStrAt(k.mem, 0) = Upto(t.src, t.cap - 1)

\* memmove of n bytes from s to d inside one array leaves at d what was at
\* s before the call, whichever way the two ranges overlap, and changes
\* nothing else.
MemmoveCopies ==
  t.kind = "move" =>
    LET r == memmove([mem |-> MoveArray, over |-> {}], t.d, t.s, t.n) IN
    /\ r.over = {}
    /\ \A j \in 0 .. 3 :
         r.mem[j + 1] = IF j >= t.d /\ j < t.d + t.n THEN MoveArray[t.s + j - t.d + 1]
                        ELSE MoveArray[j + 1]

\* Over a session of strtok_r calls, the tokens returned are the fields of
\* the original string in order, each still readable as its field after
\* the later calls, and all of them once strtok_r has returned NULL.
StrtokSplits ==
  t.kind = "tok" =>
    LET F == Fields(t.orig, ToSet(t.delim)) IN
    /\ Len(t.toks) <= Len(F)
    /\ \A i \in 1 .. Len(t.toks) : CStrAt(t.mem, t.toks[i]) = F[i]
    /\ t.nulls > 0 => Len(t.toks) = Len(F)

\* strtrim returns the string without its leading and trailing blanks.
TrimTrims ==
  t.kind = "trim" =>
    LET r == strtrim(t.s \o <<0>>, 0) IN CStrAt(r.mem, r.at) = Trimmed(t.s)

\* qsort returns the array's elements, each as often as before, in order.
QsortSorts ==
  t.kind = "sort" =>
    LET r == qsort(t.a) IN IsSorted(r, <=) /\ ToBag(r) = ToBag(t.a)

\* bsearch on a sorted array returns an index holding key, and NULL only
\* when no element equals key.
BsearchFinds ==
  t.kind = "sort" =>
    LET a == SetToSortSeq(ToSet(t.a), <)
        r == bsearch(t.key, a)
    IN  IF r = NULL THEN t.key \notin ToSet(a) ELSE a[r + 1] = t.key

\* Text from itoa in base 10 reads back as the same int through atoi and
\* strtol, and text from utoa in any base through strtoul in that base or
\* with base 0 given the prefix (0, 0x) that names the base.
ItoaRoundTrip ==
  t.kind = "int" =>
    /\ atoi(itoa(t.v, 10)) = t.v
    /\ strtol(itoa(t.v, 10), 10).val = t.v
    /\ t.v >= 0 =>
         LET u == utoa(t.v, t.b) IN
         /\ strtoul(u, 0, t.b) = [val |-> t.v, end |-> Len(u)]
         /\ t.b = 10 /\ u[1] # 48 => strtoul(u, 0, 0).val = t.v
         /\ t.b = 8 => strtoul(<<48>> \o u, 0, 0).val = t.v
         /\ t.b = 16 => /\ strtoul(<<48, 120>> \o u, 0, 0).val = t.v
                        /\ strtoul(<<48, 88>> \o u, 0, 16).val = t.v

\* snprintf into an array of size bytes never stores past it, and leaves
\* there the first size - 1 bytes of what printf prints, terminated; it
\* returns the number of bytes before the NUL.  sprintf into an array with
\* room for the whole text leaves all of it.
SnprintfBounded ==
  t.kind = "fmt" =>
    LET ref == RefPrintf(t.fmt, t.args)
        r   == snprintf([mem |-> Zeros(t.size), over |-> {}], 0, t.size, t.fmt, t.args)
        w   == sprintf([mem |-> Zeros(Len(ref) + 1), over |-> {}], 0, t.fmt, t.args)
    IN  /\ r.buf.over = {}
        /\ CStrAt(r.buf.mem, 0) = Upto(ref, t.size - 1)
        /\ r.ret = Len(CStrAt(r.buf.mem, 0))
        /\ w.buf.over = {} /\ CStrAt(w.buf.mem, 0) = ref

\* gmtime gives the calendar date, time of day, weekday and day of the year
\* of a time_t, and mktime of that struct tm gives the time_t back.
GmtimeCivil ==
  t.kind = "time" =>
    LET tm   == gmtime(t.secs)
        days == t.secs \div 86400
        y    == tm.year + 1900
    IN  /\ tm.mon \in 0 .. 11 /\ tm.mday \in 1 .. MonthLength(y, tm.mon + 1)
        /\ DaysFromCivil(y, tm.mon + 1, tm.mday) = days
        /\ tm.yday = days - DaysFromCivil(y, 1, 1)
        /\ tm.hour * 3600 + tm.min * 60 + tm.sec = t.secs % 86400
        /\ tm.hour < 24 /\ tm.min < 60 /\ tm.sec < 60
        /\ tm.wday = (days + 4) % 7
        /\ mktime(tm) = t.secs

\* asctime formats into its static 26-byte buffer without storing past it,
\* whatever the date, and the text it returns ends at a NUL inside it.
AsctimeBounded ==
  t.kind = "time" =>
    LET r == asctime([mem |-> Zeros(26), over |-> {}], gmtime(t.secs)) IN
    r.buf.over = {} /\ r.ret < 26 /\ r.buf.mem[r.ret + 1] = 0

(***************************************************************************)
(* What wm_render's sequence shows: framebuffer_clear to a background,    *)
(* framebuffer_draw_line, framebuffer_present.  The line starts and ends   *)
(* at its end points, puts one pixel in each column or row along the      *)
(* longer axis, steps to a neighbour towards the end each time, and keeps  *)
(* every pixel within half a pixel of the true line along the shorter     *)
(* axis.  The screen changes only at present when there is a back buffer, *)
(* and then shows exactly the line's on-screen pixels over the background.*)
(***************************************************************************)
DrawLineTraces ==
  t.kind = "line" =>
    LET pts   == DrawnPoints(t.x1, t.y1, t.x2, t.y2)
        ax    == t.x2 - t.x1
        ay    == t.y2 - t.y1
        major == IF abs(ax) >= abs(ay) THEN abs(ax) ELSE abs(ay)
        fb1   == framebuffer_draw_line(framebuffer_clear(t.fb, 2), t.x1, t.y1, t.x2, t.y2, 1)
        shown == {q \in ToSet(pts) : q[1] \in 0 .. FbWidth - 1 /\ q[2] \in 0 .. FbHeight - 1}
        want  == [i \in 0 .. FbWidth * FbHeight - 1 |->
                    IF <<i % FbWidth, i \div FbWidth>> \in shown THEN 1 ELSE 2]
    IN  /\ pts[1] = <<t.x1, t.y1>> /\ Last(pts) = <<t.x2, t.y2>>
        /\ Len(pts) = major + 1
        /\ \A i \in 1 .. Len(pts) - 1 :
              /\ pts[i + 1][1] - pts[i][1] \in {0, Sgn(ax)}
              /\ pts[i + 1][2] - pts[i][2] \in {0, Sgn(ay)}
        /\ \A q \in ToSet(pts) : 2 * abs((q[1] - t.x1) * ay - (q[2] - t.y1) * ax) <= major
        /\ t.fb.double_buffered => fb1.pixels = t.fb.pixels
        /\ framebuffer_present(fb1).pixels = want

=============================================================================
