------------------------------ MODULE LibcTime ------------------------------
(***************************************************************************)
(* time.c: the calendar conversions gmtime and mktime, and strftime and    *)
(* asctime, which format through stdio.c's snprintf.  A struct tm is a     *)
(* record of its fields.  time_t values stay inside TLC's integers (up to  *)
(* 2^31 - 1, 2038-01-19).  A day or month name is a string of its length:  *)
(* only the lengths decide where the text is cut.                          *)
(***************************************************************************)
EXTENDS LibcStdio

days_in_month == <<31, 28, 31, 30, 31, 30, 31, 31, 30, 31, 30, 31>>

Name(len) == [j \in 1 .. len |-> 65]

month_names == [m \in 0 .. 11 |-> Name(<<7, 8, 5, 5, 3, 4, 4, 6, 9, 7, 8, 8>>[m + 1])]
month_abbr == [m \in 0 .. 11 |-> Name(3)]
day_names == [d \in 0 .. 6 |-> Name(<<6, 6, 7, 9, 8, 6, 8>>[d + 1])]
day_abbr == [d \in 0 .. 6 |-> Name(3)]

\* Mutant: the Gregorian rule without its 400-year exception.
LeapJulianCentury(year) == year % 4 = 0 /\ year % 100 # 0

is_leap_year(year) == (year % 4 = 0 /\ year % 100 # 0) \/ year % 400 = 0

YearDays(year) == IF is_leap_year(year) THEN 366 ELSE 365

get_days_in_month(month, year) ==
  IF month = 1 /\ is_leap_year(year) THEN 29 ELSE days_in_month[month + 1]

\* time() returns the fixed 2024-01-01 00:00:00 UTC.
time == 1704067200

(***************************************************************************)
(* mktime: validate, then count days year by year and month by month.      *)
(***************************************************************************)
RECURSIVE DaysBefore(_, _, _)
DaysBefore(y, year, acc) == IF y >= year THEN acc ELSE DaysBefore(y + 1, year, acc + YearDays(y))

RECURSIVE MonthDaysBefore(_, _, _, _)
MonthDaysBefore(m, month, year, acc) ==
  IF m >= month THEN acc ELSE MonthDaysBefore(m + 1, month, year, acc + get_days_in_month(m, year))

mktime(tm) ==
  LET year == tm.year + 1900
      days == DaysBefore(1970, year, 0) + MonthDaysBefore(0, tm.mon, year, 0) + tm.mday - 1
  IN  IF \/ tm.mon < 0 \/ tm.mon > 11
         \/ tm.mday < 1 \/ tm.mday > get_days_in_month(tm.mon, year)
         \/ tm.hour < 0 \/ tm.hour > 23
         \/ tm.min < 0 \/ tm.min > 59
         \/ tm.sec < 0 \/ tm.sec > 60
      THEN -1
      ELSE days * 86400 + tm.hour * 3600 + tm.min * 60 + tm.sec

(***************************************************************************)
(* gmtime: seconds, minutes and hours by C's / and %, then whole years     *)
(* and whole months off the day count.  It fills the static current_tm.    *)
(***************************************************************************)
RECURSIVE YearOf(_, _)
YearOf(days, year) ==
  IF days >= YearDays(year) THEN YearOf(days - YearDays(year), year + 1)
  ELSE [days |-> days, year |-> year]

RECURSIVE MonthOf(_, _, _)
MonthOf(days, month, year) ==
  IF days >= get_days_in_month(month, year)
  THEN MonthOf(days - get_days_in_month(month, year), month + 1, year)
  ELSE [days |-> days, month |-> month]

gmtime(timep) ==
  LET t  == CDiv(CDiv(CDiv(timep, 60), 60), 24)
      y  == YearOf(t, 1970)
      mo == MonthOf(y.days, 0, y.year)
  IN  [sec |-> CRem(timep, 60), min |-> CRem(CDiv(timep, 60), 60),
       hour |-> CRem(CDiv(CDiv(timep, 60), 60), 24),
       year |-> y.year - 1900, yday |-> y.days, mon |-> mo.month, mday |-> mo.days + 1,
       wday |-> CRem(4 + t, 7), isdst |-> -1]

localtime(timep) == gmtime(timep)

(***************************************************************************)
(* strftime.  The loop's state is [buf, count]; s is index 0 of buf.       *)
(***************************************************************************)
\* The snprintf format and argument of each conversion that calls it.
Fmt02d == <<PCT, ZERO, 50, CH_d>>   \* "%02d"
FmtS == <<PCT, CH_s>>
FmtD == <<PCT, CH_d>>

Field(c, tm) ==
  CASE c = 97  -> [fmt |-> FmtS, arg |-> day_abbr[tm.wday]]       \* a
    [] c = 65  -> [fmt |-> FmtS, arg |-> day_names[tm.wday]]      \* A
    [] c = 98  -> [fmt |-> FmtS, arg |-> month_abbr[tm.mon]]      \* b
    [] c = 66  -> [fmt |-> FmtS, arg |-> month_names[tm.mon]]     \* B
    [] c = 100 -> [fmt |-> Fmt02d, arg |-> tm.mday]               \* d
    [] c = 72  -> [fmt |-> Fmt02d, arg |-> tm.hour]               \* H
    [] c = 73  -> [fmt |-> Fmt02d, arg |-> IF tm.hour % 12 = 0 THEN 12 ELSE tm.hour % 12]
    [] c = 109 -> [fmt |-> Fmt02d, arg |-> tm.mon + 1]            \* m
    [] c = 77  -> [fmt |-> Fmt02d, arg |-> tm.min]                \* M
    [] c = 112 -> [fmt |-> FmtS, arg |-> Name(2)]                 \* p: "AM" or "PM"
    [] c = 83  -> [fmt |-> Fmt02d, arg |-> tm.sec]                \* S
    [] c = 119 -> [fmt |-> FmtD, arg |-> tm.wday]                 \* w
    [] c = 121 -> [fmt |-> Fmt02d, arg |-> tm.year % 100]         \* y
    [] c = 89  -> [fmt |-> FmtD, arg |-> tm.year + 1900]          \* Y

FieldConvs == {97, 65, 98, 66, 100, 72, 73, 109, 77, 112, 83, 119, 121, 89}

\* Mutant: the loop test count < max.
RoomPastEnd(count, max) == count < max

\* while (*format && count < max - 1)
Room(count, max) == count < max - 1

\* One conversion: snprintf(s + count, max - count, ...) and count += n,
\* or '%' and the default case, which count their bytes again after
\* storing them with s[count++].
Conversion(st, c, tm, max) ==
  IF c \in FieldConvs
  THEN LET r == snprintf(st.buf, st.count, max - st.count, Field(c, tm).fmt, <<Field(c, tm).arg>>)
       IN  [buf |-> r.buf, count |-> st.count + (IF r.ret > 0 THEN r.ret ELSE 0)]
  ELSE IF c = PCT
  THEN [buf |-> Poke(st.buf, st.count, PCT), count |-> st.count + 1 + 1]
  ELSE LET k == st.count + 1
           b == Poke(st.buf, st.count, PCT)
       IN  IF Room(k, max) THEN [buf |-> Poke(b, k, c), count |-> k + 1 + 2]
           ELSE [buf |-> b, count |-> k + 2]

RECURSIVE StrftimeFrom(_, _, _, _, _)
StrftimeFrom(st, fmt, i, tm, max) ==
  IF i > Len(fmt) \/ ~Room(st.count, max) THEN st
  ELSE IF fmt[i] = PCT /\ i < Len(fmt)
  THEN StrftimeFrom(Conversion(st, fmt[i + 1], tm, max), fmt, i + 2, tm, max)
  ELSE StrftimeFrom([buf |-> Poke(st.buf, st.count, fmt[i]), count |-> st.count + 1],
                    fmt, i + 1, tm, max)

strftime(s, max, fmt, tm) ==
  IF max = 0 THEN [buf |-> s, ret |-> 0]
  ELSE LET r == StrftimeFrom([buf |-> s, count |-> 0], fmt, 1, tm, max)
       IN  [buf |-> Poke(r.buf, r.count, 0), ret |-> r.count]

\* "%a %b %d %H:%M:%S %Y\n"
AsctimeFormat == <<PCT, 97, SP, PCT, 98, SP, PCT, 100, SP, PCT, 72, 58, PCT, 77, 58,
                   PCT, 83, SP, PCT, 89, 10>>

\* asctime formats into its static char buf[26].
asctime(buf, tm) == strftime(buf, 26, AsctimeFormat, tm)

ctime(buf, timep) == asctime(buf, localtime(timep))

=============================================================================
