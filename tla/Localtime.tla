----------------------------- MODULE Localtime -----------------------------
(***************************************************************************)
(* localtime.c and the calendar of strftime.c: zone descriptions are       *)
(* parsed or checked, times are taken apart into local time with leap      *)
(* seconds, and local time is searched for its time.  time_t is an integer *)
(* of TimeBits bits, int and long of IntBits; the calendar is the real     *)
(* one, the day is scaled down by the three constants.                     *)
(***************************************************************************)
EXTENDS Question, SequencesExt, FiniteSetsExt

CONSTANTS SECSPERMIN, MINSPERHOUR, HOURSPERDAY, TimeBits, IntBits,
          TZ_MAX_TIMES, TZ_MAX_TYPES, TZ_MAX_CHARS, TZ_MAX_LEAPS,
          Instants,     \* times asked about
          LeapTables,   \* tables of leap seconds
          ZoneStrings,  \* values of TZ, sequences of tokens
          ZoneBlocks,   \* contents of zone files
          BrokenDown    \* struct tm's given to mktime

EPOCH_YEAR == 1970
EPOCH_WDAY == 4
TM_YEAR_BASE == 1900
SECSPERHOUR == SECSPERMIN * MINSPERHOUR
SECSPERDAY == SECSPERHOUR * HOURSPERDAY

TIME_T_MAX == 2^(TimeBits - 1) - 1
TIME_T_MIN == -(2^(TimeBits - 1))
TimeT == TIME_T_MIN .. TIME_T_MAX
Int_ == -(2^(IntBits - 1)) .. 2^(IntBits - 1) - 1

\* No struct tm, no rule, no time.
NULL == <<>>

\* time_t arithmetic, wrapped.
Wrap(n) == ((n - TIME_T_MIN) % 2^TimeBits) + TIME_T_MIN

\* C's division and remainder.
Quot(a, b) == IF a >= 0 THEN a \div b ELSE -((-a) \div b)
Rem(a, b) == a - b * Quot(a, b)

isleap(y) == y % 4 = 0 /\ (y % 100 /= 0 \/ y % 400 = 0)

\* The truth value of a condition, as C counts it.
Truth(c) == IF c THEN 1 ELSE 0

mon_lengths(y) ==
  <<31, 28 + Truth(isleap(y)), 31, 30, 31, 30, 31, 31, 30, 31, 30, 31>>

year_lengths(y) == 365 + Truth(isleap(y))

leaps_thru_end_of(y) ==
  LET Upto(n) == n \div 4 - n \div 100 + n \div 400
  IN  IF y >= 0 THEN Upto(y) ELSE -(Upto(-(y + 1)) + 1)
-----------------------------------------------------------------------------
(* Zone strings.  A token is [kind, n]: a number ("num"), other letters    *)
(* ("NAME") or one of < > + - : , ; . / J M.  A parser returns a value and *)
(* what is left of the string, or NULL.                                    *)

Parsed(v, rest) == [v |-> v, rest |-> rest]

Is(s, c) == s /= <<>> /\ s[1].kind = c

getnum(s, min, max) ==
  IF s = <<>> THEN NULL
  ELSE IF s[1].kind /= "num" \/ s[1].n > max \/ s[1].n < min THEN NULL
       ELSE Parsed(s[1].n, Tail(s))

getsecs(s) ==
  LET h == getnum(s, 0, HOURSPERDAY * 7 - 1)
  IN  IF h = NULL THEN NULL
      ELSE IF ~ Is(h.rest, ":") THEN Parsed(h.v * SECSPERHOUR, h.rest)
      ELSE LET m == getnum(Tail(h.rest), 0, MINSPERHOUR - 1)
           IN  IF m = NULL THEN NULL
               ELSE LET hm == h.v * SECSPERHOUR + m.v * SECSPERMIN
                    IN  IF ~ Is(m.rest, ":") THEN Parsed(hm, m.rest)
                        ELSE LET c == getnum(Tail(m.rest), 0, SECSPERMIN)
                             IN  IF c = NULL THEN NULL
                                 ELSE Parsed(hm + c.v, c.rest)

getoffset(s) ==
  LET signed == Is(s, "-") \/ Is(s, "+")
      GivenN(n) ==
        IF n = NULL THEN NULL
        ELSE Parsed(IF Is(s, "-") THEN -n.v ELSE n.v, n.rest)
  IN  GivenN(getsecs(IF signed THEN Tail(s) ELSE s))

RECURSIVE SkipTo(_, _)
SkipTo(s, kinds) ==
  IF s = <<>> THEN s
  ELSE IF s[1].kind \in kinds THEN s ELSE SkipTo(Tail(s), kinds)

\* A plain name runs up to a digit, a comma or a sign.
getzname(s) == SkipTo(s, {"num", ",", "-", "+"})

\* A name in brackets.
getqzname(s) == SkipTo(s, {">"})

\* Either, as tzparse takes them: the rest of the string, or NULL.
ZoneName(s) ==
  IF ~ Is(s, "<") THEN Parsed("name", getzname(s))
  ELSE LET t == getqzname(Tail(s)) IN IF Is(t, ">") THEN Parsed("name", Tail(t)) ELSE NULL

\* The date of a rule.
RuleDate(s) ==
  IF Is(s, "J")
  THEN LET d == getnum(Tail(s), 1, 365)
       IN  IF d = NULL THEN NULL ELSE Parsed(<<"julian", d.v>>, d.rest)
  ELSE IF Is(s, "M")
  THEN LET m == getnum(Tail(s), 1, 12)
       IN  IF m = NULL THEN NULL
           ELSE IF ~ Is(m.rest, ".") THEN NULL
           ELSE LET w == getnum(Tail(m.rest), 1, 5)
                IN  IF w = NULL THEN NULL
                    ELSE IF ~ Is(w.rest, ".") THEN NULL
                    ELSE LET d == getnum(Tail(w.rest), 0, 6)
                         IN  IF d = NULL THEN NULL
                             ELSE Parsed(<<"month", m.v, w.v, d.v>>, d.rest)
  ELSE IF Is(s, "num")
  THEN LET d == getnum(s, 0, 365)
       IN  IF d = NULL THEN NULL ELSE Parsed(<<"day", d.v>>, d.rest)
  ELSE NULL

getrule(s) ==
  LET GivenDate(date) ==
        IF date = NULL THEN NULL
        ELSE IF ~ Is(date.rest, "/")
             THEN Parsed([date |-> date.v, time |-> 2 * SECSPERHOUR], date.rest)
        ELSE LET t == getsecs(Tail(date.rest))
             IN  IF t = NULL THEN NULL
                 ELSE Parsed([date |-> date.v, time |-> t.v], t.rest)
  IN  GivenDate(RuleDate(s))

\* Zeller's congruence: the day of the week of the first day of the month.
Zeller(year, mon) ==
  LET m1 == ((mon + 9) % 12) + 1
      yy0 == IF mon <= 2 THEN year - 1 ELSE year
      yy1 == yy0 \div 100
      yy2 == yy0 % 100
      dow == Rem((26 * m1 - 2) \div 10 + 1 + yy2 + yy2 \div 4 + yy1 \div 4 - 2 * yy1, 7)
  IN  IF dow < 0 THEN dow + 7 ELSE dow

RECURSIVE AddWeeks(_, _, _)
AddWeeks(d, left, length) ==
  IF left = 0 \/ d + 7 >= length THEN d ELSE AddWeeks(d + 7, left - 1, length)

\* The day of the month, from 0, of the week-th given day of the week.
NthDay(year, mon, week, day) ==
  LET GivenD(d) ==
        AddWeeks(IF d < 0 THEN d + 7 ELSE d, week - 1, mon_lengths(year)[mon])
  IN  GivenD(day - Zeller(year, mon))

Sum(s) == FoldLeft(LAMBDA a, b : a + b, 0, s)

transtime(janfirst, year, rule, offset) ==
  LET date == rule.date
      days == CASE date[1] = "julian" ->
                     (date[2] - 1) + Truth(isleap(year) /\ date[2] >= 60)
                [] date[1] = "day" -> date[2]
                [] date[1] = "month" ->
                     Sum(SubSeq(mon_lengths(year), 1, date[2] - 1))
                       + NthDay(year, date[2], date[3], date[4])
  IN  Wrap(janfirst + days * SECSPERDAY + rule.time + offset)

\* Two transitions a year, in their order, while there is room and time; those
\* of the last year of time_t may be wrapped.
RECURSIVE Transitions(_, _, _, _)
Transitions(state, janfirst, year, zone) ==
  LET next == Wrap(janfirst + year_lengths(year) * SECSPERDAY)
      Further(more) == IF next <= janfirst THEN more ELSE Transitions(more, next, year + 1, zone)
      Changes(on, off) ==
        IF on > off
        THEN [state EXCEPT !.ats = @ \o <<off, on>>, !.types = @ \o <<2, 1>>]
        ELSE [state EXCEPT !.ats = @ \o <<on, off>>, !.types = @ \o <<1, 2>>]
  IN  IF Len(state.ats) + 2 > TZ_MAX_TIMES THEN state
      ELSE Further(Changes(transtime(janfirst, year, zone.start, zone.stdoffset),
                           transtime(janfirst, year, zone.end, zone.dstoffset)))

ttinfo(gmtoff, isdst) == [gmtoff |-> gmtoff, isdst |-> isdst]

\* A zone without transitions.
Steady(leaps, ttis) == [leaps |-> leaps, ats |-> <<>>, types |-> <<>>, ttis |-> ttis]

Num(n) == [kind |-> "num", n |-> n]
Chr(c) == [kind |-> c, n |-> 0]

\* ",M4.1.0,M10.5.0"
TZDEFRULESTRING ==
  <<Chr(","), Chr("M"), Num(4), Chr("."), Num(1), Chr("."), Num(0),
    Chr(","), Chr("M"), Num(10), Chr("."), Num(5), Chr("."), Num(0)>>

EndRule(start, end, stdoffset, dstoffset, leaps) ==
  IF end = NULL THEN NULL
  ELSE IF end.rest /= <<>> THEN NULL
  ELSE Transitions(Steady(leaps, <<ttinfo(-dstoffset, 1), ttinfo(-stdoffset, 0)>>), 0, EPOCH_YEAR,
                   [start |-> start.v, end |-> end.v, stdoffset |-> stdoffset, dstoffset |-> dstoffset])

StartRule(start, stdoffset, dstoffset, leaps) ==
  IF start = NULL THEN NULL
  ELSE IF ~ Is(start.rest, ",") THEN NULL
  ELSE EndRule(start, getrule(Tail(start.rest)), stdoffset, dstoffset, leaps)

\* The rules after both names and offsets.
ParseRules(s, stdoffset, dstoffset, leaps) == StartRule(getrule(Tail(s)), stdoffset, dstoffset, leaps)

SummerRules(stdoffset, dst, rules, leaps) ==
  IF Is(rules, ",") \/ Is(rules, ";") THEN ParseRules(rules, stdoffset, dst.v, leaps)
  ELSE IF rules /= <<>> THEN NULL
  ELSE Steady(leaps, <<ttinfo(-stdoffset, 0), ttinfo(-dst.v, 1)>>)

SummerOffset(stdoffset, dst, posixrules, leaps) ==
  IF dst = NULL THEN NULL
  ELSE SummerRules(stdoffset, dst, IF dst.rest = <<>> /\ posixrules = NULL THEN TZDEFRULESTRING ELSE dst.rest, leaps)

SummerName(stdoffset, name, posixrules, leaps) ==
  IF name = NULL THEN NULL
  ELSE SummerOffset(stdoffset,
                    IF name.rest = <<>> \/ Is(name.rest, ",") \/ Is(name.rest, ";")
                    THEN Parsed(stdoffset - SECSPERHOUR, name.rest) ELSE getoffset(name.rest),
                    posixrules, leaps)

\* The second name, its offset and its rules.  Without rules those of the default
\* file should be used, but its transitions were forgotten (timecnt = 0).
ParseSummer(s, stdoffset, posixrules, leaps) == SummerName(stdoffset, ZoneName(s), posixrules, leaps)

StandardOffset(std, posixrules, leaps) ==
  IF std = NULL THEN NULL
  ELSE IF std.rest = <<>> THEN Steady(leaps, <<ttinfo(-std.v, 0)>>)
  ELSE ParseSummer(std.rest, std.v, posixrules, leaps)

StandardName(name, posixrules, leaps) ==
  IF name = NULL THEN NULL
  ELSE IF name.rest = <<>> THEN NULL
  ELSE StandardOffset(getoffset(name.rest), posixrules, leaps)

\* posixrules is the loaded file of default rules, or NULL.
tzparse(s, posixrules) ==
  StandardName(ZoneName(s), posixrules, IF posixrules = NULL THEN <<>> ELSE posixrules.leaps)
-----------------------------------------------------------------------------
(* Zone files.                                                             *)

\* Out-of-sort times end the table; the last pair is not looked at.
KeepSorted(ats) ==
  LET bad == {i \in 1 .. Len(ats) - 2 : ats[i] > ats[i + 1]}
  IN  IF bad = {} THEN Len(ats)
      ELSE CHOOSE i \in bad : \A j \in bad : i <= j

\* The block of 32-bit data; the second block is for a wider time_t.
tzload(b) ==
  IF \/ b.leapcnt \notin 0 .. TZ_MAX_LEAPS \/ b.typecnt \notin 1 .. TZ_MAX_TYPES
     \/ b.timecnt \notin 0 .. TZ_MAX_TIMES \/ b.charcnt \notin 0 .. TZ_MAX_CHARS
     \/ b.stdcnt \notin {0, b.typecnt} \/ b.gmtcnt \notin {0, b.typecnt}
     \/ b.nread < b.timecnt * 5 + b.typecnt * 6 + b.charcnt + b.leapcnt * 8
                    + b.stdcnt + b.gmtcnt
     \/ \E i \in 1 .. b.timecnt : b.types[i] > b.typecnt
     \/ \E i \in 1 .. b.typecnt : \/ b.ttis[i].isdst \notin {0, 1}
                                  \/ b.ttis[i].abbrind > b.charcnt
  THEN NULL
  ELSE LET n == KeepSorted(SubSeq(b.ats, 1, b.timecnt))
       IN  [leaps |-> SubSeq(b.leaps, 1, b.leapcnt), ats |-> SubSeq(b.ats, 1, n),
            types |-> SubSeq(b.types, 1, n), ttis |-> SubSeq(b.ttis, 1, b.typecnt)]
-----------------------------------------------------------------------------
(* From time to local time.                                                *)

\* The last leap second at or before t, 0 if none.
LastLeap(leaps, t) ==
  LET past == {i \in DOMAIN leaps : t >= leaps[i].trans}
  IN  IF past = {} THEN 0 ELSE CHOOSE i \in past : \A j \in past : j <= i

\* How many inserted seconds in a row end with the i-th.
RECURSIVE Run(_, _)
Run(leaps, i) ==
  IF i > 1 /\ leaps[i].trans = leaps[i - 1].trans + 1 /\ leaps[i].corr = leaps[i - 1].corr + 1
  THEN 1 + Run(leaps, i - 1) ELSE 1

\* The extra seconds shown at t.  (Of a table whose first entry removes a second
\* the entry before the first would be read; there is no such table.)
Hit(leaps, t) ==
  LET i == LastLeap(leaps, t)
  IN  IF i = 0 THEN 0
      ELSE IF \/ t /= leaps[i].trans
              \/ leaps[i].corr <= (IF i = 1 THEN 0 ELSE leaps[i - 1].corr)
           THEN 0 ELSE Run(leaps, i)

Corr(leaps, t) ==
  LET i == LastLeap(leaps, t) IN IF i = 0 THEN 0 ELSE leaps[i].corr

\* Days of year y brought into one year, by jumps of at least a year.
RECURSIVE ToYear(_, _)
ToYear(tdays, y) ==
  IF tdays \in 0 .. year_lengths(y) - 1 THEN <<tdays, y>>
  ELSE LET q == Quot(tdays, 366)
           idelta == IF q # 0 THEN q ELSE IF tdays < 0 THEN -1 ELSE 1
           newy == y + idelta
       IN  ToYear(tdays - idelta * 365
                    - (leaps_thru_end_of(newy - 1) - leaps_thru_end_of(y - 1)), newy)

\* The same by single years, for the days the offset moved.
RECURSIVE Settle(_, _)
Settle(idays, y) ==
  IF idays < 0 THEN Settle(idays + year_lengths(y - 1), y - 1)
  ELSE IF idays >= year_lengths(y) THEN Settle(idays - year_lengths(y), y + 1)
  ELSE <<idays, y>>

RECURSIVE MonthOf(_, _, _)
MonthOf(idays, y, mon) ==
  IF idays >= mon_lengths(y)[mon + 1]
  THEN MonthOf(idays - mon_lengths(y)[mon + 1], y, mon + 1) ELSE <<mon, idays + 1>>

timesub(t, offset, leaps) ==
  LET tdays == Quot(t, SECSPERDAY)
      start == ToYear(tdays, EPOCH_YEAR)
      rem == (t - tdays * SECSPERDAY) + offset - Corr(leaps, t)
      GivenEnd(end) ==
        LET GivenY(y) ==
              LET inday == rem % SECSPERDAY
                  month == MonthOf(end[1], y, 0)
                  wday == Rem(EPOCH_WDAY + Rem(y - EPOCH_YEAR, 7) + leaps_thru_end_of(y - 1)
                                - leaps_thru_end_of(EPOCH_YEAR - 1) + end[1], 7)
              IN  [year |-> y - TM_YEAR_BASE, mon |-> month[1], mday |-> month[2],
                   hour |-> inday \div SECSPERHOUR, min |-> (inday % SECSPERHOUR) \div SECSPERMIN,
                   sec |-> (inday % SECSPERMIN) + Hit(leaps, t), yday |-> end[1],
                   wday |-> IF wday < 0 THEN wday + 7 ELSE wday, isdst |-> 0]
        IN  GivenY(end[2])
  IN  GivenEnd(Settle(start[1] + (rem \div SECSPERDAY), start[2]))

\* The transition in effect: ats[lo] <= t < ats[lo + 1], in a sorted table.
RECURSIVE Search(_, _, _, _)
Search(ats, t, lo, hi) ==
  LET mid == (lo + hi) \div 2
  IN  IF lo >= hi THEN lo
      ELSE IF t < ats[mid + 1] THEN Search(ats, t, lo, mid) ELSE Search(ats, t, mid + 1, hi)

\* The type before the first transition: the first that is not summer time.
FirstStandard(ttis) ==
  LET std == {i \in DOMAIN ttis : ttis[i].isdst = 0}
  IN  IF std = {} THEN 1 ELSE CHOOSE i \in std : \A j \in std : i <= j

TypeAt(sp, t) ==
  IF sp.ats = <<>> THEN FirstStandard(sp.ttis)
  ELSE IF t < sp.ats[1] THEN FirstStandard(sp.ttis)
  ELSE sp.types[Search(sp.ats, t, 1, Len(sp.ats))]

\* (The 400-year cycles of goback and goahead need a wider time_t.)
localsub(sp, t) ==
  LET ttis == sp.ttis[TypeAt(sp, t)]
  IN  [timesub(t, ttis.gmtoff, sp.leaps) EXCEPT !.isdst = ttis.isdst]
-----------------------------------------------------------------------------
(* From local time to time.                                                *)

\* units brought into 0 .. base - 1, the rest carried; NULL on overflow.
normalize_overflow(tens, units, base) ==
  IF tens + (units \div base) \in Int_ THEN <<tens + (units \div base), units % base>>
  ELSE NULL

\* Days brought into 1 .. 366, by years that start at the month.
RECURSIVE DaysInYear(_, _, _)
DaysInYear(mday, mon, y) ==
  IF mday <= 0
  THEN DaysInYear(mday + year_lengths((y - 1) + Truth(1 < mon)), mon, y - 1)
  ELSE IF mday > 366
  THEN DaysInYear(mday - year_lengths(y + Truth(1 < mon)), mon, y + 1)
  ELSE <<mday, y>>

RECURSIVE DaysInMonth(_, _, _)
DaysInMonth(mday, mon, y) ==
  LET n == mon_lengths(y)[mon + 1]
  IN  IF mday <= n THEN <<mday, mon, y>>
      ELSE IF mon + 1 >= 12 THEN DaysInMonth(mday - n, 0, y + 1)
           ELSE DaysInMonth(mday - n, mon + 1, y)

\* The fields brought into their ranges; NULL on overflow.
Normalized(tm, do_norm_secs) ==
  LET Dated(m, h, d, md) ==
        [tm EXCEPT !.year = md[3] - TM_YEAR_BASE, !.mon = md[2],
                   !.mday = md[1], !.hour = d[2], !.min = h[2], !.sec = m[2]]
      InYear(m, h, d, y, in) == Dated(m, h, d, DaysInMonth(in[1], y[2], in[2]))
      Days(m, h, d, y) ==
        IF d = NULL \/ y = NULL THEN NULL
        ELSE IF y[1] + TM_YEAR_BASE \notin Int_ THEN NULL
        ELSE InYear(m, h, d, y, DaysInYear(d[1], y[2], y[1] + TM_YEAR_BASE))
      Hours(m, h) ==
        IF h = NULL THEN NULL
        ELSE Days(m, h, normalize_overflow(tm.mday, h[1], HOURSPERDAY),
                  normalize_overflow(tm.year, tm.mon, 12))
      Minutes(m) == IF m = NULL THEN NULL ELSE Hours(m, normalize_overflow(tm.hour, m[1], MINSPERHOUR))
  IN  Minutes(IF do_norm_secs THEN normalize_overflow(tm.min, tm.sec, SECSPERMIN) ELSE <<tm.min, tm.sec>>)

\* Seconds out of their range are put aside; before the epoch not below 59.
Aside(tm) ==
  IF tm.sec \in 0 .. SECSPERMIN - 1 THEN <<0, tm.sec>>
  ELSE IF tm.year + TM_YEAR_BASE < EPOCH_YEAR
       THEN <<tm.sec + 1 - SECSPERMIN, SECSPERMIN - 1>>
       ELSE <<tm.sec, 0>>

tmcomp(a, b) ==
  LET A == <<a.year, a.mon, a.mday, a.hour, a.min, a.sec>>
      B == <<b.year, b.mon, b.mday, b.hour, b.min, b.sec>>
      differ == {i \in 1 .. 6 : A[i] /= B[i]}
  IN  IF differ = {} THEN 0
      ELSE LET i == CHOOSE k \in differ : \A j \in differ : k <= j IN A[i] - B[i]

\* Binary search of all of time_t for the time with these fields, or NULL.
RECURSIVE SearchTime(_, _, _, _)
SearchTime(sp, want, lo, hi) ==
  LET mid == Quot(lo, 2) + Quot(hi, 2)
      GivenT(t) ==
        LET GivenDir(dir) ==
              LET lo1 == IF t = lo THEN lo + 1 ELSE lo
                  hi1 == IF t # lo /\ t = hi THEN hi - 1 ELSE hi
                  t1 == IF t = lo THEN t + 1 ELSE IF t = hi THEN t - 1 ELSE t
              IN  IF dir = 0 THEN <<t>>
                  ELSE IF (t = lo /\ t = TIME_T_MAX) \/ (t # lo /\ t = hi /\ t = TIME_T_MIN) THEN NULL
                  ELSE IF lo1 > hi1 THEN NULL
                  ELSE IF dir > 0 THEN SearchTime(sp, want, lo1, t1)
                  ELSE SearchTime(sp, want, t1, hi1)
        IN  GivenDir(tmcomp(localsub(sp, t), want))
  IN  GivenT(IF mid < lo THEN lo ELSE IF mid > hi THEN hi ELSE mid)

\* Right time, wrong type: the times a pair of types apart, the last pair first.
OtherType(sp, want, t) ==
  LET n == Len(sp.ttis)
      New(p) == Wrap(t + sp.ttis[p[2]].gmtoff - sp.ttis[p[1]].gmtoff)
      Same(mine) == tmcomp(mine, want) = 0 /\ mine.isdst = want.isdst
      Latest(pairs) ==
        IF pairs = {} THEN NULL
        ELSE <<New(CHOOSE q \in pairs : \A r \in pairs : q[1] * (n + 1) + q[2] >= r[1] * (n + 1) + r[2])>>
  IN  Latest({p \in (1 .. n) \X (1 .. n) :
              /\ sp.ttis[p[1]].isdst = want.isdst /\ sp.ttis[p[2]].isdst /= want.isdst
              /\ Same(localsub(sp, New(p)))})

\* With the type that was asked for taken as found.
AnyType(sp, want, t) == <<t>>

\* A time of these fields and of this type, or NULL.
RightType(sp, want, t) ==
  IF want.isdst < 0 \/ localsub(sp, t).isdst = want.isdst THEN <<t>>
  ELSE OtherType(sp, want, t)

\* typed is the time found, or NULL; aside the seconds that were set aside.
PutBack(typed, aside) ==
  IF typed = NULL THEN NULL
  ELSE IF typed[1] + aside \notin TimeT THEN NULL
  ELSE <<typed[1] + aside>>

OfRightType(sp, want, found) == IF found = NULL THEN NULL ELSE RightType(sp, want, found[1])

Searched(sp, want, aside) ==
  PutBack(OfRightType(sp, want, SearchTime(sp, want, TIME_T_MIN, TIME_T_MAX)), aside)

NormalTime(sp, norm) ==
  IF norm = NULL THEN NULL ELSE Searched(sp, [norm EXCEPT !.sec = Aside(norm)[2]], Aside(norm)[1])

time2sub(sp, tm, do_norm_secs) == NormalTime(sp, Normalized(tm, do_norm_secs))

OrNormalized(sp, tm, t) == IF t /= NULL THEN t ELSE time2sub(sp, tm, TRUE)

\* First as if the seconds were those of a leap second, then normalized.
time2(sp, tm) == OrNormalized(sp, tm, time2sub(sp, tm, FALSE))

\* The types in use, the latest first.
RECURSIVE TypesSeen(_, _)
TypesSeen(types, seen) ==
  IF types = <<>> THEN seen
  ELSE TypesSeen(Front(types), IF Contains(seen, Last(types)) THEN seen
                               ELSE Append(seen, Last(types)))

\* p: the type and the other one, among those seen.
AsOther(sp, tm, seen, p) ==
  time2(sp, [tm EXCEPT !.sec = @ + sp.ttis[seen[p[2]]].gmtoff - sp.ttis[seen[p[1]]].gmtoff,
                       !.isdst = 1 - @])

\* The first pair that gives a time.
RECURSIVE FirstOther(_, _, _, _), TakeOther(_, _, _, _, _)
FirstOther(sp, tm, seen, pairs) ==
  IF pairs = {} THEN NULL
  ELSE LET p == CHOOSE x \in pairs : \A y \in pairs : x[1] < y[1] \/ (x[1] = y[1] /\ x[2] <= y[2])
       IN  TakeOther(sp, tm, seen, pairs \ {p}, AsOther(sp, tm, seen, p))

TakeOther(sp, tm, seen, pairs, t) == IF t /= NULL THEN t ELSE FirstOther(sp, tm, seen, pairs)

OtherPairs(sp, tm, seen) ==
  FirstOther(sp, tm, seen,
             {p \in (DOMAIN seen) \X (DOMAIN seen) :
                sp.ttis[seen[p[1]]].isdst = tm.isdst /\ sp.ttis[seen[p[2]]].isdst /= tm.isdst})

\* As if it were a time of the other type that was calculated with.
FromOtherType(sp, tm) == OtherPairs(sp, tm, TypesSeen(sp.types, <<>>))

OrOther(sp, tm, t) == IF t /= NULL \/ tm.isdst < 0 THEN t ELSE FromOtherType(sp, tm)

TimeOf(sp, tm) == OrOther(sp, tm, time2(sp, tm))

time1(sp, tm0) == TimeOf(sp, [tm0 EXCEPT !.isdst = IF @ > 1 THEN 1 ELSE @])

time2posix(leaps, t) == t - Corr(leaps, t)

RECURSIVE StepTo(_, _, _, _)
StepTo(leaps, x, t, dir) ==
  LET y == time2posix(leaps, x)
  IN  IF (dir > 0 /\ y < t) \/ (dir < 0 /\ y > t) THEN StepTo(leaps, x + dir, t, dir)
      ELSE IF y = t THEN x ELSE x - dir

posix2time(leaps, t) ==
  LET x == t + Corr(leaps, t)
      y == time2posix(leaps, x)
  IN  IF y < t THEN StepTo(leaps, x + 1, t, 1)
      ELSE IF y > t THEN StepTo(leaps, x - 1, t, -1) ELSE x
-----------------------------------------------------------------------------
(* The weeks of strftime.c.                                                *)

RECURSIVE IsoWeek(_, _, _)
IsoWeek(year, yday, wday) ==
  LET len == year_lengths(year)
      bot == ((yday + 11 - wday) % 7) - 3
      top0 == bot - (len % 7)
      top == (IF top0 < -3 THEN top0 + 7 ELSE top0) + len
  IN  IF yday >= top THEN <<year + 1, 1>>
      ELSE IF yday >= bot THEN <<year, 1 + (yday - bot) \div 7>>
      ELSE IsoWeek(year - 1, yday + year_lengths(year - 1), wday)

SundayWeek(tm) == (tm.yday + 7 - tm.wday) \div 7

MondayWeek(tm) == (tm.yday + 7 - (IF tm.wday /= 0 THEN tm.wday - 1 ELSE 6)) \div 7

Hour12(tm) == IF Rem(tm.hour, 12) /= 0 THEN Rem(tm.hour, 12) ELSE 12
-----------------------------------------------------------------------------
(* Questions.  The reference counts days and leap seconds one by one.      *)

ZoneOf(z) == tzparse(z.string, NULL)

\* A time in a zone, broken down, there and back, or from its parts.
InZone(z, what, x) ==
  IF what = "local" THEN localsub(z, x)
  ELSE time1(z, IF what = "back" THEN localsub(z, x) ELSE x)

TimeAnswer(q) ==
  CASE q[1] = "gmtime" -> timesub(q[3], 0, q[2])
    [] q[1] = "posix"  -> posix2time(q[2], q[3])
    [] q[1] = "rule"   -> transtime(q[4], q[3], q[2], 0)
    [] q[1] \in {"local", "back", "mktime"} -> InZone(ZoneOf(q[2]), q[1], q[3])
    [] q[1] = "file"   -> tzload(q[2])
    [] q[1] = "weeks"  -> LET tm == timesub(q[2], 0, <<>>)
                          IN  <<IsoWeek(tm.year + TM_YEAR_BASE, tm.yday, tm.wday),
                                SundayWeek(tm), MondayWeek(tm), Hour12(tm)>>

RefDays(y) ==
  IF y >= EPOCH_YEAR THEN Sum([k \in 1 .. y - EPOCH_YEAR |-> year_lengths(EPOCH_YEAR + k - 1)])
  ELSE -Sum([k \in 1 .. EPOCH_YEAR - y |-> year_lengths(EPOCH_YEAR - k)])

RefDate(tm) ==
  RefDays(tm.year + TM_YEAR_BASE)
    + Sum(SubSeq(mon_lengths(tm.year + TM_YEAR_BASE), 1, tm.mon)) + tm.mday - 1

RefSeconds(tm) ==
  RefDate(tm) * SECSPERDAY + tm.hour * SECSPERHOUR + tm.min * SECSPERMIN + tm.sec

\* A struct tm with a month out of range counts months over the years.
RefCarried(tm) ==
  RefSeconds([tm EXCEPT !.year = @ + (tm.mon \div 12), !.mon = @ % 12])

\* t is a second that was inserted.
Inserted(leaps, t) ==
  \E i \in DOMAIN leaps :
     t = leaps[i].trans /\ leaps[i].corr > (IF i = 1 THEN 0 ELSE leaps[i - 1].corr)

RECURSIVE RefHit(_, _)
RefHit(leaps, t) == IF Inserted(leaps, t) THEN 1 + RefHit(leaps, t - 1) ELSE 0

InRange(tm) ==
  /\ tm.mon \in 0 .. 11 /\ tm.mday \in 1 .. mon_lengths(tm.year + TM_YEAR_BASE)[tm.mon + 1]
  /\ tm.hour \in 0 .. HOURSPERDAY - 1 /\ tm.min \in 0 .. MINSPERHOUR - 1
  /\ tm.wday = (RefDate(tm) + EPOCH_WDAY) % 7
  /\ tm.yday = RefDate(tm) - RefDays(tm.year + TM_YEAR_BASE)

\* The fields are those of t, and extra seconds are shown as such.
RefTime(tm, t, offset, leaps) ==
  /\ InRange(tm)
  /\ RefSeconds(tm) - RefHit(leaps, t)
       = t + offset - Cardinality({u \in 0 .. t : Inserted(leaps, u)})
           + Cardinality({i \in DOMAIN leaps : t >= leaps[i].trans /\ ~ Inserted(leaps, leaps[i].trans)})
  /\ tm.sec \in RefHit(leaps, t) .. SECSPERMIN - 1 + RefHit(leaps, t)

\* The day a rule names, at its time.
RefRule(rule, year, at) ==
  LET d == rule.date
  IN  \A tm \in {timesub(at - rule.time, 0, <<>>)} :
        /\ tm.hour = 0 /\ tm.min = 0 /\ tm.sec = 0
        /\ d[1] = "julian" => Sum(SubSeq(mon_lengths(1970), 1, tm.mon)) + tm.mday = d[2]
        /\ d[1] = "day" => tm.yday = d[2] % year_lengths(year)
        /\ d[1] = "month" => /\ tm.mon + 1 = d[2] /\ tm.wday = d[4]
                             /\ IF d[3] = 5 THEN tm.mday + 7 > mon_lengths(year)[tm.mon + 1]
                                ELSE tm.mday \in 7 * d[3] - 6 .. 7 * d[3]

\* Summer time, by the latest of the changes up to t.
RefType(z, t) ==
  LET Changes == UNION {LET jan == RefDays(y) * SECSPERDAY
                        IN  {<<transtime(jan, y, z.start, z.std), 1>>,
                             <<transtime(jan, y, z.end, z.dst), 0>>} :
                          y \in EPOCH_YEAR .. EPOCH_YEAR + (TIME_T_MAX \div (366 * SECSPERDAY)) - 1}
      Past == {c \in Changes : c[1] <= t}
  IN  IF Past = {} THEN 0 ELSE (CHOOSE c \in Past : \A d \in Past : d[1] <= c[1])[2]

\* The changes of the last year of time_t are wrapped (1042), and Search takes a
\* wrong turn at them: summer time of the year before it may not be seen.
BeforeTheEnd(t) == t < TIME_T_MAX - 2 * 366 * SECSPERDAY

RefOffset(z, t) == IF RefType(z, t) = 1 THEN -z.dst ELSE -z.std

\* Times that read as tm, carried, in the zone.
RefReads(z, tm) ==
  {t \in {RefCarried(tm) + z.std, RefCarried(tm) + z.dst} :
     t \in TimeT /\ t + RefOffset(z, t) = RefCarried(tm)}

\* Seconds out of range count from the time without them, where there is one.
RefTimes(z, tm) ==
  LET s == IF RefCarried(tm) < 0 THEN SECSPERMIN - 1 ELSE 0
      from == {t + tm.sec - s : t \in RefReads(z, [tm EXCEPT !.sec = s])}
  IN  IF tm.sec \notin 0 .. SECSPERMIN - 1 /\ from /= {} THEN from ELSE RefReads(z, tm)

\* The Thursday of the week decides its year and its number.
RefWeek(t) ==
  LET tm == timesub(t, 0, <<>>)
      thu == timesub(t + (3 - ((tm.wday + 6) % 7)) * SECSPERDAY, 0, <<>>)
  IN  <<thu.year + TM_YEAR_BASE, (thu.yday \div 7) + 1>>

RefWeeks(t, day) ==
  LET tm == timesub(t, 0, <<>>)
  IN  Cardinality({d \in 0 .. tm.yday : timesub(t - d * SECSPERDAY, 0, <<>>).wday = day})

(***************************************************************************)
(* Times are taken apart exactly, leap seconds included; a rule names its  *)
(* day; summer time is on between the changes of its zone's string; mktime *)
(* is the inverse of localtime and fails only for times that do not exist; *)
(* a loaded zone file indexes only its own types; weeks are numbered as    *)
(* ISO 8601 says.                                                          *)
(***************************************************************************)
TimeExact ==
  answer /= NONE /\ question[1] \in {"gmtime", "posix", "rule", "local", "back", "mktime", "file", "weeks"} =>
    LET q == question IN
    CASE q[1] = "gmtime" -> RefTime(answer, q[3], 0, q[2])
      [] q[1] = "posix" ->
           LET near == {x \in q[3] - 4 .. q[3] + 4 : time2posix(q[2], x) = q[3]}
           IN  IF near /= {} THEN answer \in near
               ELSE time2posix(q[2], answer) \in {q[3] - 1, q[3] + 1}
      [] q[1] = "rule" -> RefRule(q[2], q[3], answer)
      [] q[1] = "local" ->
           BeforeTheEnd(q[3]) => /\ RefTime(answer, q[3], RefOffset(q[2], q[3]), <<>>)
                                 /\ answer.isdst = RefType(q[2], q[3])
      [] q[1] = "back" -> BeforeTheEnd(q[3]) => answer = <<q[3]>>
      [] q[1] = "mktime" ->
           IF q[3].isdst < 0
           THEN IF RefTimes(q[2], q[3]) = {} THEN answer = NULL
                ELSE answer /= NULL /\ answer[1] \in RefTimes(q[2], q[3])
           ELSE LET t == RefCarried(q[3]) + (IF q[3].isdst = 0 THEN q[2].std ELSE q[2].dst)
                IN  answer = IF t \in TimeT THEN <<t>> ELSE NULL
      [] q[1] = "file" ->
           answer /= NULL =>
             /\ \A i \in DOMAIN answer.types : answer.types[i] \in DOMAIN answer.ttis
             /\ \A i \in 1 .. Len(answer.ats) - 2 : answer.ats[i] <= answer.ats[i + 1]
             /\ \A t \in Instants : TypeAt(answer, t) \in DOMAIN answer.ttis
      [] q[1] = "weeks" -> /\ answer[1] = RefWeek(q[2])
                           /\ answer[2] = RefWeeks(q[2], 0) /\ answer[3] = RefWeeks(q[2], 1)

TimeInit ==
  /\ Unanswered
  /\ \/ \E l \in LeapTables, t \in Instants : question = <<"gmtime", l, t>>
     \/ \E l \in LeapTables, t \in Instants : question = <<"posix", l, t>>
     \/ \E z \in ZoneStrings, y \in EPOCH_YEAR .. EPOCH_YEAR + 5 :
          \E r \in {z.start, z.end} : question = <<"rule", r, y, RefDays(y) * SECSPERDAY>>
     \/ \E z \in ZoneStrings, t \in Instants, k \in {"local", "back"} : question = <<k, z, t>>
     \/ \E z \in ZoneStrings, tm \in BrokenDown : question = <<"mktime", z, tm>>
     \/ \E b \in ZoneBlocks : question = <<"file", b>>
     \/ \E t \in Instants : question = <<"weeks", t>>

TimeCompute ==
  /\ question[1] \in {"gmtime", "posix", "rule", "local", "back", "mktime", "file", "weeks"}
  /\ Ask(TimeAnswer)
=============================================================================
