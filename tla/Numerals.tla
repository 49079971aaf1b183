------------------------------ MODULE Numerals ------------------------------
(***************************************************************************)
(* Numbers, Internet addresses and identifiers in text: strtol and its kin *)
(* (src/core/strtol.c, strtoul.c, strtoimax.c, strtoumax.c), inet_pton,    *)
(* inet_aton and inet_ntop.  A string is a sequence of characters.         *)
(*                                                                         *)
(* long has NumBits bits and intmax_t MaxNumBits; a byte of an address is  *)
(* one of AddrBase values, which is also the base of "hexadecimal" groups, *)
(* and an IPv6 address is NWords words of two bytes.                       *)
(***************************************************************************)
EXTENDS Question, SequencesExt, FiniteSetsExt, TLC

CONSTANTS NumBits, MaxNumBits, AddrBase, NWords,
          NumberTexts,     \* the strings strtol is asked about
          QuadParts,       \* texts of the parts of an IPv4 address, and what follows them
          QuadTails,
          WordValues,      \* words of the IPv6 addresses
          ColonTexts       \* strings inet_pton is asked about

CharNth(s, i) == IF i \in DOMAIN s THEN s[i] ELSE "NUL"

Lower == <<"0", "1", "2", "3", "4", "5", "6", "7", "8", "9", "a", "b", "c", "d", "e", "f", "g", "z">>

\* The value of a digit or letter, -1 for another character.
DigitOf ==
  [c \in ToSet(Lower) \cup {"A", "F", "x", "X", "-", "+", " ", ".", ":", "%", "]", "^", "NUL"} |->
     IF \E i \in 1 .. 17 : Lower[i] = c THEN (CHOOSE i \in 1 .. 17 : Lower[i] = c) - 1
     ELSE CASE c = "A" -> 10 [] c = "F" -> 15 [] c \in {"x", "X"} -> 33 [] c = "z" -> 35 [] OTHER -> -1]

IsDigit(c) == DigitOf[c] \in 0 .. 9

\* Where the digits of a base that start at i end.
RunEnd(s, i, base) ==
  CHOOSE j \in i .. Len(s) + 1 :
    /\ DigitOf[CharNth(s, j)] \notin 0 .. base - 1
    /\ \A k \in i .. j - 1 : DigitOf[CharNth(s, k)] \in 0 .. base - 1

ValueOf(digits, base) == FoldLeft(LAMBDA acc, c : acc * base + DigitOf[c], 0, digits)
-----------------------------------------------------------------------------
\* White space, the sign, the prefix: where the digits start, and the base.
NumberStart(s, base) ==
  LET GivenI(i) ==
        LET j == IF CharNth(s, i) \in {"-", "+"} THEN i + 1 ELSE i
            hex == base \in {0, 16} /\ CharNth(s, j) = "0" /\ CharNth(s, j + 1) \in {"x", "X"}
        IN  [neg |-> CharNth(s, i) = "-",
             at |-> IF hex THEN j + 2 ELSE j,
             base |-> CASE hex -> 16
                        [] ~hex /\ base = 0 -> IF CharNth(s, j) = "0" THEN 8 ELSE 10
                        [] OTHER -> base]
  IN  GivenI(CHOOSE k \in 1 .. Len(s) + 1 : CharNth(s, k) # " " /\ \A m \in 1 .. k - 1 : s[m] = " ")

CutStepEqual(r, d, base, limit, cutoff, cutlim) ==
  IF r.any = -1 THEN r
  ELSE IF r.acc >= cutoff
    THEN [acc |-> limit, any |-> -1]
    ELSE [acc |-> r.acc * base + d, any |-> 1]

\* A digit more, below the cutoff or, at the cutoff, up to the last digit that fits.
CutStep(r, d, base, limit, cutoff, cutlim) ==
  IF r.any = -1 THEN r
  ELSE IF r.acc > cutoff \/ (r.acc = cutoff /\ d > cutlim)
    THEN [acc |-> limit, any |-> -1]
    ELSE [acc |-> r.acc * base + d, any |-> 1]

\* The number, where it ends (0: nowhere) and whether it is out of range.  limit is the
\* largest magnitude for the sign found.
Converted(s, start, limit) ==
  LET end == RunEnd(s, start.at, start.base)
      step(r, c) == CutStep(r, DigitOf[c], start.base, limit, limit \div start.base, limit % start.base)
      r == FoldLeft(step, [acc |-> 0, any |-> 0], SubSeq(s, start.at, end - 1))
  IN  [val |-> r.acc, end |-> IF r.any = 0 THEN 0 ELSE end, range |-> r.any = -1]

SignedNumber(s, base, bits) ==
  LET start == NumberStart(s, base)
      r == Converted(s, start, IF start.neg THEN 2^(bits - 1) ELSE 2^(bits - 1) - 1)
  IN  [r EXCEPT !.val = IF start.neg THEN -@ ELSE @]

UnsignedNumber(s, base, bits) ==
  LET start == NumberStart(s, base)
      r == Converted(s, start, 2^bits - 1)
  IN  [r EXCEPT !.val = IF start.neg /\ ~r.range THEN (2^bits - @) % 2^bits ELSE @]

strtol(s, base) == SignedNumber(s, base, NumBits)

strtoul(s, base) == UnsignedNumber(s, base, NumBits)

strtoimax(s, base) == SignedNumber(s, base, MaxNumBits)

strtoumax(s, base) == UnsignedNumber(s, base, MaxNumBits)

strtoll(s, base) == strtoimax(s, base)

strtoull(s, base) == strtoumax(s, base)
-----------------------------------------------------------------------------
AddrSize == AddrBase^4

\* A number of an IPv4 address at i: its base, its value modulo 2^32 and where it ends.
\* inet_aton takes 8 and 9 for digits of an octal number.
QuadNumber(s, i, aton) ==
  LET c == CharNth(s, i + 1)
      base == IF CharNth(s, i) # "0" THEN 10
              ELSE IF c \in {"x", "X"} THEN AddrBase
              ELSE IF aton \/ (IsDigit(c) /\ c # "9") THEN 8 ELSE 10
      from == IF CharNth(s, i) # "0" THEN i ELSE IF base = AddrBase THEN i + 2 ELSE i + 1
      end == RunEnd(s, from, IF aton /\ base = 8 THEN 10 ELSE base)
      step(acc, d) == (acc * base + DigitOf[d]) % AddrSize
  IN  [base |-> base, val |-> FoldLeft(step, 0, SubSeq(s, from, end - 1)), end |-> end]

\* The numbers between dots from i on, and where they end; nothing if there are more than
\* four or one has no digits.
RECURSIVE QuadNumbers(_, _, _)
QuadNumbers(s, i, aton) ==
  IF ~IsDigit(CharNth(s, i)) THEN [ok |-> FALSE, nums |-> <<>>, end |-> i]
  ELSE LET Followed(n, rest) ==
             IF CharNth(s, n.end) = "." THEN [rest EXCEPT !.nums = <<n>> \o @, !.ok = @ /\ Len(rest.nums) <= 3]
             ELSE [ok |-> TRUE, nums |-> <<n>>, end |-> n.end]
           Started(n) == Followed(n, QuadNumbers(s, n.end + 1, aton))
       IN  Started(QuadNumber(s, i, aton))

\* The address of one to four numbers, the last filling what the others leave; -1 for none.
Concoct(nums) ==
  LET n == Len(nums)
      last == nums[n].val
  IN  IF n > 1 /\ (last >= AddrBase^(5 - n) \/ \E i \in 1 .. n - 1 : nums[i].val >= AddrBase)
      THEN -1
      ELSE last + SumSet({0} \cup {nums[i].val * AddrBase^(4 - i) : i \in 1 .. n - 1})

inet_pton4(s, from) ==
  LET GivenQ(q) ==
        IF /\ q.ok
           /\ \A i \in 1 .. Len(q.nums) : q.nums[i].base = 10
           /\ CharNth(s, q.end) \in {"NUL", " "}
           /\ Len(q.nums) = 4
        THEN Concoct(q.nums) ELSE -1
  IN  GivenQ(QuadNumbers(s, from, FALSE))

inet_aton(s) ==
  LET q == QuadNumbers(s, 1, TRUE)
  IN  IF q.ok /\ CharNth(s, q.end) \in {"NUL", " "} THEN Concoct(q.nums) ELSE -1

inet_addr(s) == IF inet_aton(s) # -1 THEN inet_aton(s) ELSE AddrSize - 1
-----------------------------------------------------------------------------
\* Reading an IPv6 address: the words so far, how many there were at "::" (-1: none), the
\* digits of the group, where it starts, and whether the reading goes on.
ColonStart(s) ==
  [words |-> <<>>, gap |-> -1, group |-> <<>>,
   tok |-> IF CharNth(s, 1) = ":" THEN 2 ELSE 1,
   state |-> IF CharNth(s, 1) = ":" /\ CharNth(s, 2) # ":" THEN "bad" ELSE "reading"]

GroupWord(r) == ValueOf(r.group, AddrBase)

ColonStep(s, r, i) ==
  LET c == s[i]
      v4 == inet_pton4(s, r.tok)
  IN  IF r.state # "reading" \/ (i = 1 /\ c = ":") THEN r
      ELSE IF DigitOf[c] \in 0 .. AddrBase - 1
        THEN [r EXCEPT !.group = Append(@, c), !.state = IF Len(r.group) = 2 THEN "bad" ELSE @]
      ELSE IF c = ":" /\ r.group = <<>>
        THEN [r EXCEPT !.gap = Len(r.words), !.tok = i + 1, !.state = IF r.gap # -1 THEN "bad" ELSE @]
      ELSE IF c = ":"
        THEN [r EXCEPT !.tok = i + 1, !.group = <<>>, !.words = Append(@, GroupWord(r)),
                       !.state = IF i = Len(s) \/ Len(r.words) = NWords THEN "bad" ELSE @]
      ELSE IF c = "." /\ Len(r.words) + 2 <= NWords /\ v4 # -1
        THEN [r EXCEPT !.words = @ \o <<v4 \div AddrBase^2, v4 % AddrBase^2>>, !.group = <<>>, !.state = "done"]
      ELSE [r EXCEPT !.state = "bad"]

inet_pton6(s) ==
  LET GivenR(r) ==
        LET words == IF r.group = <<>> THEN r.words ELSE Append(r.words, GroupWord(r))
        IN  IF r.state = "bad" \/ Len(words) > NWords \/ (r.gap # -1 /\ Len(words) = NWords) THEN <<>>
            ELSE IF r.gap # -1
              THEN SubSeq(words, 1, r.gap) \o [i \in 1 .. NWords - Len(words) |-> 0]
                   \o SubSeq(words, r.gap + 1, Len(words))
            ELSE IF Len(words) = NWords THEN words ELSE <<>>
  IN  GivenR(FoldLeft(LAMBDA acc, i : ColonStep(s, acc, i), ColonStart(s), [i \in 1 .. Len(s) |-> i]))

RECURSIVE Printed(_, _)
Printed(n, base) ==
  IF n < base THEN <<Lower[n + 1]>> ELSE Append(Printed(n \div base, base), Lower[(n % base) + 1])

Joined(texts, sep) ==
  IF texts = <<>> THEN <<>> ELSE FoldLeft(LAMBDA acc, t : acc \o sep \o t, texts[1], Tail(texts))

\* The text, or nothing when it does not fit in size characters with its end.
inet_ntop4(bytes, size) ==
  LET text == Joined([i \in 1 .. 4 |-> Printed(bytes[i], 10)], <<".">>)
  IN  IF Len(text) >= size THEN <<>> ELSE text

\* The longest run of zero words: its first word (counted from 0) and its length.
BestStep(r, words, i) ==
  IF words[i + 1] = 0
    THEN [r EXCEPT !.cur = IF @.base = -1 THEN [base |-> i, len |-> 1] ELSE [@ EXCEPT !.len = @ + 1]]
  ELSE IF r.cur.base = -1 THEN r
  ELSE [best |-> IF r.best.base = -1 \/ r.cur.len > r.best.len THEN r.cur ELSE r.best,
        cur |-> [base |-> -1, len |-> 0]]

BestRun(words) ==
  LET none == [base |-> -1, len |-> 0]
      r == FoldLeft(LAMBDA acc, i : BestStep(acc, words, i - 1), [best |-> none, cur |-> none],
                    [i \in 1 .. NWords |-> i])
      best == IF r.cur.base # -1 /\ (r.best.base = -1 \/ r.cur.len > r.best.len) THEN r.cur ELSE r.best
  IN  IF best.len < 2 THEN none ELSE best

\* One word of the text; an IPv4 address takes the last two.
NtopWord(t, words, best, i) ==
  LET colon == IF i # 0 THEN <<":">> ELSE <<>>
      within == best.base # -1 /\ i \in best.base .. best.base + best.len - 1
      quad == /\ i = NWords - 2 /\ best.base = 0
              /\ best.len = NWords - 2 \/ (best.len = NWords - 3 /\ words[NWords - 2] = AddrBase^2 - 1)
      bytes == <<words[NWords - 1] \div AddrBase, words[NWords - 1] % AddrBase,
                 words[NWords] \div AddrBase, words[NWords] % AddrBase>>
  IN  IF t.over THEN t
      ELSE IF within THEN [t EXCEPT !.text = IF i = best.base THEN Append(@, ":") ELSE @]
      ELSE IF quad THEN [text |-> t.text \o colon \o inet_ntop4(bytes, AddrSize), over |-> TRUE]
      ELSE [t EXCEPT !.text = @ \o colon \o Printed(words[i + 1], AddrBase)]

inet_ntop6(words, size) ==
  LET GivenBest(best) ==
        LET t == FoldLeft(LAMBDA acc, i : NtopWord(acc, words, best, i - 1), [text |-> <<>>, over |-> FALSE],
                          [i \in 1 .. NWords |-> i])
            text == IF best.base # -1 /\ best.base + best.len = NWords THEN Append(t.text, ":") ELSE t.text
        IN  IF Len(text) + 1 > size THEN <<>> ELSE text
  IN  GivenBest(BestRun(words))
-----------------------------------------------------------------------------
\* What strtol is to answer: the digits after white space, sign and prefix as a number, or the
\* end of the range it passes.  A prefix "0x" without a digit after it is left out: there
\* strtol.c:69 finds no number, and the string starts with one, "0".
LonePrefix(s, base) ==
  LET n == NumberStart(s, base) IN n.at > 2 /\ CharNth(s, n.at - 1) \in {"x", "X"} /\ RunEnd(s, n.at, 16) = n.at

NumberRight(s, base, low, high, r) ==
  LET n == NumberStart(s, base)
      end == RunEnd(s, n.at, n.base)
      GivenMagnitude(magnitude) ==
        LET exact == IF n.neg THEN -magnitude ELSE magnitude
            far == IF low = 0 THEN magnitude > high ELSE exact \notin low .. high
        IN  \/ LonePrefix(s, base)
            \/ /\ r.end = (IF end = n.at THEN 0 ELSE end)
               /\ r.range = far
               /\ r.val = (IF ~far THEN (IF low = 0 THEN exact % (high + 1) ELSE exact)
                           ELSE IF n.neg /\ low # 0 THEN low ELSE high)
  IN  GivenMagnitude(ValueOf(SubSeq(s, n.at, end - 1), n.base))

NumbersRight(q, r) ==
  /\ NumberRight(q[2], q[3], -(2^(NumBits - 1)), 2^(NumBits - 1) - 1, r.long)
  /\ NumberRight(q[2], q[3], 0, 2^NumBits - 1, r.ulong)
  /\ NumberRight(q[2], q[3], -(2^(MaxNumBits - 1)), 2^(MaxNumBits - 1) - 1, r.imax)
  /\ NumberRight(q[2], q[3], 0, 2^MaxNumBits - 1, r.umax)

\* What the address functions are to answer for four parts as written, each with its base
\* and its value.
QuadsRight(q, r) ==
  LET parts == q[2]
      n == Len(parts)
      fits(ps) == /\ \A i \in 1 .. n - 1 : ps[i].val < AddrBase
                  /\ ps[n].val < AddrBase^(5 - n)
      sum(ps) == FoldLeft(LAMBDA acc, i : acc + ps[i].val * (IF i = n THEN 1 ELSE AddrBase^(4 - i)), 0,
                          [i \in 1 .. n |-> i])
      clean == \A i \in 1 .. n : parts[i].clean
  IN  clean =>
        /\ r.pton = IF n = 4 /\ q[3] # <<"z">> /\ (\A i \in 1 .. n : parts[i].base = 10) /\ fits(parts)
                      THEN sum(parts) ELSE -1
        /\ r.aton = IF n <= 4 /\ q[3] # <<"z">> /\ fits(parts) THEN sum(parts) ELSE -1
        /\ r.addr = IF r.aton = -1 THEN AddrSize - 1 ELSE r.aton

\* The text of an address is read back as the address, and the first of its longest runs of
\* zero words is what it leaves out.
ColonsRight(q, r) ==
  LET words == q[2]
      runs == {<<a, b>> \in (1 .. NWords) \X (1 .. NWords) : a < b /\ \A i \in a .. b : words[i] = 0}
      longest == {x \in runs : \A y \in runs : y[2] - y[1] <= x[2] - x[1]}
      gap == CHOOSE x \in longest : \A y \in longest : x[1] <= y[1]
      hex(from, to) == Joined([i \in 1 .. to - from + 1 |-> Printed(words[from + i - 1], AddrBase)], <<":">>)
      plain == IF runs = {} THEN hex(1, NWords)
               ELSE hex(1, gap[1] - 1) \o <<":", ":">> \o hex(gap[2] + 1, NWords)
  IN  /\ inet_pton6(r.text) = words
      /\ "." \notin ToSet(r.text) => r.text = plain
      /\ r.short = <<>> /\ r.exact = r.text

\* A string without dots is an address just if it is groups of one or two digits between
\* colons, all the words, or fewer and one "::".
ColonTextRight(s, words) ==
  LET colon(i) == CharNth(s, i) = ":"
      groups == Cardinality({i \in DOMAIN s : ~colon(i) /\ (i = 1 \/ colon(i - 1))})
      doubles == {i \in DOMAIN s : colon(i) /\ colon(i + 1)}
      valid == /\ \A i \in DOMAIN s : colon(i) \/ DigitOf[s[i]] \in 0 .. AddrBase - 1
               /\ \A i \in 1 .. Len(s) - 2 : \E k \in i .. i + 2 : colon(k)
               /\ Cardinality(doubles) <= 1
               /\ colon(1) => 1 \in doubles
               /\ colon(Len(s)) => Len(s) - 1 \in doubles
               /\ IF doubles = {} THEN groups = NWords ELSE groups < NWords
  IN  "." \notin ToSet(s) => (words # <<>>) = valid
-----------------------------------------------------------------------------
NumeralInit ==
  /\ \/ \E s \in NumberTexts, base \in {0, 3, 8, 10, 16, 36} : question = <<"number", s, base>>
     \/ \E n \in 1 .. 4, tail \in QuadTails :
          \E parts \in [1 .. n -> QuadParts] : question = <<"quad", parts, tail>>
     \/ \E parts \in [1 .. 5 -> {p \in QuadParts : p.text = <<"1">>}] : question = <<"quad", parts, <<>>>>
     \/ \E words \in [1 .. NWords -> WordValues] : question = <<"colons", words>>
     \/ \E s \in ColonTexts : question = <<"colontext", s>>
  /\ Unanswered

NumeralAnswer(q) ==
  CASE q[1] = "number" ->
         [long |-> strtol(q[2], q[3]), ulong |-> strtoul(q[2], q[3]),
          imax |-> strtoll(q[2], q[3]), umax |-> strtoull(q[2], q[3])]
    [] q[1] = "quad" ->
         LET s == Joined([i \in 1 .. Len(q[2]) |-> q[2][i].text], <<".">>) \o q[3]
         IN  [pton |-> inet_pton4(s, 1), aton |-> inet_aton(s), addr |-> inet_addr(s)]
    [] q[1] = "colons" ->
         LET text == inet_ntop6(q[2], AddrSize)
         IN  [text |-> text, exact |-> inet_ntop6(q[2], Len(text) + 1), short |-> inet_ntop6(q[2], Len(text))]
    [] q[1] = "colontext" -> inet_pton6(q[2])

NumeralCompute ==
  /\ question[1] \in {"number", "quad", "colons", "colontext"}
  /\ Ask(NumeralAnswer)

\* The strtol family gives the number in the text exactly, the end of the range and ERANGE
\* when it does not fit, and where the number ends (strtol.c:44, strtoul.c:43, strtoimax.c:43,
\* strtoumax.c:43), with the cutoff right in every base and for both signs.  inet_pton, inet_aton
\* and inet_addr give the address a text stands for and refuse any other text, except that
\* numbers are taken modulo 2^32 (inet_pton.c:143); inet_ntop's text is short, fits, and is read
\* back as the same address.
NumeralsExact ==
  ~Unanswered =>
    /\ question[1] = "number" => NumbersRight(question, answer)
    /\ question[1] = "quad" => QuadsRight(question, answer)
    /\ question[1] = "colons" => ColonsRight(question, answer)
    /\ question[1] = "colontext" => ColonTextRight(question[2], answer)

-----------------------------------------------------------------------------
(***************************************************************************)
(* Universally unique identifiers: making them (src/core/gen_uuid.c), by   *)
(* the clock or at random, and their texts (parse.c, unparse.c, pack.c,    *)
(* unpack.c, compare.c).                                                   *)
(*                                                                         *)
(* The clock counts microseconds; it may stand still between two calls, go *)
(* on, or be set back.  A microsecond is TicksPerUsec ticks of an          *)
(* identifier (ten in the code), a digit of a text has HexBase values.     *)
(***************************************************************************)

CONSTANTS TicksPerUsec, MAX_ADJUSTMENT,
          SeqBits,         \* the bits of clock_seq (14 in the code)
          TimeBitsLow, TimeBitsMid, TimeBitsHigh,   \* 32, 16 and 12 in the code
          MaxUsec,         \* bound: the last microsecond
          MaxUuids,        \* bound: the identifiers made
          HexBase,
          UuidBytes        \* the identifiers whose texts are looked at

VARIABLES now,             \* the system's clock
          lastTime, adjustment, clockSeq,    \* the static variables of get_clock
          randomFd,        \* the descriptor of get_random_fd, -2 before it is called
          made             \* the identifiers made so far, each with the adjustment of its tick

uuidVars == <<now, lastTime, adjustment, clockSeq, randomFd, made>>

\* Opening /dev/urandom, else /dev/random, the first time.
get_random_fd(fd) == IF randomFd # -2 THEN randomFd' = randomFd ELSE fd \in {3, -1} /\ randomFd' = fd

\* The ticks of this call and the sequence number, from what get_clock remembers.  While the
\* adjustments of a microsecond are used up it waits for the next one.
get_clock(random) ==
  LET unset == lastTime = -1
      seq == IF unset THEN random % 2^SeqBits ELSE clockSeq
      back == ~unset /\ now < lastTime
      same == ~unset /\ now = lastTime
  IN  /\ same => adjustment < MAX_ADJUSTMENT
      /\ lastTime' = now
      /\ adjustment' = IF same THEN adjustment + 1 ELSE 0
      /\ clockSeq' = IF back THEN (seq + 1) % 2^SeqBits ELSE seq

ClockReg == now * TicksPerUsec + adjustment'

\* An identifier, with version and variant in the high bits of their fields.
UuidFields(low, mid, hi, version, seq, node) ==
  [time_low |-> low, time_mid |-> mid, time_hi |-> hi, version |-> version, clock_seq |-> seq, node |-> node]

uuid_generate_time(random) ==
  /\ get_clock(random)
  /\ made' = Append(made, [id |-> UuidFields(ClockReg % 2^TimeBitsLow,
                                             (ClockReg \div 2^TimeBitsLow) % 2^TimeBitsMid,
                                             (ClockReg \div 2^(TimeBitsLow + TimeBitsMid)) % 2^TimeBitsHigh,
                                             1, clockSeq', "node"),
                           adjusted |-> adjustment'])

uuid_generate_random(random) ==
  /\ made' = Append(made, [id |-> UuidFields(random % 2^TimeBitsLow, 0, 0, 4, random % 2^SeqBits, "random"),
                           adjusted |-> 0])
  /\ UNCHANGED <<lastTime, adjustment, clockSeq>>

uuid_generate(fd, random) ==
  /\ get_random_fd(fd)
  /\ IF randomFd' >= 0 THEN uuid_generate_random(random) ELSE uuid_generate_time(random)

Made(random) ==
  /\ Len(made) < MaxUuids
  /\ \/ \E fd \in {3, -1} : uuid_generate(fd, random) /\ UNCHANGED now
     \/ \E fd \in {3, -1} : uuid_generate_time(random) /\ UNCHANGED now
                            /\ IF lastTime = -1 THEN get_random_fd(fd) ELSE UNCHANGED randomFd

ClockGoesOn == now < MaxUsec /\ now' = now + 1 /\ UNCHANGED <<lastTime, adjustment, clockSeq, randomFd, made>>

ClockSetBack == now > 0 /\ now' = now - 1 /\ UNCHANGED <<lastTime, adjustment, clockSeq, randomFd, made>>

NoUuids ==
  now = 1 /\ lastTime = -1 /\ adjustment = 0 /\ clockSeq = 0 /\ randomFd = -2

UuidStart == NoUuids /\ made = <<>>

UuidNext == Made(2) \/ ClockGoesOn \/ ClockSetBack
-----------------------------------------------------------------------------
\* The fields of sixteen bytes: four, two, two and two bytes, high byte first, and the node.
ByteSize == HexBase^2

BigEndian(bytes) == FoldLeft(LAMBDA acc, b : acc * ByteSize + b, 0, bytes)

uuid_unpack(bytes) ==
  [time_low |-> BigEndian(SubSeq(bytes, 1, 4)), time_mid |-> BigEndian(SubSeq(bytes, 5, 6)),
   time_hi_and_version |-> BigEndian(SubSeq(bytes, 7, 8)),
   clock_seq |-> BigEndian(SubSeq(bytes, 9, 10)), node |-> SubSeq(bytes, 11, 16)]

ByteOf(v, k) == (v \div ByteSize^k) % ByteSize

uuid_pack(u) ==
  <<ByteOf(u.time_low, 3), ByteOf(u.time_low, 2), ByteOf(u.time_low, 1), ByteOf(u.time_low, 0),
    ByteOf(u.time_mid, 1), ByteOf(u.time_mid, 0), ByteOf(u.time_hi_and_version, 1),
    ByteOf(u.time_hi_and_version, 0), ByteOf(u.clock_seq, 1), ByteOf(u.clock_seq, 0)>> \o u.node

\* n digits with leading zeros.
Padded(v, n) == [i \in 1 .. n |-> Lower[((v \div HexBase^(n - i)) % HexBase) + 1]]

uuid_unparse(bytes) ==
  LET u == uuid_unpack(bytes)
  IN  Padded(u.time_low, 8) \o <<"-">> \o Padded(u.time_mid, 4) \o <<"-">>
      \o Padded(u.time_hi_and_version, 4) \o <<"-">> \o Padded(u.clock_seq \div ByteSize, 2)
      \o Padded(u.clock_seq % ByteSize, 2) \o <<"-">>
      \o FoldLeft(LAMBDA acc, b : acc \o Padded(b, 2), <<>>, u.node)

\* The number that starts at place i of a text counted from 0, by strtoul.
HexAt(text, i) == ValueOf(SubSeq(text, i + 1, RunEnd(text, i + 1, HexBase) - 1), HexBase)

uuid_parse(text) ==
  IF \/ Len(text) # 36
     \/ \E i \in 0 .. 35 : IF i \in {8, 13, 18, 23} THEN text[i + 1] # "-"
                           ELSE DigitOf[text[i + 1]] \notin 0 .. HexBase - 1
  THEN <<>>
  ELSE uuid_pack([time_low |-> HexAt(text, 0), time_mid |-> HexAt(text, 9),
                  time_hi_and_version |-> HexAt(text, 14), clock_seq |-> HexAt(text, 19),
                  node |-> [i \in 1 .. 6 |-> ValueOf(SubSeq(text, 2 * i + 23, 2 * i + 24), HexBase)]])

\* -1, 0 or 1 for the first of the pairs that differ.
Uucmp(pairs) ==
  LET differ == {i \in DOMAIN pairs : pairs[i][1] # pairs[i][2]}
      first == CHOOSE i \in differ : \A j \in differ : i <= j
  IN  IF differ = {} THEN 0 ELSE IF pairs[first][1] < pairs[first][2] THEN -1 ELSE 1

uuid_compare(b1, b2) ==
  LET u1 == uuid_unpack(b1)
      u2 == uuid_unpack(b2)
  IN  Uucmp(<<<<u1.time_low, u2.time_low>>, <<u1.time_mid, u2.time_mid>>,
              <<u1.time_hi_and_version, u2.time_hi_and_version>>, <<u1.clock_seq, u2.clock_seq>>>>
            \o [i \in 1 .. 6 |-> <<u1.node[i], u2.node[i]>>])
-----------------------------------------------------------------------------
UuidInit ==
  /\ \/ \E b \in UuidBytes, k \in 0 .. 36, c \in {"-", "3", "z"} : question = <<"uuid", b, k, c>>
     \/ \E b1, b2 \in UuidBytes : question = <<"uuidorder", b1, b2>>
  /\ Unanswered

\* The text with place k replaced by c, or as it is.
Altered(text, k, c) == IF k = 0 THEN text ELSE [text EXCEPT ![k] = c]

UuidAnswer(q) ==
  IF q[1] = "uuid" THEN LET text == Altered(uuid_unparse(q[2]), q[3], q[4]) IN [text |-> text, bytes |-> uuid_parse(text)]
  ELSE uuid_compare(q[2], q[3])

UuidCompute == question[1] \in {"uuid", "uuidorder"} /\ Ask(UuidAnswer)

\* Two identifiers a process makes by the clock differ, however fast they are made and however the clock is
\* set back, unless one of them is the last of its microsecond: gen_uuid.c:246 lets the
\* adjustment reach MAX_ADJUSTMENT, which is the first tick of the next microsecond.  A text
\* made from an identifier is read as that identifier, an altered one as what it says or not at
\* all (parse.c:42), and the order of identifiers is the order of their bytes.
UuidsSound ==
  /\ \A i, j \in DOMAIN made :
       i # j /\ made[i].id = made[j].id /\ made[i].id.version = 1 =>
         MAX_ADJUSTMENT \in {made[i].adjusted, made[j].adjusted}
  /\ question[1] = "uuid" /\ ~Unanswered =>
       IF answer.bytes = <<>>
         THEN question[3] # 0 /\ (question[4] = "z" \/ (question[3] \in {9, 14, 19, 24}) # (question[4] = "-"))
         ELSE uuid_unparse(answer.bytes) = answer.text
  /\ question[1] = "uuidorder" /\ ~Unanswered =>
       answer = Uucmp([i \in 1 .. 16 |-> <<question[2][i], question[3][i]>>])
=============================================================================
