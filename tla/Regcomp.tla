------------------------------ MODULE Regcomp ------------------------------
(***************************************************************************)
(* regcomp: extended and basic regular expressions, and plain strings, are *)
(* parsed straight into a strip of operators, with jumps as offsets that   *)
(* have to be mended whenever an operator is inserted before them.         *)
(* Characters are strings, in the order of Chars; a class name is one of   *)
(* them too.  Sops are numbered from 0, as in the code.                    *)
(***************************************************************************)
EXTENDS Integers, SequencesExt, FiniteSets

CONSTANTS Chars,       \* the characters in order
          Cases,       \* pairs <<lower, upper>>
          ClassNames,  \* [:name:], a function to sets of characters
          DUPMAX,      \* the largest count in braces
          NPAREN       \* parentheses 1 .. NPAREN - 1 can be referred to

NUL == "NUL"
NL == "NL"
OUT == "OUT"           \* no character
INFINITY == DUPMAX + 1

Digit == [c \in {"0", "1", "2", "3"} |-> CHOOSE d \in 0 .. 3 : ToString(d) = c]

isdigit(c) == c \in DOMAIN Digit
isalpha(c) == \E p \in Cases : c \in {p[1], p[2]}
CharSet == Range(Chars)
Code(c) == CHOOSE i \in DOMAIN Chars : Chars[i] = c

\* The letter in the other case, or the character itself.
othercase(c) ==
  IF ~ isalpha(c) THEN c
  ELSE LET p == CHOOSE p \in Cases : c \in {p[1], p[2]} IN IF c = p[1] THEN p[2] ELSE p[1]

Sop(op, opnd) == [op |-> op, opnd |-> opnd]

\* struct parse, with the guts that grow during the parse.  A strip keeps what was
\* dropped from it behind its length.
StartParse(pattern, cflags) ==
  [pat |-> pattern, next |-> 1, error |-> "", strip |-> <<>>, slen |-> 0,
   pbegin |-> [i \in 1 .. NPAREN - 1 |-> 0], pend |-> [i \in 1 .. NPAREN - 1 |-> 0],
   nsub |-> 0, nbol |-> 0, neol |-> 0, backrefs |-> FALSE, sets |-> <<>>,
   cats |-> [c \in CharSet |-> 0], ncats |-> 1, cflags |-> cflags]
-----------------------------------------------------------------------------
(* The macros of the parser.                                               *)

MORE(p) == p.next <= Len(p.pat)
MORE2(p) == p.next + 1 <= Len(p.pat)
PEEK(p) == IF MORE(p) THEN p.pat[p.next] ELSE NUL
PEEK2(p) == IF MORE2(p) THEN p.pat[p.next + 1] ELSE NUL
SEE(p, c) == MORE(p) /\ PEEK(p) = c
SEETWO(p, a, b) == MORE(p) /\ MORE2(p) /\ PEEK(p) = a /\ PEEK2(p) = b
Skip(p, n) == [p EXCEPT !.next = @ + n]
EAT(p, c) == IF SEE(p, c) THEN Skip(p, 1) ELSE p

\* The first error stays, and nothing is left to be parsed.
seterr(p, e) ==
  [p EXCEPT !.error = IF @ = "" THEN e ELSE @, !.pat = <<>>, !.next = 1]

REQUIRE(p, cond, e) == IF cond THEN p ELSE seterr(p, e)
MUSTEAT(p, c, e) == IF SEE(p, c) THEN Skip(p, 1) ELSE seterr(p, e)

HERE(p) == p.slen
THERE(p) == p.slen - 1
THERETHERE(p) == p.slen - 2
DROP(p, n) == [p EXCEPT !.slen = @ - n]

doemit(p, op, opnd) ==
  IF p.error /= "" THEN p
  ELSE [p EXCEPT !.slen = @ + 1,
                 !.strip = SubSeq(@, 1, p.slen) \o <<Sop(op, opnd)>> \o SubSeq(@, p.slen + 2, Len(@))]

\* Mutant: the parentheses behind the place stay where they were.
MendedNot(p, pos) == p

\* An operator put in at pos moves the parentheses behind it.
Mended(p, pos) ==
  LET Up(f) == [i \in DOMAIN f |-> IF f[i] >= pos THEN f[i] + 1 ELSE f[i]]
  IN  [p EXCEPT !.pbegin = Up(@), !.pend = Up(@)]

doinsert(p, op, pos) ==
  IF p.error /= "" THEN p
  ELSE LET q == doemit(p, op, HERE(p) - pos + 1)
       IN  [Mended(q, pos) EXCEPT !.strip = SubSeq(@, 1, pos) \o <<@[q.slen]>> \o SubSeq(@, pos + 1, q.slen - 1)
                                              \o SubSeq(@, q.slen + 1, Len(@))]

dofwd(p, pos, value) ==
  IF p.error /= "" THEN p ELSE [p EXCEPT !.strip[pos + 1].opnd = value]

AHEAD(p, pos) == dofwd(p, pos, HERE(p) - pos)
ASTERN(p, op, pos) == doemit(p, op, HERE(p) - pos)

dupl(p, start, finish) ==
  [p EXCEPT !.slen = @ + (finish - start),
            !.strip = SubSeq(@, 1, p.slen) \o SubSeq(@, start + 1, finish)
                        \o SubSeq(@, p.slen + (finish - start) + 1, Len(@))]

\* y? as (y|).
Optional(p, pos) ==
  LET a == AHEAD(ASTERN(doinsert(p, "OCH_", pos), "OOR1", pos), pos)
      b == doemit(a, "OOR2", 0)
      c == AHEAD(b, THERE(b))
  IN  ASTERN(c, "O_CH", THERETHERE(c))

Plus(p, pos) == ASTERN(doinsert(p, "OPLUS_", pos), "O_PLUS", pos)
Star(p, pos) == LET q == Plus(p, pos) IN ASTERN(doinsert(q, "OQUEST_", pos), "O_QUEST", pos)

\* x{from,to} of what stands from start on.
RECURSIVE repeat(_, _, _, _)
repeat(p, start, from, to) ==
  LET finish == HERE(p)
      n(k) == IF k <= 1 THEN k ELSE IF k = INFINITY THEN "INF" ELSE "N"
      copied == dupl(p, start, finish)
  IN  IF p.error /= "" THEN p
      ELSE IF from = 0 /\ to = 0 THEN DROP(p, finish - start)
      ELSE IF from = 0
      THEN LET a == repeat(doinsert(p, "OCH_", start), start + 1, 1, to)
               b == doemit(AHEAD(ASTERN(a, "OOR1", start), start), "OOR2", 0)
               c == AHEAD(b, THERE(b))
           IN  ASTERN(c, "O_CH", THERETHERE(c))
      ELSE IF from = 1 /\ to = 1 THEN p
      ELSE IF from = 1 /\ to = INFINITY THEN Plus(p, start)
      ELSE IF from = 1
      THEN LET a == Optional(p, start)
           IN  repeat(dupl(a, start + 1, finish + 1), HERE(a), 1, to - 1)
      ELSE repeat(copied, finish, from - 1, IF to = INFINITY THEN to ELSE to - 1)
-----------------------------------------------------------------------------
(* Bracketed sets.                                                         *)

CHadd(cs, c) ==
  [cs EXCEPT !.chars = @ \cup {c}, !.hash = (@ + (IF c \in CharSet THEN Code(c) ELSE 0)) % 256]
CHsub(cs, c) ==
  [cs EXCEPT !.chars = @ \ {c}, !.hash = (@ - (IF c \in CharSet THEN Code(c) ELSE 0)) % 256]

\* A name that is ended by endc and a bracket; `sym' is the character it names.
p_b_coll_elem(p, endc) ==
  LET ends == {i \in p.next .. Len(p.pat) - 1 : p.pat[i] = endc /\ p.pat[i + 1] = "]"}
      end == CHOOSE i \in ends : \A j \in ends : i <= j
  IN  IF ends = {} THEN [p |-> seterr(p, "EBRACK"), sym |-> NUL]
      ELSE IF end - p.next = 1 THEN [p |-> [p EXCEPT !.next = end], sym |-> PEEK(p)]
      ELSE [p |-> seterr([p EXCEPT !.next = end], "ECOLLATE"), sym |-> NUL]

EATTWO(p, a, b, e) == IF SEETWO(p, a, b) THEN Skip(p, 2) ELSE seterr(p, e)

p_b_symbol(p0) ==
  LET p == REQUIRE(p0, MORE(p0), "EBRACK")
      r == p_b_coll_elem(Skip(p, 2), ".")
  IN  IF SEETWO(p, "[", ".") THEN [p |-> EATTWO(r.p, ".", "]", "ECOLLATE"), sym |-> r.sym]
      ELSE [p |-> Skip(p, 1), sym |-> PEEK(p)]

p_b_cclass(p, cs) ==
  IF PEEK(p) \in DOMAIN ClassNames
  THEN [p |-> Skip(p, 1), cs |-> FoldSet(LAMBDA c, s : CHadd(s, c), cs, ClassNames[PEEK(p)])]
  ELSE [p |-> seterr(p, "ECTYPE"), cs |-> cs]

\* The characters from start to finish.
AddRange(cs, start, finish) ==
  IF start \notin CharSet \/ finish \notin CharSet THEN CHadd(cs, start)
  ELSE FoldSet(LAMBDA i, s : CHadd(s, Chars[i]), cs, Code(start) .. Code(finish))

InOrder(start, finish) ==
  start = finish \/ (start \in CharSet /\ finish \in CharSet /\ Code(start) <= Code(finish))

RangeFrom(p, cs, first, last) ==
  IF ~ InOrder(first.sym, last.sym) THEN [p |-> seterr(last.p, "ERANGE"), cs |-> cs]
  ELSE [p |-> last.p, cs |-> AddRange(cs, first.sym, last.sym)]

CharOrRange(p, cs, first) ==
  LET ranged == SEE(first.p, "-") /\ MORE2(first.p) /\ PEEK2(first.p) /= "]"
      dash == Skip(first.p, 1)
  IN  RangeFrom(p, cs, first,
                IF ~ ranged THEN first
                ELSE IF SEE(dash, "-") THEN [p |-> Skip(dash, 1), sym |-> "-"] ELSE p_b_symbol(dash))

\* The end of a class, c] .
EndOfClass(q, c, e) == EATTWO(REQUIRE(q, MORE(q), "EBRACK"), c, "]", e)

ClassTerm(p, cs, c) ==
  LET two == REQUIRE(Skip(p, 2), MORE(Skip(p, 2)), "EBRACK")
      named == REQUIRE(two, PEEK(two) \notin {"-", "]"}, IF c = ":" THEN "ECTYPE" ELSE "ECOLLATE")
      class == p_b_cclass(named, cs)
      equiv == p_b_coll_elem(named, "=")
  IN  IF c = ":" THEN [p |-> EndOfClass(class.p, c, "ECTYPE"), cs |-> class.cs]
      ELSE [p |-> EndOfClass(equiv.p, c, "ECOLLATE"), cs |-> CHadd(cs, equiv.sym)]

\* A class, an equivalence class, a character or a range.
p_b_term(p, cs) ==
  LET c == IF PEEK(p) = "[" THEN PEEK2(p) ELSE NUL
  IN  IF PEEK(p) = "-" THEN [p |-> seterr(p, "ERANGE"), cs |-> cs]
      ELSE IF c \in {":", "="} THEN ClassTerm(p, cs, c)
      ELSE CharOrRange(p, cs, p_b_symbol(p))

RECURSIVE p_b_terms(_, _)
p_b_terms(p, cs) ==
  IF MORE(p) /\ PEEK(p) /= "]" /\ ~ SEETWO(p, "-", "]")
  THEN LET r == p_b_term(p, cs) IN p_b_terms(r.p, r.cs)
  ELSE [p |-> p, cs |-> cs]

\* Both cases of every letter.
WithCases(cs) ==
  FoldSet(LAMBDA c, s : IF othercase(c) /= c THEN CHadd(s, othercase(c)) ELSE s, cs, cs.chars)

Inverted(p, cs) ==
  LET all == FoldSet(LAMBDA c, s : IF c \in s.chars THEN CHsub(s, c) ELSE CHadd(s, c), cs, CharSet)
  IN  IF "NEWLINE" \in p.cflags THEN CHsub(all, NL) ELSE all

\* The set, or an earlier one that is the same; a set is given back only if it is
\* the last one.
freezeset(p, cs) ==
  LET same == {i \in DOMAIN p.sets : p.sets[i].hash = cs.hash /\ p.sets[i].chars = cs.chars}
  IN  IF same /= {} THEN doemit(p, "OANYOF", CHOOSE i \in same : \A j \in same : i <= j)
      ELSE doemit([p EXCEPT !.sets = Append(@, cs)], "OANYOF", Len(p.sets) + 1)

RECURSIVE p_bracket(_), ordinary(_, _)
\* The set between brackets, after its last character: q is the parser, or the error.
BracketSet(p, cs, q) ==
  IF q.error /= "" THEN q
  ELSE IF Cardinality(cs.chars) = 1 THEN ordinary(q, CHOOSE c \in cs.chars : TRUE)
  ELSE freezeset(q, cs)

AllCases(p, cs) == IF "ICASE" \in p.cflags THEN WithCases(cs) ELSE cs

BracketEnd(p, b) ==
  LET cs == AllCases(p, IF SEE(b.p, "-") THEN CHadd(b.cs, "-") ELSE b.cs)
  IN  BracketSet(p, IF SEE(p, "^") THEN Inverted(p, cs) ELSE cs, MUSTEAT(EAT(b.p, "-"), "]", "EBRACK"))

BracketFrom(p, a) ==
  LET none == [chars |-> {}, hash |-> 0]
      first == SEE(a, "]") \/ SEE(a, "-")
  IN  BracketEnd(p, p_b_terms(IF first THEN Skip(a, 1) ELSE a, IF first THEN CHadd(none, PEEK(a)) ELSE none))

p_bracket(p) ==
  LET word(c) == SubSeq(p.pat, p.next, p.next + 5) = <<"[", ":", c, ":", "]", "]">>
      long == p.next + 5 <= Len(p.pat)
  IN  IF long /\ word("<") THEN Skip(doemit(p, "OBOW", 0), 6)
      ELSE IF long /\ word(">") THEN Skip(doemit(p, "OEOW", 0), 6)
      ELSE BracketFrom(p, EAT(p, "^"))

\* The parser is sent over another pattern, a bracket, and comes back.
ComeBack(p, q) == [q EXCEPT !.pat = p.pat, !.next = p.next]

ByBracket(p, pattern) == ComeBack(p, p_bracket([p EXCEPT !.pat = pattern, !.next = 1]))

bothcases(p, c) == ByBracket(p, <<c, "]">>)
nonnewline(p) == ByBracket(p, <<"^", NL, "]">>)

CharCategory(q, c) ==
  IF c \in CharSet /\ q.cats[c] = 0 THEN [q EXCEPT !.cats[c] = q.ncats, !.ncats = @ + 1] ELSE q

ordinary(p, c) ==
  IF "ICASE" \in p.cflags /\ othercase(c) /= c THEN bothcases(p, c)
  ELSE CharCategory(doemit(p, "OCHAR", c), c)

AnyChar(p) == IF "NEWLINE" \in p.cflags THEN nonnewline(p) ELSE doemit(p, "OANY", 0)
-----------------------------------------------------------------------------
(* Counts in braces, and the two grammars.                                 *)

RECURSIVE Count(_, _, _)
Count(p, count, ndigits) ==
  IF MORE(p) /\ isdigit(PEEK(p)) /\ count <= DUPMAX
  THEN Count(Skip(p, 1), count * 10 + Digit[PEEK(p)], ndigits + 1)
  ELSE [p |-> REQUIRE(p, ndigits > 0 /\ count <= DUPMAX, "BADBR"), n |-> count]

p_count(p) == Count(p, 0, 0)

\* `{' was eaten: the counts, and the repetition of what stands from pos on.
Counted(p, pos) ==
  LET a == p_count(p)
      comma == SEE(a.p, ",")
      b == EAT(a.p, ",")
      c == p_count(b)
      two == comma /\ isdigit(PEEK(b))
      to == IF two THEN c.n ELSE IF comma THEN INFINITY ELSE a.n
      q == IF two THEN REQUIRE(c.p, a.n <= c.n, "BADBR") ELSE b
  IN  repeat(q, pos, a.n, to)

\* The closing brace, or an error that says whether there is one at all.
Closed(p, seen, there, n) ==
  IF seen THEN Skip(p, n) ELSE seterr(p, IF there THEN "BADBR" ELSE "EBRACE")

ClosedERE(p) ==
  Closed(p, SEE(p, "}"), \E i \in p.next .. Len(p.pat) : p.pat[i] = "}", 1)

ClosedBRE(p) ==
  Closed(p, SEETWO(p, "\\", "}"),
         \E i \in p.next .. Len(p.pat) - 1 : p.pat[i] = "\\" /\ p.pat[i + 1] = "}", 2)

\* ( and ), with the place of the parentheses noted for references to them.
Open(p) ==
  LET n == p.nsub + 1
      q == [p EXCEPT !.nsub = n, !.pbegin = IF n < NPAREN THEN [@ EXCEPT ![n] = HERE(p)] ELSE @]
  IN  doemit(q, "OLPAREN", n)

Close(p, n) ==
  doemit([p EXCEPT !.pend = IF n < NPAREN THEN [@ EXCEPT ![n] = HERE(p)] ELSE @], "ORPAREN", n)

\* Anchors.
Bol(p) == [doemit(p, "OBOL", 0) EXCEPT !.nbol = @ + 1]
Eol(p) == [doemit(p, "OEOL", 0) EXCEPT !.neol = @ + 1]

Repeats(p) ==
  MORE(p) /\ (PEEK(p) \in {"*", "+", "?"} \/ (PEEK(p) = "{" /\ MORE2(p) /\ isdigit(PEEK2(p))))

RECURSIVE p_ere(_, _), Branches(_, _, _, _, _), Concat(_, _)

EreGroup(o, n) == MUSTEAT(Close(IF SEE(o, ")") THEN o ELSE p_ere(o, ")"), n), ")", "EPAREN")

EreAtom(p0) ==
  LET c == PEEK(p0)
      p == Skip(p0, 1)
      e == REQUIRE(p, MORE(p), "EESCAPE")
      n == p.nsub + 1
  IN  CASE c = "(" -> EreGroup(Open(REQUIRE(p, MORE(p), "EPAREN")), n)
        [] c = ")" -> seterr(p, "EPAREN")
        [] c = "^" -> Bol(p)
        [] c = "$" -> Eol(p)
        [] c = "|" -> seterr(p, "EMPTY")
        [] c \in {"*", "+", "?"} -> seterr(p, "BADRPT")
        [] c = "." -> AnyChar(p)
        [] c = "[" -> p_bracket(p)
        [] c = "\\" -> ordinary(Skip(e, 1), PEEK(e))
        [] c = "{" -> ordinary(REQUIRE(p, ~ isdigit(PEEK(p)), "BADRPT"), c)
        [] OTHER -> ordinary(p, c)

OnceRepeated(c) == IF Repeats(c) THEN seterr(c, "BADRPT") ELSE c

\* a: the parser after the atom at pos, which began with c.
EreRepeated(a, c, pos) ==
  LET b == REQUIRE(Skip(a, 1), c /= "^", "BADRPT")
  IN  IF ~ Repeats(a) THEN a
      ELSE OnceRepeated(CASE PEEK(a) = "*" -> Star(b, pos)
                          [] PEEK(a) = "+" -> Plus(b, pos)
                          [] PEEK(a) = "?" -> Optional(b, pos)
                          [] OTHER -> ClosedERE(Counted(b, pos)))

p_ere_exp(p) == EreRepeated(EreAtom(p), PEEK(p), HERE(p))

Concat(p, stop) ==
  IF MORE(p) /\ PEEK(p) \notin {"|", stop} THEN Concat(p_ere_exp(p), stop) ELSE p

NonEmpty(c, conc) == REQUIRE(c, HERE(c) /= conc, "EMPTY")

NextBranch(d, b, stop) == Branches(doemit(d, "OOR2", 0), stop, FALSE, THERE(b), HERE(d))

BranchLinked(b, stop, fwd) == NextBranch(AHEAD(b, fwd), b, stop)

\* The branch from conc on ends at q.
BranchEnd(q, stop, first, conc, prevback, prevfwd) ==
  IF SEE(q, "|")
  THEN BranchLinked(ASTERN(IF first THEN doinsert(Skip(q, 1), "OCH_", conc) ELSE Skip(q, 1), "OOR1",
                           IF first THEN conc ELSE prevback),
                    stop, IF first THEN conc ELSE prevfwd)
  ELSE IF first THEN q
  ELSE ASTERN(AHEAD(q, prevfwd), "O_CH", prevback)

\* One branch after the other; prevback and prevfwd are the ends of the last one.
Branches(p, stop, first, prevback, prevfwd) ==
  BranchEnd(NonEmpty(Concat(p, stop), HERE(p)), stop, first, HERE(p), prevback, prevfwd)

p_ere(p, stop) == Branches(p, stop, TRUE, 0, 0)

RECURSIVE p_str(_)
p_str(p) == IF MORE(p) THEN p_str(ordinary(Skip(p, 1), PEEK(p))) ELSE p

RECURSIVE p_bre(_, _, _), BreLoop(_, _, _, _, _), BreOn(_, _, _)

\* \n: the group again, between brackets of its own.
Reference(p, i) ==
  [IF i < NPAREN /\ p.pend[i] /= 0
   THEN doemit(LET q == doemit(p, "OBACK_", i) IN dupl(q, q.pbegin[i] + 1, q.pend[i]), "O_BACK", i)
   ELSE seterr(p, "ESUBREG")
     EXCEPT !.backrefs = TRUE]

BreGroup(o, n) ==
  EATTWO(Close(IF MORE(o) /\ ~ SEETWO(o, "\\", ")") THEN p_bre(o, "\\", ")") ELSE o, n), "\\", ")", "EPAREN")

BreEscaped(e, c) ==
  LET p == Skip(e, 1)
  IN  CASE c = "(" -> BreGroup(Open(p), p.nsub + 1)
        [] c = "{" -> seterr(p, "BADRPT")
        [] c \in {")", "}"} -> seterr(p, "EPAREN")
        [] isdigit(c) /\ c /= "0" -> Reference(p, Digit[c])
        [] OTHER -> ordinary(p, c)

BreAtom(p0, starordinary) ==
  LET p == Skip(p0, 1)
      c == PEEK(p0)
      e == REQUIRE(p, MORE(p), "EESCAPE")
  IN  CASE c = "\\" -> BreEscaped(e, PEEK(e))
        [] c = "." -> AnyChar(p)
        [] c = "[" -> p_bracket(p)
        [] c = "*" -> ordinary(REQUIRE(p, starordinary, "BADRPT"), c)
        [] OTHER -> ordinary(p, c)

\* `dollar' tells whether it was a bare $.
BreRepeated(a, c, pos) ==
  IF SEE(a, "*") THEN [p |-> Star(Skip(a, 1), pos), dollar |-> FALSE]
  ELSE IF SEETWO(a, "\\", "{")
  THEN [p |-> ClosedBRE(Counted(Skip(a, 2), pos)), dollar |-> FALSE]
  ELSE [p |-> a, dollar |-> c = "$"]

p_simp_re(p, starordinary) == BreRepeated(BreAtom(p, starordinary), PEEK(p), HERE(p))

\* A trailing $ was taken for a character, and becomes an anchor.
BreLoop(p, end1, end2, first, dollar) ==
  IF MORE(p) /\ ~ SEETWO(p, end1, end2) THEN BreOn(p_simp_re(p, first), end1, end2)
  ELSE IF dollar THEN Eol(DROP(p, 1)) ELSE p

BreOn(r, end1, end2) == BreLoop(r.p, end1, end2, FALSE, r.dollar)

p_bre(p, end1, end2) ==
  NonEmpty(BreLoop(IF SEE(p, "^") THEN Bol(Skip(p, 1)) ELSE p, end1, end2, TRUE, FALSE), HERE(p))
-----------------------------------------------------------------------------
(* What is known of the strip before it is run.                            *)

At(strip, pc) == strip[pc + 1]

\* Characters no set tells apart share a category.
categorize(p) ==
  LET SetsOf(c) == {i \in DOMAIN p.sets : c \in p.sets[i].chars}
      Step(q, c) ==
        IF q.cats[c] /= 0 \/ SetsOf(c) = {} THEN q
        ELSE [q EXCEPT !.ncats = @ + 1,
                       !.cats = [d \in CharSet |->
                                   IF d = c \/ (Code(d) > Code(c) /\ q.cats[d] = 0 /\ SetsOf(d) = SetsOf(c))
                                   THEN q.ncats ELSE q.cats[d]]]
  IN  IF p.error /= "" THEN p ELSE FoldLeft(Step, p, Chars)

\* Past an optional part, or -1 if the jumps are wrong.
RECURSIVE Past(_, _)
Past(strip, pc) ==
  LET to == pc + At(strip, pc).opnd
      op == At(strip, to).op
  IN  IF op \in {"O_QUEST", "O_CH"} THEN to
      ELSE IF op = "OOR2" THEN Past(strip, to) ELSE -1

\* The longest string of characters that every match contains.
RECURSIVE Must(_, _, _, _)
Must(strip, pc, run, best) ==
  LET s == At(strip, pc)
      longer == IF Len(run) > Len(best) THEN run ELSE best
  IN  CASE s.op = "OCHAR" -> Must(strip, pc + 1, Append(run, s.opnd), best)
        [] s.op \in {"OPLUS_", "OLPAREN", "ORPAREN"} -> Must(strip, pc + 1, run, best)
        [] s.op \in {"OQUEST_", "OCH_"} ->
             IF Past(strip, pc) = -1 THEN [must |-> best, bad |-> TRUE]
             ELSE Must(strip, Past(strip, pc) + 1, <<>>, longer)
        [] s.op = "OEND" -> [must |-> longer, bad |-> FALSE]
        [] OTHER -> Must(strip, pc + 1, <<>>, longer)

findmust(strip) == Must(strip, 1, <<>>, <<>>)

\* How deep + is nested, and whether every one is closed.
pluscount(strip) ==
  LET Step(x, s) ==
        CASE s.op = "OPLUS_" -> [x EXCEPT !.nest = @ + 1]
          [] s.op = "O_PLUS" -> [nest |-> x.nest - 1, deepest |-> IF x.nest > x.deepest THEN x.nest ELSE x.deepest]
          [] OTHER -> x
      x == FoldLeft(Step, [nest |-> 0, deepest |-> 0], strip)
  IN  [nplus |-> x.deepest, bad |-> x.nest /= 0]

Compiled(r, strip, m, c, cflags) ==
  [error |-> IF r.error = "" /\ (m.bad \/ c.bad) THEN "ASSERT" ELSE r.error,
   strip |-> strip, sets |-> r.sets, cats |-> r.cats, nsub |-> r.nsub,
   nbol |-> r.nbol, neol |-> r.neol, backrefs |-> r.backrefs, cflags |-> cflags,
   must |-> m.must, nplus |-> c.nplus]

Finished(r, strip, cflags) ==
  Compiled(r, strip, IF r.error /= "" THEN [must |-> <<>>, bad |-> FALSE] ELSE findmust(strip),
           IF r.error /= "" THEN [nplus |-> 0, bad |-> FALSE] ELSE pluscount(strip), cflags)

Categorized(r, cflags) == Finished(r, SubSeq(r.strip, 1, r.slen), cflags)

ParsedBy(p, cflags) ==
  IF "EXTENDED" \in cflags THEN p_ere(p, OUT)
  ELSE IF "NOSPEC" \in cflags THEN p_str(REQUIRE(p, MORE(p), "EMPTY"))
  ELSE p_bre(p, OUT, OUT)

regcomp(pattern, cflags) ==
  IF {"EXTENDED", "NOSPEC"} \subseteq cflags THEN [error |-> "INVARG"]
  ELSE Categorized(categorize(doemit(ParsedBy(doemit(StartParse(pattern, cflags), "OEND", 0), cflags), "OEND", 0)),
                   cflags)
=============================================================================
