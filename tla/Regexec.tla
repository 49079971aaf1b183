------------------------------ MODULE Regexec ------------------------------
(***************************************************************************)
(* regexec: the strip is run over the string with all its states at once,  *)
(* forwards to find out whether and where there is a match, then again to  *)
(* find its end, and recursively to find what the parentheses matched.     *)
(* Positions in a string are numbered from 0; NULL is -1.                  *)
(* The asserts of the engine are compiled out (utils.h).                   *)
(***************************************************************************)
EXTENDS Regcomp, Question

CONSTANTS Subjects,       \* the strings searched
          Expressions,    \* regular expressions as trees, see `Ends'
          Patterns,       \* sequences of characters, of any form
          LongBits,       \* the states a word has bits for
          MAX_RECURSION

NULL == -1
NonChar == {"NOTHING", "BOL", "EOL", "BOLEOL", "BOW", "EOW"}

ISWORD(c) == isalpha(c) \/ isdigit(c) \/ c = "_"

CharAt(m, p) == IF p = m.endp THEN OUT ELSE m.string[p + 1]
CharBefore(m, p) == IF p = m.beginp THEN OUT ELSE m.string[p]

\* Whether the operator matches one character.
Accepts(g, s, ch) ==
  CASE s.op = "OCHAR" -> ch = s.opnd
    [] s.op = "OBOL" -> ch \in {"BOL", "BOLEOL"}
    [] s.op = "OEOL" -> ch \in {"EOL", "BOLEOL"}
    [] s.op = "OBOW" -> ch = "BOW"
    [] s.op = "OEOW" -> ch = "EOW"
    [] s.op = "OANY" -> ch \notin NonChar
    [] s.op = "OANYOF" -> ch \notin NonChar /\ ch \in g.sets[s.opnd].chars

Matching == {"OCHAR", "OBOL", "OEOL", "OBOW", "OEOW", "OANY", "OANYOF"}

RECURSIVE FindOCH(_, _)
FindOCH(strip, pc) ==
  IF At(strip, pc).op = "O_CH" THEN pc ELSE FindOCH(strip, pc + At(strip, pc).opnd)

\* Coming back to the start of a loop that was not reached before.
Again(aft, pc, back) == pc \in aft /\ back \notin aft

\* The states after ch, from the states before it.  The large matcher passes one
\* array as both, except when ch is a character.
RECURSIVE step(_, _, _, _, _, _)
step(m, pc, stop, bef, ch, aft) ==
  LET s == At(m.g.strip, pc)
      src == IF m.large /\ ch \in NonChar THEN aft ELSE bef
      here == pc \in aft
      Go(ns) == step(m, pc + 1, stop, bef, ch, IF here THEN aft \cup {pc + n : n \in ns} ELSE aft)
      back == pc - s.opnd
  IN  IF pc = stop THEN aft
      ELSE CASE s.op \in Matching ->
                  step(m, pc + 1, stop, bef, ch,
                       IF pc \in src /\ Accepts(m.g, s, ch) THEN aft \cup {pc + 1} ELSE aft)
             [] s.op = "O_PLUS" ->
                  IF Again(aft, pc, back) THEN step(m, back, stop, bef, ch, aft \cup {pc + 1, back})
                  ELSE Go({1})
             [] s.op \in {"OQUEST_", "OCH_"} -> Go({1, s.opnd})
             [] s.op = "OOR1" -> IF here THEN Go({FindOCH(m.g.strip, pc + 1) - pc}) ELSE Go({})
             [] s.op = "OOR2" ->
                  Go(IF At(m.g.strip, pc + s.opnd).op = "O_CH" THEN {1} ELSE {1, s.opnd})
             [] OTHER -> Go({1})

RECURSIVE NTimes(_, _, _, _, _, _)
NTimes(m, n, a, b, st, flag) ==
  IF n = 0 THEN st ELSE NTimes(m, n - 1, a, b, step(m, a, b, st, flag, st), flag)

\* The anchors and word boundaries that lie between lastc and c.
WordEdge(m, a, b, lines, lastc, c, flag) ==
  LET bow == /\ flag = "BOL" \/ (lastc /= OUT /\ ~ ISWORD(lastc))
             /\ c /= OUT /\ ISWORD(c)
      eow == /\ lastc /= OUT /\ ISWORD(lastc)
             /\ (~ bow /\ flag = "EOL") \/ (c /= OUT /\ ~ ISWORD(c))
  IN  IF bow \/ eow THEN step(m, a, b, lines, IF eow THEN "EOW" ELSE "BOW", lines) ELSE lines

Between(m, a, b, st, lastc, c) ==
  LET Line(ch, no) == \/ ch = NL /\ "NEWLINE" \in m.g.cflags
                      \/ ch = OUT /\ no \notin m.eflags
      bol == Line(lastc, "NOTBOL")
      eol == Line(c, "NOTEOL")
      flag == IF bol /\ eol THEN "BOLEOL" ELSE IF bol THEN "BOL" ELSE IF eol THEN "EOL" ELSE NUL
      n == (IF bol THEN m.g.nbol ELSE 0) + (IF eol THEN m.g.neol ELSE 0)
  IN  WordEdge(m, a, b, NTimes(m, n, a, b, st, flag), lastc, c, flag)

StartStates(m, a, b) == step(m, a, b, {a}, "NOTHING", {a})

\* One position after the other; a new match may start at each of them.  coldp is
\* the last one at which no match was under way.
RECURSIVE FastFrom(_, _, _, _, _, _, _)
FastFrom(m, p, stop, a, b, st0, coldp0) ==
  LET fresh == StartStates(m, a, b)
      coldp == IF st0 = fresh THEN p ELSE coldp0
      c == CharAt(m, p)
      st == Between(m, a, b, st0, CharBefore(m, p), c)
  IN  IF b \in st \/ p = stop THEN [endp |-> IF b \in st THEN p + 1 ELSE NULL, coldp |-> coldp]
      ELSE FastFrom(m, p + 1, stop, a, b, step(m, a, b, st, c, fresh), coldp)

fast(m, start, stop, a, b) == FastFrom(m, start, stop, a, b, StartStates(m, a, b), NULL)

\* The end of the longest match that starts at p.
RECURSIVE SlowFrom(_, _, _, _, _, _, _)
SlowFrom(m, p, stop, a, b, st0, matchp0) ==
  LET c == CharAt(m, p)
      GivenSt(st) ==
        LET matchp == IF b \in st THEN p ELSE matchp0
        IN  IF st = {} \/ p = stop THEN matchp
            ELSE SlowFrom(m, p + 1, stop, a, b, step(m, a, b, st, c, {}), matchp)
  IN  GivenSt(Between(m, a, b, st0, CharBefore(m, p), c))

slow(m, start, stop, a, b) == SlowFrom(m, start, stop, a, b, StartStates(m, a, b), NULL)
-----------------------------------------------------------------------------
(* What matched what, without back references.                             *)

\* The end of the part of a strip that starts at ss.
PartEnd(strip, ss) ==
  LET s == At(strip, ss)
  IN  1 + CASE s.op \in {"OPLUS_", "OQUEST_"} -> ss + s.opnd
            [] s.op = "OCH_" -> FindOCH(strip, ss)
            [] OTHER -> ss

\* The longest match of ss .. es from sp on such that the rest matches up to stop.
RECURSIVE Longest(_, _, _, _, _, _, _)
Longest(m, sp, stp, stop, ss, es, stopst) ==
  LET rest == IF stp < sp THEN NULL ELSE slow(m, sp, stp, ss, es)
  IN  IF rest = NULL THEN NULL
      ELSE IF slow(m, rest, stop, es, stopst) = stop THEN rest
      ELSE Longest(m, sp, rest - 1, stop, ss, es, stopst)

\* The last time around a loop from ssp to rest: from where to where.
RECURSIVE LastPass(_, _, _, _, _, _)
LastPass(m, ssp, oldssp, rest, ssub, esub) ==
  LET GivenSep(sep) ==
        IF sep = NULL THEN <<oldssp, ssp>>
        ELSE IF sep = ssp THEN <<ssp, sep>>
        ELSE LastPass(m, sep, ssp, rest, ssub, esub)
  IN  GivenSep(slow(m, ssp, rest, ssub, esub))

\* The branch from ssub to esub, or the next one that matches all of it.
RECURSIVE Branch(_, _, _, _, _)
Branch(m, sp, rest, ssub, esub) ==
  LET to == esub + 1 + At(m.g.strip, esub + 1).opnd
  IN  IF slow(m, sp, rest, ssub, esub) = rest THEN <<ssub, esub>>
      ELSE Branch(m, sp, rest, esub + 2, IF At(m.g.strip, to).op = "OOR2" THEN to - 1 ELSE to)

\* pm: what each pair of parentheses matched, so far; sp is NULL when the engine
\* would run on with a NULL pointer.
RECURSIVE dissect(_, _, _, _, _, _)
OnFrom(m, y, rest, stop, es, stopst, pm) ==
  IF y.sp = NULL THEN [sp |-> NULL, pm |-> pm] ELSE dissect(m, rest, stop, es, stopst, y.pm)

\* The last pass of a loop, or a branch: from where to where.
DissectLoop(m, pass, ss, es, pm) == dissect(m, pass[1], pass[2], ss + 1, es - 1, pm)
DissectBranch(m, sp, rest, branch, pm) == dissect(m, sp, rest, branch[1], branch[2], pm)

Inside(m, sp, rest, ss, es, pm) ==
  LET s == At(m.g.strip, ss)
  IN  CASE s.op = "OQUEST_" ->
             IF slow(m, sp, rest, ss + 1, es - 1) = NULL THEN [sp |-> rest, pm |-> pm]
             ELSE dissect(m, sp, rest, ss + 1, es - 1, pm)
        [] s.op = "OPLUS_" -> DissectLoop(m, LastPass(m, sp, sp, rest, ss + 1, es - 1), ss, es, pm)
        [] s.op = "OCH_" -> DissectBranch(m, sp, rest, Branch(m, sp, rest, ss + 1, ss + s.opnd - 1), pm)

DissectRest(m, sp, rest, stop, ss, es, stopst, pm) ==
  IF rest = NULL THEN [sp |-> NULL, pm |-> pm]
  ELSE OnFrom(m, Inside(m, sp, rest, ss, es, pm), rest, stop, es, stopst, pm)

dissect(m, sp, stop, ss, stopst, pm) ==
  LET s == At(m.g.strip, ss)
      es == PartEnd(m.g.strip, ss)
  IN  IF ss >= stopst THEN [sp |-> sp, pm |-> pm]
      ELSE IF s.op \in {"OQUEST_", "OPLUS_", "OCH_"}
      THEN DissectRest(m, sp, Longest(m, sp, stop, stop, ss, es, stopst), stop, ss, es, stopst, pm)
      ELSE dissect(m, IF s.op \in {"OCHAR", "OANY", "OANYOF"} THEN sp + 1 ELSE sp, stop, es, stopst,
                   CASE s.op = "OLPAREN" -> [pm EXCEPT ![s.opnd][1] = sp]
                     [] s.op = "ORPAREN" -> [pm EXCEPT ![s.opnd][2] = sp]
                     [] OTHER -> pm)
-----------------------------------------------------------------------------
(* What matched what, with back references: by trial and error.            *)

\* Whether an anchor or a boundary holds at sp.
Holds(m, op, sp) ==
  LET prev == IF sp > 0 THEN m.string[sp] ELSE OUT
      newline(ok, c) == ok /\ c = NL /\ "NEWLINE" \in m.g.cflags
      first == sp = m.beginp /\ "NOTBOL" \notin m.eflags
      last == sp = m.endp /\ "NOTEOL" \notin m.eflags
      before == sp < m.endp
      after == sp > m.beginp
      next == CharAt(m, sp)
  IN  CASE op = "OBOL" -> first \/ newline(before, prev)
        [] op = "OEOL" -> last \/ newline(before, next)
        [] op = "OBOW" -> /\ first \/ newline(before, prev) \/ (after /\ ~ ISWORD(prev))
                          /\ before /\ ISWORD(next)
        [] op = "OEOW" -> /\ last \/ newline(before, next) \/ (before /\ ~ ISWORD(next))
                          /\ after /\ ISWORD(prev)

\* As far as there is no choice; ss = NULL when it fails.
RECURSIVE Easy(_, _, _, _, _)
Easy(m, sp, stop, ss, stopst) ==
  LET s == At(m.g.strip, ss)
      fail == [sp |-> sp, ss |-> NULL]
      On(ok, p, n) == IF ok THEN Easy(m, p, stop, n, stopst) ELSE fail
  IN  IF ss >= stopst THEN [sp |-> sp, ss |-> ss]
      ELSE CASE s.op \in {"OCHAR", "OANY", "OANYOF"} ->
                  On(sp /= stop /\ Accepts(m.g, s, m.string[sp + 1]), sp + 1, ss + 1)
             [] s.op \in {"OBOL", "OEOL", "OBOW", "OEOW"} -> On(Holds(m, s.op, sp), sp, ss + 1)
             [] s.op = "O_QUEST" -> On(TRUE, sp, ss + 1)
             [] s.op = "OOR1" -> On(TRUE, sp, FindOCH(m.g.strip, ss + 1) + 1)
             [] OTHER -> [sp |-> sp, ss |-> ss]

BackEnd(strip, ss, i) ==
  CHOOSE k \in ss .. Len(strip) : /\ At(strip, k) = Sop("O_BACK", i)
                                  /\ \A j \in ss .. k - 1 : At(strip, j) /= Sop("O_BACK", i)

\* x: pm and lastpos, where the current pass of each loop began.
RECURSIVE backref(_, _, _, _, _, _, _, _), FirstBranch(_, _, _, _, _, _, _, _)
backref(m, start, stop, startst, stopst, lev, rec, x) ==
  LET GivenE(e) ==
        LET ss == e.ss
            sp == e.sp
            s == At(m.g.strip, ss)
            i == s.opnd
            Try(p, n, l, y) == backref(m, p, stop, n, stopst, l, rec, y)
            Fail(y) == [y EXCEPT !.dp = NULL]
            len == x.pm[i][2] - x.pm[i][1]
            rec1 == IF len = 0 THEN rec + 1 ELSE rec
            Else(a, b(_)) == IF a.dp /= NULL THEN a ELSE b(a)
            from == x.pm[i][1]
            Note(k) == LET r == Try(sp, ss + 1, lev, [x EXCEPT !.pm[i][k] = sp])
                       IN  IF r.dp /= NULL THEN r ELSE [r EXCEPT !.pm[i][k] = x.pm[i][k]]
        IN  IF ss = NULL THEN Fail(x)
            ELSE IF ss >= stopst THEN [x EXCEPT !.dp = IF sp = stop THEN sp ELSE NULL]
            ELSE CASE s.op = "OBACK_" ->
                        IF \/ x.pm[i][2] = NULL
                           \/ len = 0 /\ rec > MAX_RECURSION
                           \/ sp > stop - len
                           \/ \E k \in 1 .. len : m.string[sp + k] /= m.string[from + k]
                        THEN Fail(x)
                        ELSE backref(m, sp + len, stop, BackEnd(m.g.strip, ss, i) + 1, stopst, lev, rec1, x)
                   [] s.op = "OQUEST_" ->
                        Else(Try(sp, ss + 1, lev, x), LAMBDA y : Try(sp, ss + s.opnd + 1, lev, y))
                   [] s.op = "OPLUS_" -> Try(sp, ss + 1, lev + 1, [x EXCEPT !.lastpos[lev + 1] = sp])
                   [] s.op = "O_PLUS" ->
                        IF sp = x.lastpos[lev] THEN Try(sp, ss + 1, lev - 1, x)
                        ELSE Else(Try(sp, ss - s.opnd + 1, lev, [x EXCEPT !.lastpos[lev] = sp]),
                                  LAMBDA y : Try(sp, ss + 1, lev - 1, y))
                   [] s.op = "OCH_" -> FirstBranch(m, sp, stop, ss + 1, ss + s.opnd - 1, lev, rec, x)
                   [] s.op = "OLPAREN" -> Note(1)
                   [] s.op = "ORPAREN" -> Note(2)
  IN  GivenE(Easy(m, start, stop, startst, stopst))

\* Only the branch itself is tried against the whole rest of the string: what
\* comes after the alternatives is not looked at.
FirstBranch(m, sp, stop, ssub, esub, lev, rec, x) ==
  LET r == backref(m, sp, stop, ssub, esub, lev, rec, x)
      to == esub + 1 + At(m.g.strip, esub + 1).opnd
  IN  IF r.dp /= NULL \/ At(m.g.strip, esub).op = "O_CH" THEN r
      ELSE FirstBranch(m, sp, stop, esub + 2, IF At(m.g.strip, to).op = "OOR2" THEN to - 1 ELSE to,
                       lev, rec, r)
-----------------------------------------------------------------------------
(* The matcher.                                                            *)

NoMatch == [error |-> "NOMATCH"]

\* A match starts no earlier than there.
Coldp(f) == f.coldp

RECURSIVE FindStart(_, _, _, _, _)
FindStart(m, coldp, stop, a, b) ==
  LET e == slow(m, coldp, stop, a, b)
  IN  IF e /= NULL \/ coldp >= m.endp THEN [coldp |-> coldp, endp |-> e]
      ELSE FindStart(m, coldp + 1, stop, a, b)

\* Shorter and shorter matches from coldp, until the references hold.
RECURSIVE Backoff(_, _, _, _, _, _)
Backoff(m, coldp, endp, a, b, x) ==
  LET GivenE(e) ==
        LET y == backref(m, coldp, e, a, b, 0, 0, x)
        IN  IF endp <= coldp THEN [endp |-> endp, x |-> x]
            ELSE IF e = NULL THEN [endp |-> NULL, x |-> x]
            ELSE IF y.dp /= NULL THEN [endp |-> e, x |-> y]
            ELSE Backoff(m, coldp, e, a, b, y)
  IN  GivenE(slow(m, coldp, endp - 1, a, b))

RECURSIVE MatchFrom(_, _, _, _, _, _)
Found(w, endp, pm, full) == [error |-> "", span |-> <<w.coldp, endp>>, subs |-> pm, full |-> full]

Dissected(w, d) == Found(w, w.endp, d.pm, d.sp = w.endp)

BackedOff(m, w, o, stop, nmatch, a, b) ==
  IF o.x.dp /= NULL THEN Found(w, o.endp, o.x.pm, TRUE)
  ELSE IF w.coldp = stop THEN Found(w, o.endp, o.x.pm, FALSE)
  ELSE MatchFrom(m, w.coldp + 1, stop, nmatch, a, b)

ByTrial(m, w, r, stop, nmatch, a, b) ==
  IF r.dp /= NULL THEN Found(w, w.endp, r.pm, TRUE)
  ELSE BackedOff(m, w, Backoff(m, w.coldp, w.endp, a, b, r), stop, nmatch, a, b)

\* The longest match that starts first is w.
Located(m, w, stop, nmatch, a, b) ==
  LET none == [i \in 1 .. m.g.nsub |-> <<NULL, NULL>>]
      x == [dp |-> NULL, pm |-> none, lastpos |-> [l \in 0 .. m.g.nplus |-> NULL]]
  IN  IF m.g.backrefs THEN ByTrial(m, w, backref(m, w.coldp, w.endp, a, b, 0, 0, x), stop, nmatch, a, b)
      ELSE IF nmatch = 0 THEN [error |-> "", span |-> <<>>, subs |-> none, full |-> TRUE]
      ELSE IF nmatch = 1 THEN Found(w, w.endp, none, TRUE)
      ELSE Dissected(w, dissect(m, w.coldp, w.endp, a, b, none))

FastFound(m, f, stop, nmatch, a, b) ==
  IF f.endp = NULL THEN NoMatch
  ELSE Located(m, FindStart(m, Coldp(f), stop, a, b), stop, nmatch, a, b)

MatchFrom(m, start, stop, nmatch, a, b) == FastFound(m, fast(m, start, stop, a, b), stop, nmatch, a, b)

\* `full' tells whether the parentheses were followed to the end of the match.
matcher(g, string, nmatch, eflags, startend, large) ==
  LET start == IF "STARTEND" \in eflags THEN startend[1] ELSE 0
      stop == IF "STARTEND" \in eflags THEN startend[2] ELSE Len(string)
      has == \E p \in start .. stop - Len(g.must) : SubSeq(string, p + 1, p + Len(g.must)) = g.must
      m == [g |-> g, eflags |-> eflags, string |-> string, beginp |-> start, endp |-> stop,
            large |-> large]
  IN  IF stop < start THEN [error |-> "INVARG"]
      ELSE IF g.must /= <<>> /\ ~ has THEN NoMatch
      ELSE MatchFrom(m, start, stop, IF "NOSUB" \in g.cflags THEN 0 ELSE nmatch, 1, Len(g.strip) - 1)

\* A word of states if they fit into one, an array otherwise.
regexec(g, string, nmatch, eflags, startend) ==
  matcher(g, string, nmatch, eflags, startend, Len(g.strip) > LongBits)
-----------------------------------------------------------------------------
(* What a regular expression stands for.  Trees: a character, any, a set,  *)
(* an anchor, a sequence, a choice, a repetition, parentheses, and a       *)
(* reference to parentheses.                                               *)

Inf == INFINITY

CountOf(n) == IF n = 0 THEN <<"0">> ELSE IF n = 1 THEN <<"1">> ELSE IF n = 2 THEN <<"2">> ELSE <<"3">>

\* The tree written as an extended, or a basic, regular expression.
RECURSIVE Written(_, _)
Written(t, ext) ==
  LET Sp(c) == IF ext THEN <<c>> ELSE <<"\\", c>>
      rep == IF t[3] = 0 /\ t[4] = Inf THEN <<"*">>
             ELSE IF ext /\ t[3] = 1 /\ t[4] = Inf THEN <<"+">>
             ELSE IF ext /\ t[3] = 0 /\ t[4] = 1 THEN <<"?">>
             ELSE Sp("{") \o CountOf(t[3]) \o (IF t[4] = t[3] THEN <<>> ELSE <<",">>)
                    \o (IF t[4] \in {t[3], Inf} THEN <<>> ELSE CountOf(t[4])) \o Sp("}")
  IN  CASE t[1] = "ch" -> <<t[2]>>
        [] t[1] = "any" -> <<".">>
        [] t[1] = "set" -> <<"[">> \o t[3] \o <<"]">>
        [] t[1] = "bol" -> <<"^">>
        [] t[1] = "eol" -> <<"$">>
        [] t[1] = "word" -> <<"[", "[", ":", t[2], ":", "]", "]">>
        [] t[1] = "cat" -> Written(t[2], ext) \o Written(t[3], ext)
        [] t[1] = "alt" -> Written(t[2], ext) \o <<"|">> \o Written(t[3], ext)
        [] t[1] = "rep" -> Written(t[2], ext) \o rep
        [] t[1] = "grp" -> Sp("(") \o Written(t[3], ext) \o Sp(")")
        [] t[1] = "ref" -> <<"\\">> \o CountOf(t[2])

RECURSIVE GroupsOf(_)
GroupsOf(t) ==
  CASE t[1] \in {"cat", "alt"} -> GroupsOf(t[2]) \cup GroupsOf(t[3])
    [] t[1] = "rep" -> GroupsOf(t[2])
    [] t[1] = "grp" -> {t[2]} \cup GroupsOf(t[3])
    [] OTHER -> {}

\* Where a match of t from i on may end, and what the parentheses matched then: a
\* loop keeps what they matched in its last pass.  There are at most two of them.
RECURSIVE Ends(_, _, _, _, _), Passes(_, _, _, _, _, _)
Ends(t, k, s, i, env) ==
  LET c == IF i < Len(s) THEN s[i + 1] ELSE OUT
      d == IF i > 0 THEN s[i] ELSE OUT
      Same(x) == x = c \/ ("ICASE" \in k /\ othercase(x) = c)
      One(ok) == IF c /= OUT /\ ok THEN {<<i + 1, env>>} ELSE {}
      If(ok) == IF ok THEN {<<i, env>>} ELSE {}
      span == env[t[2]]
      text == SubSeq(s, span[1] + 1, span[2])
      bol == (d = OUT /\ "NOTBOL" \notin k) \/ (d = NL /\ "NEWLINE" \in k)
      eol == (c = OUT /\ "NOTEOL" \notin k) \/ (c = NL /\ "NEWLINE" \in k)
      word(x) == x /= OUT /\ ISWORD(x)
  IN  CASE t[1] = "ch" -> One(Same(t[2]))
        [] t[1] = "any" -> One(~ (c = NL /\ "NEWLINE" \in k))
        [] t[1] = "set" ->
             One(IF t[3][1] = "^" THEN (\A x \in t[2] : ~ Same(x)) /\ ~ (c = NL /\ "NEWLINE" \in k)
                 ELSE \E x \in t[2] : Same(x))
        [] t[1] = "bol" -> If(bol)
        [] t[1] = "eol" -> If(eol)
        [] t[1] = "word" -> If(IF t[2] = "<" THEN (bol \/ (d /= OUT /\ ~ word(d))) /\ word(c)
                               ELSE word(d) /\ (eol \/ (c /= OUT /\ ~ word(c))))
        [] t[1] = "cat" -> UNION {Ends(t[3], k, s, e[1], e[2]) : e \in Ends(t[2], k, s, i, env)}
        [] t[1] = "alt" -> Ends(t[2], k, s, i, env) \cup Ends(t[3], k, s, i, env)
        [] t[1] = "rep" -> Passes(t, k, s, i, env, 0)
        [] t[1] = "grp" -> {<<e[1], [e[2] EXCEPT ![t[2]] = <<i, e[1]>>]>> : e \in Ends(t[3], k, s, i, env)}
        [] t[1] = "ref" -> IF span[2] /= NULL /\ i + Len(text) <= Len(s) /\ SubSeq(s, i + 1, i + Len(text)) = text
                           THEN {<<i + Len(text), env>>} ELSE {}

Passes(t, k, s, i, env, n) ==
  LET Kept(x) == IF t[4] = Inf /\ x \in GroupsOf(t[2]) THEN <<NULL, NULL>> ELSE env[x]
      anew == <<Kept(1), Kept(2)>>
  IN  (IF n >= t[3] THEN {<<i, env>>} ELSE {})
      \cup (IF n = t[4] THEN {}
            ELSE UNION {Passes(t, k, s, e[1], e[2], IF t[4] = Inf /\ n >= t[3] THEN n ELSE n + 1) :
                          e \in {e \in Ends(t[2], k, s, i, anew) : e[1] > i \/ n < t[3]}})
-----------------------------------------------------------------------------
(* Questions: <<"regex", tree, flags, string>> compiles the tree and looks *)
(* for it; <<"pattern", characters, flags>> only compiles.                 *)

RegexInit ==
  /\ Unanswered
  /\ \/ \E x \in Expressions, s \in Subjects : question = <<"regex", x.tree, x.flags, s, x.nested>>
     \/ \E p \in Patterns, f \in {{}, {"EXTENDED"}} : question = <<"pattern", p, f>>

CompileFlags == {"EXTENDED", "NOSPEC", "ICASE", "NEWLINE", "NOSUB"}

AllRuns(g, run, used) ==
  [re |-> g, small |-> run[3, FALSE], large |-> run[3, TRUE], one |-> run[1, FALSE], zero |-> run[0, FALSE],
   used |-> used]

RunAll(g, string, flags) ==
  AllRuns(g, [x \in {<<3, FALSE>>, <<3, TRUE>>, <<1, FALSE>>, <<0, FALSE>>} |->
                matcher(g, string, x[1], flags, <<0, 0>>, x[2])],
          regexec(g, string, 3, flags, <<0, 0>>))

AnswerBy(q, g) == IF q[1] = "pattern" \/ g.error /= "" THEN [re |-> g] ELSE RunAll(g, q[4], q[3] \ CompileFlags)

RegexAnswer(q) ==
  AnswerBy(q, regcomp(IF q[1] = "regex" THEN Written(q[2], "EXTENDED" \in q[3]) ELSE q[2], q[3] \cap CompileFlags))

RegexCompute == question[1] \in {"regex", "pattern"} /\ Ask(RegexAnswer)

\* The jumps of a strip lead to where the interpreters take them to be.
WellFormed(strip) ==
  LET Op(pc) == IF pc \in 0 .. Len(strip) - 1 THEN At(strip, pc).op ELSE "none"
      Opens(n) == Cardinality({i \in DOMAIN strip : strip[i] = Sop("OLPAREN", n)})
      Closes(n) == Cardinality({i \in DOMAIN strip : strip[i] = Sop("ORPAREN", n)})
  IN  \A pc \in 0 .. Len(strip) - 1 :
        LET s == At(strip, pc)
            to == pc + s.opnd
        IN  CASE s.op = "OPLUS_" -> Op(to) = "O_PLUS" /\ At(strip, to).opnd = s.opnd
              [] s.op = "OQUEST_" -> Op(to) = "O_QUEST" /\ At(strip, to).opnd = s.opnd
              [] s.op = "O_PLUS" -> Op(pc - s.opnd) = "OPLUS_"
              [] s.op = "O_QUEST" -> Op(pc - s.opnd) = "OQUEST_"
              [] s.op = "OCH_" -> Op(to) = "OOR2" /\ Op(to - 1) = "OOR1"
              [] s.op = "OOR2" -> Op(to) = "O_CH" \/ (Op(to) = "OOR2" /\ Op(to - 1) = "OOR1")
              [] s.op = "OOR1" -> Op(pc - s.opnd) \in {"OCH_", "OOR1"} /\ Op(pc + 1) = "OOR2"
              [] s.op = "OBACK_" -> \E k \in pc + 1 .. Len(strip) - 1 : At(strip, k) = Sop("O_BACK", s.opnd)
              [] s.op = "OANYOF" -> TRUE
              [] s.op \in {"OLPAREN", "ORPAREN"} -> Opens(s.opnd) = Closes(s.opnd)
              [] OTHER -> TRUE

\* Characters of one category are not told apart by any operator of the strip.
CategoriesHold(g) ==
  \A c, d \in CharSet :
    (c /= d /\ g.cats[c] = g.cats[d])
      => \A i \in DOMAIN g.strip :
           g.strip[i].op \in {"OCHAR", "OANYOF"} => (Accepts(g, g.strip[i], c) <=> Accepts(g, g.strip[i], d))

\* The leftmost of the longest matches, or NOMATCH; and the parentheses match as
\* one way of matching has it.
IsMatch(q, r) ==
  LET s == q[4]
      t == q[2]
      env == <<<<NULL, NULL>>, <<NULL, NULL>>>>
      from(i) == Ends(t, q[3], s, i, env)
      starts == {i \in 0 .. Len(s) : from(i) /= {}}
      first == CHOOSE i \in starts : \A j \in starts : i <= j
      last == CHOOSE e \in from(first) : \A f \in from(first) : f[1] <= e[1]
  IN  IF starts = {} THEN r = NoMatch
      ELSE /\ r.error = ""
           /\ r.span = <<first, last[1]>>
           /\ ~ q[5] => /\ r.full
                        /\ \E e \in from(first) : e[1] = last[1] /\ \A n \in GroupsOf(t) : e[2][n] = r.subs[n]

\* regcomp accepts every regular expression that is written correctly and builds a
\* strip whose jumps fit, for those it accepts; regexec finds the leftmost and
\* longest match, the same with both representations of the states and however
\* much it is asked for, and the parentheses of a match fit together.
RegexExact ==
  (question[1] \in {"regex", "pattern"} /\ answer /= NONE) =>
    LET a == answer
    IN  /\ a.re.error /= "ASSERT"
        /\ a.re.error = "" => WellFormed(a.re.strip) /\ CategoriesHold(a.re)
        /\ question[1] = "regex" =>
             /\ a.re.error = ""
             /\ IsMatch(question, a.small)
             /\ a.large = a.small /\ a.used = a.small
             /\ a.one.error = a.small.error /\ a.zero.error = a.small.error
             /\ (a.one.error = "" => a.one.span = a.small.span)
=============================================================================
