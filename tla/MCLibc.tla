------------------------------- MODULE MCLibc -------------------------------
(***************************************************************************)
(* The C library: each behaviour is one call of the time functions or of   *)
(* the decimal conversions, of printf, or a few calls on a heap that was   *)
(* in use before, on an open stream or on a directory, or a walk over a    *)
(* file hierarchy.                                                         *)
(***************************************************************************)
EXTENDS Dlmalloc, Localtime, Stream, Printf, Directories

\* What the system does during a call of malloc: where it maps memory, whether it
\* does so for one request alone, and whether it takes memory back.
System(at, direct, unmap) == [at |-> at, direct |-> direct, unmap |-> unmap]

MCAnswers == {System(0, TRUE, FALSE), System(1024, FALSE, TRUE), System(1152, TRUE, TRUE)}

MCWarmups == {<<60, 40, 1, 90>>, <<60, 1, 84, 1, 76, 1>>}
-----------------------------------------------------------------------------
Rule(date, time) == [date |-> date, time |-> time]

\* "NAME1NAME,M3.2.0,M11.1.0", "<NAME>-2NAME-3:0:1,J300/0,59/2:1:1" and "NAME+1NAME".
MCZoneStrings ==
  {[std |-> 4, dst |-> 0, start |-> Rule(<<"month", 3, 2, 0>>, 8),
    end |-> Rule(<<"month", 11, 1, 0>>, 8),
    string |-> <<Chr("NAME"), Num(1), Chr("NAME"), Chr(","), Chr("M"), Num(3), Chr("."), Num(2),
                 Chr("."), Num(0), Chr(","), Chr("M"), Num(11), Chr("."), Num(1), Chr("."), Num(0)>>],
   [std |-> -8, dst |-> -13, start |-> Rule(<<"julian", 300>>, 0),
    end |-> Rule(<<"day", 59>>, 11),
    string |-> <<Chr("<"), Chr("NAME"), Chr(">"), Chr("-"), Num(2), Chr("NAME"), Chr("-"), Num(3),
                 Chr(":"), Num(0), Chr(":"), Num(1), Chr(","), Chr("J"), Num(300), Chr("/"), Num(0),
                 Chr(","), Num(59), Chr("/"), Num(2), Chr(":"), Num(1), Chr(":"), Num(1)>>],
   [std |-> 4, dst |-> 0, start |-> Rule(<<"month", 4, 1, 0>>, 8),
    end |-> Rule(<<"month", 10, 5, 0>>, 8),
    string |-> <<Chr("NAME"), Chr("+"), Num(1), Chr("NAME")>>]}

Leap(trans, corr) == [trans |-> trans, corr |-> corr]

\* No leap seconds; one, two in a row, and one taken away.
MCLeapTables == {<<>>, <<Leap(20, 1), Leap(40, 2), Leap(41, 3), Leap(100, 2)>>}

MCInstants ==
  (-40 .. 130) \cup {k * 127 + 3 : k \in -150 .. 150} \cup {k * 16 - 1 : k \in 1060 .. 1120}
  \cup {-65536, -65535, 50000, 65535}

Tm(year, mon, mday, hour, min, sec, isdst) ==
  [year |-> year, mon |-> mon, mday |-> mday, hour |-> hour, min |-> min, sec |-> sec,
   yday |-> 0, wday |-> 0, isdst |-> isdst]

MCBrokenDown ==
  {Tm(72, mon, d, h, 1, s, f) : mon \in {-1, 2, 9, 14}, d \in {-400, 0, 11, 12, 29},
                                h \in {1, 2, 3}, s \in {0, -5}, f \in {-1, 0, 2}}
  \cup {Tm(0, 0, 1, 0, 0, 0, -1), Tm(2, 2000, 1, 0, 0, 0, -1), Tm(70, 0, 1, 0, 4000, 300, 0),
        Tm(70, 0, 4090, 0, 30, 0, 0)}

\* A zone file with three changes, counts that agree with it and counts that do not.
MCZoneBlocks ==
  {[leapcnt |-> 0, leaps |-> <<>>, timecnt |-> n, typecnt |-> m, charcnt |-> 4, stdcnt |-> 0,
    gmtcnt |-> m, nread |-> 35, ats |-> <<a, 10, c>>, types |-> <<1, 2, x>>,
    ttis |-> <<[gmtoff |-> 0, isdst |-> 0, abbrind |-> 0], [gmtoff |-> 4, isdst |-> d, abbrind |-> 4]>>] :
      n \in 0 .. 4, m \in 0 .. 2, a \in {5, 15}, c \in {8, 20}, x \in {1, 2}, d \in {1, 2}}
-----------------------------------------------------------------------------
Plan(fail, short, nomem) == [fail |-> fail, short |-> short, nomem |-> nomem]

MCPlans == {Plan(0, FALSE, FALSE), Plan(1, FALSE, FALSE), Plan(2, TRUE, TRUE)}

MCFileData == {<<>>, <<"a", "n", "b", "a", "b">>}

MCTexts == {<<"b", "b", "a", "n", "a">>}

MCStreamKinds ==
  {<<"r", "reg">>, <<"r+", "reg">>, <<"a+", "reg">>, <<"w", "tty">>}
-----------------------------------------------------------------------------
\* Doubles of 12 bits: numbers from 2^-40 to 2^30.
Double(m, e) == [m |-> m, e |-> e]

MCEmin == -29

MCBigtens == <<Double(3200, -5), Double(2500, 2), Double(3052, 15)>>

MCTinytens == <<Double(2621, -18), Double(3355, -25), Double(2749, -38)>>

\* Words at the ends of a half and of a whole word.
MCWords == {0, 1, 127, 128, 129, 600, 1000, 8192, 16383, 16256}

\* Few digits with every exponent, and numbers half way between two doubles, and next to that.
MCDecimals ==
  {<<d, e>> : d \in (1 .. 7) \cup {9, 12} \cup {25, 95, 99, 123, 511, 512, 513, 999}, e \in {-14, -12} \cup (-9 .. 9)}
  \cup {<<(2 * m + 1) * 2^k + j, 0>> : m \in {2048, 2049, 4095}, k \in {0, 1, 5, 11, 17}, j \in {-1, 0, 1}}
  \cup {<<(2 * m + 1) * 5^k + j, -k>> : m \in {2048, 2049, 4095}, k \in 0 .. 5, j \in {-1, 0, 1}}

MCStrings ==
  UNION {[1 .. n -> {" ", "-", "0", "5", ".", "e", "inf", "inity"}] : n \in 0 .. 3}
  \cup {a \o b \o c \o d : a \in {<<" ", "+">>, <<"-">>},
                          b \in {<<>>, <<"0", "3">>, <<"7", "0">>, <<"1", "0", "0", "0">>},
                          c \in {<<>>, <<".">>, <<".", "0", "0", "9">>, <<".", "2", "0", "4", "0">>},
                          d \in {<<"e">>, <<"e", "-">>, <<"e", "-", "5">>, <<"e", "0", "8">>,
                                 <<"e", "+", "3", "1">>, <<"e", "-", "0", "3", "3", ".", "1">>}}
  \cup {<<"nan">> \o c : c \in UNION {[1 .. n -> {"(", ")", "0"}] : n \in 0 .. 3}}

MCDtoaDigits == {-2, 0, 1, 2, 3, 5}

MCDtoaDoubles ==
  {Double(m, e) : m \in {2048, 2049, 2500, 3125, 4095}, e \in {-40, -39, -33, -25, -17, -12, -11,
                                                                       -10, -8, -5, -2, -1, 0, 1, 3, 7, 11, 18}}
  \cup {Double(m, Etiny) : m \in 1 .. 9} \cup {RoundWide(m, 0, FALSE) : m \in {1, 5, 10, 19, 25, 95, 100, 105, 199}}
-----------------------------------------------------------------------------
Directory(up, dev, entries) == [kind |-> "dir", dev |-> dev, up |-> up, entries |-> entries, target |-> 0]
Regular(up) == [kind |-> "reg", dev |-> 1, up |-> up, entries |-> <<>>, target |-> 0]
Symlink(up, to) == [kind |-> "lnk", dev |-> 1, up |-> up, entries |-> <<>>, target |-> to]

\* 1 holds c, a and b; c holds f, d and a link l to b; d is on another device; b holds a link
\* k to c, and n, which leads nowhere.
MCFiles ==
  <<Directory(1, 1, <<<<"c", 2>>, <<"a", 3>>, <<"b", 8>>>>),
    Directory(1, 1, <<<<"f", 4>>, <<"d", 5>>, <<"l", 6>>>>), Regular(1), Regular(2),
    Directory(2, 2, <<<<"f", 7>>>>), Symlink(2, 8), Regular(5),
    Directory(1, 1, <<<<"k", 9>>, <<"n", 10>>>>), Symlink(8, 2), Symlink(8, 0)>>

MCRank == [a |-> 9, b |-> 8, c |-> 7, d |-> 6, f |-> 5, k |-> 4, l |-> 3, n |-> 2, z |-> 1]

MCRootLists == {<<<<"b", "k">>, <<"a">>, <<"c", "d">>>>, <<<<".">>>>, <<<<"/", "c", "d">>, <<"z">>>>}

MCOptionSets == {{"PHYSICAL"}, {"LOGICAL", "NOSTAT"}, {"PHYSICAL", "SEEDOT", "XDEV"},
                 {"PHYSICAL", "NOSTAT", "COMFOLLOWDIR", "compar"}}
-----------------------------------------------------------------------------
MCDirEntries == <<"c", "a", "wht", "d", "b">>
-----------------------------------------------------------------------------
IntArg(n) == Argument("int", n, <<>>, Zero, FALSE)
LongArg(n) == Argument("llong", n, <<>>, Zero, FALSE)
StringArg(s) == Argument("str", 0, s, Zero, FALSE)
DoubleArg(d, neg) == Argument("double", 0, <<>>, d, neg)

Directive(pos, flags, width, prec, mod, conv) ==
  [pos |-> pos, flags |-> flags, width |-> width, prec |-> prec, mod |-> mod, conv |-> conv]

Printed(dirs, vals) == [dirs |-> dirs, args |-> vals]

Unset == <<"none">>
Size(n) == <<"num", n>>

MCFlagSets == {{}, {"-"}, {"0"}, {"#"}, {"+"}, {" ", "0"}, {"-", "0", "+"}, {"#", "0"}, {"#", "-", " "}}

MCPrintDoubles ==
  {Zero} \cup {Double(m, e) : m \in {2048, 2500, 3277, 4095}, e \in {-28, -24, -17, -13, -11, -7, -3, -1, 2, 5}}
  \cup {RoundWide(m, 0, FALSE) : m \in {1, 5, 10, 25, 95, 100}}

MCPrintedFields ==
  LET widths == {Unset, Size(1), Size(7)}
      one(fl, w, p, md, c, val) == Printed(<<Directive(0, fl, w, p, md, c)>>, <<val>>)
  IN  {one(fl, w, p, md, c, IF md = <<"l", "l">> THEN LongArg(n) ELSE IntArg(n)) :
         fl \in MCFlagSets, w \in widths, p \in {Unset, Size(0), Size(3)}, md \in {<<>>, <<"h">>, <<"l", "l">>},
         c \in {"d", "o", "x", "X", "u"}, n \in {0, 9, 63}}
      \cup {one(fl, w, Unset, <<>>, "p", IntArg(n)) : fl \in MCFlagSets, w \in widths, n \in {0, 21}}
      \cup {one(fl, w, p, <<>>, c, StringArg(<<"a", "b", "c">>)) :
              fl \in {{}, {"-"}, {"+"}}, w \in widths, p \in {Unset, Size(0), Size(2), Size(5)}, c \in {"s", "c"}}
      \cup {one(fl, w, Unset, <<>>, c, Argument(t, 0, <<>>, Zero, neg)) :
              fl \in {{}, {"-"}, {"+"}}, w \in widths, c \in {"f", "g"}, t \in {"Inf", "NaN"}, neg \in BOOLEAN}
      \cup {one(fl, Unset, p, <<>>, c, DoubleArg(d, FALSE)) :
              fl \in {{}, {"#"}}, p \in {Unset, Size(0), Size(1), Size(3)}, c \in {"e", "f", "g", "G"},
              d \in MCPrintDoubles}
      \cup {one(fl, Size(9), Size(1), <<>>, c, DoubleArg(d, neg)) :
              fl \in MCFlagSets, c \in {"E", "f", "g"}, neg \in BOOLEAN,
              d \in {Zero, RoundWide(95, 0, FALSE), Double(2048, -17)}}

\* Directives with the numbers of their arguments, and the six arguments they choose from.
MCNumbered ==
  LET at(n) == <<"at", n>>
  IN  {Directive(1, {}, Unset, Unset, <<>>, "d"), Directive(2, {}, Size(6), Unset, <<"l", "l">>, "x"),
       Directive(3, {"0"}, at(1), Unset, <<>>, "d"), Directive(2, {}, at(3), at(1), <<"q">>, "u"),
       Directive(0, {}, Unset, Unset, <<>>, "lit"), Directive(4, {}, Unset, Size(1), <<>>, "f"),
       Directive(5, {}, at(1), Unset, <<>>, "s"), Directive(9, {}, Unset, Unset, <<>>, "d"),
       Directive(2, {}, Unset, Unset, <<"j">>, "d")}

MCSixArguments ==
  <<IntArg(5), LongArg(77), IntArg(59), DoubleArg(RoundWide(95, 0, FALSE), FALSE), StringArg(<<"a", "b">>), IntArg(6)>>

\* Whether the directives say the type of every argument up to the last they use; those
\* they leave out may only be ints.
Typed(ds) ==
  LET used == UNION {{ds[i].pos} \cup {ds[i].width[k] : k \in DOMAIN ds[i].width \cap {2}}
                     \cup {ds[i].prec[k] : k \in DOMAIN ds[i].prec \cap {2}} : i \in DOMAIN ds}
  IN  \A n \in used, k \in {2, 4, 5} : k < n => \E i \in DOMAIN ds : ds[i].pos = k

MCPrintedFormats ==
  LET d == Directive(0, {}, Unset, Unset, <<>>, "d")
      x == Directive(0, {}, Size(6), Unset, <<"l", "l">>, "x")
      text == Directive(0, {}, Unset, Unset, <<>>, "lit")
      star(fl) == Directive(0, fl, <<"star">>, <<"star">>, <<>>, "d")
  IN  {Printed(<<d, y, x, text>>, <<IntArg(5), LongArg(77)>>) : y \in {[text EXCEPT !.conv = "%", !.width = Size(6)], text}}
      \cup {Printed(<<star(fl), [text EXCEPT !.conv = "s"]>>, <<IntArg(w), IntArg(p), IntArg(9), StringArg(<<"a">>)>>) :
              fl \in {{}, {"0"}}, w \in {0, 5, 20, 60}, p \in {0, 3, 63}}
      \cup {Printed(ds, MCSixArguments) : ds \in {y \in UNION {[1 .. n -> MCNumbered] : n \in 1 .. 3} : Typed(y)}}
-----------------------------------------------------------------------------
NoQuestion == question = <<"none">> /\ Unanswered

\* The heap before the first call, and no calls left.
NoHeap == heap = EmptyHeap /\ live = <<>> /\ half = <<>> /\ calls = MaxCalls

NoStream == Init0(<<>>, <<"r", "reg">>) /\ ops = MaxStreamOps

NoDirs == NoStreams /\ kept = FALSE /\ dirOps = MaxDirOps

NoFts ==
  /\ fts = NoWalk /\ walk = "closed" /\ args = [argv |-> <<>>, opts |-> {}]
  /\ visits = <<>> /\ asks = 0 /\ told = FALSE /\ failed = FALSE

Init ==
  \/ (TimeInit \/ DecimalInit \/ PrintfInit \/ ScandirInit) /\ NoHeap /\ NoStream /\ NoFts /\ NoDirs
  \/ NoQuestion /\ DlInit /\ NoStream /\ NoFts /\ NoDirs
  \/ NoQuestion /\ NoHeap /\ StreamInit /\ NoFts /\ NoDirs
  \/ NoQuestion /\ NoHeap /\ NoStream /\ FtsInit /\ NoDirs
  \/ NoQuestion /\ NoHeap /\ NoStream /\ NoFts /\ DirInit

Next ==
  \/ /\ TimeCompute \/ DecimalCompute \/ PrintfCompute \/ ScandirCompute
     /\ UNCHANGED <<dlVars, streamVars, ftsVars, dirVars>>
  \/ DlNext /\ UNCHANGED <<askVars, streamVars, ftsVars, dirVars>>
  \/ StreamNext /\ UNCHANGED <<askVars, dlVars, ftsVars, dirVars>>
  \/ FtsNext /\ UNCHANGED <<askVars, dlVars, streamVars, dirVars>>
  \/ DirNext /\ UNCHANGED <<askVars, dlVars, streamVars, ftsVars>>
-----------------------------------------------------------------------------
\* Numbers in floating point come from text and go to text as they are to (strtod.c:1209,
\* 1977), and so do the integers and strings of printf, each in its field (vfprintf.c:163).
DecimalsExact == DecimalExact /\ PrintfExact

\* Directories are read as they are: by a stream (readdir-fbsd.c:55), by scandir
\* (scandir-fbsd.c:65), and by fts (fts.c:104), which walks the hierarchy below them.
DirectoriesRead == DirSound /\ FtsSound
=============================================================================
