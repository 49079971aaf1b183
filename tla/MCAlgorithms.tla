--------------------------- MODULE MCAlgorithms ---------------------------
(***************************************************************************)
(* The compiler runtime, the linker's interpreters, tables and memory      *)
(* maps, regular expressions, numbers and addresses in text, scanf, uuids, *)
(* sorting and posix_spawn: each behaviour is one call, one program of     *)
(* linker opcodes, one life of the objects posix_spawn is given, or one    *)
(* series of identifiers.                                                  *)
(***************************************************************************)
EXTENDS Arithmetic, MachOpcodes, LinkUtil, ImageMap, Regexec, Spawn, Scanf, Sorting

\* Operands of n bits: the edges of the range, of its halves and a few more.
Edge(n) ==
  {0, 1, 2, 3, 5, 7} \cup {2^k : k \in 0 .. n - 1} \cup {2^k - 1 : k \in 1 .. n}
  \cup {2^n - 2, 2^n - 3, 2^n - 1 - 2^(n \div 2), 3 * 2^(n \div 2),
        5 * 2^(n \div 2) + 1, 6 * 2^(n \div 2) + 5}

\* Doubles with exponents at the ends and in the middle of the range.
Doubles ==
  {x \in 0 .. 1023 : /\ (x \div 16) % 32 \in {0, 1, 2, 5, 8, 9, 14, 16, 23, 30, 31}
                     /\ x % 16 \in {0, 1, 7, 8, 15}}

MCOperands ==
  [si |-> <<0 .. 15, 0 .. 15>>, di |-> <<0 .. 255, Edge(8)>>,
   ti |-> <<Edge(16), Edge(16)>>, sf |-> <<0 .. 127, {x \in 0 .. 127 : x % 4 # 2}>>,
   df |-> <<Doubles, Doubles>>,
   float |-> <<(0 .. 2047) \cup Edge(16), {0}>>,
   xf |-> <<(0 .. 2047) \cup Edge(16), {0}>>]

\* Zero, the least denormal, finite numbers, infinity, NaN, and negatives.
MCParts == {0, 1, 30, 55, 56, 58, 64, 65, 94, 119, 120}

Small == [sig |-> 2, exp |-> 4]

Large == [sig |-> 4, exp |-> 5]
-----------------------------------------------------------------------------
Opcode(op, imm, u, v) == [op |-> op, imm |-> imm, u |-> u, v |-> v]

MCOpcodes ==
  {Opcode("DONE", 0, 0, 0), Opcode("SET_TYPE_IMM", "pointer", 0, 0),
   Opcode("SET_SEGMENT_AND_OFFSET_ULEB", 1, 0, 0),
   Opcode("SET_SEGMENT_AND_OFFSET_ULEB", 0, 2, 0),
   Opcode("ADD_ADDR_ULEB", 0, 2, 0), Opcode("ADD_ADDR_ULEB", 0, 30, 0),
   Opcode("SET_DYLIB_ORDINAL_IMM", 1, 0, 0),
   Opcode("SET_DYLIB_ORDINAL_ULEB", 0, 3, 0),
   Opcode("SET_DYLIB_SPECIAL_IMM", 14, 0, 0),
   Opcode("SET_ADDEND_SLEB", 0, -1, 0),
   Opcode("SET_SYMBOL_TRAILING_FLAGS_IMM", "sym", 0, 0),
   Opcode("ADD_ADDR_IMM_SCALED", 1, 0, 0), Opcode("DO_IMM_TIMES", 2, 0, 0),
   Opcode("DO_ULEB_TIMES", 0, 3, 0), Opcode("DO_BIND", 0, 0, 0),
   Opcode("DO_ADD_ADDR_ULEB", 0, 2, 0),
   Opcode("DO_ADD_ADDR_IMM_SCALED", 1, 0, 0),
   Opcode("DO_ULEB_TIMES_SKIPPING_ULEB", 0, 2, 2)}

MCSegments == <<[vmaddr |-> 4, vmsize |-> 8], [vmaddr |-> 12, vmsize |-> 12]>>
-----------------------------------------------------------------------------
MCNames == {<<>>, <<1>>, <<2>>, <<1, 1>>, <<1, 2>>, <<1, 2, 1>>, <<1, 2, 2>>,
            <<2, 2, 2>>}

Segment(v, s, o, f) == [vmaddr |-> v, vmsize |-> s, fileoff |-> o, filesize |-> f]

\* Two segments next to each other, from address 0 or not.
MCSegmentLists ==
  {<<Segment(b, s1, 0, 2), Segment(b + s1, s2, o, f)>> :
     b \in {0, 4}, s1 \in {2, 4}, s2 \in {2, 4}, o \in {2, 4}, f \in {0, 2}}

MCDynamicLists ==
  UNION {[1 .. n -> {"RELSZ", "REL", "PLTRELSZ", "JMPREL", "STRTAB", "RELA",
                     "NEEDED", "PLTREL", "SYMTAB", "other"}] : n \in 0 .. 3}

MCWordRoles == [1 .. 3 -> {"none", "vanilla", "scattered", "pblaptr", "local",
                           "indirect", "extern", "absolute"}]

MCChains == {<<<<a, a + 2>>, <<b, b + 3>>, <<c, c + 1>>>> :
               a \in {0, 4}, b \in {6, 10}, c \in {2, 9, 13}}
-----------------------------------------------------------------------------
MCChars == <<"NL", "-", "<", ">", "a", "b", "A", "B">>

MCCases == {<<"a", "A">>, <<"b", "B">>}

MCClassNames == [alpha |-> {"a", "b", "A", "B"}]

Cat(x, y) == <<"cat", x, y>>
Alt(x, y) == <<"alt", x, y>>
Rep(x, n) == <<"rep", x, n[1], n[2]>>
Grp(n, x) == <<"grp", n, x>>
ChA == <<"ch", "a">>
ChB == <<"ch", "b">>
AnyC == <<"any">>
NotA == <<"set", {"a"}, <<"^", "a">>>>
AtoB == <<"set", {"a", "b"}, <<"a", "-", "b">>>>
OneOf == {ChA, ChB, AnyC, NotA, AtoB}
StarOf == <<0, Inf>>
RepCounts == {StarOf, <<1, Inf>>, <<0, 1>>, <<2, 3>>, <<0, 2>>}
Anchors == {<<"bol">>, <<"eol">>, <<"word", "<">>, <<"word", ">">>}

\* Expressions with flags; in a nested one a choice is under a loop.
Expressed(trees, flags, nested) ==
  {[tree |-> t, flags |-> f, nested |-> nested] : t \in trees, f \in flags}

MCExpressions ==
  LET extended == {{"EXTENDED"}}
      flags == {{"EXTENDED", "ICASE"}, {"NEWLINE"}, {"EXTENDED", "NEWLINE", "NOTBOL"}, {"NOTEOL"}}
  IN  Expressed({Cat(Grp(1, x), y) : x \in {Rep(z, n) : z \in {ChA, AtoB}, n \in RepCounts}
                                            \cup {Cat(ChA, ChB), Alt(ChA, Cat(ChA, ChB))},
                                     y \in OneOf \cup {Rep(z, n) : z \in {ChA, NotA}, n \in {StarOf, <<1, 3>>, <<0, 0>>}}},
                extended, FALSE)
      \cup Expressed({Cat(x, Rep(Grp(1, Cat(y, z)), n)) : x \in {ChA, Rep(ChB, StarOf)}, y \in {ChA, AnyC},
                                                          z \in {ChB, NotA}, n \in RepCounts},
                     extended, FALSE)
      \cup Expressed({Rep(Grp(1, Alt(x, Cat(y, z))), n) : x \in {ChA, Rep(ChB, StarOf)}, y \in {ChA, AnyC},
                                                          z \in {ChB, Rep(ChA, <<0, 1>>)}, n \in RepCounts},
                     extended, TRUE)
      \cup Expressed({Grp(1, Alt(Alt(Cat(w, x), y), Cat(z, w))) :
                        w \in Anchors \cup {ChB}, x \in {ChA, ChB}, y \in {Cat(ChA, ChA), <<"eol">>},
                        z \in {ChA, Rep(AnyC, StarOf)}},
                     extended, FALSE)
      \cup Expressed({Cat(Grp(1, x), Cat(y, <<"ref", 1>>)) :
                        x \in OneOf \cup {Rep(ChA, StarOf), Rep(AtoB, StarOf), Cat(AnyC, ChB)},
                        y \in {ChB, Rep(ChB, StarOf), Rep(ChA, StarOf)}}
                     \cup {Cat(Rep(Grp(1, x), StarOf), <<"ref", 1>>) : x \in OneOf},
                     {{}}, FALSE)
      \cup Expressed({Cat(Grp(1, Cat(x, Grp(2, y))), z) : x \in {ChA, NotA}, y \in {AnyC, AtoB}, z \in {ChB, <<"eol">>}}
                     \cup {Cat(<<"bol">>, Cat(y, z)) : y \in {AnyC, AtoB, Rep(NotA, StarOf)}, z \in {ChB, <<"eol">>}},
                     flags, FALSE)

MCSubjects ==
  UNION {[1 .. n -> {"a", "b"}] : n \in 0 .. 3}
  \cup {<<"a", "b", "A", "NL", "b", "a">>, <<"a", "-", "b", "NL">>, <<"b", "A">>,
        <<"a", "b", "b", "a", "b", "a">>}

MCPatterns ==
  UNION {[1 .. n -> {"a", "(", ")", "|", "*", "\\", "{", "1", "}", "[", "]", "^", "-", "$"}] : n \in 0 .. 3}
  \cup {<<"[", x, y, z, "]">> : x, y, z \in {"a", "b", "-", "^", "]", "[", ":"}}
-----------------------------------------------------------------------------
MCArgVectors == {<<"p">>, <<"p", "x", "y">>}

Verdict(s, t) == [says |-> s, stat |-> t]

MCVerdicts ==
  {Verdict("ok", TRUE), Verdict("ENOENT", FALSE), Verdict("EACCES", TRUE),
   Verdict("EACCES", FALSE), Verdict("ENOEXEC", TRUE), Verdict("E2BIG", TRUE),
   Verdict("EIO", TRUE), Verdict("EIO", FALSE)}

MCPathLength == [d \in {".", "a", "long", "prog", ""} |->
                   CASE d = "long" -> 8 [] d = "prog" -> 3 [] d = "" -> 0 [] OTHER -> 1]

MCSearchPaths == {<<"">>, <<"a", "">>, <<"", "long">>}
-----------------------------------------------------------------------------
\* Signs and prefixes before digits of several bases, and short strings of anything.
MCNumberTexts ==
  {a \o b \o c : a \in {<<>>, <<" ", "-">>, <<"+">>, <<"-">>},
                 b \in {<<>>, <<"0">>, <<"0", "x">>, <<"0", "X", "1">>},
                 c \in UNION {[1 .. n -> {"0", "1", "2", "7", "a", "z"}] : n \in 0 .. 3}}
  \cup UNION {[1 .. n -> {" ", "-", "0", "x", "8", "F"}] : n \in 0 .. 4}

\* A part of an IPv4 address: its text, the base and the value it has; the last two stand
\* for no value below 2^32.
Part(t, b, v, c) == [text |-> t, base |-> b, val |-> v, clean |-> c]

MCQuadParts ==
  {Part(<<"1">>, 10, 1, TRUE), Part(<<"0">>, 10, 0, TRUE), Part(<<"1", "5">>, 10, 15, TRUE),
   Part(<<"1", "6">>, 10, 16, TRUE), Part(<<"0", "x", "f">>, 16, 15, TRUE),
   Part(<<"0", "8">>, 8, 8, TRUE), Part(<<"0", "9">>, 10, 9, TRUE), Part(<<>>, 0, 65536, TRUE),
   Part(<<"2", "5", "6">>, 10, 256, TRUE), Part(<<"6", "5", "5", "3", "7">>, 10, 65537, FALSE)}

MCQuadTails == {<<>>, <<" ", "z">>, <<"z">>}

MCColonTexts ==
  UNION {[1 .. n -> {"1", ":", "."}] : n \in 0 .. 7}
  \cup {<<"1", ":", "a", ":", "0", ":", "f", "f", ":", "1">>,
        <<"1", ":", "a", ":", "0", ":", "f", "f", "f", ":", "1">>,
        <<"1", ":", "a", ":", "0", ":", ":", "1", ":", "1">>,
        <<"1", ":", "a", ":", "0", ":", "1", ":", "1", ":", "2">>}

MCUuidBytes ==
  {[i \in 1 .. 16 |-> IF i % 3 = 0 THEN a ELSE IF i % 2 = 0 THEN b ELSE c] :
     a, b, c \in {0, 1, 7, 15}}

\* Short arrays of every order; longer ones that rise, fall, repeat and turn.
MCKeyLists ==
  UNION {[1 .. n -> {1, 2, 3}] : n \in 0 .. 7} \cup UNION {[1 .. n -> {1, 3}] : n \in 8 .. 10}
  \cup {[i \in 1 .. n |-> ((i * a + (i \div b) * c) % 4)] :
          n \in 8 .. 16, a \in {1, 3}, b \in {2, 5, 8}, c \in {0, 1, 2}}
  \cup {[i \in 1 .. n |-> IF i < k THEN 4 - (i \div b) ELSE (i - k) \div b] :
          n \in 10 .. 16, b \in {3, 6}, k \in {1, 8, 10, 12, 17}}
-----------------------------------------------------------------------------
Reads(suppress, width, mod, conv, set) ==
  [kind |-> "conv", suppress |-> suppress, width |-> width, mod |-> mod, conv |-> conv, set |-> set]

Expects(c) == [Reads(FALSE, 0, <<>>, c, <<>>) EXCEPT !.kind = "lit"]

White == [Reads(FALSE, 0, <<>>, " ", <<>>) EXCEPT !.kind = "space"]

\* Single conversions, followed by the count and the next character; and sequences.
MCScanFormats ==
  LET plain(c) == Reads(FALSE, 0, <<>>, c, <<>>)
      set(w, t) == Reads(FALSE, w, <<>>, "[", t)
      alone == {plain(c) : c \in {"d", "i", "o", "x", "f", "%"}}
               \cup {Reads(FALSE, w, <<>>, "i", <<>>) : w \in {2, 3}} \cup {Reads(TRUE, 2, <<>>, "x", <<>>)}
               \cup {Reads(FALSE, 0, <<"h">>, "d", <<>>), Reads(FALSE, 0, <<"h", "h">>, "u", <<>>),
                     Reads(FALSE, 0, <<"l", "l">>, "d", <<>>)}
               \cup {Reads(sup, w, <<>>, c, <<>>) : sup \in BOOLEAN, w \in {0, 3}, c \in {"s", "c"}}
               \cup {set(0, t) : t \in {<<"a", "-", "z">>, <<"]", "-", "a">>, <<"^", "]">>, <<"0", "1", "-">>,
                                        <<"-", "0", "-", "8">>, <<"a", "-", "b", "-", "x">>, <<"x", "-", "0">>,
                                        <<"z", "-", "z">>}}
               \cup {set(2, <<"^", "a", "-", "a", " ">>), Reads(TRUE, 0, <<>>, "[", <<"^", "x">>)}
  IN  {<<d, plain("n"), plain("c")>> : d \in alone}
      \cup {<<plain("d"), White, plain("x"), plain("n")>>, <<plain("i"), Expects("x"), plain("d")>>,
            <<plain("s"), plain("d")>>, <<White, plain("n"), plain("i"), plain("s")>>}

MCScanTexts ==
  UNION {[1 .. n -> {" ", "-", "0", "x", "8", "a"}] : n \in 0 .. 3} \cup [1 .. 4 -> {"-", "0", "x", "8"}]
  \cup {<<"-">> \o t \o <<"b", "+">> : t \in [1 .. 4 -> {"0", "7", "X"}]}
  \cup {<<"1", "7", "7">> \o t : t \in [1 .. 3 -> {"1", "]", "z", " "}]} \cup {<<"%", "1">>, <<"^", "%">>}
-----------------------------------------------------------------------------
\* No call, no program, nothing spawned, no identifiers.
NoQuestion == question = <<"none">> /\ Unanswered

NoProgram ==
  /\ reader = "bind" /\ program = <<>> /\ fixups = <<>> /\ reading = "done"
  /\ regs = StartRegs("bind")

SpawnIdle == NoSpawn /\ spawnCalls = MaxSpawnCalls

UuidsIdle ==
  /\ NoUuids
  /\ made = [i \in 1 .. MaxUuids |-> [id |-> UuidFields(0, 0, 0, 4, 0, "none"), adjusted |-> 0]]

Init ==
  \/ /\ ArithInit \/ UtilInit \/ MapInit \/ RegexInit \/ SpawnpInit \/ NumeralInit \/ ScanInit \/ UuidInit \/ SortInit
     /\ NoProgram /\ SpawnIdle /\ UuidsIdle
  \/ OpInit /\ NoQuestion /\ SpawnIdle /\ UuidsIdle
  \/ SpawnInit /\ NoQuestion /\ NoProgram /\ UuidsIdle
  \/ UuidStart /\ NoQuestion /\ NoProgram /\ SpawnIdle

Next ==
  \/ /\ \/ Compute \/ LinkCompute \/ MapCompute \/ RegexCompute \/ SpawnpCompute \/ NumeralCompute
        \/ ScanCompute \/ UuidCompute \/ SortCompute
     /\ UNCHANGED <<opVars, spawnVars, uuidVars>>
  \/ OpNext /\ UNCHANGED <<askVars, spawnVars, uuidVars>>
  \/ SpawnNext /\ UNCHANGED <<askVars, opVars, uuidVars>>
  \/ question = <<"none">> /\ UuidNext /\ UNCHANGED <<askVars, opVars, spawnVars>>
-----------------------------------------------------------------------------
\* What the linker reads ends where it is to: its opcodes (lnk_macho.cpp:810, 890), its tables
\* and names (lnk_util.cpp) and the segments of an image (lnk_mm.cpp) give the fixups, the
\* values and the addresses the file says.
LinkerReads == OpcodesExact /\ TablesExact /\ ImageInPlace

\* Text and order: numbers, addresses and identifiers read from text or written to it are
\* the ones the text says (strtol.c:44, inet_pton.c:106, inet_ntop.c:78, parse.c:42),
\* scanf stores what its format says and pushes back the rest (vfscanf.c:98), made identifiers
\* differ (gen_uuid.c:222), and what is sorted is in order (qsort.c:84, merge-fbsd.c:98).
TextExact == NumeralsExact /\ ScansExact /\ UuidsSound /\ SortExact
=============================================================================
