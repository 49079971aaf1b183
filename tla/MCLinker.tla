----------------------------- MODULE MCLinker -----------------------------
(***************************************************************************)
(* Small file systems for the linker: three libraries, of which `a' is the *)
(* auxiliary library and `c' the one cas::init loads.                      *)
(***************************************************************************)
EXTENDS Linker, SequencesExt

CONSTANTS a, b, c, s, t

MCPath == {a, b, c}
MCSymbol == {s, t}
MCAux == <<a>>
MCImage == 0..4

Load1(p) == [path |-> p, reexport |-> FALSE]
ReExport1(p) == [path |-> p, reexport |-> TRUE]
MkFile(cmds, opens, exports) ==
  [cmds |-> cmds, opens |-> opens, exports |-> exports, imports |-> MCSymbol]

DisksOf(files, mains) ==
  {[main |-> m, lib |-> l] : m \in mains, l \in [MCPath -> files \cup {NULL}]}

AtMostOne(S) == {<<>>} \cup {<<x>> : x \in S}

\* A library that names itself re-exports itself.
NoSelfLoad(D) ==
  {d \in D : \A p \in MCPath : d.lib[p] # NULL =>
     \A i \in DOMAIN d.lib[p].cmds : d.lib[p].cmds[i] # Load1(p)}

\* Every dependency graph in which a library names at most two others, in
\* every order of the load commands.
GraphDisks == NoSelfLoad(
  DisksOf({MkFile([i \in DOMAIN q |-> Load1(q[i])], <<>>, {}) :
             q \in UNION {SetToSeqs(S) : S \in {T \in SUBSET MCPath :
                                                Cardinality(T) <= 2}}},
          {MkFile(<<Load1(b)>>, <<>>, {}),
           MkFile(<<Load1(LibSystem), Load1(c), Load1(b)>>, <<>>, {})}))

\* At most one load command and one dlopen by the initializers of each; b is
\* loaded by whoever opens it first.
OpenDisks == NoSelfLoad(
  DisksOf({MkFile(q, o, {s}) : q \in AtMostOne({Load1(p) : p \in MCPath}),
                               o \in AtMostOne(MCPath)},
          {MkFile(<<>>, <<b, LibSystem>>, {})}))

\* Exports and re-exports; the linker exports t.
SymbolDisks == NoSelfLoad(
  DisksOf({MkFile(q, <<>>, e) :
             q \in AtMostOne({Load1(p) : p \in MCPath}
                             \cup {ReExport1(p) : p \in MCPath}),
             e \in {{}, {s, t}}},
          {MkFile(<<Load1(b)>>, <<c>>, {})}))

MCDisks == GraphDisks \cup OpenDisks \cup SymbolDisks
===========================================================================
