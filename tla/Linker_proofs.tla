--------------------------- MODULE Linker_proofs ---------------------------
(***************************************************************************)
(* Proofs about the dynamic linker for every file system, every number of  *)
(* images and every order in which libraries are loaded and opened: the    *)
(* chain is sound, the dependencies of an image are what its load commands *)
(* asked for and are in the chain, no image is rebased, bound or           *)
(* initialized twice, a symbol of the linker is bound to the linker, and   *)
(* no symbol to a library that is only half loaded.                        *)
(***************************************************************************)
EXTENDS Linker, FiniteSetTheorems, WellFoundedInduction, TLAPS

Command == [path : Path \cup {LibSystem}, reexport : BOOLEAN]

LinkerTypeOK ==
  /\ chain \in Seq(Image)
  /\ fDependencies \in [Image -> Seq(Image)]
  /\ fHasInitialized \in [Image -> BOOLEAN]
  /\ disk.main \in File /\ disk.lib \in [Path -> File \cup {NULL}]
  /\ stack \in Seq(Frame)
  /\ allocated \in SUBSET Image
  /\ fOrigFilePath \in [Image -> Path \cup {NULL}]
  /\ rebased \in [Image -> Nat] /\ bound \in [Image -> Nat]
  /\ initRuns \in [Image -> Nat]

\* An image that is not in use is as it was made, and a library that is was
\* loaded from a file that exists.
FilesInv ==
  /\ fOrigFilePath[Dylinker] = NULL /\ fOrigFilePath[Main] = NULL
  /\ \A x \in allocated \ {Dylinker, Main} :
       fOrigFilePath[x] \in Path /\ disk.lib[fOrigFilePath[x]] # NULL
  /\ \A x \in Image \ allocated :
       /\ fDependencies[x] = <<>> /\ fOrigFilePath[x] = NULL
       /\ rebased[x] = 0 /\ bound[x] = 0 /\ initRuns[x] = 0

\* The images in use are those of the chain, and the main executable.
ChainInv ==
  /\ sImageCount = Len(chain)
  /\ \A i \in 1..Len(chain) : chain[i] \in allocated /\ chain[i] # Main
  /\ \A x \in allocated : x # Main => \E i \in 1..Len(chain) : chain[i] = x
  /\ IF pc = "start" THEN chain = <<>>
     ELSE Len(chain) > 0 /\ chain[1] = Dylinker
  /\ \A i, j \in 1..Len(chain) :
       fOrigFilePath[chain[i]] = fOrigFilePath[chain[j]] => i = j
  /\ Main \in allocated <=> pc \notin {"start", "aux"}

\* A dependency is in the chain, and is what the load command asked for.
DependencyOK(path, dep) ==
  /\ dep \in allocated /\ dep # Main
  /\ \/ dep = Dylinker /\ (path = LibSystem \/ disk.lib[path] = NULL)
     \/ fOrigFilePath[dep] = path

DepsInv ==
  \A x \in allocated :
    /\ ~Parsing(x) => Len(fDependencies[x]) = Len(Commands(x))
    /\ Len(fDependencies[x]) <= Len(Commands(x))
    /\ \A k \in 1..Len(fDependencies[x]) :
         DependencyOK(Commands(x)[k].path, fDependencies[x][k])

\* A library that is being parsed has had nothing done to it, and whatever is
\* above it on the stack is one it has asked for.
ParseAt(i, x) ==
  /\ x \in allocated /\ x # Dylinker
  /\ x = Main => i = 1 /\ pc = "main"
  /\ stack[i].k = Len(fDependencies[x]) + 1
  /\ rebased[x] = 0 /\ bound[x] = 0 /\ initRuns[x] = 0
  /\ \A j \in 1..Len(stack) :
       j > i => stack[j].fn = "parse" /\ stack[j].im # x
  /\ i < Len(stack) =>
       /\ stack[i].k <= Len(Commands(x))
       /\ fOrigFilePath[stack[i + 1].im] = Commands(x)[stack[i].k].path

ParseInv ==
  \A i \in 1..Len(stack), x \in Image :
    stack[i].fn = "parse" /\ stack[i].im = x => ParseAt(i, x)

\* dlopen, between loading a library and binding it.
OpenInv ==
  \A i \in 1..Len(stack) : stack[i].fn = "dlopen" =>
    \A x \in Image : stack[i].im = x =>
      /\ i = Len(stack)
      /\ x \in allocated /\ x # Dylinker /\ x # Main
      /\ bound[x] = 0 /\ initRuns[x] = 0

\* What _main and initializeChain have on the stack.
StackInv ==
  /\ pc \in {"start", "bind", "bindMain", "crashed"} => stack = <<>>
  /\ pc \in {"aux", "main", "cas"} =>
       \A i \in 1..Len(stack) : stack[i].fn = "parse"
  /\ pc = "initMain" =>
       Len(stack) > 0 /\ stack[1].fn = "initialize" /\ stack[1].im = Main
  /\ pc = "init" /\ Len(stack) > 0 =>
       stack[1].fn = "initialize" /\ stack[1].im = im /\ im # NULL
  /\ \A i \in 1..Len(stack) : 
       stack[i].fn \in {"initialize", "parse"} => stack[i].im \in allocated

\* The walk of initializeChain stays in the chain.
WalkInv == im # NULL => im \in allocated /\ im # Main

\* What has been done to an image is done once: an image whose initializers
\* have been started is initialized, or they are still running.
OnceInv ==
  /\ pc \in {"start", "aux", "main", "cas", "bind"} =>
       \A x \in Image : bound[x] = 0
  /\ pc = "bindMain" => bound[Main] = 0
  /\ pc \in {"start", "aux", "main", "cas", "bind", "bindMain"} =>
       \A x \in Image : initRuns[x] = 0
  /\ pc = "init" => initRuns[Main] = 0
  /\ \A x \in Image : initRuns[x] > 0 =>
       \/ fHasInitialized[x] \/ pc = "crashed"
       \/ \E i \in 1..Len(stack) :
            stack[i].fn = "initialize" /\ stack[i].im = x

AuxInv == sAuxLibs \in Seq(Image)

LInv == /\ LinkerTypeOK /\ FilesInv /\ ChainInv /\ DepsInv /\ ParseInv
        /\ OpenInv /\ StackInv /\ WalkInv /\ OnceInv /\ AtMostOnce

---------------------------------------------------------------------------
(* The stack and the files. *)

\* Advance counts on in the innermost activation.
LEMMA AdvanceStack ==
  ASSUME NEW st \in Seq(Frame), Len(st) > 0
  PROVE  /\ Advance(st) \in Seq(Frame) /\ Len(Advance(st)) = Len(st)
         /\ \A i \in 1..Len(st) :
              /\ Advance(st)[i].fn = st[i].fn /\ Advance(st)[i].im = st[i].im
              /\ i < Len(st) => Advance(st)[i].k = st[i].k
         /\ Advance(st)[Len(st)].k = st[Len(st)].k + 1
<1>1. Len(st) \in 1..Len(st) /\ st[Len(st)] \in Frame
  OBVIOUS
<1>2. PICK f : f = [st[Len(st)] EXCEPT !.k = @ + 1]
  OBVIOUS
<1>3. /\ f \in Frame /\ f.fn = st[Len(st)].fn /\ f.im = st[Len(st)].im
      /\ f.k = st[Len(st)].k + 1
  BY <1>1, <1>2 DEF Frame
<1>4. Advance(st) = [st EXCEPT ![Len(st)] = f]
  BY <1>2 DEF Advance
<1> QED
  BY <1>1, <1>3, <1>4

LEMMA BelowStack ==
  ASSUME stack \in Seq(Frame), Len(stack) > 0
  PROVE  /\ Below \in Seq(Frame) /\ Len(Below) = Len(stack) - 1
         /\ \A i \in 1..Len(stack) - 1 : Below[i] = stack[i]
<1>1. Len(stack) \in Nat /\ \A i \in 1..Len(stack) : stack[i] \in Frame
  OBVIOUS
<1>2. Below = [i \in 1..Len(stack) - 1 |-> stack[i]]
  BY <1>1 DEF Below
<1>3. \A i \in 1..Len(stack) - 1 : stack[i] \in Frame
  BY <1>1
<1> QED
  BY <1>1, <1>2, <1>3

LEMMA PushedStack ==
  ASSUME NEW st \in Seq(Frame), NEW f \in Frame
  PROVE  /\ Append(st, f) \in Seq(Frame) /\ Len(Append(st, f)) = Len(st) + 1
         /\ \A i \in 1..Len(st) : Append(st, f)[i] = st[i]
         /\ Append(st, f)[Len(st) + 1] = f
OBVIOUS

\* The load commands of an image in use are there.
LEMMA CommandsType ==
  ASSUME LinkerTypeOK, FilesInv, NEW x \in allocated
  PROVE  Commands(x) \in Seq(Command)
<1>1. CASE x = Dylinker
  BY <1>1 DEF Commands, Contents, LinkerFile
<1>2. CASE x # Dylinker /\ x = Main
  BY <1>2 DEF Commands, Contents, LinkerTypeOK, File, Command
<1>3. CASE x # Dylinker /\ x # Main
  <2>1. disk.lib[fOrigFilePath[x]] \in File
    BY <1>3 DEF LinkerTypeOK, FilesInv
  <2> QED
    BY <1>3, <2>1 DEF Commands, Contents, File, Command
<1> QED
  BY <1>1, <1>2, <1>3

\* An image that loadLibraryEx finds is what was asked for.
LEMMA PresentDependency ==
  ASSUME LinkerTypeOK, FilesInv, ChainInv, pc # "start",
         NEW path \in Path \cup {LibSystem}, Present(path) # NULL
  PROVE  DependencyOK(path, Present(path))
<1>0. Len(chain) \in Nat /\ Len(chain) > 0 /\ chain[1] = Dylinker /\ firstImage = Dylinker
  BY DEF ChainInv, LinkerTypeOK, firstImage
<1>1. Dylinker \in allocated /\ Dylinker # Main
  BY <1>0, LinkerAssumption DEF ChainInv
<1>2. CASE path = LibSystem
  BY <1>0, <1>1, <1>2 DEF Present, DependencyOK
<1>3. CASE path # LibSystem
  <2> DEFINE same == {i \in 1..Len(chain) : fOrigFilePath[chain[i]] = path}
  <2>1. CASE same # {}
    <3>1. PICK i \in 1..Len(chain) : fOrigFilePath[chain[i]] = path
      BY <2>1
    <3>2. same = {i}
      BY <3>1 DEF ChainInv
    <3>3. Least(same) = i
      BY <3>2, <1>0 DEF Least
    <3>4. Present(path) = chain[i]
      BY <1>3, <2>1, <3>3 DEF Present
    <3> QED
      BY <3>1, <3>4 DEF DependencyOK, ChainInv
  <2>2. CASE same = {}
    <3>1. disk.lib[path] = NULL /\ Present(path) = Dylinker
      BY <1>3, <2>2 DEF Present
    <3> QED
      BY <1>1, <3>1 DEF DependencyOK
  <2> QED
    BY <2>1, <2>2
<1> QED
  BY <1>2, <1>3

\* What it does not find is in a file, and is not in the chain.
LEMMA AbsentFile ==
  ASSUME LinkerTypeOK, FilesInv, ChainInv, pc # "start",
         NEW path \in Path \cup {LibSystem}, Present(path) = NULL
  PROVE  /\ path \in Path /\ path # NULL /\ disk.lib[path] # NULL
         /\ \A x \in allocated : fOrigFilePath[x] # path
<1>0. Len(chain) \in Nat /\ Len(chain) > 0 /\ chain[1] = Dylinker /\ firstImage = Dylinker
  BY DEF ChainInv, LinkerTypeOK, firstImage
<1>1. Dylinker # NULL /\ path # NULL
  BY LinkerAssumption, ImageAssumption
<1>2. path # LibSystem
  BY <1>0, <1>1 DEF Present
<1> DEFINE same == {i \in 1..Len(chain) : fOrigFilePath[chain[i]] = path}
<1>3. same = {}
  <2> SUFFICES ASSUME NEW i \in same PROVE FALSE
    OBVIOUS
  <2>1. same = {i}
    BY DEF ChainInv
  <2>2. Least(same) = i
    BY <2>1, <1>0 DEF Least
  <2>3. Present(path) = chain[i]
    BY <1>2, <2>1, <2>2 DEF Present
  <2> QED
    BY <2>3, ImageAssumption DEF LinkerTypeOK
<1>4. disk.lib[path] # NULL
  BY <1>1, <1>2, <1>3 DEF Present
<1> QED
  BY <1>1, <1>2, <1>3, <1>4 DEF ChainInv, FilesInv

---------------------------------------------------------------------------
(* Loading a library. *)

LEMMA InsertedSecond ==
  ASSUME chain \in Seq(Image), Len(chain) > 0, NEW y \in Image
  PROVE  /\ insertAfterFirst(y) \in Seq(Image)
         /\ Len(insertAfterFirst(y)) = Len(chain) + 1
         /\ insertAfterFirst(y)[1] = chain[1] /\ insertAfterFirst(y)[2] = y
         /\ \A i \in 2..Len(chain) : insertAfterFirst(y)[i + 1] = chain[i]
<1>1. /\ Tail(chain) \in Seq(Image) /\ Len(Tail(chain)) = Len(chain) - 1
      /\ \A i \in 1..Len(chain) - 1 : Tail(chain)[i] = chain[i + 1]
  OBVIOUS
<1>2. <<chain[1], y>> \in Seq(Image) /\ Len(<<chain[1], y>>) = 2
  OBVIOUS
<1> QED
  BY <1>1, <1>2 DEF insertAfterFirst

\* The stack `st' with which loadLibraryEx is called, made from `stack'.
Callable(st, path) ==
  /\ st \in Seq(Frame)
  /\ \A i \in 1..Len(st) : st[i].fn = "parse" => st = stack
  /\ \A i \in 1..Len(stack) : stack[i].fn = "parse" => st = stack
  /\ \A i \in 1..Len(st) : st[i].fn = "dlopen" => st[i].im = NULL
  /\ \A i \in 1..Len(st) : st[i].fn = "initialize" => st[i].im \in allocated
  /\ \A i \in 1..Len(stack) : stack[i].fn = "initialize" =>
       i <= Len(st) /\ st[i].fn = "initialize" /\ st[i].im = stack[i].im
  /\ pc \in {"aux", "main", "cas"} => st = stack
  /\ pc = "init" => Len(stack) > 0
  /\ pc \notin {"start", "bind", "bindMain", "crashed"}
  /\ st = stack /\ Len(stack) > 0 =>
       /\ Top.fn = "parse" /\ Top.k <= Len(Commands(Top.im))
       /\ Commands(Top.im)[Top.k].path = path

LEMMA LoadFileInv ==
  ASSUME LInv, NEW path \in Path \cup {LibSystem}, Present(path) = NULL,
         NEW st, Callable(st, path), LoadFile(path, st),
         UNCHANGED <<initVars, disk, pc>>
  PROVE  LInv'
<1> USE DEF LInv
<1>1. PICK y : y = Fresh
  OBVIOUS
<1>2. y \in Image /\ y \notin allocated /\ y # Dylinker /\ y # Main
  BY <1>1 DEF LoadFile, Fresh, Free
<1>3. /\ allocated' = allocated \cup {y}
      /\ fOrigFilePath' = [fOrigFilePath EXCEPT ![y] = path]
      /\ chain' = insertAfterFirst(y)
      /\ sImageCount' = sImageCount + 1
      /\ UNCHANGED <<fDependencies, fHasInitialized, rebased, bound, initRuns, disk, pc, im>>
  BY <1>1 DEF LoadFile, initVars
<1>4. /\ st \in Seq(Frame) /\ stack' = Append(st, Activation("parse", y, 1))
      /\ pc \notin {"start", "bind", "bindMain", "crashed"}
  BY <1>1 DEF LoadFile, Callable
<1>5. /\ path \in Path /\ path # NULL /\ disk.lib[path] # NULL
      /\ \A x \in allocated : fOrigFilePath[x] # path
  BY <1>4, AbsentFile
<1>6. /\ Len(chain) \in Nat /\ Len(chain) > 0 /\ chain[1] = Dylinker
      /\ chain' \in Seq(Image) /\ Len(chain') = Len(chain) + 1
      /\ chain'[1] = Dylinker /\ chain'[2] = y
      /\ \A i \in 2..Len(chain) : chain'[i + 1] = chain[i]
  <2>1. chain \in Seq(Image) /\ Len(chain) > 0 /\ chain[1] = Dylinker
    BY <1>4 DEF LinkerTypeOK, ChainInv
  <2> QED
    BY <1>2, <1>3, <2>1, InsertedSecond
<1>7. /\ fOrigFilePath'[y] = path
      /\ \A x \in Image : x # y => fOrigFilePath'[x] = fOrigFilePath[x]
  BY <1>2, <1>3 DEF LinkerTypeOK
<1>8. \A x \in Image : x # y => Commands(x)' = Commands(x)
  BY <1>3, <1>7 DEF Commands, Contents
<1>9. PICK f : f = Activation("parse", y, 1)
  OBVIOUS
<1>10. f \in Frame /\ f.fn = "parse" /\ f.im = y /\ f.k = 1
  BY <1>2, <1>9 DEF Activation, Frame
<1>11. /\ Len(st) \in Nat /\ stack' \in Seq(Frame) /\ Len(stack') = Len(st) + 1
       /\ \A i \in 1..Len(st) : stack'[i] = st[i]
       /\ stack'[Len(st) + 1] = f
  BY <1>4, <1>9, <1>10, PushedStack
<1>12. /\ y \in Image \ allocated /\ fDependencies[y] = <<>> /\ rebased[y] = 0
       /\ bound[y] = 0 /\ initRuns[y] = 0
  BY <1>2 DEF FilesInv
<1>13. LinkerTypeOK'
  BY <1>2, <1>3, <1>5, <1>6, <1>11 DEF LinkerTypeOK
<1>14. FilesInv'
  BY <1>2, <1>3, <1>5, <1>7 DEF FilesInv, LinkerTypeOK
<1>15. ChainInv'
  <2>1. \A i \in 1..Len(chain') : i = 2 \/ \E k \in 1..Len(chain) :
          chain'[i] = chain[k] /\ i = IF k = 1 THEN 1 ELSE k + 1
    <3> SUFFICES ASSUME NEW i \in 1..Len(chain'), i # 2
                 PROVE  \E k \in 1..Len(chain) :
                          chain'[i] = chain[k] /\ i = IF k = 1 THEN 1 ELSE k + 1
      OBVIOUS
    <3>1. CASE i = 1
      BY <1>6, <3>1
    <3>2. CASE i # 1
      <4>1. PICK k \in 2..Len(chain) : i = k + 1
        <5>1. i - 1 \in 2..Len(chain) /\ i = (i - 1) + 1
          BY <1>6, <3>2
        <5> QED
          BY <5>1
      <4>2. k \in 1..Len(chain) /\ k # 1 /\ chain'[i] = chain[k]
        BY <1>6, <4>1
      <4> QED
        BY <4>1, <4>2
    <3> QED
      BY <3>1, <3>2
  <2>2. \A k \in 1..Len(chain) : chain[k] \in allocated /\ chain[k] # Main /\ chain[k] # y
    BY <1>2 DEF ChainInv
  <2>3. \A i \in 1..Len(chain') : chain'[i] \in allocated' /\ chain'[i] # Main
    BY <1>2, <1>3, <1>6, <2>1, <2>2
  <2>4. \A x \in allocated' : x # Main => \E i \in 1..Len(chain') : chain'[i] = x
    <3> SUFFICES ASSUME NEW x \in allocated', x # Main
                 PROVE  \E i \in 1..Len(chain') : chain'[i] = x
      OBVIOUS
    <3>1. CASE x = y
      BY <1>6, <3>1
    <3>2. CASE x # y
      <4>1. PICK k \in 1..Len(chain) : chain[k] = x
        BY <1>3, <3>2 DEF ChainInv
      <4>2. CASE k = 1
        BY <1>6, <4>1, <4>2
      <4>3. CASE k # 1
        <5>1. k \in 2..Len(chain) /\ k + 1 \in 1..Len(chain')
          BY <1>6, <4>3
        <5> QED
          BY <1>6, <4>1, <5>1
      <4> QED
        BY <4>2, <4>3
    <3> QED
      BY <3>1, <3>2
  <2>5. \A i, j \in 1..Len(chain') :
          fOrigFilePath'[chain'[i]] = fOrigFilePath'[chain'[j]] => i = j
    <3>1. \A k \in 1..Len(chain) : /\ fOrigFilePath'[chain[k]] = fOrigFilePath[chain[k]]
                                   /\ fOrigFilePath[chain[k]] # path
      BY <1>5, <1>7, <2>2 DEF LinkerTypeOK
    <3>2. \A k, l \in 1..Len(chain) :
            fOrigFilePath[chain[k]] = fOrigFilePath[chain[l]] => k = l
      BY DEF ChainInv
    <3>3. \A i \in 1..Len(chain') : i = 2 \/ fOrigFilePath'[chain'[i]] # path
      BY <2>1, <3>1
    <3> SUFFICES ASSUME NEW i \in 1..Len(chain'), NEW j \in 1..Len(chain'),
                        fOrigFilePath'[chain'[i]] = fOrigFilePath'[chain'[j]]
                 PROVE  i = j
      OBVIOUS
    <3>4. CASE i = 2 \/ j = 2
      BY <1>6, <1>7, <3>3, <3>4
    <3>5. CASE i # 2 /\ j # 2
      <4>1. PICK k \in 1..Len(chain) : chain'[i] = chain[k] /\ i = IF k = 1 THEN 1 ELSE k + 1
        BY <2>1, <3>5
      <4>2. PICK l \in 1..Len(chain) : chain'[j] = chain[l] /\ j = IF l = 1 THEN 1 ELSE l + 1
        BY <2>1, <3>5
      <4> QED
        BY <3>1, <3>2, <4>1, <4>2
    <3> QED
      BY <3>4, <3>5
  <2>6. sImageCount' = Len(chain') /\ Len(chain') > 0
    BY <1>3, <1>6 DEF ChainInv
  <2>7. Main \in allocated' <=> pc' \notin {"start", "aux"}
    BY <1>2, <1>3 DEF ChainInv
  <2>8. pc' # "start"
    BY <1>3, <1>4
  <2> QED
    BY <1>6, <2>3, <2>4, <2>5, <2>6, <2>7, <2>8 DEF ChainInv
<1>16. DepsInv'
  <2> SUFFICES ASSUME NEW x \in allocated'
               PROVE  /\ ~Parsing(x)' => Len(fDependencies'[x]) = Len(Commands(x)')
                      /\ Len(fDependencies'[x]) <= Len(Commands(x)')
                      /\ \A k \in 1..Len(fDependencies'[x]) :
                           DependencyOK(Commands(x)[k].path, fDependencies[x][k])'
    BY DEF DepsInv
  <2>1. CASE x = y
    <3>1. Contents(x)' = disk.lib[path] /\ disk.lib[path] \in File
      BY <1>2, <1>3, <1>5, <1>7, <2>1 DEF Contents, LinkerTypeOK
    <3>2. Len(Commands(x)') \in Nat
      BY <3>1 DEF Commands, File
    <3>3. Len(st) + 1 \in 1..Len(stack')
      BY <1>11
    <3>4. Parsing(x)'
      BY <1>10, <1>11, <2>1, <3>3 DEF Parsing
    <3>5. fDependencies'[x] = <<>>
      BY <1>3, <1>12, <2>1
    <3> QED
      BY <3>2, <3>4, <3>5
  <2>2. CASE x # y
    <3>1. x \in allocated /\ Commands(x)' = Commands(x) /\ fDependencies' = fDependencies
      BY <1>3, <1>8, <2>2 DEF LinkerTypeOK
    <3>2. ASSUME Parsing(x) PROVE Parsing(x)'
      <4>1. PICK i \in 1..Len(stack) : stack[i].fn = "parse" /\ stack[i].im = x
        BY <3>2 DEF Parsing
      <4>2. st = stack
        BY <4>1 DEF Callable
      <4>3. i \in 1..Len(stack') /\ stack'[i] = stack[i]
        BY <1>11, <4>2
      <4> QED
        BY <4>1, <4>3 DEF Parsing
    <3>3. ASSUME NEW k \in 1..Len(fDependencies[x])
          PROVE  DependencyOK(Commands(x)[k].path, fDependencies[x][k])'
      <4>1. DependencyOK(Commands(x)[k].path, fDependencies[x][k])
        BY <3>1, <3>3 DEF DepsInv
      <4> QED
        BY <1>2, <1>3, <1>7, <3>1, <4>1 DEF DependencyOK, LinkerTypeOK
    <3> QED
      BY <3>1, <3>2, <3>3 DEF DepsInv
  <2> QED
    BY <2>1, <2>2
<1>17. ParseInv'
  <2> SUFFICES ASSUME NEW i \in 1..Len(stack'), NEW x \in Image,
                      stack'[i].fn = "parse", stack'[i].im = x
               PROVE  ParseAt(i, x)'
    BY DEF ParseInv
  <2>1. CASE i = Len(st) + 1
    BY <1>2, <1>3, <1>10, <1>11, <1>12, <2>1 DEF ParseAt
  <2>2. CASE i # Len(st) + 1
    <3>1. i \in 1..Len(st) /\ stack'[i] = st[i]
      BY <1>11, <2>2
    <3>2. st = stack
      BY <3>1 DEF Callable
    <3>3. /\ x \in allocated /\ x # Dylinker
          /\ x = Main => i = 1 /\ pc = "main"
          /\ stack[i].k = Len(fDependencies[x]) + 1
          /\ rebased[x] = 0 /\ bound[x] = 0 /\ initRuns[x] = 0
          /\ \A j \in 1..Len(stack) :
               j > i => stack[j].fn = "parse" /\ stack[j].im # x
          /\ i < Len(stack) =>
               /\ stack[i].k <= Len(Commands(x))
               /\ fOrigFilePath[stack[i + 1].im] = Commands(x)[stack[i].k].path
      BY <3>1, <3>2 DEF ParseInv, ParseAt
    <3>4. x # y /\ Commands(x)' = Commands(x)
      BY <1>2, <1>8, <3>3
    <3>5. \A j \in 1..Len(stack') :
            j > i => stack'[j].fn = "parse" /\ stack'[j].im # x
      BY <1>10, <1>11, <3>2, <3>3, <3>4
    <3>6. CASE i < Len(stack)
      <4>1. /\ i + 1 \in 1..Len(stack) /\ stack[i + 1].fn = "parse"
            /\ stack'[i + 1] = stack[i + 1]
        BY <1>11, <3>2, <3>3, <3>6
      <4>2. stack[i + 1].im \in allocated
        BY <4>1 DEF StackInv
      <4>3. fOrigFilePath'[stack'[i + 1].im] = fOrigFilePath[stack[i + 1].im]
        BY <1>2, <1>7, <4>1, <4>2 DEF LinkerTypeOK
      <4> QED
        BY <1>3, <3>1, <3>2, <3>3, <3>4, <3>5, <3>6, <4>3 DEF ParseAt
    <3>7. CASE i = Len(stack)
      <4>1. Top = stack[i] /\ Top.im = x
        BY <3>1, <3>2, <3>7 DEF Top
      <4>2. stack[i].k <= Len(Commands(x)) /\ Commands(x)[stack[i].k].path = path
        BY <3>1, <3>2, <3>7, <4>1 DEF Callable
      <4>3. stack'[i + 1] = f
        BY <1>11, <3>2, <3>7
      <4> QED
        BY <1>3, <1>7, <1>10, <3>1, <3>2, <3>3, <3>4, <3>5, <4>2, <4>3 DEF ParseAt
    <3> QED
      BY <3>1, <3>2, <3>6, <3>7
  <2> QED
    BY <2>1, <2>2
<1>18. \A i \in 1..Len(stack') : \/ i \in 1..Len(st) /\ stack'[i] = st[i]
                                 \/ i = Len(st) + 1 /\ stack'[i] = f
  BY <1>11
<1>19. OpenInv'
  BY <1>10, <1>18, ImageAssumption DEF OpenInv, Callable
<1>20. StackInv'
  <2>1. pc' \in {"aux", "main", "cas"} =>
          \A i \in 1..Len(stack') : stack'[i].fn = "parse"
    BY <1>3, <1>10, <1>18 DEF StackInv, Callable
  <2>2. ASSUME Len(stack) > 0, stack[1].fn = "initialize"
        PROVE  /\ Len(stack') > 0 /\ stack'[1].fn = "initialize"
               /\ stack'[1].im = stack[1].im
    <3>1. 1 \in 1..Len(stack)
      BY <2>2 DEF LinkerTypeOK
    <3>2. 1 <= Len(st) /\ st[1].fn = "initialize" /\ st[1].im = stack[1].im
      BY <2>2, <3>1 DEF Callable
    <3> QED
      BY <1>11, <3>2
  <2>3. pc' = "initMain" => /\ Len(stack') > 0 /\ stack'[1].fn = "initialize"
                            /\ stack'[1].im = Main
    BY <1>3, <2>2 DEF StackInv
  <2>4. pc' = "init" => stack'[1].fn = "initialize" /\ stack'[1].im = im' /\ im' # NULL
    BY <1>3, <2>2 DEF StackInv, Callable
  <2>5. \A i \in 1..Len(stack') :
          stack'[i].fn \in {"initialize", "parse"} => stack'[i].im \in allocated'
    BY <1>3, <1>10, <1>18 DEF StackInv, Callable
  <2> QED
    BY <1>3, <1>4, <2>1, <2>3, <2>4, <2>5 DEF StackInv
<1>21. WalkInv'
  BY <1>3 DEF WalkInv
<1>22. OnceInv'
  <2>1. ASSUME NEW x \in Image, initRuns[x] > 0, ~fHasInitialized[x]
        PROVE  \E i \in 1..Len(stack') : stack'[i].fn = "initialize" /\ stack'[i].im = x
    <3>1. PICK i \in 1..Len(stack) : stack[i].fn = "initialize" /\ stack[i].im = x
      BY <1>4, <2>1 DEF OnceInv
    <3>2. i \in 1..Len(st) /\ st[i].fn = "initialize" /\ st[i].im = x
      BY <1>11, <3>1 DEF Callable
    <3> QED
      BY <1>11, <3>2
  <2> QED
    BY <1>3, <2>1 DEF OnceInv
<1>23. AtMostOnce'
  BY <1>3 DEF AtMostOnce
<1> QED
  BY <1>13, <1>14, <1>15, <1>16, <1>17, <1>19, <1>20, <1>21, <1>22, <1>23

LEMMA FrameType ==
  ASSUME LinkerTypeOK, NEW i \in 1..Len(stack)
  PROVE  stack[i] \in Frame /\ stack[i].im \in Image \cup {NULL} /\ stack[i].k \in Nat \ {0}
<1>1. stack[i] \in Frame
  BY DEF LinkerTypeOK
<1> QED
  BY <1>1 DEF Frame

LEMMA TopOfStack ==
  ASSUME LinkerTypeOK, Len(stack) > 0
  PROVE  /\ Len(stack) \in 1..Len(stack) /\ Top = stack[Len(stack)]
         /\ Top \in Frame
BY DEF LinkerTypeOK, Top

\* While a library is parsed there is nothing but parsing above it.
LEMMA ParsingAbove ==
  ASSUME LinkerTypeOK, StackInv, ParseInv, NEW i \in 1..Len(stack),
         stack[i].fn = "parse"
  PROVE  Top.fn = "parse"
<1>0. Len(stack) \in Nat /\ Len(stack) \in 1..Len(stack) /\ Top = stack[Len(stack)]
  BY TopOfStack DEF LinkerTypeOK
<1>1. stack[i].im \in Image
  BY DEF StackInv, LinkerTypeOK
<1> QED
  BY <1>0, <1>1 DEF ParseInv, ParseAt

\* The load command that is being looked at.
LEMMA CommandAt ==
  ASSUME LinkerTypeOK, FilesInv, StackInv, Calling("parse"),
         Top.k <= Len(Commands(Top.im))
  PROVE  /\ Top.im \in allocated /\ Top.im \in Image
         /\ Commands(Top.im)[Top.k] \in Command
<1>1. Len(stack) \in 1..Len(stack) /\ Top = stack[Len(stack)] /\ Top \in Frame
  BY TopOfStack DEF Calling
<1>2. Top.im \in allocated
  BY <1>1 DEF StackInv, Calling
<1>3. Top.k \in Nat \ {0}
  BY <1>1 DEF Frame
<1>4. Commands(Top.im) \in Seq(Command)
  BY <1>2, CommandsType
<1> QED
  BY <1>2, <1>3, <1>4 DEF LinkerTypeOK

LEMMA ParseLoadInv == LInv /\ ParseLoad => LInv'
<1> SUFFICES ASSUME LInv, ParseLoad PROVE LInv'
  OBVIOUS
<1> USE DEF LInv
<1>1. PICK path : path = Commands(Top.im)[Top.k].path
  OBVIOUS
<1>2. /\ Calling("parse") /\ Top.k <= Len(Commands(Top.im))
      /\ Present(path) = NULL /\ LoadFile(path, stack)
      /\ UNCHANGED <<initVars, disk, pc>>
  BY <1>1 DEF ParseLoad
<1>3. path \in Path \cup {LibSystem}
  BY <1>1, <1>2, CommandAt DEF Command
<1>4. /\ Len(stack) \in 1..Len(stack) /\ Top = stack[Len(stack)] /\ Top.fn = "parse"
      /\ stack # <<>> /\ Len(stack) > 0
  BY <1>2, TopOfStack DEF Calling
<1>5. \A i \in 1..Len(stack) : stack[i].fn = "dlopen" => stack[i].im = NULL
  <2> SUFFICES ASSUME NEW i \in 1..Len(stack), stack[i].fn = "dlopen",
                      stack[i].im # NULL
               PROVE  FALSE
    OBVIOUS
  <2>1. stack[i].im \in Image
    BY FrameType
  <2>2. i = Len(stack)
    BY <2>1 DEF OpenInv
  <2> QED
    BY <1>4, <2>2
<1>6. Callable(stack, path)
  BY <1>1, <1>2, <1>4, <1>5 DEF Callable, StackInv, LinkerTypeOK
<1> QED
  BY <1>2, <1>3, <1>6, LoadFileInv

\* A step that leaves alone what the invariant is about.
LEMMA StutterInv ==
  ASSUME LInv, UNCHANGED <<chainVars, im, disk, pc, stack, allocated,
                           fOrigFilePath, rebased, bound, initRuns>>
  PROVE  LInv'
<1> USE DEF LInv, chainVars
<1>1. \A x : Commands(x)' = Commands(x) /\ Parsing(x)' = Parsing(x)
  BY DEF Commands, Contents, Parsing
<1>2. LinkerTypeOK' /\ FilesInv' /\ ChainInv'
  BY DEF LinkerTypeOK, FilesInv, ChainInv
<1>3. DepsInv'
  BY <1>1 DEF DepsInv, DependencyOK
<1>4. ParseInv'
  <2> SUFFICES ASSUME NEW i \in 1..Len(stack'), NEW x \in Image,
                      stack'[i].fn = "parse", stack'[i].im = x
               PROVE  ParseAt(i, x)'
    BY DEF ParseInv
  <2>1. ParseAt(i, x)
    BY DEF ParseInv
  <2> QED
    BY <1>1, <2>1 DEF ParseAt
<1>5. OpenInv' /\ StackInv' /\ WalkInv' /\ OnceInv' /\ AtMostOnce'
  BY DEF OpenInv, StackInv, WalkInv, OnceInv, AtMostOnce
<1> QED
  BY <1>2, <1>3, <1>4, <1>5

LEMMA LoadAuxiliaryInv == LInv /\ AuxInv /\ LoadAuxiliary => LInv'
<1> SUFFICES ASSUME LInv, AuxInv, LoadAuxiliary PROVE LInv'
  OBVIOUS
<1> USE DEF LInv
<1>1. PICK path : path = AuxPaths[Len(sAuxLibs) + 1]
  OBVIOUS
<1>2. CASE Present(path) # NULL
  BY <1>1, <1>2, StutterInv DEF LoadAuxiliary, objVars, initVars
<1>3. CASE Present(path) = NULL
  <2>1. /\ pc = "aux" /\ stack = <<>> /\ LoadFile(path, stack)
        /\ UNCHANGED <<initVars, disk, pc>>
    BY <1>1, <1>3 DEF LoadAuxiliary
  <2>2. Callable(stack, path)
    BY <2>1 DEF Callable
  <2>3. Len(sAuxLibs) \in Nat /\ Len(sAuxLibs) < Len(AuxPaths)
    BY DEF AuxInv, LoadAuxiliary
  <2>4. path \in Path
    BY <1>1, <2>3, LinkerAssumption
  <2> QED
    BY <1>3, <2>1, <2>2, <2>4, LoadFileInv
<1> QED
  BY <1>2, <1>3

\* A dependency has been loaded or found: it is the next one of the library
\* that asked for it, the innermost of `st'.
LEMMA AddDependencyInv ==
  ASSUME LInv, NEW st \in Seq(Frame), NEW n, n = Len(st), n > 0,
         Calling("parse"), n = Len(stack) \/ n = Len(stack) - 1,
         \A i \in 1..n : st[i] = stack[i],
         NEW x, x = stack[n].im, stack[n].fn = "parse",
         stack[n].k <= Len(Commands(x)),
         NEW dep \in Image, DependencyOK(Commands(x)[stack[n].k].path, dep),
         fDependencies' = [fDependencies EXCEPT ![x] = Append(@, dep)],
         stack' = Advance(st),
         n = Len(stack) => rebased' = rebased,
         n # Len(stack) =>
           /\ Top.im # Main /\ Top.k > Len(Commands(Top.im))
           /\ rebased' = [rebased EXCEPT ![Top.im] = @ + 1],
         UNCHANGED <<chain, fHasInitialized, sImageCount, im, disk, pc,
                     allocated, fOrigFilePath, bound, initRuns>>
  PROVE  LInv'
<1> USE DEF LInv
<1>1. PICK w : w = Top.im
  OBVIOUS
<1>2. /\ Len(stack) \in Nat /\ n \in Nat /\ n <= Len(stack)
      /\ Len(stack) \in 1..Len(stack) /\ n \in 1..Len(stack)
      /\ stack[Len(stack)].fn = "parse" /\ stack[Len(stack)].im = w
      /\ Top = stack[Len(stack)]
  <2>1. Len(st) \in Nat /\ Len(stack) \in Nat
    BY DEF LinkerTypeOK
  <2>2. Len(stack) > 0 /\ Top.fn = "parse"
    BY DEF Calling
  <2>3. Len(stack) \in 1..Len(stack) /\ Top = stack[Len(stack)]
    BY <2>2, TopOfStack
  <2>4. n \in Nat /\ n <= Len(stack) /\ n \in 1..Len(stack)
    BY <2>1
  <2> QED
    BY <1>1, <2>1, <2>2, <2>3, <2>4
<1>3. w \in allocated /\ w \in Image /\ x \in allocated /\ x \in Image
  BY <1>2 DEF StackInv, LinkerTypeOK
<1>4. /\ rebased[w] = 0 /\ w # Dylinker
      /\ stack[Len(stack)].k = Len(fDependencies[w]) + 1
  BY <1>2, <1>3 DEF ParseInv, ParseAt
<1>5. /\ x # Dylinker /\ stack[n].k = Len(fDependencies[x]) + 1
      /\ n < Len(stack) => w # x
  BY <1>2, <1>3 DEF ParseInv, ParseAt
<1>6. /\ stack' \in Seq(Frame) /\ Len(stack') = n
      /\ \A i \in 1..n :
           /\ stack'[i].fn = stack[i].fn /\ stack'[i].im = stack[i].im
           /\ i < n => stack'[i].k = stack[i].k
      /\ stack'[n].k = stack[n].k + 1
  BY <1>2, AdvanceStack
<1>7. /\ fDependencies[x] \in Seq(Image) /\ Len(fDependencies[x]) \in Nat
      /\ fDependencies' \in [Image -> Seq(Image)]
      /\ fDependencies'[x] = Append(fDependencies[x], dep)
      /\ \A z \in Image : z # x => fDependencies'[z] = fDependencies[z]
  <2>1. fDependencies \in [Image -> Seq(Image)] /\ fDependencies[x] \in Seq(Image)
    BY <1>3 DEF LinkerTypeOK
  <2>2. Append(fDependencies[x], dep) \in Seq(Image)
    BY <2>1
  <2>3. fDependencies' = [fDependencies EXCEPT ![x] = Append(fDependencies[x], dep)]
    OBVIOUS
  <2>4. fDependencies'[x] = Append(fDependencies[x], dep)
    BY <1>3, <2>1, <2>3
  <2>5. \A z \in Image : z # x => fDependencies'[z] = fDependencies[z]
    BY <2>1, <2>3
  <2>6. fDependencies' \in [Image -> Seq(Image)]
    BY <1>3, <2>1, <2>2, <2>3
  <2>7. Len(fDependencies[x]) \in Nat
    BY <2>1
  <2> QED
    BY <2>1, <2>4, <2>5, <2>6, <2>7
<1>8. /\ Len(fDependencies'[x]) = Len(fDependencies[x]) + 1
      /\ fDependencies'[x][Len(fDependencies[x]) + 1] = dep
      /\ \A k \in 1..Len(fDependencies[x]) :
           fDependencies'[x][k] = fDependencies[x][k]
  BY <1>7
<1>9. /\ rebased' \in [Image -> Nat]
      /\ \A z \in Image : z # w \/ n = Len(stack) => rebased'[z] = rebased[z]
      /\ n # Len(stack) => rebased'[w] = 1 /\ w # Main
  <2>1. rebased \in [Image -> Nat]
    BY DEF LinkerTypeOK
  <2>2. CASE n = Len(stack)
    BY <2>1, <2>2
  <2>3. CASE n # Len(stack)
    <3>1. rebased' = [rebased EXCEPT ![w] = 1] /\ w # Main
      BY <1>1, <1>4, <2>3
    <3> QED
      BY <1>3, <2>1, <2>3, <3>1
  <2> QED
    BY <2>2, <2>3
<1>10. n # Len(stack) => Len(fDependencies[w]) = Len(Commands(w))
  <2>1. Commands(w) \in Seq(Command) /\ Len(Commands(w)) \in Nat
    BY <1>3, CommandsType
  <2>2. Len(fDependencies[w]) <= Len(Commands(w)) /\ Len(fDependencies[w]) \in Nat
    BY <1>3 DEF DepsInv, LinkerTypeOK
  <2> QED
    BY <1>1, <1>2, <1>4, <2>1, <2>2
<1>11. \A z : Commands(z)' = Commands(z)
  BY DEF Commands, Contents
<1>12. LinkerTypeOK'
  BY <1>6, <1>7, <1>9 DEF LinkerTypeOK
<1>13. FilesInv'
  <2>1. \A z \in Image \ allocated : z # x /\ z # w
    BY <1>3
  <2> QED
    BY <1>7, <1>9, <2>1 DEF FilesInv
<1>14. ChainInv'
  BY DEF ChainInv
<1>15. DepsInv'
  <2> SUFFICES ASSUME NEW z \in allocated
               PROVE  /\ ~Parsing(z)' => Len(fDependencies'[z]) = Len(Commands(z))
                      /\ Len(fDependencies'[z]) <= Len(Commands(z))
                      /\ \A k \in 1..Len(fDependencies'[z]) :
                           DependencyOK(Commands(z)[k].path, fDependencies[z][k])'
    BY <1>11 DEF DepsInv
  <2>1. CASE z = x
    <3>1. Parsing(x)'
      BY <1>2, <1>6 DEF Parsing
    <3>2. Len(fDependencies'[x]) <= Len(Commands(x))
      BY <1>5, <1>8
    <3>3. ASSUME NEW k \in 1..Len(fDependencies'[x])
          PROVE  DependencyOK(Commands(x)[k].path, fDependencies[x][k])'
      <4>1. CASE k = Len(fDependencies[x]) + 1
        <5>1. fDependencies'[x][k] = dep /\ k = stack[n].k
          BY <1>5, <1>8, <4>1
        <5> QED
          BY <1>11, <5>1 DEF DependencyOK
      <4>2. CASE k # Len(fDependencies[x]) + 1
        <5>1. k \in 1..Len(fDependencies[x])
          BY <1>7, <1>8, <4>2
        <5>2. DependencyOK(Commands(x)[k].path, fDependencies[x][k])
          BY <1>3, <5>1 DEF DepsInv
        <5>3. fDependencies'[x][k] = fDependencies[x][k]
          BY <1>8, <5>1
        <5> QED
          BY <1>11, <5>2, <5>3 DEF DependencyOK
      <4> QED
        BY <4>1, <4>2
    <3> QED
      BY <2>1, <3>1, <3>2, <3>3
  <2>2. CASE z # x
    <3>1. fDependencies'[z] = fDependencies[z]
      BY <1>7, <2>2 DEF LinkerTypeOK
    <3>2. Parsing(z) => Parsing(z)' \/ (n # Len(stack) /\ z = w)
      <4> SUFFICES ASSUME NEW i \in 1..Len(stack), stack[i].fn = "parse", stack[i].im = z
                   PROVE  Parsing(z)' \/ (n # Len(stack) /\ z = w)
        BY DEF Parsing
      <4>1. CASE i \in 1..n
        BY <1>6, <4>1 DEF Parsing
      <4>2. CASE i \notin 1..n
        <5>1. i = Len(stack) /\ n # Len(stack)
          BY <1>2, <4>2
        <5> QED
          BY <1>2, <5>1
      <4> QED
        BY <4>1, <4>2
    <3>3. \A k \in 1..Len(fDependencies[z]) :
            DependencyOK(Commands(z)[k].path, fDependencies[z][k])
      BY DEF DepsInv
    <3>4. \A k \in 1..Len(fDependencies[z]) :
            DependencyOK(Commands(z)[k].path, fDependencies[z][k])'
      BY <1>11, <3>1, <3>3 DEF DependencyOK
    <3> QED
      BY <1>10, <3>1, <3>2, <3>4 DEF DepsInv
  <2> QED
    BY <2>1, <2>2
<1>16. ParseInv'
  <2> SUFFICES ASSUME NEW i \in 1..Len(stack'), NEW z \in Image,
                      stack'[i].fn = "parse", stack'[i].im = z
               PROVE  ParseAt(i, z)'
    BY DEF ParseInv
  <2>0. i \in 1..n /\ stack[i].fn = "parse" /\ stack[i].im = z
    BY <1>6
  <2>1. i \in 1..Len(stack)
    BY <1>2, <2>0
  <2>2. /\ z \in allocated /\ z # Dylinker
        /\ z = Main => i = 1 /\ pc = "main"
        /\ stack[i].k = Len(fDependencies[z]) + 1
        /\ rebased[z] = 0 /\ bound[z] = 0 /\ initRuns[z] = 0
        /\ \A j \in 1..Len(stack) : j > i => stack[j].fn = "parse" /\ stack[j].im # z
        /\ i < Len(stack) =>
             /\ stack[i].k <= Len(Commands(z))
             /\ fOrigFilePath[stack[i + 1].im] = Commands(z)[stack[i].k].path
    BY <2>0, <2>1 DEF ParseInv, ParseAt
  <2>3. \A j \in 1..n : j > i => stack'[j].fn = "parse" /\ stack'[j].im # z
    BY <1>2, <1>6, <2>2
  <2>4. z # w \/ n = Len(stack)
    <3>1. n # Len(stack) => Len(stack) > i
      BY <1>2, <2>0
    <3> QED
      BY <1>2, <2>2, <3>1
  <2>5. rebased'[z] = 0
    BY <1>9, <2>2, <2>4
  <2>6. CASE i = n
    BY <1>2, <1>6, <1>8, <2>0, <2>2, <2>3, <2>5, <2>6 DEF ParseAt
  <2>7. CASE i < n
    <3>1. z # x
      BY <1>2, <2>2, <2>7
    <3>2. fDependencies'[z] = fDependencies[z] /\ stack'[i].k = stack[i].k
      BY <1>6, <1>7, <2>0, <2>7, <3>1
    <3>3. i + 1 \in 1..n /\ i < Len(stack)
      BY <1>2, <2>0, <2>7
    <3>4. stack'[i + 1].im = stack[i + 1].im
      BY <1>6, <3>3
    <3> QED
      BY <1>6, <1>11, <2>2, <2>3, <2>5, <2>7, <3>2, <3>3, <3>4 DEF ParseAt
  <2> QED
    BY <1>2, <2>0, <2>6, <2>7
<1>17. OpenInv'
  <2> SUFFICES ASSUME NEW i \in 1..n, stack[i].fn = "dlopen",
                      NEW z \in Image, stack[i].im = z
               PROVE  FALSE
    BY <1>6 DEF OpenInv
  <2>1. i = Len(stack)
    BY <1>2 DEF OpenInv
  <2> QED
    BY <1>2, <2>1
<1>18. StackInv'
  <2>1. \A i \in 1..n : /\ i \in 1..Len(stack) /\ stack'[i].fn = stack[i].fn
                        /\ stack'[i].im = stack[i].im
    BY <1>2, <1>6
  <2>2. Len(stack') > 0 /\ Len(stack) > 0 /\ stack # <<>> /\ 1 \in 1..n
    BY <1>2, <1>6
  <2>3. stack'[1].fn = stack[1].fn /\ stack'[1].im = stack[1].im
    BY <2>1, <2>2
  <2> QED
    BY <1>6, <2>1, <2>2, <2>3 DEF StackInv
<1>19. WalkInv'
  BY DEF WalkInv
<1>20. OnceInv'
  <2>1. ASSUME NEW z \in Image, initRuns[z] > 0, ~fHasInitialized[z]
        PROVE  \E i \in 1..n : stack'[i].fn = "initialize" /\ stack'[i].im = z
    <3>1. PICK i \in 1..Len(stack) : stack[i].fn = "initialize" /\ stack[i].im = z
      BY <1>2, <2>1 DEF OnceInv, StackInv
    <3>2. i \in 1..n
      BY <1>2, <3>1
    <3> QED
      BY <1>6, <3>1, <3>2
  <2> QED
    BY <1>6, <2>1 DEF OnceInv
<1>21. AtMostOnce'
  BY <1>3, <1>4, <1>9, LinkerAssumption DEF AtMostOnce
<1> QED
  BY <1>12, <1>13, <1>14, <1>15, <1>16, <1>17, <1>18, <1>19, <1>20, <1>21

LEMMA ParsePresentInv == LInv /\ ParsePresent => LInv'
<1> SUFFICES ASSUME LInv, ParsePresent PROVE LInv'
  OBVIOUS
<1> USE DEF LInv
<1>1. PICK x, path, dep : /\ x = Top.im /\ path = Commands(Top.im)[Top.k].path
                          /\ dep = Present(path)
  OBVIOUS
<1>2. /\ Calling("parse") /\ Top.k <= Len(Commands(x)) /\ dep # NULL
      /\ fDependencies' = [fDependencies EXCEPT ![x] = Append(@, dep)]
      /\ stack' = Advance(stack)
      /\ UNCHANGED <<chain, fHasInitialized, sImageCount, im, disk, pc,
                     allocated, fOrigFilePath, rebased, bound, initRuns>>
  BY <1>1 DEF ParsePresent, AddDependency, initVars
<1>3. /\ Len(stack) \in 1..Len(stack) /\ Top = stack[Len(stack)] /\ Len(stack) > 0
      /\ stack \in Seq(Frame) /\ stack # <<>>
  BY <1>2, TopOfStack DEF Calling, LinkerTypeOK
<1>4. path \in Path \cup {LibSystem}
  BY <1>1, <1>2, CommandAt DEF Command
<1>5. pc # "start"
  BY <1>3 DEF StackInv
<1>6. DependencyOK(path, dep)
  BY <1>1, <1>2, <1>4, <1>5, PresentDependency
<1>7. dep \in Image
  BY <1>6 DEF DependencyOK, LinkerTypeOK
<1>8. DependencyOK(Commands(x)[stack[Len(stack)].k].path, dep)
  BY <1>1, <1>3, <1>6
<1>9. stack[Len(stack)].fn = "parse" /\ x = stack[Len(stack)].im
      /\ stack[Len(stack)].k <= Len(Commands(x))
  BY <1>1, <1>2, <1>3 DEF Calling
<1> QED
  BY <1>2, <1>3, <1>7, <1>8, <1>9, AddDependencyInv

LEMMA ReturnToParseInv == LInv /\ ReturnToParse => LInv'
<1> SUFFICES ASSUME LInv, ReturnToParse PROVE LInv'
  OBVIOUS
<1> USE DEF LInv
<1>1. PICK n, x, dep : n = Len(stack) - 1 /\ x = stack[n].im /\ dep = Top.im
  OBVIOUS
<1>2. /\ Calling("parse") /\ Len(stack) > 1 /\ Top.im # Main
      /\ Top.k > Len(Commands(Top.im))
      /\ stack[n].fn = "parse"
      /\ fDependencies' = [fDependencies EXCEPT ![x] = Append(@, dep)]
      /\ rebased' = [rebased EXCEPT ![Top.im] = @ + 1]
      /\ stack' = Advance(Below)
      /\ UNCHANGED <<chain, fHasInitialized, sImageCount, im, disk, pc,
                     allocated, fOrigFilePath, bound, initRuns>>
  BY <1>1 DEF ReturnToParse, Loaded, AddDependency, doRebase, initVars
<1>3. /\ Len(stack) \in 1..Len(stack) /\ Top = stack[Len(stack)]
      /\ Len(stack) \in Nat /\ n \in Nat /\ n > 0 /\ n \in 1..Len(stack)
      /\ n < Len(stack) /\ n + 1 = Len(stack) /\ n # Len(stack)
  <2>1. Len(stack) \in Nat
    BY DEF LinkerTypeOK
  <2>2. Len(stack) > 0
    BY <1>2, <2>1
  <2> QED
    BY <1>1, <1>2, <2>1, <2>2, TopOfStack
<1>4. /\ Below \in Seq(Frame) /\ Len(Below) = n
      /\ \A i \in 1..n : Below[i] = stack[i]
  BY <1>1, <1>2, BelowStack DEF LinkerTypeOK
<1>5. x \in Image /\ dep \in allocated /\ dep \in Image /\ dep # Main
  BY <1>1, <1>2, <1>3 DEF StackInv, LinkerTypeOK, Calling
<1>6. /\ stack[n].k <= Len(Commands(x))
      /\ fOrigFilePath[dep] = Commands(x)[stack[n].k].path
  <2>1. ParseAt(n, x)
    BY <1>1, <1>2, <1>3, <1>5 DEF ParseInv
  <2> QED
    BY <1>1, <1>3, <2>1 DEF ParseAt
<1>7. DependencyOK(Commands(x)[stack[n].k].path, dep)
  BY <1>5, <1>6 DEF DependencyOK
<1> QED
  BY <1>1, <1>2, <1>3, <1>4, <1>5, <1>6, <1>7, AddDependencyInv

---------------------------------------------------------------------------
(* Steps that load nothing. *)

\* A step that leaves the images and their dependencies alone and finishes
\* no library before its last load command.
LEMMA ImagesKept ==
  ASSUME LInv,
         UNCHANGED <<chain, sImageCount, fDependencies, allocated,
                     fOrigFilePath, disk>>,
         stack' \in Seq(Frame), fHasInitialized' \in [Image -> BOOLEAN],
         rebased' \in [Image -> Nat], bound' \in [Image -> Nat],
         initRuns' \in [Image -> Nat],
         \A x \in Image \ allocated :
           rebased'[x] = 0 /\ bound'[x] = 0 /\ initRuns'[x] = 0,
         pc # "start" /\ pc' # "start", pc = "aux" <=> pc' = "aux",
         \A x \in allocated : Parsing(x) =>
           Parsing(x)' \/ Len(fDependencies[x]) = Len(Commands(x))
  PROVE  /\ LinkerTypeOK' /\ FilesInv' /\ ChainInv' /\ DepsInv'
         /\ \A x : Commands(x)' = Commands(x)
<1> USE DEF LInv
<1>1. \A x : Commands(x)' = Commands(x)
  BY DEF Commands, Contents
<1>2. LinkerTypeOK'
  BY DEF LinkerTypeOK
<1>3. FilesInv'
  BY DEF FilesInv
<1>4. ChainInv'
  BY DEF ChainInv
<1>5. DepsInv'
  <2> SUFFICES ASSUME NEW x \in allocated
               PROVE  /\ ~Parsing(x)' => Len(fDependencies[x]) = Len(Commands(x))
                      /\ Len(fDependencies[x]) <= Len(Commands(x))
                      /\ \A k \in 1..Len(fDependencies[x]) :
                           DependencyOK(Commands(x)[k].path, fDependencies[x][k])'
    BY <1>1 DEF DepsInv
  <2>1. \A k \in 1..Len(fDependencies[x]) :
          DependencyOK(Commands(x)[k].path, fDependencies[x][k])
    BY DEF DepsInv
  <2>2. \A k \in 1..Len(fDependencies[x]) :
          DependencyOK(Commands(x)[k].path, fDependencies[x][k])'
    BY <1>1, <2>1 DEF DependencyOK
  <2> QED
    BY <2>2 DEF DepsInv
<1> QED
  BY <1>1, <1>2, <1>3, <1>4, <1>5

\* A library whose load commands are done has its dependencies.
LEMMA LoadedTop ==
  ASSUME LInv, Loaded
  PROVE  /\ Top.im \in allocated /\ Top.im \in Image /\ Top.im # Dylinker
         /\ Top.im # Main /\ rebased[Top.im] = 0 /\ bound[Top.im] = 0
         /\ initRuns[Top.im] = 0 /\ Top.fn = "parse"
         /\ Len(stack) \in 1..Len(stack) /\ Len(stack) \in Nat /\ Len(stack) > 0
         /\ Top = stack[Len(stack)]
         /\ Len(fDependencies[Top.im]) = Len(Commands(Top.im))
<1> USE DEF LInv
<1>1. /\ Len(stack) > 0 /\ Top.fn = "parse" /\ Top.im # Main
      /\ Top.k > Len(Commands(Top.im))
  BY DEF Loaded, Calling
<1>2. /\ Len(stack) \in 1..Len(stack) /\ Top = stack[Len(stack)]
      /\ Len(stack) \in Nat
  BY <1>1, TopOfStack DEF LinkerTypeOK
<1>3. Top.im \in allocated /\ Top.im \in Image
  BY <1>1, <1>2 DEF StackInv, LinkerTypeOK
<1>4. ParseAt(Len(stack), Top.im)
  BY <1>1, <1>2, <1>3 DEF ParseInv
<1>5. /\ Top.k = Len(fDependencies[Top.im]) + 1 /\ Top.im # Dylinker
      /\ rebased[Top.im] = 0 /\ bound[Top.im] = 0 /\ initRuns[Top.im] = 0
  BY <1>2, <1>4 DEF ParseAt
<1>6. Commands(Top.im) \in Seq(Command) /\ Len(Commands(Top.im)) \in Nat
  BY <1>3, CommandsType
<1>7. Len(fDependencies[Top.im]) <= Len(Commands(Top.im))
      /\ Len(fDependencies[Top.im]) \in Nat
  BY <1>3 DEF DepsInv, LinkerTypeOK
<1> QED
  BY <1>1, <1>2, <1>3, <1>5, <1>6, <1>7

\* doRebase of the library that was loaded.
LEMMA RebasedTop ==
  ASSUME LInv, Loaded, doRebase
  PROVE  /\ rebased' \in [Image -> Nat] /\ rebased'[Top.im] = 1
         /\ \A x \in Image : x # Top.im => rebased'[x] = rebased[x]
         /\ UNCHANGED <<bound, initRuns>> => AtMostOnce'
<1> USE DEF LInv
<1>1. /\ Top.im \in Image /\ rebased[Top.im] = 0 /\ Top.im # Dylinker
      /\ Top.im # Main
  BY LoadedTop
<1>2. rebased \in [Image -> Nat]
  BY DEF LinkerTypeOK
<1>3. PICK w : w = Top.im
  OBVIOUS
<1>4. rebased' = [rebased EXCEPT ![w] = 1]
  BY <1>1, <1>2, <1>3 DEF doRebase
<1>5. /\ rebased' \in [Image -> Nat] /\ rebased'[w] = 1
      /\ \A x \in Image : x # w => rebased'[x] = rebased[x]
  BY <1>1, <1>2, <1>3, <1>4
<1>6. UNCHANGED <<bound, initRuns>> => AtMostOnce'
  BY <1>1, <1>3, <1>5, LinkerAssumption DEF AtMostOnce
<1> QED
  BY <1>3, <1>5, <1>6

LEMMA ReturnToMainInv == LInv /\ ReturnToMain => LInv'
<1> SUFFICES ASSUME LInv, ReturnToMain PROVE LInv'
  OBVIOUS
<1> USE DEF LInv
<1>1. /\ Loaded /\ Len(stack) = 1 /\ doRebase /\ stack' = <<>>
      /\ pc' = IF pc = "cas" THEN "bind" ELSE pc
      /\ UNCHANGED <<chain, fDependencies, fHasInitialized, sImageCount, im,
                     disk, allocated, fOrigFilePath, bound, initRuns>>
  BY DEF ReturnToMain, chainVars, initVars
<1>2. PICK w : w = Top.im
  OBVIOUS
<1>3. /\ w \in allocated /\ w \in Image /\ Top.fn = "parse"
      /\ 1 \in 1..Len(stack) /\ stack[1].fn = "parse" /\ stack[1].im = w
      /\ w # Main /\ Len(fDependencies[w]) = Len(Commands(w))
      /\ stack # <<>>
  <2>1. /\ Top.im \in allocated /\ Top.im \in Image /\ Top.fn = "parse"
        /\ Top.im # Main /\ Top = stack[Len(stack)]
        /\ Len(fDependencies[Top.im]) = Len(Commands(Top.im))
    BY <1>1, LoadedTop
  <2>2. 1 \in 1..Len(stack) /\ stack # <<>>
    BY <1>1
  <2>3. stack[1] = Top
    BY <1>1, <2>1
  <2> QED
    BY <1>2, <2>1, <2>2, <2>3
<1>4. /\ rebased' \in [Image -> Nat] /\ AtMostOnce'
      /\ \A x \in Image : x # w => rebased'[x] = rebased[x]
  BY <1>1, <1>2, RebasedTop
<1>5. stack' \in Seq(Frame) /\ Len(stack') = 0
  BY <1>1
<1>6. pc \notin {"start", "bind", "bindMain", "crashed", "init", "initMain"}
  BY <1>1, <1>3 DEF StackInv
<1>7. \A x : Parsing(x) => x = w
  BY <1>1, <1>3 DEF Parsing
<1>8. \A x \in Image \ allocated :
        rebased'[x] = 0 /\ bound'[x] = 0 /\ initRuns'[x] = 0
  BY <1>1, <1>3, <1>4 DEF FilesInv
<1>9. /\ fHasInitialized' \in [Image -> BOOLEAN] /\ bound' \in [Image -> Nat]
      /\ initRuns' \in [Image -> Nat]
  BY <1>1 DEF LinkerTypeOK
<1>10. pc # "start" /\ pc' # "start" /\ (pc = "aux" <=> pc' = "aux")
  BY <1>1, <1>6
<1>11. LinkerTypeOK' /\ FilesInv' /\ ChainInv' /\ DepsInv'
  BY <1>1, <1>3, <1>4, <1>5, <1>7, <1>8, <1>9, <1>10, ImagesKept
<1>12. ParseInv' /\ OpenInv'
  BY <1>5 DEF ParseInv, OpenInv
<1>13. StackInv' /\ WalkInv'
  BY <1>1, <1>5, <1>6 DEF StackInv, WalkInv
<1>14. OnceInv'
  <2>1. \A i \in 1..Len(stack) : stack[i].fn # "initialize"
    BY <1>1, <1>3
  <2> QED
    BY <1>1, <1>6, <2>1 DEF OnceInv
<1> QED
  BY <1>4, <1>11, <1>12, <1>13, <1>14

LEMMA ReturnToDlopenInv == LInv /\ ReturnToDlopen => LInv'
<1> SUFFICES ASSUME LInv, ReturnToDlopen PROVE LInv'
  OBVIOUS
<1> USE DEF LInv
<1>1. PICK w, m : w = Top.im /\ m = Len(stack) - 1
  OBVIOUS
<1>2. /\ Loaded /\ Len(stack) > 1 /\ stack[m].fn = "dlopen" /\ doRebase
      /\ stack' = [Below EXCEPT ![Len(Below)].im = Top.im]
      /\ UNCHANGED <<chain, fDependencies, fHasInitialized, sImageCount, im,
                     disk, pc, allocated, fOrigFilePath, bound, initRuns>>
  BY <1>1 DEF ReturnToDlopen, chainVars, initVars
<1>3. /\ Top.im \in allocated /\ Top.im \in Image /\ Top.im # Dylinker
      /\ Top.im # Main /\ bound[Top.im] = 0 /\ initRuns[Top.im] = 0
      /\ Len(fDependencies[Top.im]) = Len(Commands(Top.im))
      /\ stack[Len(stack)].fn = "parse" /\ stack[Len(stack)].im = Top.im
      /\ Len(stack) \in Nat
  BY <1>2, LoadedTop
<1>4. /\ rebased' \in [Image -> Nat] /\ AtMostOnce'
      /\ \A x \in Image : x # Top.im => rebased'[x] = rebased[x]
  BY <1>2, RebasedTop
<1>5. /\ w \in allocated /\ w \in Image /\ w # Dylinker /\ w # Main
      /\ bound[w] = 0 /\ initRuns[w] = 0
      /\ Len(fDependencies[w]) = Len(Commands(w))
      /\ \A x \in Image : x # w => rebased'[x] = rebased[x]
  BY <1>1, <1>3, <1>4
<1>6. /\ m \in Nat /\ m > 0 /\ m \in 1..Len(stack) /\ m + 1 = Len(stack)
  BY <1>1, <1>2, <1>3
<1>7. /\ Below \in Seq(Frame) /\ Len(Below) = m
      /\ \A i \in 1..m : Below[i] = stack[i]
  BY <1>1, <1>2, <1>3, BelowStack DEF LinkerTypeOK
<1>8. /\ stack' \in Seq(Frame) /\ Len(stack') = m
      /\ \A i \in 1..m : i # m => stack'[i] = stack[i]
      /\ stack'[m].fn = "dlopen" /\ stack'[m].im = w
  <2>1. PICK f : f = [stack[m] EXCEPT !.im = w]
    OBVIOUS
  <2>2. f \in Frame /\ f.fn = "dlopen" /\ f.im = w
    BY <1>2, <1>5, <1>6, <2>1, FrameType DEF Frame
  <2>3. stack' = [Below EXCEPT ![m] = f]
    <3>1. m \in 1..m
      BY <1>6
    <3>2. f = [Below[m] EXCEPT !.im = w]
      BY <1>7, <2>1, <3>1
    <3>3. stack' = [Below EXCEPT ![m].im = w]
      BY <1>1, <1>2, <1>7
    <3> QED
      BY <3>2, <3>3
  <2> QED
    BY <1>6, <1>7, <2>2, <2>3
<1>9. \A i \in 1..m : stack[i].fn # "parse"
  <2> SUFFICES ASSUME NEW i \in 1..m, stack[i].fn = "parse" PROVE FALSE
    OBVIOUS
  <2>1. i \in 1..Len(stack) /\ i # m /\ m > i
    BY <1>2, <1>6
  <2>2. stack[i].im \in Image
    BY <2>1 DEF StackInv, LinkerTypeOK
  <2>3. ParseAt(i, stack[i].im)
    BY <2>1, <2>2 DEF ParseInv
  <2> QED
    BY <1>2, <1>6, <2>1, <2>3 DEF ParseAt
<1>10. \A i \in 1..Len(stack) : i \in 1..m \/ i = Len(stack)
  BY <1>3, <1>6
<1>11. \A x : Parsing(x) => x = w
  BY <1>1, <1>3, <1>9, <1>10 DEF Parsing
<1>12. \A x \in Image \ allocated :
        rebased'[x] = 0 /\ bound'[x] = 0 /\ initRuns'[x] = 0
  BY <1>2, <1>5 DEF FilesInv
<1>13. /\ fHasInitialized' \in [Image -> BOOLEAN] /\ bound' \in [Image -> Nat]
       /\ initRuns' \in [Image -> Nat]
  BY <1>2 DEF LinkerTypeOK
<1>14. stack # <<>> /\ pc' = pc /\ pc \notin {"start", "bind", "bindMain", "crashed"}
  BY <1>2 DEF StackInv
<1>15. LinkerTypeOK' /\ FilesInv' /\ ChainInv' /\ DepsInv'
  BY <1>2, <1>4, <1>5, <1>8, <1>11, <1>12, <1>13, <1>14, ImagesKept
<1>16. ParseInv'
  <2>1. \A i \in 1..Len(stack') : stack'[i].fn # "parse"
    BY <1>8, <1>9
  <2> QED
    BY <2>1 DEF ParseInv
<1>17. OpenInv'
  <2> SUFFICES ASSUME NEW i \in 1..Len(stack'), stack'[i].fn = "dlopen",
                      NEW x \in Image, stack'[i].im = x
               PROVE  /\ i = m /\ x \in allocated /\ x # Dylinker /\ x # Main
                      /\ bound[x] = 0 /\ initRuns[x] = 0
    BY <1>2, <1>8 DEF OpenInv
  <2>1. CASE i = m
    BY <1>5, <1>8, <2>1
  <2>2. CASE i # m
    <3>1. stack[i].fn = "dlopen" /\ stack[i].im = x /\ i \in 1..Len(stack) /\ i # Len(stack)
      BY <1>6, <1>8, <2>2
    <3> QED
      BY <3>1 DEF OpenInv
  <2> QED
    BY <2>1, <2>2
<1>18. StackInv'
  <2>1. pc \notin {"aux", "main", "cas"}
    BY <1>2, <1>6 DEF StackInv
  <2>2. ASSUME stack[1].fn = "initialize" PROVE stack'[1] = stack[1]
    BY <1>2, <1>6, <1>8, <2>2
  <2>3. Len(stack) > 0 /\ Len(stack') > 0
    BY <1>2, <1>3, <1>6, <1>8
  <2>4. \A i \in 1..Len(stack') :
          stack'[i].fn \in {"initialize", "parse"} => stack'[i].im \in allocated
    BY <1>6, <1>8 DEF StackInv
  <2> QED
    BY <1>2, <1>14, <2>1, <2>2, <2>3, <2>4 DEF StackInv
<1>19. WalkInv'
  BY <1>2 DEF WalkInv
<1>20. OnceInv'
  <2>1. ASSUME NEW x \in Image, initRuns[x] > 0, ~fHasInitialized[x]
        PROVE  \E i \in 1..Len(stack') : stack'[i].fn = "initialize" /\ stack'[i].im = x
    <3>1. PICK i \in 1..Len(stack) : stack[i].fn = "initialize" /\ stack[i].im = x
      BY <1>14, <2>1 DEF OnceInv
    <3>2. i \in 1..m /\ i # m
      BY <1>2, <1>3, <1>10, <3>1
    <3> QED
      BY <1>8, <3>1, <3>2
  <2> QED
    BY <1>2, <2>1 DEF OnceInv
<1> QED
  BY <1>4, <1>15, <1>16, <1>17, <1>18, <1>19, <1>20

LEMMA SetUpDylinkerInv == LInv /\ SetUpDylinker => LInv'
<1> SUFFICES ASSUME LInv, SetUpDylinker PROVE LInv'
  OBVIOUS
<1> USE DEF LInv
<1>1. /\ pc = "start" /\ allocated' = allocated \cup {Dylinker}
      /\ chain' = <<Dylinker>> /\ sImageCount' = sImageCount + 1 /\ pc' = "aux"
      /\ UNCHANGED <<fDependencies, fHasInitialized, im, fOrigFilePath,
                     rebased, bound, initRuns, disk, stack>>
  BY DEF SetUpDylinker, initVars
<1>2. chain = <<>> /\ stack = <<>> /\ Main \notin allocated
  BY <1>1 DEF ChainInv, StackInv
<1>3. allocated = {} /\ sImageCount = 0
  BY <1>2 DEF ChainInv
<1>4. Dylinker \in Image /\ Main \in Image /\ Dylinker # Main
  BY LinkerAssumption
<1>5. /\ allocated' = {Dylinker} /\ chain' \in Seq(Image) /\ Len(chain') = 1
      /\ chain'[1] = Dylinker /\ sImageCount' = 1
  BY <1>1, <1>3, <1>4
<1>6. LinkerTypeOK'
  BY <1>1, <1>4, <1>5 DEF LinkerTypeOK
<1>7. FilesInv'
  BY <1>1, <1>3, <1>5 DEF FilesInv
<1>8. ChainInv'
  BY <1>1, <1>4, <1>5 DEF ChainInv
<1>9. DepsInv'
  <2>1. Commands(Dylinker)' = <<>> /\ fDependencies'[Dylinker] = <<>>
    BY <1>1, <1>3, <1>4 DEF Commands, Contents, LinkerFile, FilesInv
  <2> QED
    BY <1>5, <2>1 DEF DepsInv
<1>10. ParseInv' /\ OpenInv' /\ StackInv'
  BY <1>1, <1>2 DEF ParseInv, OpenInv, StackInv
<1>11. WalkInv' /\ OnceInv' /\ AtMostOnce'
  BY <1>1, <1>2, <1>3 DEF WalkInv, OnceInv, AtMostOnce
<1> QED
  BY <1>6, <1>7, <1>8, <1>9, <1>10, <1>11

LEMMA SetUpMainInv == LInv /\ SetUpMain => LInv'
<1> SUFFICES ASSUME LInv, SetUpMain PROVE LInv'
  OBVIOUS
<1> USE DEF LInv
<1>1. /\ pc = "aux" /\ stack = <<>> /\ allocated' = allocated \cup {Main}
      /\ stack' = <<Activation("parse", Main, 1)>> /\ pc' = "main"
      /\ UNCHANGED <<chain, sImageCount, fDependencies, fHasInitialized, im,
                     fOrigFilePath, rebased, bound, initRuns, disk>>
  BY DEF SetUpMain, chainVars, initVars
<1>2. Main \in Image /\ Main # Dylinker /\ Main \notin allocated
  BY <1>1, LinkerAssumption DEF ChainInv
<1>3. /\ fDependencies[Main] = <<>> /\ rebased[Main] = 0 /\ bound[Main] = 0
      /\ initRuns[Main] = 0
  BY <1>2 DEF FilesInv
<1>4. PICK f : f = Activation("parse", Main, 1)
  OBVIOUS
<1>5. f \in Frame /\ f.fn = "parse" /\ f.im = Main /\ f.k = 1
  BY <1>2, <1>4 DEF Frame, Activation
<1>6. stack' \in Seq(Frame) /\ Len(stack') = 1 /\ stack'[1] = f
  BY <1>1, <1>4, <1>5
<1>7. \A x : Commands(x)' = Commands(x)
  BY <1>1 DEF Commands, Contents
<1>8. LinkerTypeOK'
  BY <1>1, <1>2, <1>6 DEF LinkerTypeOK
<1>9. FilesInv'
  BY <1>1, <1>2 DEF FilesInv
<1>10. ChainInv'
  BY <1>1, <1>2 DEF ChainInv
<1>11. DepsInv'
  <2> SUFFICES ASSUME NEW x \in allocated'
               PROVE  /\ ~Parsing(x)' => Len(fDependencies[x]) = Len(Commands(x))
                      /\ Len(fDependencies[x]) <= Len(Commands(x))
                      /\ \A k \in 1..Len(fDependencies[x]) :
                           DependencyOK(Commands(x)[k].path, fDependencies[x][k])'
    BY <1>1, <1>7 DEF DepsInv
  <2>1. CASE x = Main
    <3>1. Parsing(Main)'
      BY <1>5, <1>6 DEF Parsing
    <3>2. Len(Commands(Main)) \in Nat
      BY <1>2 DEF Commands, Contents, LinkerTypeOK, File
    <3> QED
      BY <1>3, <2>1, <3>1, <3>2
  <2>2. CASE x # Main
    <3>1. x \in allocated
      BY <1>1, <2>2
    <3>2. \A k \in 1..Len(fDependencies[x]) :
            DependencyOK(Commands(x)[k].path, fDependencies[x][k])
      BY <3>1 DEF DepsInv
    <3>3. \A k \in 1..Len(fDependencies[x]) :
            DependencyOK(Commands(x)[k].path, fDependencies[x][k])'
      BY <1>1, <1>7, <3>2 DEF DependencyOK
    <3>4. ~Parsing(x)
      BY <1>1 DEF Parsing
    <3> QED
      BY <3>1, <3>3, <3>4 DEF DepsInv
  <2> QED
    BY <2>1, <2>2
<1>12. ParseInv'
  <2>1. ParseAt(1, Main)'
    BY <1>1, <1>2, <1>3, <1>5, <1>6 DEF ParseAt
  <2> QED
    BY <1>5, <1>6, <2>1 DEF ParseInv
<1>13. OpenInv' /\ StackInv'
  BY <1>1, <1>5, <1>6 DEF OpenInv, StackInv
<1>14. WalkInv' /\ AtMostOnce'
  BY <1>1 DEF WalkInv, AtMostOnce
<1>15. OnceInv'
  BY <1>1 DEF OnceInv
<1> QED
  BY <1>8, <1>9, <1>10, <1>11, <1>12, <1>13, <1>14, <1>15

LEMMA MainLoadedInv == LInv /\ MainLoaded => LInv'
<1> SUFFICES ASSUME LInv, MainLoaded PROVE LInv'
  OBVIOUS
<1> USE DEF LInv
<1>1. /\ pc = "main" /\ Calling("parse") /\ Top.im = Main
      /\ Top.k > Len(Commands(Main)) /\ stack' = <<>> /\ pc' = "cas"
      /\ UNCHANGED <<chain, sImageCount, fDependencies, fHasInitialized, im,
                     fOrigFilePath, allocated, rebased, bound, initRuns, disk>>
  BY DEF MainLoaded, chainVars, initVars, objVars
<1>2. /\ Len(stack) \in 1..Len(stack) /\ Top = stack[Len(stack)] /\ Top.fn = "parse"
      /\ Main \in Image /\ Main \in allocated
  BY <1>1, TopOfStack, LinkerAssumption DEF Calling, ChainInv
<1>3. ParseAt(Len(stack), Main)
  BY <1>1, <1>2 DEF ParseInv
<1>4. Len(stack) = 1 /\ Top.k = Len(fDependencies[Main]) + 1
  BY <1>2, <1>3 DEF ParseAt
<1>5. Len(fDependencies[Main]) = Len(Commands(Main))
  <2>1. Commands(Main) \in Seq(Command) /\ Len(Commands(Main)) \in Nat
    BY <1>2, CommandsType
  <2>2. Len(fDependencies[Main]) <= Len(Commands(Main)) /\ Len(fDependencies[Main]) \in Nat
    BY <1>2 DEF DepsInv, LinkerTypeOK
  <2> QED
    BY <1>1, <1>4, <2>1, <2>2
<1>6. \A x : Parsing(x) => x = Main
  BY <1>1, <1>2, <1>4 DEF Parsing
<1>7. /\ stack' \in Seq(Frame) /\ Len(stack') = 0
      /\ fHasInitialized' \in [Image -> BOOLEAN] /\ bound' \in [Image -> Nat]
      /\ initRuns' \in [Image -> Nat] /\ rebased' \in [Image -> Nat]
  BY <1>1 DEF LinkerTypeOK
<1>8. \A x \in Image \ allocated :
        rebased'[x] = 0 /\ bound'[x] = 0 /\ initRuns'[x] = 0
  BY <1>1 DEF FilesInv
<1>9. LinkerTypeOK' /\ FilesInv' /\ ChainInv' /\ DepsInv'
  BY <1>1, <1>5, <1>6, <1>7, <1>8, ImagesKept
<1>10. ParseInv' /\ OpenInv' /\ StackInv'
  BY <1>1, <1>7 DEF ParseInv, OpenInv, StackInv
<1>11. WalkInv' /\ OnceInv' /\ AtMostOnce'
  BY <1>1 DEF WalkInv, OnceInv, AtMostOnce
<1> QED
  BY <1>9, <1>10, <1>11

\* A step of _main that leaves nothing on the stack.
LEMMA EmptyStackInv ==
  ASSUME LInv, \A x : ~Parsing(x), stack' = <<>>,
         UNCHANGED <<chain, sImageCount, fDependencies, allocated,
                     fOrigFilePath, disk, rebased>>,
         fHasInitialized' \in [Image -> BOOLEAN],
         bound' \in [Image -> Nat], initRuns' \in [Image -> Nat],
         \A x \in Image \ allocated : bound'[x] = 0 /\ initRuns'[x] = 0,
         pc \notin {"start", "aux"}, pc' \notin {"start", "aux", "initMain"}
  PROVE  /\ LinkerTypeOK' /\ FilesInv' /\ ChainInv' /\ DepsInv' /\ ParseInv'
         /\ OpenInv' /\ StackInv'
<1> USE DEF LInv
<1>1. stack' \in Seq(Frame) /\ Len(stack') = 0 /\ rebased' \in [Image -> Nat]
  BY DEF LinkerTypeOK
<1>2. \A x \in Image \ allocated :
        rebased'[x] = 0 /\ bound'[x] = 0 /\ initRuns'[x] = 0
  BY DEF FilesInv
<1>3. LinkerTypeOK' /\ FilesInv' /\ ChainInv' /\ DepsInv'
  BY <1>1, <1>2, ImagesKept
<1>4. ParseInv' /\ OpenInv' /\ StackInv'
  BY <1>1 DEF ParseInv, OpenInv, StackInv
<1> QED
  BY <1>3, <1>4

LEMMA LoadCasInv == LInv /\ LoadCas => LInv'
<1> SUFFICES ASSUME LInv, LoadCas PROVE LInv'
  OBVIOUS
<1> USE DEF LInv
<1>1. pc = "cas" /\ stack = <<>> /\ UNCHANGED <<initVars, disk>>
  BY DEF LoadCas
<1>2. CASE Present(CasPath) # NULL
  <2>1. pc' = "bind" /\ UNCHANGED <<chainVars, objVars, stack>>
    BY <1>2 DEF LoadCas
  <2>2. /\ stack' = <<>>
        /\ UNCHANGED <<chain, sImageCount, fDependencies, allocated, bound, initRuns,
                       fOrigFilePath, disk, rebased, im, fHasInitialized>>
    BY <1>1, <2>1 DEF chainVars, objVars, initVars
  <2>3. /\ bound' \in [Image -> Nat] /\ initRuns' \in [Image -> Nat]
        /\ \A x \in Image \ allocated : bound'[x] = 0 /\ initRuns'[x] = 0
        /\ fHasInitialized' \in [Image -> BOOLEAN] /\ \A x : ~Parsing(x)
    BY <1>1, <2>2 DEF LinkerTypeOK, FilesInv, Parsing
  <2>4. /\ LinkerTypeOK' /\ FilesInv' /\ ChainInv' /\ DepsInv' /\ ParseInv'
        /\ OpenInv' /\ StackInv'
    BY <1>1, <2>1, <2>2, <2>3, EmptyStackInv
  <2>5. WalkInv' /\ OnceInv' /\ AtMostOnce'
    BY <1>1, <2>1, <2>2 DEF WalkInv, OnceInv, AtMostOnce
  <2> QED
    BY <2>4, <2>5
<1>3. CASE Present(CasPath) = NULL
  <2>1. LoadFile(CasPath, stack) /\ UNCHANGED pc
    BY <1>3 DEF LoadCas
  <2>2. Callable(stack, CasPath)
    BY <1>1 DEF Callable
  <2>3. CasPath \in Path \cup {LibSystem}
    BY LinkerAssumption
  <2> QED
    BY <1>1, <1>3, <2>1, <2>2, <2>3, LoadFileInv
<1> QED
  BY <1>2, <1>3

LEMMA bindChainInv == LInv /\ bindChain => LInv'
<1> SUFFICES ASSUME LInv, bindChain PROVE LInv'
  OBVIOUS
<1> USE DEF LInv
<1>1. /\ pc = "bind" /\ pc' = "bindMain"
      /\ bound' = [x \in Image |-> IF x \in InChain THEN bound[x] + 1 ELSE bound[x]]
      /\ UNCHANGED <<chain, sImageCount, fDependencies, allocated, initRuns,
                     fOrigFilePath, disk, rebased, im, fHasInitialized, stack>>
  BY DEF bindChain, doBindSymbols, chainVars, initVars
<1>2. /\ stack = <<>> /\ stack' = <<>> /\ \A x : ~Parsing(x)
      /\ fHasInitialized' \in [Image -> BOOLEAN]
  BY <1>1 DEF StackInv, Parsing, LinkerTypeOK
<1>3. InChain \subseteq allocated /\ Main \notin InChain /\ Main \in Image
  BY LinkerAssumption DEF InChain, ChainInv
<1>4. \A x \in Image : bound[x] = 0 /\ initRuns[x] = 0
  BY <1>1 DEF OnceInv
<1>5. /\ bound' \in [Image -> Nat] /\ \A x \in Image : bound'[x] <= 1
      /\ bound'[Main] = 0 /\ \A x \in Image \ allocated : bound'[x] = 0
  BY <1>1, <1>3, <1>4
<1>6. initRuns' \in [Image -> Nat] /\ \A x \in Image : initRuns'[x] = 0
  BY <1>1, <1>4 DEF LinkerTypeOK
<1>7. /\ LinkerTypeOK' /\ FilesInv' /\ ChainInv' /\ DepsInv' /\ ParseInv'
      /\ OpenInv' /\ StackInv'
  BY <1>1, <1>2, <1>5, <1>6, EmptyStackInv
<1>8. WalkInv' /\ OnceInv' /\ AtMostOnce'
  BY <1>1, <1>5, <1>6 DEF WalkInv, OnceInv, AtMostOnce
<1> QED
  BY <1>7, <1>8

LEMMA BindMainInv == LInv /\ BindMain => LInv'
<1> SUFFICES ASSUME LInv, BindMain PROVE LInv'
  OBVIOUS
<1> USE DEF LInv
<1>1. /\ pc = "bindMain" /\ pc' = "init"
      /\ bound' = [x \in Image |-> IF x \in {Main} THEN bound[x] + 1 ELSE bound[x]]
      /\ UNCHANGED <<chain, sImageCount, fDependencies, allocated, initRuns,
                     fOrigFilePath, disk, rebased, im, fHasInitialized, stack>>
  BY DEF BindMain, doBindSymbols, chainVars, initVars
<1>2. /\ stack = <<>> /\ stack' = <<>> /\ \A x : ~Parsing(x)
      /\ fHasInitialized' \in [Image -> BOOLEAN]
  BY <1>1 DEF StackInv, Parsing, LinkerTypeOK
<1>3. Main \in Image /\ Main \in allocated /\ bound[Main] = 0
  BY <1>1, LinkerAssumption DEF ChainInv, OnceInv
<1>4. /\ bound' \in [Image -> Nat] /\ \A x \in Image : bound'[x] <= 1
      /\ \A x \in Image \ allocated : bound'[x] = 0
  BY <1>1, <1>3 DEF LinkerTypeOK, AtMostOnce, FilesInv
<1>5. initRuns' \in [Image -> Nat] /\ \A x \in Image : initRuns'[x] = 0
  BY <1>1 DEF LinkerTypeOK, OnceInv
<1>6. /\ LinkerTypeOK' /\ FilesInv' /\ ChainInv' /\ DepsInv' /\ ParseInv'
      /\ OpenInv' /\ StackInv'
  BY <1>1, <1>2, <1>4, <1>5, EmptyStackInv
<1>7. OnceInv'
  BY <1>1, <1>3, <1>5 DEF OnceInv
<1>8. WalkInv' /\ AtMostOnce'
  BY <1>1, <1>4, <1>5 DEF WalkInv, AtMostOnce
<1> QED
  BY <1>6, <1>7, <1>8

---------------------------------------------------------------------------
(* Initializers. *)

LEMMA NextInChain ==
  ASSUME LinkerTypeOK, ChainInv, NEW y \in allocated, y # Main
  PROVE  nextImage(y) = NULL \/ (nextImage(y) \in allocated /\ nextImage(y) # Main)
<1> DEFINE p == CHOOSE p \in 1..Len(chain) : chain[p] = y
<1>1. p \in 1..Len(chain)
  BY DEF ChainInv
<1>2. Len(chain) \in Nat
  BY DEF LinkerTypeOK
<1>3. CASE p < Len(chain)
  <2>1. p + 1 \in 1..Len(chain) /\ nextImage(y) = chain[p + 1]
    BY <1>1, <1>2, <1>3 DEF nextImage
  <2> QED
    BY <2>1 DEF ChainInv
<1>4. CASE ~(p < Len(chain))
  BY <1>4 DEF nextImage
<1> QED
  BY <1>3, <1>4

LEMMA FirstInChain ==
  ASSUME LinkerTypeOK, ChainInv
  PROVE  firstImage = NULL \/ (firstImage \in allocated /\ firstImage # Main)
BY DEF LinkerTypeOK, ChainInv, firstImage

LEMMA WalkChainInv == LInv /\ WalkChain => LInv'
<1> SUFFICES ASSUME LInv, WalkChain PROVE LInv'
  OBVIOUS
<1> USE DEF LInv
<1>1. /\ pc = "init" /\ stack = <<>> /\ pc' = pc /\ stack' = <<>>
      /\ UNCHANGED <<chain, sImageCount, fDependencies, allocated, bound, initRuns,
                     fOrigFilePath, disk, rebased, fHasInitialized>>
  BY DEF WalkChain, objVars, chainVars, Call, SkipInitialized, GotoCircInit,
         Postpone, EndOfWalk, SkipCircular
<1>2. im' = firstImage \/ (im # NULL /\ im' = nextImage(im))
  BY DEF WalkChain, Call, SkipInitialized, GotoCircInit, Postpone, EndOfWalk,
         SkipCircular
<1>3. WalkInv'
  <2>1. im' = NULL \/ (im' \in allocated /\ im' # Main)
    <3>1. CASE im' = firstImage
      BY <3>1, FirstInChain
    <3>2. CASE im # NULL /\ im' = nextImage(im)
      BY <3>2, NextInChain DEF WalkInv
    <3> QED
      BY <1>2, <3>1, <3>2
  <2> QED
    BY <1>1, <2>1 DEF WalkInv
<1>4. /\ bound' \in [Image -> Nat] /\ initRuns' \in [Image -> Nat]
      /\ \A x \in Image \ allocated : bound'[x] = 0 /\ initRuns'[x] = 0
      /\ fHasInitialized' \in [Image -> BOOLEAN] /\ \A x : ~Parsing(x)
  BY <1>1 DEF LinkerTypeOK, FilesInv, Parsing
<1>5. /\ LinkerTypeOK' /\ FilesInv' /\ ChainInv' /\ DepsInv' /\ ParseInv'
      /\ OpenInv' /\ StackInv'
  BY <1>1, <1>4, EmptyStackInv
<1>6. OnceInv' /\ AtMostOnce'
  BY <1>1 DEF OnceInv, AtMostOnce
<1> QED
  BY <1>3, <1>5, <1>6

\* The initializers of an image that has not been initialized start.
LEMMA StartInv ==
  ASSUME LInv, pc = "init", stack = <<>>, NEW x \in allocated, Start(x),
         stack' = <<Activation("initialize", x, 1)>>,
         initRuns[x] = 0,
         IF x = Main THEN pc' = "initMain" ELSE pc' = pc /\ im = x,
         UNCHANGED <<chain, sImageCount, fDependencies, allocated, bound, im,
                     fOrigFilePath, disk, rebased, fHasInitialized>>
  PROVE  LInv'
<1> USE DEF LInv
<1>1. PICK f : f = Activation("initialize", x, 1)
  OBVIOUS
<1>2. x \in Image /\ f \in Frame /\ f.fn = "initialize" /\ f.im = x
  BY <1>1 DEF Activation, Frame, LinkerTypeOK
<1>3. stack' \in Seq(Frame) /\ Len(stack') = 1 /\ stack'[1] = f
  BY <1>1, <1>2
<1>4. initRuns' = [initRuns EXCEPT ![x] = 1] /\ initRuns \in [Image -> Nat]
  BY <1>2 DEF Start, LinkerTypeOK
<1>5. /\ initRuns' \in [Image -> Nat] /\ initRuns'[x] = 1
      /\ \A y \in Image : y # x => initRuns'[y] = initRuns[y]
  BY <1>2, <1>4
<1>6. /\ bound' \in [Image -> Nat] /\ rebased' \in [Image -> Nat]
      /\ \A y \in Image \ allocated :
           rebased'[y] = 0 /\ bound'[y] = 0 /\ initRuns'[y] = 0
      /\ fHasInitialized' \in [Image -> BOOLEAN] /\ \A y : ~Parsing(y)
  BY <1>5 DEF LinkerTypeOK, FilesInv, Parsing
<1>7. LinkerTypeOK' /\ FilesInv' /\ ChainInv' /\ DepsInv'
  BY <1>3, <1>5, <1>6, ImagesKept
<1>8. ParseInv' /\ OpenInv'
  BY <1>2, <1>3 DEF ParseInv, OpenInv
<1>9. StackInv'
  <2>1. x # NULL
    BY <1>2, ImageAssumption
  <2> QED
    BY <1>2, <1>3, <2>1 DEF StackInv
<1>10. WalkInv'
  BY DEF WalkInv
<1>11. OnceInv'
  <2>1. \A y \in Image : initRuns'[y] > 0 =>
          fHasInitialized'[y] \/ (stack'[1].fn = "initialize" /\ stack'[1].im = y)
    BY <1>2, <1>3, <1>5 DEF OnceInv
  <2>2. \A y \in Image : initRuns'[y] > 0 =>
          \/ fHasInitialized'[y]
          \/ \E i \in 1..Len(stack') : stack'[i].fn = "initialize" /\ stack'[i].im = y
    BY <1>3, <2>1
  <2>3. pc' = "init" => initRuns'[Main] = 0
    BY <1>5, LinkerAssumption DEF OnceInv
  <2> QED
    BY <2>2, <2>3 DEF OnceInv
<1>12. AtMostOnce'
  BY <1>5 DEF AtMostOnce
<1> QED
  BY <1>7, <1>8, <1>9, <1>10, <1>11, <1>12

LEMMA StartInitializersInv == LInv /\ StartInitializers => LInv'
<1> SUFFICES ASSUME LInv, StartInitializers PROVE LInv'
  OBVIOUS
<1> USE DEF LInv
<1>1. PICK x : x = im
  OBVIOUS
<1>2. /\ pc = "init" /\ stack = <<>> /\ im # NULL /\ ~fHasInitialized[im]
      /\ Start(im) /\ stack' = <<Activation("initialize", im, 1)>> /\ pc' = pc
      /\ UNCHANGED <<chain, sImageCount, fDependencies, allocated, bound, im,
                     fOrigFilePath, disk, rebased, fHasInitialized>>
  BY DEF StartInitializers, StartDResolv, StartCircular, chainVars, untouched
<1>3. x \in allocated /\ x # Main /\ x \in Image
  BY <1>1, <1>2 DEF WalkInv, LinkerTypeOK
<1>4. initRuns[x] = 0
  BY <1>1, <1>2, <1>3 DEF OnceInv, LinkerTypeOK
<1> QED
  BY <1>1, <1>2, <1>3, <1>4, StartInv

LEMMA InitializeMainInv == LInv /\ InitializeMain => LInv'
<1> SUFFICES ASSUME LInv, InitializeMain PROVE LInv'
  OBVIOUS
<1> USE DEF LInv
<1>1. /\ pc = "init" /\ stack = <<>> /\ Start(Main)
      /\ stack' = <<Activation("initialize", Main, 1)>> /\ pc' = "initMain"
      /\ UNCHANGED <<chain, sImageCount, fDependencies, allocated, bound, im,
                     fOrigFilePath, disk, rebased, fHasInitialized>>
  BY DEF InitializeMain, Return, chainVars, untouched
<1>2. Main \in allocated /\ initRuns[Main] = 0
  BY <1>1 DEF ChainInv, OnceInv
<1> QED
  BY <1>1, <1>2, StartInv

\* The only activation there is, of the initializers of x, returns.
LEMMA EndInv ==
  ASSUME LInv, Len(stack) = 1, NEW x \in Image, stack[1].fn = "initialize",
         stack[1].im = x, stack' = <<>>,
         fHasInitialized' = [fHasInitialized EXCEPT ![x] = TRUE],
         \/ pc = "init" /\ pc' = "init"
         \/ pc \in {"initMain", "run"} /\ pc' = "run",
         im' = im \/ (im' = nextImage(im) /\ im # NULL),
         UNCHANGED <<chain, sImageCount, fDependencies, allocated, bound,
                     initRuns, fOrigFilePath, disk, rebased>>
  PROVE  LInv'
<1> USE DEF LInv
<1>1. \A y : ~Parsing(y)
  BY DEF Parsing
<1>2. /\ fHasInitialized' \in [Image -> BOOLEAN] /\ fHasInitialized'[x]
      /\ \A y \in Image : fHasInitialized[y] => fHasInitialized'[y]
  BY DEF LinkerTypeOK
<1>3. /\ bound' \in [Image -> Nat] /\ initRuns' \in [Image -> Nat]
      /\ \A y \in Image \ allocated : bound'[y] = 0 /\ initRuns'[y] = 0
  BY DEF LinkerTypeOK, FilesInv
<1>4. /\ LinkerTypeOK' /\ FilesInv' /\ ChainInv' /\ DepsInv' /\ ParseInv'
      /\ OpenInv' /\ StackInv'
  BY <1>1, <1>2, <1>3, EmptyStackInv
<1>5. WalkInv'
  <2>1. im' = NULL \/ (im' \in allocated /\ im' # Main)
    BY NextInChain DEF WalkInv
  <2> QED
    BY <2>1 DEF WalkInv
<1>6. \A y \in Image : initRuns[y] > 0 => fHasInitialized'[y]
  <2>1. \A i \in 1..Len(stack) : stack[i].im = x
    OBVIOUS
  <2> QED
    BY <1>2, <2>1 DEF OnceInv
<1>7. OnceInv'
  BY <1>6 DEF OnceInv
<1>8. AtMostOnce'
  BY DEF AtMostOnce
<1> QED
  BY <1>4, <1>5, <1>7, <1>8

LEMMA EndInitializersInv == LInv /\ EndInitializers => LInv'
<1> SUFFICES ASSUME LInv, EndInitializers PROVE LInv'
  OBVIOUS
<1> USE DEF LInv
<1>1. PICK x : x = im
  OBVIOUS
<1>2. /\ pc = "init" /\ pc' = pc /\ Len(stack) = 1 /\ stack' = <<>>
      /\ fHasInitialized' = [fHasInitialized EXCEPT ![im] = TRUE]
      /\ im' = nextImage(im)
      /\ UNCHANGED <<chain, sImageCount, fDependencies, allocated, bound,
                     initRuns, fOrigFilePath, disk, rebased>>
  BY DEF EndInitializers, EndDResolv, EndCircular, untouched
<1>3. stack[1].fn = "initialize" /\ stack[1].im = x /\ im # NULL
  BY <1>1, <1>2 DEF StackInv
<1>4. x \in Image
  BY <1>1, <1>3 DEF WalkInv, LinkerTypeOK
<1>5. fHasInitialized' = [fHasInitialized EXCEPT ![x] = TRUE]
  BY <1>1, <1>2
<1>6. \/ pc = "init" /\ pc' = "init"
      \/ pc \in {"initMain", "run"} /\ pc' = "run"
  BY <1>2
<1>7. im' = im \/ (im' = nextImage(im) /\ im # NULL)
  BY <1>2, <1>3
<1>8. /\ Len(stack) = 1 /\ stack' = <<>>
      /\ UNCHANGED <<chain, sImageCount, fDependencies, allocated, bound,
                     initRuns, fOrigFilePath, disk, rebased>>
  BY <1>2
<1> HIDE DEF LInv
<1> QED
  BY <1>3, <1>4, <1>5, <1>6, <1>7, <1>8, EndInv

LEMMA CallMainInv == LInv /\ CallMain => LInv'
<1> SUFFICES ASSUME LInv, CallMain PROVE LInv'
  OBVIOUS
<1> USE DEF LInv
<1>1. /\ pc = "initMain" /\ pc' = "run" /\ Len(stack) = 1 /\ stack' = <<>>
      /\ fHasInitialized' = [fHasInitialized EXCEPT ![Main] = TRUE]
      /\ UNCHANGED <<chain, sImageCount, fDependencies, allocated, bound,
                     initRuns, fOrigFilePath, disk, rebased, im>>
  BY DEF CallMain, untouched, initVars
<1>2. stack[1].fn = "initialize" /\ stack[1].im = Main /\ Main \in Image
  BY <1>1, LinkerAssumption DEF StackInv
<1>3. \/ pc = "init" /\ pc' = "init"
      \/ pc \in {"initMain", "run"} /\ pc' = "run"
  BY <1>1
<1>4. im' = im \/ (im' = nextImage(im) /\ im # NULL)
  BY <1>1
<1>5. /\ Len(stack) = 1 /\ stack' = <<>>
      /\ UNCHANGED <<chain, sImageCount, fDependencies, allocated, bound,
                     initRuns, fOrigFilePath, disk, rebased>>
  BY <1>1
<1>6. fHasInitialized' = [fHasInitialized EXCEPT ![Main] = TRUE]
  BY <1>1
<1> HIDE DEF LInv
<1> QED
  BY <1>2, <1>3, <1>4, <1>5, <1>6, EndInv

---------------------------------------------------------------------------
(* dlopen *)

\* Initializers, and the stack when they call dlopen.
LEMMA InitializeTop ==
  ASSUME LInv, Calling("initialize")
  PROVE  /\ Len(stack) \in Nat /\ Len(stack) > 0 /\ Len(stack) \in 1..Len(stack)
         /\ stack \in Seq(Frame) /\ stack # <<>>
         /\ Top = stack[Len(stack)] /\ Top.fn = "initialize"
         /\ Top.im \in allocated /\ Top.im \in Image
         /\ \A i \in 1..Len(stack) : stack[i].fn # "parse"
         /\ \A i \in 1..Len(stack) : stack[i].fn = "dlopen" => stack[i].im = NULL
         /\ pc \notin {"start", "bind", "bindMain", "crashed", "aux", "main", "cas"}
         /\ Opens(Top.im) \in Seq(Path \cup {LibSystem})
<1> USE DEF LInv
<1>1. /\ Len(stack) > 0 /\ Top.fn = "initialize" /\ stack \in Seq(Frame)
      /\ Len(stack) \in Nat /\ stack # <<>>
  BY DEF Calling, LinkerTypeOK
<1>2. Len(stack) \in 1..Len(stack) /\ Top = stack[Len(stack)]
  BY <1>1, TopOfStack
<1>3. Top.im \in allocated /\ Top.im \in Image
  BY <1>1, <1>2 DEF StackInv, LinkerTypeOK
<1>4. \A i \in 1..Len(stack) : stack[i].fn # "parse"
  BY <1>1, ParsingAbove
<1>5. \A i \in 1..Len(stack) : stack[i].fn = "dlopen" => stack[i].im = NULL
  <2> SUFFICES ASSUME NEW i \in 1..Len(stack), stack[i].fn = "dlopen",
                      stack[i].im # NULL
               PROVE  FALSE
    OBVIOUS
  <2>1. stack[i].im \in Image
    BY FrameType
  <2>2. i = Len(stack)
    BY <2>1 DEF OpenInv
  <2> QED
    BY <1>1, <1>2, <2>2
<1>6. pc \notin {"start", "bind", "bindMain", "crashed", "aux", "main", "cas"}
  BY <1>1, <1>2 DEF StackInv
<1>7. Opens(Top.im) \in Seq(Path \cup {LibSystem})
  <2>1. Contents(Top.im) \in File \/ Top.im = Dylinker
    BY <1>3 DEF Contents, LinkerTypeOK, FilesInv
  <2>2. CASE Top.im = Dylinker
    BY <2>2 DEF Opens, Contents, LinkerFile
  <2>3. CASE Contents(Top.im) \in File
    BY <2>3 DEF Opens, File
  <2> QED
    BY <2>1, <2>2, <2>3
<1> QED
  BY <1>1, <1>2, <1>3, <1>4, <1>5, <1>6, <1>7

LEMMA OpenFromInitializerInv == LInv /\ OpenFromInitializer => LInv'
<1> SUFFICES ASSUME LInv, OpenFromInitializer PROVE LInv'
  OBVIOUS
<1> USE DEF LInv
<1>1. PICK path, st : path = Opens(Top.im)[Top.k] /\ st = Advance(stack)
  OBVIOUS
<1>2. /\ Calling("initialize") /\ Top.k <= Len(Opens(Top.im))
      /\ dlopen(path, st) /\ UNCHANGED <<initVars, disk, pc>>
  BY <1>1 DEF OpenFromInitializer
<1>3. /\ Len(stack) \in Nat /\ Len(stack) > 0 /\ Len(stack) \in 1..Len(stack)
      /\ stack \in Seq(Frame)
      /\ \A i \in 1..Len(stack) : stack[i].fn # "parse"
      /\ \A i \in 1..Len(stack) : stack[i].fn = "dlopen" => stack[i].im = NULL
      /\ pc \notin {"start", "bind", "bindMain", "crashed", "aux", "main", "cas"}
      /\ Top = stack[Len(stack)]
  BY <1>2, InitializeTop
<1>4. path \in Path \cup {LibSystem}
  <2>1. Opens(Top.im) \in Seq(Path \cup {LibSystem})
    BY <1>2, InitializeTop
  <2>2. Top.k \in Nat \ {0}
    BY <1>3, FrameType
  <2> QED
    BY <1>1, <1>2, <2>1, <2>2
<1>5. /\ st \in Seq(Frame) /\ Len(st) = Len(stack)
      /\ \A i \in 1..Len(stack) : st[i].fn = stack[i].fn /\ st[i].im = stack[i].im
  BY <1>1, <1>3, AdvanceStack
<1>6. CASE Present(path) # NULL
  <2>1. /\ stack' = st
        /\ UNCHANGED <<chain, sImageCount, fDependencies, allocated, bound, im, pc,
                       initRuns, fOrigFilePath, disk, rebased, fHasInitialized>>
    BY <1>2, <1>6 DEF dlopen, chainVars, objVars, initVars
  <2>2. \A x : ~Parsing(x)
    BY <1>3 DEF Parsing
  <2>3. /\ fHasInitialized' \in [Image -> BOOLEAN] /\ bound' \in [Image -> Nat]
        /\ initRuns' \in [Image -> Nat] /\ rebased' \in [Image -> Nat]
        /\ \A x \in Image \ allocated :
             rebased'[x] = 0 /\ bound'[x] = 0 /\ initRuns'[x] = 0
    BY <2>1 DEF LinkerTypeOK, FilesInv
  <2>4. LinkerTypeOK' /\ FilesInv' /\ ChainInv' /\ DepsInv'
    BY <1>3, <1>5, <2>1, <2>2, <2>3, ImagesKept
  <2>5. ParseInv' /\ OpenInv'
    BY <1>3, <1>5, <2>1, ImageAssumption DEF ParseInv, OpenInv
  <2>6. StackInv'
    BY <1>3, <1>5, <2>1 DEF StackInv
  <2>7. WalkInv' /\ AtMostOnce'
    BY <2>1 DEF WalkInv, AtMostOnce
  <2>8. OnceInv'
    BY <1>3, <1>5, <2>1 DEF OnceInv
  <2> QED
    BY <2>4, <2>5, <2>6, <2>7, <2>8
<1>7. CASE Present(path) = NULL
  <2>1. PICK su, f : f = Activation("dlopen", NULL, 1) /\ su = Append(st, f)
    OBVIOUS
  <2>2. LoadFile(path, su)
    BY <1>2, <1>7, <2>1 DEF dlopen
  <2>3. f \in Frame /\ f.fn = "dlopen" /\ f.im = NULL
    BY <2>1 DEF Activation, Frame
  <2>4. /\ su \in Seq(Frame) /\ Len(su) = Len(stack) + 1
        /\ \A i \in 1..Len(stack) : su[i] = st[i]
        /\ su[Len(stack) + 1] = f
    BY <1>5, <2>1, <2>3, PushedStack
  <2>5. \A i \in 1..Len(su) : \/ i \in 1..Len(stack) /\ su[i] = st[i]
                              \/ i = Len(stack) + 1 /\ su[i] = f
    BY <1>3, <2>4
  <2>6. su # stack
    BY <1>3, <2>4
  <2>7. /\ \A i \in 1..Len(su) : su[i].fn # "parse"
        /\ \A i \in 1..Len(su) : su[i].fn = "dlopen" => su[i].im = NULL
        /\ \A i \in 1..Len(su) : su[i].fn = "initialize" => su[i].im \in allocated
    <3>1. \A i \in 1..Len(stack) :
            /\ st[i].fn # "parse" /\ (st[i].fn = "dlopen" => st[i].im = NULL)
            /\ st[i].fn = "initialize" => st[i].im \in allocated
      BY <1>3, <1>5 DEF StackInv
    <3> QED
      BY <2>3, <2>5, <3>1
  <2>8. \A i \in 1..Len(stack) : stack[i].fn = "initialize" =>
          i <= Len(su) /\ su[i].fn = "initialize" /\ su[i].im = stack[i].im
    BY <1>3, <1>5, <2>4
  <2>9. Callable(su, path)
    BY <1>3, <2>4, <2>6, <2>7, <2>8 DEF Callable
  <2> QED
    BY <1>2, <1>4, <1>7, <2>2, <2>9, LoadFileInv
<1> QED
  BY <1>6, <1>7

LEMMA OpenFromProgramInv == LInv /\ OpenFromProgram => LInv'
<1> SUFFICES ASSUME LInv, OpenFromProgram PROVE LInv'
  OBVIOUS
<1> USE DEF LInv
<1>1. PICK path \in Path \cup {LibSystem} : dlopen(path, stack)
  BY DEF OpenFromProgram
<1>2. pc = "run" /\ stack = <<>> /\ UNCHANGED <<initVars, disk, pc>>
  BY DEF OpenFromProgram
<1>3. CASE Present(path) # NULL
  BY <1>1, <1>2, <1>3, StutterInv DEF dlopen, objVars, initVars
<1>4. CASE Present(path) = NULL
  <2>1. PICK su, f : f = Activation("dlopen", NULL, 1) /\ su = Append(stack, f)
    OBVIOUS
  <2>2. LoadFile(path, su)
    BY <1>1, <1>4, <2>1 DEF dlopen
  <2>3. f \in Frame /\ f.fn = "dlopen" /\ f.im = NULL
    BY <2>1 DEF Activation, Frame
  <2>4. su \in Seq(Frame) /\ Len(su) = 1 /\ su[1] = f /\ Len(stack) = 0
    BY <1>2, <2>1, <2>3
  <2>5. Callable(su, path)
    BY <1>2, <2>3, <2>4 DEF Callable
  <2> QED
    BY <1>2, <1>4, <2>2, <2>5, LoadFileInv
<1> QED
  BY <1>3, <1>4

LEMMA BootstrapInv == LInv /\ Bootstrap => LInv'
<1> SUFFICES ASSUME LInv, Bootstrap PROVE LInv'
  OBVIOUS
<1> USE DEF LInv
<1>1. PICK x, n : x = Top.im /\ n = Len(stack)
  OBVIOUS
<1>2. /\ Calling("dlopen") /\ x # NULL
      /\ bound' = [y \in Image |-> IF y \in {x} THEN bound[y] + 1 ELSE bound[y]]
      /\ initRuns' = [initRuns EXCEPT ![x] = @ + 1]
      /\ stack' = Append(Below, Activation("initialize", x, 1))
      /\ UNCHANGED <<chain, sImageCount, fDependencies, allocated, im, pc,
                     fOrigFilePath, disk, rebased, fHasInitialized>>
  BY <1>1 DEF Bootstrap, doBindSymbols, Start, chainVars, initVars
<1>3. /\ n \in Nat /\ n > 0 /\ n \in 1..n /\ Top = stack[n] /\ Top.fn = "dlopen"
      /\ stack \in Seq(Frame) /\ stack # <<>>
  BY <1>1, <1>2, TopOfStack DEF Calling, LinkerTypeOK
<1>4. x \in Image
  BY <1>1, <1>2, <1>3, FrameType
<1>5. /\ x \in allocated /\ x # Dylinker /\ x # Main /\ bound[x] = 0
      /\ initRuns[x] = 0
  BY <1>1, <1>3, <1>4 DEF OpenInv
<1>6. PICK f : f = Activation("initialize", x, 1)
  OBVIOUS
<1>7. f \in Frame /\ f.fn = "initialize" /\ f.im = x
  BY <1>4, <1>6 DEF Activation, Frame
<1>8. /\ stack' \in Seq(Frame) /\ Len(stack') = n /\ stack'[n] = f
      /\ \A i \in 1..n : i # n => stack'[i] = stack[i]
  <2>1. /\ Below \in Seq(Frame) /\ Len(Below) = n - 1
        /\ \A i \in 1..n - 1 : Below[i] = stack[i]
    BY <1>1, <1>3, BelowStack
  <2>2. /\ Append(Below, f) \in Seq(Frame) /\ Len(Append(Below, f)) = n
        /\ \A i \in 1..n - 1 : Append(Below, f)[i] = stack[i]
        /\ Append(Below, f)[n] = f
    BY <1>3, <1>7, <2>1
  <2>3. \A i \in 1..n : i # n => i \in 1..n - 1
    BY <1>3
  <2> QED
    BY <1>2, <1>6, <2>2, <2>3
<1>9. /\ \A i \in 1..n : stack[i].fn # "parse"
      /\ \A i \in 1..n : stack'[i].fn # "parse"
  BY <1>1, <1>3, <1>7, <1>8, ParsingAbove
<1>10. /\ bound' \in [Image -> Nat] /\ bound'[x] = 1
       /\ \A y \in Image : y # x => bound'[y] = bound[y]
  BY <1>2, <1>4, <1>5 DEF LinkerTypeOK
<1>11. initRuns' = [initRuns EXCEPT ![x] = 1] /\ initRuns \in [Image -> Nat]
  BY <1>2, <1>5 DEF LinkerTypeOK
<1>12. /\ initRuns' \in [Image -> Nat] /\ initRuns'[x] = 1
       /\ \A y \in Image : y # x => initRuns'[y] = initRuns[y]
  BY <1>4, <1>11
<1>13. \A y : ~Parsing(y)
  BY <1>1, <1>9 DEF Parsing
<1>14. /\ rebased' \in [Image -> Nat] /\ fHasInitialized' \in [Image -> BOOLEAN]
       /\ \A y \in Image \ allocated :
            rebased'[y] = 0 /\ bound'[y] = 0 /\ initRuns'[y] = 0
  BY <1>2, <1>5, <1>10, <1>12 DEF LinkerTypeOK, FilesInv
<1>15. pc' = pc /\ pc \notin {"start", "bind", "bindMain", "crashed", "aux", "main", "cas"}
  BY <1>1, <1>2, <1>3 DEF StackInv
<1>16. LinkerTypeOK' /\ FilesInv' /\ ChainInv' /\ DepsInv'
  BY <1>2, <1>8, <1>10, <1>12, <1>13, <1>14, <1>15, ImagesKept
<1>17. ParseInv'
  BY <1>8, <1>9 DEF ParseInv
<1>18. OpenInv'
  <2> SUFFICES ASSUME NEW i \in 1..n, stack'[i].fn = "dlopen",
                      NEW y \in Image, stack'[i].im = y
               PROVE  FALSE
    BY <1>8 DEF OpenInv
  <2>1. i # n /\ stack[i].fn = "dlopen" /\ stack[i].im = y
    BY <1>7, <1>8
  <2> QED
    BY <1>1, <2>1 DEF OpenInv
<1>19. StackInv'
  <2>1. ASSUME stack[1].fn = "initialize" PROVE stack'[1] = stack[1]
    BY <1>3, <1>8, <2>1
  <2>2. \A i \in 1..Len(stack') :
          stack'[i].fn \in {"initialize", "parse"} => stack'[i].im \in allocated
    BY <1>1, <1>5, <1>7, <1>8 DEF StackInv
  <2> QED
    BY <1>1, <1>2, <1>3, <1>8, <1>15, <2>1, <2>2 DEF StackInv
<1>20. WalkInv'
  BY <1>2 DEF WalkInv
<1>21. OnceInv'
  <2>1. ASSUME NEW y \in Image, initRuns'[y] > 0, ~fHasInitialized[y]
        PROVE  \E i \in 1..n : stack'[i].fn = "initialize" /\ stack'[i].im = y
    <3>1. CASE y = x
      BY <1>3, <1>7, <1>8, <3>1
    <3>2. CASE y # x
      <4>1. PICK i \in 1..n : stack[i].fn = "initialize" /\ stack[i].im = y
        BY <1>1, <1>12, <1>15, <2>1, <3>2 DEF OnceInv
      <4> QED
        BY <1>3, <1>8, <4>1
    <3> QED
      BY <3>1, <3>2
  <2>2. pc' = "init" => initRuns'[Main] = 0
    BY <1>5, <1>12, <1>15, LinkerAssumption DEF OnceInv
  <2> QED
    BY <1>2, <1>8, <1>15, <2>1, <2>2 DEF OnceInv
<1>22. AtMostOnce'
  BY <1>2, <1>10, <1>12 DEF AtMostOnce
<1> QED
  BY <1>16, <1>17, <1>18, <1>19, <1>20, <1>21, <1>22

LEMMA EndBootstrapInv == LInv /\ EndBootstrap => LInv'
<1> SUFFICES ASSUME LInv, EndBootstrap PROVE LInv'
  OBVIOUS
<1> USE DEF LInv
<1>1. PICK x, n : x = Top.im /\ n = Len(stack)
  OBVIOUS
<1>2. /\ Calling("initialize") /\ (pc = "run" \/ Len(stack) > 1)
      /\ fHasInitialized' = [fHasInitialized EXCEPT ![x] = TRUE]
      /\ stack' = Below
      /\ UNCHANGED <<chain, sImageCount, fDependencies, allocated, im, pc, bound,
                     initRuns, fOrigFilePath, disk, rebased>>
  BY <1>1 DEF EndBootstrap, Initializing, untouched, initVars
<1>3. Calling("initialize") /\ (pc = "run" \/ n > 1)
  BY <1>1 DEF EndBootstrap, Initializing
<1>4. /\ n \in Nat /\ n > 0 /\ n \in 1..n /\ Top = stack[n] /\ stack \in Seq(Frame)
      /\ x \in Image /\ stack # <<>>
      /\ \A i \in 1..n : stack[i].fn # "parse"
      /\ \A i \in 1..n : stack[i].fn = "dlopen" => stack[i].im = NULL
      /\ pc \notin {"start", "bind", "bindMain", "crashed", "aux", "main", "cas"}
  BY <1>1, <1>3, InitializeTop
<1>5. /\ stack' \in Seq(Frame) /\ Len(stack') = n - 1
      /\ \A i \in 1..n - 1 : stack'[i] = stack[i] /\ i \in 1..n
  BY <1>1, <1>2, <1>4, BelowStack
<1>6. /\ fHasInitialized' \in [Image -> BOOLEAN] /\ fHasInitialized'[x]
      /\ \A y \in Image : fHasInitialized[y] => fHasInitialized'[y]
  BY <1>2, <1>4 DEF LinkerTypeOK
<1>7. \A y : ~Parsing(y)
  BY <1>1, <1>4 DEF Parsing
<1>8. /\ bound' \in [Image -> Nat] /\ initRuns' \in [Image -> Nat]
      /\ rebased' \in [Image -> Nat]
      /\ \A y \in Image \ allocated :
           rebased'[y] = 0 /\ bound'[y] = 0 /\ initRuns'[y] = 0
  BY <1>2 DEF LinkerTypeOK, FilesInv
<1>9. LinkerTypeOK' /\ FilesInv' /\ ChainInv' /\ DepsInv'
  BY <1>2, <1>4, <1>5, <1>6, <1>7, <1>8, ImagesKept
<1>10. ParseInv' /\ OpenInv'
  <2>1. \A i \in 1..Len(stack') :
          stack'[i].fn # "parse" /\ (stack'[i].fn = "dlopen" => stack'[i].im = NULL)
    BY <1>4, <1>5
  <2> QED
    BY <2>1, ImageAssumption DEF ParseInv, OpenInv
<1>11. StackInv'
  <2>1. pc # "run" => Len(stack') > 0 /\ stack'[1] = stack[1]
    BY <1>3, <1>4, <1>5
  <2>2. \A i \in 1..Len(stack') :
          stack'[i].fn \in {"initialize", "parse"} => stack'[i].im \in allocated
    BY <1>1, <1>5 DEF StackInv
  <2> QED
    BY <1>1, <1>2, <1>4, <2>1, <2>2 DEF StackInv
<1>12. WalkInv' /\ AtMostOnce'
  BY <1>2 DEF WalkInv, AtMostOnce
<1>13. OnceInv'
  <2>1. ASSUME NEW y \in Image, initRuns[y] > 0, ~fHasInitialized'[y]
        PROVE  \E i \in 1..Len(stack') : stack'[i].fn = "initialize" /\ stack'[i].im = y
    <3>1. PICK i \in 1..n : stack[i].fn = "initialize" /\ stack[i].im = y
      BY <1>1, <1>4, <1>6, <2>1 DEF OnceInv
    <3>2. i # n
      BY <1>1, <1>4, <1>6, <2>1, <3>1
    <3>3. i \in 1..n - 1
      BY <1>4, <3>2
    <3> QED
      BY <1>5, <3>1, <3>3
  <2> QED
    BY <1>2, <2>1 DEF OnceInv
<1> QED
  BY <1>9, <1>10, <1>11, <1>12, <1>13

LEMMA OverflowInv == LInv /\ Overflow => LInv'
<1> SUFFICES ASSUME LInv, Overflow PROVE LInv'
  OBVIOUS
<1> USE DEF LInv
<1>1. /\ pc \in {"bind", "bindMain"} \/ Calling("dlopen")
      /\ pc' = "crashed" /\ stack' = <<>>
      /\ UNCHANGED <<chain, sImageCount, fDependencies, allocated, im, bound,
                     initRuns, fOrigFilePath, disk, rebased, fHasInitialized>>
  BY DEF Overflow, chainVars, initVars, objVars
<1>2. pc \notin {"start", "aux"} /\ \A x : ~Parsing(x)
  <2>1. CASE pc \in {"bind", "bindMain"}
    BY <2>1 DEF StackInv, Parsing
  <2>2. CASE Calling("dlopen")
    <3>1. /\ Len(stack) > 0 /\ Top.fn = "dlopen" /\ stack # <<>>
          /\ Len(stack) \in 1..Len(stack) /\ Top = stack[Len(stack)]
      BY <2>2, TopOfStack DEF Calling
    <3>2. \A i \in 1..Len(stack) : stack[i].fn # "parse"
      BY <3>1, ParsingAbove
    <3> QED
      BY <3>1, <3>2 DEF StackInv, Parsing
  <2> QED
    BY <1>1, <2>1, <2>2
<1>3. /\ bound' \in [Image -> Nat] /\ initRuns' \in [Image -> Nat]
      /\ fHasInitialized' \in [Image -> BOOLEAN]
      /\ \A y \in Image \ allocated : bound'[y] = 0 /\ initRuns'[y] = 0
  BY <1>1 DEF LinkerTypeOK, FilesInv
<1>4. /\ LinkerTypeOK' /\ FilesInv' /\ ChainInv' /\ DepsInv' /\ ParseInv'
      /\ OpenInv' /\ StackInv'
  BY <1>1, <1>2, <1>3, EmptyStackInv
<1>5. WalkInv' /\ OnceInv' /\ AtMostOnce'
  BY <1>1 DEF WalkInv, OnceInv, AtMostOnce
<1> QED
  BY <1>4, <1>5

---------------------------------------------------------------------------
(* The invariant, and what it implies. *)

LEMMA AuxStep == LInv /\ AuxInv /\ [Next]_vars => AuxInv'
<1> SUFFICES ASSUME LInv, AuxInv, [Next]_vars PROVE AuxInv'
  OBVIOUS
<1> USE DEF LInv, AuxInv
<1>1. CASE LoadAuxiliary
  <2>1. PICK path : path = AuxPaths[Len(sAuxLibs) + 1]
    OBVIOUS
  <2>2. pc = "aux" /\ Len(sAuxLibs) < Len(AuxPaths)
    BY <1>1 DEF LoadAuxiliary
  <2>3. path \in Path
    BY <2>1, <2>2, LinkerAssumption
  <2>4. CASE Present(path) # NULL
    <3>1. DependencyOK(path, Present(path))
      BY <2>2, <2>3, <2>4, PresentDependency
    <3>2. Present(path) \in Image
      BY <3>1 DEF DependencyOK, LinkerTypeOK
    <3>3. sAuxLibs' = Append(sAuxLibs, Present(path))
      BY <1>1, <2>1, <2>4 DEF LoadAuxiliary
    <3> QED
      BY <3>2, <3>3
  <2>5. CASE Present(path) = NULL
    BY <1>1, <2>1, <2>5 DEF LoadAuxiliary
  <2> QED
    BY <2>4, <2>5
<1>2. CASE ReturnToMain
  <2>1. Top.im \in Image
    BY <1>2, LoadedTop DEF ReturnToMain
  <2> QED
    BY <1>2, <2>1 DEF ReturnToMain
<1>3. CASE ~LoadAuxiliary /\ ~ReturnToMain
  <2>1. sAuxLibs' = sAuxLibs
    BY <1>3 DEF Next, Step, Load, Boot, InitializeImages, Open, vars, untouched,
         ParsePresent, ParseLoad, ReturnToParse, ReturnToDlopen, SetUpDylinker,
         SetUpMain, MainLoaded, LoadCas, bindChain, BindMain, WalkChain,
         StartInitializers, EndInitializers, InitializeMain, CallMain,
         OpenFromInitializer, Bootstrap, EndBootstrap, Overflow,
         OpenFromProgram, Crashed
  <2> QED
    BY <2>1
<1> QED
  BY <1>1, <1>2, <1>3

LEMMA LinkerInit == Init => LInv /\ AuxInv
<1> SUFFICES ASSUME Init PROVE LInv /\ AuxInv
  OBVIOUS
<1> USE DEF Init
<1>1. disk.main \in File /\ disk.lib \in [Path -> File \cup {NULL}]
  BY LinkerAssumption
<1>2. LinkerTypeOK
  BY <1>1 DEF LinkerTypeOK
<1>3. FilesInv /\ AtMostOnce
  BY LinkerAssumption DEF FilesInv, AtMostOnce
<1>4. ChainInv /\ DepsInv /\ ParseInv /\ OpenInv /\ StackInv /\ WalkInv
  BY DEF ChainInv, DepsInv, ParseInv, OpenInv, StackInv, WalkInv
<1>5. OnceInv /\ AuxInv
  BY DEF OnceInv, AuxInv
<1> QED
  BY <1>2, <1>3, <1>4, <1>5 DEF LInv

LEMMA LinkerStep == LInv /\ AuxInv /\ [Next]_vars => LInv'
<1> SUFFICES ASSUME LInv, AuxInv, [Next]_vars PROVE LInv'
  OBVIOUS
<1>1. CASE Load
  BY <1>1, ParsePresentInv, ParseLoadInv, ReturnToParseInv, ReturnToDlopenInv,
     ReturnToMainInv DEF Load
<1>2. CASE Boot
  BY <1>2, SetUpDylinkerInv, LoadAuxiliaryInv, SetUpMainInv, MainLoadedInv,
     LoadCasInv, bindChainInv, BindMainInv DEF Boot
<1>3. CASE InitializeImages
  BY <1>3, WalkChainInv, StartInitializersInv, EndInitializersInv,
     InitializeMainInv, CallMainInv DEF InitializeImages
<1>4. CASE Open
  BY <1>4, OpenFromInitializerInv, BootstrapInv, EndBootstrapInv DEF Open
<1>5. CASE Overflow
  BY <1>5, OverflowInv
<1>6. CASE OpenFromProgram
  BY <1>6, OpenFromProgramInv
<1>7. CASE UNCHANGED vars
  BY <1>7, StutterInv DEF vars, initVars, objVars
<1> QED
  BY <1>1, <1>2, <1>3, <1>4, <1>5, <1>6, <1>7 DEF Next, Step, Crashed

LEMMA LinkerAlways == Spec => []LInv
<1>1. Init => LInv /\ AuxInv
  BY LinkerInit
<1>2. LInv /\ AuxInv /\ [Next]_vars => (LInv /\ AuxInv)'
  BY LinkerStep, AuxStep
<1> QED
  BY <1>1, <1>2, PTL DEF Spec

\* However libraries name one another and whatever the initializers and the
\* program open, loadLibraryEx and dlopen (core/lnk.cpp, core/lnk_api.cpp)
\* link an image, and a path, into the chain once, behind the linker.
THEOREM ChainIsSound == Spec => []ChainSound
<1>1. LInv => ChainSound
  BY DEF LInv, ChainInv, ChainSound
<1> QED
  BY <1>1, LinkerAlways, PTL

\* parseLoadCommands (core/lnk_macho.cpp): entry k of fDependencies is the
\* library load command k names, for every image and at any time.
THEOREM OrdinalsAreRight == Spec => []OrdinalsLineUp
<1>1. LInv => OrdinalsLineUp
  BY DEF LInv, DepsInv, DependencyOK, OrdinalsLineUp
<1> QED
  BY <1>1, LinkerAlways, PTL

\* The dependencies of an image in use are in the chain.
THEOREM DependenciesAreLoaded == Spec => []DependenciesLoaded
<1>1. LInv => DependenciesLoaded
  BY DEF LInv, DepsInv, DependencyOK, ChainInv, DependenciesLoaded,
         Dependencies, InChain
<1> QED
  BY <1>1, LinkerAlways, PTL

\* doRebase, doBindSymbols and doInitialize are done at most once to an
\* image, although initializeChain and dlopen both initialize images and an
\* initializer may call dlopen in the middle of initializeChain.
THEOREM NothingIsDoneTwice == Spec => []AtMostOnce
<1>1. LInv => AtMostOnce
  BY DEF LInv
<1> QED
  BY <1>1, LinkerAlways, PTL

---------------------------------------------------------------------------
(* Symbol resolution. *)

\* Every set of natural numbers has a least one: induction, without an
\* operator for the induction hypothesis.
LEMMA LeastNumber ==
  ASSUME NEW T \in SUBSET Nat, T # {}
  PROVE  \E m \in T : \A k \in T : m <= k
<1>1. PICK R : R = OpToRel(<, Nat)
  OBVIOUS
<1>2. IsWellFoundedOn(R, Nat)
  BY <1>1, NatLessThanWellFounded
<1>3. PICK m \in T : \A k \in T : ~(<<k, m>> \in R)
  BY <1>2, WFMin
<1>4. \A k \in T : k < m => <<k, m>> \in R
  BY <1>1 DEF OpToRel
<1>5. \A k \in T : ~(k < m)
  BY <1>3, <1>4
<1>6. m \in Nat /\ \A k \in T : k \in Nat
  OBVIOUS
<1>7. \A k \in T : m <= k
  BY <1>5, <1>6
<1> QED
  BY <1>7

LEMMA CountUp ==
  ASSUME NEW N \in Nat, NEW T, 0 \in T, \A m \in 0..N : m > 0 /\ m - 1 \in T => m \in T
  PROVE  \A m \in 0..N : m \in T
<1> SUFFICES ASSUME NEW n \in 0..N, n \notin T PROVE FALSE
  OBVIOUS
<1>1. PICK U : U = {m \in 0..N : m \notin T}
  OBVIOUS
<1>2. U \in SUBSET Nat /\ U # {}
  BY <1>1
<1>3. PICK m \in U : \A k \in U : m <= k
  BY <1>2, LeastNumber
<1>4. m \in 0..N /\ m \notin T /\ m # 0
  BY <1>1, <1>3
<1>5. m - 1 \in 0..N /\ m > 0 /\ ~(m <= m - 1)
  BY <1>4
<1>6. m - 1 \in T
  BY <1>1, <1>3, <1>5
<1> QED
  BY <1>4, <1>5, <1>6

LEMMA LeastOf ==
  ASSUME NEW S \in SUBSET Nat, S # {}
  PROVE  Least(S) \in S /\ \A j \in S : Least(S) <= j
BY LeastNumber DEF Least

\* The search for s in every image, given what the searches nested in it find.
Round(s, n, prev) ==
  [x \in Image |->
     IF s \in Contents(x).exports THEN x
     ELSE IF n = 0 THEN Diverges
     ELSE LET hits == {i \in 1..Len(fReExports[x]) : prev[fReExports[x][i]] # NULL}
          IN  IF hits = {} THEN NULL
              ELSE prev[fReExports[x][Least(hits)]]]

LEMMA RoundsExist ==
  ASSUME NEW s, NEW N \in Nat
  PROVE  \E f : f = [n \in 0..N |-> Round(s, n, f[n - 1])]
<1>1. PICK T : T = {m \in 0..N : \E f : f = [n \in 0..m |-> Round(s, n, f[n - 1])]}
  OBVIOUS
<1>2. \A p, q : Round(s, 0, p) = Round(s, 0, q)
  BY DEF Round
<1> HIDE DEF Round
<1>3. 0 \in T
  <2>1. PICK f : f = [n \in 0..0 |-> Round(s, 0, <<>>)]
    OBVIOUS
  <2>2. \A n \in 0..0 : f[n] = Round(s, n, f[n - 1])
    BY <1>2, <2>1
  <2>3. f = [n \in 0..0 |-> Round(s, n, f[n - 1])]
    BY <2>1, <2>2
  <2> QED
    BY <1>1, <2>3
<1>4. ASSUME NEW m \in 0..N, m > 0, m - 1 \in T PROVE m \in T
  <2>1. PICK f : f = [n \in 0..m - 1 |-> Round(s, n, f[n - 1])]
    BY <1>1, <1>4
  <2>2. PICK g : g = [n \in 0..m |-> IF n = m THEN Round(s, m, f[m - 1]) ELSE f[n]]
    OBVIOUS
  <2>3. ASSUME NEW n \in 0..m PROVE g[n] = Round(s, n, g[n - 1])
    <3>1. CASE n = m
      <4>1. m - 1 \in 0..m /\ m - 1 # m
        BY <1>4
      <4> QED
        BY <2>2, <3>1, <4>1
    <3>2. CASE n # m /\ n > 0
      <4>1. n - 1 \in 0..m /\ n - 1 # m /\ n \in 0..m - 1
        BY <1>4, <3>2
      <4>2. g[n] = f[n] /\ g[n - 1] = f[n - 1]
        BY <2>2, <3>2, <4>1
      <4> QED
        BY <2>1, <4>1, <4>2
    <3>3. CASE n = 0
      <4>1. 0 # m /\ 0 \in 0..m - 1 /\ 0 \in 0..m
        BY <1>4
      <4>2. g[0] = f[0] /\ f[0] = Round(s, 0, f[0 - 1])
        BY <2>1, <2>2, <4>1
      <4> QED
        BY <1>2, <3>3, <4>2
    <3> QED
      BY <3>1, <3>2, <3>3
  <2>4. g = [n \in 0..m |-> g[n]]
    BY <2>2
  <2>5. g = [n \in 0..m |-> Round(s, n, g[n - 1])]
    BY <2>3, <2>4
  <2> QED
    BY <1>1, <2>5
<1>5. N \in T
  BY <1>3, <1>4, CountUp
<1> QED
  BY <1>1, <1>5

\* The search of the code: as many rounds as there are images.
LEMMA SearchUnfolds ==
  ASSUME NEW s
  PROVE  \E f : /\ f = [n \in 0..Cardinality(Image) |-> Round(s, n, f[n - 1])]
                /\ findExportedSymbol(s) = f[Cardinality(Image)]
<1>1. Cardinality(Image) \in Nat
  BY ImageAssumption, FS_CardinalityType
<1>2. \E f : f = [n \in 0..Cardinality(Image) |-> Round(s, n, f[n - 1])]
  BY <1>1, RoundsExist
<1> QED
  BY <1>2 DEF Round, findExportedSymbol

\* The search of an image is a last round, which looks at what the rounds
\* before it found in the libraries the image re-exports.
LEMMA LastRound ==
  ASSUME NEW s
  PROVE  \E prev : \E n \in Nat : findExportedSymbol(s) = Round(s, n, prev)
<1>1. Cardinality(Image) \in Nat
  BY ImageAssumption, FS_CardinalityType
<1>2. PICK f : /\ f = [n \in 0..Cardinality(Image) |-> Round(s, n, f[n - 1])]
               /\ findExportedSymbol(s) = f[Cardinality(Image)]
  BY SearchUnfolds
<1>3. Cardinality(Image) \in 0..Cardinality(Image)
  BY <1>1
<1>4. f[Cardinality(Image)]
        = Round(s, Cardinality(Image), f[Cardinality(Image) - 1])
  BY <1>2, <1>3
<1> QED
  BY <1>1, <1>2, <1>4

\* What an image exports itself is found in it.
LEMMA SearchOwn ==
  ASSUME NEW s, NEW x \in Image, s \in Contents(x).exports
  PROVE  findExportedSymbol(s)[x] = x
<1>1. PICK prev : \E n \in Nat : findExportedSymbol(s) = Round(s, n, prev)
  BY LastRound
<1> QED
  BY <1>1 DEF Round

\* A search finds nothing outside a set of images that is closed under
\* re-exporting, however deep it goes.
LEMMA SearchClosed ==
  ASSUME NEW s, NEW G \in SUBSET Image,
         \A x \in G : /\ Len(fReExports[x]) \in Nat
                      /\ \A i \in 1..Len(fReExports[x]) : fReExports[x][i] \in G
  PROVE  \A x \in G : findExportedSymbol(s)[x] \in G \cup {NULL, Diverges}
<1>1. Cardinality(Image) \in Nat
  BY ImageAssumption, FS_CardinalityType
<1>2. PICK N \in Nat : N = Cardinality(Image)
  BY <1>1
<1>3. PICK f : /\ f = [n \in 0..N |-> Round(s, n, f[n - 1])]
               /\ findExportedSymbol(s) = f[N]
  BY <1>2, SearchUnfolds
<1>4. \A n \in 0..N : f[n] = Round(s, n, f[n - 1])
  BY <1>3
<1>5. PICK T : T = {n \in 0..N : \A x \in G : f[n][x] \in G \cup {NULL, Diverges}}
  OBVIOUS
<1>6. 0 \in T
  <2>1. 0 \in 0..N
    OBVIOUS
  <2>2. \A x \in G : Round(s, 0, f[0 - 1])[x] \in G \cup {NULL, Diverges}
    BY DEF Round
  <2> QED
    BY <1>4, <1>5, <2>1, <2>2
<1>7. ASSUME NEW m \in 0..N, m > 0, m - 1 \in T PROVE m \in T
  <2>1. PICK prev : prev = f[m - 1]
    OBVIOUS
  <2>2. \A x \in G : prev[x] \in G \cup {NULL, Diverges}
    BY <1>5, <1>7, <2>1
  <2>3. f[m] = Round(s, m, prev) /\ m # 0
    BY <1>4, <1>7, <2>1
  <2>4. ASSUME NEW x \in G PROVE f[m][x] \in G \cup {NULL, Diverges}
    <3>1. PICK hits : hits = {i \in 1..Len(fReExports[x]) : prev[fReExports[x][i]] # NULL}
      OBVIOUS
    <3>2. f[m][x] = IF s \in Contents(x).exports THEN x
                    ELSE IF hits = {} THEN NULL
                    ELSE prev[fReExports[x][Least(hits)]]
      BY <2>3, <3>1 DEF Round
    <3>3. ASSUME hits # {} PROVE Least(hits) \in 1..Len(fReExports[x])
      <4>1. hits \in SUBSET Nat
        BY <3>1
      <4>2. Least(hits) \in hits
        BY <3>3, <4>1, LeastOf
      <4> QED
        BY <3>1, <4>2
    <3>4. hits # {} => prev[fReExports[x][Least(hits)]] \in G \cup {NULL, Diverges}
      BY <2>2, <3>3
    <3> QED
      BY <3>2, <3>4
  <2> QED
    BY <1>5, <1>7, <2>4
<1>8. N \in T
  BY <1>6, <1>7, CountUp
<1> QED
  BY <1>3, <1>5, <1>8

\* resolve returns what is found in the images of the chain.
LEMMA ResolveClosed ==
  ASSUME NEW s, NEW G \in SUBSET Image, chain \in Seq(Image),
         \A i \in 1..Len(chain) : chain[i] \in G,
         \A x \in G : /\ Len(fReExports[x]) \in Nat
                      /\ \A i \in 1..Len(fReExports[x]) : fReExports[x][i] \in G
  PROVE  resolve(s) \in G \cup {NULL, Diverges}
<1>1. PICK found : found = findExportedSymbol(s)
  OBVIOUS
<1>2. \A x \in G : found[x] \in G \cup {NULL, Diverges}
  BY <1>1, SearchClosed
<1>3. PICK hits : hits = {i \in 1..Len(chain) : found[chain[i]] # NULL}
  OBVIOUS
<1>4. ASSUME hits # {} PROVE Least(hits) \in 1..Len(chain)
  <2>1. hits \in SUBSET Nat
    BY <1>3
  <2>2. Least(hits) \in hits
    BY <1>4, <2>1, LeastOf
  <2> QED
    BY <1>3, <2>2
<1>5. resolve(s) = IF hits = {} THEN NULL ELSE found[chain[Least(hits)]]
  BY <1>1, <1>3 DEF resolve
<1> QED
  BY <1>2, <1>4, <1>5

\* The first image of the chain is asked first.
LEMMA ResolveFirst ==
  ASSUME chain \in Seq(Image), Len(chain) > 0, chain[1] = Dylinker,
         NEW s \in LinkerExports
  PROVE  resolve(s) = Dylinker
<1>1. PICK found : found = findExportedSymbol(s)
  OBVIOUS
<1>2. found[Dylinker] = Dylinker
  BY <1>1, SearchOwn, LinkerAssumption DEF Contents, LinkerFile
<1>3. PICK hits : hits = {i \in 1..Len(chain) : found[chain[i]] # NULL}
  OBVIOUS
<1>4. Dylinker # NULL /\ 1 \in 1..Len(chain)
  BY LinkerAssumption, ImageAssumption
<1>5. 1 \in hits /\ hits \in SUBSET Nat /\ \A i \in hits : i >= 1
  BY <1>2, <1>3, <1>4
<1>6. Least(hits) \in hits /\ Least(hits) <= 1
  BY <1>5, LeastOf
<1>7. Least(hits) = 1
  <2>1. PICK l : l = Least(hits)
    OBVIOUS
  <2>2. l \in Nat /\ l >= 1 /\ l <= 1
    BY <1>5, <1>6, <2>1
  <2>3. l = 1
    BY <2>2
  <2> QED
    BY <2>1, <2>3
<1>8. resolve(s) = IF hits = {} THEN NULL ELSE found[chain[Least(hits)]]
  BY <1>1, <1>3 DEF resolve
<1> QED
  BY <1>2, <1>5, <1>7, <1>8

---------------------------------------------------------------------------
(* What a step does to the images. *)

ParsesIn(st, x) == \E i \in 1..Len(st) : st[i].fn = "parse" /\ st[i].im = x

LEMMA ParsesInAdvance ==
  ASSUME NEW st \in Seq(Frame), Len(st) > 0
  PROVE  \A x : ParsesIn(Advance(st), x) <=> ParsesIn(st, x)
<1>1. /\ Len(Advance(st)) = Len(st)
      /\ \A i \in 1..Len(st) :
           Advance(st)[i].fn = st[i].fn /\ Advance(st)[i].im = st[i].im
  BY AdvanceStack
<1> QED
  BY <1>1 DEF ParsesIn

LEMMA ParsesInAppend ==
  ASSUME NEW st \in Seq(Frame), NEW f \in Frame
  PROVE  \A x : ParsesIn(Append(st, f), x) <=>
                  (ParsesIn(st, x) \/ (f.fn = "parse" /\ f.im = x))
<1> SUFFICES ASSUME NEW x
             PROVE  ParsesIn(Append(st, f), x) <=>
                      (ParsesIn(st, x) \/ (f.fn = "parse" /\ f.im = x))
  OBVIOUS
<1>1. PICK t, n : t = Append(st, f) /\ n = Len(st)
  OBVIOUS
<1>2. /\ n \in Nat /\ Len(t) = n + 1 /\ t[n + 1] = f
      /\ \A i \in 1..n : t[i] = st[i]
  BY <1>1, PushedStack
<1>3. /\ \A i \in 1..n : i \in 1..Len(t)
      /\ n + 1 \in 1..Len(t)
      /\ \A i \in 1..Len(t) : i \in 1..n \/ i = n + 1
  BY <1>2
<1> QED
  BY <1>1, <1>2, <1>3 DEF ParsesIn

LEMMA ParsesInBelow ==
  ASSUME LinkerTypeOK, Len(stack) > 0
  PROVE  \A x : Parsing(x) <=>
                  (ParsesIn(Below, x) \/ (Top.fn = "parse" /\ Top.im = x))
<1> SUFFICES ASSUME NEW x
             PROVE  Parsing(x) <=>
                      (ParsesIn(Below, x) \/ (Top.fn = "parse" /\ Top.im = x))
  OBVIOUS
<1>1. PICK t, n : t = Below /\ n = Len(stack)
  OBVIOUS
<1>2. /\ n \in Nat /\ n > 0 /\ Top = stack[n] /\ Len(t) = n - 1
      /\ \A i \in 1..n - 1 : t[i] = stack[i]
  BY <1>1, BelowStack, TopOfStack DEF LinkerTypeOK
<1>3. /\ \A i \in 1..n - 1 : i \in 1..n
      /\ n \in 1..n
      /\ \A i \in 1..n : i \in 1..n - 1 \/ i = n
  BY <1>2
<1> QED
  BY <1>1, <1>2, <1>3 DEF ParsesIn, Parsing

LEMMA ParsingStack == \A x : (Parsing(x) <=> ParsesIn(stack, x))
                             /\ (Parsing(x)' <=> ParsesIn(stack', x))
BY DEF Parsing, ParsesIn

\* The files of the images in use stay what they are; an image that is new is
\* being parsed, and one that has been parsed is rebased and is not parsed
\* again.
ImagesGrow ==
  /\ disk' = disk
  /\ \A x \in allocated : x \in allocated' /\ fOrigFilePath'[x] = fOrigFilePath[x]
  /\ \A x \in Image : x \in allocated /\ Parsing(x)' => Parsing(x)
  /\ \A x \in allocated' : x \in allocated \/ x = Dylinker \/ x = Main \/ Parsing(x)'
  /\ \A x \in Image : Parsing(x) => x = Main \/ Parsing(x)' \/ rebased'[x] = 1
  /\ \A x \in Image : rebased[x] = 1 => rebased'[x] >= 1

ReExportsGrow ==
  \/ fReExports' = fReExports
  \/ \E x \in Image, dep \in allocated \ {Main} :
       fReExports' = [fReExports EXCEPT ![x] = Append(@, dep)]

\* Only images in use are bound, and only when nothing is being parsed.
Binding(X) ==
  /\ doBindSymbols(X) /\ X \subseteq allocated
  /\ pc # "start" /\ \A y : ~Parsing(y)

BindingsGrow ==
  (UNCHANGED <<bound, target>>) \/ (\E X \in SUBSET Image : Binding(X))

Grows == ImagesGrow /\ ReExportsGrow /\ BindingsGrow

\* A step that does nothing to the images.
LEMMA GrowsQuietly ==
  ASSUME LInv, UNCHANGED <<disk, allocated, fOrigFilePath, fReExports, rebased,
                           bound, target>>,
         \A x \in Image : Parsing(x)' => Parsing(x),
         \A x \in Image : Parsing(x) => x = Main \/ Parsing(x)'
  PROVE  Grows
<1>1. ImagesGrow
  BY DEF ImagesGrow, LInv, LinkerTypeOK
<1>2. ReExportsGrow /\ BindingsGrow
  BY DEF ReExportsGrow, BindingsGrow
<1> QED
  BY <1>1, <1>2 DEF Grows

LEMMA LoadFileGrows ==
  ASSUME LInv, NEW path, NEW st \in Seq(Frame), LoadFile(path, st), disk' = disk,
         \A x \in Image : ParsesIn(st, x) <=> Parsing(x)
  PROVE  Grows
<1> USE DEF LInv
<1>1. PICK y : y = Fresh
  OBVIOUS
<1>2. y \in Image /\ y \notin allocated
  BY <1>1 DEF LoadFile, Fresh, Free
<1>3. /\ allocated' = allocated \cup {y}
      /\ fOrigFilePath' = [fOrigFilePath EXCEPT ![y] = path]
      /\ stack' = Append(st, Activation("parse", y, 1))
      /\ UNCHANGED <<fReExports, rebased, bound, target>>
  BY <1>1 DEF LoadFile
<1>4. PICK f : f = Activation("parse", y, 1)
  OBVIOUS
<1>5. f \in Frame /\ f.fn = "parse" /\ f.im = y
  BY <1>2, <1>4 DEF Activation, Frame
<1>6. \A x : ParsesIn(stack', x) <=> (ParsesIn(st, x) \/ y = x)
  BY <1>3, <1>4, <1>5, ParsesInAppend
<1>7. \A x \in Image : Parsing(x)' <=> (Parsing(x) \/ y = x)
  BY <1>6, ParsingStack
<1>8. \A x \in allocated : fOrigFilePath'[x] = fOrigFilePath[x] /\ x # y
  BY <1>2, <1>3 DEF LinkerTypeOK
<1>9. \A x \in Image : rebased[x] = 1 => rebased'[x] >= 1
  BY <1>3
<1>10. ImagesGrow
  BY <1>2, <1>3, <1>7, <1>8, <1>9 DEF ImagesGrow
<1>11. ReExportsGrow /\ BindingsGrow
  BY <1>3 DEF ReExportsGrow, BindingsGrow
<1> QED
  BY <1>10, <1>11 DEF Grows

LEMMA ParseLoadGrows == LInv /\ ParseLoad => Grows
<1> SUFFICES ASSUME LInv, ParseLoad PROVE Grows
  OBVIOUS
<1>1. PICK path : path = Commands(Top.im)[Top.k].path
  OBVIOUS
<1>2. LoadFile(path, stack) /\ disk' = disk
  BY <1>1 DEF ParseLoad
<1>3. stack \in Seq(Frame) /\ \A x : ParsesIn(stack, x) <=> Parsing(x)
  BY ParsingStack DEF LInv, LinkerTypeOK
<1> QED
  BY <1>2, <1>3, LoadFileGrows

LEMMA LoadAuxiliaryGrows == LInv /\ LoadAuxiliary => Grows
<1> SUFFICES ASSUME LInv, LoadAuxiliary PROVE Grows
  OBVIOUS
<1>1. PICK path : path = AuxPaths[Len(sAuxLibs) + 1]
  OBVIOUS
<1>2. CASE Present(path) # NULL
  <2>1. UNCHANGED <<disk, allocated, fOrigFilePath, fReExports, rebased, bound,
                    target, stack>>
    BY <1>1, <1>2 DEF LoadAuxiliary, objVars
  <2>2. \A x : Parsing(x)' <=> Parsing(x)
    BY <2>1 DEF Parsing
  <2> QED
    BY <2>1, <2>2, GrowsQuietly
<1>3. CASE Present(path) = NULL
  <2>1. LoadFile(path, stack) /\ disk' = disk
    BY <1>1, <1>3 DEF LoadAuxiliary
  <2>2. stack \in Seq(Frame) /\ \A x : ParsesIn(stack, x) <=> Parsing(x)
    BY ParsingStack DEF LInv, LinkerTypeOK
  <2> QED
    BY <2>1, <2>2, LoadFileGrows
<1> QED
  BY <1>2, <1>3

LEMMA LoadCasGrows == LInv /\ LoadCas => Grows
<1> SUFFICES ASSUME LInv, LoadCas PROVE Grows
  OBVIOUS
<1>1. CASE Present(CasPath) # NULL
  <2>1. UNCHANGED <<disk, allocated, fOrigFilePath, fReExports, rebased, bound,
                    target, stack>>
    BY <1>1 DEF LoadCas, objVars
  <2>2. \A x : Parsing(x)' <=> Parsing(x)
    BY <2>1 DEF Parsing
  <2> QED
    BY <2>1, <2>2, GrowsQuietly
<1>2. CASE Present(CasPath) = NULL
  <2>1. LoadFile(CasPath, stack) /\ disk' = disk
    BY <1>2 DEF LoadCas
  <2>2. stack \in Seq(Frame) /\ \A x : ParsesIn(stack, x) <=> Parsing(x)
    BY ParsingStack DEF LInv, LinkerTypeOK
  <2> QED
    BY <2>1, <2>2, LoadFileGrows
<1> QED
  BY <1>1, <1>2

\* dlopen, called with a stack that parses what `stack' does.
LEMMA dlopenGrows ==
  ASSUME LInv, NEW path, NEW st \in Seq(Frame), dlopen(path, st), disk' = disk,
         \A x : ParsesIn(st, x) <=> Parsing(x)
  PROVE  Grows
<1>1. CASE Present(path) # NULL
  <2>1. UNCHANGED <<disk, allocated, fOrigFilePath, fReExports, rebased, bound,
                    target>> /\ stack' = st
    BY <1>1 DEF dlopen, objVars
  <2>2. \A x : Parsing(x)' <=> Parsing(x)
    BY <2>1, ParsingStack
  <2> QED
    BY <2>1, <2>2, GrowsQuietly
<1>2. CASE Present(path) = NULL
  <2>1. PICK f : f = Activation("dlopen", NULL, 1)
    OBVIOUS
  <2>2. f \in Frame /\ f.fn = "dlopen"
    BY <2>1 DEF Activation, Frame
  <2>3. LoadFile(path, Append(st, f))
    BY <1>2, <2>1 DEF dlopen
  <2>4. Append(st, f) \in Seq(Frame)
    BY <2>2
  <2>5. \A x \in Image : ParsesIn(Append(st, f), x) <=> Parsing(x)
    BY <2>2, ParsesInAppend
  <2> QED
    BY <2>3, <2>4, <2>5, LoadFileGrows
<1> QED
  BY <1>1, <1>2

LEMMA OpenFromInitializerGrows == LInv /\ OpenFromInitializer => Grows
<1> SUFFICES ASSUME LInv, OpenFromInitializer PROVE Grows
  OBVIOUS
<1>1. PICK path : path = Opens(Top.im)[Top.k]
  OBVIOUS
<1>2. dlopen(path, Advance(stack)) /\ disk' = disk /\ Len(stack) > 0
  BY <1>1 DEF OpenFromInitializer, Calling
<1>3. stack \in Seq(Frame)
  BY DEF LInv, LinkerTypeOK
<1>4. Advance(stack) \in Seq(Frame)
  BY <1>2, <1>3, AdvanceStack
<1>5. \A x : ParsesIn(Advance(stack), x) <=> Parsing(x)
  BY <1>2, <1>3, ParsesInAdvance, ParsingStack
<1> QED
  BY <1>2, <1>4, <1>5, dlopenGrows

LEMMA OpenFromProgramGrows == LInv /\ OpenFromProgram => Grows
<1> SUFFICES ASSUME LInv, OpenFromProgram PROVE Grows
  OBVIOUS
<1>1. PICK path \in Path \cup {LibSystem} : dlopen(path, stack)
  BY DEF OpenFromProgram
<1>2. stack \in Seq(Frame) /\ disk' = disk
  BY DEF LInv, LinkerTypeOK, OpenFromProgram
<1> QED
  BY <1>1, <1>2, ParsingStack, dlopenGrows

LEMMA ParsePresentGrows == LInv /\ ParsePresent => Grows
<1> SUFFICES ASSUME LInv, ParsePresent PROVE Grows
  OBVIOUS
<1> USE DEF LInv
<1>1. PICK x, cmd : x = Top.im /\ cmd = Commands(Top.im)[Top.k]
  OBVIOUS
<1>2. /\ Calling("parse") /\ Top.k <= Len(Commands(Top.im))
      /\ Present(cmd.path) # NULL
      /\ AddDependency(x, Present(cmd.path), cmd.reexport)
      /\ stack' = Advance(stack)
      /\ UNCHANGED <<disk, allocated, fOrigFilePath, rebased, bound, target>>
  BY <1>1 DEF ParsePresent
<1>3. x \in Image /\ cmd \in Command
  BY <1>1, <1>2, CommandAt
<1>4. stack \in Seq(Frame) /\ Len(stack) > 0 /\ stack # <<>> /\ pc # "start"
  BY <1>2 DEF LinkerTypeOK, Calling, StackInv
<1>5. DependencyOK(cmd.path, Present(cmd.path))
  BY <1>2, <1>3, <1>4, PresentDependency DEF Command
<1>6. Present(cmd.path) \in allocated \ {Main}
  BY <1>5 DEF DependencyOK
<1>7. ReExportsGrow
  BY <1>2, <1>3, <1>6 DEF AddDependency, ReExportsGrow
<1>8. \A y : Parsing(y)' <=> Parsing(y)
  BY <1>2, <1>4, ParsesInAdvance, ParsingStack
<1>9. ImagesGrow
  BY <1>2, <1>8 DEF ImagesGrow
<1>10. BindingsGrow
  BY <1>2 DEF BindingsGrow
<1> QED
  BY <1>7, <1>9, <1>10 DEF Grows

\* What the return from loading a library does to the images.
LEMMA ReturnGrows ==
  ASSUME LInv, Loaded, doRebase, ReExportsGrow,
         UNCHANGED <<disk, allocated, fOrigFilePath, bound, target>>,
         \A x \in Image : Parsing(x)' => Parsing(x),
         \A x \in Image : Parsing(x) => x = Top.im \/ Parsing(x)'
  PROVE  Grows
<1>1. /\ rebased'[Top.im] = 1
      /\ \A x \in Image : x # Top.im => rebased'[x] = rebased[x]
  BY RebasedTop
<1>2. \A x \in Image : rebased[x] = 1 => rebased'[x] >= 1
  BY <1>1
<1>3. \A x \in Image : Parsing(x) => x = Main \/ Parsing(x)' \/ rebased'[x] = 1
  BY <1>1
<1>4. ImagesGrow
  BY <1>2, <1>3 DEF ImagesGrow
<1>5. BindingsGrow
  BY DEF BindingsGrow
<1> QED
  BY <1>4, <1>5 DEF Grows

LEMMA ReturnToParseGrows == LInv /\ ReturnToParse => Grows
<1> SUFFICES ASSUME LInv, ReturnToParse PROVE Grows
  OBVIOUS
<1> USE DEF LInv
<1>1. PICK caller : caller = stack[Len(stack) - 1]
  OBVIOUS
<1>2. /\ Loaded /\ Len(stack) > 1 /\ caller.fn = "parse" /\ doRebase
      /\ AddDependency(caller.im, Top.im, Commands(caller.im)[caller.k].reexport)
      /\ stack' = Advance(Below)
      /\ UNCHANGED <<disk, allocated, fOrigFilePath, bound, target>>
  BY <1>1 DEF ReturnToParse
<1>3. /\ Top.im \in allocated \ {Main} /\ Len(stack) \in Nat
      /\ Len(stack) > 0
  BY <1>2, LoadedTop
<1>4. Len(stack) - 1 \in 1..Len(stack)
  BY <1>2, <1>3
<1>5. caller.im \in Image
  BY <1>1, <1>2, <1>4 DEF StackInv, LinkerTypeOK
<1>6. ReExportsGrow
  BY <1>2, <1>3, <1>5 DEF AddDependency, ReExportsGrow
<1>7. Below \in Seq(Frame) /\ Len(Below) > 0
  BY <1>2, <1>3, BelowStack DEF LinkerTypeOK
<1>8. \A x : Parsing(x)' <=> ParsesIn(Below, x)
  BY <1>2, <1>7, ParsesInAdvance, ParsingStack
<1>9. \A x : Parsing(x) <=> (ParsesIn(Below, x) \/ (Top.fn = "parse" /\ Top.im = x))
  BY <1>3, ParsesInBelow
<1> QED
  BY <1>2, <1>6, <1>8, <1>9, ReturnGrows

LEMMA ReturnToDlopenGrows == LInv /\ ReturnToDlopen => Grows
<1> SUFFICES ASSUME LInv, ReturnToDlopen PROVE Grows
  OBVIOUS
<1> USE DEF LInv
<1>1. PICK w, m : w = Top.im /\ m = Len(stack) - 1
  OBVIOUS
<1>2. /\ Loaded /\ Len(stack) > 1 /\ stack[m].fn = "dlopen" /\ doRebase
      /\ stack' = [Below EXCEPT ![Len(Below)].im = w]
      /\ UNCHANGED <<disk, allocated, fOrigFilePath, fReExports, bound, target>>
  BY <1>1 DEF ReturnToDlopen
<1>3. w \in Image /\ Len(stack) \in Nat /\ Len(stack) > 0
  BY <1>1, <1>2, LoadedTop
<1>4. m \in Nat /\ m \in 1..m /\ m \in 1..Len(stack)
  BY <1>1, <1>2, <1>3
<1>5. Below \in Seq(Frame) /\ Len(Below) = m /\ \A i \in 1..m : Below[i] = stack[i]
  BY <1>1, <1>3, BelowStack DEF LinkerTypeOK
<1>6. PICK f : f = [Below[m] EXCEPT !.im = w]
  OBVIOUS
<1>7. f.fn = "dlopen" /\ Below[m].fn = "dlopen"
  <2>1. stack[m] \in Frame /\ Below[m] = stack[m]
    BY <1>4, <1>5, FrameType
  <2> QED
    BY <1>2, <1>6, <2>1 DEF Frame
<1>8. stack' = [Below EXCEPT ![m] = f]
  BY <1>2, <1>5, <1>6
<1>9. /\ Len(stack') = m /\ stack'[m] = f
      /\ \A i \in 1..m : i # m => stack'[i] = Below[i]
  BY <1>4, <1>5, <1>8
<1>10. \A x : ParsesIn(stack', x) <=> ParsesIn(Below, x)
  BY <1>5, <1>7, <1>9 DEF ParsesIn
<1>11. \A x : Parsing(x)' <=> ParsesIn(Below, x)
  BY <1>10, ParsingStack
<1>12. \A x : Parsing(x) <=> (ParsesIn(Below, x) \/ (Top.fn = "parse" /\ Top.im = x))
  BY <1>3, ParsesInBelow
<1>13. ReExportsGrow
  BY <1>2 DEF ReExportsGrow
<1> QED
  BY <1>2, <1>11, <1>12, <1>13, ReturnGrows

LEMMA ReturnToMainGrows == LInv /\ ReturnToMain => Grows
<1> SUFFICES ASSUME LInv, ReturnToMain PROVE Grows
  OBVIOUS
<1> USE DEF LInv
<1>1. /\ Loaded /\ Len(stack) = 1 /\ doRebase /\ stack' = <<>>
      /\ UNCHANGED <<disk, allocated, fOrigFilePath, fReExports, bound, target>>
  BY DEF ReturnToMain
<1>2. Top = stack[1]
  BY <1>1, LoadedTop
<1>3. \A x \in Image : ~Parsing(x)'
  BY <1>1, ParsingStack DEF ParsesIn
<1>4. \A x \in Image : Parsing(x) => x = Top.im
  BY <1>1, <1>2 DEF Parsing
<1>5. ReExportsGrow
  BY <1>1 DEF ReExportsGrow
<1> QED
  BY <1>1, <1>3, <1>4, <1>5, ReturnGrows

LEMMA SetUpDylinkerGrows == LInv /\ SetUpDylinker => Grows
<1> SUFFICES ASSUME LInv, SetUpDylinker PROVE Grows
  OBVIOUS
<1>1. /\ allocated' = allocated \cup {Dylinker}
      /\ UNCHANGED <<disk, fOrigFilePath, fReExports, rebased, bound, target,
                     stack>>
  BY DEF SetUpDylinker
<1>2. \A x : Parsing(x)' <=> Parsing(x)
  BY <1>1, ParsingStack
<1>3. \A x \in Image : rebased[x] = 1 => rebased'[x] >= 1
  BY <1>1
<1>4. ImagesGrow
  BY <1>1, <1>2, <1>3 DEF ImagesGrow
<1> QED
  BY <1>1, <1>4 DEF Grows, ReExportsGrow, BindingsGrow

LEMMA SetUpMainGrows == LInv /\ SetUpMain => Grows
<1> SUFFICES ASSUME LInv, SetUpMain PROVE Grows
  OBVIOUS
<1>1. /\ allocated' = allocated \cup {Main} /\ stack = <<>>
      /\ stack' = <<Activation("parse", Main, 1)>> /\ pc = "aux"
      /\ UNCHANGED <<disk, fOrigFilePath, fReExports, rebased, bound, target>>
  BY DEF SetUpMain
<1>2. Main \notin allocated /\ \A x : ~Parsing(x)
  BY <1>1 DEF LInv, ChainInv, Parsing
<1>3. \A x : Parsing(x)' => x = Main
  <2>1. Len(stack') = 1 /\ stack'[1].im = Main
    BY <1>1 DEF Activation
  <2> QED
    BY <2>1, ParsingStack DEF ParsesIn
<1>4. \A x \in Image : rebased[x] = 1 => rebased'[x] >= 1
  BY <1>1
<1>5. ImagesGrow
  BY <1>1, <1>2, <1>3, <1>4 DEF ImagesGrow
<1> QED
  BY <1>1, <1>5 DEF Grows, ReExportsGrow, BindingsGrow

LEMMA MainLoadedGrows == LInv /\ MainLoaded => Grows
<1> SUFFICES ASSUME LInv, MainLoaded PROVE Grows
  OBVIOUS
<1> USE DEF LInv
<1>1. /\ Calling("parse") /\ Top.im = Main /\ stack' = <<>>
      /\ UNCHANGED <<disk, allocated, fOrigFilePath, fReExports, rebased, bound,
                     target>>
  BY DEF MainLoaded, objVars
<1>2. \A x : ~Parsing(x)'
  BY <1>1, ParsingStack DEF ParsesIn
<1>3. /\ Len(stack) \in 1..Len(stack) /\ Top = stack[Len(stack)]
      /\ Top.fn = "parse" /\ Len(stack) \in Nat
  BY <1>1, TopOfStack DEF Calling, LinkerTypeOK
<1>4. Len(stack) = 1
  <2>1. Main \in Image
    BY LinkerAssumption
  <2> QED
    BY <1>1, <1>3, <2>1 DEF ParseInv, ParseAt
<1>5. \A x : Parsing(x) => x = Main
  BY <1>1, <1>3, <1>4 DEF Parsing
<1> QED
  BY <1>1, <1>2, <1>5, GrowsQuietly

\* Binding.
LEMMA BindingGrows ==
  ASSUME LInv, NEW X \in SUBSET Image, Binding(X),
         UNCHANGED <<disk, allocated, fOrigFilePath, fReExports, rebased>>,
         \A x \in Image : Parsing(x)' => Parsing(x)
  PROVE  Grows
<1>1. \A x \in Image : ~Parsing(x)
  BY DEF Binding
<1>2. \A x \in Image : rebased[x] = 1 => rebased'[x] >= 1
  OBVIOUS
<1>3. ImagesGrow
  BY <1>1, <1>2 DEF ImagesGrow
<1>4. ReExportsGrow /\ BindingsGrow
  BY DEF ReExportsGrow, BindingsGrow
<1> QED
  BY <1>3, <1>4 DEF Grows

LEMMA bindChainGrows == LInv /\ bindChain => Grows
<1> SUFFICES ASSUME LInv, bindChain PROVE Grows
  OBVIOUS
<1>1. /\ pc = "bind" /\ doBindSymbols(InChain)
      /\ UNCHANGED <<disk, allocated, fOrigFilePath, fReExports, rebased, stack>>
  BY DEF bindChain
<1>2. stack = <<>> /\ \A x : ~Parsing(x)
  BY <1>1 DEF LInv, StackInv, Parsing
<1>3. \A x : ~Parsing(x)'
  BY <1>1, <1>2, ParsingStack
<1>4. InChain \subseteq allocated /\ InChain \in SUBSET Image
  <2>1. \A i \in 1..Len(chain) : chain[i] \in allocated
    BY DEF LInv, ChainInv
  <2>2. allocated \in SUBSET Image
    BY DEF LInv, LinkerTypeOK
  <2> QED
    BY <2>1, <2>2 DEF InChain
<1>5. Binding(InChain)
  BY <1>1, <1>2, <1>4 DEF Binding
<1> QED
  BY <1>1, <1>3, <1>4, <1>5, BindingGrows

LEMMA BindMainGrows == LInv /\ BindMain => Grows
<1> SUFFICES ASSUME LInv, BindMain PROVE Grows
  OBVIOUS
<1>1. /\ pc = "bindMain" /\ doBindSymbols({Main})
      /\ UNCHANGED <<disk, allocated, fOrigFilePath, fReExports, rebased, stack>>
  BY DEF BindMain
<1>2. stack = <<>> /\ \A x : ~Parsing(x)
  BY <1>1 DEF LInv, StackInv, Parsing
<1>3. \A x : ~Parsing(x)'
  BY <1>1, <1>2, ParsingStack
<1>4. Main \in allocated /\ {Main} \in SUBSET Image
  BY <1>1, LinkerAssumption DEF LInv, ChainInv
<1>5. Binding({Main})
  BY <1>1, <1>2, <1>4 DEF Binding
<1> QED
  BY <1>1, <1>3, <1>4, <1>5, BindingGrows

LEMMA BootstrapGrows == LInv /\ Bootstrap => Grows
<1> SUFFICES ASSUME LInv, Bootstrap PROVE Grows
  OBVIOUS
<1> USE DEF LInv
<1>1. PICK x : x = Top.im
  OBVIOUS
<1>2. /\ Calling("dlopen") /\ x # NULL /\ doBindSymbols({x})
      /\ stack' = Append(Below, Activation("initialize", x, 1))
      /\ UNCHANGED <<disk, allocated, fOrigFilePath, fReExports, rebased>>
  BY <1>1 DEF Bootstrap
<1>3. /\ Len(stack) \in 1..Len(stack) /\ Top = stack[Len(stack)]
      /\ Top.fn = "dlopen" /\ Len(stack) > 0 /\ stack # <<>>
  BY <1>2, TopOfStack DEF Calling
<1>4. x \in Image
  BY <1>1, <1>2, <1>3, FrameType
<1>5. x \in allocated
  BY <1>1, <1>3, <1>4 DEF OpenInv
<1>6. \A y : ~Parsing(y)
  BY <1>3, ParsingAbove DEF Parsing
<1>7. pc # "start"
  BY <1>3 DEF StackInv
<1>8. PICK f : f = Activation("initialize", x, 1)
  OBVIOUS
<1>9. f \in Frame /\ f.fn = "initialize"
  BY <1>4, <1>8 DEF Activation, Frame
<1>10. Below \in Seq(Frame)
  BY <1>3, BelowStack DEF LinkerTypeOK
<1>11. \A y : ~ParsesIn(Below, y)
  BY <1>3, <1>6, ParsesInBelow
<1>12. \A y : ~ParsesIn(stack', y)
  BY <1>2, <1>8, <1>9, <1>10, <1>11, ParsesInAppend
<1>13. \A y : ~Parsing(y)'
  BY <1>12, ParsingStack
<1>14. {x} \in SUBSET Image /\ Binding({x})
  BY <1>2, <1>4, <1>5, <1>6, <1>7 DEF Binding
<1> QED
  BY <1>2, <1>13, <1>14, BindingGrows

LEMMA EndBootstrapGrows == LInv /\ EndBootstrap => Grows
<1> SUFFICES ASSUME LInv, EndBootstrap PROVE Grows
  OBVIOUS
<1> USE DEF LInv
<1>1. /\ Len(stack) > 0 /\ Top.fn = "initialize" /\ stack' = Below
      /\ UNCHANGED <<disk, allocated, fOrigFilePath, fReExports, rebased, bound,
                     target>>
  BY DEF EndBootstrap, Initializing, Calling, untouched
<1>2. \A x : Parsing(x)' <=> Parsing(x)
  BY <1>1, ParsesInBelow, ParsingStack
<1> QED
  BY <1>1, <1>2, GrowsQuietly

\* Initializing an image changes none.
LEMMA InitializeGrows == LInv /\ InitializeImages => Grows
<1> SUFFICES ASSUME LInv, InitializeImages PROVE Grows
  OBVIOUS
<1> USE DEF LInv
<1>1. UNCHANGED <<disk, allocated, fOrigFilePath, fReExports, rebased, bound,
                  target>>
  BY DEF InitializeImages, WalkChain, StartInitializers, EndInitializers,
         InitializeMain, CallMain, objVars, untouched
<1>2. \A x : ~Parsing(x)
  <2>1. CASE stack = <<>>
    BY <2>1 DEF Parsing
  <2>2. CASE stack # <<>>
    <3>1. Len(stack) > 0 /\ Top.fn = "initialize"
      BY <2>2 DEF InitializeImages, WalkChain, StartInitializers, InitializeMain,
                  EndInitializers, CallMain, Initializing, Calling
    <3>2. \A i \in 1..Len(stack) : stack[i].fn # "parse"
      BY <3>1, ParsingAbove
    <3> QED
      BY <3>2 DEF Parsing
  <2> QED
    BY <2>1, <2>2
<1>3. \A x : ~Parsing(x)'
  <2>1. stack' = <<>> \/ \E x : stack' = <<Activation("initialize", x, 1)>>
    BY DEF InitializeImages, WalkChain, StartInitializers, EndInitializers,
         InitializeMain, CallMain
  <2>2. \A i \in 1..Len(stack') : stack'[i].fn # "parse"
    BY <2>1 DEF Activation
  <2> QED
    BY <2>2, ParsingStack DEF ParsesIn
<1> QED
  BY <1>1, <1>2, <1>3, GrowsQuietly

LEMMA OverflowGrows == LInv /\ Overflow => Grows
<1> SUFFICES ASSUME LInv, Overflow PROVE Grows
  OBVIOUS
<1> USE DEF LInv
<1>1. /\ pc \in {"bind", "bindMain"} \/ Calling("dlopen")
      /\ stack' = <<>>
      /\ UNCHANGED <<disk, allocated, fOrigFilePath, fReExports, rebased, bound,
                     target>>
  BY DEF Overflow, objVars
<1>2. \A x : ~Parsing(x)
  <2>1. CASE pc \in {"bind", "bindMain"}
    BY <2>1 DEF StackInv, Parsing
  <2>2. CASE Calling("dlopen")
    <3>1. Len(stack) > 0 /\ Top.fn = "dlopen"
      BY <2>2 DEF Calling
    <3>2. \A i \in 1..Len(stack) : stack[i].fn # "parse"
      BY <3>1, ParsingAbove
    <3> QED
      BY <3>2 DEF Parsing
  <2> QED
    BY <1>1, <2>1, <2>2
<1>3. \A x : ~Parsing(x)'
  BY <1>1, ParsingStack DEF ParsesIn
<1> QED
  BY <1>1, <1>2, <1>3, GrowsQuietly

LEMMA NextGrows == LInv /\ [Next]_vars => Grows
<1> SUFFICES ASSUME LInv, [Next]_vars PROVE Grows
  OBVIOUS
<1>1. CASE Load
  BY <1>1, ParsePresentGrows, ParseLoadGrows, ReturnToParseGrows,
     ReturnToDlopenGrows, ReturnToMainGrows DEF Load
<1>2. CASE Boot
  BY <1>2, SetUpDylinkerGrows, LoadAuxiliaryGrows, SetUpMainGrows,
     MainLoadedGrows, LoadCasGrows, bindChainGrows, BindMainGrows DEF Boot
<1>3. CASE InitializeImages
  BY <1>3, InitializeGrows
<1>4. CASE Open
  BY <1>4, OpenFromInitializerGrows, BootstrapGrows, EndBootstrapGrows DEF Open
<1>5. CASE Overflow
  BY <1>5, OverflowGrows
<1>6. CASE OpenFromProgram
  BY <1>6, OpenFromProgramGrows
<1>7. CASE UNCHANGED vars
  <2>1. UNCHANGED <<disk, allocated, fOrigFilePath, fReExports, rebased, bound,
                    target, stack>>
    BY <1>7 DEF vars, objVars
  <2>2. \A x : Parsing(x)' <=> Parsing(x)
    BY <2>1, ParsingStack
  <2> QED
    BY <2>1, <2>2, GrowsQuietly
<1> QED
  BY <1>1, <1>2, <1>3, <1>4, <1>5, <1>6, <1>7 DEF Next, Step, Crashed

---------------------------------------------------------------------------
(* What symbols are bound to. *)

\* What an image re-exports is in use, and is not the program.
ReExportsInv ==
  /\ fReExports \in [Image -> Seq(Image)]
  /\ \A x \in Image : \A i \in 1..Len(fReExports[x]) :
       fReExports[x][i] \in allocated \ {Main}

\* A library is rebased once its load commands are done.
RebaseInv ==
  \A x \in allocated \ {Dylinker, Main} : Parsing(x) \/ rebased[x] = 1

\* An import of a bound image is unresolved, or bound to an image in use that
\* is not being parsed, and to the linker if the linker exports the symbol.
SettledAt(y) == y = NULL \/ (y \in allocated /\ y # Main /\ ~Parsing(y))

TargetsInv ==
  \A x \in Image : bound[x] > 0 => \A s \in Contents(x).imports :
    /\ SettledAt(target[x][s])
    /\ s \in LinkerExports => target[x][s] = Dylinker

BindInv == ReExportsInv /\ RebaseInv /\ TargetsInv

LEMMA ContentsType ==
  ASSUME LinkerTypeOK, FilesInv, NEW x \in allocated
  PROVE  Contents(x) \in File
<1>1. CASE x = Dylinker
  BY <1>1, LinkerAssumption DEF Contents, LinkerFile, File
<1>2. CASE x # Dylinker /\ x = Main
  BY <1>2 DEF Contents, LinkerTypeOK
<1>3. CASE x # Dylinker /\ x # Main
  <2>1. disk.lib[fOrigFilePath[x]] \in File
    BY <1>3 DEF LinkerTypeOK, FilesInv
  <2> QED
    BY <1>3, <2>1 DEF Contents
<1> QED
  BY <1>1, <1>2, <1>3

LEMMA ReExportsStep ==
  ASSUME ReExportsInv, ReExportsGrow, allocated \subseteq allocated',
         allocated \in SUBSET Image
  PROVE  ReExportsInv'
<1>1. CASE fReExports' = fReExports
  BY <1>1 DEF ReExportsInv
<1>2. ASSUME NEW x \in Image, NEW dep \in allocated \ {Main},
             fReExports' = [fReExports EXCEPT ![x] = Append(@, dep)]
      PROVE  ReExportsInv'
  <2>1. PICK r : r = Append(fReExports[x], dep)
    OBVIOUS
  <2>2. /\ fReExports[x] \in Seq(Image) /\ dep \in Image
        /\ fReExports \in [Image -> Seq(Image)]
    BY DEF ReExportsInv
  <2>3. /\ r \in Seq(Image) /\ Len(r) = Len(fReExports[x]) + 1
        /\ r[Len(fReExports[x]) + 1] = dep /\ Len(fReExports[x]) \in Nat
        /\ \A i \in 1..Len(fReExports[x]) : r[i] = fReExports[x][i]
    BY <2>1, <2>2
  <2>4. \A i \in 1..Len(r) : i \in 1..Len(fReExports[x]) \/ i = Len(fReExports[x]) + 1
    BY <2>3
  <2>5. \A i \in 1..Len(r) : r[i] \in allocated \ {Main}
    BY <2>3, <2>4 DEF ReExportsInv
  <2>6. fReExports' = [fReExports EXCEPT ![x] = r]
    BY <1>2, <2>1
  <2>7. /\ fReExports' \in [Image -> Seq(Image)] /\ fReExports'[x] = r
        /\ \A z \in Image : z # x => fReExports'[z] = fReExports[z]
    BY <2>2, <2>3, <2>6
  <2>8. ASSUME NEW z \in Image, NEW i \in 1..Len(fReExports'[z])
        PROVE  fReExports'[z][i] \in allocated \ {Main}
    <3>1. CASE z = x
      BY <2>5, <2>7, <3>1
    <3>2. CASE z # x
      BY <2>7, <3>2 DEF ReExportsInv
    <3> QED
      BY <3>1, <3>2
  <2> QED
    BY <2>7, <2>8 DEF ReExportsInv
<1> QED
  BY <1>1, <1>2 DEF ReExportsGrow

LEMMA RebaseStep ==
  ASSUME LInv, LInv', ImagesGrow, RebaseInv
  PROVE  RebaseInv'
<1> SUFFICES ASSUME NEW x \in allocated' \ {Dylinker, Main}, ~Parsing(x)'
             PROVE  rebased'[x] = 1
  BY DEF RebaseInv
<1>1. x \in Image /\ rebased'[x] \in Nat /\ rebased'[x] <= 1
  BY DEF LInv, LinkerTypeOK, AtMostOnce
<1>2. x \in allocated
  BY DEF ImagesGrow
<1>3. Parsing(x) \/ rebased[x] = 1
  BY <1>2 DEF RebaseInv
<1>4. rebased'[x] = 1 \/ rebased'[x] >= 1
  BY <1>1, <1>3 DEF ImagesGrow
<1> QED
  BY <1>1, <1>4

\* A symbol that is resolved is resolved to an image of the chain or to one
\* that an image of the chain re-exports, however indirectly.
LEMMA ResolveSettled ==
  ASSUME LInv, ReExportsInv, NEW s
  PROVE  resolve(s) \in (allocated \ {Main}) \cup {NULL, Diverges}
<1>1. PICK G : G = allocated \ {Main}
  OBVIOUS
<1>2. G \in SUBSET Image /\ chain \in Seq(Image)
  BY <1>1 DEF LInv, LinkerTypeOK
<1>3. \A i \in 1..Len(chain) : chain[i] \in G
  BY <1>1 DEF LInv, ChainInv
<1>4. \A x \in G : /\ Len(fReExports[x]) \in Nat
                   /\ \A i \in 1..Len(fReExports[x]) : fReExports[x][i] \in G
  BY <1>1, <1>2 DEF ReExportsInv
<1>5. resolve(s) \in G \cup {NULL, Diverges}
  BY <1>2, <1>3, <1>4, ResolveClosed
<1> QED
  BY <1>1, <1>5

\* An image that has been bound before stays bound to what it was bound to.
LEMMA TargetKept ==
  ASSUME LInv, LInv', ImagesGrow, TargetsInv,
         NEW x \in Image, bound[x] > 0, target'[x] = target[x],
         NEW s \in (Contents(x).imports)'
  PROVE  /\ SettledAt(target[x][s])'
         /\ s \in LinkerExports => target'[x][s] = Dylinker
<1>1. x \in allocated
  BY DEF LInv, FilesInv
<1>2. Contents(x)' = Contents(x)
  BY <1>1 DEF Contents, ImagesGrow
<1>3. PICK y : y = target[x][s]
  OBVIOUS
<1>4. SettledAt(y) /\ (s \in LinkerExports => y = Dylinker)
  BY <1>2, <1>3 DEF TargetsInv
<1>5. y \in allocated => y \in Image /\ y \in allocated' /\ (Parsing(y)' => Parsing(y))
  BY DEF ImagesGrow, LInv, LinkerTypeOK
<1>6. y = NULL \/ (y \in allocated' /\ y # Main /\ ~Parsing(y)')
  BY <1>4, <1>5 DEF SettledAt
<1>7. target'[x][s] = y
  BY <1>3
<1>8. target[x][s]' = y
  BY <1>3
<1> QED
  BY <1>4, <1>6, <1>7, <1>8 DEF SettledAt

\* doBindSymbols binds to what resolve finds.
LEMMA TargetBound ==
  ASSUME LInv, LInv', ImagesGrow, ReExportsInv,
         NEW X \in SUBSET Image, Binding(X), NEW x \in X,
         NEW s \in (Contents(x).imports)'
  PROVE  /\ SettledAt(target[x][s])'
         /\ s \in LinkerExports => target'[x][s] = Dylinker
<1>1. x \in allocated /\ x \in Image
  BY DEF Binding
<1>2. Contents(x)' = Contents(x)
  BY <1>1 DEF Contents, ImagesGrow
<1>3. s \in Contents(x).imports /\ s \in Symbol
  <2>1. Contents(x) \in File
    BY <1>1, ContentsType DEF LInv
  <2> QED
    BY <1>2, <2>1 DEF File
<1>4. resolve(s) # Diverges /\ target'[x][s] = resolve(s)
  <2>1. PICK imports, found :
          /\ imports = {u \in X \X Symbol : u[2] \in Contents(u[1]).imports}
          /\ found = [r \in Symbol |-> resolve(r)]
    OBVIOUS
  <2>2. /\ \A u \in imports : found[u[2]] # Diverges
        /\ target' = [z \in Image |-> IF z \in X THEN found ELSE target[z]]
    BY <2>1 DEF Binding, doBindSymbols
  <2>3. <<x, s>> \in imports
    BY <1>3, <2>1
  <2>4. found[s] # Diverges
    BY <2>2, <2>3
  <2> QED
    BY <1>1, <1>3, <2>1, <2>2, <2>4
<1>5. resolve(s) = NULL \/ resolve(s) \in allocated \ {Main}
  BY <1>4, ResolveSettled
<1>6. ASSUME resolve(s) \in allocated \ {Main}
      PROVE  /\ resolve(s) \in allocated' /\ resolve(s) # Main
             /\ ~ParsesIn(stack', resolve(s))
  <2>1. PICK y : y = resolve(s)
    OBVIOUS
  <2>2. y \in allocated /\ y \in Image /\ y # Main
    BY <1>6, <2>1 DEF LInv, LinkerTypeOK
  <2>3. y \in allocated' /\ ~Parsing(y)'
    BY <2>2 DEF ImagesGrow, Binding
  <2> QED
    BY <2>1, <2>2, <2>3, ParsingStack
<1>7. s \in LinkerExports => resolve(s) = Dylinker
  BY ResolveFirst DEF LInv, LinkerTypeOK, ChainInv, Binding
<1>8. PICK y : y = resolve(s)
  OBVIOUS
<1>9. y = NULL \/ (y \in allocated' /\ y # Main /\ ~ParsesIn(stack', y))
  BY <1>5, <1>6, <1>8
<1>10. target[x][s]' = y
  BY <1>4, <1>8
<1>11. SettledAt(target[x][s])'
  BY <1>9, <1>10 DEF SettledAt, Parsing, ParsesIn
<1> QED
  BY <1>4, <1>7, <1>11

LEMMA TargetsStep ==
  ASSUME LInv, LInv', ImagesGrow, BindingsGrow, ReExportsInv, TargetsInv
  PROVE  TargetsInv'
<1> SUFFICES ASSUME NEW x \in Image, bound'[x] > 0,
                    NEW s \in (Contents(x).imports)'
             PROVE  /\ SettledAt(target[x][s])'
                    /\ s \in LinkerExports => target'[x][s] = Dylinker
  BY DEF TargetsInv
<1>1. CASE UNCHANGED <<bound, target>>
  BY <1>1, TargetKept
<1>2. ASSUME NEW X \in SUBSET Image, Binding(X)
      PROVE  /\ SettledAt(target[x][s])'
             /\ s \in LinkerExports => target'[x][s] = Dylinker
  <2>1. CASE x \in X
    BY <1>2, <2>1, TargetBound
  <2>2. CASE x \notin X
    <3>1. bound'[x] = bound[x] /\ target'[x] = target[x]
      BY <1>2, <2>2 DEF Binding, doBindSymbols
    <3> QED
      BY <3>1, TargetKept
  <2> QED
    BY <2>1, <2>2
<1> QED
  BY <1>1, <1>2 DEF BindingsGrow

LEMMA BindStep == LInv /\ AuxInv /\ BindInv /\ [Next]_vars => BindInv'
<1> SUFFICES ASSUME LInv, AuxInv, BindInv, [Next]_vars PROVE BindInv'
  OBVIOUS
<1>1. LInv'
  BY LinkerStep
<1>2. ImagesGrow /\ ReExportsGrow /\ BindingsGrow
  BY NextGrows DEF Grows
<1>3. allocated \subseteq allocated' /\ allocated \in SUBSET Image
  BY <1>2 DEF ImagesGrow, LInv, LinkerTypeOK
<1>4. ReExportsInv'
  BY <1>2, <1>3, ReExportsStep DEF BindInv
<1>5. RebaseInv'
  BY <1>1, <1>2, RebaseStep DEF BindInv
<1>6. TargetsInv'
  BY <1>1, <1>2, TargetsStep DEF BindInv
<1> QED
  BY <1>4, <1>5, <1>6 DEF BindInv

LEMMA BindAlways == Spec => [](LInv /\ BindInv)
<1>1. Init => LInv /\ AuxInv
  BY LinkerInit
<1>2. Init => BindInv
  BY DEF Init, BindInv, ReExportsInv, RebaseInv, TargetsInv
<1>3. LInv /\ AuxInv /\ BindInv /\ [Next]_vars => (LInv /\ AuxInv /\ BindInv)'
  BY LinkerStep, AuxStep, BindStep
<1> QED
  BY <1>1, <1>2, <1>3, PTL DEF Spec

\* lnk::resolve (core/lnk.cpp) asks the first image of the chain first, and
\* insertAfterFirst keeps the linker there: every import of a symbol the
\* linker exports is bound to the linker, whatever libraries export the name
\* too and whenever they are loaded.
THEOREM LinkerSymbolsWin == Spec => []LibSystemWins
<1>1. BindInv => LibSystemWins
  BY DEF BindInv, TargetsInv, LibSystemWins
<1> QED
  BY <1>1, BindAlways, PTL

\* doBindSymbols (core/lnk_macho.cpp) runs when no library is being parsed,
\* and what it binds to, through any number of re-exports, is an image that
\* has been parsed and rebased and stays so.
THEOREM SymbolsComeLoaded == Spec => []BoundToLoaded
<1>1. LInv /\ BindInv => BoundToLoaded
  <2> SUFFICES ASSUME LInv, BindInv, NEW x \in Image, bound[x] > 0,
                      NEW y \in {x} \cup {target[x][s] : s \in Contents(x).imports},
                      y # NULL
               PROVE  /\ y \in allocated /\ ~Parsing(y)
                      /\ y \in InChain \ {Dylinker} => rebased[y] = 1
    BY DEF BoundToLoaded
  <2>1. y \in allocated /\ ~Parsing(y)
    <3>1. CASE y = x
      <4>1. x \in allocated
        BY DEF LInv, FilesInv
      <4>2. ~Parsing(x)
        BY DEF LInv, ParseInv, ParseAt, Parsing
      <4> QED
        BY <3>1, <4>1, <4>2
    <3>2. CASE y # x
      BY <3>2 DEF BindInv, TargetsInv, SettledAt
    <3> QED
      BY <3>1, <3>2
  <2>2. y \in InChain => y # Main
    BY DEF InChain, LInv, ChainInv
  <2>3. y \in InChain \ {Dylinker} => rebased[y] = 1
    BY <2>1, <2>2 DEF BindInv, RebaseInv
  <2> QED
    BY <2>1, <2>3
<1> QED
  BY <1>1, BindAlways, PTL

---------------------------------------------------------------------------
(* Types. *)

PcOK == pc \in {"start", "aux", "main", "cas", "bind", "bindMain", "init",
                "initMain", "run", "crashed"}

BoundOK ==
  /\ target \in [Image -> [Symbol -> Image \cup {NULL, Diverges}]]
  /\ sUnresolvedCount \in Nat

TypeInv == InitTypeOK /\ PcOK /\ BoundOK

LEMMA FirstImageType ==
  ASSUME chain \in Seq(Image)
  PROVE  firstImage \in Image \cup {NULL}
BY DEF firstImage

LEMMA NextImageType ==
  ASSUME LInv, NEW x \in Image, x = im
  PROVE  nextImage(x) \in Image \cup {NULL}
<1>1. x \in allocated /\ x # Main
  BY ImageAssumption DEF LInv, WalkInv
<1>2. nextImage(x) = NULL \/ nextImage(x) \in allocated
  BY <1>1, NextInChain DEF LInv
<1> QED
  BY <1>2 DEF LInv, LinkerTypeOK

\* The walk of initializeChain.
LEMMA WalkTypes ==
  ASSUME LInv, InitTypeOK, Initialize,
         EndDResolv \/ EndCircular => im # NULL
  PROVE  InitTypeOK'
<1>1. /\ fDependencies \in [Image -> Seq(Image)] /\ chain \in Seq(Image)
      /\ sImageCount \in Int
  BY DEF LInv, LinkerTypeOK, ChainInv
<1>2. firstImage \in Image \cup {NULL}
  BY <1>1, FirstImageType
<1>3. im # NULL => nextImage(im) \in Image \cup {NULL}
  BY NextImageType DEF InitTypeOK
<1>4. ASSUME Postpone PROVE InitTypeOK'
  <2>1. im \in Image
    BY <1>4 DEF Postpone, InitTypeOK
  <2>2. PICK circ : circ = CircularDependencies(im)
    OBVIOUS
  <2>3. Len(fDependencies[im]) \in Nat
    BY <1>1, <2>1
  <2>4. circ \subseteq 1..Len(fDependencies[im])
    BY <2>2 DEF CircularDependencies
  <2>5. IsFiniteSet(1..Len(fDependencies[im]))
    BY <2>3, FS_Interval
  <2>6. Cardinality(circ) \in Nat
    BY <2>4, <2>5, FS_Subset, FS_CardinalityType
  <2>7. Cardinality(Image) \in Nat
    BY ImageAssumption, FS_CardinalityType
  <2>8. ccount + Cardinality(circ) \in Int /\ CountCap \in Int
    BY <2>6, <2>7 DEF InitTypeOK, CountCap
  <2>9. ccount' \in Int
    BY <1>4, <2>2, <2>8 DEF Postpone, Count
  <2>10. /\ runCircularInitializer' = (runCircularInitializer \/ circ # {})
         /\ hasUnitializedDependencies' = (hasUnitializedDependencies \/ circ = {})
    BY <1>4, <2>2 DEF Postpone
  <2>11. runCircularInitializer' \in BOOLEAN /\ hasUnitializedDependencies' \in BOOLEAN
    BY <2>10
  <2>12. UNCHANGED <<ipc, icount>> /\ im' = nextImage(im) /\ im # NULL
    BY <1>4 DEF Postpone
  <2> QED
    BY <1>3, <2>9, <2>11, <2>12 DEF InitTypeOK
<1>5. ASSUME EndDResolv \/ EndCircular PROVE InitTypeOK'
  BY <1>3, <1>5 DEF EndDResolv, EndCircular, InitTypeOK, ControlPoint
<1>6. ASSUME Call \/ EndOfWalk \/ GotoCircInit PROVE InitTypeOK'
  <2>1. CASE Call
    <3>1. /\ ipc' = "run_init" /\ im' = firstImage
          /\ hasUnitializedDependencies' = FALSE /\ runCircularInitializer' \in BOOLEAN
          /\ ccount' = 0 /\ icount' = sImageCount
      BY <2>1 DEF Call
    <3>2. ccount' \in Int /\ icount' \in Int
      BY <1>1, <3>1
    <3>3. hasUnitializedDependencies' \in BOOLEAN
      BY <3>1
    <3>4. ipc' \in ControlPoint /\ im' \in Image \cup {NULL}
      BY <1>2, <3>1 DEF ControlPoint
    <3> QED
      BY <3>1, <3>2, <3>3, <3>4 DEF InitTypeOK
  <2>2. CASE EndOfWalk
    <3>1. /\ ipc' \in {"run_init", "circ_init"} /\ im' = firstImage
          /\ hasUnitializedDependencies' = FALSE
          /\ UNCHANGED <<runCircularInitializer, ccount, icount>>
      BY <2>2 DEF EndOfWalk
    <3>2. hasUnitializedDependencies' \in BOOLEAN
      BY <3>1
    <3> QED
      BY <1>2, <3>1, <3>2 DEF InitTypeOK, ControlPoint
  <2>3. CASE GotoCircInit
    BY <1>2, <2>3 DEF GotoCircInit, InitTypeOK, ControlPoint
  <2> QED
    BY <1>6, <2>1, <2>2, <2>3
<1>7. ASSUME SkipInitialized \/ SkipCircular PROVE InitTypeOK'
  BY <1>3, <1>7 DEF SkipInitialized, SkipCircular, InitTypeOK, ControlPoint
<1>8. ASSUME StartDResolv \/ StartCircular \/ Return PROVE InitTypeOK'
  BY <1>8 DEF StartDResolv, StartCircular, Return, InitTypeOK, ControlPoint
<1> QED
  BY <1>4, <1>5, <1>6, <1>7, <1>8 DEF Initialize

LEMMA BindTypes ==
  ASSUME LInv, ReExportsInv, BoundOK, NEW X \in SUBSET Image, doBindSymbols(X)
  PROVE  BoundOK'
<1>1. PICK imports, found, unresolved :
        /\ imports = {u \in X \X Symbol : u[2] \in Contents(u[1]).imports}
        /\ found = [s \in Symbol |-> resolve(s)]
        /\ unresolved = {u \in imports : found[u[2]] = NULL}
  OBVIOUS
<1>2. /\ target' = [x \in Image |-> IF x \in X THEN found ELSE target[x]]
      /\ sUnresolvedCount' = sUnresolvedCount + Cardinality(unresolved)
  BY <1>1 DEF doBindSymbols
<1>3. \A s \in Symbol : resolve(s) \in Image \cup {NULL, Diverges}
  BY ResolveSettled DEF LInv, LinkerTypeOK
<1>4. found \in [Symbol -> Image \cup {NULL, Diverges}]
  BY <1>1, <1>3
<1>5. target' \in [Image -> [Symbol -> Image \cup {NULL, Diverges}]]
  BY <1>2, <1>4 DEF BoundOK
<1>6. IsFiniteSet(X) /\ IsFiniteSet(Symbol)
  BY ImageAssumption, LinkerAssumption, FS_Subset
<1>7. IsFiniteSet(X \X Symbol)
  BY <1>6, FS_Product
<1>8. unresolved \subseteq X \X Symbol
  BY <1>1
<1>9. Cardinality(unresolved) \in Nat
  BY <1>7, <1>8, FS_Subset, FS_CardinalityType
<1>10. sUnresolvedCount' \in Nat
  BY <1>2, <1>9 DEF BoundOK
<1> QED
  BY <1>5, <1>10 DEF BoundOK

LEMMA TypeStep == LInv /\ BindInv /\ TypeInv /\ [Next]_vars => TypeInv'
<1> SUFFICES ASSUME LInv, BindInv, TypeInv, [Next]_vars PROVE TypeInv'
  OBVIOUS
<1>1. PcOK'
  BY DEF TypeInv, PcOK, Next, Step, Load, Boot, InitializeImages, Open, vars, untouched,
         ParsePresent, ParseLoad, ReturnToParse, ReturnToDlopen, ReturnToMain,
         SetUpDylinker, LoadAuxiliary, SetUpMain, MainLoaded, LoadCas, bindChain,
         BindMain, WalkChain, StartInitializers, EndInitializers, InitializeMain,
         CallMain, OpenFromInitializer, Bootstrap, EndBootstrap, Overflow,
         OpenFromProgram, Crashed
<1>2. InitTypeOK'
  <2>1. Initialize \/ UNCHANGED initVars
    BY DEF Next, Step, Load, Boot, InitializeImages, Open, vars, Initialize,
         ParsePresent, ParseLoad, ReturnToParse, ReturnToDlopen, ReturnToMain,
         SetUpDylinker, LoadAuxiliary, SetUpMain, MainLoaded, LoadCas, bindChain,
         BindMain, WalkChain, StartInitializers, EndInitializers, InitializeMain,
         CallMain, OpenFromInitializer, Bootstrap, EndBootstrap, Overflow,
         OpenFromProgram, Crashed
  <2>2. CASE Initialize
    <3>1. ASSUME EndDResolv \/ EndCircular, ~(UNCHANGED initVars) PROVE im # NULL
      <4>1. EndInitializers
        BY <3>1 DEF Next, Step, Load, Boot, InitializeImages, Open, vars, initVars,
         ParsePresent, ParseLoad, ReturnToParse, ReturnToDlopen, ReturnToMain,
         SetUpDylinker, LoadAuxiliary, SetUpMain, MainLoaded, LoadCas, bindChain,
         BindMain, WalkChain, StartInitializers, InitializeMain, Return, Call,
         SkipInitialized, GotoCircInit, Postpone, EndOfWalk, SkipCircular,
         StartDResolv, StartCircular, EndDResolv, EndCircular,
         CallMain, OpenFromInitializer, Bootstrap, EndBootstrap, Overflow,
         OpenFromProgram, Crashed
      <4> QED
        BY <4>1 DEF EndInitializers, LInv, StackInv
    <3>2. CASE UNCHANGED initVars
      BY <3>2 DEF TypeInv, InitTypeOK, initVars
    <3>3. CASE ~(UNCHANGED initVars)
      BY <2>2, <3>1, <3>3, WalkTypes DEF TypeInv
    <3> QED
      BY <3>2, <3>3
  <2>3. CASE UNCHANGED initVars
    BY <2>3 DEF TypeInv, InitTypeOK, initVars
  <2> QED
    BY <2>1, <2>2, <2>3
<1>3. BoundOK'
  <2>1. CASE bindChain \/ BindMain \/ Bootstrap
    <3>1. PICK X \in SUBSET Image : doBindSymbols(X)
      <4>1. CASE bindChain
        <5>1. InChain \in SUBSET Image
          BY DEF InChain, LInv, LinkerTypeOK
        <5> QED
          BY <4>1, <5>1 DEF bindChain
      <4>2. CASE BindMain
        BY <4>2, LinkerAssumption DEF BindMain
      <4>3. CASE Bootstrap
        <5>1. Len(stack) \in 1..Len(stack) /\ Top = stack[Len(stack)] /\ Top.im # NULL
          BY <4>3, TopOfStack DEF Bootstrap, Calling, LInv
        <5>2. Top.im \in Image
          BY <5>1, FrameType DEF LInv
        <5> QED
          BY <4>3, <5>2 DEF Bootstrap
      <4> QED
        BY <2>1, <4>1, <4>2, <4>3
    <3> QED
      BY <3>1, BindTypes DEF TypeInv, BindInv
  <2>2. CASE ~(bindChain \/ BindMain \/ Bootstrap)
    <3>1. UNCHANGED <<target, sUnresolvedCount>>
      BY <2>2 DEF Next, Step, Load, Boot, InitializeImages, Open, vars, objVars,
         untouched, LoadFile, dlopen, ParsePresent, ParseLoad, ReturnToParse,
         ReturnToDlopen, ReturnToMain, SetUpDylinker, LoadAuxiliary, SetUpMain,
         MainLoaded, LoadCas, WalkChain, StartInitializers, EndInitializers,
         InitializeMain, CallMain, OpenFromInitializer, EndBootstrap, Overflow,
         OpenFromProgram, Crashed
    <3> QED
      BY <3>1 DEF TypeInv, BoundOK
  <2> QED
    BY <2>1, <2>2
<1> QED
  BY <1>1, <1>2, <1>3 DEF TypeInv

\* Every variable of the linker keeps its type: a dependency, a re-export or
\* a target is always an image the process has allocated an object for.
THEOREM LinkerTypes == Spec => []TypeOK
<1>1. Init => LInv /\ AuxInv
  BY LinkerInit
<1>2. Init => BindInv
  BY DEF Init, BindInv, ReExportsInv, RebaseInv, TargetsInv
<1>3. Init => TypeInv
  <2>1. Init => InitTypeOK /\ PcOK
    <3> SUFFICES ASSUME Init PROVE InitTypeOK /\ PcOK
      OBVIOUS
    <3>1. /\ pc = "start" /\ ipc = "idle" /\ im = NULL /\ ccount = 0 /\ icount = 0
          /\ hasUnitializedDependencies = FALSE /\ runCircularInitializer = FALSE
      BY DEF Init
    <3>2. ccount \in Int /\ icount \in Int
      BY <3>1
    <3>3. hasUnitializedDependencies \in BOOLEAN /\ runCircularInitializer \in BOOLEAN
      BY <3>1
    <3>4. PcOK
      BY <3>1 DEF PcOK
    <3>5. ipc \in ControlPoint /\ im \in Image \cup {NULL}
      BY <3>1 DEF ControlPoint
    <3> QED
      BY <3>2, <3>3, <3>4, <3>5 DEF InitTypeOK
  <2>2. Init => BoundOK
    BY DEF Init, BoundOK
  <2> QED
    BY <2>1, <2>2 DEF TypeInv
<1>4. LInv /\ AuxInv /\ BindInv /\ TypeInv /\ [Next]_vars
        => (LInv /\ AuxInv /\ BindInv /\ TypeInv)'
  BY LinkerStep, AuxStep, BindStep, TypeStep
<1>5. LInv /\ AuxInv /\ BindInv /\ TypeInv => TypeOK
  BY DEF LInv, LinkerTypeOK, ChainInv, AuxInv, BindInv, ReExportsInv, TypeInv,
         PcOK, BoundOK, TypeOK, ChainTypeOK
<1> QED
  BY <1>1, <1>2, <1>3, <1>4, <1>5, PTL DEF Spec
=============================================================================
