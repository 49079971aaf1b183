------------------------------ MODULE Linker ------------------------------
(***************************************************************************)
(* The dynamic linker from its entry point lnk::_main to the program it    *)
(* starts, and dlopen from then on (core/lnk.cpp, core/lnk_macho.cpp,      *)
(* core/lnk_cas.cpp, core/lnk_api.cpp).                                    *)
(*                                                                         *)
(* The linker is sequential, but loading a library loads its dependencies  *)
(* and an initializer may call dlopen: loadLibraryEx, doInitialize and     *)
(* dlopen nest.  `stack' holds their activations, the innermost last:      *)
(*   parse       parseLoadCommands of im has come to load command k        *)
(*   dlopen      dlopen has loaded im (NULL: still loading)                *)
(*   initialize  doInitialize of im has come to its initializers' k-th     *)
(*               call of dlopen                                            *)
(* Under the stack is _main, whose control point is `pc'; initializeChain  *)
(* is module InitializeChain.                                              *)
(*                                                                         *)
(* A Mach-O file is what the chain can tell of it: the libraries its load  *)
(* commands name, the symbols it exports and imports and the dlopen calls  *)
(* its initializers make.  `disk' is the file system; it does not change.  *)
(***************************************************************************)
EXTENDS InitializeChain

CONSTANTS Path,          \* install names of libraries
          LibSystem,     \* LIBSYSTEM_PATH and LIBGCC_PATH
          Symbol,
          Dylinker,      \* sDylinker
          Main,          \* sMainExecutable
          LinkerExports, \* the symbols of libSystem, which is the linker
          AuxPaths,      \* the libraries of loadAuxiliarySystemLibraries
          CasPath,       \* the library cas::init loads
          Disks,         \* the file systems and main executables considered
          Diverges       \* the outcome of a search that does not return

File == [cmds    : Seq([path : Path \cup {LibSystem}, reexport : BOOLEAN]),
         opens   : Seq(Path \cup {LibSystem}),
         exports : SUBSET Symbol,
         imports : SUBSET Symbol]

ASSUME LinkerAssumption ==
  /\ Dylinker \in Image /\ Main \in Image /\ Dylinker # Main
  /\ LibSystem \notin Path /\ NULL \notin Path \cup {LibSystem}
  /\ Diverges \notin Image \cup {NULL}
  /\ LinkerExports \subseteq Symbol /\ IsFiniteSet(Symbol)
  /\ AuxPaths \in Seq(Path) /\ CasPath \in Path
  /\ \A d \in Disks : d.main \in File /\ d.lib \in [Path -> File \cup {NULL}]

VARIABLES disk, pc, stack, allocated, fOrigFilePath, fReExports,
          rebased, bound, target, initRuns, sUnresolvedCount, sAuxLibs

\* State of the image objects that only this module looks at.
objVars == <<allocated, fOrigFilePath, fReExports, rebased, bound, target,
             initRuns, sUnresolvedCount>>

vars == <<chainVars, initVars, objVars, disk, pc, stack, sAuxLibs>>

LinkerFile == [cmds |-> <<>>, opens |-> <<>>, exports |-> LinkerExports,
               imports |-> {}]

\* The file an image was made from.
Contents(x) == IF x = Dylinker THEN LinkerFile
               ELSE IF x = Main THEN disk.main
               ELSE disk.lib[fOrigFilePath[x]]

---------------------------------------------------------------------------
(* Symbol resolution. *)

Least(S) == CHOOSE i \in S : \A j \in S : i <= j

\* MachObject::findExportedSymbol of symbol s: the image's own exports, then
\* those of the libraries it re-exports, depth first.  A search nested deeper
\* than there are images is inside itself and does not return.
findExportedSymbol(s) ==
  LET find[n \in 0..Cardinality(Image)] ==
        [x \in Image |->
           IF s \in Contents(x).exports THEN x
           ELSE IF n = 0 THEN Diverges
           ELSE LET hits == {i \in 1..Len(fReExports[x]) :
                               find[n - 1][fReExports[x][i]] # NULL}
                IN  IF hits = {} THEN NULL
                    ELSE find[n - 1][fReExports[x][Least(hits)]]]
  IN  find[Cardinality(Image)]

\* Mutant: the first image, the linker, is searched last.
resolveLinkerLast(s) ==
  LET found == findExportedSymbol(s)
      hits  == {i \in 2..Len(chain) : found[chain[i]] # NULL}
  IN  IF hits = {} THEN found[firstImage] ELSE found[chain[Least(hits)]]

\* lnk::resolve: the first image of the chain that finds s, whatever library
\* the ordinal asked for.  NULL: unresolved.
resolve(s) ==
  LET found == findExportedSymbol(s)
      hits  == {i \in 1..Len(chain) : found[chain[i]] # NULL}
  IN  IF hits = {} THEN NULL ELSE found[chain[Least(hits)]]

\* Mutant: the target of a search that overflowed the stack is used.
doBindSymbolsUnguarded(X) ==
  LET imports == {u \in X \X Symbol : u[2] \in Contents(u[1]).imports}
      found   == [s \in Symbol |-> resolve(s)]
  IN  /\ bound' = [x \in Image |-> IF x \in X THEN bound[x] + 1 ELSE bound[x]]
      /\ target' = [x \in Image |-> IF x \in X THEN found ELSE target[x]]
      /\ sUnresolvedCount' = sUnresolvedCount
           + Cardinality({u \in imports : found[u[2]] = NULL})

\* doBindSymbols of the images X, one after the other: every import is
\* resolved; one that cannot be is bound to the count of those so far.
doBindSymbols(X) ==
  LET imports == {u \in X \X Symbol : u[2] \in Contents(u[1]).imports}
      found   == [s \in Symbol |-> resolve(s)]
  IN  /\ \A u \in imports : found[u[2]] # Diverges
      /\ bound' = [x \in Image |-> IF x \in X THEN bound[x] + 1 ELSE bound[x]]
      /\ target' = [x \in Image |-> IF x \in X THEN found ELSE target[x]]
      /\ sUnresolvedCount' = sUnresolvedCount
           + Cardinality({u \in imports : found[u[2]] = NULL})

\* A search that never returns overflows the stack of the process.
BindOverflows(X) ==
  \E x \in X : \E s \in Contents(x).imports : resolve(s) = Diverges

---------------------------------------------------------------------------
(* Loading. *)

Activation(fn, x, k) == [fn |-> fn, im |-> x, k |-> k]
Top == stack[Len(stack)]
Below == SubSeq(stack, 1, Len(stack) - 1)
Calling(fn) == Len(stack) > 0 /\ Top.fn = fn
Advance(st) == [st EXCEPT ![Len(st)].k = @ + 1]

Commands(x) == Contents(x).cmds
Opens(x) == Contents(x).opens

\* Mutants: a missing file is replaced by the main executable; the chain is
\* not searched for the path.
PresentAsMain(path) ==
  LET same == {i \in 1..Len(chain) : fOrigFilePath[chain[i]] = path}
  IN  IF path = LibSystem THEN firstImage
      ELSE IF same # {} THEN chain[Least(same)]
      ELSE IF disk.lib[path] = NULL THEN Main
      ELSE NULL

PresentUnsearched(path) ==
  IF path = LibSystem THEN firstImage
  ELSE IF disk.lib[path] = NULL THEN Dylinker
  ELSE NULL

\* The image loadLibraryEx(path) returns without loading one, NULL if it has
\* to: libSystem is the first image; an image loaded from path is found in
\* the chain; a file that opens under no prefix is replaced by the linker.
Present(path) ==
  LET same == {i \in 1..Len(chain) : fOrigFilePath[chain[i]] = path}
  IN  IF path = LibSystem THEN firstImage
      ELSE IF same # {} THEN chain[Least(same)]
      ELSE IF disk.lib[path] = NULL THEN Dylinker
      ELSE NULL

\* `new MachObject()': an object not in use, and not one of the two that are
\* made from memory.
Free == Image \ (allocated \cup {Dylinker, Main})
Fresh == CHOOSE x \in Image : x \in Free

\* The rest of loadLibraryEx up to lib->init(), called with `st' as stack.
LoadFile(path, st) ==
  /\ Free # {}
  /\ allocated' = allocated \cup {Fresh}
  /\ fOrigFilePath' = [fOrigFilePath EXCEPT ![Fresh] = path]
  /\ chain' = insertAfterFirst(Fresh)
  /\ sImageCount' = sImageCount + 1
  /\ stack' = Append(st, Activation("parse", Fresh, 1))
  /\ UNCHANGED <<fDependencies, fHasInitialized, fReExports, rebased, bound,
                 target, initRuns, sUnresolvedCount>>

\* Mutant: a library that is the linker itself is no dependency.
AddDependencySkippingLinker(x, dep, reexport) ==
  /\ fDependencies' = IF dep = Dylinker THEN fDependencies
                      ELSE [fDependencies EXCEPT ![x] = Append(@, dep)]
  /\ fReExports' = IF reexport
                   THEN [fReExports EXCEPT ![x] = Append(@, dep)]
                   ELSE fReExports

\* LC_LOAD_DYLIB and its kin: the library loaded becomes the next dependency
\* of x, and with LC_REEXPORT_DYLIB its next re-export too.
AddDependency(x, dep, reexport) ==
  /\ fDependencies' = [fDependencies EXCEPT ![x] = Append(@, dep)]
  /\ fReExports' = IF reexport
                   THEN [fReExports EXCEPT ![x] = Append(@, dep)]
                   ELSE fReExports

\* The next load command names a library that is there already ...
ParsePresent ==
  /\ Calling("parse") /\ Top.k <= Len(Commands(Top.im))
  /\ LET cmd == Commands(Top.im)[Top.k] IN
       /\ Present(cmd.path) # NULL
       /\ AddDependency(Top.im, Present(cmd.path), cmd.reexport)
  /\ stack' = Advance(stack)
  /\ UNCHANGED <<chain, fHasInitialized, sImageCount, initVars, allocated,
                 fOrigFilePath, rebased, bound, target, initRuns,
                 sUnresolvedCount, disk, pc, sAuxLibs>>

\* ... or one that has to be loaded first.
ParseLoad ==
  /\ Calling("parse") /\ Top.k <= Len(Commands(Top.im))
  /\ LET cmd == Commands(Top.im)[Top.k] IN
       /\ Present(cmd.path) = NULL
       /\ LoadFile(cmd.path, stack)
  /\ UNCHANGED <<initVars, disk, pc, sAuxLibs>>

\* The end of parseLoadCommands in loadLibraryEx, doRebase and the return.
Loaded == Calling("parse") /\ Top.im # Main /\ Top.k > Len(Commands(Top.im))

doRebase == rebased' = [rebased EXCEPT ![Top.im] = @ + 1]

ReturnToParse ==
  /\ Loaded /\ Len(stack) > 1
  /\ LET caller == stack[Len(stack) - 1] IN
       /\ caller.fn = "parse"
       /\ AddDependency(caller.im, Top.im,
                        Commands(caller.im)[caller.k].reexport)
  /\ doRebase
  /\ stack' = Advance(Below)
  /\ UNCHANGED <<chain, fHasInitialized, sImageCount, initVars, allocated,
                 fOrigFilePath, bound, target, initRuns, sUnresolvedCount,
                 disk, pc, sAuxLibs>>

ReturnToDlopen ==
  /\ Loaded /\ Len(stack) > 1 /\ stack[Len(stack) - 1].fn = "dlopen"
  /\ doRebase
  /\ stack' = [Below EXCEPT ![Len(Below)].im = Top.im]
  /\ UNCHANGED <<chainVars, initVars, allocated, fOrigFilePath, fReExports,
                 bound, target, initRuns, sUnresolvedCount, disk, pc, sAuxLibs>>

ReturnToMain ==
  /\ Loaded /\ Len(stack) = 1
  /\ doRebase
  /\ stack' = <<>>
  /\ sAuxLibs' = IF pc = "aux" THEN Append(sAuxLibs, Top.im) ELSE sAuxLibs
  /\ pc' = IF pc = "cas" THEN "bind" ELSE pc
  /\ UNCHANGED <<chainVars, initVars, allocated, fOrigFilePath, fReExports,
                 bound, target, initRuns, sUnresolvedCount, disk>>

---------------------------------------------------------------------------
(* lnk::_main *)

\* sDylinker is made from the running image, whose load commands name no
\* library; sFirstImage is set.
SetUpDylinker ==
  /\ pc = "start"
  /\ allocated' = allocated \cup {Dylinker}
  /\ chain' = <<Dylinker>>
  /\ sImageCount' = sImageCount + 1
  /\ pc' = "aux"
  /\ UNCHANGED <<fDependencies, fHasInitialized, initVars, fOrigFilePath,
                 fReExports, rebased, bound, target, initRuns,
                 sUnresolvedCount, disk, stack, sAuxLibs>>

LoadAuxiliary ==
  /\ pc = "aux" /\ stack = <<>> /\ Len(sAuxLibs) < Len(AuxPaths)
  /\ LET path == AuxPaths[Len(sAuxLibs) + 1] IN
       \/ /\ Present(path) # NULL
          /\ sAuxLibs' = Append(sAuxLibs, Present(path))
          /\ UNCHANGED <<chainVars, objVars, stack>>
       \/ /\ Present(path) = NULL
          /\ LoadFile(path, stack)
          /\ UNCHANGED sAuxLibs
  /\ UNCHANGED <<initVars, disk, pc>>

\* The main executable is not linked into the chain.
SetUpMain ==
  /\ pc = "aux" /\ stack = <<>> /\ Len(sAuxLibs) = Len(AuxPaths)
  /\ allocated' = allocated \cup {Main}
  /\ stack' = <<Activation("parse", Main, 1)>>
  /\ pc' = "main"
  /\ UNCHANGED <<chainVars, initVars, fOrigFilePath, fReExports, rebased,
                 bound, target, initRuns, sUnresolvedCount, disk, sAuxLibs>>

MainLoaded ==
  /\ pc = "main" /\ Calling("parse") /\ Top.im = Main
  /\ Top.k > Len(Commands(Main))
  /\ stack' = <<>>
  /\ pc' = "cas"
  /\ UNCHANGED <<chainVars, initVars, objVars, disk, sAuxLibs>>

\* cas::get()->init()
LoadCas ==
  /\ pc = "cas" /\ stack = <<>>
  /\ \/ /\ Present(CasPath) # NULL
        /\ pc' = "bind"
        /\ UNCHANGED <<chainVars, objVars, stack>>
     \/ /\ Present(CasPath) = NULL
        /\ LoadFile(CasPath, stack)
        /\ UNCHANGED pc
  /\ UNCHANGED <<initVars, disk, sAuxLibs>>

bindChain ==
  /\ pc = "bind"
  /\ doBindSymbols(InChain)
  /\ pc' = "bindMain"
  /\ UNCHANGED <<chainVars, initVars, allocated, fOrigFilePath, fReExports,
                 rebased, initRuns, disk, stack, sAuxLibs>>

\* sMainExecutable->doBindSymbols(); the runtime that
\* OSInitializeAuxiliaryRuntime starts next is no part of the chain.
BindMain ==
  /\ pc = "bindMain"
  /\ doBindSymbols({Main})
  /\ pc' = "init"
  /\ UNCHANGED <<chainVars, initVars, allocated, fOrigFilePath, fReExports,
                 rebased, initRuns, disk, stack, sAuxLibs>>

---------------------------------------------------------------------------
(* doInitialize, and initializeChain with it. *)

\* doInitialize returns at once in an image that has been initialized; its
\* callers (initializeChain, dlopen of a new image, _main) never call it so.
Start(x) == initRuns' = [initRuns EXCEPT ![x] = @ + 1]
Initializing == Calling("initialize") /\ Top.k > Len(Opens(Top.im))
untouched == <<allocated, fOrigFilePath, fReExports, rebased, bound, target,
               sUnresolvedCount, disk, sAuxLibs>>

\* A step of initializeChain between two initializers.
WalkChain ==
  /\ pc = "init" /\ stack = <<>>
  /\ \/ Call \/ SkipInitialized \/ GotoCircInit \/ Postpone \/ EndOfWalk
     \/ SkipCircular
  /\ UNCHANGED <<objVars, disk, pc, stack, sAuxLibs>>

StartInitializers ==
  /\ pc = "init" /\ stack = <<>>
  /\ StartDResolv \/ StartCircular
  /\ Start(im)
  /\ stack' = <<Activation("initialize", im, 1)>>
  /\ UNCHANGED <<untouched, pc>>

EndInitializers ==
  /\ pc = "init" /\ Initializing /\ Len(stack) = 1
  /\ EndDResolv \/ EndCircular
  /\ stack' = <<>>
  /\ UNCHANGED <<untouched, initRuns, pc>>

\* initializeChain returns and sMainExecutable->doInitialize() starts.
InitializeMain ==
  /\ pc = "init" /\ stack = <<>>
  /\ Return
  /\ Start(Main)
  /\ stack' = <<Activation("initialize", Main, 1)>>
  /\ pc' = "initMain"
  /\ UNCHANGED untouched

\* _call_main: the program runs.
CallMain ==
  /\ pc = "initMain" /\ Initializing /\ Len(stack) = 1
  /\ fHasInitialized' = [fHasInitialized EXCEPT ![Main] = TRUE]
  /\ stack' = <<>>
  /\ pc' = "run"
  /\ UNCHANGED <<chain, fDependencies, sImageCount, initVars, untouched,
                 initRuns>>

---------------------------------------------------------------------------
(* dlopen *)

\* Mutant: already_loaded is ignored.
dlopenAgain(path, st) ==
  \/ /\ Present(path) # NULL
     /\ stack' = IF Present(path) = firstImage THEN st
                 ELSE Append(st, Activation("dlopen", Present(path), 1))
     /\ UNCHANGED <<chainVars, objVars>>
  \/ /\ Present(path) = NULL
     /\ LoadFile(path, Append(st, Activation("dlopen", NULL, 1)))

\* dlopen(path) called with `st' as stack.  A library that is there already,
\* and a file that is missing, leave everything as it was: dlopen returns the
\* image, or NULL when it is the first one.
dlopen(path, st) ==
  \/ /\ Present(path) # NULL
     /\ stack' = st
     /\ UNCHANGED <<chainVars, objVars>>
  \/ /\ Present(path) = NULL
     /\ LoadFile(path, Append(st, Activation("dlopen", NULL, 1)))

OpenFromInitializer ==
  /\ Calling("initialize") /\ Top.k <= Len(Opens(Top.im))
  /\ dlopen(Opens(Top.im)[Top.k], Advance(stack))
  /\ UNCHANGED <<initVars, disk, pc, sAuxLibs>>

OpenFromProgram ==
  /\ pc = "run" /\ stack = <<>>
  /\ \E path \in Path \cup {LibSystem} : dlopen(path, stack)
  /\ UNCHANGED <<initVars, disk, pc, sAuxLibs>>

\* The "bootstrap lib" part of dlopen: the new image is bound, then
\* initialized.
Bootstrap ==
  /\ Calling("dlopen") /\ Top.im # NULL
  /\ doBindSymbols({Top.im})
  /\ Start(Top.im)
  /\ stack' = Append(Below, Activation("initialize", Top.im, 1))
  /\ UNCHANGED <<chainVars, initVars, allocated, fOrigFilePath, fReExports,
                 rebased, disk, pc, sAuxLibs>>

EndBootstrap ==
  /\ Initializing
  /\ pc = "run" \/ Len(stack) > 1
  /\ fHasInitialized' = [fHasInitialized EXCEPT ![Top.im] = TRUE]
  /\ stack' = Below
  /\ UNCHANGED <<chain, fDependencies, sImageCount, initVars, untouched,
                 initRuns, pc>>

\* Binding runs out of stack in a cycle of re-exports.
Overflow ==
  /\ \/ pc = "bind" /\ BindOverflows(InChain)
     \/ pc = "bindMain" /\ BindOverflows({Main})
     \/ Calling("dlopen") /\ Top.im # NULL /\ BindOverflows({Top.im})
  /\ pc' = "crashed"
  /\ stack' = <<>>
  /\ UNCHANGED <<chainVars, initVars, objVars, disk, sAuxLibs>>

Crashed == pc = "crashed" /\ UNCHANGED vars

---------------------------------------------------------------------------
Init ==
  /\ disk \in Disks
  /\ chain = <<>> /\ sImageCount = 0
  /\ fDependencies = [x \in Image |-> <<>>]
  /\ fHasInitialized = [x \in Image |-> FALSE]
  /\ ipc = "idle" /\ im = NULL
  /\ hasUnitializedDependencies = FALSE /\ runCircularInitializer = FALSE
  /\ ccount = 0 /\ icount = 0
  /\ pc = "start" /\ stack = <<>> /\ sAuxLibs = <<>>
  /\ allocated = {}
  /\ fOrigFilePath = [x \in Image |-> NULL]
  /\ fReExports = [x \in Image |-> <<>>]
  /\ rebased = [x \in Image |-> 0]
  /\ bound = [x \in Image |-> 0]
  /\ target = [x \in Image |-> [s \in Symbol |-> NULL]]
  /\ initRuns = [x \in Image |-> 0]
  /\ sUnresolvedCount = 0

Load == ParsePresent \/ ParseLoad \/ ReturnToParse \/ ReturnToDlopen
        \/ ReturnToMain
Boot == SetUpDylinker \/ LoadAuxiliary \/ SetUpMain \/ MainLoaded \/ LoadCas
        \/ bindChain \/ BindMain
InitializeImages == WalkChain \/ StartInitializers \/ EndInitializers
                    \/ InitializeMain \/ CallMain
Open == OpenFromInitializer \/ Bootstrap \/ EndBootstrap

\* What the linker does of itself; OpenFromProgram is the program's doing.
Step == Load \/ Boot \/ InitializeImages \/ Open \/ Overflow

Next == Step \/ OpenFromProgram \/ Crashed

Spec == Init /\ [][Next]_vars
FairSpec == Spec /\ WF_vars(Step)
---------------------------------------------------------------------------
Frame == [fn : {"parse", "dlopen", "initialize"}, im : Image \cup {NULL},
          k : Nat \ {0}]

TypeOK ==
  /\ ChainTypeOK /\ InitTypeOK
  /\ disk.main \in File /\ disk.lib \in [Path -> File \cup {NULL}]
  /\ pc \in {"start", "aux", "main", "cas", "bind", "bindMain", "init",
             "initMain", "run", "crashed"}
  /\ stack \in Seq(Frame)
  /\ allocated \in SUBSET Image
  /\ fOrigFilePath \in [Image -> Path \cup {NULL}]
  /\ fReExports \in [Image -> Seq(Image)]
  /\ rebased \in [Image -> Nat] /\ bound \in [Image -> Nat]
  /\ initRuns \in [Image -> Nat]
  /\ target \in [Image -> [Symbol -> Image \cup {NULL, Diverges}]]
  /\ sUnresolvedCount \in Nat
  /\ sAuxLibs \in Seq(Image)

\* The image x is in the middle of parseLoadCommands.
Parsing(x) == \E i \in 1..Len(stack) : stack[i].fn = "parse" /\ stack[i].im = x

(***************************************************************************)
(* The chain never holds an image, or two images loaded from one path,     *)
(* twice, although a library is linked in before its dependencies are      *)
(* loaded and these may name it again; the linker stays first, and         *)
(* sImageCount counts the chain.                                           *)
(***************************************************************************)
ChainSound ==
  /\ sImageCount = Len(chain)
  /\ Len(chain) > 0 => chain[1] = Dylinker
  /\ \A i, j \in 1..Len(chain) :
       fOrigFilePath[chain[i]] = fOrigFilePath[chain[j]] => i = j

(***************************************************************************)
(* Dependency k of an image is what its load command k asked for, so that  *)
(* the library ordinals of its bindings select the right entry: a missing  *)
(* library and libSystem leave no gap, they stand as the linker itself.    *)
(***************************************************************************)
OrdinalsLineUp ==
  \A x \in allocated :
    /\ ~Parsing(x) => Len(fDependencies[x]) = Len(Commands(x))
    /\ Len(fDependencies[x]) <= Len(Commands(x))
    /\ \A k \in 1..Len(fDependencies[x]) :
         LET path == Commands(x)[k].path
             dep  == fDependencies[x][k]
         IN  \/ dep = Dylinker /\ (path = LibSystem \/ disk.lib[path] = NULL)
             \/ dep # Main /\ fOrigFilePath[dep] = path

(***************************************************************************)
(* Every dependency of an image that is allocated is linked into the chain *)
(* (resolve, initializeChain and dladdr look nowhere else).                *)
(***************************************************************************)
DependenciesLoaded == \A x \in allocated : Dependencies(x) \subseteq InChain

(***************************************************************************)
(* No step that is not idempotent is done twice to an image: rebasing and  *)
(* binding add the slide to pointers in place, an initializer is a         *)
(* constructor.  Images that were mapped by the kernel are never rebased.  *)
(***************************************************************************)
AtMostOnce ==
  /\ \A x \in Image : rebased[x] <= 1 /\ bound[x] <= 1 /\ initRuns[x] <= 1
  /\ rebased[Dylinker] = 0 /\ rebased[Main] = 0

(***************************************************************************)
(* When an image is bound, it and every image one of its symbols is bound  *)
(* to have been parsed and rebased: an address is never taken from a       *)
(* library that is only half loaded.                                       *)
(***************************************************************************)
BoundToLoaded ==
  \A x \in Image : bound[x] > 0 =>
    \A y \in {x} \cup {target[x][s] : s \in Contents(x).imports} :
      y # NULL => /\ y \in allocated /\ ~Parsing(y)
                  /\ y \in InChain \ {Dylinker} => rebased[y] = 1

(***************************************************************************)
(* A symbol the linker itself exports (libSystem: malloc, pthread_create)  *)
(* is bound to the linker in every image, whatever libraries exporting the *)
(* same name are loaded and whenever.                                      *)
(***************************************************************************)
LibSystemWins ==
  \A x \in Image : bound[x] > 0 =>
    \A s \in Contents(x).imports \cap LinkerExports : target[x][s] = Dylinker

(***************************************************************************)
(* Initializers run in bound images only ("This can only run after stuff   *)
(* has been linked in", core/lnk.cpp:682).                                 *)
(***************************************************************************)
InitializedAfterBinding == \A x \in Image : initRuns[x] > 0 => bound[x] > 0

\* No library needs itself, through load commands or dlopen in initializers:
\* there are no libraries of which each needs another one of them.
AcyclicDisk ==
  LET Needs(f) == {f.cmds[i].path : i \in 1..Len(f.cmds)}
                  \cup {f.opens[i] : i \in 1..Len(f.opens)}
      there == {p \in Path : disk.lib[p] # NULL}
  IN  \A S \in SUBSET there \ {{}} : \E p \in S : Needs(disk.lib[p]) \cap S = {}

(***************************************************************************)
(* The program is started, or binding crashed, if no library needs itself. *)
(***************************************************************************)
AcyclicStarts == AcyclicDisk => <>(pc \in {"run", "crashed"})
===========================================================================
