-------------------------- MODULE InitializeChain --------------------------
(***************************************************************************)
(* The linker's image objects and the chain they are linked into           *)
(* (core/lnk_image.cpp, core/lnk_image.h, the globals of core/lnk.cpp),    *)
(* and lnk::initializeChain, which runs the initializers of every image of *)
(* the chain.                                                              *)
(*                                                                         *)
(* An element of Image is the address of a MachObject.  `chain' lists the  *)
(* objects reachable from sFirstImage through fNextImage, in link order;   *)
(* the linker only ever links a fresh object in, so the list is the whole  *)
(* content of those pointers.  fDependencies[i] is the used prefix of the  *)
(* fDependencies array of i: its length is fDepCount.                      *)
(*                                                                         *)
(* initializeChain walks the chain again and again, initializing each      *)
(* image whose dependencies are initialized ("dresolv").  It counts, in    *)
(* ccount, the pairs of images that directly depend on one another, and    *)
(* falls through to circ_init, which initializes whatever is left in chain *)
(* order, when a walk leaves no other image waiting or when ccount happens *)
(* to equal icount, the number of images left.                             *)
(*                                                                         *)
(* One action is one iteration of a loop; a call of doInitialize is two    *)
(* steps, its start and its return, because the initializers it runs are   *)
(* foreign code.  Module Linker puts what that code may do in between.     *)
(***************************************************************************)
EXTENDS Integers, Sequences, FiniteSets

CONSTANTS Image,        \* the MachObjects the process can allocate
          NULL          \* the null pointer

ASSUME ImageAssumption == IsFiniteSet(Image) /\ NULL \notin Image

VARIABLES chain, fDependencies, fHasInitialized, sImageCount

chainVars == <<chain, fDependencies, fHasInitialized, sImageCount>>

\* The images linked into the chain.
InChain == {chain[i] : i \in 1..Len(chain)}

firstImage == IF Len(chain) = 0 THEN NULL ELSE chain[1]

nextImage(im) ==
  LET p == CHOOSE p \in 1..Len(chain) : chain[p] = im
  IN  IF p < Len(chain) THEN chain[p + 1] ELSE NULL

\* setNextImage(im->nextImage()) on the new object, then setNextImage(new) on
\* the first one: the new image becomes the second of the chain.
insertAfterFirst(im) == <<chain[1], im>> \o Tail(chain)

Dependencies(im) == {fDependencies[im][i] : i \in 1..Len(fDependencies[im])}

\* Mutant: the loop starts at index 1.
dependenciesInitializedButFirst(im) ==
  \A i \in 2..Len(fDependencies[im]) :
    fHasInitialized[fDependencies[im][i]]

dependenciesInitialized(im) ==
  \A i \in 1..Len(fDependencies[im]) : fHasInitialized[fDependencies[im][i]]

dependsOn(im, image) ==
  \E i \in 1..Len(fDependencies[im]) : fDependencies[im][i] = image

ChainTypeOK ==
  /\ chain \in Seq(Image)
  /\ fDependencies \in [Image -> Seq(Image)]
  /\ fHasInitialized \in [Image -> BOOLEAN]
  /\ sImageCount \in Nat

---------------------------------------------------------------------------
(* initializeChain *)

VARIABLES ipc,        \* control point of initializeChain
          im,         \* the image the walk has reached, NULL at its end
          hasUnitializedDependencies,
          runCircularInitializer,
          ccount, icount

initVars == <<ipc, im, hasUnitializedDependencies, runCircularInitializer,
              ccount, icount>>

ControlPoint ==
  {"idle", "run_init", "dresolv", "circ_init", "circular", "done"}

\* ccount is an int that only grows and is only compared with icount, which
\* is at most the number of images: it saturates at a value icount never has.
CountCap == Cardinality(Image) + 1
Count(n) == IF n < CountCap THEN n ELSE CountCap

\* How often the loop over the dependencies of x finds one that depends on x.
CircularDependencies(x) ==
  {i \in 1..Len(fDependencies[x]) : dependsOn(fDependencies[x][i], x)}

\* int ccount = 0; int icount = sImageCount; runCircularInitializer is not
\* given a value.
Call ==
  /\ ipc = "idle"
  /\ ipc' = "run_init"
  /\ im' = firstImage
  /\ hasUnitializedDependencies' = FALSE
  /\ runCircularInitializer' \in BOOLEAN
  /\ ccount' = 0
  /\ icount' = sImageCount
  /\ UNCHANGED chainVars

\* An image whose dependencies are initialized and that is itself
\* initialized is passed over ...
SkipInitialized ==
  /\ ipc = "run_init" /\ im # NULL
  /\ dependenciesInitialized(im) /\ fHasInitialized[im]
  /\ im' = nextImage(im)
  /\ UNCHANGED <<chainVars, ipc, hasUnitializedDependencies,
                 runCircularInitializer, ccount, icount>>

\* ... and otherwise it is initialized now.
StartDResolv ==
  /\ ipc = "run_init" /\ im # NULL
  /\ dependenciesInitialized(im) /\ ~fHasInitialized[im]
  /\ ipc' = "dresolv"
  /\ UNCHANGED <<chainVars, im, hasUnitializedDependencies,
                 runCircularInitializer, ccount, icount>>

\* Mutant: icount is not counted down.
EndDResolvUncounted ==
  /\ ipc = "dresolv"
  /\ fHasInitialized' = [fHasInitialized EXCEPT ![im] = TRUE]
  /\ im' = nextImage(im)
  /\ ipc' = "run_init"
  /\ UNCHANGED <<chain, fDependencies, sImageCount, icount,
                 hasUnitializedDependencies, runCircularInitializer, ccount>>

EndDResolv ==
  /\ ipc = "dresolv"
  /\ fHasInitialized' = [fHasInitialized EXCEPT ![im] = TRUE]
  /\ icount' = icount - 1
  /\ im' = nextImage(im)
  /\ ipc' = "run_init"
  /\ UNCHANGED <<chain, fDependencies, sImageCount,
                 hasUnitializedDependencies, runCircularInitializer, ccount>>

\* An image with an uninitialized dependency, when the counters meet.
GotoCircInit ==
  /\ ipc = "run_init" /\ im # NULL
  /\ ~dependenciesInitialized(im)
  /\ ccount = icount
  /\ ipc' = "circ_init"
  /\ im' = firstImage
  /\ UNCHANGED <<chainVars, hasUnitializedDependencies,
                 runCircularInitializer, ccount, icount>>

\* Mutant: runCircularInitializer is not set.
PostponeUnflagged ==
  /\ ipc = "run_init" /\ im # NULL
  /\ ~dependenciesInitialized(im)
  /\ ccount # icount
  /\ LET circ == CircularDependencies(im) IN
       /\ ccount' = Count(ccount + Cardinality(circ))
       /\ hasUnitializedDependencies' =
            (hasUnitializedDependencies \/ circ = {})
  /\ im' = nextImage(im)
  /\ UNCHANGED <<chainVars, ipc, runCircularInitializer, icount>>

\* An image with an uninitialized dependency, otherwise: it is circular, or
\* it has to wait for another walk.
Postpone ==
  /\ ipc = "run_init" /\ im # NULL
  /\ ~dependenciesInitialized(im)
  /\ ccount # icount
  /\ LET circ == CircularDependencies(im) IN
       /\ ccount' = Count(ccount + Cardinality(circ))
       /\ runCircularInitializer' = (runCircularInitializer \/ circ # {})
       /\ hasUnitializedDependencies' =
            (hasUnitializedDependencies \/ circ = {})
  /\ im' = nextImage(im)
  /\ UNCHANGED <<chainVars, ipc, icount>>

\* Mutant: hasUnitializedDependencies stays set for good.
EndOfWalkSticky ==
  /\ ipc = "run_init" /\ im = NULL
  /\ ipc' = IF hasUnitializedDependencies THEN "run_init" ELSE "circ_init"
  /\ im' = firstImage
  /\ UNCHANGED <<chainVars, hasUnitializedDependencies,
                 runCircularInitializer, ccount, icount>>

\* The end of a walk: another one, or circ_init.
EndOfWalk ==
  /\ ipc = "run_init" /\ im = NULL
  /\ ipc' = IF hasUnitializedDependencies THEN "run_init" ELSE "circ_init"
  /\ im' = firstImage
  /\ hasUnitializedDependencies' = FALSE
  /\ UNCHANGED <<chainVars, runCircularInitializer, ccount, icount>>

StartCircular ==
  /\ ipc = "circ_init" /\ runCircularInitializer /\ im # NULL
  /\ ~fHasInitialized[im]
  /\ ipc' = "circular"
  /\ UNCHANGED <<chainVars, im, hasUnitializedDependencies,
                 runCircularInitializer, ccount, icount>>

EndCircular ==
  /\ ipc = "circular"
  /\ fHasInitialized' = [fHasInitialized EXCEPT ![im] = TRUE]
  /\ im' = nextImage(im)
  /\ ipc' = "circ_init"
  /\ UNCHANGED <<chain, fDependencies, sImageCount,
                 hasUnitializedDependencies, runCircularInitializer,
                 ccount, icount>>

SkipCircular ==
  /\ ipc = "circ_init" /\ runCircularInitializer /\ im # NULL
  /\ fHasInitialized[im]
  /\ im' = nextImage(im)
  /\ UNCHANGED <<chainVars, ipc, hasUnitializedDependencies,
                 runCircularInitializer, ccount, icount>>

Return ==
  /\ ipc = "circ_init"
  /\ ~runCircularInitializer \/ im = NULL
  /\ ipc' = "done"
  /\ UNCHANGED <<chainVars, im, hasUnitializedDependencies,
                 runCircularInitializer, ccount, icount>>

Initialize == Call \/ SkipInitialized \/ StartDResolv \/ EndDResolv
              \/ GotoCircInit \/ Postpone \/ EndOfWalk
              \/ StartCircular \/ EndCircular \/ SkipCircular \/ Return

InitTypeOK ==
  /\ ipc \in ControlPoint
  /\ im \in Image \cup {NULL}
  /\ hasUnitializedDependencies \in BOOLEAN
  /\ runCircularInitializer \in BOOLEAN
  /\ ccount \in Int
  /\ icount \in Int

\* The image whose initializers are running.
Running == {x \in {im} : ipc \in {"dresolv", "circular"}}

\* Two images of the chain that directly depend on one another (an image that
\* names itself among its dependencies is such a pair).
Mutual == \E x \in InChain, y \in InChain : dependsOn(x, y) /\ dependsOn(y, x)

(***************************************************************************)
(* When initializeChain returns, every image of the chain is initialized,  *)
(* whatever the dependencies and whatever value runCircularInitializer     *)
(* started with ("Initializes all the images in the chain").               *)
(***************************************************************************)
Complete == ipc = "done" => \A x \in InChain : fHasInitialized[x]

(***************************************************************************)
(* Unless two images directly depend on one another, no initializer of an  *)
(* image runs before all its dependencies are initialized: circ_init never *)
(* forces an image although the walks before it jump there as soon as two  *)
(* counters are equal.                                                     *)
(***************************************************************************)
DependenciesFirst ==
  ~Mutual => \A x \in InChain :
               fHasInitialized[x] \/ x \in Running =>
                 \A y \in Dependencies(x) : fHasInitialized[y]

(***************************************************************************)
(* icount, the count-down that GotoCircInit relies on, is the number of    *)
(* images of the chain that are not initialized as long as the walks last. *)
(***************************************************************************)
CountDown ==
  ipc \in {"run_init", "dresolv"} =>
    icount = Cardinality({x \in InChain : ~fHasInitialized[x]})
===========================================================================
