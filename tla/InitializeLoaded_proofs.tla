----------------------- MODULE InitializeLoaded_proofs -----------------------
(***************************************************************************)
(* Proofs about lnk::initializeChain for every chain and every dependency  *)
(* graph: what is true when it returns, in which order the initializers    *)
(* run, and what its two counters mean.                                    *)
(***************************************************************************)
EXTENDS InitializeLoaded, FiniteSetTheorems, TLAPS

\* What loading leaves behind and initializeChain does not touch.
Sound ==
  /\ chain \in Seq(Image)
  /\ fDependencies \in [Image -> Seq(Image)]
  /\ sImageCount = Len(chain)
  /\ \A i, j \in 1..Len(chain) : chain[i] = chain[j] => i = j
  /\ \A x \in InChain : \A k \in 1..Len(fDependencies[x]) :
       fDependencies[x][k] \in InChain

\* A walk that has come to y has passed x: x and the images before it are
\* not y.
PassedAt(x, y) ==
  \E i \in 1..Len(chain) : chain[i] = x /\ \A j \in 1..i : chain[j] # y
Passed(x) == PassedAt(x, im)

Uninitialized == {x \in InChain : ~fHasInitialized[x]}

\* Values of the locals.
Locals ==
  /\ ipc \in ControlPoint
  /\ im \in InChain \cup {NULL}
  /\ fHasInitialized \in [Image -> BOOLEAN]
  /\ hasUnitializedDependencies \in BOOLEAN
  /\ runCircularInitializer \in BOOLEAN
  /\ ccount \in Nat
  /\ icount \in Int

\* Before the call nothing is initialized.
IdleInv == ipc = "idle" => \A x \in Image : ~fHasInitialized[x]

\* A circular pair has been counted only if there is one, and then circ_init
\* will be run.
CountInv ==
  /\ ~Mutual => ccount = 0
  /\ ipc # "idle" /\ ccount > 0 => runCircularInitializer

\* During a walk: a passed image is initialized, or leads to another walk, or
\* is left to circ_init.
WalkInv ==
  ipc \in {"run_init", "dresolv"} /\ ~hasUnitializedDependencies =>
    \A x \in InChain : Passed(x) =>
      fHasInitialized[x] \/ (runCircularInitializer /\ Mutual)

DResolvInv ==
  ipc = "dresolv" => im \in InChain /\ dependenciesInitialized(im)
                     /\ ~fHasInitialized[im]

\* In circ_init: whatever it leaves out is initialized.
CircInv ==
  ipc \in {"circ_init", "circular"} =>
    /\ runCircularInitializer \/ Uninitialized = {}
    /\ Mutual \/ Uninitialized = {}
    /\ \A x \in InChain : Passed(x) => fHasInitialized[x]

CircularInv == ipc = "circular" => im \in InChain /\ Mutual

IInv == /\ Sound /\ Locals /\ IdleInv /\ CountInv /\ CountDown /\ WalkInv
        /\ DResolvInv /\ CircInv /\ CircularInv /\ Complete
        /\ DependenciesFirst

---------------------------------------------------------------------------
(* Walking the chain. *)

\* nextImage of the i-th image is the one after it: no image occurs twice.
LEMMA NextOfIth ==
  ASSUME Sound, NEW i \in 1..Len(chain)
  PROVE  nextImage(chain[i]) = IF i < Len(chain) THEN chain[i + 1] ELSE NULL
<1> DEFINE p == CHOOSE p \in 1..Len(chain) : chain[p] = chain[i]
<1>1. p \in 1..Len(chain) /\ chain[p] = chain[i]
  OBVIOUS
<1>2. p = i
  BY <1>1 DEF Sound
<1> QED
  BY <1>2 DEF nextImage

\* The walk stays in the chain.
LEMMA NextType ==
  ASSUME Sound, NEW y \in InChain
  PROVE  nextImage(y) \in InChain \cup {NULL}
<1>1. PICK i \in 1..Len(chain) : y = chain[i]
  BY DEF InChain
<1>2. Len(chain) \in Nat
  BY DEF Sound
<1> QED
  BY <1>1, <1>2, NextOfIth DEF InChain

LEMMA FirstType == Sound => firstImage \in InChain \cup {NULL}
BY DEF Sound, firstImage, InChain

LEMMA InChainImage == Sound => InChain \subseteq Image /\ NULL \notin InChain
BY ImageAssumption DEF Sound, InChain

\* At the first image nothing has been passed, ...
LEMMA PassedNone == ASSUME Sound, NEW x PROVE ~PassedAt(x, firstImage)
BY DEF Sound, PassedAt, firstImage

\* ... going on from y passes y and nothing else, ...
LEMMA PassedNext ==
  ASSUME Sound, NEW y \in InChain, NEW x, PassedAt(x, nextImage(y))
  PROVE  PassedAt(x, y) \/ x = y
<1>0. Len(chain) \in Nat
  BY DEF Sound
<1>1. PICK p \in 1..Len(chain) : y = chain[p]
  BY DEF InChain
<1>2. PICK i \in 1..Len(chain) :
        chain[i] = x /\ \A j \in 1..i : chain[j] # nextImage(y)
  BY DEF PassedAt
<1>3. i <= p
  <2>1. CASE p < Len(chain)
    <3>1. nextImage(y) = chain[p + 1]
      BY <1>1, <2>1, NextOfIth
    <3> QED
      BY <1>0, <1>2, <2>1, <3>1
  <2> QED
    BY <1>0, <2>1
<1>4. CASE i < p
  BY <1>0, <1>1, <1>2, <1>4 DEF Sound, PassedAt
<1> QED
  BY <1>0, <1>1, <1>2, <1>3, <1>4

\* ... and at the end everything has been passed.
LEMMA PassedAll == ASSUME Sound, NEW x \in InChain PROVE PassedAt(x, NULL)
<1>1. PICK i \in 1..Len(chain) : x = chain[i]
  BY DEF InChain
<1>2. \A j \in 1..i : chain[j] # NULL
  BY ImageAssumption DEF Sound
<1> QED
  BY <1>1, <1>2 DEF PassedAt

---------------------------------------------------------------------------
(* Counting. *)

LEMMA FiniteInChain ==
  ASSUME Sound
  PROVE  IsFiniteSet(InChain) /\ Cardinality(InChain) = Len(chain)
<1>0. Len(chain) \in Nat
  BY DEF Sound
<1>1. IsFiniteSet(1..Len(chain)) /\ Cardinality(1..Len(chain)) = Len(chain)
  <2>1. 1 \in Int /\ Len(chain) \in Int
    BY <1>0
  <2>2. /\ IsFiniteSet(1..Len(chain))
        /\ Cardinality(1..Len(chain))
             = IF 1 > Len(chain) THEN 0 ELSE Len(chain) - 1 + 1
    BY <2>1, FS_Interval, Zenon
  <2> QED
    BY <1>0, <2>2
<1> DEFINE f == [i \in 1..Len(chain) |-> chain[i]]
<1>2. f \in Bijection(1..Len(chain), InChain)
  <2>1. f \in [1..Len(chain) -> InChain]
    BY DEF InChain
  <2>2. \A i, j \in 1..Len(chain) : f[i] = f[j] => i = j
    BY DEF Sound
  <2>3. \A y \in InChain : \E i \in 1..Len(chain) : f[i] = y
    BY DEF InChain
  <2> HIDE DEF f
  <2> QED
    BY <2>1, <2>2, <2>3 DEF Bijection, Injection, Surjection, IsInjective
<1>3. ExistsBijection(1..Len(chain), InChain)
  BY <1>2 DEF ExistsBijection
<1> QED
  BY <1>1, <1>3, FS_Bijection

LEMMA FiniteUninitialized ==
  ASSUME Sound
  PROVE  IsFiniteSet(Uninitialized) /\ Cardinality(Uninitialized) \in Nat
BY FiniteInChain, FS_Subset, FS_CardinalityType DEF Uninitialized

LEMMA CountType ==
  ASSUME NEW n \in Nat
  PROVE  Count(n) \in Nat /\ (Count(n) > 0 <=> n > 0)
<1>1. Cardinality(Image) \in Nat
  BY ImageAssumption, FS_CardinalityType
<1> QED
  BY <1>1 DEF Count, CountCap

\* The circular dependencies of an image are finitely many, and one of them
\* makes a mutual pair.
LEMMA CircularType ==
  ASSUME Sound, NEW x \in InChain
  PROVE  /\ Cardinality(CircularDependencies(x)) \in Nat
         /\ Cardinality(CircularDependencies(x)) = 0
              <=> CircularDependencies(x) = {}
         /\ CircularDependencies(x) # {} => Mutual
<1>1. x \in Image /\ Len(fDependencies[x]) \in Nat
  BY InChainImage DEF Sound
<1>2. IsFiniteSet(1..Len(fDependencies[x]))
  BY <1>1, FS_Interval
<1>3. CircularDependencies(x) \subseteq 1..Len(fDependencies[x])
  BY DEF CircularDependencies
<1>4. IsFiniteSet(CircularDependencies(x))
  BY <1>2, <1>3, FS_Subset
<1>5. ASSUME CircularDependencies(x) # {} PROVE Mutual
  <2>1. PICK i \in 1..Len(fDependencies[x]) : dependsOn(fDependencies[x][i], x)
    BY <1>5 DEF CircularDependencies
  <2>2. dependsOn(x, fDependencies[x][i])
    BY <2>1 DEF dependsOn
  <2>3. fDependencies[x][i] \in InChain
    BY <2>1 DEF Sound
  <2> QED
    BY <2>1, <2>2, <2>3 DEF Mutual
<1> QED
  BY <1>4, <1>5, FS_CardinalityType, FS_EmptySet

---------------------------------------------------------------------------
(* The invariant holds initially. *)
LEMMA InitHolds == Init => IInv
<1> SUFFICES ASSUME Init PROVE IInv
  OBVIOUS
<1>1. Sound
  <2>1. PICK l \in Loaded : chain = l.chain /\ fDependencies = l.fDependencies
    BY DEF Init
  <2>2. sImageCount = Len(chain)
    BY DEF Init
  <2> QED
    <3>1. chain \in Seq(Image) /\ fDependencies \in [Image -> Seq(Image)]
      BY <2>1, LoadedAssumption
    <3>2. \A i, j \in 1..Len(chain) : chain[i] = chain[j] => i = j
      BY <2>1, LoadedAssumption
    <3>3. \A i \in 1..Len(chain) : \A k \in 1..Len(fDependencies[chain[i]]) :
            \E j \in 1..Len(chain) : chain[j] = fDependencies[chain[i]][k]
      <4>1. \A i \in 1..Len(l.chain) :
              \A k \in 1..Len(l.fDependencies[l.chain[i]]) :
                \E j \in 1..Len(l.chain) :
                  l.chain[j] = l.fDependencies[l.chain[i]][k]
        BY LoadedAssumption, Zenon
      <4> QED
        BY <2>1, <4>1
    <3>4. \A x \in InChain : \A k \in 1..Len(fDependencies[x]) :
            fDependencies[x][k] \in InChain
      <4> TAKE x \in InChain
      <4>1. PICK i \in 1..Len(chain) : x = chain[i]
        BY DEF InChain
      <4> TAKE k \in 1..Len(fDependencies[x])
      <4>2. PICK j \in 1..Len(chain) : chain[j] = fDependencies[x][k]
        BY <3>3, <4>1, Zenon
      <4> QED
        BY <4>2 DEF InChain
    <3> QED
      BY <2>2, <3>1, <3>2, <3>4 DEF Sound
<1>2. Locals
  <2>1. fHasInitialized \in [Image -> BOOLEAN]
    BY DEF Init
  <2>2. hasUnitializedDependencies \in BOOLEAN
        /\ runCircularInitializer \in BOOLEAN
    BY Zenon DEF Init
  <2>3. ipc \in ControlPoint /\ im = NULL /\ ccount \in Nat /\ icount \in Int
    BY DEF Init, ControlPoint
  <2> QED
    BY <2>1, <2>2, <2>3 DEF Locals
<1>3. \A x \in InChain : ~fHasInitialized[x]
  BY <1>1, InChainImage DEF Init
<1>4. IdleInv /\ CountInv /\ CountDown /\ WalkInv /\ DResolvInv /\ CircInv
      /\ CircularInv /\ Complete
  BY DEF Init, IdleInv, CountInv, CountDown, WalkInv, DResolvInv, CircInv,
         CircularInv, Complete
<1>5. DependenciesFirst
  BY <1>3 DEF Init, DependenciesFirst, Running
<1> QED
  BY <1>1, <1>2, <1>4, <1>5 DEF IInv

---------------------------------------------------------------------------
(* A step preserves it. *)

\* No step touches the chain or the dependencies.
LEMMA Static ==
  ASSUME Sound, [Next]_vars
  PROVE  /\ chain' = chain /\ fDependencies' = fDependencies
         /\ sImageCount' = sImageCount
         /\ InChain' = InChain
         /\ Sound'
         /\ Mutual' = Mutual
         /\ \A x, y : PassedAt(x, y)' = PassedAt(x, y)
         /\ \A x : Dependencies(x)' = Dependencies(x)
<1>1. chain' = chain /\ fDependencies' = fDependencies
      /\ sImageCount' = sImageCount
  BY DEF Next, vars, chainVars, Initialize, Finished, Call, SkipInitialized,
         StartDResolv, EndDResolv, GotoCircInit, Postpone, EndOfWalk,
         StartCircular, EndCircular, SkipCircular, Return
<1>2. InChain' = InChain
  BY <1>1 DEF InChain
<1>3. Sound'
  BY <1>1, <1>2 DEF Sound
<1>4. Mutual' = Mutual
  BY <1>1, <1>2 DEF Mutual, dependsOn
<1>5. \A x, y : PassedAt(x, y)' = PassedAt(x, y)
  BY <1>1 DEF PassedAt
<1>6. \A x : Dependencies(x)' = Dependencies(x)
  BY <1>1 DEF Dependencies
<1> QED
  BY <1>1, <1>2, <1>3, <1>4, <1>5, <1>6

\* Two ways to say that the dependencies of an image are initialized.
LEMMA DependenciesOf ==
  ASSUME NEW x
  PROVE  dependenciesInitialized(x)
           <=> \A y \in Dependencies(x) : fHasInitialized[y]
BY DEF dependenciesInitialized, Dependencies

\* The order of initializers is not disturbed by a step that initializes and
\* starts nothing.
LEMMA SameOrder ==
  ASSUME Sound, [Next]_vars, DependenciesFirst,
         fHasInitialized' = fHasInitialized, Running' = {}
  PROVE  DependenciesFirst'
BY Static DEF DependenciesFirst

LEMMA StepPreserves == IInv /\ [Next]_vars => IInv'
<1> SUFFICES ASSUME IInv, [Next]_vars PROVE IInv'
  OBVIOUS
<1> USE DEF IInv
<1>s. /\ chain' = chain /\ fDependencies' = fDependencies
      /\ sImageCount' = sImageCount /\ InChain' = InChain /\ Sound'
      /\ Mutual' = Mutual
  BY Static
<1>p. \A x : Passed(x)' <=> PassedAt(x, im')
  BY <1>s DEF Passed, PassedAt
<1>n. NULL \notin InChain /\ InChain \subseteq Image
  BY InChainImage
<1>u. fHasInitialized' = fHasInitialized => Uninitialized' = Uninitialized
  BY <1>s DEF Uninitialized
<1>1. CASE Call
  <2> USE <1>1 DEF Call, chainVars
  <2>1. Locals'
    <3>1. hasUnitializedDependencies' \in BOOLEAN
          /\ runCircularInitializer' \in BOOLEAN
          /\ fHasInitialized' \in [Image -> BOOLEAN]
      BY Zenon DEF Locals
    <3>2. ccount' \in Nat /\ icount' \in Int
      BY DEF Sound
    <3>3. ipc' \in ControlPoint /\ im' \in (InChain \cup {NULL})'
      BY <1>s, FirstType DEF ControlPoint
    <3> QED
      BY <3>1, <3>2, <3>3 DEF Locals
  <2>2. IdleInv' /\ CountInv' /\ DResolvInv' /\ CircInv' /\ CircularInv'
        /\ Complete'
    BY DEF IdleInv, CountInv, DResolvInv, CircInv, CircularInv, Complete
  <2>3. CountDown'
    <3>1. Uninitialized = InChain
      BY <1>n DEF Uninitialized, IdleInv
    <3>2. icount' = Cardinality(Uninitialized')
      BY <1>u, <3>1, FiniteInChain DEF Sound
    <3> QED
      BY <3>2 DEF CountDown, Uninitialized
  <2>4. WalkInv'
    BY <1>p, PassedNone DEF WalkInv
  <2>5. DependenciesFirst'
    BY SameOrder DEF Running
  <2> QED
    BY <1>s, <2>1, <2>2, <2>3, <2>4, <2>5
<1>2. CASE SkipInitialized
  <2> USE <1>2 DEF SkipInitialized, chainVars
  <2>0. im \in InChain
    BY DEF Locals
  <2>1. Locals'
    BY <1>s, <2>0, NextType DEF Locals
  <2>2. IdleInv' /\ DResolvInv' /\ CircInv' /\ CircularInv' /\ Complete'
    BY DEF IdleInv, DResolvInv, CircInv, CircularInv, Complete
  <2>3. CountInv' /\ CountDown'
    BY <1>s DEF CountInv, CountDown
  <2>4. WalkInv'
    BY <1>s, <1>p, <2>0, PassedNext DEF WalkInv, Passed
  <2>5. DependenciesFirst'
    BY SameOrder DEF Running
  <2> QED
    BY <1>s, <2>1, <2>2, <2>3, <2>4, <2>5
<1>3. CASE StartDResolv
  <2> USE <1>3 DEF StartDResolv, chainVars
  <2>0. im \in InChain
    BY DEF Locals
  <2>1. Locals'
    BY <1>s DEF Locals, ControlPoint
  <2>2. IdleInv' /\ CircInv' /\ CircularInv' /\ Complete'
    BY DEF IdleInv, CircInv, CircularInv, Complete
  <2>3. CountInv' /\ CountDown'
    BY <1>s DEF CountInv, CountDown
  <2>4. WalkInv'
    BY <1>s, <1>p DEF WalkInv, Passed
  <2>5. DResolvInv'
    BY <1>s, <2>0 DEF DResolvInv, dependenciesInitialized
  <2>6. DependenciesFirst'
    <3>1. \A y \in Dependencies(im) : fHasInitialized[y]
      BY DependenciesOf
    <3>2. \A x : Dependencies(x)' = Dependencies(x)
      BY Static
    <3> QED
      BY <1>s, <3>1, <3>2 DEF DependenciesFirst, Running
  <2> QED
    BY <1>s, <2>1, <2>2, <2>3, <2>4, <2>5, <2>6
<1>4. CASE EndDResolv
  <2> USE <1>4 DEF EndDResolv
  <2>0. im \in InChain /\ im \in Uninitialized
        /\ fHasInitialized \in [Image -> BOOLEAN]
    BY DEF DResolvInv, Uninitialized, Locals
  <2>1. Locals'
    <3>1. fHasInitialized' \in [Image -> BOOLEAN]
      BY <2>0
    <3>2. hasUnitializedDependencies' \in BOOLEAN
          /\ runCircularInitializer' \in BOOLEAN
      BY Zenon DEF Locals
    <3>3. ccount' \in Nat /\ icount' \in Int
      BY DEF Locals
    <3>4. ipc' \in ControlPoint /\ im' \in (InChain \cup {NULL})'
      BY <1>s, <2>0, NextType DEF ControlPoint
    <3> QED
      BY <3>1, <3>2, <3>3, <3>4 DEF Locals
  <2>2. IdleInv' /\ DResolvInv' /\ CircInv' /\ CircularInv' /\ Complete'
    BY DEF IdleInv, DResolvInv, CircInv, CircularInv, Complete
  <2>3. CountInv'
    BY <1>s DEF CountInv
  <2>4. CountDown'
    <3>1. Uninitialized' = Uninitialized \ {im}
      BY <1>s, <1>n, <2>0 DEF Uninitialized
    <3>2. Cardinality(Uninitialized') = Cardinality(Uninitialized) - 1
      BY <2>0, <3>1, FiniteUninitialized, FS_RemoveElement
    <3> QED
      BY <3>2 DEF CountDown, Uninitialized
  <2>5. WalkInv'
    BY <1>s, <1>n, <1>p, <2>0, PassedNext DEF WalkInv, Passed
  <2>6. DependenciesFirst'
    <3>1. \A y \in Dependencies(im) : fHasInitialized[y]
      BY DependenciesOf DEF DResolvInv
    <3>2. \A x : Dependencies(x)' = Dependencies(x)
      BY Static
    <3>3. \A y : fHasInitialized[y] => fHasInitialized'[y]
      BY <2>0
    <3> QED
      BY <1>s, <1>n, <2>0, <3>1, <3>2, <3>3 DEF DependenciesFirst, Running
  <2> QED
    BY <1>s, <2>1, <2>2, <2>3, <2>4, <2>5, <2>6
<1>5. CASE GotoCircInit
  <2> USE <1>5 DEF GotoCircInit, chainVars
  <2>0. im \in InChain
    BY DEF Locals
  <2>1. Locals'
    BY <1>s, FirstType DEF Locals, ControlPoint
  <2>2. IdleInv' /\ DResolvInv' /\ CircularInv' /\ Complete' /\ CountDown'
        /\ WalkInv'
    BY DEF IdleInv, DResolvInv, CircularInv, Complete, CountDown, WalkInv
  <2>3. CountInv'
    BY <1>s DEF CountInv
  <2>4. CircInv'
    <3>1. icount = Cardinality(Uninitialized)
      BY DEF CountDown, Uninitialized
    <3>2. Uninitialized # {}
      <4>1. PICK k \in 1..Len(fDependencies[im]) :
              ~fHasInitialized[fDependencies[im][k]]
        BY DEF dependenciesInitialized
      <4> QED
        BY <2>0, <4>1 DEF Uninitialized, Sound
    <3>3. ccount > 0
      BY <3>1, <3>2, FiniteUninitialized, FS_EmptySet
    <3>4. runCircularInitializer /\ Mutual
      BY <3>3 DEF CountInv
    <3>5. \A x : ~Passed(x)'
      BY <1>p, PassedNone
    <3> QED
      BY <1>s, <3>4, <3>5 DEF CircInv
  <2>5. DependenciesFirst'
    BY SameOrder DEF Running
  <2> QED
    BY <1>s, <2>1, <2>2, <2>3, <2>4, <2>5
<1>6. CASE Postpone
  <2> USE <1>6 DEF Postpone, chainVars
  <2> DEFINE circ == CircularDependencies(im)
  <2>0. im \in InChain
    BY DEF Locals
  <2>a. /\ Cardinality(circ) \in Nat
        /\ Cardinality(circ) = 0 <=> circ = {}
        /\ circ # {} => Mutual
    BY <2>0, CircularType
  <2>b. /\ ccount' \in Nat
        /\ ccount' > 0 <=> ccount + Cardinality(circ) > 0
    <3> DEFINE n == ccount + Cardinality(circ)
    <3>1. n \in Nat
      BY <2>a DEF Locals
    <3>2. ccount' = Count(n)
      OBVIOUS
    <3> HIDE DEF n
    <3>3. ccount' \in Nat /\ (ccount' > 0 <=> n > 0)
      BY <3>1, <3>2, CountType
    <3> QED
      BY <3>3 DEF n
  <2>c. /\ runCircularInitializer' = (runCircularInitializer \/ circ # {})
        /\ hasUnitializedDependencies'
             = (hasUnitializedDependencies \/ circ = {})
        /\ im' = nextImage(im)
        /\ fHasInitialized' = fHasInitialized /\ ipc' = ipc /\ icount' = icount
        /\ ipc = "run_init"
    OBVIOUS
  <2> HIDE <1>6 DEF circ
  <2>1. Locals'
    <3>1. hasUnitializedDependencies' \in BOOLEAN
          /\ runCircularInitializer' \in BOOLEAN
      BY <2>c
    <3>2. ipc' \in ControlPoint /\ im' \in (InChain \cup {NULL})'
      BY <1>s, <2>0, <2>c, NextType DEF Locals
    <3> QED
      BY <2>b, <2>c, <3>1, <3>2 DEF Locals
  <2>2. IdleInv' /\ DResolvInv' /\ CircInv' /\ CircularInv' /\ Complete'
    BY <2>c DEF IdleInv, DResolvInv, CircInv, CircularInv, Complete
  <2>3. CountInv'
    <3>1. ccount \in Nat
      BY DEF Locals
    <3>2. CASE circ = {}
      <4>1. ccount' > 0 <=> ccount > 0
        BY <2>a, <2>b, <3>1, <3>2
      <4>2. ccount = 0 => ccount' = 0
        BY <2>b, <3>1, <4>1
      <4>3. runCircularInitializer' = runCircularInitializer
        BY <2>c, <3>2 DEF Locals
      <4> QED
        BY <1>s, <2>c, <4>1, <4>2, <4>3 DEF CountInv
    <3>3. CASE circ # {}
      BY <1>s, <2>a, <2>c, <3>3 DEF CountInv
    <3> QED
      BY <3>2, <3>3
  <2>4. CountDown'
    BY <1>s, <2>c DEF CountDown
  <2>5. WalkInv'
    <3>1. SUFFICES ASSUME ~hasUnitializedDependencies',
                          NEW x \in InChain, Passed(x)'
                   PROVE  fHasInitialized[x] \/ (runCircularInitializer' /\ Mutual)
      BY <1>s, <2>c DEF WalkInv
    <3>2. circ # {} /\ ~hasUnitializedDependencies
      BY <2>c, <3>1
    <3>3. runCircularInitializer' /\ Mutual
      BY <2>a, <2>c, <3>2
    <3> QED
      BY <3>3
  <2>6. DependenciesFirst'
    BY <2>c, SameOrder DEF Running
  <2> QED
    BY <1>s, <2>1, <2>2, <2>3, <2>4, <2>5, <2>6
<1>7. CASE EndOfWalk
  <2> USE <1>7 DEF EndOfWalk, chainVars
  <2>1. Locals'
    <3>1. hasUnitializedDependencies' \in BOOLEAN
          /\ runCircularInitializer' \in BOOLEAN
          /\ fHasInitialized' \in [Image -> BOOLEAN]
      BY Zenon DEF Locals
    <3>2. ipc' \in ControlPoint /\ im' \in (InChain \cup {NULL})'
      BY <1>s, FirstType DEF ControlPoint
    <3>3. ccount' \in Nat /\ icount' \in Int
      BY DEF Locals
    <3> QED
      BY <3>1, <3>2, <3>3 DEF Locals
  <2>2. IdleInv' /\ DResolvInv' /\ CircularInv' /\ Complete'
    BY DEF IdleInv, DResolvInv, CircularInv, Complete
  <2>3. CountInv' /\ CountDown'
    BY <1>s DEF CountInv, CountDown
  <2>p. \A x : ~Passed(x)'
    BY <1>p, PassedNone
  <2>4. WalkInv'
    BY <2>p DEF WalkInv
  <2>5. CircInv'
    <3>1. SUFFICES ASSUME ~hasUnitializedDependencies
                   PROVE  /\ runCircularInitializer \/ Uninitialized = {}
                          /\ Mutual \/ Uninitialized = {}
      BY <1>s, <1>u, <2>p DEF CircInv
    <3>2. \A x \in InChain : Passed(x)
      BY PassedAll DEF Passed
    <3>3. \A x \in InChain :
            fHasInitialized[x] \/ (runCircularInitializer /\ Mutual)
      BY <3>1, <3>2 DEF WalkInv
    <3> QED
      BY <3>3 DEF Uninitialized
  <2>6. DependenciesFirst'
    BY SameOrder DEF Running
  <2> QED
    BY <1>s, <2>1, <2>2, <2>3, <2>4, <2>5, <2>6
<1>8. CASE StartCircular
  <2> USE <1>8 DEF StartCircular, chainVars
  <2>0. im \in InChain /\ Mutual
    BY DEF Locals, CircInv, Uninitialized
  <2>1. Locals'
    BY <1>s DEF Locals, ControlPoint
  <2>2. IdleInv' /\ CountDown' /\ WalkInv' /\ DResolvInv' /\ Complete'
    BY DEF IdleInv, CountDown, WalkInv, DResolvInv, Complete
  <2>3. CountInv'
    BY <1>s DEF CountInv
  <2>4. CircInv'
    BY <1>s, <1>p, <1>u DEF CircInv, Passed
  <2>5. CircularInv' /\ DependenciesFirst'
    BY <1>s, <2>0 DEF CircularInv, DependenciesFirst
  <2> QED
    BY <1>s, <2>1, <2>2, <2>3, <2>4, <2>5
<1>9. CASE EndCircular
  <2> USE <1>9 DEF EndCircular
  <2>0. im \in InChain /\ Mutual /\ fHasInitialized \in [Image -> BOOLEAN]
    BY DEF CircularInv, Locals
  <2>1. Locals'
    <3>1. fHasInitialized' \in [Image -> BOOLEAN]
      BY <2>0
    <3>2. hasUnitializedDependencies' \in BOOLEAN
          /\ runCircularInitializer' \in BOOLEAN
      BY Zenon DEF Locals
    <3>3. ipc' \in ControlPoint /\ im' \in (InChain \cup {NULL})'
      BY <1>s, <2>0, NextType DEF ControlPoint
    <3>4. ccount' \in Nat /\ icount' \in Int
      BY DEF Locals
    <3> QED
      BY <3>1, <3>2, <3>3, <3>4 DEF Locals
  <2>2. IdleInv' /\ CountDown' /\ WalkInv' /\ DResolvInv' /\ Complete'
        /\ CircularInv'
    BY DEF IdleInv, CountDown, WalkInv, DResolvInv, Complete, CircularInv
  <2>3. CountInv' /\ DependenciesFirst'
    BY <1>s, <2>0 DEF CountInv, DependenciesFirst
  <2>4. CircInv'
    <3>1. Uninitialized' \subseteq Uninitialized
      BY <1>s, <1>n, <2>0 DEF Uninitialized
    <3>2. \A x \in InChain : Passed(x)' => fHasInitialized'[x]
      BY <1>n, <1>p, <2>0, PassedNext DEF CircInv, Passed
    <3>3. runCircularInitializer \/ Uninitialized = {}
      BY DEF CircInv
    <3> QED
      BY <1>s, <2>0, <3>1, <3>2, <3>3 DEF CircInv
  <2> QED
    BY <1>s, <2>1, <2>2, <2>3, <2>4
<1>10. CASE SkipCircular
  <2> USE <1>10 DEF SkipCircular, chainVars
  <2>0. im \in InChain
    BY DEF Locals
  <2>1. Locals'
    BY <1>s, <2>0, NextType DEF Locals
  <2>2. IdleInv' /\ CountDown' /\ WalkInv' /\ DResolvInv' /\ Complete'
        /\ CircularInv'
    BY DEF IdleInv, CountDown, WalkInv, DResolvInv, Complete, CircularInv
  <2>3. CountInv'
    BY <1>s DEF CountInv
  <2>4. CircInv'
    BY <1>s, <1>p, <1>u, <2>0, PassedNext DEF CircInv, Passed
  <2>5. DependenciesFirst'
    BY SameOrder DEF Running
  <2> QED
    BY <1>s, <2>1, <2>2, <2>3, <2>4, <2>5
<1>11. CASE Return
  <2> USE <1>11 DEF Return, chainVars
  <2>1. Locals'
    BY <1>s DEF Locals, ControlPoint
  <2>2. IdleInv' /\ CountDown' /\ WalkInv' /\ DResolvInv' /\ CircInv'
        /\ CircularInv'
    BY DEF IdleInv, CountDown, WalkInv, DResolvInv, CircInv, CircularInv
  <2>3. CountInv'
    BY <1>s DEF CountInv
  <2>4. Complete'
    <3>1. CASE ~runCircularInitializer
      BY <1>s, <3>1 DEF Complete, CircInv, Uninitialized
    <3>2. CASE im = NULL
      BY <1>s, <3>2, PassedAll DEF Complete, CircInv, Passed
    <3> QED
      BY <3>1, <3>2
  <2>5. DependenciesFirst'
    BY SameOrder DEF Running
  <2> QED
    BY <1>s, <2>1, <2>2, <2>3, <2>4, <2>5
<1>12. CASE UNCHANGED vars
  <2> USE <1>12 DEF vars, chainVars, initVars
  <2>1. Locals' /\ IdleInv' /\ DResolvInv'
    BY <1>s DEF Locals, IdleInv, DResolvInv, dependenciesInitialized
  <2>2. CountInv' /\ CountDown' /\ CircularInv' /\ Complete'
    BY <1>s DEF CountInv, CountDown, CircularInv, Complete
  <2>3. WalkInv' /\ CircInv'
    BY <1>s, <1>p, <1>u DEF WalkInv, CircInv, Passed
  <2>4. DependenciesFirst'
    <3>1. \A x : Dependencies(x)' = Dependencies(x)
      BY Static
    <3> QED
      BY <1>s, <3>1 DEF DependenciesFirst, Running
  <2> QED
    BY <1>s, <2>1, <2>2, <2>3, <2>4
<1> QED
  BY <1>1, <1>2, <1>3, <1>4, <1>5, <1>6, <1>7, <1>8, <1>9, <1>10, <1>11,
     <1>12 DEF Next, Initialize, Finished

---------------------------------------------------------------------------
(* Theorems. *)

\* The invariant above holds throughout initializeChain.
THEOREM Invariance == Spec => []IInv
<1>1. Init => IInv
  BY InitHolds
<1>2. IInv /\ [Next]_vars => IInv'
  BY StepPreserves
<1> QED
  BY <1>1, <1>2, PTL DEF Spec

\* The type invariant.
THEOREM TypeCorrect == Spec => []TypeOK
<1>1. IInv => TypeOK
  <2> SUFFICES ASSUME IInv PROVE TypeOK
    OBVIOUS
  <2>1. ChainTypeOK
    BY DEF IInv, Sound, Locals, ChainTypeOK
  <2>2. im \in Image \cup {NULL}
    BY InChainImage DEF IInv, Locals
  <2>3. InitTypeOK
    BY <2>2 DEF IInv, Locals, InitTypeOK
  <2> QED
    BY <2>1, <2>3 DEF TypeOK
<1> QED
  BY <1>1, Invariance, PTL

\* When initializeChain returns, every image is initialized, although the
\* local variable that decides whether circ_init does anything starts with
\* no value.
THEOREM InitializesEverything == Spec => []Complete
<1>1. IInv => Complete
  BY DEF IInv
<1> QED
  BY <1>1, Invariance, PTL

\* Initializers run in dependency order unless two images directly depend on
\* one another.
THEOREM InitializesInOrder == Spec => []DependenciesFirst
<1>1. IInv => DependenciesFirst
  BY DEF IInv
<1> QED
  BY <1>1, Invariance, PTL

\* icount is the number of images left.
THEOREM CountsDown == Spec => []CountDown
<1>1. IInv => CountDown
  BY DEF IInv
<1> QED
  BY <1>1, Invariance, PTL
=============================================================================
