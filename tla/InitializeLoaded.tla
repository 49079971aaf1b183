------------------------- MODULE InitializeLoaded -------------------------
(***************************************************************************)
(* initializeChain on its own, called on a chain that loading has finished *)
(* building and with initializers that do not call the linker.             *)
(***************************************************************************)
EXTENDS InitializeChain

CONSTANT Loaded    \* the chains and dependencies initializeChain is called on

\* What loading guarantees (see ChainSound and DependenciesLoaded of module
\* Linker): no object is linked in twice and every dependency is in the chain.
ASSUME LoadedAssumption ==
  \A l \in Loaded :
    /\ l.chain \in Seq(Image)
    /\ l.fDependencies \in [Image -> Seq(Image)]
    /\ \A i, j \in 1..Len(l.chain) : l.chain[i] = l.chain[j] => i = j
    /\ \A i \in 1..Len(l.chain) :
         \A k \in 1..Len(l.fDependencies[l.chain[i]]) :
           \E j \in 1..Len(l.chain) :
             l.chain[j] = l.fDependencies[l.chain[i]][k]

vars == <<chainVars, initVars>>

Init ==
  /\ \E l \in Loaded : chain = l.chain /\ fDependencies = l.fDependencies
  /\ fHasInitialized = [x \in Image |-> FALSE]
  /\ sImageCount = Len(chain)
  /\ ipc = "idle"
  /\ im = NULL
  /\ hasUnitializedDependencies = FALSE
  /\ runCircularInitializer = FALSE
  /\ ccount = 0
  /\ icount = 0

\* The caller goes on; nothing else happens here.
Finished == ipc = "done" /\ UNCHANGED vars

Next == Initialize \/ Finished

Spec == Init /\ [][Next]_vars

\* The linker runs on its own thread, which is scheduled; an initializer
\* returns.
FairSpec == Spec /\ WF_vars(Next)

TypeOK == ChainTypeOK /\ InitTypeOK

\* No image of the chain reaches itself through dependencies.
Acyclic ==
  LET Reach[n \in Nat, x \in Image] ==
        IF n = 0 THEN {} ELSE Dependencies(x) \cup
                              UNION {Reach[n - 1, y] : y \in Dependencies(x)}
  IN  \A x \in InChain : x \notin Reach[Cardinality(Image), x]

(***************************************************************************)
(* initializeChain returns when the dependencies have no cycle.            *)
(***************************************************************************)
AcyclicTerminates == Acyclic => <>(ipc = "done")

(***************************************************************************)
(* "Initializes all the images in the chain" (core/lnk.cpp:404), for any   *)
(* dependencies: it eventually has.                                        *)
(***************************************************************************)
InitializesAll == <>(ipc = "done" /\ \A x \in InChain : fHasInitialized[x])
===========================================================================
