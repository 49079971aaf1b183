----------------------------- MODULE MCThreads -----------------------------
(***************************************************************************)
(* The thread library beside mutexes and condition variables, one part at  *)
(* a time: `part' says which one a behaviour is about.                     *)
(***************************************************************************)
EXTENDS PthreadLife, WorkQueue, PthreadRwlock, PthreadTsd, TLC

CONSTANTS Parts,           \* the parts to check
          Pair, Triple,    \* names
          low              \* the queue of lower priority

VARIABLE part

allVars ==
  <<part, lifeVars, semVars, wqVars, rwVars, tsdVars, onceVars>>

\* Queue `low' has priority 1 and the others 0.
TwoPriorities == [q \in Queue |-> IF q = low THEN 1 ELSE 0]

\* What can be exchanged for one another.  The same names stand for the
\* threads, semaphores and jobs of different parts, so that there are few
\* permutations.
Alike == Permutations(Pair) \cup Permutations(Triple)

Init ==
  /\ part \in Parts
  /\ LifeInit /\ WorkInit /\ RwInit /\ TsdInit /\ OnceInit

Next ==
  \/ part = "life" /\ LifeNext
     /\ UNCHANGED <<part, wqVars, rwVars, tsdVars, onceVars>>
  \/ part = "work" /\ WorkNext
     /\ UNCHANGED <<part, lifeVars, semVars, rwVars, tsdVars, onceVars>>
  \/ part = "rwlock" /\ RwNext
     /\ UNCHANGED <<part, lifeVars, semVars, wqVars, tsdVars, onceVars>>
  \/ part = "tsd" /\ TsdNext
     /\ UNCHANGED <<part, lifeVars, semVars, wqVars, rwVars, onceVars>>
  \/ part = "once" /\ OnceNext
     /\ UNCHANGED <<part, lifeVars, semVars, wqVars, rwVars, tsdVars>>

Spec == Init /\ [][Next]_allVars

FairSpec == Spec /\ WorkFairness /\ RwFairness /\ OnceFairness
============================================================================
