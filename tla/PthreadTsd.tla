---------------------------- MODULE PthreadTsd ----------------------------
(***************************************************************************)
(* Thread specific data (core/pthread_tsd.c).  Keys are numbers: those     *)
(* below tsd_start are static, the others are created and deleted by the   *)
(* program.  A value is the generation of the key it was set under, 0 is   *)
(* NULL.  pthread_setspecific and the cleanup of a thread take no lock,    *)
(* and the destructors of the program run in the middle of the cleanup,    *)
(* where they may set values again.  pthread_once, which shares no state   *)
(* with them, is at the end of the module.                                 *)
(***************************************************************************)
EXTENDS Integers, FiniteSets

CONSTANTS TsdThread,
          tsd_first, tsd_start, tsd_end,   \* __pthread_tsd_first, _start and _end
          Iterations,          \* PTHREAD_DESTRUCTOR_ITERATIONS
          MaxGen               \* bound: how often a key is created

ASSUME TsdAssumption ==
  /\ tsd_first \in Nat \ {0} /\ tsd_start \in Nat /\ tsd_end \in Nat
  /\ tsd_first < tsd_start /\ tsd_start < tsd_end
  /\ Iterations \in Nat \ {0} /\ MaxGen \in Nat

Key == tsd_first..tsd_end - 1
Static == tsd_first..tsd_start - 1
Dynamic == tsd_start..tsd_end - 1

VARIABLES keys,        \* _pthread_keys, with the generation of each
          tsd_max,     \* __pthread_tsd_max
          tsd,         \* the tsd[] of each thread
          max_tsd_key,
          tpc,         \* where each thread is
          tloc,        \* its locals: the loops of the cleanup, key and value
          foreign,     \* history: a destructor got a value of another key
          late         \* history: threads with a value set too late

tsdVars == <<keys, tsd_max, tsd, max_tsd_key, tpc, tloc, foreign, late>>

NoLoop == [dynamic |-> TRUE, j |-> 0, i |-> 0, param |-> 0]

TsdInit ==
  /\ keys = [k \in Key |-> [created |-> FALSE, destructor |-> FALSE,
                          gen |-> IF k \in Static THEN 1 ELSE 0]]
  /\ tsd_max = tsd_first
  /\ tsd = [t \in TsdThread |-> [k \in Key |-> 0]]
  /\ max_tsd_key = [t \in TsdThread |-> 0]
  /\ tpc = [t \in TsdThread |-> "run"]
  /\ tloc = [t \in TsdThread |-> NoLoop]
  /\ foreign = FALSE /\ late = {}

Running(t) == tpc[t] = "run"
TsdGoto(t, l) == tpc' = [tpc EXCEPT ![t] = l]

\* The program deletes a key only when no thread is setting or destroying a
\* value of it.
KeyAtRest(k) ==
  \A t \in TsdThread : tpc[t] \in {"set", "call"} => tloc[t].i # k

\* pthread_key_create: the first slot that is free.  (The keys without a
\* destructor are static ones that were set and not registered.)
KeyCreate(t) ==
  /\ Running(t)
  /\ \E k \in Dynamic :
       /\ ~keys[k].created /\ \A l \in Dynamic : l < k => keys[l].created
       /\ keys[k].gen < MaxGen
       /\ keys' = [keys EXCEPT ![k] =
                     [created |-> TRUE, destructor |-> TRUE, gen |-> @.gen + 1]]
  /\ UNCHANGED <<tsd_max, tsd, max_tsd_key, tpc, tloc, foreign, late>>

\* Mutant: only the caller's value is cleared.
ClearOwn(t, k) == tsd' = [tsd EXCEPT ![t][k] = 0]

\* The values of a key in the threads of __pthread_head.
ClearAll(t, k) ==
  tsd' = [u \in TsdThread |-> IF tpc[u] = "gone" THEN tsd[u]
                              ELSE [tsd[u] EXCEPT ![k] = 0]]

\* pthread_key_delete
KeyDelete(t, k) ==
  /\ Running(t) /\ KeyAtRest(k) /\ keys[k].created
  /\ keys' = [keys EXCEPT ![k].created = FALSE]
  /\ ClearAll(t, k)
  /\ UNCHANGED <<tsd_max, max_tsd_key, tpc, tloc, foreign, late>>

\* pthread_key_init_np, before values are set.
KeyInitNp(t, k) ==
  /\ Running(t) /\ \A u \in TsdThread : tsd[u][k] = 0
  /\ keys' = [keys EXCEPT ![k].created = TRUE, ![k].destructor = TRUE]
  /\ tsd_max' = IF k > tsd_max THEN k ELSE tsd_max
  /\ UNCHANGED <<tsd, max_tsd_key, tpc, tloc, foreign, late>>

\* pthread_setspecific: looks at the key, ...
SetSpecific(t, k) ==
  /\ Running(t) /\ (k \in Static \/ keys[k].created)
  /\ TsdGoto(t, "set")
  /\ tloc' = [tloc EXCEPT ![t] = [NoLoop EXCEPT !.i = k]]
  /\ UNCHANGED <<keys, tsd_max, tsd, max_tsd_key, foreign, late>>

KeepMax(t, k) ==
  max_tsd_key' = [max_tsd_key EXCEPT ![t] = IF k > @ THEN k ELSE @]

\* ... and stores the value.
Store(t, k) ==
  /\ tsd' = [tsd EXCEPT ![t][k] = keys[k].gen]
  /\ keys' = IF k \in Static THEN [keys EXCEPT ![k].created = TRUE] ELSE keys
  /\ KeepMax(t, k)

SetStore(t) ==
  /\ tpc[t] = "set" /\ Store(t, tloc[t].i)
  /\ TsdGoto(t, "run")
  /\ tloc' = [tloc EXCEPT ![t] = NoLoop]
  /\ UNCHANGED <<tsd_max, foreign, late>>

---------------------------------------------------------------------------
(* _pthread_tsd_cleanup *)

TsdExit(t) ==
  /\ Running(t) /\ TsdGoto(t, "clean")
  /\ tloc' = [tloc EXCEPT ![t] = [NoLoop EXCEPT !.j = 1, !.i = tsd_start]]
  /\ UNCHANGED <<keys, tsd_max, tsd, max_tsd_key, foreign, late>>

LastKey(t) == IF tloc[t].dynamic THEN max_tsd_key[t] ELSE tsd_max
FirstKey(t) == IF tloc[t].dynamic THEN tsd_start ELSE tsd_first

\* One slot: its value is taken out before the destructor is called.
CleanSlot(t) ==
  /\ tpc[t] = "clean" /\ tloc[t].i <= LastKey(t)
  /\ LET k == tloc[t].i IN
       IF keys[k].created /\ tsd[t][k] # 0
       THEN /\ tsd' = [tsd EXCEPT ![t][k] = 0]
            /\ tloc' = [tloc EXCEPT ![t].param = tsd[t][k]]
            /\ TsdGoto(t, "call")
       ELSE /\ tloc' = [tloc EXCEPT ![t].i = @ + 1]
            /\ UNCHANGED <<tsd, tpc>>
  /\ UNCHANGED <<keys, tsd_max, max_tsd_key, foreign, late>>

Rounds == Iterations

\* The end of a round, of the dynamic keys, and of the cleanup.
CleanRound(t) ==
  /\ tpc[t] = "clean" /\ tloc[t].i > LastKey(t)
  /\ \/ /\ tloc[t].j < Rounds
        /\ tloc' = [tloc EXCEPT ![t].j = @ + 1, ![t].i = FirstKey(t)]
        /\ UNCHANGED <<tpc, max_tsd_key>>
     \/ /\ tloc[t].j >= Rounds /\ tloc[t].dynamic
        /\ max_tsd_key' = [max_tsd_key EXCEPT ![t] = 0]
        /\ tloc' = [tloc EXCEPT ![t] =
                      [dynamic |-> FALSE, j |-> 1, i |-> tsd_first, param |-> 0]]
        /\ UNCHANGED tpc
     \/ /\ tloc[t].j >= Rounds /\ ~tloc[t].dynamic
        /\ TsdGoto(t, "gone") /\ tloc' = [tloc EXCEPT ![t] = NoLoop]
        /\ UNCHANGED max_tsd_key
  /\ UNCHANGED <<keys, tsd_max, tsd, foreign, late>>

\* A value set now is not seen by a round to come.
TooLate(t, k) ==
  \/ ~tloc[t].dynamic /\ k \in Dynamic
  \/ tloc[t].j = Iterations /\ k <= tloc[t].i /\ (tloc[t].dynamic <=> k \in Dynamic)

\* The destructor is called, if there is one, and may set a value.
Destructor(t) ==
  /\ tpc[t] = "call"
  /\ LET k == tloc[t].i IN
       /\ foreign' = (foreign \/ (keys[k].destructor /\ keys[k].gen # tloc[t].param))
       /\ \/ UNCHANGED <<keys, tsd, max_tsd_key, late>>
          \/ /\ keys[k].destructor
             /\ \E l \in Key :
                  /\ l \in Static \/ keys[l].created
                  /\ Store(t, l)
                  /\ late' = IF TooLate(t, l) THEN late \cup {t} ELSE late
  /\ tloc' = [tloc EXCEPT ![t].i = @ + 1, ![t].param = 0]
  /\ TsdGoto(t, "clean")
  /\ UNCHANGED tsd_max

TsdNext ==
  \E t \in TsdThread :
    \/ KeyCreate(t)
    \/ \E k \in Dynamic : KeyDelete(t, k)
    \/ \E k \in Static : KeyInitNp(t, k)
    \/ \E k \in Key : SetSpecific(t, k)
    \/ SetStore(t) \/ TsdExit(t) \/ CleanSlot(t) \/ CleanRound(t) \/ Destructor(t)

TsdSpec == TsdInit /\ [][TsdNext]_tsdVars

---------------------------------------------------------------------------
(* Properties *)

\* A destructor is called with values that were set under its own key, also
\* when the slot was deleted and created again in between: deleting a key
\* clears its value in every thread.
OwnValues == ~foreign

\* When the cleanup of a thread is over no value of a key is left, unless a
\* destructor set it in the last round or while static keys were destroyed:
\* dynamic keys are not looked at again then.
NoneLeftBehind ==
  \A t \in TsdThread :
    tpc[t] = "gone" /\ t \notin late =>
      \A k \in Key : ~(keys[k].created /\ keys[k].destructor /\ tsd[t][k] # 0)

\* Values are destroyed under their own key, and all of them are.
TsdSound == OwnValues /\ NoneLeftBehind

---------------------------------------------------------------------------
(* pthread_once (core/pthread.c).  The spin lock of the once_control is
   held while init_routine runs; a thread that is cancelled in it gives the
   lock up in a cleanup handler, and the next caller starts again. *)

CONSTANT OnceThread

VARIABLES once,         \* the pthread_once_t
          opc,          \* where each thread is
          initialized   \* history: how often init_routine has returned

onceVars == <<once, opc, initialized>>

OnceInit ==
  /\ once = [lock |-> FALSE, sig |-> "init"]
  /\ opc = [t \in OnceThread |-> "idle"]
  /\ initialized = 0

OnceGoto(t, l) == opc' = [opc EXCEPT ![t] = l]

\* The program calls pthread_once.
OnceEnter(t) ==
  opc[t] = "idle" /\ OnceGoto(t, "call") /\ UNCHANGED <<once, initialized>>

\* Mutant: the lock is not held while init_routine runs.
OnceCallUnlocked(t) ==
  /\ opc[t] = "call"
  /\ OnceGoto(t, IF once.sig = "init" THEN "routine" ELSE "returned")
  /\ UNCHANGED <<once, initialized>>

\* pthread_once, up to init_routine or to its end.
OnceCall(t) ==
  /\ opc[t] = "call" /\ ~once.lock
  /\ IF once.sig = "init"
     THEN once' = [once EXCEPT !.lock = TRUE] /\ OnceGoto(t, "routine")
     ELSE UNCHANGED once /\ OnceGoto(t, "returned")
  /\ UNCHANGED initialized

OnceReturn(t) ==
  /\ opc[t] = "routine" /\ OnceGoto(t, "returned")
  /\ once' = [lock |-> FALSE, sig |-> "done"]
  /\ initialized' = initialized + 1

\* Mutant: no cancellation handler.
OnceCancelledLocked(t) ==
  opc[t] = "routine" /\ OnceGoto(t, "cancelled") /\ UNCHANGED <<once, initialized>>

\* __pthread_once_cancel_handler
OnceCancelled(t) ==
  /\ opc[t] = "routine" /\ OnceGoto(t, "cancelled")
  /\ once' = [once EXCEPT !.lock = FALSE]
  /\ UNCHANGED initialized

OnceNext ==
  \E t \in OnceThread :
    OnceEnter(t) \/ OnceCall(t) \/ OnceReturn(t) \/ OnceCancelled(t)

OnceSpec == OnceInit /\ [][OnceNext]_onceVars

\* init_routine ends, and a thread that spins gets the lock in the end.
OnceFairness ==
  \A t \in OnceThread :
    SF_onceVars(OnceCall(t)) /\ WF_onceVars(OnceReturn(t) \/ OnceCancelled(t))

\* pthread_once returns only when init_routine has been executed, which it is
\* once, however many threads call and are cancelled.
OnceExactly ==
  /\ initialized <= 1
  /\ (\E t \in OnceThread : opc[t] = "returned") => initialized = 1

\* Every call returns, also after another thread was cancelled in
\* init_routine with the lock in its hands.
OnceReturns == \A t \in OnceThread : opc[t] = "call" ~> opc[t] # "call"
============================================================================
