------------------------- MODULE PthreadTsd_proofs -------------------------
(***************************************************************************)
(* Proofs about thread specific data, for any number of threads, keys and  *)
(* rounds of destructors: values are destroyed under the key they were set *)
(* under, and none is left behind; and about pthread_once.                 *)
(***************************************************************************)
EXTENDS PthreadTsd, TLAPS

KeyRecords == [created : BOOLEAN, destructor : BOOLEAN, gen : Nat]
Loops == [dynamic : BOOLEAN, j : Nat, i : Nat, param : Nat]

TsdTypeOK ==
  /\ keys \in [Key -> KeyRecords]
  /\ tsd_max \in Static
  /\ tsd \in [TsdThread -> [Key -> Nat]]
  /\ max_tsd_key \in [TsdThread -> 0..tsd_end - 1]
  /\ tpc \in [TsdThread -> {"run", "set", "clean", "call", "gone"}]
  /\ tloc \in [TsdThread -> Loops]
  /\ foreign \in BOOLEAN
  /\ late \in SUBSET TsdThread

\* A static key that has a destructor was registered.
KeysInv == \A k \in Static : keys[k].destructor => keys[k].created /\ k <= tsd_max

\* The loops of the cleanup stay inside their keys, and a key is not deleted
\* while a value of it is set or destroyed.
LoopAt(t) ==
  /\ tpc[t] \in {"clean", "call"} =>
       /\ tloc[t].j <= Iterations
       /\ tloc[t].i >= IF tloc[t].dynamic THEN tsd_start ELSE tsd_first
  /\ tpc[t] = "call" =>
       /\ tloc[t].i \in IF tloc[t].dynamic THEN Dynamic ELSE Static
       /\ tloc[t].param = keys[tloc[t].i].gen
  /\ tpc[t] \in {"set", "call"} =>
       /\ tloc[t].i \in Key
       /\ tloc[t].i \in Static \/ keys[tloc[t].i].created

LoopInv == \A t \in TsdThread : LoopAt(t)

\* A thread has values of the present generation of a key, and no dynamic one
\* of a key that is deleted.
ValuesInv ==
  \A t \in TsdThread : tpc[t] # "gone" => \A k \in Key :
    tsd[t][k] # 0 => tsd[t][k] = keys[k].gen /\ (k \in Static \/ keys[k].created)

\* No dynamic value is set beyond max_tsd_key, until it is reset.
MaxInv ==
  \A t \in TsdThread :
    tpc[t] \in {"run", "set"} \/ (tpc[t] \in {"clean", "call"} /\ tloc[t].dynamic) =>
      \A k \in Dynamic : tsd[t][k] # 0 => k <= max_tsd_key[t]

\* The keys the cleanup of t does not look at again: the dynamic ones when it
\* is at the static ones, and those the last round has passed.
Passed(t) ==
  {k \in Key :
     \/ ~tloc[t].dynamic /\ k \in Dynamic
     \/ /\ tloc[t].j = Iterations /\ (tloc[t].dynamic <=> k \in Dynamic)
        /\ k < tloc[t].i \/ (tpc[t] = "call" /\ k = tloc[t].i)}

Cleaned(t) ==
  IF tpc[t] = "gone" THEN Key
  ELSE IF tpc[t] \in {"clean", "call"} THEN Passed(t) ELSE {}

\* Of those no value is left.
CleanInv ==
  \A t \in TsdThread \ late : \A k \in Cleaned(t) :
    k \in Dynamic \/ keys[k].destructor => tsd[t][k] = 0

TsdInv == TsdTypeOK /\ KeysInv /\ LoopInv /\ ValuesInv /\ MaxInv /\ CleanInv /\ OwnValues
---------------------------------------------------------------------------
\* The static keys come before the dynamic ones.
LEMMA KeySets ==
  /\ Static \subseteq Key /\ Dynamic \subseteq Key /\ Key \subseteq Nat
  /\ \A k \in Key : k \in Static <=> k \notin Dynamic
  /\ \A k \in Dynamic : k \notin Static
  /\ \A k \in Key : k \in Dynamic <=> k >= tsd_start
  /\ tsd_first \in Nat \ {0} /\ tsd_start \in Nat /\ tsd_end \in Nat /\ Iterations \in Nat \ {0}
  /\ tsd_first < tsd_start /\ tsd_start < tsd_end
BY TsdAssumption DEF Static, Dynamic, Key

\* What storing a value does: see pthread_setspecific.
LEMMA StoreShape ==
  ASSUME TsdTypeOK, NEW t \in TsdThread, NEW k \in Key, Store(t, k)
  PROVE  /\ keys' \in [Key -> KeyRecords]
         /\ \A l \in Key : /\ keys'[l].gen = keys[l].gen
                           /\ keys'[l].destructor = keys[l].destructor
                           /\ keys'[l].created = (keys[l].created \/ (l = k /\ k \in Static))
         /\ tsd' \in [TsdThread -> [Key -> Nat]]
         /\ \A u \in TsdThread, l \in Key :
              tsd'[u][l] = IF u = t /\ l = k THEN keys[k].gen ELSE tsd[u][l]
         /\ max_tsd_key' \in [TsdThread -> 0..tsd_end - 1]
         /\ \A u \in TsdThread : max_tsd_key'[u] >= max_tsd_key[u]
         /\ max_tsd_key'[t] >= k
<1>1. keys[k] \in KeyRecords /\ keys[k].gen \in Nat
  BY DEF TsdTypeOK, KeyRecords
<1>2. /\ keys' \in [Key -> KeyRecords]
      /\ \A l \in Key : /\ keys'[l].gen = keys[l].gen
                        /\ keys'[l].destructor = keys[l].destructor
                        /\ keys'[l].created = (keys[l].created \/ (l = k /\ k \in Static))
  <2>1. CASE k \in Static
    <3>1. keys' = [keys EXCEPT ![k].created = TRUE]
      BY <2>1 DEF Store
    <3> QED
      BY <2>1, <3>1 DEF TsdTypeOK, KeyRecords
  <2>2. CASE k \notin Static
    BY <2>2 DEF Store, TsdTypeOK, KeyRecords
  <2> QED
    BY <2>1, <2>2
<1>3. /\ tsd' \in [TsdThread -> [Key -> Nat]]
      /\ \A u \in TsdThread, l \in Key :
           tsd'[u][l] = IF u = t /\ l = k THEN keys[k].gen ELSE tsd[u][l]
  BY <1>1 DEF Store, TsdTypeOK
<1>4. /\ max_tsd_key' \in [TsdThread -> 0..tsd_end - 1]
      /\ \A u \in TsdThread : max_tsd_key'[u] >= max_tsd_key[u]
      /\ max_tsd_key'[t] >= k
  BY KeySets DEF Store, KeepMax, TsdTypeOK, Key
<1> QED
  BY <1>2, <1>3, <1>4

\* In a destructor, a value is set too late when its key is not looked at again.
LEMMA LateIsCleaned ==
  ASSUME TsdTypeOK, NEW t \in TsdThread, tpc[t] = "call", NEW k \in Key
  PROVE  TooLate(t, k) <=> k \in Cleaned(t)
<1>1. k \in Nat /\ tloc[t].i \in Nat
  BY KeySets DEF TsdTypeOK, Loops
<1>2. k <= tloc[t].i <=> k < tloc[t].i \/ k = tloc[t].i
  BY <1>1
<1>3. Cleaned(t) = Passed(t)
  BY DEF Cleaned
<1> QED
  BY <1>2, <1>3 DEF TooLate, Passed

\* What is cleaned depends on where the thread is only.
LEMMA CleanedStays ==
  ASSUME NEW t \in TsdThread, tpc'[t] = tpc[t], tloc'[t] = tloc[t]
  PROVE  Cleaned(t)' = Cleaned(t)
BY DEF Cleaned, Passed

\* It holds in the beginning.
LEMMA TsdInitInv == TsdInit => TsdInv
<1> SUFFICES ASSUME TsdInit PROVE TsdInv
  OBVIOUS
<1> USE KeySets DEF TsdInit
<1>1. TsdTypeOK
  <2>1. tsd_max \in Static /\ NoLoop \in Loops
    BY DEF Static, NoLoop, Loops
  <2>2. keys \in [Key -> KeyRecords]
    BY DEF KeyRecords
  <2>3. tsd \in [TsdThread -> [Key -> Nat]]
    OBVIOUS
  <2>4. /\ max_tsd_key \in [TsdThread -> 0..tsd_end - 1]
        /\ tpc \in [TsdThread -> {"run", "set", "clean", "call", "gone"}]
    OBVIOUS
  <2>5. tloc \in [TsdThread -> Loops] /\ foreign \in BOOLEAN /\ late \in SUBSET TsdThread
    BY <2>1
  <2> QED
    BY <2>1, <2>2, <2>3, <2>4, <2>5 DEF TsdTypeOK
<1>2. KeysInv /\ LoopInv /\ ValuesInv /\ MaxInv /\ CleanInv /\ OwnValues
  BY DEF KeysInv, LoopInv, LoopAt, ValuesInv, MaxInv, CleanInv, Cleaned, OwnValues
<1> QED
  BY <1>1, <1>2 DEF TsdInv

\* Keys are created, deleted and registered.
LEMMA KeyCreateStep ==
  ASSUME TsdInv, NEW t \in TsdThread, KeyCreate(t) PROVE TsdInv'
<1> USE DEF TsdInv
<1>1. PICK k \in Dynamic :
        /\ ~keys[k].created
        /\ keys' = [keys EXCEPT ![k] = [created |-> TRUE, destructor |-> TRUE, gen |-> @.gen + 1]]
  BY DEF KeyCreate
<1>2. UNCHANGED <<tsd_max, tsd, max_tsd_key, tpc, tloc, foreign, late>>
  BY DEF KeyCreate
<1>3. /\ keys' \in [Key -> KeyRecords] /\ keys'[k].created
      /\ \A l \in Key \ {k} : keys'[l] = keys[l]
  BY <1>1, KeySets DEF TsdTypeOK, KeyRecords
<1>4. TsdTypeOK' /\ KeysInv'
  BY <1>2, <1>3, KeySets DEF TsdTypeOK, KeysInv
<1>5. LoopInv'
  BY <1>1, <1>2, <1>3, KeySets DEF LoopInv, LoopAt
<1>6. ValuesInv'
  BY <1>1, <1>2, <1>3, KeySets DEF ValuesInv
<1>7. MaxInv' /\ OwnValues'
  BY <1>2 DEF MaxInv, OwnValues
<1>8. CleanInv'
  BY <1>1, <1>2, <1>3, KeySets DEF CleanInv, Cleaned, Passed
<1> QED
  BY <1>4, <1>5, <1>6, <1>7, <1>8

\* Deleting a key clears its values in every thread.
LEMMA KeyDeleteStep ==
  ASSUME TsdInv, NEW t \in TsdThread, NEW k \in Dynamic, KeyDelete(t, k) PROVE TsdInv'
<1> USE DEF TsdInv
<1>1. /\ KeyAtRest(k) /\ keys[k].created /\ keys' = [keys EXCEPT ![k].created = FALSE]
      /\ UNCHANGED <<tsd_max, max_tsd_key, tpc, tloc, foreign, late>>
  BY DEF KeyDelete
<1>2. /\ keys' \in [Key -> KeyRecords]
      /\ \A l \in Key : keys'[l].gen = keys[l].gen /\ keys'[l].destructor = keys[l].destructor
      /\ \A l \in Key \ {k} : keys'[l] = keys[l]
  BY <1>1, KeySets DEF TsdTypeOK, KeyRecords
<1>3. /\ tsd' \in [TsdThread -> [Key -> Nat]]
      /\ \A u \in TsdThread, l \in Key : tsd'[u][l] = IF tpc[u] # "gone" /\ l = k THEN 0 ELSE tsd[u][l]
  BY KeySets DEF KeyDelete, ClearAll, TsdTypeOK
<1>4. TsdTypeOK' /\ KeysInv'
  BY <1>1, <1>2, <1>3, KeySets DEF TsdTypeOK, KeysInv
<1>5. LoopInv'
  BY <1>1, <1>2, KeySets DEF LoopInv, LoopAt, KeyAtRest
<1>6. ValuesInv'
  BY <1>1, <1>2, <1>3 DEF ValuesInv
<1>7. MaxInv' /\ OwnValues'
  BY <1>1, <1>3, KeySets DEF MaxInv, OwnValues
<1>8. CleanInv'
  <2> SUFFICES ASSUME NEW u \in TsdThread \ late, NEW l \in Cleaned(u),
                      l \in Dynamic \/ keys[l].destructor
               PROVE  tsd'[u][l] = 0
    BY <1>1, <1>2, CleanedStays DEF CleanInv, Cleaned, Passed
  <2>1. tsd[u][l] = 0 /\ l \in Key
    BY DEF CleanInv, Cleaned, Passed
  <2> QED
    BY <1>3, <2>1
<1> QED
  BY <1>4, <1>5, <1>6, <1>7, <1>8

\* A record with both fields set.
LEMMA RegisteredRecord ==
  ASSUME NEW r \in KeyRecords
  PROVE  [[r EXCEPT !.created = TRUE] EXCEPT !.destructor = TRUE]
           = [created |-> TRUE, destructor |-> TRUE, gen |-> r.gen]
<1>1. ASSUME NEW q, q = [r EXCEPT !.created = TRUE]
      PROVE  q \in KeyRecords /\ q.gen = r.gen /\ q.created = TRUE
  BY <1>1 DEF KeyRecords
<1>2. ASSUME NEW q \in KeyRecords, q.created = TRUE, NEW p, p = [q EXCEPT !.destructor = TRUE]
      PROVE  p = [created |-> TRUE, destructor |-> TRUE, gen |-> q.gen]
  BY <1>2 DEF KeyRecords
<1> QED
  BY <1>1, <1>2

\* A static key is registered before it has values.
LEMMA KeyInitNpStep ==
  ASSUME TsdInv, NEW t \in TsdThread, NEW k \in Static, KeyInitNp(t, k) PROVE TsdInv'
<1> USE DEF TsdInv
<1>1. /\ \A u \in TsdThread : tsd[u][k] = 0
      /\ keys' = [keys EXCEPT ![k].created = TRUE, ![k].destructor = TRUE]
      /\ tsd_max' = IF k > tsd_max THEN k ELSE tsd_max
      /\ UNCHANGED <<tsd, max_tsd_key, tpc, tloc, foreign, late>>
  BY DEF KeyInitNp
<1>2. keys' = [keys EXCEPT ![k] = [created |-> TRUE, destructor |-> TRUE, gen |-> keys[k].gen]]
  <2>1. keys' = [[keys EXCEPT ![k].created = TRUE] EXCEPT ![k].destructor = TRUE]
    BY <1>1
  <2>2. k \in Key /\ keys \in [Key -> KeyRecords] /\ keys[k] \in KeyRecords
    BY KeySets DEF TsdTypeOK
  <2>3. keys' = [keys EXCEPT ![k] = [[keys[k] EXCEPT !.created = TRUE] EXCEPT !.destructor = TRUE]]
    BY <2>1, <2>2
  <2>4. [[keys[k] EXCEPT !.created = TRUE] EXCEPT !.destructor = TRUE]
          = [created |-> TRUE, destructor |-> TRUE, gen |-> keys[k].gen]
    BY <2>2, RegisteredRecord
  <2> QED
    BY <2>3, <2>4
<1>3. /\ keys' \in [Key -> KeyRecords] /\ keys'[k].gen = keys[k].gen /\ keys'[k].created
      /\ \A l \in Key \ {k} : keys'[l] = keys[l]
  BY <1>2, KeySets DEF TsdTypeOK, KeyRecords
<1>4. tsd_max' \in Static /\ tsd_max' >= tsd_max /\ tsd_max' >= k
  BY <1>1, KeySets DEF TsdTypeOK, Static
<1>5. TsdTypeOK' /\ KeysInv'
  BY <1>1, <1>3, <1>4, KeySets DEF TsdTypeOK, KeysInv
<1>6. LoopInv'
  BY <1>1, <1>3, KeySets DEF LoopInv, LoopAt
<1>7. ValuesInv'
  BY <1>1, <1>3, KeySets DEF ValuesInv
<1>8. MaxInv' /\ OwnValues'
  BY <1>1 DEF MaxInv, OwnValues
<1>9. CleanInv'
  <2> SUFFICES ASSUME NEW u \in TsdThread \ late, NEW l \in Cleaned(u),
                      l \in Dynamic \/ keys'[l].destructor
               PROVE  tsd[u][l] = 0
    BY <1>1, CleanedStays DEF CleanInv
  <2>1. l \in Key
    BY DEF Cleaned, Passed
  <2> QED
    BY <1>1, <1>3, <2>1 DEF CleanInv
<1> QED
  BY <1>5, <1>6, <1>7, <1>8, <1>9

\* pthread_setspecific looks at the key, and stores the value.
LEMMA SetSpecificStep ==
  ASSUME TsdInv, NEW t \in TsdThread, NEW k \in Key, SetSpecific(t, k) PROVE TsdInv'
<1> USE DEF TsdInv
<1>1. /\ tpc[t] = "run" /\ (k \in Static \/ keys[k].created)
      /\ tpc' = [tpc EXCEPT ![t] = "set"]
      /\ tloc' = [tloc EXCEPT ![t] = [NoLoop EXCEPT !.i = k]]
      /\ UNCHANGED <<keys, tsd_max, tsd, max_tsd_key, foreign, late>>
  BY DEF SetSpecific, Running, TsdGoto
<1>2. [NoLoop EXCEPT !.i = k] \in Loops /\ [NoLoop EXCEPT !.i = k].i = k
  BY KeySets DEF NoLoop, Loops
<1>3. /\ tpc'[t] = "set" /\ tloc'[t].i = k /\ tloc' \in [TsdThread -> Loops]
      /\ \A u \in TsdThread \ {t} : tpc'[u] = tpc[u] /\ tloc'[u] = tloc[u]
  BY <1>1, <1>2 DEF TsdTypeOK
<1>4. TsdTypeOK' /\ KeysInv' /\ OwnValues'
  BY <1>1, <1>3 DEF TsdTypeOK, KeysInv, OwnValues
<1>5. LoopInv'
  BY <1>1, <1>3 DEF LoopInv, LoopAt
<1>6. ValuesInv' /\ MaxInv'
  BY <1>1, <1>3 DEF ValuesInv, MaxInv
<1>7. CleanInv'
  BY <1>1, <1>3, CleanedStays DEF CleanInv, Cleaned
<1> QED
  BY <1>4, <1>5, <1>6, <1>7

\* The value that is stored is of the key as it is now.
LEMMA SetStoreStep ==
  ASSUME TsdInv, NEW t \in TsdThread, SetStore(t) PROVE TsdInv'
<1> USE DEF TsdInv
<1> DEFINE k == tloc[t].i
<1>1. /\ tpc[t] = "set" /\ Store(t, k) /\ tpc' = [tpc EXCEPT ![t] = "run"]
      /\ tloc' = [tloc EXCEPT ![t] = NoLoop]
      /\ UNCHANGED <<tsd_max, foreign, late>>
  BY DEF SetStore, TsdGoto
<1>2. k \in Key /\ (k \in Static \/ keys[k].created)
  BY <1>1 DEF LoopInv, LoopAt
<1> HIDE DEF k
<1>3. /\ keys' \in [Key -> KeyRecords]
      /\ \A l \in Key : /\ keys'[l].gen = keys[l].gen
                        /\ keys'[l].destructor = keys[l].destructor
                        /\ keys'[l].created = (keys[l].created \/ (l = k /\ k \in Static))
      /\ tsd' \in [TsdThread -> [Key -> Nat]]
      /\ \A u \in TsdThread, l \in Key :
           tsd'[u][l] = IF u = t /\ l = k THEN keys[k].gen ELSE tsd[u][l]
      /\ max_tsd_key' \in [TsdThread -> 0..tsd_end - 1]
      /\ \A u \in TsdThread : max_tsd_key'[u] >= max_tsd_key[u]
      /\ max_tsd_key'[t] >= k
  BY <1>1, <1>2, StoreShape
<1>4. /\ tpc'[t] = "run" /\ tloc' \in [TsdThread -> Loops]
      /\ \A u \in TsdThread \ {t} : tpc'[u] = tpc[u] /\ tloc'[u] = tloc[u]
  BY <1>1, KeySets DEF TsdTypeOK, NoLoop, Loops
<1>5. TsdTypeOK'
  BY <1>1, <1>3, <1>4 DEF TsdTypeOK
<1>6. KeysInv' /\ OwnValues'
  BY <1>1, <1>3, KeySets DEF KeysInv, OwnValues
<1>7. LoopInv'
  <2> SUFFICES ASSUME NEW u \in TsdThread, u # t
               PROVE  /\ tpc[u] = "call" => tloc[u].param = keys'[tloc[u].i].gen
                      /\ tpc[u] \in {"set", "call"} =>
                           tloc[u].i \in Static \/ keys'[tloc[u].i].created
    BY <1>4 DEF LoopInv, LoopAt
  <2> QED
    BY <1>3 DEF LoopInv, LoopAt
<1>8. ValuesInv'
  <2> SUFFICES ASSUME NEW u \in TsdThread, tpc'[u] # "gone", NEW l \in Key, tsd'[u][l] # 0
               PROVE  tsd'[u][l] = keys[l].gen /\ (l \in Static \/ keys[l].created)
    BY <1>3 DEF ValuesInv
  <2>1. tpc[u] # "gone"
    BY <1>1, <1>4
  <2>2. CASE u = t /\ l = k
    BY <1>2, <1>3, <2>2
  <2>3. CASE ~(u = t /\ l = k)
    BY <1>3, <2>1, <2>3 DEF ValuesInv
  <2> QED
    BY <2>2, <2>3
<1>9. MaxInv'
  BY <1>1, <1>3, <1>4, KeySets DEF MaxInv, TsdTypeOK
<1>10. CleanInv'
  <2> SUFFICES ASSUME NEW u \in TsdThread \ late, u # t, NEW l \in Cleaned(u),
                      l \in Dynamic \/ keys'[l].destructor
               PROVE  tsd'[u][l] = 0
    BY <1>1, <1>4, CleanedStays DEF CleanInv, Cleaned
  <2>1. l \in Key
    BY DEF Cleaned, Passed
  <2> QED
    BY <1>3, <2>1 DEF CleanInv
<1> QED
  BY <1>5, <1>6, <1>7, <1>8, <1>9, <1>10

\* The loop of the cleanup, at a key.
LEMMA LoopStarts ==
  ASSUME NEW i \in Nat
  PROVE  [NoLoop EXCEPT !.j = 1, !.i = i] = [dynamic |-> TRUE, j |-> 1, i |-> i, param |-> 0]
<1>1. NoLoop \in Loops /\ NoLoop.dynamic = TRUE /\ NoLoop.param = 0
  BY DEF NoLoop, Loops
<1>2. ASSUME NEW r \in Loops, NEW q, q = [r EXCEPT !.j = 1, !.i = i]
      PROVE  q = [dynamic |-> r.dynamic, j |-> 1, i |-> i, param |-> r.param]
  BY <1>2 DEF Loops
<1> QED
  BY <1>1, <1>2

\* The cleanup begins, ...
LEMMA TsdExitStep ==
  ASSUME TsdInv, NEW t \in TsdThread, TsdExit(t) PROVE TsdInv'
<1> USE DEF TsdInv
<1> DEFINE first == [NoLoop EXCEPT !.j = 1, !.i = tsd_start]
<1>1. /\ tpc[t] = "run" /\ tpc' = [tpc EXCEPT ![t] = "clean"]
      /\ tloc' = [tloc EXCEPT ![t] = first]
      /\ UNCHANGED <<keys, tsd_max, tsd, max_tsd_key, foreign, late>>
  BY DEF TsdExit, Running, TsdGoto
<1>2. first = [dynamic |-> TRUE, j |-> 1, i |-> tsd_start, param |-> 0]
  BY KeySets, LoopStarts
<1> HIDE DEF first
<1>3. /\ tpc'[t] = "clean" /\ tloc'[t].i = tsd_start /\ tloc'[t].dynamic /\ tloc'[t].j = 1
      /\ tloc' \in [TsdThread -> Loops]
      /\ \A u \in TsdThread \ {t} : tpc'[u] = tpc[u] /\ tloc'[u] = tloc[u]
  BY <1>1, <1>2, KeySets DEF TsdTypeOK, Loops
<1>4. TsdTypeOK' /\ KeysInv' /\ OwnValues'
  BY <1>1, <1>3 DEF TsdTypeOK, KeysInv, OwnValues
<1>5. LoopInv'
  BY <1>1, <1>3, KeySets DEF LoopInv, LoopAt
<1>6. ValuesInv' /\ MaxInv'
  BY <1>1, <1>3 DEF ValuesInv, MaxInv
<1>7. CleanInv'
  <2>1. Cleaned(t)' = {}
    <3>1. \A k \in Dynamic : ~(k < tsd_start)
      BY KeySets
    <3>2. Passed(t)' = {}
      BY <1>3, <3>1, KeySets DEF Passed
    <3> QED
      BY <1>3, <3>2 DEF Cleaned
  <2> QED
    BY <1>1, <1>3, <2>1, CleanedStays DEF CleanInv
<1> QED
  BY <1>4, <1>5, <1>6, <1>7

\* ... takes the value of a slot out, or passes it over, ...
LEMMA CleanSlotStep ==
  ASSUME TsdInv, NEW t \in TsdThread, CleanSlot(t) PROVE TsdInv'
<1> USE DEF TsdInv
<1> DEFINE k == tloc[t].i
<1>1. /\ tpc[t] = "clean" /\ k <= LastKey(t)
      /\ UNCHANGED <<keys, tsd_max, max_tsd_key, foreign, late>>
  BY DEF CleanSlot
<1>2. /\ tloc[t] \in Loops /\ tloc[t].j <= Iterations
      /\ k >= IF tloc[t].dynamic THEN tsd_start ELSE tsd_first
  BY <1>1 DEF LoopInv, LoopAt, TsdTypeOK
<1>3. k \in Key /\ k \in IF tloc[t].dynamic THEN Dynamic ELSE Static
  BY <1>1, <1>2, KeySets DEF LastKey, TsdTypeOK, Key, Static, Dynamic, Loops
<1>4. KeysInv' /\ OwnValues'
  BY <1>1 DEF KeysInv, OwnValues
<1>5. CASE keys[k].created /\ tsd[t][k] # 0
  <2>1. /\ tsd' = [tsd EXCEPT ![t][k] = 0]
        /\ tloc' = [tloc EXCEPT ![t] = [tloc[t] EXCEPT !.param = tsd[t][k]]]
        /\ tpc' = [tpc EXCEPT ![t] = "call"]
    BY <1>5 DEF CleanSlot, TsdGoto
  <2> HIDE DEF k
  <2>2. /\ tsd' \in [TsdThread -> [Key -> Nat]]
        /\ \A u \in TsdThread, l \in Key : tsd'[u][l] = IF u = t /\ l = k THEN 0 ELSE tsd[u][l]
    BY <1>3, <2>1 DEF TsdTypeOK
  <2>3. /\ tloc' \in [TsdThread -> Loops] /\ tpc'[t] = "call"
        /\ tloc'[t].i = tloc[t].i /\ tloc'[t].j = tloc[t].j
        /\ tloc'[t].dynamic = tloc[t].dynamic /\ tloc'[t].param = tsd[t][k]
        /\ \A u \in TsdThread \ {t} : tpc'[u] = tpc[u] /\ tloc'[u] = tloc[u]
    <3>1. tsd[t][k] \in Nat
      BY <1>3 DEF TsdTypeOK
    <3>2. ASSUME NEW q, q = [tloc[t] EXCEPT !.param = tsd[t][k]]
          PROVE  /\ q \in Loops /\ q.i = tloc[t].i /\ q.j = tloc[t].j
                 /\ q.dynamic = tloc[t].dynamic /\ q.param = tsd[t][k]
      BY <1>2, <3>1, <3>2 DEF Loops
    <3> QED
      BY <2>1, <3>2 DEF TsdTypeOK
  <2>4. TsdTypeOK'
    BY <1>1, <2>1, <2>2, <2>3 DEF TsdTypeOK
  <2>5. LoopInv'
    <3>1. tsd[t][k] = keys[k].gen
      BY <1>1, <1>3, <1>5 DEF ValuesInv, k
    <3> QED
      BY <1>1, <1>2, <1>3, <1>5, <2>3, <3>1 DEF LoopInv, LoopAt, k
  <2>6. ValuesInv' /\ MaxInv'
    BY <1>1, <2>2, <2>3, KeySets DEF ValuesInv, MaxInv
  <2>7. CleanInv'
    <3>1. Cleaned(t)' \subseteq Cleaned(t) \cup {k}
      BY <1>1, <2>3 DEF Cleaned, Passed, k
    <3>2. \A u \in TsdThread : Cleaned(u)' \subseteq Key
      BY DEF Cleaned, Passed
    <3> QED
      BY <1>1, <2>2, <2>3, <3>1, <3>2, CleanedStays DEF CleanInv
  <2> QED
    BY <1>4, <2>4, <2>5, <2>6, <2>7
<1>6. CASE ~(keys[k].created /\ tsd[t][k] # 0)
  <2>1. tloc' = [tloc EXCEPT ![t] = [tloc[t] EXCEPT !.i = @ + 1]] /\ UNCHANGED <<tsd, tpc>>
    BY <1>6 DEF CleanSlot
  <2>2. /\ tloc' \in [TsdThread -> Loops]
        /\ tloc'[t].i = k + 1 /\ tloc'[t].j = tloc[t].j
        /\ tloc'[t].dynamic = tloc[t].dynamic
        /\ \A u \in TsdThread \ {t} : tloc'[u] = tloc[u]
    <3>1. ASSUME NEW q, q = [tloc[t] EXCEPT !.i = @ + 1]
          PROVE  q \in Loops /\ q.i = k + 1 /\ q.j = tloc[t].j /\ q.dynamic = tloc[t].dynamic
      BY <1>2, <3>1 DEF Loops
    <3> QED
      BY <2>1, <3>1 DEF TsdTypeOK
  <2> HIDE DEF k
  <2>3. TsdTypeOK'
    BY <1>1, <2>1, <2>2 DEF TsdTypeOK
  <2>4. LoopInv'
    BY <1>1, <1>2, <1>3, <2>1, <2>2, KeySets DEF LoopInv, LoopAt, k
  <2>5. ValuesInv' /\ MaxInv'
    BY <1>1, <2>1, <2>2 DEF ValuesInv, MaxInv
  <2>6. CleanInv'
    <3>1. Cleaned(t)' \subseteq Cleaned(t) \cup {k}
      <4>1. \A l \in Key : l < k + 1 => l < k \/ l = k
        BY <1>3, KeySets
      <4> QED
        BY <1>1, <2>1, <2>2, <4>1 DEF Cleaned, Passed, k
    <3>2. k \in Dynamic \/ keys[k].destructor => tsd[t][k] = 0
      BY <1>1, <1>3, <1>6, KeySets DEF ValuesInv, KeysInv
    <3> QED
      BY <1>1, <2>1, <2>2, <3>1, <3>2, CleanedStays DEF CleanInv
  <2> QED
    BY <1>4, <2>3, <2>4, <2>5, <2>6
<1> QED
  BY <1>5, <1>6

\* ... begins another round, goes on to the static keys, or is over, ...
LEMMA CleanRoundStep ==
  ASSUME TsdInv, NEW t \in TsdThread, CleanRound(t) PROVE TsdInv'
<1> USE DEF TsdInv
<1>1. /\ tpc[t] = "clean" /\ tloc[t].i > LastKey(t)
      /\ UNCHANGED <<keys, tsd_max, tsd, foreign, late>>
  BY DEF CleanRound
<1>2. /\ tloc[t] \in Loops /\ tloc[t].j <= Iterations
      /\ tloc[t].i >= IF tloc[t].dynamic THEN tsd_start ELSE tsd_first
  BY <1>1 DEF LoopInv, LoopAt, TsdTypeOK
<1>3. KeysInv' /\ OwnValues'
  BY <1>1 DEF KeysInv, OwnValues
<1>a. Iterations \in Nat \ {0}
  BY KeySets
\* The keys of the loop are passed when it is over in the last round.
<1>4. ASSUME tloc[t].j >= Iterations, t \notin late,
             NEW l \in IF tloc[t].dynamic THEN Dynamic ELSE Static,
             l \in Dynamic \/ keys[l].destructor
      PROVE  tsd[t][l] = 0
  <2>1. tloc[t].j = Iterations /\ l \in Key /\ (tloc[t].dynamic <=> l \in Dynamic)
    BY <1>2, <1>4, KeySets DEF Loops
  <2>2. CASE l < tloc[t].i
    <3>1. l \in Cleaned(t)
      BY <1>1, <2>1, <2>2 DEF Cleaned, Passed
    <3> QED
      BY <1>4, <3>1 DEF CleanInv
  <2>3. CASE ~(l < tloc[t].i)
    <3>1. l > LastKey(t)
      BY <1>1, <1>2, <2>1, <2>3, KeySets DEF LastKey, TsdTypeOK, Loops
    <3>2. CASE tloc[t].dynamic
      BY <1>1, <2>1, <3>1, <3>2, KeySets DEF LastKey, MaxInv, TsdTypeOK
    <3>3. CASE ~tloc[t].dynamic
      BY <1>4, <3>1, <3>3, KeySets DEF LastKey, KeysInv, TsdTypeOK
    <3> QED
      BY <3>2, <3>3
  <2> QED
    BY <2>2, <2>3
<1>5. CASE /\ tloc[t].j < Rounds
           /\ tloc' = [tloc EXCEPT ![t].j = @ + 1, ![t].i = FirstKey(t)]
           /\ UNCHANGED <<tpc, max_tsd_key>>
  <2>1. /\ tloc' \in [TsdThread -> Loops]
        /\ tloc'[t].i = FirstKey(t) /\ tloc'[t].j = tloc[t].j + 1
        /\ tloc'[t].dynamic = tloc[t].dynamic
        /\ \A u \in TsdThread \ {t} : tloc'[u] = tloc[u]
    <3>1. FirstKey(t) \in Nat /\ tloc[t].j \in Nat
      BY <1>2, KeySets DEF FirstKey, Loops
    <3>2. tloc' = [tloc EXCEPT ![t] = [tloc[t] EXCEPT !.j = @ + 1, !.i = FirstKey(t)]]
      BY <1>5 DEF TsdTypeOK
    <3>3. ASSUME NEW q, q = [tloc[t] EXCEPT !.j = @ + 1, !.i = FirstKey(t)]
          PROVE  q = [dynamic |-> tloc[t].dynamic, j |-> tloc[t].j + 1, i |-> FirstKey(t),
                      param |-> tloc[t].param]
      BY <1>2, <3>1, <3>3 DEF Loops
    <3>4. [dynamic |-> tloc[t].dynamic, j |-> tloc[t].j + 1, i |-> FirstKey(t),
           param |-> tloc[t].param] \in Loops
      BY <1>2, <3>1 DEF Loops
    <3> QED
      BY <3>2, <3>3, <3>4 DEF TsdTypeOK
  <2>2. TsdTypeOK'
    BY <1>1, <1>5, <2>1 DEF TsdTypeOK
  <2>3. LoopInv'
    BY <1>1, <1>2, <1>5, <2>1, KeySets DEF LoopInv, LoopAt, Rounds, FirstKey, Loops
  <2>4. ValuesInv' /\ MaxInv'
    BY <1>1, <1>5, <2>1 DEF ValuesInv, MaxInv
  <2>5. CleanInv'
    <3>1. \A l \in Key : (tloc[t].dynamic <=> l \in Dynamic) => ~(l < FirstKey(t))
      BY KeySets DEF FirstKey, Key
    <3>2. Cleaned(t)' \subseteq Cleaned(t)
      BY <1>1, <1>5, <2>1, <3>1 DEF Cleaned, Passed
    <3> QED
      BY <1>1, <1>5, <2>1, <3>2, CleanedStays DEF CleanInv
  <2> QED
    BY <1>3, <2>2, <2>3, <2>4, <2>5
<1>6. CASE /\ tloc[t].j >= Rounds /\ tloc[t].dynamic
           /\ max_tsd_key' = [max_tsd_key EXCEPT ![t] = 0]
           /\ tloc' = [tloc EXCEPT ![t] =
                         [dynamic |-> FALSE, j |-> 1, i |-> tsd_first, param |-> 0]]
           /\ UNCHANGED tpc
  <2>1. /\ tloc' \in [TsdThread -> Loops]
        /\ tloc'[t].i = tsd_first /\ tloc'[t].j = 1 /\ ~tloc'[t].dynamic
        /\ \A u \in TsdThread \ {t} : tloc'[u] = tloc[u] /\ max_tsd_key'[u] = max_tsd_key[u]
    BY <1>6, KeySets DEF TsdTypeOK, Loops
  <2>2. TsdTypeOK'
    BY <1>1, <1>6, <2>1, KeySets DEF TsdTypeOK
  <2>3. LoopInv'
    <3>1. UNCHANGED <<tpc, keys>> /\ 1 <= Iterations /\ tpc'[t] = "clean"
      BY <1>1, <1>6, <1>a
    <3>2. LoopAt(t)'
      BY <2>1, <3>1, KeySets DEF LoopAt
    <3>3. ASSUME NEW u \in TsdThread \ {t} PROVE LoopAt(u)'
      BY <2>1, <3>1 DEF LoopInv, LoopAt
    <3> QED
      BY <3>2, <3>3 DEF LoopInv
  <2>4. ValuesInv' /\ MaxInv'
    BY <1>1, <1>6, <2>1 DEF ValuesInv, MaxInv
  <2>5. CleanInv'
    <3>1. Cleaned(t)' = Dynamic
      <4>1. \A l \in Key : ~(l < tsd_first)
        BY KeySets DEF Key
      <4> QED
        BY <1>1, <1>6, <2>1, <4>1, KeySets DEF Cleaned, Passed
    <3>2. \A l \in Dynamic : t \notin late => tsd[t][l] = 0
      BY <1>4, <1>6 DEF Rounds
    <3> QED
      BY <1>1, <1>6, <2>1, <3>1, <3>2, CleanedStays DEF CleanInv
  <2> QED
    BY <1>3, <2>2, <2>3, <2>4, <2>5
<1>7. CASE /\ tloc[t].j >= Rounds /\ ~tloc[t].dynamic
           /\ tpc' = [tpc EXCEPT ![t] = "gone"] /\ tloc' = [tloc EXCEPT ![t] = NoLoop]
           /\ UNCHANGED max_tsd_key
  <2>1. /\ tpc'[t] = "gone" /\ tloc' \in [TsdThread -> Loops]
        /\ \A u \in TsdThread \ {t} : tpc'[u] = tpc[u] /\ tloc'[u] = tloc[u]
    BY <1>7 DEF TsdTypeOK, NoLoop, Loops
  <2>2. TsdTypeOK'
    BY <1>1, <1>7, <2>1 DEF TsdTypeOK
  <2>3. LoopInv' /\ ValuesInv' /\ MaxInv'
    BY <1>1, <1>7, <2>1 DEF LoopInv, LoopAt, ValuesInv, MaxInv
  <2>4. CleanInv'
    <3>1. ASSUME t \notin late, NEW l \in Key, l \in Dynamic \/ keys[l].destructor
          PROVE  tsd[t][l] = 0
      <4>1. CASE l \in Static
        BY <1>4, <1>7, <3>1, <4>1 DEF Rounds
      <4>2. CASE l \in Dynamic
        BY <1>1, <1>7, <3>1, <4>2 DEF CleanInv, Cleaned, Passed
      <4> QED
        BY <4>1, <4>2, KeySets
    <3>2. Cleaned(t)' = Key
      BY <2>1 DEF Cleaned
    <3> QED
      BY <1>1, <2>1, <3>1, <3>2, CleanedStays DEF CleanInv
  <2> QED
    BY <1>3, <2>2, <2>3, <2>4
<1> QED
  BY <1>5, <1>6, <1>7 DEF CleanRound, TsdGoto

\* ... and calls the destructor of a value, which may set another one.
LEMMA DestructorStep ==
  ASSUME TsdInv, NEW t \in TsdThread, Destructor(t) PROVE TsdInv'
<1> USE DEF TsdInv
<1> DEFINE k == tloc[t].i
<1>1. /\ tpc[t] = "call" /\ tpc' = [tpc EXCEPT ![t] = "clean"] /\ UNCHANGED tsd_max
      /\ tloc' = [tloc EXCEPT ![t].i = @ + 1, ![t].param = 0]
      /\ foreign' = (foreign \/ (keys[k].destructor /\ keys[k].gen # tloc[t].param))
  BY DEF Destructor, TsdGoto
<1>2. /\ tloc[t] \in Loops /\ tloc[t].j <= Iterations
      /\ tloc[t].i >= IF tloc[t].dynamic THEN tsd_start ELSE tsd_first
      /\ tloc[t].param = keys[k].gen /\ k \in Nat
  BY <1>1 DEF LoopInv, LoopAt, TsdTypeOK, Loops
<1>3. OwnValues' /\ foreign' \in BOOLEAN
  BY <1>1, <1>2 DEF OwnValues, TsdTypeOK
<1>4. /\ tloc' \in [TsdThread -> Loops] /\ tpc'[t] = "clean"
      /\ tloc'[t].i = k + 1 /\ tloc'[t].j = tloc[t].j
      /\ tloc'[t].dynamic = tloc[t].dynamic
      /\ \A u \in TsdThread \ {t} : tpc'[u] = tpc[u] /\ tloc'[u] = tloc[u]
  <2>1. tloc' = [tloc EXCEPT ![t] = [tloc[t] EXCEPT !.i = @ + 1, !.param = 0]]
    BY <1>1 DEF TsdTypeOK
  <2>2. ASSUME NEW q, q = [tloc[t] EXCEPT !.i = @ + 1, !.param = 0]
        PROVE  q = [dynamic |-> tloc[t].dynamic, j |-> tloc[t].j, i |-> k + 1, param |-> 0]
    BY <1>2, <2>2 DEF Loops
  <2>3. [dynamic |-> tloc[t].dynamic, j |-> tloc[t].j, i |-> k + 1, param |-> 0] \in Loops
    BY <1>2 DEF Loops
  <2> QED
    BY <1>1, <2>1, <2>2, <2>3 DEF TsdTypeOK
<1> HIDE DEF k
<1>5. Cleaned(t)' = Cleaned(t)
  <2>1. \A l \in Key : l < k + 1 <=> l < k \/ l = k
    BY <1>2, KeySets
  <2> QED
    BY <1>1, <1>4, <2>1 DEF Cleaned, Passed, k
<1>6. \A u \in TsdThread : Cleaned(u)' = Cleaned(u) /\ Cleaned(u) \subseteq Key
  <2>1. ASSUME NEW u \in TsdThread PROVE Cleaned(u) \subseteq Key
    BY DEF Cleaned, Passed
  <2>2. ASSUME NEW u \in TsdThread \ {t} PROVE Cleaned(u)' = Cleaned(u)
    BY <1>4, CleanedStays
  <2> QED
    BY <1>5, <2>1, <2>2
<1>7. LoopAt(t)'
  <2>1. k + 1 >= IF tloc[t].dynamic THEN tsd_start ELSE tsd_first
    BY <1>2, KeySets DEF k, Loops
  <2> QED
    BY <1>2, <1>4, <2>1 DEF LoopAt
<1>8. CASE UNCHANGED <<keys, tsd, max_tsd_key, late>>
  <2>1. TsdTypeOK' /\ KeysInv'
    BY <1>1, <1>3, <1>4, <1>8 DEF TsdTypeOK, KeysInv
  <2>2. LoopInv'
    <3>1. ASSUME NEW u \in TsdThread \ {t} PROVE LoopAt(u)'
      BY <1>4, <1>8 DEF LoopInv, LoopAt
    <3> QED
      BY <1>7, <3>1 DEF LoopInv
  <2>3. ValuesInv' /\ MaxInv'
    BY <1>1, <1>4, <1>8 DEF ValuesInv, MaxInv
  <2>4. CleanInv'
    BY <1>6, <1>8 DEF CleanInv
  <2> QED
    BY <1>3, <2>1, <2>2, <2>3, <2>4
<1>9. ASSUME NEW l \in Key, l \in Static \/ keys[l].created, Store(t, l),
             late' = IF TooLate(t, l) THEN late \cup {t} ELSE late
      PROVE  TsdInv'
  <2>1. /\ keys' \in [Key -> KeyRecords]
        /\ \A m \in Key : /\ keys'[m].gen = keys[m].gen
                          /\ keys'[m].destructor = keys[m].destructor
                          /\ keys'[m].created = (keys[m].created \/ (m = l /\ l \in Static))
        /\ tsd' \in [TsdThread -> [Key -> Nat]]
        /\ \A u \in TsdThread, m \in Key :
             tsd'[u][m] = IF u = t /\ m = l THEN keys[l].gen ELSE tsd[u][m]
        /\ max_tsd_key' \in [TsdThread -> 0..tsd_end - 1]
        /\ \A u \in TsdThread : max_tsd_key'[u] >= max_tsd_key[u]
        /\ max_tsd_key'[t] >= l
    BY <1>9, StoreShape
  <2>2. TsdTypeOK'
    BY <1>1, <1>3, <1>4, <1>9, <2>1 DEF TsdTypeOK
  <2>3. KeysInv'
    BY <1>1, <2>1, KeySets DEF KeysInv
  <2>4. LoopInv'
    <3> SUFFICES ASSUME NEW u \in TsdThread, u # t
                 PROVE  /\ tpc[u] = "call" => tloc[u].param = keys'[tloc[u].i].gen
                        /\ tpc[u] \in {"set", "call"} =>
                             tloc[u].i \in Static \/ keys'[tloc[u].i].created
      BY <1>4, <1>7 DEF LoopInv, LoopAt
    <3> QED
      BY <2>1 DEF LoopInv, LoopAt
  <2>5. ValuesInv'
    <3> SUFFICES ASSUME NEW u \in TsdThread, tpc'[u] # "gone", NEW m \in Key, tsd'[u][m] # 0
                 PROVE  tsd'[u][m] = keys[m].gen /\ (m \in Static \/ keys[m].created)
      BY <2>1 DEF ValuesInv
    <3>1. tpc[u] # "gone"
      BY <1>1, <1>4
    <3>2. CASE u = t /\ m = l
      BY <1>9, <2>1, <3>2
    <3>3. CASE ~(u = t /\ m = l)
      BY <2>1, <3>1, <3>3 DEF ValuesInv
    <3> QED
      BY <3>2, <3>3
  <2>6. MaxInv'
    <3> SUFFICES ASSUME NEW u \in TsdThread, NEW m \in Dynamic, tsd'[u][m] # 0,
                        \/ tpc'[u] \in {"run", "set"}
                        \/ tpc'[u] \in {"clean", "call"} /\ tloc'[u].dynamic
                 PROVE  m <= max_tsd_key'[u]
      BY DEF MaxInv
    <3>1. m \in Nat /\ max_tsd_key'[u] \in Nat /\ max_tsd_key[u] \in Nat
      BY <2>1, KeySets DEF TsdTypeOK
    <3>2. CASE u = t /\ m = l
      BY <2>1, <3>1, <3>2
    <3>3. CASE ~(u = t /\ m = l)
      <4>1. m <= max_tsd_key[u]
        BY <1>1, <1>4, <2>1, <3>3, KeySets DEF MaxInv
      <4> QED
        BY <2>1, <3>1, <4>1
    <3> QED
      BY <3>2, <3>3
  <2>7. CleanInv'
    <3> SUFFICES ASSUME NEW u \in TsdThread \ late', NEW m \in Cleaned(u), m \in Key,
                        m \in Dynamic \/ keys[m].destructor
                 PROVE  tsd'[u][m] = 0
      BY <1>6, <2>1 DEF CleanInv
    <3>1. u \notin late
      BY <1>9
    <3>2. tsd[u][m] = 0
      BY <3>1 DEF CleanInv
    <3>3. ~(u = t /\ m = l)
      BY <1>1, <1>9, LateIsCleaned
    <3> QED
      BY <2>1, <3>2, <3>3
  <2> QED
    BY <1>3, <2>2, <2>3, <2>4, <2>5, <2>6, <2>7
<1> QED
  BY <1>8, <1>9 DEF Destructor

\* Every step keeps it.
LEMMA TsdStep == TsdInv /\ [TsdNext]_tsdVars => TsdInv'
<1> SUFFICES ASSUME TsdInv, [TsdNext]_tsdVars PROVE TsdInv'
  OBVIOUS
<1>1. CASE UNCHANGED tsdVars
  BY <1>1 DEF tsdVars, TsdInv, TsdTypeOK, KeysInv, LoopInv, LoopAt, ValuesInv, MaxInv,
              CleanInv, Cleaned, Passed, OwnValues
<1>2. CASE TsdNext
  BY <1>2, KeyCreateStep, KeyDeleteStep, KeyInitNpStep, SetSpecificStep, SetStoreStep,
     TsdExitStep, CleanSlotStep, CleanRoundStep, DestructorStep DEF TsdNext
<1> QED
  BY <1>1, <1>2

\* The destructors of pthread_key_create (core/pthread_tsd.c) are called with
\* values of their own key, also when the slot was deleted and created again,
\* and no value is left behind that was not set too late; for any number of
\* threads, keys and rounds.
THEOREM ValuesAreDestroyed == TsdSpec => []TsdSound
<1>1. TsdInit => TsdInv
  BY TsdInitInv
<1>2. TsdInv /\ [TsdNext]_tsdVars => TsdInv'
  BY TsdStep
<1>3. TsdInv => TsdSound
  <2> SUFFICES ASSUME TsdInv PROVE NoneLeftBehind
    BY DEF TsdInv, TsdSound
  <2>1. \A t \in TsdThread : tpc[t] = "gone" => Cleaned(t) = Key
    BY DEF Cleaned
  <2> QED
    BY <2>1, KeySets DEF TsdInv, CleanInv, NoneLeftBehind
<1> QED
  BY <1>1, <1>2, <1>3, PTL DEF TsdSpec

---------------------------------------------------------------------------
(* pthread_once *)

\* Who is in init_routine is alone there with the lock, and it has not been
\* executed; a call returns when it has been.
OnceInv ==
  /\ once \in [lock : BOOLEAN, sig : {"init", "done"}]
  /\ opc \in [OnceThread -> {"idle", "call", "routine", "returned", "cancelled"}]
  /\ initialized = IF once.sig = "done" THEN 1 ELSE 0
  /\ \A t \in OnceThread : opc[t] = "routine" =>
       /\ once.lock /\ once.sig = "init"
       /\ \A u \in OnceThread : opc[u] = "routine" => u = t
  /\ \A t \in OnceThread : opc[t] = "returned" => once.sig = "done"

\* pthread_once (core/pthread.c) executes init_routine exactly once, and
\* returns only when that has happened, however many threads call it and are
\* cancelled in init_routine.
THEOREM OnceIsExact == OnceSpec => []OnceExactly
<1>1. OnceInit => OnceInv
  BY DEF OnceInit, OnceInv
<1>2. OnceInv /\ [OnceNext]_onceVars => OnceInv'
  <2> SUFFICES ASSUME OnceInv, [OnceNext]_onceVars PROVE OnceInv'
    OBVIOUS
  <2> USE DEF OnceInv, OnceGoto
  <2>1. ASSUME NEW t \in OnceThread, OnceEnter(t) PROVE OnceInv'
    BY <2>1 DEF OnceEnter
  <2>2. ASSUME NEW t \in OnceThread, OnceCall(t) PROVE OnceInv'
    <3>1. CASE once.sig = "init"
      <4>1. /\ ~once.lock /\ once' = [once EXCEPT !.lock = TRUE]
            /\ opc' = [opc EXCEPT ![t] = "routine"] /\ UNCHANGED initialized
        BY <2>2, <3>1 DEF OnceCall
      <4>2. /\ once' \in [lock : BOOLEAN, sig : {"init", "done"}]
            /\ once'.lock = TRUE /\ once'.sig = "init"
        BY <3>1, <4>1
      <4>3. \A u \in OnceThread : opc[u] # "routine" /\ opc[u] # "returned"
        BY <3>1, <4>1
      <4> QED
        BY <3>1, <4>1, <4>2, <4>3
    <3>2. CASE once.sig # "init"
      BY <2>2, <3>2 DEF OnceCall
    <3> QED
      BY <3>1, <3>2
  <2>3. ASSUME NEW t \in OnceThread, OnceReturn(t) PROVE OnceInv'
    <3>1. once.sig = "init" /\ initialized' = 1 /\ once' = [lock |-> FALSE, sig |-> "done"]
      BY <2>3 DEF OnceReturn
    <3>2. \A u \in OnceThread : opc'[u] # "routine"
      BY <2>3 DEF OnceReturn
    <3> QED
      BY <2>3, <3>1, <3>2 DEF OnceReturn
  <2>4. ASSUME NEW t \in OnceThread, OnceCancelled(t) PROVE OnceInv'
    <3>1. \A u \in OnceThread : opc'[u] # "routine"
      BY <2>4 DEF OnceCancelled
    <3> QED
      BY <2>4, <3>1 DEF OnceCancelled
  <2>5. CASE UNCHANGED onceVars
    BY <2>5 DEF onceVars
  <2> QED
    BY <2>1, <2>2, <2>3, <2>4, <2>5 DEF OnceNext
<1>3. OnceInv => OnceExactly
  BY DEF OnceInv, OnceExactly
<1> QED
  BY <1>1, <1>2, <1>3, PTL DEF OnceSpec
============================================================================
