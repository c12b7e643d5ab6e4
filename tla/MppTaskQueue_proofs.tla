------------------------ MODULE MppTaskQueue_proofs ------------------------
(***************************************************************************)
(* Proofs about MppTaskQueue, for any sets of sessions, devices and tasks. *)
(*                                                                         *)
(*   TypeCorrect          the state has its type                           *)
(*   ExclusionInvariant   the inductive invariant, from which follow       *)
(*   OneTaskRunsAlways, CompletedOnceAlways, IrqServesItsTaskAlways        *)
(***************************************************************************)
EXTENDS MppTaskQueue, SequenceTheorems, TLAPS

-----------------------------------------------------------------------------
\* The elements of a list, and what list_del_init does to them: the element is
\* gone, the others stay, and none is listed twice.
LEMMA ListDelFacts ==
  ASSUME NEW S, NEW list \in Seq(S), NEW x,
         \A i, j \in DOMAIN list : list[i] = list[j] => i = j
  PROVE  /\ ListDel(list, x) \in Seq(S)
         /\ Listed(ListDel(list, x)) = Listed(list) \ {x}
         /\ \A i, j \in DOMAIN ListDel(list, x) :
              ListDel(list, x)[i] = ListDel(list, x)[j] => i = j
<1>1. CASE x \notin Listed(list)
  BY <1>1 DEF ListDel
<1>2. CASE x \in Listed(list)
  <2> DEFINE k == CHOOSE j \in DOMAIN list : list[j] = x
             n == Len(list)
             a == SubSeq(list, 1, k - 1)
             b == SubSeq(list, k + 1, n)
             r == a \o b
  <2>1. k \in 1 .. n /\ n \in Nat /\ list[k] = x /\ DOMAIN list = 1 .. n
    BY <1>2, LenProperties DEF Listed
  <2> HIDE DEF k, n, a, b
  <2>2. a \in Seq(S) /\ Len(a) = k - 1 /\ \A i \in 1 .. k - 1 : a[i] = list[i]
    <3>1. \A i \in 1 .. k - 1 : list[i] \in S
      BY <2>1, ElementOfSeq DEF n
    <3>2. /\ a \in Seq(S)
          /\ Len(a) = IF 1 <= k - 1 THEN (k - 1) - 1 + 1 ELSE 0
          /\ \A i \in 1 .. (k - 1) - 1 + 1 : a[i] = list[1 + i - 1]
      BY <2>1, <3>1, SubSeqProperties DEF a, b
    <3> QED  BY <2>1, <3>2
  <2>3. b \in Seq(S) /\ Len(b) = n - k /\ \A i \in 1 .. n - k : b[i] = list[k + i]
    <3>1. \A i \in k + 1 .. n : list[i] \in S
      BY <2>1, ElementOfSeq DEF n
    <3>2. /\ b \in Seq(S)
          /\ Len(b) = IF k + 1 <= n THEN n - (k + 1) + 1 ELSE 0
          /\ \A i \in 1 .. n - (k + 1) + 1 : b[i] = list[(k + 1) + i - 1]
      BY <2>1, <3>1, SubSeqProperties DEF a, b
    <3> QED  BY <2>1, <3>2
  <2>4. /\ r \in Seq(S) /\ Len(r) = n - 1 /\ DOMAIN r = 1 .. n - 1
        /\ \A i \in 1 .. n - 1 : r[i] = IF i < k THEN list[i] ELSE list[i + 1]
    <3>1. /\ r \in Seq(S) /\ Len(r) = Len(a) + Len(b)
          /\ \A i \in 1 .. Len(a) + Len(b) : r[i] = IF i <= Len(a) THEN a[i] ELSE b[i - Len(a)]
      BY <2>2, <2>3, ConcatProperties
    <3> HIDE DEF r
    <3>2. Len(r) = n - 1 /\ DOMAIN r = 1 .. n - 1
      BY <2>1, <2>2, <2>3, <3>1, LenProperties
    <3>3. ASSUME NEW i \in 1 .. n - 1
          PROVE  r[i] = IF i < k THEN list[i] ELSE list[i + 1]
      <4>1. r[i] = IF i <= k - 1 THEN a[i] ELSE b[i - (k - 1)]
        BY <2>1, <2>2, <2>3, <3>1
      <4>2. CASE i < k
        BY <2>1, <2>2, <4>1, <4>2
      <4>3. CASE ~(i < k)
        <5>1. i - (k - 1) \in 1 .. n - k /\ k + (i - (k - 1)) = i + 1
          BY <2>1, <4>3
        <5> QED  BY <2>1, <2>3, <4>1, <4>3, <5>1
      <4> QED  BY <4>2, <4>3
    <3> QED  BY <3>1, <3>2, <3>3
  <2>5. ListDel(list, x) = r
    BY <1>2 DEF ListDel, r, k, a, b, n
  <2> HIDE DEF r
  <2>6. Listed(r) = Listed(list) \ {x}
    <3>1. ASSUME NEW i \in 1 .. n - 1 PROVE r[i] \in Listed(list) \ {x}
      <4> DEFINE j == IF i < k THEN i ELSE i + 1
      <4>1. r[i] = list[j] /\ j \in 1 .. n /\ j # k
        BY <2>1, <2>4
      <4> HIDE DEF j
      <4> QED  BY <2>1, <4>1 DEF Listed
    <3>2. ASSUME NEW y \in Listed(list), y # x PROVE y \in Listed(r)
      <4>1. PICK i \in 1 .. n : list[i] = y
        BY <2>1 DEF Listed
      <4>2. CASE i < k
        BY <2>1, <2>4, <4>1, <4>2 DEF Listed
      <4>3. CASE i > k
        <5>1. i - 1 \in 1 .. n - 1 /\ r[i - 1] = list[i]
          BY <2>1, <2>4, <4>3
        <5> QED  BY <4>1, <5>1, <2>4 DEF Listed
      <4>4. i # k
        BY <2>1, <3>2, <4>1
      <4> QED  BY <2>1, <4>2, <4>3, <4>4
    <3>3. Listed(r) \subseteq Listed(list) \ {x}
      BY <2>4, <3>1 DEF Listed
    <3>4. Listed(list) \ {x} \subseteq Listed(r)
      BY <3>2
    <3> QED  BY <3>3, <3>4
  <2>7. ASSUME NEW i \in 1 .. n - 1, NEW j \in 1 .. n - 1, r[i] = r[j] PROVE i = j
    <3> DEFINE p == IF i < k THEN i ELSE i + 1
               q == IF j < k THEN j ELSE j + 1
    <3>1. list[p] = list[q] /\ p \in 1 .. n /\ q \in 1 .. n
      BY <2>1, <2>4, <2>7
    <3>2. p = q
      <4> HIDE DEF p, q
      <4> QED  BY <2>1, <3>1
    <3> QED  BY <2>1, <3>2
  <2> QED  BY <2>4, <2>5, <2>6, <2>7
<1> QED
  BY <1>1, <1>2

\* list_del_init keeps the type of a list that may hold an element twice.
LEMMA ListDelType ==
  ASSUME NEW S, NEW list \in Seq(S), NEW x
  PROVE  ListDel(list, x) \in Seq(S)
<1>1. CASE x \notin Listed(list)
  BY <1>1 DEF ListDel
<1>2. CASE x \in Listed(list)
  <2> DEFINE k == CHOOSE j \in DOMAIN list : list[j] = x
  <2>1. k \in 1 .. Len(list)
    BY <1>2 DEF Listed
  <2> HIDE DEF k
  <2>2. SubSeq(list, 1, k - 1) \in Seq(S)
    BY <2>1, SubSeqProperties, ElementOfSeq
  <2>3. SubSeq(list, k + 1, Len(list)) \in Seq(S)
    BY <2>1, SubSeqProperties, ElementOfSeq
  <2>4. SubSeq(list, 1, k - 1) \o SubSeq(list, k + 1, Len(list)) \in Seq(S)
    BY <2>2, <2>3, ConcatProperties
  <2> QED
    BY <1>2, <2>4 DEF ListDel, k
<1> QED
  BY <1>1, <1>2

\* A counter of a structure that is decremented by the number of freed tasks.
LEMMA DecrementType ==
  ASSUME NEW S, NEW f \in [S -> Int], NEW x, NEW n \in Int
  PROVE  [f EXCEPT ![x] = @ - n] \in [S -> Int]
<1>1. ASSUME NEW y \in S PROVE [f EXCEPT ![x] = @ - n][y] \in Int
  <2>1. CASE y = x   BY <2>1
  <2>2. CASE y # x   BY <2>2
  <2> QED  BY <2>1, <2>2
<1> QED  BY <1>1

\* mpp_power_off and kref_put take one off a counter.
LEMMA DecrementOneType ==
  ASSUME NEW S, NEW f \in [S -> Int], NEW x
  PROVE  [f EXCEPT ![x] = @ - 1] \in [S -> Int]
<1>1. ASSUME NEW y \in S PROVE [f EXCEPT ![x] = @ - 1][y] \in Int
  <2>1. CASE y = x   BY <2>1
  <2>2. CASE y # x   BY <2>2
  <2> QED  BY <2>1, <2>2
<1> QED  BY <1>1

\* kref_get, atomic_inc and mpp_power_on add one to a counter.
LEMMA IncrementType ==
  ASSUME NEW S, NEW f \in [S -> Int], NEW x
  PROVE  [f EXCEPT ![x] = @ + 1] \in [S -> Int]
<1>1. ASSUME NEW y \in S PROVE [f EXCEPT ![x] = @ + 1][y] \in Int
  <2>1. CASE y = x   BY <2>1
  <2>2. CASE y # x   BY <2>2
  <2> QED  BY <2>1, <2>2
<1> QED  BY <1>1

\* The last kref_put runs mpp_free_task: ref, session->task_count and
\* mpp->task_count keep their types.
LEMMA PutType ==
  ASSUME CountTypeOK, NEW t, Put(t)
  PROVE  CountTypeOK'
<1> DEFINE freed == IF LastRef(t) THEN 1 ELSE 0
<1>1. freed \in Int
  OBVIOUS
<1>2. /\ ref' = [ref EXCEPT ![t] = @ - 1]
      /\ taskCount' = [taskCount EXCEPT ![owner[t]] = @ - freed]
      /\ devCount' = [devCount EXCEPT ![DeviceOf(t)] = @ - freed]
  BY DEF Put
<1> HIDE DEF freed
<1>3. [ref EXCEPT ![t] = @ - 1] \in [Tasks -> Int]
  BY DecrementType DEF CountTypeOK
<1>4. [taskCount EXCEPT ![owner[t]] = @ - freed] \in [Sessions -> Int]
  BY <1>1, DecrementType DEF CountTypeOK
<1>5. [devCount EXCEPT ![DeviceOf(t)] = @ - freed] \in [Devices -> Int]
  BY <1>1, DecrementType DEF CountTypeOK
<1> QED
  BY <1>2, <1>3, <1>4, <1>5 DEF CountTypeOK

\* list_add_tail: the new element is the only addition, and it is not in the
\* list twice unless it was there before.
LEMMA AppendFacts ==
  ASSUME NEW S, NEW list \in Seq(S), NEW x \in S
  PROVE  /\ Append(list, x) \in Seq(S)
         /\ Listed(Append(list, x)) = Listed(list) \cup {x}
         /\ (\A i, j \in DOMAIN list : list[i] = list[j] => i = j) /\ x \notin Listed(list)
            => \A i, j \in DOMAIN Append(list, x) : Append(list, x)[i] = Append(list, x)[j] => i = j
<1> DEFINE r == Append(list, x)
<1>1. /\ r \in Seq(S) /\ Len(r) = Len(list) + 1 /\ DOMAIN r = 1 .. Len(list) + 1
      /\ \A i \in 1 .. Len(list) : r[i] = list[i]
      /\ r[Len(list) + 1] = x
  BY AppendProperties
<1>2. Len(list) \in Nat /\ DOMAIN list = 1 .. Len(list)
  OBVIOUS
<1> HIDE DEF r
<1>3. Listed(r) = Listed(list) \cup {x}
  <2>1. ASSUME NEW i \in 1 .. Len(list) + 1 PROVE r[i] \in Listed(list) \cup {x}
    <3>1. CASE i = Len(list) + 1  BY <1>1, <3>1
    <3>2. CASE i \in 1 .. Len(list)  BY <1>1, <1>2, <3>2 DEF Listed
    <3> QED  BY <1>2, <3>1, <3>2
  <2>2. Listed(list) \subseteq Listed(r)
    BY <1>1, <1>2 DEF Listed
  <2>3. x \in Listed(r)
    BY <1>1, <1>2 DEF Listed
  <2> QED  BY <1>1, <2>1, <2>2, <2>3 DEF Listed
<1>4. ASSUME \A i, j \in DOMAIN list : list[i] = list[j] => i = j, x \notin Listed(list),
             NEW i \in 1 .. Len(list) + 1, NEW j \in 1 .. Len(list) + 1, r[i] = r[j]
      PROVE  i = j
  BY <1>1, <1>2, <1>4 DEF Listed
<1> QED
  BY <1>1, <1>3, <1>4 DEF r

\* A list of tasks holds tasks.
LEMMA ListedType ==
  ASSUME NEW S, NEW list \in Seq(S)
  PROVE  Listed(list) \subseteq S
  BY ElementOfSeq DEF Listed

\* list_first_entry of a list that is not empty is in the list.
LEMMA HeadFacts ==
  ASSUME NEW S, NEW list \in Seq(S), list # <<>>
  PROVE  Head(list) \in S /\ Tail(list) \in Seq(S) /\ Head(list) \in Listed(list)
<1>1. Head(list) \in S /\ Tail(list) \in Seq(S)
  BY HeadTailProperties
<1>2. Len(list) >= 1 /\ Head(list) = list[1] /\ DOMAIN list = 1 .. Len(list) /\ Len(list) \in Nat
  BY EmptySeq
<1> QED  BY <1>1, <1>2 DEF Listed

-----------------------------------------------------------------------------
\* No task exists when the queue is created, so every field has its type and no
\* local pointer is in use.
LEMMA TypeInit == Init => TypeOK /\ PointersSet
  BY NoneAssumption DEF Init, InitFrom, TypeOK, SessionTypeOK, TaskTypeOK, CountTypeOK,
     QueueTypeOK, DeviceTypeOK, PointersSet

\* Every step of every thread keeps the types.  PointersSet is part of the
\* induction: the lists, flags and counters are indexed by the local pointers.
LEMMA TypeNext == TypeOK /\ PointersSet /\ [Next]_vars => (TypeOK /\ PointersSet)'
<1> SUFFICES ASSUME TypeOK, PointersSet, [Next]_vars PROVE (TypeOK /\ PointersSet)'
  OBVIOUS
<1> USE DEF TypeOK, userVars, sessVars, countVars, stateVars, queueVars, workerVars,
            irqVars, runVars
<1>1. ASSUME NEW s \in Sessions, Open(s)
      PROVE  (TypeOK /\ PointersSet)'
  BY <1>1 DEF Open, SessionTypeOK, TaskTypeOK, CountTypeOK, QueueTypeOK, DeviceTypeOK,
     PointersSet, Flag
<1>2. ASSUME NEW s \in Sessions, NEW d \in Devices, InitClientType(s, d)
      PROVE  (TypeOK /\ PointersSet)'
  <2>1. SessionTypeOK'  BY <1>2 DEF InitClientType, SessionTypeOK
  <2>2. PointersSet'
    BY <1>2 DEF InitClientType, PointersSet, SessionTypeOK, TaskTypeOK, QueueTypeOK
  <2>3. (TaskTypeOK /\ CountTypeOK /\ QueueTypeOK /\ DeviceTypeOK)'
    BY <1>2 DEF InitClientType, TaskTypeOK, CountTypeOK, QueueTypeOK, DeviceTypeOK
  <2> QED  BY <2>1, <2>2, <2>3
<1>3. ASSUME NEW s \in Sessions, Release(s)
      PROVE  (TypeOK /\ PointersSet)'
  <2>1. SessionTypeOK'  BY <1>3 DEF Release, SessionTypeOK
  <2>2. QueueTypeOK'
    BY <1>3, AppendFacts, NoneAssumption DEF Release, QueueTypeOK, SessionTypeOK
  <2>3. (TaskTypeOK /\ CountTypeOK /\ DeviceTypeOK /\ PointersSet)'
    BY <1>3 DEF Release, TaskTypeOK, CountTypeOK, DeviceTypeOK, PointersSet,
       SessionTypeOK, QueueTypeOK
  <2> QED  BY <2>1, <2>2, <2>3
<1>4. ASSUME NEW s \in Sessions, ReleaseNoClient(s)
      PROVE  (TypeOK /\ PointersSet)'
  BY <1>4 DEF ReleaseNoClient, SessionTypeOK, TaskTypeOK, CountTypeOK, QueueTypeOK,
     DeviceTypeOK, PointersSet, Flag
<1>5. ASSUME NEW s \in Sessions, NEW t \in Tasks, SendTask(s, t)
      PROVE  (TypeOK /\ PointersSet)'
  <2>1. SessionTypeOK'  BY <1>5, AppendFacts DEF SendTask, SessionTypeOK
  <2>2. TaskTypeOK'  BY <1>5 DEF SendTask, TaskTypeOK, Flag
  <2>3. CountTypeOK'  BY <1>5 DEF SendTask, CountTypeOK
  <2>4. PointersSet'
    BY <1>5, NoneAssumption DEF SendTask, PointersSet, SessionTypeOK, TaskTypeOK,
       QueueTypeOK
  <2>5. (QueueTypeOK /\ DeviceTypeOK)'
    BY <1>5 DEF SendTask, QueueTypeOK, DeviceTypeOK
  <2> QED  BY <2>1, <2>2, <2>3, <2>4, <2>5
<1>6. ASSUME NEW s \in Sessions, PushPending(s)
      PROVE  (TypeOK /\ PointersSet)'
  <2>1. SessionTypeOK'  BY <1>6 DEF PushPending, Get, SessionTypeOK
  <2>2. CountTypeOK'  BY <1>6, IncrementType DEF PushPending, Get, CountTypeOK
  <2>3. QueueTypeOK'
    BY <1>6, AppendFacts DEF PushPending, Get, QueueTypeOK, PointersSet
  <2>4. PointersSet'
    BY <1>6 DEF PushPending, Get, PointersSet, SessionTypeOK, TaskTypeOK, QueueTypeOK
  <2>5. (TaskTypeOK /\ DeviceTypeOK)'
    BY <1>6 DEF PushPending, Get, TaskTypeOK, DeviceTypeOK
  <2> QED  BY <2>1, <2>2, <2>3, <2>4, <2>5
<1>7. ASSUME NEW s \in Sessions, TriggerSubmitted(s)
      PROVE  (TypeOK /\ PointersSet)'
  <2>1. TaskTypeOK'  BY <1>7 DEF TriggerSubmitted, TaskTypeOK, Flag
  <2>2. (SessionTypeOK /\ QueueTypeOK /\ PointersSet)'
    BY <1>7 DEF TriggerSubmitted, SessionTypeOK, QueueTypeOK, PointersSet, TaskTypeOK
  <2>3. (CountTypeOK /\ DeviceTypeOK)'
    BY <1>7 DEF TriggerSubmitted, CountTypeOK, DeviceTypeOK
  <2> QED  BY <2>1, <2>2, <2>3
<1>8. ASSUME NEW s \in Sessions, PutSubmitted(s)
      PROVE  (TypeOK /\ PointersSet)'
  <2>1. SessionTypeOK'
    BY <1>8 DEF PutSubmitted, Put, LastRef, DeviceOf, SessionTypeOK
  <2>2. CountTypeOK'  BY <1>8, PutType DEF PutSubmitted
  <2>3. PointersSet'
    BY <1>8 DEF PutSubmitted, Put, LastRef, DeviceOf, PointersSet, SessionTypeOK,
       TaskTypeOK, QueueTypeOK
  <2>4. (TaskTypeOK /\ QueueTypeOK /\ DeviceTypeOK)'
    BY <1>8 DEF PutSubmitted, Put, LastRef, DeviceOf, TaskTypeOK, QueueTypeOK,
       DeviceTypeOK
  <2> QED  BY <2>1, <2>2, <2>3, <2>4
<1>9. ASSUME NEW s \in Sessions, Poll(s)
      PROVE  (TypeOK /\ PointersSet)'
  <2>1. SessionTypeOK'  BY <1>9, HeadFacts DEF Poll, SessionTypeOK
  <2>2. PointersSet'
    BY <1>9, HeadFacts DEF Poll, PointersSet, SessionTypeOK, TaskTypeOK, QueueTypeOK
  <2>3. (TaskTypeOK /\ CountTypeOK /\ QueueTypeOK /\ DeviceTypeOK)'
    BY <1>9 DEF Poll, TaskTypeOK, CountTypeOK, QueueTypeOK, DeviceTypeOK
  <2> QED  BY <2>1, <2>2, <2>3
<1>10. ASSUME NEW s \in Sessions, WaitDone(s)
      PROVE  (TypeOK /\ PointersSet)'
  BY <1>10 DEF WaitDone, SessionTypeOK, TaskTypeOK, CountTypeOK, QueueTypeOK,
     DeviceTypeOK, PointersSet, Flag
<1>11. ASSUME NEW s \in Sessions, WaitTimeout(s)
      PROVE  (TypeOK /\ PointersSet)'
  <2>1. SessionTypeOK'  BY <1>11 DEF WaitTimeout, AbortRequest, SessionTypeOK
  <2>2. TaskTypeOK'
    BY <1>11 DEF WaitTimeout, AbortRequest, TaskTypeOK, Flag, PointersSet
  <2>3. PointersSet'
    BY <1>11 DEF WaitTimeout, AbortRequest, PointersSet, SessionTypeOK, TaskTypeOK,
       QueueTypeOK
  <2>4. (CountTypeOK /\ QueueTypeOK /\ DeviceTypeOK)'
    BY <1>11 DEF WaitTimeout, AbortRequest, CountTypeOK, QueueTypeOK, DeviceTypeOK
  <2> QED  BY <2>1, <2>2, <2>3, <2>4
<1>12. ASSUME NEW s \in Sessions, PopSession(s)
      PROVE  (TypeOK /\ PointersSet)'
  <2>1. SessionTypeOK'
    BY <1>12, ListDelType DEF PopSession, Put, LastRef, DeviceOf, SessionTypeOK
  <2>2. CountTypeOK'  BY <1>12, PutType DEF PopSession
  <2>3. PointersSet'
    BY <1>12 DEF PopSession, Put, LastRef, DeviceOf, PointersSet, SessionTypeOK,
       TaskTypeOK, QueueTypeOK
  <2>4. (TaskTypeOK /\ QueueTypeOK /\ DeviceTypeOK)'
    BY <1>12 DEF PopSession, Put, LastRef, DeviceOf, TaskTypeOK, QueueTypeOK,
       DeviceTypeOK
  <2> QED  BY <2>1, <2>2, <2>3, <2>4
<1>13. ASSUME NEW d \in Devices, WorkerStart(d)
      PROVE  (TypeOK /\ PointersSet)'
  BY <1>13 DEF WorkerStart, SessionTypeOK, TaskTypeOK, CountTypeOK, QueueTypeOK,
     DeviceTypeOK, PointersSet, Flag
<1>14. ASSUME WorkerNoTask
      PROVE  (TypeOK /\ PointersSet)'
  BY <1>14 DEF WorkerNoTask, SessionTypeOK, TaskTypeOK, CountTypeOK, QueueTypeOK,
     DeviceTypeOK, PointersSet, Flag
<1>15. ASSUME WorkerDropAborted
      PROVE  (TypeOK /\ PointersSet)'
  <2>1. CountTypeOK'  BY <1>15, PutType DEF WorkerDropAborted
  <2>2. QueueTypeOK'
    BY <1>15, ListDelType DEF WorkerDropAborted, Put, LastRef, DeviceOf, QueueTypeOK
  <2>3. (SessionTypeOK /\ TaskTypeOK /\ DeviceTypeOK /\ PointersSet)'
    BY <1>15 DEF WorkerDropAborted, Put, LastRef, DeviceOf, SessionTypeOK, TaskTypeOK,
       DeviceTypeOK, PointersSet, QueueTypeOK
  <2> QED  BY <2>1, <2>2, <2>3
<1>16. ASSUME WorkerTake
      PROVE  (TypeOK /\ PointersSet)'
  BY <1>16, HeadFacts DEF WorkerTake, SessionTypeOK, TaskTypeOK, CountTypeOK,
     QueueTypeOK, DeviceTypeOK, PointersSet, Flag
<1>17. ASSUME WorkerBusy
      PROVE  (TypeOK /\ PointersSet)'
  BY <1>17 DEF WorkerBusy, SessionTypeOK, TaskTypeOK, CountTypeOK, QueueTypeOK,
     DeviceTypeOK, PointersSet, Flag
<1>18. ASSUME WorkerToRun
      PROVE  (TypeOK /\ PointersSet)'
  <2>1. TaskTypeOK'  BY <1>18 DEF WorkerToRun, TaskTypeOK, Flag
  <2>2. QueueTypeOK'  BY <1>18, ListDelType DEF WorkerToRun, QueueTypeOK, PointersSet
  <2>3. PointersSet'
    BY <1>18 DEF WorkerToRun, PointersSet, SessionTypeOK, TaskTypeOK, QueueTypeOK
  <2>4. (SessionTypeOK /\ CountTypeOK /\ DeviceTypeOK)'
    BY <1>18 DEF WorkerToRun, SessionTypeOK, CountTypeOK, DeviceTypeOK
  <2> QED  BY <2>1, <2>2, <2>3, <2>4
<1>19. ASSUME WorkerRun
      PROVE  (TypeOK /\ PointersSet)'
  <2>1. TaskTypeOK'  BY <1>19 DEF WorkerRun, DeviceOf, TaskTypeOK, Flag
  <2>2. QueueTypeOK'  BY <1>19 DEF WorkerRun, DeviceOf, QueueTypeOK
  <2>3. DeviceTypeOK'
    BY <1>19, IncrementType DEF WorkerRun, DeviceOf, DeviceTypeOK, QueueTypeOK
  <2>4. (SessionTypeOK /\ CountTypeOK /\ PointersSet)'
    BY <1>19 DEF WorkerRun, DeviceOf, SessionTypeOK, CountTypeOK, PointersSet,
       TaskTypeOK, QueueTypeOK
  <2> QED  BY <2>1, <2>2, <2>3, <2>4
<1>20. ASSUME WorkerRunFail
      PROVE  (TypeOK /\ PointersSet)'
  <2>1. CountTypeOK'  BY <1>20, PutType DEF WorkerRunFail
  <2>2. QueueTypeOK'  BY <1>20 DEF WorkerRunFail, Put, LastRef, DeviceOf, QueueTypeOK
  <2>3. (SessionTypeOK /\ TaskTypeOK /\ DeviceTypeOK /\ PointersSet)'
    BY <1>20 DEF WorkerRunFail, Put, LastRef, DeviceOf, SessionTypeOK, TaskTypeOK,
       DeviceTypeOK, PointersSet, QueueTypeOK
  <2> QED  BY <2>1, <2>2, <2>3
<1>21. ASSUME WorkerDetach
      PROVE  (TypeOK /\ PointersSet)'
  BY <1>21 DEF WorkerDetach, SessionTypeOK, TaskTypeOK, CountTypeOK, QueueTypeOK,
     DeviceTypeOK, PointersSet, Flag
<1>22. ASSUME WorkerEnd
      PROVE  (TypeOK /\ PointersSet)'
  BY <1>22 DEF WorkerEnd, SessionTypeOK, TaskTypeOK, CountTypeOK, QueueTypeOK,
     DeviceTypeOK, PointersSet, Flag
<1>23. ASSUME WorkerDeinitBusy
      PROVE  (TypeOK /\ PointersSet)'
  BY <1>23 DEF WorkerDeinitBusy, SessionTypeOK, TaskTypeOK, CountTypeOK, QueueTypeOK,
     DeviceTypeOK, PointersSet, Flag
<1>24. ASSUME WorkerDeinit
      PROVE  (TypeOK /\ PointersSet)'
  BY <1>24 DEF WorkerDeinit, SessionTypeOK, TaskTypeOK, CountTypeOK, QueueTypeOK,
     DeviceTypeOK, PointersSet, Flag
<1>25. ASSUME NEW d \in Devices, NEW st \in {"ok", "error"}, HwDone(d, st)
      PROVE  (TypeOK /\ PointersSet)'
  BY <1>25 DEF HwDone, SessionTypeOK, TaskTypeOK, CountTypeOK, QueueTypeOK,
     DeviceTypeOK, PointersSet, Flag
<1>26. ASSUME NEW d \in Devices, DevIrq(d)
      PROVE  (TypeOK /\ PointersSet)'
  BY <1>26 DEF DevIrq, SessionTypeOK, TaskTypeOK, CountTypeOK, QueueTypeOK,
     DeviceTypeOK, PointersSet
<1>26a. ASSUME NEW d \in Devices, DevIrqStatus(d)
      PROVE  (TypeOK /\ PointersSet)'
  <2>1. DeviceTypeOK'  BY <1>26a DEF DevIrqStatus, HandlerReturns, DeviceTypeOK
  <2>2. (SessionTypeOK /\ TaskTypeOK /\ CountTypeOK /\ QueueTypeOK /\ PointersSet)'
    BY <1>26a DEF DevIrqStatus, SessionTypeOK, TaskTypeOK, CountTypeOK, QueueTypeOK,
       PointersSet
  <2> QED  BY <2>1, <2>2
<1>26b. ASSUME NEW d \in Devices, DevIrqHandle(d)
      PROVE  (TypeOK /\ PointersSet)'
  <2>1. TaskTypeOK'  BY <1>26b DEF DevIrqHandle, TaskTypeOK, Flag
  <2>2. DeviceTypeOK'  BY <1>26b DEF DevIrqHandle, HandlerReturns, DeviceTypeOK
  <2>3. (SessionTypeOK /\ CountTypeOK /\ QueueTypeOK /\ PointersSet)'
    BY <1>26b DEF DevIrqHandle, SessionTypeOK, CountTypeOK, QueueTypeOK, PointersSet,
       TaskTypeOK
  <2> QED  BY <2>1, <2>2, <2>3
<1>26c. ASSUME NEW d \in Devices, DevIrqWild(d)
      PROVE  (TypeOK /\ PointersSet)'
  BY <1>26c DEF DevIrqWild, SessionTypeOK, TaskTypeOK, CountTypeOK, QueueTypeOK,
     DeviceTypeOK, PointersSet
<1>27. ASSUME NEW d \in Devices, DevIrqWake(d)
      PROVE  (TypeOK /\ PointersSet)'
  BY <1>27 DEF DevIrqWake, HandlerReturns, SessionTypeOK, TaskTypeOK, CountTypeOK, QueueTypeOK,
     DeviceTypeOK, PointersSet, Flag
<1>28. ASSUME NEW d \in Devices, Isr(d)
      PROVE  (TypeOK /\ PointersSet)'
  BY <1>28 DEF Isr, SessionTypeOK, TaskTypeOK, CountTypeOK, QueueTypeOK, DeviceTypeOK,
     PointersSet, Flag
<1>29. ASSUME NEW d \in Devices, IsrFinish(d)
      PROVE  (TypeOK /\ PointersSet)'
  <2>1. TaskTypeOK'  BY <1>29 DEF IsrFinish, DevReset, NeedsReset, TaskTypeOK, Flag
  <2>2. DeviceTypeOK'  BY <1>29 DEF IsrFinish, DevReset, NeedsReset, DeviceTypeOK
  <2>3. (SessionTypeOK /\ CountTypeOK /\ QueueTypeOK /\ PointersSet)'
    BY <1>29 DEF IsrFinish, DevReset, NeedsReset, SessionTypeOK, CountTypeOK,
       QueueTypeOK, PointersSet, TaskTypeOK
  <2> QED  BY <2>1, <2>2, <2>3
<1>30. ASSUME NEW d \in Devices, IsrPop(d)
      PROVE  (TypeOK /\ PointersSet)'
  <2>1. CountTypeOK'  BY <1>30, PutType DEF IsrPop
  <2>2. QueueTypeOK'  BY <1>30 DEF IsrPop, Put, LastRef, DeviceOf, QueueTypeOK
  <2>3. DeviceTypeOK'  BY <1>30 DEF IsrPop, Put, LastRef, DeviceOf, DeviceTypeOK
  <2>4. (SessionTypeOK /\ TaskTypeOK /\ PointersSet)'
    BY <1>30 DEF IsrPop, Put, LastRef, DeviceOf, SessionTypeOK, TaskTypeOK, PointersSet,
       QueueTypeOK
  <2> QED  BY <2>1, <2>2, <2>3, <2>4
<1>31. ASSUME NEW d \in Devices, IsrTrigger(d)
      PROVE  (TypeOK /\ PointersSet)'
  BY <1>31 DEF IsrTrigger, SessionTypeOK, TaskTypeOK, CountTypeOK, QueueTypeOK,
     DeviceTypeOK, PointersSet, Flag
<1>32. ASSUME NEW t \in Tasks, TimeoutStart(t)
      PROVE  (TypeOK /\ PointersSet)'
  <2>1. TaskTypeOK'  BY <1>32 DEF TimeoutStart, TaskTypeOK, Flag
  <2>2. (SessionTypeOK /\ CountTypeOK /\ QueueTypeOK /\ DeviceTypeOK /\ PointersSet)'
    BY <1>32 DEF TimeoutStart, SessionTypeOK, CountTypeOK, QueueTypeOK, DeviceTypeOK,
       PointersSet, TaskTypeOK
  <2> QED  BY <2>1, <2>2
<1>33. ASSUME NEW t \in Tasks, TimeoutReset(t)
      PROVE  (TypeOK /\ PointersSet)'
  <2>1. TaskTypeOK'  BY <1>33 DEF TimeoutReset, DevReset, DeviceOf, TaskTypeOK, Flag
  <2>2. DeviceTypeOK'
    <3>1. [powered EXCEPT ![DeviceOf(t)] = @ - 1] \in [Devices -> Int]
      BY DecrementOneType DEF DeviceTypeOK
    <3> QED  BY <1>33, <3>1 DEF TimeoutReset, DevReset, DeviceTypeOK
  <2>3. (SessionTypeOK /\ CountTypeOK /\ QueueTypeOK /\ PointersSet)'
    BY <1>33 DEF TimeoutReset, DevReset, DeviceOf, SessionTypeOK, CountTypeOK,
       QueueTypeOK, PointersSet, TaskTypeOK
  <2> QED  BY <2>1, <2>2, <2>3
<1>34. ASSUME NEW t \in Tasks, TimeoutPop(t)
      PROVE  (TypeOK /\ PointersSet)'
  <2>1. TaskTypeOK'  BY <1>34 DEF TimeoutPop, Put, LastRef, DeviceOf, TaskTypeOK, Flag
  <2>2. CountTypeOK'  BY <1>34, PutType DEF TimeoutPop
  <2>3. QueueTypeOK'  BY <1>34 DEF TimeoutPop, Put, LastRef, DeviceOf, QueueTypeOK
  <2>4. (SessionTypeOK /\ DeviceTypeOK /\ PointersSet)'
    BY <1>34 DEF TimeoutPop, Put, LastRef, DeviceOf, SessionTypeOK, DeviceTypeOK,
       PointersSet, TaskTypeOK, QueueTypeOK
  <2> QED  BY <2>1, <2>2, <2>3, <2>4
<1>35. CASE UNCHANGED vars
  BY <1>35 DEF vars, SessionTypeOK, TaskTypeOK, CountTypeOK, QueueTypeOK, DeviceTypeOK,
     PointersSet
<1> QED
  BY <1>1, <1>2, <1>3, <1>4, <1>5, <1>6, <1>7, <1>8, <1>9, <1>10, <1>11, <1>12, <1>13,
     <1>14, <1>15, <1>16, <1>17, <1>18, <1>19, <1>20, <1>21, <1>22, <1>23, <1>24, <1>25,
     <1>26, <1>26a, <1>26b, <1>26c, <1>27, <1>28, <1>29, <1>30, <1>31, <1>32, <1>33, <1>34, <1>35 DEF Next,
     Ioctl, Worker, HardIrq, IrqThread, Timeout

\* The state of the task service has its type in every reachable state, for any
\* number of sessions, devices and tasks: each counter, list and pointer of the
\* structures in mpp_common.h holds only what the code can put there.
THEOREM TypeCorrect == Spec => []TypeOK
<1>1. TypeOK /\ PointersSet /\ UNCHANGED vars => (TypeOK /\ PointersSet)'
  BY TypeNext
<1> QED
  BY <1>1, TypeInit, TypeNext, PTL DEF Spec

-----------------------------------------------------------------------------
\* A step that changes neither lists, flags nor timers, nor anything of a device,
\* and does not make a thread hold a task it is about to queue or to run.
LEMMA ExclusionFrame ==
  ASSUME TypeOK, ListsOK, StagesOK, TimersOK, CompletedOnce,
         UNCHANGED <<flags, timer, owner, sdev, qpending, qrunning>>,
         UNCHANGED <<curTask, itask, hw, irq, hpc, htask, woken, ipc>>,
         \A s \in Sessions : upc'[s] = "push" => upc[s] = "push" /\ utask'[s] = utask[s],
         wpc' \in {"prepare", "run"} => wpc' = wpc /\ wtask' = wtask
  PROVE  (ListsOK /\ StagesOK /\ TimersOK /\ CompletedOnce)'
<1>1. ListsOK'  BY DEF ListsOK, Fresh, Placed, DeviceOf
<1>2. StagesOK'  BY DEF StagesOK, Started, Placed, Has, DeviceOf
<1>3. TimersOK'  BY DEF TimersOK, Started, Placed, Has, DeviceOf
<1>4. CompletedOnce'  BY DEF CompletedOnce, Has
<1> QED  BY <1>1, <1>2, <1>3, <1>4

\* Nothing is queued, armed or executing when the queue is created.
LEMMA ExclusionInit == Init => ExclusionInv
<1> SUFFICES ASSUME Init PROVE ExclusionInv
  OBVIOUS
<1>1. TypeOK /\ PointersSet
  BY TypeInit
<1>2. Listed(qpending) = {} /\ DOMAIN qpending = {} /\ qrunning = {}
  BY DEF Init, InitFrom, Listed
<1>3. ListsOK
  BY <1>2, NoneAssumption DEF Init, InitFrom, ListsOK, Fresh
<1>4. StagesOK /\ TimersOK /\ CompletedOnce
  BY NoneAssumption DEF Init, InitFrom, StagesOK, TimersOK, CompletedOnce, Has
<1> QED
  BY <1>1, <1>3, <1>4 DEF ExclusionInv

\* Every step keeps the lists, the stages of a started task, its timer and its
\* flags in agreement.
LEMMA ExclusionNext == ExclusionInv /\ [Next]_vars => ExclusionInv'
<1> SUFFICES ASSUME ExclusionInv, [Next]_vars PROVE ExclusionInv'
  OBVIOUS
<1> USE NoneAssumption DEF ExclusionInv, TypeOK, userVars, sessVars, countVars, stateVars,
            queueVars, workerVars, irqVars, runVars
<1>0. (TypeOK /\ PointersSet)'
  BY TypeNext
<1>1. ASSUME NEW s \in Sessions, Open(s)
      PROVE  (ListsOK /\ StagesOK /\ TimersOK /\ CompletedOnce)'
  BY <1>1, ExclusionFrame DEF Open
<1>2. ASSUME NEW s \in Sessions, NEW d \in Devices, InitClientType(s, d)
      PROVE  (ListsOK /\ StagesOK /\ TimersOK /\ CompletedOnce)'
  <2>1. ListsOK'  BY <1>2 DEF InitClientType, ListsOK, Fresh, Placed, DeviceOf
  <2>2. StagesOK'
    BY <1>2 DEF InitClientType, StagesOK, Started, Placed, Has, DeviceOf
  <2>3. TimersOK'
    BY <1>2 DEF InitClientType, TimersOK, Started, Placed, Has, DeviceOf
  <2>4. CompletedOnce'  BY <1>2 DEF InitClientType, CompletedOnce, Has
  <2> QED  BY <2>1, <2>2, <2>3, <2>4
<1>3. ASSUME NEW s \in Sessions, Release(s)
      PROVE  (ListsOK /\ StagesOK /\ TimersOK /\ CompletedOnce)'
  BY <1>3, ExclusionFrame DEF Release
<1>4. ASSUME NEW s \in Sessions, ReleaseNoClient(s)
      PROVE  (ListsOK /\ StagesOK /\ TimersOK /\ CompletedOnce)'
  BY <1>4, ExclusionFrame DEF ReleaseNoClient
<1>5. ASSUME NEW s \in Sessions, NEW t \in Tasks, SendTask(s, t)
      PROVE  (ListsOK /\ StagesOK /\ TimersOK /\ CompletedOnce)'
  <2>1. ListsOK'
    BY <1>5 DEF SendTask, ListsOK, Fresh, Placed, Started, Has, DeviceOf, SessionTypeOK,
       TaskTypeOK, QueueTypeOK, DeviceTypeOK, PointersSet
  <2>2. StagesOK'  BY <1>5 DEF SendTask, StagesOK, Started, Placed, Has, DeviceOf
  <2>3. TimersOK'  BY <1>5 DEF SendTask, TimersOK, Started, Placed, Has, DeviceOf
  <2>4. CompletedOnce'  BY <1>5 DEF SendTask, CompletedOnce, Has
  <2> QED  BY <2>1, <2>2, <2>3, <2>4
<1>6. ASSUME NEW s \in Sessions, PushPending(s)
      PROVE  (ListsOK /\ StagesOK /\ TimersOK /\ CompletedOnce)'
  <2> DEFINE u == utask[s]
  <2>1. /\ u \in Tasks /\ Fresh(u) /\ Placed(u) /\ u \notin Listed(qpending) \cup qrunning
        /\ owner[u] = s
    BY <1>6 DEF PushPending, ListsOK, PointersSet, Placed, DeviceOf
  <2>2. /\ qpending' = Append(qpending, u) /\ upc' = [upc EXCEPT ![s] = "trigger"]
        /\ UNCHANGED <<flags, timer, owner, sdev, utask, qrunning, wpc, wtask>>
    BY <1>6 DEF PushPending
  <2>3. /\ Listed(qpending') = Listed(qpending) \cup {u}
        /\ \A i, j \in DOMAIN qpending' : qpending'[i] = qpending'[j] => i = j
    <3> HIDE DEF u
    <3>1. qpending \in Seq(Tasks)  BY DEF QueueTypeOK
    <3>2. /\ Listed(Append(qpending, u)) = Listed(qpending) \cup {u}
          /\ \A i, j \in DOMAIN Append(qpending, u) :
               Append(qpending, u)[i] = Append(qpending, u)[j] => i = j
      BY <2>1, <3>1, AppendFacts DEF ListsOK
    <3> QED  BY <2>2, <3>2
  <2>4. ListsOK'
    <3> HIDE DEF u
    <3> QED  BY <2>1, <2>2, <2>3 DEF ListsOK, Fresh, Placed, DeviceOf, PointersSet, SessionTypeOK, u
  <2>5. StagesOK' /\ TimersOK' /\ CompletedOnce'
    BY <1>6 DEF PushPending, StagesOK, TimersOK, CompletedOnce, Started, Placed, Has, DeviceOf
  <2> QED  BY <2>4, <2>5
<1>7. ASSUME NEW s \in Sessions, TriggerSubmitted(s)
      PROVE  (ListsOK /\ StagesOK /\ TimersOK /\ CompletedOnce)'
  <2>1. ListsOK'  BY <1>7 DEF TriggerSubmitted, ListsOK, Fresh, Placed, DeviceOf
  <2>2. StagesOK'
    BY <1>7 DEF TriggerSubmitted, StagesOK, Started, Placed, Has, DeviceOf
  <2>3. TimersOK'
    BY <1>7 DEF TriggerSubmitted, TimersOK, Started, Placed, Has, DeviceOf
  <2>4. CompletedOnce'  BY <1>7 DEF TriggerSubmitted, CompletedOnce, Has
  <2> QED  BY <2>1, <2>2, <2>3, <2>4
<1>8. ASSUME NEW s \in Sessions, PutSubmitted(s)
      PROVE  (ListsOK /\ StagesOK /\ TimersOK /\ CompletedOnce)'
  BY <1>8, ExclusionFrame DEF PutSubmitted, Put, SessionTypeOK
<1>9. ASSUME NEW s \in Sessions, Poll(s)
      PROVE  (ListsOK /\ StagesOK /\ TimersOK /\ CompletedOnce)'
  BY <1>9, ExclusionFrame DEF Poll, SessionTypeOK
<1>10. ASSUME NEW s \in Sessions, WaitDone(s)
      PROVE  (ListsOK /\ StagesOK /\ TimersOK /\ CompletedOnce)'
  BY <1>10, ExclusionFrame DEF WaitDone, SessionTypeOK
<1>11. ASSUME NEW s \in Sessions, WaitTimeout(s)
      PROVE  (ListsOK /\ StagesOK /\ TimersOK /\ CompletedOnce)'
  <2>1. ListsOK'
    BY <1>11 DEF WaitTimeout, AbortRequest, ListsOK, Fresh, Placed, DeviceOf
  <2>2. StagesOK'
    BY <1>11 DEF WaitTimeout, AbortRequest, StagesOK, Started, Placed, Has, DeviceOf
  <2>3. TimersOK'
    BY <1>11 DEF WaitTimeout, AbortRequest, TimersOK, Started, Placed, Has, DeviceOf
  <2>4. CompletedOnce'  BY <1>11 DEF WaitTimeout, AbortRequest, CompletedOnce, Has
  <2> QED  BY <2>1, <2>2, <2>3, <2>4
<1>12. ASSUME NEW s \in Sessions, PopSession(s)
      PROVE  (ListsOK /\ StagesOK /\ TimersOK /\ CompletedOnce)'
  BY <1>12, ExclusionFrame DEF PopSession, Put, SessionTypeOK
<1>13. ASSUME NEW d \in Devices, WorkerStart(d)
      PROVE  (ListsOK /\ StagesOK /\ TimersOK /\ CompletedOnce)'
  BY <1>13, ExclusionFrame DEF WorkerStart
<1>14. ASSUME WorkerNoTask
      PROVE  (ListsOK /\ StagesOK /\ TimersOK /\ CompletedOnce)'
  BY <1>14, ExclusionFrame DEF WorkerNoTask
<1>15. ASSUME WorkerDropAborted
      PROVE  (ListsOK /\ StagesOK /\ TimersOK /\ CompletedOnce)'
  <2> DEFINE q == ListDel(qpending, Head(qpending))
  <2>1. /\ qpending' = q /\ wpc' = "detach"
        /\ UNCHANGED <<flags, timer, owner, sdev, utask, upc, qrunning, wtask>>
    BY <1>15 DEF WorkerDropAborted
  <2>2. /\ Listed(q) \subseteq Listed(qpending)
        /\ \A i, j \in DOMAIN q : q[i] = q[j] => i = j
    BY ListDelFacts DEF ListsOK, QueueTypeOK
  <2>3. ListsOK'
    <3> HIDE DEF q
    <3> QED  BY <2>1, <2>2 DEF ListsOK, Fresh, Placed, DeviceOf
  <2>4. StagesOK' /\ TimersOK' /\ CompletedOnce'
    BY <1>15 DEF WorkerDropAborted, StagesOK, TimersOK, CompletedOnce, Started, Placed, Has, DeviceOf
  <2> QED  BY <2>3, <2>4
<1>16. ASSUME WorkerTake
      PROVE  (ListsOK /\ StagesOK /\ TimersOK /\ CompletedOnce)'
  <2>1. Head(qpending) \in Listed(qpending)
    BY <1>16, HeadFacts DEF WorkerTake, QueueTypeOK
  <2>2. ListsOK'
    BY <1>16, <2>1 DEF WorkerTake, ListsOK, Fresh, Placed, DeviceOf
  <2>3. StagesOK' /\ TimersOK' /\ CompletedOnce'
    BY <1>16 DEF WorkerTake, StagesOK, TimersOK, CompletedOnce, Started, Placed, Has, DeviceOf
  <2> QED  BY <2>2, <2>3
<1>17. ASSUME WorkerBusy
      PROVE  (ListsOK /\ StagesOK /\ TimersOK /\ CompletedOnce)'
  BY <1>17, ExclusionFrame DEF WorkerBusy, IsRunning
<1>18. ASSUME WorkerToRun
      PROVE  (ListsOK /\ StagesOK /\ TimersOK /\ CompletedOnce)'
  <2> DEFINE q == ListDel(qpending, wtask)
  <2>1. /\ wpc = "prepare" /\ qrunning = {} /\ wtask \in Tasks
        /\ wtask \in Listed(qpending) /\ Fresh(wtask) /\ Placed(wtask)
    BY <1>18 DEF WorkerToRun, IsRunning, ListsOK, PointersSet
  <2>2. /\ qpending' = q /\ qrunning' = {wtask} /\ wpc' = "run"
        /\ flags' = [flags EXCEPT ![wtask] = @ \cup {"RUNNING"}]
        /\ UNCHANGED <<timer, owner, sdev, utask, upc, wtask, curTask, itask>>
        /\ UNCHANGED <<hw, irq, hpc, htask, woken, ipc>>
    BY <1>18, <2>1 DEF WorkerToRun
  <2>3. /\ Listed(q) = Listed(qpending) \ {wtask}
        /\ \A i, j \in DOMAIN q : q[i] = q[j] => i = j
    BY ListDelFacts DEF ListsOK, QueueTypeOK
  <2> HIDE DEF q
  <2>4. \A t \in Tasks : Fresh(t) => Fresh(t)'
    BY <2>2 DEF Fresh, TaskTypeOK
  <2>5. ListsOK'
    <3>1. Listed(qpending) \subseteq Tasks  BY ListedType DEF QueueTypeOK
    <3> QED  BY <2>1, <2>2, <2>3, <2>4, <3>1 DEF ListsOK, Placed, DeviceOf, PointersSet
  <2>6. StagesOK'
    BY <2>1, <2>2 DEF StagesOK, Started, Placed, Has, DeviceOf
  <2>7. TimersOK' /\ CompletedOnce'
    BY <2>1, <2>2 DEF TimersOK, CompletedOnce, Started, Placed, Has, DeviceOf, TaskTypeOK
  <2> QED  BY <2>5, <2>6, <2>7
<1>19. ASSUME WorkerRun
      PROVE  (ListsOK /\ StagesOK /\ TimersOK /\ CompletedOnce)'
  <2>1. ListsOK'  BY <1>19 DEF WorkerRun, ListsOK, Fresh, Placed, DeviceOf
  <2>2. StagesOK'
    BY <1>19 DEF WorkerRun, StagesOK, ListsOK, TimersOK, CompletedOnce, Unhandled,
       Fresh, Placed, Started, Has, DeviceOf, SessionTypeOK, TaskTypeOK, QueueTypeOK,
       DeviceTypeOK, PointersSet
  <2>3. TimersOK'
    BY <1>19 DEF WorkerRun, TimersOK, ListsOK, StagesOK, CompletedOnce, Unhandled,
       Fresh, Placed, Started, Has, DeviceOf, SessionTypeOK, TaskTypeOK, QueueTypeOK,
       DeviceTypeOK, PointersSet
  <2>4. CompletedOnce'  BY <1>19 DEF WorkerRun, CompletedOnce, Has
  <2> QED  BY <2>1, <2>2, <2>3, <2>4
<1>20. ASSUME WorkerRunFail
      PROVE  (ListsOK /\ StagesOK /\ TimersOK /\ CompletedOnce)'
  <2>1. ListsOK'  BY <1>20 DEF WorkerRunFail, Put, ListsOK, Fresh, Placed, DeviceOf
  <2>2. StagesOK'
    BY <1>20 DEF WorkerRunFail, Put, StagesOK, ListsOK, TimersOK, CompletedOnce,
       Unhandled, Fresh, Placed, Started, Has, DeviceOf, SessionTypeOK, TaskTypeOK,
       QueueTypeOK, DeviceTypeOK, PointersSet
  <2>3. TimersOK'
    BY <1>20 DEF WorkerRunFail, Put, TimersOK, ListsOK, StagesOK, CompletedOnce,
       Unhandled, Fresh, Placed, Started, Has, DeviceOf, SessionTypeOK, TaskTypeOK,
       QueueTypeOK, DeviceTypeOK, PointersSet
  <2>4. CompletedOnce'  BY <1>20 DEF WorkerRunFail, Put, CompletedOnce, Has
  <2> QED  BY <2>1, <2>2, <2>3, <2>4
<1>21. ASSUME WorkerDetach
      PROVE  (ListsOK /\ StagesOK /\ TimersOK /\ CompletedOnce)'
  BY <1>21, ExclusionFrame DEF WorkerDetach
<1>22. ASSUME WorkerEnd
      PROVE  (ListsOK /\ StagesOK /\ TimersOK /\ CompletedOnce)'
  BY <1>22, ExclusionFrame DEF WorkerEnd
<1>23. ASSUME WorkerDeinitBusy
      PROVE  (ListsOK /\ StagesOK /\ TimersOK /\ CompletedOnce)'
  BY <1>23, ExclusionFrame DEF WorkerDeinitBusy
<1>24. ASSUME WorkerDeinit
      PROVE  (ListsOK /\ StagesOK /\ TimersOK /\ CompletedOnce)'
  BY <1>24, ExclusionFrame DEF WorkerDeinit
<1>25. ASSUME NEW d \in Devices, NEW st \in {"ok", "error"}, HwDone(d, st)
      PROVE  (ListsOK /\ StagesOK /\ TimersOK /\ CompletedOnce)'
  <2>1. ListsOK'  BY <1>25 DEF HwDone, ListsOK, Fresh, Placed, DeviceOf
  <2>2. StagesOK'
    BY <1>25 DEF HwDone, StagesOK, Fresh, Placed, Started, Has, DeviceOf, SessionTypeOK,
       TaskTypeOK, QueueTypeOK, DeviceTypeOK, PointersSet
  <2>3. TimersOK'  BY <1>25 DEF HwDone, TimersOK, Started, Placed, Has, DeviceOf
  <2>4. CompletedOnce'  BY <1>25 DEF HwDone, CompletedOnce, Has
  <2> QED  BY <2>1, <2>2, <2>3, <2>4
<1>26. ASSUME NEW d \in Devices, DevIrq(d)
      PROVE  (ListsOK /\ StagesOK /\ TimersOK /\ CompletedOnce)'
  <2> DEFINE c == curTask[d]
  <2>1. /\ c \in Tasks /\ Started(c) /\ DeviceOf(c) = d
        /\ ~Has(c, "IRQ") /\ (Has(c, "HANDLE") => timer[c] = "reset")
        /\ irq[d] # "none"
    BY <1>26 DEF DevIrq, StagesOK
  <2>2. /\ htask' = [htask EXCEPT ![d] = c] /\ hpc' = [hpc EXCEPT ![d] = "status"]
        /\ UNCHANGED <<flags, timer, owner, sdev, utask, upc, wtask, wpc, qpending>>
        /\ UNCHANGED <<qrunning, curTask, itask, hw, irq, woken, ipc>>
    BY <1>26 DEF DevIrq
  <2> HIDE DEF c
  <2>3. ListsOK'  BY <2>2 DEF ListsOK, Fresh, Placed, DeviceOf
  <2>4. StagesOK'
    BY <2>1, <2>2 DEF StagesOK, Started, Placed, Has, DeviceOf, DeviceTypeOK, c
  <2>5. TimersOK' /\ CompletedOnce'
    BY <2>2 DEF TimersOK, CompletedOnce, Started, Placed, Has, DeviceOf
  <2> QED  BY <2>3, <2>4, <2>5
<1>26a. ASSUME NEW d \in Devices, DevIrqStatus(d)
      PROVE  (ListsOK /\ StagesOK /\ TimersOK /\ CompletedOnce)'
  <2>1. /\ hpc[d] = "status" /\ irq' = [irq EXCEPT ![d] = "none"]
        /\ UNCHANGED <<flags, timer, owner, sdev, utask, upc, wtask, wpc, qpending>>
        /\ UNCHANGED <<qrunning, curTask, itask, hw, woken, ipc>>
    BY <1>26a DEF DevIrqStatus
  <2>2. ListsOK'  BY <2>1 DEF ListsOK, Fresh, Placed, DeviceOf
  <2>3. TimersOK' /\ CompletedOnce'
    BY <2>1 DEF TimersOK, CompletedOnce, Started, Placed, Has, DeviceOf
  <2>4. CASE irq[d] = "none"
    <3>1. /\ hpc' = [hpc EXCEPT ![d] = "idle"] /\ htask' = [htask EXCEPT ![d] = None]
      BY <1>26a, <2>4 DEF DevIrqStatus, HandlerReturns
    <3>2. StagesOK'
      BY <2>1, <3>1 DEF StagesOK, Started, Placed, Has, DeviceOf, DeviceTypeOK
    <3> QED  BY <2>2, <2>3, <3>2
  <2>5. CASE irq[d] # "none"
    <3>1. hpc' = [hpc EXCEPT ![d] = "handle"] /\ htask' = htask
      BY <1>26a, <2>5 DEF DevIrqStatus
    <3>2. hw[d] = None /\ ~woken[d] /\ ipc[d] \notin {"finish", "pop"}
      BY <2>5 DEF StagesOK
    <3>3. StagesOK'
      BY <2>1, <2>5, <3>1, <3>2 DEF StagesOK, Started, Placed, Has, DeviceOf, DeviceTypeOK
    <3> QED  BY <2>2, <2>3, <3>3
  <2> QED  BY <2>4, <2>5
<1>26b. ASSUME NEW d \in Devices, DevIrqHandle(d)
      PROVE  (ListsOK /\ StagesOK /\ TimersOK /\ CompletedOnce)'
  <2> DEFINE h == htask[d]
  <2>1. hpc[d] = "handle" /\ h \in Tasks /\ ~Has(h, "IRQ")
    BY <1>26b DEF DevIrqHandle, StagesOK
  <2>2. /\ UNCHANGED <<timer, owner, sdev, utask, upc, wtask, wpc, qpending, qrunning>>
        /\ UNCHANGED <<curTask, itask, hw, irq, woken, ipc>>
    BY <1>26b DEF DevIrqHandle
  <2>3. CASE Unhandled(h)
    <3>1. /\ flags' = [flags EXCEPT ![h] = @ \cup {"HANDLE"}]
          /\ hpc' = [hpc EXCEPT ![d] = "cancel"] /\ htask' = htask /\ ~Has(h, "HANDLE")
      BY <1>26b, <2>3 DEF DevIrqHandle, Unhandled
    <3>2. /\ h = curTask[d] /\ Started(h) /\ DeviceOf(h) = d /\ ~Has(h, "DONE")
          /\ timer[h] = "armed"
          /\ hw[d] = None /\ irq[d] = "none" /\ ~woken[d] /\ ipc[d] \notin {"finish", "pop"}
      BY <2>1, <3>1 DEF StagesOK
    <3> HIDE DEF h
    <3>3. \A t \in Tasks : Fresh(t) => Fresh(t)'
      BY <2>1, <2>2, <3>1, <3>2 DEF Fresh, TaskTypeOK, Started, Has
    <3>4. ListsOK'
      <4>1. Listed(qpending) \subseteq Tasks  BY ListedType DEF QueueTypeOK
      <4> QED  BY <2>2, <3>3, <4>1 DEF ListsOK, Placed, DeviceOf, PointersSet
    <3>5. StagesOK'
      <4>1. \A e \in Devices : e # d => curTask[e] # h \/ (hw[e] = None /\ irq[e] = "none")
        BY <2>1, <3>2 DEF StagesOK
      <4>2. \A e \in Devices : e # d /\ hpc[e] \in {"status", "handle"} /\ htask[e] = h => FALSE
        BY <2>1, <3>1, <3>2 DEF StagesOK
      <4> QED
        BY <2>1, <2>2, <3>1, <3>2, <4>1, <4>2 DEF StagesOK, Started, Placed, Has, DeviceOf,
           TaskTypeOK, DeviceTypeOK, h
    <3>6. TimersOK'
      BY <2>1, <2>2, <3>1, <3>2 DEF TimersOK, Started, Placed, Has, DeviceOf, TaskTypeOK
    <3>7. CompletedOnce'
      BY <2>1, <2>2, <3>1 DEF CompletedOnce, Has, TaskTypeOK
    <3> QED  BY <3>4, <3>5, <3>6, <3>7
  <2>4. CASE ~Unhandled(h)
    <3>1. /\ flags' = flags /\ hpc' = [hpc EXCEPT ![d] = "idle"]
          /\ htask' = [htask EXCEPT ![d] = None]
      BY <1>26b, <2>4 DEF DevIrqHandle, HandlerReturns
    <3>2. ListsOK'
      BY <2>2, <3>1 DEF ListsOK, Fresh, Placed, DeviceOf
    <3>3. StagesOK'
      BY <2>2, <3>1 DEF StagesOK, Started, Placed, Has, DeviceOf, DeviceTypeOK
    <3>4. TimersOK' /\ CompletedOnce'
      BY <2>2, <3>1 DEF TimersOK, CompletedOnce, Started, Placed, Has, DeviceOf
    <3> QED  BY <3>2, <3>3, <3>4
  <2> QED  BY <2>3, <2>4
<1>26c. ASSUME NEW d \in Devices, DevIrqWild(d)
      PROVE  (ListsOK /\ StagesOK /\ TimersOK /\ CompletedOnce)'
  <2>1. /\ hpc' = [hpc EXCEPT ![d] = "wild"]
        /\ UNCHANGED <<flags, timer, owner, sdev, utask, upc, wtask, wpc, qpending>>
        /\ UNCHANGED <<qrunning, curTask, itask, hw, irq, htask, woken, ipc>>
    BY <1>26c DEF DevIrqWild
  <2>2. ListsOK'  BY <2>1 DEF ListsOK, Fresh, Placed, DeviceOf
  <2>3. StagesOK'
    BY <2>1 DEF StagesOK, Started, Placed, Has, DeviceOf, DeviceTypeOK
  <2>4. TimersOK' /\ CompletedOnce'
    BY <2>1 DEF TimersOK, CompletedOnce, Started, Placed, Has, DeviceOf
  <2> QED  BY <2>2, <2>3, <2>4
<1>27. ASSUME NEW d \in Devices, DevIrqWake(d)
      PROVE  (ListsOK /\ StagesOK /\ TimersOK /\ CompletedOnce)'
  <2> DEFINE c == curTask[d]
  <2>1. /\ c \in Tasks /\ Started(c) /\ DeviceOf(c) = d
        /\ Has(c, "HANDLE") /\ ~Has(c, "IRQ") /\ ~Has(c, "DONE")
        /\ timer[c] \in {"armed", "off"}
        /\ ~woken[d] /\ ipc[d] \notin {"finish", "pop"} /\ hw[d] = None /\ irq[d] = "none"
        /\ htask[d] = c
    BY <1>27 DEF DevIrqWake, StagesOK, DeviceTypeOK
  <2>2. /\ timer' = [timer EXCEPT ![c] = "off"]
        /\ flags' = [flags EXCEPT ![c] = @ \cup {"IRQ"}]
        /\ woken' = [woken EXCEPT ![d] = TRUE] /\ hpc' = [hpc EXCEPT ![d] = "idle"]
        /\ htask' = [htask EXCEPT ![d] = None]
        /\ UNCHANGED <<owner, sdev, utask, upc, wtask, wpc, qpending, qrunning>>
        /\ UNCHANGED <<curTask, itask, hw, irq, ipc>>
    BY <1>27, <2>1 DEF DevIrqWake, HandlerReturns
  <2> HIDE DEF c
  <2>3. ListsOK'
    <3>1. \A t \in Tasks : Fresh(t) => Fresh(t)'
      BY <2>1, <2>2 DEF Fresh, TaskTypeOK, Started, Has
    <3>2. Listed(qpending) \subseteq Tasks
      BY ListedType DEF QueueTypeOK
    <3> QED  BY <2>2, <3>1, <3>2 DEF ListsOK, Placed, DeviceOf, PointersSet
  <2>4. StagesOK'
    <3>1. \A e \in Devices : hpc[e] \in {"status", "handle"} => htask[e] # c
      BY <2>1 DEF StagesOK, TimersOK
    <3> QED
      BY <2>1, <2>2, <3>1 DEF StagesOK, Started, Placed, Has, DeviceOf, TaskTypeOK, DeviceTypeOK, c
  <2>5. TimersOK'
    BY <2>1, <2>2 DEF TimersOK, Started, Placed, Has, DeviceOf, TaskTypeOK
  <2>6. CompletedOnce'
    BY <2>1, <2>2 DEF CompletedOnce, TimersOK, Has, TaskTypeOK
  <2> QED  BY <2>3, <2>4, <2>5, <2>6
<1>28. ASSUME NEW d \in Devices, Isr(d)
      PROVE  (ListsOK /\ StagesOK /\ TimersOK /\ CompletedOnce)'
  <2>1. ListsOK'  BY <1>28 DEF Isr, ListsOK, Fresh, Placed, DeviceOf
  <2>2. StagesOK'
    BY <1>28 DEF Isr, StagesOK, Fresh, Placed, Started, Has, DeviceOf, SessionTypeOK,
       TaskTypeOK, QueueTypeOK, DeviceTypeOK, PointersSet
  <2>3. TimersOK'  BY <1>28 DEF Isr, TimersOK, Started, Placed, Has, DeviceOf
  <2>4. CompletedOnce'  BY <1>28 DEF Isr, CompletedOnce, Has
  <2> QED  BY <2>1, <2>2, <2>3, <2>4
<1>29. ASSUME NEW d \in Devices, IsrFinish(d)
      PROVE  (ListsOK /\ StagesOK /\ TimersOK /\ CompletedOnce)'
  <2>1. ListsOK'
    BY <1>29 DEF IsrFinish, DevReset, NeedsReset, ListsOK, StagesOK, TimersOK,
       CompletedOnce, Unhandled, Fresh, Placed, Started, Has, DeviceOf, SessionTypeOK,
       TaskTypeOK, QueueTypeOK, DeviceTypeOK, PointersSet
  <2>2. StagesOK'
    BY <1>29 DEF IsrFinish, DevReset, NeedsReset, StagesOK, Fresh, Placed, Started, Has,
       DeviceOf, SessionTypeOK, TaskTypeOK, QueueTypeOK, DeviceTypeOK, PointersSet
  <2>3. TimersOK'
    BY <1>29 DEF IsrFinish, DevReset, NeedsReset, TimersOK, ListsOK, StagesOK,
       CompletedOnce, Unhandled, Fresh, Placed, Started, Has, DeviceOf, SessionTypeOK,
       TaskTypeOK, QueueTypeOK, DeviceTypeOK, PointersSet
  <2>4. CompletedOnce'
    BY <1>29 DEF IsrFinish, DevReset, NeedsReset, CompletedOnce, ListsOK, StagesOK,
       TimersOK, Unhandled, Fresh, Placed, Started, Has, DeviceOf, SessionTypeOK,
       TaskTypeOK, QueueTypeOK, DeviceTypeOK, PointersSet
  <2> QED  BY <2>1, <2>2, <2>3, <2>4
<1>30. ASSUME NEW d \in Devices, IsrPop(d)
      PROVE  (ListsOK /\ StagesOK /\ TimersOK /\ CompletedOnce)'
  <2>1. ListsOK'
    BY <1>30 DEF IsrPop, Put, ListsOK, StagesOK, TimersOK, CompletedOnce, Unhandled,
       Fresh, Placed, Started, Has, DeviceOf, SessionTypeOK, TaskTypeOK, QueueTypeOK,
       DeviceTypeOK, PointersSet
  <2>2. StagesOK'
    BY <1>30 DEF IsrPop, Put, StagesOK, Fresh, Placed, Started, Has, DeviceOf,
       SessionTypeOK, TaskTypeOK, QueueTypeOK, DeviceTypeOK, PointersSet
  <2>3. TimersOK'
    BY <1>30 DEF IsrPop, Put, TimersOK, ListsOK, StagesOK, CompletedOnce, Unhandled,
       Fresh, Placed, Started, Has, DeviceOf, SessionTypeOK, TaskTypeOK, QueueTypeOK,
       DeviceTypeOK, PointersSet
  <2>4. CompletedOnce'  BY <1>30 DEF IsrPop, Put, CompletedOnce, Has
  <2> QED  BY <2>1, <2>2, <2>3, <2>4
<1>31. ASSUME NEW d \in Devices, IsrTrigger(d)
      PROVE  (ListsOK /\ StagesOK /\ TimersOK /\ CompletedOnce)'
  <2>1. ListsOK'  BY <1>31 DEF IsrTrigger, ListsOK, Fresh, Placed, DeviceOf
  <2>2. StagesOK'  BY <1>31 DEF IsrTrigger, StagesOK, Started, Placed, Has, DeviceOf
  <2>3. TimersOK'  BY <1>31 DEF IsrTrigger, TimersOK, Started, Placed, Has, DeviceOf
  <2>4. CompletedOnce'  BY <1>31 DEF IsrTrigger, CompletedOnce, Has
  <2> QED  BY <2>1, <2>2, <2>3, <2>4
<1>32. ASSUME NEW t \in Tasks, TimeoutStart(t)
      PROVE  (ListsOK /\ StagesOK /\ TimersOK /\ CompletedOnce)'
  <2>1. /\ timer[t] = "armed" /\ Started(t) /\ ~Has(t, "IRQ") /\ ~Has(t, "DONE")
    BY <1>32 DEF TimeoutStart, TimersOK
  <2>2. /\ UNCHANGED <<owner, sdev, utask, upc, wtask, wpc, qpending, qrunning>>
        /\ UNCHANGED <<curTask, itask, hw, woken, ipc, irq, hpc, htask>>
    BY <1>32 DEF TimeoutStart
  <2>3. Listed(qpending) \subseteq Tasks
    BY ListedType DEF QueueTypeOK
  <2>4. CASE Unhandled(t)
    <3>1. /\ flags' = [flags EXCEPT ![t] = @ \cup {"HANDLE"}]
          /\ timer' = [timer EXCEPT ![t] = "reset"] /\ ~Has(t, "HANDLE")
      BY <1>32, <2>4 DEF TimeoutStart, Unhandled
    <3>2. \A u \in Tasks : Fresh(u) => Fresh(u)'
      BY <2>1, <3>1 DEF Fresh, TaskTypeOK, Started, Has
    <3>3. ListsOK'
      BY <2>2, <2>3, <3>2 DEF ListsOK, Placed, DeviceOf, PointersSet
    <3>4. StagesOK'
      BY <2>1, <2>2, <3>1 DEF StagesOK, Started, Placed, Has, DeviceOf, TaskTypeOK
    <3>5. TimersOK' /\ CompletedOnce'
      BY <2>1, <2>2, <3>1 DEF TimersOK, CompletedOnce, Started, Placed, Has, DeviceOf, TaskTypeOK
    <3> QED  BY <3>3, <3>4, <3>5
  <2>5. CASE ~Unhandled(t)
    <3>1. flags' = flags /\ timer' = [timer EXCEPT ![t] = "off"] /\ Has(t, "HANDLE")
      BY <1>32, <2>5 DEF TimeoutStart, Unhandled
    <3>2. \A u \in Tasks : Fresh(u) => Fresh(u)'
      BY <3>1 DEF Fresh, TaskTypeOK
    <3>3. ListsOK'
      BY <2>2, <2>3, <3>2 DEF ListsOK, Placed, DeviceOf, PointersSet
    <3>4. StagesOK'
      BY <2>1, <2>2, <3>1 DEF StagesOK, Started, Placed, Has, DeviceOf, TaskTypeOK
    <3>5. TimersOK' /\ CompletedOnce'
      BY <2>2, <3>1 DEF TimersOK, CompletedOnce, Started, Placed, Has, DeviceOf, TaskTypeOK
    <3> QED  BY <3>3, <3>4, <3>5
  <2> QED  BY <2>4, <2>5
<1>33. ASSUME NEW t \in Tasks, TimeoutReset(t)
      PROVE  (ListsOK /\ StagesOK /\ TimersOK /\ CompletedOnce)'
  <2>1. ListsOK'
    BY <1>33 DEF TimeoutReset, DevReset, ListsOK, Fresh, Placed, Started, Has, DeviceOf,
       SessionTypeOK, TaskTypeOK, QueueTypeOK, DeviceTypeOK, PointersSet
  <2>2. StagesOK'
    <3> DEFINE d == DeviceOf(t)
    <3>1. Started(t) /\ ~Has(t, "IRQ") /\ ~Has(t, "DONE") /\ timer[t] = "reset" /\ Has(t, "HANDLE")
      BY <1>33 DEF TimeoutReset, TimersOK
    <3>2. /\ hw' = [hw EXCEPT ![d] = None] /\ irq' = [irq EXCEPT ![d] = "none"]
          /\ flags' = [flags EXCEPT ![t] = @ \cup {"TIMEOUT", "DONE"}]
          /\ timer' = [timer EXCEPT ![t] = "pop"]
          /\ UNCHANGED <<owner, sdev, qrunning, curTask, itask, hpc, htask, woken, ipc>>
      BY <1>33 DEF TimeoutReset, DevReset
    <3> HIDE DEF d
    <3>3. \A e \in Devices :
            /\ hw[e] = t \/ (irq[e] # "none" /\ curTask[e] = t) => e = d
            /\ hpc[e] = "cancel" \/ woken[e] => curTask[e] # t
            /\ ipc[e] \in {"finish", "pop"} => itask[e] # t
      BY <3>1 DEF StagesOK, d
    <3>4. \A u \in Tasks : u # t => flags'[u] = flags[u] /\ timer'[u] = timer[u]
      BY <3>2 DEF TaskTypeOK
    <3>5. /\ Has(t, "HANDLE")' /\ ~Has(t, "IRQ")' /\ Has(t, "TIMEOUT")'
          /\ \A u \in Tasks : u # t => flags'[u] = flags[u]
      <4>1. flags'[t] = flags[t] \cup {"TIMEOUT", "DONE"}
        BY <3>2 DEF TaskTypeOK
      <4> QED  BY <3>1, <3>2, <4>1 DEF Has, TaskTypeOK
    <3>6. \A u \in Tasks : Started(u) => u = t
      BY <3>1 DEF Started, ListsOK
    <3>7. \A e \in Devices : /\ hw'[e] = (IF e = d THEN None ELSE hw[e])
                              /\ irq'[e] = (IF e = d THEN "none" ELSE irq[e])
      BY <3>2 DEF DeviceTypeOK
    <3>8. ASSUME NEW e \in Devices
          PROVE  /\ hw'[e] = None /\ irq'[e] = "none"
                 /\ hpc[e] # "cancel" /\ ~woken[e] /\ ipc[e] \notin {"finish", "pop"}
      <4>1. hw[e] # None => Started(hw[e]) /\ hw[e] \in Tasks
        BY DEF StagesOK, DeviceTypeOK
      <4>2. irq[e] # "none" => Started(curTask[e]) /\ curTask[e] \in Tasks
        BY DEF StagesOK
      <4>3. hpc[e] = "cancel" \/ woken[e] => Started(curTask[e]) /\ curTask[e] \in Tasks
        BY DEF StagesOK
      <4>4. ipc[e] \in {"finish", "pop"} => Started(itask[e]) /\ itask[e] \in Tasks
        BY DEF StagesOK
      <4> QED  BY <3>3, <3>6, <3>7, <4>1, <4>2, <4>3, <4>4
    <3>9. ASSUME NEW e \in Devices, hpc[e] \in {"status", "handle"}
          PROVE  /\ htask[e] \in Tasks /\ ~Has(htask[e], "IRQ")' /\ Has(htask[e], "HANDLE")'
                 /\ timer'[htask[e]] = "reset" \/ Has(htask[e], "TIMEOUT")'
      <4>1. /\ htask[e] \in Tasks /\ ~Has(htask[e], "IRQ")
            /\ Has(htask[e], "HANDLE") => timer[htask[e]] = "reset" \/ Has(htask[e], "TIMEOUT")
            /\ ~Has(htask[e], "HANDLE") => htask[e] = t
        BY <3>6, <3>9 DEF StagesOK
      <4>2. CASE htask[e] = t
        BY <3>2, <3>5, <4>2 DEF Has
      <4>3. CASE htask[e] # t
        BY <3>2, <3>4, <4>1, <4>3 DEF Has
      <4> QED  BY <4>2, <4>3
    <3> QED
      BY <3>2, <3>8, <3>9 DEF StagesOK
  <2>3. TimersOK'
    BY <1>33 DEF TimeoutReset, DevReset, TimersOK, Fresh, Placed, Started, Has,
       DeviceOf, SessionTypeOK, TaskTypeOK, QueueTypeOK, DeviceTypeOK, PointersSet
  <2>4. CompletedOnce'
    BY <1>33 DEF TimeoutReset, DevReset, CompletedOnce, ListsOK, StagesOK, TimersOK,
       Unhandled, Fresh, Placed, Started, Has, DeviceOf, SessionTypeOK, TaskTypeOK,
       QueueTypeOK, DeviceTypeOK, PointersSet
  <2> QED  BY <2>1, <2>2, <2>3, <2>4
<1>34. ASSUME NEW t \in Tasks, TimeoutPop(t)
      PROVE  (ListsOK /\ StagesOK /\ TimersOK /\ CompletedOnce)'
  <2>1. ListsOK'  BY <1>34 DEF TimeoutPop, Put, ListsOK, Fresh, Placed, DeviceOf
  <2>2. StagesOK'
    BY <1>34 DEF TimeoutPop, Put, StagesOK, Started, Placed, Has, DeviceOf
  <2>3. TimersOK'
    BY <1>34 DEF TimeoutPop, Put, TimersOK, Fresh, Placed, Started, Has, DeviceOf,
       SessionTypeOK, TaskTypeOK, QueueTypeOK, DeviceTypeOK, PointersSet
  <2>4. CompletedOnce'  BY <1>34 DEF TimeoutPop, Put, CompletedOnce, Has
  <2> QED  BY <2>1, <2>2, <2>3, <2>4
<1>35. ASSUME UNCHANGED vars
      PROVE  (ListsOK /\ StagesOK /\ TimersOK /\ CompletedOnce)'
  BY <1>35, ExclusionFrame DEF vars
<1> QED
  BY <1>0, <1>1, <1>2, <1>3, <1>4, <1>5, <1>6, <1>7, <1>8, <1>9, <1>10, <1>11, <1>12,
     <1>13, <1>14, <1>15, <1>16, <1>17, <1>18, <1>19, <1>20, <1>21, <1>22, <1>23, <1>24,
     <1>25, <1>26, <1>26a, <1>26b, <1>26c, <1>27, <1>28, <1>29, <1>30, <1>31, <1>32, <1>33, <1>34, <1>35 DEF
     Next, Ioctl, Worker, HardIrq, IrqThread, Timeout

\* The inductive invariant of the task service: the list a task is in, its flags,
\* its timeout work and the interrupt stages of its device agree at every step.
THEOREM ExclusionInvariant == Spec => []ExclusionInv
<1>1. ExclusionInv /\ UNCHANGED vars => ExclusionInv'
  BY ExclusionNext
<1> QED
  BY <1>1, ExclusionInit, ExclusionNext, PTL DEF Spec

\* Devices that share a queue never run two tasks: mpp_taskqueue_is_running is
\* looked at only by the worker, and only the worker adds to running_list.
THEOREM OneTaskRunsAlways == Spec => []OneTaskRuns
<1>1. ExclusionInv => OneTaskRuns
  BY DEF ExclusionInv, OneTaskRuns, ListsOK, StagesOK, Started
<1> QED
  BY <1>1, ExclusionInvariant, PTL

\* Exactly one of mpp_dev_irq and mpp_task_timeout_work completes a task.
THEOREM CompletedOnceAlways == Spec => []CompletedOnce
<1>1. ExclusionInv => CompletedOnce
  BY DEF ExclusionInv
<1> QED
  BY <1>1, ExclusionInvariant, PTL

\* mpp_dev_irq and the isr use the cur_task the device was started with.
THEOREM IrqServesItsTaskAlways == Spec => []IrqServesItsTask
<1>1. ExclusionInv => IrqServesItsTask
  BY NoneAssumption DEF ExclusionInv, IrqServesItsTask, StagesOK, Started, Has
<1> QED
  BY <1>1, ExclusionInvariant, PTL
=============================================================================
