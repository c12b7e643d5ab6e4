------------------------ MODULE MppDmaSession_proofs ------------------------
(***************************************************************************)
(* Theorems about MppDmaSession, for any sets of buffers, tasks, fds and   *)
(* threads.  The inductive invariant is IInv.                              *)
(***************************************************************************)
EXTENDS MppDmaSession, FiniteSetTheorems, TLAPS

-----------------------------------------------------------------------------
(* The inductive invariant *)

\* What the local variables of a thread hold.
Pointers ==
    \A p \in Threads :
        /\ Importing(p) => fd[p] \in Fds
        /\ pc[p] \in {"get", "map", "add", "found"} => buffer[p] \in Buffers
        /\ pc[p] = "next" => owner[p] \in Tasks

\* A task that is being built belongs to the one thread that builds it, which
\* does not import an fd the task has already; other tasks belong to none.
Owners ==
    /\ \A p \in Threads : owner[p] # None =>
           task[owner[p]] = "building" /\ pc[p] \notin {"idle", "found"}
    /\ \A p, q \in Threads : owner[p] # None /\ owner[p] = owner[q] => p = q
    /\ \A p \in Threads : owner[p] # None /\ Importing(p) =>
           \A r \in regions[owner[p]] : r[1] # fd[p]
    /\ \A t \in Tasks : task[t] = "building" => \E p \in Threads : owner[p] = t
    /\ \A t \in Tasks : task[t] \in {"new", "end"} => regions[t] = {}

\* Nothing is going on in a closed session.
Rest ==
    session = "closed" =>
        /\ \A p \in Threads : pc[p] = "idle"
        /\ \A t \in Tasks : task[t] \in {"new", "end"}

Good == ~undefined /\ ~twice /\ session = "live"

\* Thread p has taken b from unused_list and not yet added it to used_list.
Busy(p, b) == pc[p] \in {"map", "add"} /\ buffer[p] = b

\* Each buffer is in one list or with one thread.
Lists ==
    /\ used \cap unused = {}
    /\ count = Cardinality(used)
    /\ \A b \in Buffers : b \notin used \cup unused <=> \E p \in Threads : Busy(p, b)
    /\ \A p, q \in Threads, b \in Buffers : Busy(p, b) /\ Busy(q, b) => p = q

Mapped(b) == b \in used \/ Adding(b)

\* A mapped buffer has the references that are accounted for, at least one,
\* and another buffer has none.
Refs ==
    \A b \in Buffers :
        /\ dropped[b] <= 1
        /\ Mapped(b) =>
              /\ dmabuf[b] # None /\ ref[b] > 0
              /\ ref[b] = 1 + Cardinality(Held(b)) + outside[b] - dropped[b]
                       + (IF Adding(b) THEN 1 ELSE 0)
        /\ ~Mapped(b) =>
              dmabuf[b] = None /\ ref[b] = 0 /\ Held(b) = {} /\ outside[b] = 0

\* Regions are of the dmabuf of their fd, as long as no import was mixed up,
\* and so is the buffer a thread is adding.
Matches == ~mixed => \A t \in Tasks : \A r \in regions[t] : dmabuf[r[2]] = r[1]
Adds == \A p \in Threads : pc[p] = "add" => dmabuf[buffer[p]] = fd[p]

Pool == Good => Lists /\ Refs /\ Matches /\ Adds

IInv == TypeOK /\ Pointers /\ Owners /\ Rest /\ Pool /\ ClosedIsUnmapped

-----------------------------------------------------------------------------
(* Types *)

\* The initial state satisfies the type and the pointers invariant.
LEMMA TypeInit == Init => TypeOK /\ Pointers
<1> SUFFICES ASSUME Init PROVE TypeOK /\ Pointers
  OBVIOUS
<1>1. regions \in [Tasks -> SUBSET (Fds \X Buffers)]
  BY DEF Init
<1>2. TypeOK
  <2>1. /\ used = {} /\ unused = Buffers /\ count = 0 /\ session = "live"
    BY DEF Init
  <2>2. /\ dmabuf \in [Buffers -> Fds \cup {None}] /\ ref \in [Buffers -> Int]
        /\ outside \in [Buffers -> Nat] /\ client \in [Fds -> Nat] /\ dropped \in [Buffers -> Nat]
    BY DEF Init
  <2>3. /\ pc \in [Threads -> {"idle"}] /\ fd \in [Threads -> Fds \cup {None}]
        /\ owner \in [Threads -> Tasks \cup {None}] /\ buffer \in [Threads -> Buffers \cup {None}]
    BY DEF Init
  <2>4. task \in [Tasks -> {"new", "building", "running", "freeing", "end"}]
    BY DEF Init
  <2>5. twice \in BOOLEAN /\ mixed \in BOOLEAN /\ undefined \in BOOLEAN
    BY Zenon DEF Init
  <2> QED BY <1>1, <2>1, <2>2, <2>3, <2>4, <2>5 DEF TypeOK
<1>3. Pointers
  BY DEF Init, Pointers, Importing
<1> QED BY <1>2, <1>3

\* Functions keep their type when one value is replaced by one of the type.
LEMMA SetType ==
  ASSUME NEW D, NEW R, NEW f \in [D -> R], NEW x, NEW v \in R
  PROVE  Set(f, x, v) \in [D -> R]
  BY DEF Set

\* A put keeps the types of the pool.
LEMMA PutType ==
  ASSUME TypeOK, NEW b \in Buffers, Put(b)
  PROVE  /\ used' \subseteq Buffers /\ unused' \subseteq Buffers /\ count' \in Int
         /\ session' = session /\ undefined' \in BOOLEAN
         /\ dmabuf' \in [Buffers -> Fds \cup {None}] /\ ref' \in [Buffers -> Int]
  BY DEF Put, TypeOK, Set

\* A step changes the variables within their types, and threads have the
\* pointers of the place they are at.
LEMMA TypeStep == TypeOK /\ Pointers /\ [Next]_vars => TypeOK' /\ Pointers'
<1> SUFFICES ASSUME TypeOK, Pointers, [Next]_vars PROVE TypeOK' /\ Pointers'
  OBVIOUS
<1> USE DmaAssumption
<1>1. ASSUME NEW p \in Threads, Import(p) PROVE TypeOK' /\ Pointers'
  <2>1. CASE Evict(p)
    <3>1. CASE \E b \in used : Drop(b)
      <4>1. PICK b \in used : Drop(b) BY <3>1
      <4>2. b \in Buffers /\ Put(b) BY <4>1 DEF TypeOK, Drop
      <4> QED BY <2>1, <4>1, <4>2, PutType DEF Evict, Drop, Step, Set, TypeOK, Pointers, Importing, work
    <3>2. CASE UNCHANGED <<dma, dropped, twice, undefined>>
      BY <2>1, <3>2 DEF Evict, Step, Set, TypeOK, Pointers, Importing, dma, work
    <3> QED BY <2>1, <3>1, <3>2 DEF Evict
  <2>2. CASE Find(p)
    BY <2>2 DEF Find, Found, Step, Set, TypeOK, Pointers, Importing, dma, work, hist
  <2>3. CASE Get(p)
    BY <2>3 DEF Get, Return, OneMore, Set, TypeOK, Pointers, Importing
  <2>4. CASE Missing(p)
    BY <2>4 DEF Missing, Step, Set, TypeOK, Pointers, Importing, dma, work, hist
  <2>5. CASE Take(p)
    BY <2>5 DEF Take, Free, Step, Set, TypeOK, Pointers, Importing, work, hist
  <2>6. CASE TakeNone(p)
    BY <2>6 DEF TakeNone, Give, Set, TypeOK, Pointers, Importing, dma, hist
  <2>7. CASE Map(p)
    BY <2>7 DEF Map, FirstRefs, Step, Set, TypeOK, Pointers, Importing, work
  <2>8. CASE MapFails(p)
    BY <2>8 DEF MapFails, Unuse, Give, Set, TypeOK, Pointers, Importing, hist
  <2>9. CASE Add(p)
    BY <2>9 DEF Add, Return, Set, TypeOK, Pointers, Importing
  <2> QED BY <1>1, <2>1, <2>2, <2>3, <2>4, <2>5, <2>6, <2>7, <2>8, <2>9 DEF Import
<1>2. ASSUME NEW p \in Threads, PutFd(p) PROVE TypeOK' /\ Pointers'
  <2> DEFINE b == buffer[p]
  <2>1. b \in Buffers BY <1>2 DEF PutFd, Step, Pointers
  <2>2. Put(b) BY <1>2 DEF PutFd, Drop
  <2>3. dropped' \in [Buffers -> Nat] /\ twice' \in BOOLEAN /\ outside' \in [Buffers -> Nat]
    <3>1. /\ outside \in [Buffers -> Nat] /\ dropped \in [Buffers -> Nat] /\ twice \in BOOLEAN
      BY DEF TypeOK
    <3>2. CASE outside[b] > 0
      <4>1. outside' = Set(outside, b, outside[b] - 1) /\ UNCHANGED <<dropped, twice>>
        BY <1>2, <3>2 DEF PutFd
      <4>2. outside[b] - 1 \in Nat BY <2>1, <3>1, <3>2
      <4> QED BY <3>1, <4>1, <4>2, SetType
    <3>3. CASE ~(outside[b] > 0)
      <4>1. /\ UNCHANGED outside /\ dropped' = Set(dropped, b, dropped[b] + 1)
            /\ twice' = (twice \/ dropped[b] > 0)
        BY <1>2, <3>3 DEF PutFd, Drop
      <4>2. dropped[b] + 1 \in Nat BY <2>1, <3>1
      <4> QED BY <3>1, <4>1, <4>2, SetType
    <3> QED BY <3>2, <3>3
  <2> HIDE DEF b
  <2>4. /\ pc' = Set(pc, p, "idle") /\ buffer' = Set(buffer, p, None) /\ pc[p] = "found"
        /\ UNCHANGED <<work, fd, owner, client, mixed>>
    BY <1>2 DEF PutFd, Step
  <2> QED BY <2>1, <2>2, <2>3, <2>4, PutType DEF Set, TypeOK, Pointers, Importing, work
<1>3. ASSUME NEW p \in Threads, UseAfterReset(p) PROVE TypeOK' /\ Pointers'
  BY <1>3 DEF UseAfterReset, TypeOK, Pointers, Importing, dma, work, thr
<1>4. ASSUME NEW p \in Threads, AttachFd(p) PROVE TypeOK' /\ Pointers'
  BY <1>4 DEF AttachFd, Step, Set, TypeOK, Pointers, Importing, dma, work, hist
<1>5. ASSUME NEW p \in Threads, Queue(p) PROVE TypeOK' /\ Pointers'
  BY <1>5 DEF Queue, Step, Set, TypeOK, Pointers, Importing, dma, hist
<1>6. ASSUME Destroy
      PROVE  /\ used' \subseteq Buffers /\ unused' \subseteq Buffers /\ count' \in Int
             /\ dmabuf' \in [Buffers -> Fds \cup {None}] /\ ref' \in [Buffers -> Int]
  <2> DEFINE last == {b \in used : ref[b] = 1}
  <2>1. IsFiniteSet(last) BY FS_Subset DEF TypeOK
  <2>2. Cardinality(last) \in Nat BY <2>1, FS_CardinalityType
  <2>3. /\ ref' = [b \in Buffers |-> IF b \in used THEN ref[b] - 1 ELSE ref[b]]
        /\ used' = used \ last /\ unused' = unused \cup last
        /\ count' = count - Cardinality(last)
        /\ dmabuf' = [b \in Buffers |-> IF b \in last THEN None ELSE dmabuf[b]]
    BY <1>6 DEF Destroy
  <2>4. last \subseteq Buffers BY DEF TypeOK
  <2> HIDE DEF last
  <2> QED BY <2>2, <2>3, <2>4 DEF TypeOK
<1>7. ASSUME NEW p \in Threads, Reset(p) PROVE TypeOK' /\ Pointers'
  BY <1>6, <1>7 DEF Reset, TypeOK, Pointers, Importing, work, thr, hist
<1>8. ASSUME NEW p \in Threads, NEW t \in Tasks, Submit(p, t) PROVE TypeOK' /\ Pointers'
  BY <1>8 DEF Submit, Step, Set, TypeOK, Pointers, Importing, dma, hist
<1>9. ASSUME NEW p \in Threads, NEW f \in Fds, Trans(p, f) PROVE TypeOK' /\ Pointers'
  BY <1>9 DEF Trans, Step, Set, TypeOK, Pointers, Importing, dma, work, hist
<1>10. ASSUME NEW p \in Threads, NEW f \in Fds, ReleaseFd(p, f) PROVE TypeOK' /\ Pointers'
  BY <1>10 DEF ReleaseFd, Found, Step, Set, TypeOK, Pointers, Importing, dma, work
<1>11. ASSUME NEW t \in Tasks, FreeTask(t) PROVE TypeOK' /\ Pointers'
  BY <1>11 DEF FreeTask, Set, TypeOK, Pointers, Importing, dma, thr, hist
<1>12. ASSUME NEW t \in Tasks, Finalize(t) PROVE TypeOK' /\ Pointers'
  <2>1. PICK r \in regions[t] : Put(r[2]) /\ regions' = Set(regions, t, regions[t] \ {r})
    BY <1>12 DEF Finalize, Region
  <2>2. r[2] \in Buffers BY DEF TypeOK
  <2>3. regions' \in [Tasks -> SUBSET (Fds \X Buffers)]
    <3>1. regions[t] \ {r} \in SUBSET (Fds \X Buffers) BY DEF TypeOK
    <3> QED BY <2>1, <3>1, SetType DEF TypeOK
  <2>4. UNCHANGED <<task, thr, outside, client, dropped, twice, mixed>> BY <1>12 DEF Finalize
  <2> QED BY <2>1, <2>2, <2>3, <2>4, PutType DEF TypeOK, Pointers, Importing, thr
<1>13. ASSUME NEW t \in Tasks, Finalized(t) PROVE TypeOK' /\ Pointers'
  BY <1>13 DEF Finalized, Set, TypeOK, Pointers, Importing, dma, thr, hist
<1>14. CASE Close
  <2>1. CASE Destroy
    BY <1>6, <1>14, <2>1 DEF Close, TypeOK, Pointers, Importing, work, thr
  <2>2. CASE UNCHANGED <<used, unused, count, dmabuf, ref>>
    BY <1>14, <2>2 DEF Close, TypeOK, Pointers, Importing, work, thr
  <2> QED BY <1>14, <2>1, <2>2 DEF Close
<1>15. CASE UNCHANGED vars
  BY <1>15 DEF vars, dma, work, thr, hist, TypeOK, Pointers, Importing
<1> QED
  BY <1>1, <1>2, <1>3, <1>4, <1>5, <1>7, <1>8, <1>9, <1>10, <1>11, <1>12, <1>13, <1>14, <1>15
     DEF Next, Thread, Request, TaskStep

\* The state of the dma session has its type: lists of its own buffers,
\* integer counts, regions of pairs of fd and buffer.
THEOREM TypeCorrect == Spec => []TypeOK
<1>1. TypeOK /\ Pointers /\ [Next]_vars => (TypeOK /\ Pointers)'
  BY TypeStep
<1> QED BY <1>1, TypeInit, PTL DEF Spec

-----------------------------------------------------------------------------
(* Who owns a task *)

\* The initial state satisfies the invariants about tasks and the closed session.
LEMMA OwnersInit == Init => Owners /\ Rest
<1> SUFFICES ASSUME Init PROVE Owners /\ Rest
  OBVIOUS
<1>1. /\ \A p \in Threads : owner[p] = None
      /\ \A t \in Tasks : task[t] = "new" /\ regions[t] = {}
      /\ session = "live"
  BY DEF Init
<1> QED BY <1>1 DEF Owners, Rest

\* A thread that imports, or an ioctl that needs no task, leaves the tasks alone.
LEMMA OwnersFrame ==
  ASSUME Owners, UNCHANGED <<task, regions, owner>>,
         \A p \in Threads : owner[p] # None =>
             /\ pc'[p] \notin {"idle", "found"}
             /\ Importing(p)' => Importing(p) /\ fd'[p] = fd[p]
  PROVE  Owners'
  BY DEF Owners

\* An import ends with the buffer in the task's list.
LEMMA OwnersReturn ==
  ASSUME TypeOK, Pointers, Owners, NEW p \in Threads, NEW b \in Buffers, Importing(p), Return(p, b)
  PROVE  Owners'
<1>1. /\ UNCHANGED <<task, owner>>
      /\ pc' = Set(pc, p, IF owner[p] = None THEN "idle" ELSE "next")
      /\ fd' = Set(fd, p, None)
  BY DEF Return
<1>2. CASE owner[p] = None
  <2>1. UNCHANGED regions BY <1>2 DEF Return
  <2> QED BY <1>1, <1>2, <2>1, OwnersFrame DEF Set, TypeOK, Importing, Owners
<1>3. CASE owner[p] # None
  <2> DEFINE t == owner[p]
  <2>1. t \in Tasks /\ task[t] = "building" BY <1>3 DEF Owners, TypeOK
  <2>2. regions' = Set(regions, t, regions[t] \cup {<<fd[p], b>>}) BY <1>3 DEF Return
  <2>3. \A q \in Threads : q # p => pc'[q] = pc[q] /\ fd'[q] = fd[q] /\ owner[q] # t
    BY <1>1, <1>3 DEF Set, TypeOK, Owners
  <2>4. pc'[p] = "next" BY <1>1, <1>3 DEF Set, TypeOK
  <2>5. \A x \in Tasks : x # t => regions'[x] = regions[x] BY <2>2 DEF Set, TypeOK
  <2>6. \A q \in Threads : owner'[q] # None =>
           task'[owner'[q]] = "building" /\ pc'[q] \notin {"idle", "found"}
    BY <1>1, <2>3, <2>4, <2>1 DEF Owners
  <2>7. \A q \in Threads : owner'[q] # None /\ Importing(q)' =>
           \A r \in regions'[owner'[q]] : r[1] # fd'[q]
    BY <1>1, <2>3, <2>4, <2>5 DEF Owners, Importing, TypeOK
  <2>8. \A x \in Tasks : task'[x] \in {"new", "end"} => regions'[x] = {}
    BY <1>1, <2>1, <2>5 DEF Owners
  <2> QED BY <1>1, <2>6, <2>7, <2>8 DEF Owners
<1> QED BY <1>2, <1>3

\* An import that failed gives its task back.
LEMMA OwnersGive ==
  ASSUME TypeOK, Owners, NEW p \in Threads, Give(p), UNCHANGED regions
  PROVE  Owners'
<1>1. /\ pc' = Set(pc, p, "idle") /\ fd' = Set(fd, p, None) /\ owner' = Set(owner, p, None)
      /\ task' = IF owner[p] = None THEN task ELSE Set(task, owner[p], "freeing")
  BY DEF Give
<1>2. owner'[p] = None /\ \A q \in Threads : q # p =>
        pc'[q] = pc[q] /\ fd'[q] = fd[q] /\ owner'[q] = owner[q]
  BY <1>1 DEF Set, TypeOK
<1>3. \A t \in Tasks : IF owner[p] = t THEN task'[t] = "freeing" ELSE task'[t] = task[t]
  BY <1>1, DmaAssumption DEF Set, TypeOK
<1>4. \A q \in Threads : owner'[q] # None =>
        q # p /\ owner[q] \in Tasks /\ owner[q] # owner[p]
  BY <1>2 DEF Owners, TypeOK
<1>5. \A q \in Threads : owner'[q] # None =>
        task'[owner'[q]] = "building" /\ pc'[q] \notin {"idle", "found"}
  BY <1>2, <1>3, <1>4 DEF Owners
<1>6. \A q \in Threads : owner'[q] # None /\ Importing(q)' =>
        \A r \in regions'[owner'[q]] : r[1] # fd'[q]
  BY <1>2, <1>4 DEF Owners, Importing
<1>7. \A q, s \in Threads : owner'[q] # None /\ owner'[q] = owner'[s] => q = s
  BY <1>2, <1>4 DEF Owners
<1>8. \A t \in Tasks : task'[t] = "building" => \E q \in Threads : owner'[q] = t
  BY <1>2, <1>3 DEF Owners
<1>9. \A t \in Tasks : task'[t] \in {"new", "end"} => regions'[t] = {}
  BY <1>3 DEF Owners
<1> QED BY <1>5, <1>6, <1>7, <1>8, <1>9 DEF Owners

\* No step gives a task two owners, an imported fd twice or regions to a task
\* that is new or freed.
LEMMA OwnersStep == TypeOK /\ Pointers /\ Owners /\ [Next]_vars => Owners'
<1> SUFFICES ASSUME TypeOK, Pointers, Owners, [Next]_vars PROVE Owners'
  OBVIOUS
<1> USE DmaAssumption
<1>1. ASSUME NEW p \in Threads, Import(p) PROVE Owners'
  <2>1. CASE Evict(p)
    BY <2>1, OwnersFrame DEF Evict, Step, Set, TypeOK, Importing, work, Owners
  <2>2. CASE Find(p)
    BY <2>2, OwnersFrame DEF Find, Step, Set, TypeOK, Importing, work, Owners
  <2>3. CASE Get(p)
    BY <2>3, OwnersReturn DEF Get, Importing, Pointers
  <2>4. CASE Missing(p)
    BY <2>4, OwnersFrame DEF Missing, Step, Set, TypeOK, Importing, work, Owners
  <2>5. CASE Take(p)
    BY <2>5, OwnersFrame DEF Take, Step, Set, TypeOK, Importing, work, Owners
  <2>6. CASE TakeNone(p)
    BY <2>6, OwnersGive DEF TakeNone
  <2>7. CASE Map(p)
    BY <2>7, OwnersFrame DEF Map, Step, Set, TypeOK, Importing, work, Owners
  <2>8. CASE MapFails(p)
    BY <2>8, OwnersGive DEF MapFails
  <2>9. CASE Add(p)
    BY <2>9, OwnersReturn DEF Add, Importing, Pointers
  <2> QED BY <1>1, <2>1, <2>2, <2>3, <2>4, <2>5, <2>6, <2>7, <2>8, <2>9 DEF Import
<1>2. ASSUME NEW p \in Threads, PutFd(p) PROVE Owners'
  BY <1>2, OwnersFrame DEF PutFd, Step, Set, TypeOK, Importing, work, Owners
<1>3. ASSUME NEW p \in Threads, UseAfterReset(p) PROVE Owners'
  BY <1>3, OwnersFrame DEF UseAfterReset, Importing, work, thr, Owners
<1>4. ASSUME NEW p \in Threads, AttachFd(p) PROVE Owners'
  <2>1. owner[p] \in Tasks /\ pc[p] = "next" BY <1>4 DEF AttachFd, Step, Pointers
  <2>2. PICK f \in Uses[owner[p]] \ {r[1] : r \in regions[owner[p]]} : fd' = Set(fd, p, f)
    BY <1>4 DEF AttachFd
  <2>3. pc' = Set(pc, p, "evict") /\ UNCHANGED <<task, regions, owner>>
    BY <1>4 DEF AttachFd, Step, work
  <2>4. pc'[p] = "evict" /\ fd'[p] = f /\ \A q \in Threads : q # p => pc'[q] = pc[q] /\ fd'[q] = fd[q]
    BY <2>2, <2>3 DEF Set, TypeOK
  <2>5. \A r \in regions[owner[p]] : r[1] # f BY <2>2
  <2>6. \A q \in Threads : owner'[q] # None =>
           task'[owner'[q]] = "building" /\ pc'[q] \notin {"idle", "found"}
    BY <2>3, <2>4 DEF Owners
  <2>7. \A q \in Threads : owner'[q] # None /\ Importing(q)' =>
           \A r \in regions'[owner'[q]] : r[1] # fd'[q]
    BY <2>3, <2>4, <2>5 DEF Owners, Importing
  <2> QED BY <2>3, <2>6, <2>7 DEF Owners
<1>5. ASSUME NEW p \in Threads, Queue(p) PROVE Owners'
  <2> DEFINE t == owner[p]
  <2>1. t \in Tasks /\ task[t] = "building" BY <1>5 DEF Queue, Step, Pointers, Owners
  <2>2. /\ pc' = Set(pc, p, "idle") /\ task' = Set(task, t, "running") /\ owner' = Set(owner, p, None)
        /\ UNCHANGED <<regions, fd>>
    BY <1>5 DEF Queue, Step
  <2>3. owner'[p] = None /\ \A q \in Threads : q # p =>
          pc'[q] = pc[q] /\ owner'[q] = owner[q] /\ owner[q] # t
    BY <2>1, <2>2 DEF Set, TypeOK, Owners
  <2>4. task'[t] = "running" /\ \A x \in Tasks : x # t => task'[x] = task[x]
    BY <2>1, <2>2 DEF Set, TypeOK
  <2> HIDE DEF t
  <2>5. \A q \in Threads : owner'[q] # None =>
          task'[owner'[q]] = "building" /\ pc'[q] \notin {"idle", "found"}
    BY <2>3, <2>4 DEF Owners, TypeOK
  <2>6. \A q \in Threads : owner'[q] # None /\ Importing(q)' =>
          \A r \in regions'[owner'[q]] : r[1] # fd'[q]
    BY <2>2, <2>3 DEF Owners, Importing
  <2>7. \A x \in Tasks : task'[x] = "building" => \E q \in Threads : owner'[q] = x
    <3>1. SUFFICES ASSUME NEW x \in Tasks, task'[x] = "building"
                   PROVE  \E q \in Threads : owner'[q] = x
      OBVIOUS
    <3>2. x # t /\ task[x] = "building" BY <2>4, <3>1
    <3>3. PICK q \in Threads : owner[q] = x BY <3>2 DEF Owners
    <3>4. q # p BY <3>2, <3>3 DEF t
    <3> QED BY <2>3, <3>3, <3>4
  <2>8. \A x \in Tasks : task'[x] \in {"new", "end"} => regions'[x] = {}
    BY <2>2, <2>4 DEF Owners
  <2>9. \A q, s \in Threads : owner'[q] # None /\ owner'[q] = owner'[s] => q = s
    BY <2>3 DEF Owners
  <2> QED BY <2>5, <2>6, <2>7, <2>8, <2>9 DEF Owners
<1>6. ASSUME NEW p \in Threads, Reset(p) PROVE Owners'
  BY <1>6, OwnersFrame DEF Reset, Importing, work, thr, Owners
<1>7. ASSUME NEW p \in Threads, NEW t \in Tasks, Submit(p, t) PROVE Owners'
  <2>1. /\ pc[p] = "idle" /\ task[t] = "new"
        /\ pc' = Set(pc, p, "next") /\ task' = Set(task, t, "building") /\ owner' = Set(owner, p, t)
        /\ UNCHANGED <<regions, fd>>
    BY <1>7 DEF Submit, Step
  <2>2. owner'[p] = t /\ pc'[p] = "next" /\ \A q \in Threads : q # p =>
          pc'[q] = pc[q] /\ owner'[q] = owner[q] /\ owner[q] # t
    BY <2>1 DEF Set, TypeOK, Owners
  <2>3. task'[t] = "building" /\ \A x \in Tasks : x # t => task'[x] = task[x]
    BY <2>1 DEF Set, TypeOK
  <2>4. \A q \in Threads : owner'[q] # None =>
          task'[owner'[q]] = "building" /\ pc'[q] \notin {"idle", "found"}
    BY <2>2, <2>3 DEF Owners, TypeOK
  <2>5. \A q \in Threads : owner'[q] # None /\ Importing(q)' =>
          \A r \in regions'[owner'[q]] : r[1] # fd'[q]
    BY <2>1, <2>2 DEF Owners, Importing
  <2>6. owner[p] = None BY <2>1 DEF Owners, TypeOK
  <2>7. \A x \in Tasks : task'[x] = "building" => \E q \in Threads : owner'[q] = x
    <3>1. SUFFICES ASSUME NEW x \in Tasks, x # t, task'[x] = "building"
                   PROVE  \E q \in Threads : owner'[q] = x
      BY <2>2
    <3>2. PICK q \in Threads : owner[q] = x BY <2>3, <3>1 DEF Owners
    <3> QED BY <2>2, <2>6, <3>2
  <2>8. \A x \in Tasks : task'[x] \in {"new", "end"} => regions'[x] = {}
    BY <2>1, <2>3 DEF Owners
  <2>9. \A q, s \in Threads : owner'[q] # None /\ owner'[q] = owner'[s] => q = s
    BY <2>2 DEF Owners
  <2> QED BY <2>4, <2>5, <2>7, <2>8, <2>9 DEF Owners
<1>8. ASSUME NEW p \in Threads, NEW f \in Fds, Trans(p, f) PROVE Owners'
  BY <1>8, OwnersFrame DEF Trans, Step, Set, TypeOK, Importing, work, Owners
<1>9. ASSUME NEW p \in Threads, NEW f \in Fds, ReleaseFd(p, f) PROVE Owners'
  BY <1>9, OwnersFrame DEF ReleaseFd, Step, Set, TypeOK, Importing, work, Owners
<1>10. ASSUME NEW t \in Tasks, NEW s \in {"freeing", "end"},
              task[t] \in {"running", "freeing"}, task' = Set(task, t, s),
              s = "end" => regions[t] = {}, UNCHANGED <<regions, thr>>
       PROVE  Owners'
  <2>1. \A x \in Tasks : IF x = t THEN task'[x] = s ELSE task'[x] = task[x]
    BY <1>10 DEF Set, TypeOK
  <2>2. \A q \in Threads : owner[q] # None => owner[q] \in Tasks /\ owner[q] # t
    BY <1>10 DEF Owners, TypeOK
  <2>3. \A q \in Threads : owner'[q] # None =>
          task'[owner'[q]] = "building" /\ pc'[q] \notin {"idle", "found"}
    BY <1>10, <2>1, <2>2 DEF Owners, thr
  <2> QED BY <1>10, <2>1, <2>3 DEF Owners, Importing, thr
<1>11. ASSUME NEW t \in Tasks, FreeTask(t) PROVE Owners'
  BY <1>10, <1>11 DEF FreeTask
<1>12. ASSUME NEW t \in Tasks, Finalized(t) PROVE Owners'
  BY <1>10, <1>12 DEF Finalized
<1>13. ASSUME NEW t \in Tasks, Finalize(t) PROVE Owners'
  <2>1. PICK r \in regions[t] : regions' = Set(regions, t, regions[t] \ {r})
    BY <1>13 DEF Finalize
  <2>2. task[t] = "freeing" /\ UNCHANGED <<task, pc, fd, owner>> BY <1>13 DEF Finalize, thr
  <2>3. \A x \in Tasks : regions'[x] \subseteq regions[x] BY <2>1 DEF Set, TypeOK
  <2>4. \A q \in Threads : owner'[q] # None /\ Importing(q)' =>
          \A s \in regions'[owner'[q]] : s[1] # fd'[q]
    BY <2>2, <2>3 DEF Owners, Importing, TypeOK
  <2>5. \A x \in Tasks : task'[x] \in {"new", "end"} => regions'[x] = {}
    BY <2>2, <2>3 DEF Owners
  <2> QED BY <2>2, <2>4, <2>5 DEF Owners
<1>14. CASE Close
  BY <1>14, OwnersFrame DEF Close, Importing, work, thr, Owners
<1>15. CASE UNCHANGED vars
  BY <1>15, OwnersFrame DEF vars, work, thr, Importing, Owners
<1> QED
  BY <1>1, <1>2, <1>3, <1>4, <1>5, <1>6, <1>7, <1>8, <1>9, <1>11, <1>12, <1>13, <1>14, <1>15
     DEF Next, Thread, Request, TaskStep

\* A closed session stays at rest: no thread has an ioctl left and no task lives.
LEMMA RestStep == TypeOK /\ Pointers /\ Owners /\ Rest /\ [Next]_vars => Rest'
<1> SUFFICES ASSUME TypeOK, Pointers, Owners, Rest, [Next]_vars, session' = "closed"
             PROVE  /\ \A p \in Threads : pc'[p] = "idle"
                    /\ \A t \in Tasks : task'[t] \in {"new", "end"}
  BY DEF Rest
<1>1. CASE Close
  <2>1. /\ \A p \in Threads : pc[p] = "idle"
        /\ \A t \in Tasks : task[t] \in {"new", "building", "end"}
        /\ UNCHANGED <<pc, task>>
    BY <1>1 DEF Close, NoTask, work, thr
  <2>2. \A t \in Tasks : task[t] # "building" BY <2>1, DmaAssumption DEF Owners
  <2> QED BY <2>1, <2>2
<1>2. CASE UNCHANGED vars
  BY <1>2 DEF vars, dma, work, thr, Rest
<1>3. ASSUME NEW p \in Threads, Thread(p) \/ Request(p) PROVE FALSE
  <2>1. session' = session \/ session' = "reset"
    BY <1>3 DEF Thread, Request, Import, Evict, Find, Get, Missing, Take, TakeNone, Map, MapFails, Add,
       Return, PutFd, Put, Drop, UseAfterReset, AttachFd, Queue, Reset, Submit, Trans, ReleaseFd, dma
  <2>2. \A q \in Threads : pc[q] = "idle" BY <2>1 DEF Rest
  <2> QED BY <1>3, <2>1, <2>2 DEF Thread, Request, AttachFd, Queue, Step, Reset, UseAfterReset
<1>4. ASSUME NEW t \in Tasks, TaskStep(t) PROVE FALSE
  <2>1. session' = session
    BY <1>4 DEF TaskStep, FreeTask, Finalize, Finalized, Region, Put, dma
  <2>2. task[t] \in {"new", "end"} BY <2>1 DEF Rest
  <2> QED BY <1>4, <2>2 DEF TaskStep, FreeTask, Finalize, Finalized
<1> QED BY <1>1, <1>2, <1>3, <1>4 DEF Next

-----------------------------------------------------------------------------
(* The pool *)

\* The holders of a buffer are finitely many, before and after a step.
LEMMA HeldFinite ==
  ASSUME NEW b
  PROVE  /\ IsFiniteSet(Held(b)) /\ Cardinality(Held(b)) \in Nat
         /\ Cardinality(Held(b)) = 0 <=> Held(b) = {}
         /\ Cardinality(Held(b)') \in Nat
         /\ Cardinality(Held(b)') = 0 <=> Held(b)' = {}
<1>1. IsFiniteSet(Tasks \X Fds) BY FS_Product, DmaAssumption
<1>2. Held(b) \subseteq Tasks \X Fds /\ Held(b)' \subseteq Tasks \X Fds BY DEF Held
<1>3. IsFiniteSet(Held(b)) /\ IsFiniteSet(Held(b)') BY <1>1, <1>2, FS_Subset
<1> QED BY <1>3, FS_CardinalityType, FS_EmptySet

\* An import that returns gives its buffer one more holder.
LEMMA ReturnHolds ==
  ASSUME TypeOK, Pointers, Owners, NEW p \in Threads, NEW b \in Buffers, Importing(p), Return(p, b)
  PROVE  /\ Cardinality(Held(b)') + outside'[b] = Cardinality(Held(b)) + outside[b] + 1
         /\ \A c \in Buffers : c # b => Held(c)' = Held(c) /\ outside'[c] = outside[c]
         /\ \A t \in Tasks : \A r \in regions'[t] : r \in regions[t] \/ r = <<fd[p], b>>
<1>1. CASE owner[p] = None
  <2>1. outside' = Set(outside, b, outside[b] + 1) /\ UNCHANGED regions
    BY <1>1 DEF Return
  <2>2. outside'[b] = outside[b] + 1 /\ \A c \in Buffers : c # b => outside'[c] = outside[c]
    BY <2>1 DEF Set, TypeOK
  <2>3. \A c : Held(c)' = Held(c) BY <2>1 DEF Held
  <2>4. Cardinality(Held(b)) \in Nat /\ outside[b] \in Nat BY HeldFinite DEF TypeOK
  <2>5. Cardinality(Held(b)') = Cardinality(Held(b)) BY <2>3
  <2> QED BY <2>1, <2>2, <2>3, <2>4, <2>5
<1>2. CASE owner[p] # None
  <2> DEFINE t == owner[p]
  <2>1. t \in Tasks /\ fd[p] \in Fds BY <1>2 DEF TypeOK, Pointers
  <2>2. regions' = Set(regions, t, regions[t] \cup {<<fd[p], b>>}) /\ UNCHANGED outside
    BY <1>2 DEF Return
  <2>3. <<fd[p], b>> \notin regions[t] BY <1>2 DEF Owners
  <2>4. \A x \in Tasks : regions'[x] = IF x = t THEN regions[t] \cup {<<fd[p], b>>} ELSE regions[x]
    BY <2>2 DEF Set, TypeOK
  <2> HIDE DEF t
  <2>5. Held(b)' = Held(b) \cup {<<t, fd[p]>>} /\ <<t, fd[p]>> \notin Held(b)
    BY <2>1, <2>3, <2>4 DEF Held
  <2>6. \A c \in Buffers : c # b => Held(c)' = Held(c)
    BY <2>1, <2>4 DEF Held
  <2>7. Cardinality(Held(b)') = Cardinality(Held(b)) + 1
    BY <2>5, HeldFinite, FS_AddElement
  <2>8. Cardinality(Held(b)) \in Nat /\ outside[b] \in Nat BY HeldFinite DEF TypeOK
  <2>9. outside' = outside BY <2>2
  <2>10. Cardinality(Held(b)') + outside'[b] = Cardinality(Held(b)) + outside[b] + 1
    BY <2>7, <2>8, <2>9
  <2>11. \A x \in Tasks : \A r \in regions'[x] : r \in regions[x] \/ r = <<fd[p], b>>
    BY <2>4
  <2> QED BY <2>6, <2>9, <2>10, <2>11
<1> QED BY <1>1, <1>2

\* A thread keeps the buffer it is adding, or is not adding one.
SameBusy ==
    \A p \in Threads :
        \/ pc'[p] = pc[p] /\ buffer'[p] = buffer[p] /\ fd'[p] = fd[p]
        \/ pc[p] \notin {"map", "add"} /\ pc'[p] \notin {"map", "add"}

\* The pool has its invariant in the initial state.
LEMMA PoolInit == Init => Pool
<1> SUFFICES ASSUME Init PROVE Lists /\ Refs /\ Matches /\ Adds
  BY DEF Pool
<1>1. /\ used = {} /\ unused = Buffers /\ count = 0
      /\ \A b \in Buffers : dmabuf[b] = None /\ ref[b] = 0 /\ outside[b] = 0 /\ dropped[b] = 0
      /\ \A p \in Threads : pc[p] = "idle"
      /\ \A t \in Tasks : regions[t] = {}
  BY DEF Init
<1>2. Cardinality(used) = 0 BY <1>1, FS_EmptySet
<1>3. \A b : Held(b) = {} BY <1>1 DEF Held
<1> QED BY <1>1, <1>2, <1>3 DEF Lists, Refs, Matches, Adds, Busy, Mapped, Adding

\* A step that touches neither the pool nor a thread that is adding a buffer
\* keeps the invariant.
LEMMA PoolFrame ==
  ASSUME TypeOK, Pool, SameBusy, Good' => Good, ~mixed' => ~mixed,
         UNCHANGED <<used, unused, count, dmabuf, ref, regions, outside, dropped>>
  PROVE  Pool'
<1> SUFFICES ASSUME Good' PROVE (Lists /\ Refs /\ Matches /\ Adds)'
  BY DEF Pool
<1>1. Lists /\ Refs /\ Matches /\ Adds BY DEF Pool
<1>2. \A p \in Threads, b \in Buffers : Busy(p, b)' <=> Busy(p, b) BY DEF SameBusy, Busy
<1>3. \A b : Adding(b)' <=> Adding(b) BY DEF SameBusy, Adding
<1>4. \A b : Held(b)' = Held(b) BY DEF Held
<1>5. Lists' BY <1>1, <1>2 DEF Lists
<1>6. Refs'
  <2>1. \A b : Mapped(b)' <=> Mapped(b) BY <1>3 DEF Mapped
  <2> QED BY <1>1, <1>3, <1>4, <2>1 DEF Refs
<1>7. Matches' BY <1>1 DEF Matches
<1>8. Adds' BY <1>1 DEF Adds, SameBusy
<1> QED BY <1>5, <1>6, <1>7, <1>8

\* A put gives up one of the references that are accounted for, and the buffer
\* goes to unused_list with the last one: nobody holds it then.
LEMMA PoolPut ==
  ASSUME TypeOK, Good, Lists, Refs, Matches, Adds, SameBusy, Good', mixed' = mixed,
         NEW b \in Buffers, Put(b),
         dropped'[b] \in Nat, dropped'[b] <= 1, outside'[b] \in Nat,
         Cardinality(Held(b)') \in Nat, Cardinality(Held(b)') = 0 => Held(b)' = {},
         Cardinality(Held(b)') + outside'[b] - dropped'[b]
             = Cardinality(Held(b)) + outside[b] - dropped[b] - 1,
         \A c \in Buffers : c # b =>
             Held(c)' = Held(c) /\ outside'[c] = outside[c] /\ dropped'[c] = dropped[c],
         \A t \in Tasks : regions'[t] \subseteq regions[t]
  PROVE  (Lists /\ Refs /\ Matches /\ Adds)'
<1>1. ref[b] # 0 BY DEF Put, Good
<1>2. Mapped(b) /\ ref[b] > 0 BY <1>1 DEF Refs
<1>3. /\ ref[b] \in Int /\ outside[b] \in Nat /\ dropped[b] \in Nat
      /\ Cardinality(Held(b)) \in Nat
  BY HeldFinite DEF TypeOK
<1>4. ref[b] = 1 + Cardinality(Held(b)) + outside[b] - dropped[b] + (IF Adding(b) THEN 1 ELSE 0)
  BY <1>2 DEF Refs
<1>5. \A p \in Threads, c \in Buffers : Busy(p, c)' <=> Busy(p, c) BY DEF SameBusy, Busy
<1>6. \A c : Adding(c)' <=> Adding(c) BY DEF SameBusy, Adding
<1>7. ref'[b] = ref[b] - 1 /\ \A c \in Buffers : c # b => ref'[c] = ref[c]
  BY DEF Put, Set, TypeOK
<1>8. CASE ref[b] # 1
  <2>1. UNCHANGED <<count, used, unused, dmabuf>> BY <1>8 DEF Put
  <2>2. \A c : Mapped(c)' <=> Mapped(c) BY <1>6, <2>1 DEF Mapped
  <2>3. Lists' BY <1>5, <2>1 DEF Lists
  <2>4. Refs'
    <3>1. /\ dropped'[b] <= 1 /\ Mapped(b)' /\ dmabuf'[b] # None /\ ref'[b] > 0
      BY <1>2, <1>3, <1>7, <1>8, <2>1, <2>2 DEF Refs
    <3>2. ref'[b] = 1 + Cardinality(Held(b)') + outside'[b] - dropped'[b]
                      + (IF Adding(b)' THEN 1 ELSE 0)
      BY <1>3, <1>4, <1>6, <1>7
    <3> QED BY <1>6, <1>7, <2>1, <2>2, <3>1, <3>2 DEF Refs
  <2>5. Matches' BY <2>1 DEF Matches
  <2>6. Adds' BY <2>1 DEF Adds, SameBusy
  <2> QED BY <2>3, <2>4, <2>5, <2>6
<1>9. CASE ref[b] = 1
  <2>1. /\ count' = count - 1 /\ used' = used \ {b} /\ unused' = unused \cup {b}
        /\ dmabuf' = Set(dmabuf, b, None)
    BY <1>9 DEF Put
  <2>2. ~Adding(b) /\ Cardinality(Held(b)') = 0 /\ outside'[b] = 0
    BY <1>3, <1>4, <1>9
  <2>3. b \in used BY <1>2, <2>2 DEF Mapped
  <2>4. dmabuf'[b] = None /\ \A c \in Buffers : c # b => dmabuf'[c] = dmabuf[c]
    BY <2>1 DEF Set, TypeOK
  <2>5. Lists'
    <3>1. IsFiniteSet(used) BY FS_Subset, DmaAssumption DEF TypeOK
    <3>2. Cardinality(used \ {b}) = Cardinality(used) - 1 BY <2>3, <3>1, FS_RemoveElement
    <3> QED BY <1>5, <2>1, <2>3, <3>2 DEF Lists
  <2>6. ~Mapped(b)' /\ \A c \in Buffers : c # b => (Mapped(c)' <=> Mapped(c))
    BY <1>6, <2>1, <2>2 DEF Mapped
  <2>7. Refs'
    <3>1. ref'[b] = 0 BY <1>7, <1>9
    <3> QED BY <1>6, <1>7, <2>2, <2>4, <2>6, <3>1 DEF Refs
  <2>8. Matches'
    <3>1. \A t \in Tasks : \A r \in regions'[t] :
            r \in Fds \X Buffers /\ r = <<r[1], r[2]>> /\ r \in regions[t]
      BY DEF TypeOK
    <3>2. \A t \in Tasks : \A r \in regions'[t] : r[2] # b
      <4>1. Held(b)' = {} BY <2>2
      <4>2. SUFFICES ASSUME NEW t \in Tasks, NEW r \in regions'[t], r[2] = b PROVE FALSE
        OBVIOUS
      <4>3. r[1] \in Fds /\ <<r[1], b>> \in regions'[t] BY <3>1, <4>2
      <4>4. <<t, r[1]>> \in Held(b)' BY <4>3 DEF Held
      <4> QED BY <4>1, <4>4
    <3> QED BY <2>4, <3>1, <3>2 DEF Matches
  <2>9. Adds'
    <3>1. \A p \in Threads : pc[p] = "add" => buffer[p] # b BY <2>2 DEF Adding
    <3>2. \A p \in Threads : pc'[p] = "add" =>
            /\ pc[p] = "add" /\ buffer'[p] = buffer[p] /\ fd'[p] = fd[p]
      BY DEF SameBusy
    <3>3. \A p \in Threads : pc[p] = "add" => dmabuf'[buffer[p]] = dmabuf[buffer[p]]
      BY <2>1, <3>1 DEF Set, TypeOK
    <3> QED BY <3>1, <3>2, <3>3 DEF Adds
  <2> QED BY <2>5, <2>7, <2>8, <2>9
<1> QED BY <1>8, <1>9

\* A thread takes a buffer from unused_list, or puts it back unmapped.
LEMMA PoolTake ==
  ASSUME TypeOK, Good, Lists, Refs, Matches, Adds, NEW p \in Threads, Take(p)
  PROVE  (Lists /\ Refs /\ Matches /\ Adds)'
<1>1. PICK b \in unused : buffer' = Set(buffer, p, b) /\ unused' = unused \ {b}
  BY DEF Take, Free
<1>2. /\ pc[p] = "take" /\ pc' = Set(pc, p, "map") /\ b \in Buffers
      /\ UNCHANGED <<used, count, dmabuf, ref, regions, fd, outside, dropped, mixed>>
  BY DEF Take, Step, work, hist, TypeOK
<1>3. pc'[p] = "map" /\ buffer'[p] = b /\ \A q \in Threads : q # p =>
        pc'[q] = pc[q] /\ buffer'[q] = buffer[q]
  BY <1>1, <1>2 DEF Set, TypeOK
<1>4. \A q \in Threads, c \in Buffers : Busy(q, c)' <=> (IF q = p THEN c = b ELSE Busy(q, c))
  BY <1>3 DEF Busy
<1>5. b \notin used /\ \A q \in Threads : ~Busy(q, b)
  BY <1>1, <1>2 DEF Lists
<1>6. \A c : Adding(c)' <=> Adding(c) BY <1>2, <1>3 DEF Adding
<1>7. Lists'
  <2>1. used' \cap unused' = {} /\ count' = Cardinality(used')
    BY <1>1, <1>2 DEF Lists
  <2>2. \A c \in Buffers : c \notin used' \cup unused' <=> \E q \in Threads : Busy(q, c)'
    <3>1. ~Busy(p, b) /\ \A c \in Buffers : ~Busy(p, c) BY <1>2 DEF Busy
    <3> QED BY <1>1, <1>2, <1>4, <1>5, <3>1 DEF Lists
  <2>3. \A q, s \in Threads, c \in Buffers : Busy(q, c)' /\ Busy(s, c)' => q = s
    BY <1>4, <1>5 DEF Lists
  <2> QED BY <2>1, <2>2, <2>3 DEF Lists
<1>8. \A c : Held(c)' = Held(c) BY <1>2 DEF Held
<1>9. Refs'
  <2>1. \A c : Mapped(c)' <=> Mapped(c) BY <1>2, <1>6 DEF Mapped
  <2> QED BY <1>2, <1>6, <1>8, <2>1 DEF Refs
<1>10. Matches' BY <1>2 DEF Matches
<1>11. Adds' BY <1>2, <1>3 DEF Adds
<1> QED BY <1>7, <1>9, <1>10, <1>11

\* A new mapping has two references, that of the pool and that of its importer.
LEMMA PoolMap ==
  ASSUME TypeOK, Pointers, Good, Lists, Refs, Matches, Adds, NEW p \in Threads, Map(p)
  PROVE  (Lists /\ Refs /\ Matches /\ Adds)'
<1>0. PICK b \in Buffers : b = buffer[p]
  BY DEF Map, Step, Pointers
<1>1. /\ pc[p] = "map" /\ fd[p] \in Fds /\ pc' = Set(pc, p, "add")
      /\ dmabuf' = Set(dmabuf, b, fd[p]) /\ ref' = Set(ref, b, 2) /\ dropped' = Set(dropped, b, 0)
      /\ UNCHANGED <<used, unused, count, regions, fd, buffer, outside, mixed>>
  BY <1>0 DEF Map, FirstRefs, Step, work, Pointers, Importing
<1>2. pc'[p] = "add" /\ \A q \in Threads : q # p => pc'[q] = pc[q]
  BY <1>1 DEF Set, TypeOK
<1>3. /\ dmabuf'[b] = fd[p] /\ ref'[b] = 2 /\ dropped'[b] = 0
      /\ \A c \in Buffers : c # b => dmabuf'[c] = dmabuf[c] /\ ref'[c] = ref[c] /\ dropped'[c] = dropped[c]
  BY <1>1 DEF Set, TypeOK
<1>4. \A q \in Threads, c \in Buffers : Busy(q, c)' <=> Busy(q, c)
  BY <1>1, <1>2 DEF Busy
<1>5. Busy(p, b) /\ b \notin used /\ \A q \in Threads : Busy(q, b) => q = p
  <2>1. Busy(p, b) BY <1>0, <1>1 DEF Busy
  <2> QED BY <1>1, <2>1 DEF Lists
<1>6. ~Adding(b) /\ Adding(b)' /\ \A c : c # b => (Adding(c)' <=> Adding(c))
  <2>1. ~Adding(b) BY <1>1, <1>5 DEF Adding, Busy
  <2>2. Adding(b)' BY <1>0, <1>1, <1>2 DEF Adding
  <2>3. \A c : c # b => (Adding(c)' <=> Adding(c)) BY <1>0, <1>1, <1>2 DEF Adding
  <2> QED BY <2>1, <2>2, <2>3
<1>7. Lists' BY <1>1, <1>4 DEF Lists
<1>8. \A c : Held(c)' = Held(c) BY <1>1 DEF Held
<1>9. ~Mapped(b) /\ Mapped(b)' /\ \A c : c # b => (Mapped(c)' <=> Mapped(c))
  BY <1>1, <1>5, <1>6 DEF Mapped
<1>10. Held(b) = {} /\ outside[b] = 0 BY <1>1, <1>9 DEF Refs
<1>11. Refs'
  <2>1. Cardinality(Held(b)') = 0 BY <1>8, <1>10, HeldFinite
  <2>2. /\ dropped'[b] <= 1 /\ dmabuf'[b] # None /\ ref'[b] > 0
        /\ ref'[b] = 1 + Cardinality(Held(b)') + outside'[b] - dropped'[b]
                       + (IF Adding(b)' THEN 1 ELSE 0)
    BY <1>1, <1>3, <1>6, <1>10, <2>1, DmaAssumption
  <2> QED BY <1>1, <1>3, <1>6, <1>8, <1>9, <2>2 DEF Refs
<1>12. Matches'
  <2>1. \A t \in Tasks : \A r \in regions[t] : r[2] \in Buffers /\ r[2] # b
    <3>1. SUFFICES ASSUME NEW t \in Tasks, NEW r \in regions[t]
                   PROVE  r[2] \in Buffers /\ r[2] # b
      OBVIOUS
    <3>2. r[1] \in Fds /\ r[2] \in Buffers /\ r = <<r[1], r[2]>> BY DEF TypeOK
    <3>3. r[2] = b => <<t, r[1]>> \in Held(b) BY <3>2 DEF Held
    <3> QED BY <1>10, <3>2, <3>3
  <2> QED BY <1>1, <1>3, <2>1 DEF Matches
<1>13. Adds'
  <2>1. SUFFICES ASSUME NEW q \in Threads, pc'[q] = "add" PROVE dmabuf'[buffer'[q]] = fd'[q]
    BY DEF Adds
  <2>2. CASE q = p BY <1>0, <1>1, <1>3, <2>2
  <2>3. CASE q # p
    <3>1. pc[q] = "add" /\ buffer[q] \in Buffers BY <1>2, <2>1, <2>3 DEF Pointers
    <3>2. buffer[q] # b BY <1>5, <2>3, <3>1 DEF Busy
    <3> QED BY <1>1, <1>3, <3>1, <3>2 DEF Adds
  <2> QED BY <2>2, <2>3
<1> QED BY <1>7, <1>11, <1>12, <1>13

\* A buffer that could not be mapped goes back to unused_list.
LEMMA PoolMapFails ==
  ASSUME TypeOK, Pointers, Good, Lists, Refs, Matches, Adds, NEW p \in Threads, MapFails(p)
  PROVE  (Lists /\ Refs /\ Matches /\ Adds)'
<1>0. PICK b \in Buffers : b = buffer[p]
  BY DEF MapFails, Pointers
<1>1. /\ pc[p] = "map" /\ unused' = unused \cup {b}
      /\ pc' = Set(pc, p, "idle") /\ buffer' = Set(buffer, p, None) /\ fd' = Set(fd, p, None)
      /\ UNCHANGED <<used, count, dmabuf, ref, regions, outside, dropped, mixed>>
  BY <1>0 DEF MapFails, Unuse, Give, hist, Pointers
<1>2. pc'[p] = "idle" /\ \A q \in Threads : q # p =>
        pc'[q] = pc[q] /\ buffer'[q] = buffer[q] /\ fd'[q] = fd[q]
  BY <1>1 DEF Set, TypeOK
<1>3. \A q \in Threads, c \in Buffers : Busy(q, c)' <=> q # p /\ Busy(q, c)
  BY <1>2 DEF Busy
<1>4. Busy(p, b) /\ b \notin used /\ \A c \in Buffers : Busy(p, c) => c = b
  <2>1. Busy(p, b) BY <1>0, <1>1 DEF Busy
  <2>2. \A c \in Buffers : Busy(p, c) => c = b BY <1>0 DEF Busy
  <2> QED BY <1>1, <2>1, <2>2 DEF Lists
<1>5. \A c : Adding(c)' <=> Adding(c) BY <1>1, <1>2 DEF Adding
<1>6. Lists'
  <2>1. used' \cap unused' = {} /\ count' = Cardinality(used') BY <1>1, <1>4 DEF Lists
  <2>2. \A c \in Buffers : c \notin used' \cup unused' <=> \E q \in Threads : Busy(q, c)'
    BY <1>1, <1>3, <1>4 DEF Lists
  <2>3. \A q, s \in Threads, c \in Buffers : Busy(q, c)' /\ Busy(s, c)' => q = s
    BY <1>3 DEF Lists
  <2> QED BY <2>1, <2>2, <2>3 DEF Lists
<1>7. \A c : Held(c)' = Held(c) BY <1>1 DEF Held
<1>8. Refs'
  <2>1. \A c : Mapped(c)' <=> Mapped(c) BY <1>1, <1>5 DEF Mapped
  <2> QED BY <1>1, <1>5, <1>7, <2>1 DEF Refs
<1>9. Matches' BY <1>1 DEF Matches
<1>10. Adds' BY <1>1, <1>2 DEF Adds
<1> QED BY <1>6, <1>8, <1>9, <1>10

\* The reference of the importer becomes that of a region or of user space.
LEMMA PoolAdd ==
  ASSUME TypeOK, Pointers, Owners, Good, Lists, Refs, Matches, Adds, NEW p \in Threads, Add(p)
  PROVE  (Lists /\ Refs /\ Matches /\ Adds)'
<1>0. PICK b \in Buffers : b = buffer[p]
  BY DEF Add, Pointers
<1>1. /\ pc[p] = "add" /\ Importing(p) /\ Return(p, b)
      /\ count' = count + 1 /\ used' = used \cup {b}
      /\ UNCHANGED <<unused, dmabuf, ref, dropped, mixed>>
  BY <1>0 DEF Add, Pointers, Importing
<1>2. /\ pc'[p] \in {"idle", "next"}
      /\ \A q \in Threads : q # p => pc'[q] = pc[q] /\ buffer'[q] = buffer[q] /\ fd'[q] = fd[q]
  BY <1>1 DEF Return, Set, TypeOK
<1>3. /\ Cardinality(Held(b)') + outside'[b] = Cardinality(Held(b)) + outside[b] + 1
      /\ \A c \in Buffers : c # b => Held(c)' = Held(c) /\ outside'[c] = outside[c]
      /\ \A t \in Tasks : \A r \in regions'[t] : r \in regions[t] \/ r = <<fd[p], b>>
  BY <1>1, ReturnHolds
<1>4. dmabuf[b] = fd[p] BY <1>0, <1>1 DEF Adds
<1>5. Busy(p, b) /\ \A c \in Buffers : Busy(p, c) => c = b BY <1>0, <1>1 DEF Busy
<1>6. Adding(b) BY <1>0, <1>1 DEF Adding
<1>7. \A q \in Threads, c \in Buffers : Busy(q, c)' <=> q # p /\ Busy(q, c)
  BY <1>2 DEF Busy
<1>8. b \notin used /\ b \notin unused /\ \A q \in Threads : Busy(q, b) => q = p
  BY <1>1, <1>5 DEF Lists
<1>9. ~Adding(b)' /\ \A c \in Buffers : c # b => (Adding(c)' <=> Adding(c))
  <2>1. ~Adding(b)'
    <3>1. SUFFICES ASSUME NEW q \in Threads, pc'[q] = "add", buffer'[q] = b PROVE FALSE
      BY DEF Adding
    <3>2. q # p /\ Busy(q, b) BY <1>2, <3>1 DEF Busy
    <3> QED BY <1>8, <3>2
  <2>2. ASSUME NEW c \in Buffers, c # b PROVE Adding(c)' <=> Adding(c)
    BY <1>2, <1>5, <2>2 DEF Adding, Busy
  <2> QED BY <2>1, <2>2
<1>10. Lists'
  <2>1. IsFiniteSet(used) BY FS_Subset, DmaAssumption DEF TypeOK
  <2>2. Cardinality(used \cup {b}) = Cardinality(used) + 1 BY <1>8, <2>1, FS_AddElement
  <2>3. used' \cap unused' = {} /\ count' = Cardinality(used') BY <1>1, <1>8, <2>2 DEF Lists
  <2>4. \A c \in Buffers : c \notin used' \cup unused' <=> \E q \in Threads : Busy(q, c)'
    BY <1>1, <1>5, <1>7, <1>8 DEF Lists
  <2>5. \A q, s \in Threads, c \in Buffers : Busy(q, c)' /\ Busy(s, c)' => q = s
    BY <1>7 DEF Lists
  <2> QED BY <2>3, <2>4, <2>5 DEF Lists
<1>11. Refs'
  <2>1. /\ Mapped(b) /\ Mapped(b)'
        /\ \A c \in Buffers : c # b => (Mapped(c)' <=> Mapped(c))
    BY <1>1, <1>6, <1>9 DEF Mapped
  <2>2. /\ dropped[b] <= 1 /\ dmabuf[b] # None /\ ref[b] > 0
        /\ ref[b] = 1 + Cardinality(Held(b)) + outside[b] - dropped[b] + 1
    BY <1>1, <1>6, <2>1 DEF Refs
  <2>3. /\ Cardinality(Held(b)) \in Nat /\ Cardinality(Held(b)') \in Nat
        /\ outside[b] \in Nat /\ dropped[b] \in Nat /\ outside'[b] \in Int
    <3>1. Cardinality(Held(b)') \in Nat BY HeldFinite
    <3>2. outside'[b] \in Nat BY <1>1 DEF Return, Set, TypeOK
    <3> QED BY <1>1, <3>1, <3>2, HeldFinite DEF TypeOK
  <2>4. ref'[b] = 1 + Cardinality(Held(b)') + outside'[b] - dropped'[b]
                    + (IF Adding(b)' THEN 1 ELSE 0)
    BY <1>1, <1>3, <1>9, <2>2, <2>3
  <2> QED BY <1>1, <1>3, <1>9, <2>1, <2>2, <2>4 DEF Refs
<1>12. Matches' BY <1>1, <1>3, <1>4 DEF Matches
<1>13. Adds' BY <1>1, <1>2 DEF Adds
<1> QED BY <1>10, <1>11, <1>12, <1>13

\* kref_get_unless_zero takes a reference to a mapped buffer.
LEMMA PoolGet ==
  ASSUME TypeOK, Pointers, Owners, Good, Lists, Refs, Matches, Adds, NEW p \in Threads, Get(p)
  PROVE  (Lists /\ Refs /\ Matches /\ Adds)'
<1>0. PICK b \in Buffers : b = buffer[p]
  BY DEF Get, Pointers
<1>1. /\ pc[p] = "get" /\ Importing(p) /\ Return(p, b) /\ ref[b] # 0
      /\ ref' = Set(ref, b, ref[b] + 1) /\ mixed' = (mixed \/ dmabuf[b] # fd[p])
      /\ UNCHANGED <<used, unused, count, dmabuf, dropped>>
  BY <1>0 DEF Get, OneMore, Importing
<1>2. SameBusy
  <2>1. /\ pc' = Set(pc, p, IF owner[p] = None THEN "idle" ELSE "next")
        /\ fd' = Set(fd, p, None) /\ buffer' = Set(buffer, p, None)
    BY <1>1 DEF Return
  <2> QED BY <1>1, <2>1 DEF SameBusy, Set, TypeOK
<1>3. /\ Cardinality(Held(b)') + outside'[b] = Cardinality(Held(b)) + outside[b] + 1
      /\ \A c \in Buffers : c # b => Held(c)' = Held(c) /\ outside'[c] = outside[c]
      /\ \A t \in Tasks : \A r \in regions'[t] : r \in regions[t] \/ r = <<fd[p], b>>
  BY <1>1, ReturnHolds
<1>4. Lists'
  <2>1. \A q \in Threads, c \in Buffers : Busy(q, c)' <=> Busy(q, c) BY <1>2 DEF SameBusy, Busy
  <2> QED BY <1>1, <2>1 DEF Lists
<1>5. \A c : (Adding(c)' <=> Adding(c)) /\ (Mapped(c)' <=> Mapped(c))
  BY <1>1, <1>2 DEF SameBusy, Adding, Mapped
<1>6. ref'[b] = ref[b] + 1 /\ \A c \in Buffers : c # b => ref'[c] = ref[c]
  BY <1>1 DEF Set, TypeOK
<1>7. Refs'
  <2>1. /\ Mapped(b) /\ dropped[b] <= 1 /\ dmabuf[b] # None /\ ref[b] > 0
        /\ ref[b] = 1 + Cardinality(Held(b)) + outside[b] - dropped[b]
                      + (IF Adding(b) THEN 1 ELSE 0)
    BY <1>1 DEF Refs
  <2>2. /\ Cardinality(Held(b)) \in Nat /\ Cardinality(Held(b)') \in Nat
        /\ outside[b] \in Nat /\ dropped[b] \in Nat /\ outside'[b] \in Int
    <3>1. outside'[b] \in Nat BY <1>1 DEF Return, Set, TypeOK
    <3> QED BY <3>1, HeldFinite DEF TypeOK
  <2>3. ref'[b] = 1 + Cardinality(Held(b)') + outside'[b] - dropped'[b]
                    + (IF Adding(b)' THEN 1 ELSE 0)
    BY <1>1, <1>3, <1>5, <1>6, <2>1, <2>2
  <2>4. /\ Mapped(b)' /\ dropped'[b] <= 1 /\ dmabuf'[b] # None /\ ref'[b] > 0
    BY <1>1, <1>5, <1>6, <2>1 DEF TypeOK
  <2> QED BY <1>1, <1>3, <1>5, <1>6, <2>3, <2>4 DEF Refs
<1>8. Matches'
  <2>1. ~mixed' => ~mixed /\ dmabuf[b] = fd[p] BY <1>1, Zenon
  <2>2. dmabuf' = dmabuf BY <1>1
  <2> QED BY <1>3, <2>1, <2>2 DEF Matches
<1>9. Adds' BY <1>1, <1>2 DEF Adds, SameBusy
<1> QED BY <1>4, <1>7, <1>8, <1>9

\* The first reference that nobody gave up is the pool's own.
LEMMA PoolDrop ==
  ASSUME TypeOK, Good, Lists, Refs, Matches, Adds, SameBusy, Good', mixed' = mixed,
         NEW b \in Buffers, Drop(b), UNCHANGED <<regions, outside>>
  PROVE  (Lists /\ Refs /\ Matches /\ Adds)'
<1>1. Put(b) /\ dropped' = Set(dropped, b, dropped[b] + 1) /\ dropped[b] = 0
  <2>1. dropped[b] \in Nat BY DEF TypeOK
  <2>2. ~(dropped[b] > 0) BY Zenon DEF Good, Drop
  <2>3. dropped[b] = 0 BY <2>1, <2>2
  <2> QED BY <2>3 DEF Drop
<1>2. dropped'[b] = 1 /\ \A c \in Buffers : c # b => dropped'[c] = dropped[c]
  BY <1>1 DEF Set, TypeOK
<1>3. \A c : Held(c)' = Held(c) BY DEF Held
<1>4. /\ Cardinality(Held(b)') = Cardinality(Held(b)) /\ Cardinality(Held(b)) \in Nat
      /\ Cardinality(Held(b)') \in Nat /\ (Cardinality(Held(b)') = 0 => Held(b)' = {})
      /\ outside[b] \in Nat /\ outside'[b] = outside[b]
  BY <1>3, HeldFinite DEF TypeOK
<1>5. Cardinality(Held(b)') + outside'[b] - dropped'[b]
        = Cardinality(Held(b)) + outside[b] - dropped[b] - 1
  BY <1>1, <1>2, <1>4
<1> QED BY <1>1, <1>2, <1>3, <1>4, <1>5, PoolPut

\* Lists, references and dmabufs agree, until a reference is dropped a second
\* time, something undefined happens or the session ends.
LEMMA PoolStep == TypeOK /\ Pointers /\ Owners /\ Pool /\ [Next]_vars => Pool'
<1> SUFFICES ASSUME TypeOK, Pointers, Owners, Pool, [Next]_vars PROVE Pool'
  OBVIOUS
<1>0. TypeOK' BY TypeStep
<1>1. CASE UNCHANGED vars
  BY <1>1, PoolFrame DEF vars, dma, work, thr, hist, SameBusy, Good
<1>2. CASE Next /\ Good'
  <2>1. ~undefined /\ ~twice /\ ~mixed BY <1>2 DEF Next
  <2>2. ASSUME session = "live" PROVE Good /\ Lists /\ Refs /\ Matches /\ Adds
    BY <2>1, <2>2 DEF Good, Pool
  <2>3. ASSUME NEW p \in Threads, session = "live", Import(p) PROVE Pool'
    <3>1. CASE Evict(p)
      <4>1. /\ pc[p] = "evict" /\ pc' = Set(pc, p, "find")
            /\ UNCHANGED <<regions, fd, buffer, outside, mixed>>
        BY <3>1 DEF Evict, Step, work
      <4>2. SameBusy BY <4>1 DEF SameBusy, Set, TypeOK
      <4>3. CASE \E b \in used : Drop(b)
        <5>1. PICK b \in used : Drop(b) BY <4>3
        <5>2. b \in Buffers BY DEF TypeOK
        <5> QED BY <1>2, <2>2, <2>3, <4>1, <4>2, <5>1, <5>2, PoolDrop DEF Pool
      <4>4. CASE UNCHANGED <<dma, dropped, twice, undefined>>
        BY <4>1, <4>2, <4>4, PoolFrame DEF dma, Good
      <4> QED BY <3>1, <4>3, <4>4 DEF Evict
    <3>2. CASE Find(p)
      BY <3>2, PoolFrame DEF Find, Step, Set, TypeOK, SameBusy, Good, dma, work, hist
    <3>3. CASE Get(p)
      BY <2>2, <2>3, <3>3, PoolGet DEF Pool
    <3>4. CASE Missing(p)
      BY <3>4, PoolFrame DEF Missing, Step, Set, TypeOK, SameBusy, Good, dma, work, hist
    <3>5. CASE Take(p)
      BY <2>2, <2>3, <3>5, PoolTake DEF Pool
    <3>6. CASE TakeNone(p)
      BY <3>6, PoolFrame DEF TakeNone, Give, Set, TypeOK, SameBusy, Good, dma, hist
    <3>7. CASE Map(p)
      BY <2>2, <2>3, <3>7, PoolMap DEF Pool
    <3>8. CASE MapFails(p)
      BY <2>2, <2>3, <3>8, PoolMapFails DEF Pool
    <3>9. CASE Add(p)
      BY <2>2, <2>3, <3>9, PoolAdd DEF Pool
    <3> QED BY <2>3, <3>1, <3>2, <3>3, <3>4, <3>5, <3>6, <3>7, <3>8, <3>9 DEF Import
  <2>4. ASSUME NEW p \in Threads, session = "live", PutFd(p) PROVE Pool'
    <3>0. PICK b \in Buffers : b = buffer[p] BY <2>4 DEF PutFd, Step, Pointers
    <3>1. /\ pc[p] = "found" /\ pc' = Set(pc, p, "idle") /\ buffer' = Set(buffer, p, None)
          /\ UNCHANGED <<regions, fd, mixed>>
      BY <2>4 DEF PutFd, Step, work
    <3>2. SameBusy BY <3>1 DEF SameBusy, Set, TypeOK
    <3>3. CASE outside[b] > 0
      <4>1. Put(b) /\ outside' = Set(outside, b, outside[b] - 1) /\ UNCHANGED <<dropped, twice>>
        BY <2>4, <3>0, <3>3 DEF PutFd
      <4>2. outside[b] \in Nat /\ dropped[b] \in Nat /\ dropped[b] <= 1
        BY <2>2, <2>4 DEF TypeOK, Refs
      <4>3. outside'[b] = outside[b] - 1 /\ \A c \in Buffers : c # b => outside'[c] = outside[c]
        BY <4>1 DEF Set, TypeOK
      <4>4. \A c : Held(c)' = Held(c) BY <3>1 DEF Held
      <4>5. /\ Cardinality(Held(b)') = Cardinality(Held(b)) /\ Cardinality(Held(b)) \in Nat
            /\ Cardinality(Held(b)') \in Nat /\ (Cardinality(Held(b)') = 0 => Held(b)' = {})
        BY <4>4, HeldFinite
      <4>6. /\ dropped'[b] \in Nat /\ dropped'[b] <= 1 /\ outside'[b] \in Nat
            /\ Cardinality(Held(b)') + outside'[b] - dropped'[b]
                 = Cardinality(Held(b)) + outside[b] - dropped[b] - 1
        BY <3>3, <4>1, <4>2, <4>3, <4>5
      <4>7. \A t \in Tasks : regions'[t] \subseteq regions[t] BY <3>1
      <4>8. \A c \in Buffers : c # b =>
              Held(c)' = Held(c) /\ outside'[c] = outside[c] /\ dropped'[c] = dropped[c]
        BY <4>1, <4>3, <4>4
      <4> QED BY <1>2, <2>2, <2>4, <3>1, <3>2, <4>1, <4>5, <4>6, <4>7, <4>8, PoolPut DEF Pool
    <3>4. CASE ~(outside[b] > 0)
      <4>1. Drop(b) /\ UNCHANGED outside BY <2>4, <3>0, <3>4 DEF PutFd
      <4> QED BY <1>2, <2>2, <2>4, <3>1, <3>2, <4>1, PoolDrop DEF Pool
    <3> QED BY <3>3, <3>4
  <2>5. ASSUME NEW t \in Tasks, Finalize(t) PROVE Pool'
    <3>1. PICK r \in regions[t] : Put(r[2]) /\ regions' = Set(regions, t, regions[t] \ {r})
      BY <2>5 DEF Finalize, Region
    <3>2. UNCHANGED <<pc, fd, buffer, outside, dropped, twice, mixed>> BY <2>5 DEF Finalize, thr
    <3>3. PICK f \in Fds, b \in Buffers : r = <<f, b>> BY DEF TypeOK
    <3>4. Put(b) BY <3>1, <3>3
    <3>5. session = "live" BY <1>2, <3>4 DEF Good, Put
    <3>6. SameBusy BY <3>2 DEF SameBusy
    <3>7. /\ \A x \in Tasks : regions'[x] = IF x = t THEN regions[t] \ {r} ELSE regions[x]
          /\ \A x \in Tasks : regions'[x] \subseteq regions[x]
      BY <3>1 DEF Set, TypeOK
    <3>8. Held(b)' = Held(b) \ {<<t, f>>} /\ <<t, f>> \in Held(b)
      BY <3>1, <3>3, <3>7 DEF Held
    <3>9. \A c \in Buffers : c # b => Held(c)' = Held(c)
      BY <3>1, <3>3, <3>7 DEF Held
    <3>10. Cardinality(Held(b)') = Cardinality(Held(b)) - 1
      BY <3>8, HeldFinite, FS_RemoveElement
    <3>11. /\ Cardinality(Held(b)) \in Nat /\ Cardinality(Held(b)') \in Nat
           /\ (Cardinality(Held(b)') = 0 => Held(b)' = {})
      BY HeldFinite
    <3>12. /\ dropped'[b] \in Nat /\ dropped'[b] <= 1 /\ outside'[b] \in Nat
           /\ Cardinality(Held(b)') + outside'[b] - dropped'[b]
                = Cardinality(Held(b)) + outside[b] - dropped[b] - 1
      <4>1. /\ dropped'[b] = dropped[b] /\ outside'[b] = outside[b]
            /\ dropped[b] \in Nat /\ outside[b] \in Nat
        BY <3>2 DEF TypeOK
      <4>2. dropped[b] <= 1 BY <2>2, <3>5 DEF Refs
      <4> QED BY <3>10, <3>11, <4>1, <4>2
    <3>13. \A c \in Buffers : c # b =>
             Held(c)' = Held(c) /\ outside'[c] = outside[c] /\ dropped'[c] = dropped[c]
      BY <3>2, <3>9
    <3> QED BY <1>2, <2>2, <3>2, <3>4, <3>5, <3>6, <3>7, <3>11, <3>12, <3>13, PoolPut DEF Pool
  <2>6. ASSUME NEW p \in Threads, AttachFd(p) \/ Queue(p) PROVE Pool'
    BY <2>6, PoolFrame DEF AttachFd, Queue, Step, Set, TypeOK, SameBusy, Good, dma, work, hist
  <2>7. ASSUME NEW p \in Threads, UseAfterReset(p) PROVE Pool'
    BY <1>2, <2>7 DEF UseAfterReset, Good
  <2>8. ASSUME NEW p \in Threads, Reset(p) PROVE Pool'
    BY <1>2, <2>8 DEF Reset, Good
  <2>9. ASSUME NEW p \in Threads, NEW t \in Tasks, Submit(p, t) PROVE Pool'
    BY <2>9, PoolFrame DEF Submit, Step, Set, TypeOK, SameBusy, Good, dma, hist
  <2>10. ASSUME NEW p \in Threads, NEW f \in Fds, Trans(p, f) PROVE Pool'
    BY <2>10, PoolFrame DEF Trans, Step, Set, TypeOK, SameBusy, Good, dma, work, hist
  <2>11. ASSUME NEW p \in Threads, NEW f \in Fds, ReleaseFd(p, f) PROVE Pool'
    BY <2>11, PoolFrame DEF ReleaseFd, Step, Set, TypeOK, SameBusy, Good, dma, work
  <2>12. ASSUME NEW t \in Tasks, FreeTask(t) \/ Finalized(t) PROVE Pool'
    BY <2>12, PoolFrame DEF FreeTask, Finalized, SameBusy, Good, dma, thr, hist
  <2>13. CASE Close
    BY <1>2, <2>13 DEF Close, Good
  <2> QED
    BY <1>2, <2>3, <2>4, <2>5, <2>6, <2>7, <2>8, <2>9, <2>10, <2>11, <2>12, <2>13
       DEF Next, Thread, Request, TaskStep
<1>3. CASE ~Good'
  BY <1>3 DEF Pool
<1> QED BY <1>1, <1>2, <1>3

-----------------------------------------------------------------------------
(* The closed session *)

\* What mpp_dma_session_destroy leaves mapped belongs to user space.
LEMMA ClosedStep == IInv /\ [Next]_vars => ClosedIsUnmapped'
<1> SUFFICES ASSUME IInv, [Next]_vars, ~undefined', ~twice', session' = "closed",
                    NEW b \in Buffers, dmabuf'[b] # None
             PROVE  outside'[b] > 0
  BY DEF ClosedIsUnmapped
<1> USE DEF IInv
<1>1. CASE Close
  <2>1. /\ \A p \in Threads : pc[p] = "idle"
        /\ \A t \in Tasks : task[t] \in {"new", "building", "end"}
        /\ UNCHANGED <<outside, twice>>
    BY <1>1 DEF Close, NoTask
  <2>2. \A t \in Tasks : task[t] # "building" BY <2>1, DmaAssumption DEF Owners
  <2>3. Held(b) = {} BY <2>1, <2>2 DEF Held, Owners
  <2>4. session = "live" /\ Destroy /\ ~undefined BY <1>1 DEF Close, TypeOK
  <2>5. Good /\ Lists /\ Refs BY <2>1, <2>4 DEF Good, Pool
  <2>6. dmabuf' = [c \in Buffers |-> IF c \in used /\ ref[c] = 1 THEN None ELSE dmabuf[c]]
    BY <2>4 DEF Destroy, TypeOK
  <2>7. dmabuf[b] # None /\ ~(b \in used /\ ref[b] = 1) BY <2>6
  <2>8. ~Adding(b) BY <2>1 DEF Adding
  <2>9. b \in used BY <2>5, <2>7, <2>8 DEF Refs, Mapped
  <2>10. Mapped(b) BY <2>9 DEF Mapped
  <2>11. /\ Cardinality(Held(b)) = 0 /\ ref[b] \in Int /\ outside[b] \in Nat
         /\ dropped[b] \in Nat
    BY <2>3, HeldFinite DEF TypeOK
  <2>12. ref[b] > 0 /\ ref[b] = 1 + Cardinality(Held(b)) + outside[b] - dropped[b] + 0
    BY <2>5, <2>8, <2>10 DEF Refs
  <2> QED BY <2>1, <2>7, <2>9, <2>11, <2>12
<1>2. CASE UNCHANGED vars
  BY <1>2 DEF vars, dma, hist, ClosedIsUnmapped
<1>3. CASE Next /\ ~Close
  <2>1. ASSUME NEW p \in Threads, Thread(p) \/ Request(p) PROVE FALSE
    <3>1. session' = session \/ session' = "reset"
      BY <2>1 DEF Thread, Request, Import, Evict, Find, Get, Missing, Take, TakeNone, Map, MapFails,
         Add, Return, PutFd, Put, Drop, UseAfterReset, AttachFd, Queue, Reset, Submit, Trans,
         ReleaseFd, dma
    <3>2. \A q \in Threads : pc[q] = "idle" BY <3>1 DEF Rest
    <3> QED BY <2>1, <3>1, <3>2 DEF Thread, Request, AttachFd, Queue, Step, Reset, UseAfterReset
  <2>2. ASSUME NEW t \in Tasks, TaskStep(t) PROVE FALSE
    <3>1. session' = session
      BY <2>2 DEF TaskStep, FreeTask, Finalize, Finalized, Region, Put, dma
    <3>2. task[t] \in {"new", "end"} BY <3>1 DEF Rest
    <3> QED BY <2>2, <3>2 DEF TaskStep, FreeTask, Finalize, Finalized
  <2> QED BY <1>3, <2>1, <2>2 DEF Next
<1> QED BY <1>1, <1>2, <1>3

-----------------------------------------------------------------------------
(* Theorems *)

\* IInv holds in every reachable state: lists, references, owners of tasks and
\* the places of the threads agree with each other.
THEOREM Invariant == Spec => []IInv
<1>1. Init => IInv
  <2>1. Init => ClosedIsUnmapped BY DEF Init, ClosedIsUnmapped
  <2> QED BY <2>1, TypeInit, OwnersInit, PoolInit DEF IInv
<1>2. IInv /\ [Next]_vars => IInv'
  BY TypeStep, OwnersStep, RestStep, PoolStep, ClosedStep DEF IInv
<1> QED BY <1>1, <1>2, PTL DEF Spec

\* mpp_dma_session: every reference of a mapped buffer is accounted for by the
\* pool, a region, a translation or the import under way, but for the first
\* one that eviction or RELEASE_FD drops.
THEOREM ReferencesAreExact == Spec => []RefsExact
<1>1. IInv => RefsExact
  BY DEF IInv, Pool, Good, Refs, RefsExact
<1> QED BY <1>1, Invariant, PTL

\* A task's buffers stay mapped, for the dmabuf of its fds, whatever other
\* threads release, evict or import.
THEOREM HeldBuffersStayMapped == Spec => []HeldBuffersAreMapped
<1>1. IInv => HeldBuffersAreMapped
  <2>1. SUFFICES ASSUME IInv, ~undefined, ~twice, ~mixed, session = "live",
                        NEW t \in Tasks, NEW r \in regions[t]
                 PROVE  r[2] \notin unused /\ dmabuf[r[2]] = r[1] /\ ref[r[2]] > 0
    BY DEF HeldBuffersAreMapped
  <2>2. PICK f \in Fds, b \in Buffers : r = <<f, b>> BY <2>1 DEF IInv, TypeOK
  <2>3. <<t, f>> \in Held(b) BY <2>1, <2>2 DEF Held
  <2>4. Lists /\ Refs /\ Matches BY <2>1 DEF IInv, Pool, Good
  <2>5. Mapped(b) /\ ref[b] > 0 BY <2>3, <2>4 DEF Refs
  <2>6. b \notin unused BY <2>4, <2>5 DEF Mapped, Adding, Lists, Busy
  <2>7. dmabuf[b] = f BY <2>1, <2>2, <2>4 DEF Matches
  <2> QED BY <2>2, <2>5, <2>6, <2>7
<1> QED BY <1>1, Invariant, PTL

\* list_mutex is dropped and taken again during an import, and still every
\* buffer is in one list or with one thread, and buffer_count is right.
THEOREM EachBufferIsInOneList == Spec => []EachBufferInOneList
<1>1. IInv => EachBufferInOneList
  BY DEF IInv, Pool, Good, Lists, Busy, EachBufferInOneList
<1> QED BY <1>1, Invariant, PTL

\* Closing the file unmaps what the tasks used; only buffers that user space
\* translated and did not release stay mapped.
THEOREM ClosedSessionIsUnmapped == Spec => []ClosedIsUnmapped
<1>1. IInv => ClosedIsUnmapped
  BY DEF IInv
<1> QED BY <1>1, Invariant, PTL

=============================================================================
