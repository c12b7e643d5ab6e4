------------------------ MODULE RgaScheduler_proofs ------------------------
(***************************************************************************)
(* Theorems about RgaScheduler, for any sets of jobs, cores and handles.   *)
(* The inductive invariant is IInv.                                        *)
(***************************************************************************)
EXTENDS RgaScheduler, FiniteSetTheorems, SequenceTheorems, WellFoundedInduction, TLAPS

-----------------------------------------------------------------------------
(* The inductive invariant *)

\* Where a committer is before its job is in a list.
Uncommitted == {"new", "check_fence", "add_callback", "callback", "assign",
                "clean", "reset", "put", "insert"}

\* Where its job has a core.
Assigned == {"clean", "reset", "put", "insert", "next", "ret", "wait", "timeout", "abort"}

\* The list of a core has each job once, and job_count is its length.
Queues == \A c \in Cores : jobCount[c] = Len(todo[c]) /\ IsInjective(todo[c])

\* A job in a list has no buffers yet and is nowhere else, and its caller has
\* not freed it, or has just returned an error; a job in a list or in
\* running_job is on its own core, and live there.
InLists ==
    \A j \in Jobs, c \in Cores :
        /\ InQueue(j, c) =>
              /\ page[j] = "live" \/ (j \in Sync /\ result[j] = "error")
              /\ core[j] = c /\ held[j] = 0 /\ running[c] # j
              /\ \A t \in Threads : njob[t] # j
        /\ running[c] = j => page[j] = "live" /\ core[j] = c

\* A job that is being committed is live and nowhere yet.
Before ==
    \A j \in Jobs : spc[j] \in Uncommitted =>
        /\ held[j] = 0 /\ ~ done[j]
        /\ spc[j] # "new" => page[j] = "live"
        /\ \A c \in Cores : ~InQueue(j, c) /\ running[c] # j
        /\ \A t \in Threads : njob[t] # j
        /\ \A c \in Cores : ijob[c] # j
        /\ \A i \in Jobs : victim[i] # j

\* A job that was taken from its core, or is done, is in no list any more.
Nowhere(j) == \A c \in Cores : running[c] # j /\ ~InQueue(j, c)
Gone ==
    /\ \A i \in Jobs : victim[i] \in Jobs => Nowhere(victim[i])
    /\ \A c \in Cores : ijob[c] \in Jobs => Nowhere(ijob[c])
    /\ \A t \in Threads : npc[t] = "put" => Nowhere(njob[t])
    /\ \A j \in Jobs : done[j] => Nowhere(j)

\* A thread in rga_job_next has the job it runs, on its core, whose buffers are
\* not yet looked up before it is started; a committer is there after the
\* insertion.
Runners ==
    \A t \in Threads :
        /\ npc[t] \in {"run", "ret", "failret", "fail", "put"} =>
              njob[t] \in Jobs /\ core[njob[t]] = At(t)
        /\ npc[t] = "run" => held[njob[t]] = 0
        /\ t \in Jobs /\ npc[t] # "off" => spc[t] = "next"

\* No two threads run one job.
Apart == \A t, u \in Threads : njob[t] = njob[u] /\ njob[t] # None => t = u

\* A job has a core once it was assigned; rga_job_timeout_clean has a victim;
\* the caller of a synchronous job waits.
Committers ==
    \A j \in Jobs : /\ spc[j] \in Assigned => core[j] \in Cores
                    /\ spc[j] \in {"reset", "put"} => victim[j] \in Jobs
                    /\ spc[j] \in {"ret", "wait", "timeout", "abort"} => j \in Sync

\* The irq thread has the job it ends.
Enders == \A c \in Cores : ipc[c] \in {"took", "flagged"} => ijob[c] \in Jobs

Locals == Runners /\ Apart /\ Committers /\ Enders

Sound == Queues /\ InLists /\ Before /\ Locals /\ Gone

IInv == TypeOK /\ (~undefined => Sound)

-----------------------------------------------------------------------------
(* Facts about numbers and sequences *)

\* A set of natural numbers has a least element.
LEMMA LeastElement ==
    ASSUME NEW T \in SUBSET Nat, T # {}
    PROVE  \E x \in T : \A y \in T : x <= y
<1>1. PICK x \in T : \A y \in T : ~ (<<y, x>> \in OpToRel(<, Nat))
    BY NatLessThanWellFounded, WFMin, Zenon
<1>2. ASSUME NEW y \in T PROVE x <= y
  <2> DEFINE less == {ss \in Nat \X Nat : ss[1] < ss[2]}
  <2>1. <<y, x>> \notin less
    BY <1>1 DEF OpToRel
  <2>2. x \in Nat /\ y \in Nat
    OBVIOUS
  <2>3. ~ (y < x)
    BY <2>1, <2>2
  <2> QED BY <2>2, <2>3
<1> QED BY <1>2

\* The operators Min and Max choose an element of the set.
LEMMA MinIsLeast ==
    ASSUME NEW T \in SUBSET Nat, T # {}
    PROVE  Min(T) \in T /\ \A y \in T : Min(T) <= y
BY LeastElement DEF Min

\* ... which Max does for a set that is not empty and has a bound.
LEMMA MaxIsIn ==
    ASSUME NEW n \in Nat, NEW T \in SUBSET (1..n), T # {}
    PROVE  Max(T) \in T
<1> DEFINE Gap(x) == n - x
<1>1. \A x \in T : Gap(x) \in Nat
    OBVIOUS
<1>2. PICK g \in {Gap(x) : x \in T} : \A h \in {Gap(x) : x \in T} : g <= h
  <2> HIDE DEF Gap
  <2>1. {Gap(x) : x \in T} \in SUBSET Nat /\ {Gap(x) : x \in T} # {}
    BY <1>1
  <2> QED BY <2>1, LeastElement
<1>3. PICK m \in T : g = Gap(m)
    BY <1>2
<1>4. \A y \in T : m >= y
  <2> SUFFICES ASSUME NEW y \in T PROVE m >= y
    OBVIOUS
  <2>1. Gap(m) <= Gap(y)
    BY <1>2, <1>3
  <2> QED BY <2>1
<1> QED BY <1>4 DEF Max

\* rga_job_assign finds a core when one supports the job.
LEMMA ChoiceIsCore ==
    ASSUME NEW usable \in SUBSET Cores, usable # {},
           NEW run, NEW count \in [Cores -> Nat]
    PROVE  Choice(CoreOrder, usable, run, count) \in Cores
<1> DEFINE n    == Len(CoreOrder)
           may  == {i \in DOMAIN CoreOrder : CoreOrder[i] \in usable}
           idle == {i \in may : run[CoreOrder[i]] = None}
           rest == {i \in may : \A k \in may : count[CoreOrder[k]] = 0 => k < i}
           best == {i \in rest : \A k \in rest : count[CoreOrder[i]] <= count[CoreOrder[k]]}
           pos  == CASE idle # {}               -> Min(idle)
                     [] idle = {} /\ rest # {}  -> Min(best)
                     [] OTHER                   -> Max(may)
<1>1. n \in Nat /\ DOMAIN CoreOrder = 1..n
    BY RgaAssumption
<1>2. \A i \in DOMAIN CoreOrder : CoreOrder[i] \in Cores
    BY DEF Cores, Range
<1>3. may # {} /\ may \subseteq 1..n /\ may \subseteq Nat
    BY <1>1 DEF Cores, Range
<1>4. ASSUME rest # {} PROVE best # {}
  <2> DEFINE counts == {count[CoreOrder[i]] : i \in rest}
  <2>1. \A i \in rest : count[CoreOrder[i]] \in Nat
    BY <1>2
  <2>2. counts \in SUBSET Nat /\ counts # {}
    BY <2>1, <1>4
  <2>3. PICK m \in counts : \A x \in counts : m <= x
    BY <2>2, LeastElement
  <2> QED BY <2>3
<1>5. pos \in may
  <2>1. CASE idle # {}
    <3>1. Min(idle) \in idle
      BY <2>1, <1>3, MinIsLeast
    <3> QED BY <2>1, <3>1
  <2>2. CASE idle = {} /\ rest # {}
    <3>1. Min(best) \in best
      BY <2>2, <1>3, <1>4, MinIsLeast
    <3> QED BY <2>2, <3>1
  <2>3. CASE idle = {} /\ rest = {}
    <3>1. Max(may) \in may
      BY <1>1, <1>3, MaxIsIn
    <3> QED BY <2>3, <3>1
  <2> QED BY <2>1, <2>2, <2>3
<1>6. Choice(CoreOrder, usable, run, count) = CoreOrder[pos]
    BY DEF Choice
<1> QED BY <1>2, <1>5, <1>6

\* What it means for a list to have an element, and to have each once.
In(q, x) == \E i \in DOMAIN q : q[i] = x
Once(q)  == \A i, k \in DOMAIN q : q[i] = q[k] => i = k

\* rga_job_next takes the first job of a list.
LEMMA Taken ==
    ASSUME NEW S, NEW q \in Seq(S), q # <<>>, Once(q)
    PROVE  /\ Head(q) \in S /\ Tail(q) \in Seq(S)
           /\ Len(q) \in Nat /\ Len(q) > 0 /\ Len(Tail(q)) = Len(q) - 1
           /\ In(q, Head(q)) /\ Once(Tail(q))
           /\ \A x : In(Tail(q), x) <=> In(q, x) /\ x # Head(q)
<1>1. /\ Head(q) \in S /\ Tail(q) \in Seq(S) /\ Len(Tail(q)) = Len(q) - 1
      /\ \A i \in 1..Len(Tail(q)) : Tail(q)[i] = q[i + 1]
    BY HeadTailProperties
<1>2. Len(q) \in Nat /\ Len(q) > 0 /\ DOMAIN q = 1..Len(q) /\ Head(q) = q[1]
    BY LenProperties, EmptySeq
<1>3. DOMAIN Tail(q) = 1..Len(q) - 1
    BY <1>1, <1>2, LenProperties
<1> DEFINE n == Len(q)
<1> DEFINE r == Tail(q)
<1>4. /\ n \in Nat /\ n > 0 /\ DOMAIN q = 1..n /\ DOMAIN r = 1..n - 1
      /\ \A i \in 1..n - 1 : r[i] = q[i + 1]
    BY <1>1, <1>2, <1>3
<1> HIDE DEF n, r
<1>5. Once(r)
    BY <1>4 DEF Once
<1>6. \A x : In(r, x) <=> In(q, x) /\ x # q[1]
  <2>1. ASSUME NEW x, In(r, x) PROVE In(q, x) /\ x # q[1]
    BY <1>4, <2>1 DEF In, Once
  <2>2. ASSUME NEW x, In(q, x), x # q[1] PROVE In(r, x)
    <3>1. PICK i \in 1..n : q[i] = x
      BY <1>4, <2>2 DEF In
    <3>2. i - 1 \in 1..n - 1 /\ r[i - 1] = q[i]
      BY <1>4, <3>1, <2>2
    <3> QED BY <1>4, <3>1, <3>2 DEF In
  <2> QED BY <2>1, <2>2
<1>7. In(q, q[1])
    BY <1>4 DEF In
<1> QED BY <1>1, <1>2, <1>5, <1>6, <1>7 DEF n, r

\* Two lists one after the other.
LEMMA Joined ==
    ASSUME NEW S, NEW a \in Seq(S), NEW b \in Seq(S)
    PROVE  /\ a \o b \in Seq(S) /\ Len(a \o b) = Len(a) + Len(b)
           /\ \A x : In(a \o b, x) <=> In(a, x) \/ In(b, x)
           /\ Once(a) /\ Once(b) /\ (\A x : ~ (In(a, x) /\ In(b, x))) => Once(a \o b)
<1> DEFINE m == Len(a)
<1> DEFINE n == Len(b)
<1> DEFINE r == a \o b
<1>1. /\ m \in Nat /\ n \in Nat /\ DOMAIN a = 1..m /\ DOMAIN b = 1..n
      /\ r \in Seq(S) /\ Len(r) = m + n
      /\ \A i \in 1..m + n : r[i] = IF i <= m THEN a[i] ELSE b[i - m]
    BY ConcatProperties, LenProperties
<1>2. DOMAIN r = 1..m + n
    BY <1>1, LenProperties
<1> HIDE DEF m, n, r
<1>3. ASSUME NEW x, In(r, x) PROVE In(a, x) \/ In(b, x)
  <2>1. PICK i \in 1..m + n : r[i] = x
    BY <1>2, <1>3 DEF In
  <2>2. CASE i <= m
    BY <1>1, <2>1, <2>2 DEF In
  <2>3. CASE i > m
    <3>1. i - m \in 1..n /\ b[i - m] = x
      BY <1>1, <2>1, <2>3
    <3> QED BY <1>1, <3>1 DEF In
  <2> QED BY <1>1, <2>2, <2>3
<1>4. ASSUME NEW x, In(a, x) PROVE In(r, x)
    BY <1>1, <1>2, <1>4 DEF In
<1>5. ASSUME NEW x, In(b, x) PROVE In(r, x)
  <2>1. PICK i \in 1..n : b[i] = x
    BY <1>1, <1>5 DEF In
  <2>2. i + m \in 1..m + n /\ r[i + m] = b[i]
    BY <1>1, <2>1
  <2> QED BY <1>2, <2>1, <2>2 DEF In
<1>6. ASSUME Once(a), Once(b), \A x : ~ (In(a, x) /\ In(b, x)) PROVE Once(r)
  <2> SUFFICES ASSUME NEW i \in 1..m + n, NEW k \in 1..m + n, r[i] = r[k] PROVE i = k
    BY <1>2 DEF Once
  <2>1. \A l \in 1..m + n : l > m => l - m \in 1..n /\ r[l] = b[l - m]
    BY <1>1
  <2>2. \A l \in 1..m + n : l <= m => l \in 1..m /\ r[l] = a[l]
    BY <1>1
  <2>3. CASE i <= m /\ k <= m
    BY <1>1, <1>6, <2>2, <2>3 DEF Once
  <2>4. CASE i > m /\ k > m
    <3>1. i - m \in DOMAIN b /\ k - m \in DOMAIN b /\ b[i - m] = b[k - m]
      BY <1>1, <2>1, <2>4
    <3>2. i - m = k - m
      BY <1>6, <3>1 DEF Once
    <3> QED BY <1>1, <3>2
  <2>5. CASE i <= m /\ k > m
    BY <1>1, <1>6, <2>1, <2>2, <2>5 DEF In
  <2>6. CASE i > m /\ k <= m
    BY <1>1, <1>6, <2>1, <2>2, <2>6 DEF In
  <2> QED BY <1>1, <2>3, <2>4, <2>5, <2>6
<1> QED BY <1>1, <1>3, <1>4, <1>5, <1>6 DEF m, n, r

\* rga_job_schedule puts a job into a list that does not have it.
LEMMA Inserted ==
    ASSUME NEW S, NEW q \in Seq(S), NEW p \in 1..Len(q) + 1, NEW e \in S,
           Once(q), ~ In(q, e)
    PROVE  /\ InsertAt(q, p, e) \in Seq(S) /\ Len(InsertAt(q, p, e)) = Len(q) + 1
           /\ Once(InsertAt(q, p, e))
           /\ \A x : In(InsertAt(q, p, e), x) <=> In(q, x) \/ x = e
<1> DEFINE a == SubSeq(q, 1, p - 1)
<1> DEFINE b == SubSeq(q, p, Len(q))
<1> DEFINE one == <<e>>
<1>1. Len(q) \in Nat /\ p \in Nat /\ DOMAIN q = 1..Len(q) /\ \A i \in 1..Len(q) : q[i] \in S
    BY LenProperties, ElementOfSeq
<1>2. /\ a \in Seq(S) /\ Len(a) = p - 1 /\ DOMAIN a = 1..p - 1
      /\ \A i \in 1..p - 1 : a[i] = q[i]
  <2>1. /\ a \in Seq(S) /\ Len(a) = IF 1 <= p - 1 THEN (p - 1) - 1 + 1 ELSE 0
        /\ \A i \in 1..(p - 1) - 1 + 1 : a[i] = q[1 + i - 1]
    <3>1. 1 \in Int /\ p - 1 \in Int /\ \A i \in 1..p - 1 : q[i] \in S
      BY <1>1
    <3> QED BY <3>1, SubSeqProperties
  <2> HIDE DEF a
  <2>2. Len(a) = p - 1 /\ \A i \in 1..p - 1 : a[i] = q[i]
    BY <1>1, <2>1
  <2> QED BY <2>1, <2>2, LenProperties
<1>3. /\ b \in Seq(S) /\ Len(b) = Len(q) - p + 1 /\ DOMAIN b = 1..Len(q) - p + 1
      /\ \A i \in 1..Len(q) - p + 1 : b[i] = q[p + i - 1]
  <2>1. /\ b \in Seq(S) /\ Len(b) = IF p <= Len(q) THEN Len(q) - p + 1 ELSE 0
        /\ \A i \in 1..Len(q) - p + 1 : b[i] = q[p + i - 1]
    <3>1. p \in Int /\ Len(q) \in Int /\ \A i \in p..Len(q) : q[i] \in S
      BY <1>1
    <3> QED BY <3>1, SubSeqProperties
  <2> HIDE DEF b
  <2>2. Len(b) = Len(q) - p + 1
    BY <1>1, <2>1
  <2> QED BY <2>1, <2>2, LenProperties
<1>4. /\ one \in Seq(S) /\ Len(one) = 1 /\ DOMAIN one = 1..1 /\ one[1] = e
    OBVIOUS
<1> DEFINE n == Len(q)
<1>5. InsertAt(q, p, e) = a \o one \o b
    BY DEF InsertAt
<1> HIDE DEF a, b, one
<1>6. Once(a) /\ Once(b) /\ Once(one)
  <2>1. Once(a)
    BY <1>1, <1>2 DEF Once
  <2>2. ASSUME NEW i \in 1..Len(q) - p + 1, NEW k \in 1..Len(q) - p + 1, b[i] = b[k]
        PROVE  i = k
    <3>1. p + i - 1 \in 1..Len(q) /\ p + k - 1 \in 1..Len(q)
      BY <1>1
    <3>2. q[p + i - 1] = q[p + k - 1]
      BY <1>3, <2>2
    <3>3. p + i - 1 = p + k - 1
      BY <1>1, <3>1, <3>2 DEF Once
    <3> QED BY <1>1, <3>3
  <2>3. Once(b)
    BY <1>3, <2>2 DEF Once
  <2> QED BY <1>4, <2>1, <2>3 DEF Once
<1>7. \A x : In(one, x) <=> x = e
    BY <1>4 DEF In
<1>8. \A x : In(q, x) <=> In(a, x) \/ In(b, x)
  <2>1. ASSUME NEW x, In(q, x) PROVE In(a, x) \/ In(b, x)
    <3>1. PICK i \in 1..Len(q) : q[i] = x
      BY <1>1, <2>1 DEF In
    <3>2. CASE i < p
      BY <1>1, <1>2, <3>1, <3>2 DEF In
    <3>3. CASE i >= p
      <4>1. i - p + 1 \in 1..Len(q) - p + 1 /\ b[i - p + 1] = q[i]
        BY <1>1, <1>3, <3>1, <3>3
      <4> QED BY <1>3, <3>1, <4>1 DEF In
    <3> QED BY <1>1, <3>2, <3>3
  <2>2. ASSUME NEW x, In(a, x) PROVE In(q, x)
    <3>1. PICK i \in 1..p - 1 : a[i] = x
      BY <1>2, <2>2 DEF In
    <3>2. i \in 1..Len(q)
      BY <1>1, <3>1
    <3> QED BY <1>1, <1>2, <3>1, <3>2 DEF In
  <2>3. ASSUME NEW x, In(b, x) PROVE In(q, x)
    <3>1. PICK i \in 1..Len(q) - p + 1 : b[i] = x
      BY <1>3, <2>3 DEF In
    <3>2. p + i - 1 \in 1..Len(q)
      BY <1>1, <3>1
    <3> QED BY <1>1, <1>3, <3>1, <3>2 DEF In
  <2> QED BY <2>1, <2>2, <2>3
<1>9. \A x : ~ (In(a, x) /\ In(b, x))
  <2> SUFFICES ASSUME NEW i \in 1..p - 1, NEW k \in 1..Len(q) - p + 1, a[i] = b[k] PROVE FALSE
    BY <1>2, <1>3 DEF In
  <2>1. i \in 1..Len(q) /\ p + k - 1 \in 1..Len(q) /\ i # p + k - 1
    BY <1>1
  <2>2. q[i] = q[p + k - 1]
    BY <1>2, <1>3
  <2> QED BY <1>1, <2>1, <2>2 DEF Once
<1>10. /\ a \o one \in Seq(S) /\ Len(a \o one) = p
       /\ \A x : In(a \o one, x) <=> In(a, x) \/ x = e
       /\ Once(a \o one)
  <2>1. \A x : ~ (In(a, x) /\ In(one, x))
    BY <1>7, <1>8
  <2>2. /\ a \o one \in Seq(S) /\ Len(a \o one) = Len(a) + Len(one)
        /\ \A x : In(a \o one, x) <=> In(a, x) \/ In(one, x)
        /\ Once(a \o one)
    BY <1>2, <1>4, <1>6, <2>1, Joined, Zenon
  <2> QED BY <1>1, <1>2, <1>4, <1>7, <2>2
<1>11. \A x : ~ (In(a \o one, x) /\ In(b, x))
    BY <1>8, <1>9, <1>10
<1> DEFINE c == a \o one
<1> DEFINE r == c \o b
<1>12. c \in Seq(S) /\ Len(c) = p /\ Once(c) /\ \A x : ~ (In(c, x) /\ In(b, x))
    BY <1>10, <1>11
<1>13. r \in Seq(S) /\ Len(r) = Len(c) + Len(b) /\ Once(r) /\ InsertAt(q, p, e) = r
       /\ \A x : In(r, x) <=> In(c, x) \/ In(b, x)
  <2>1. InsertAt(q, p, e) = r
    BY <1>5
  <2>2. ASSUME NEW d \in Seq(S), Once(d), \A x : ~ (In(d, x) /\ In(b, x))
        PROVE  /\ d \o b \in Seq(S) /\ Len(d \o b) = Len(d) + Len(b)
               /\ \A x : In(d \o b, x) <=> In(d, x) \/ In(b, x)
               /\ Once(d \o b)
    BY <1>3, <1>6, <2>2, Joined, Zenon
  <2> QED BY <1>12, <2>1, <2>2, Zenon
<1>14. Len(r) = Len(q) + 1
    BY <1>1, <1>3, <1>12, <1>13
<1>15. \A x : In(r, x) <=> In(q, x) \/ x = e
  <2> HIDE DEF r
  <2> QED BY <1>8, <1>10, <1>13
<1> HIDE DEF r
<1> QED BY <1>13, <1>14, <1>15

\* ... or at its end.
LEMMA Appended ==
    ASSUME NEW S, NEW q \in Seq(S), NEW e \in S, Once(q), ~ In(q, e)
    PROVE  /\ Append(q, e) \in Seq(S) /\ Len(Append(q, e)) = Len(q) + 1
           /\ Once(Append(q, e))
           /\ \A x : In(Append(q, e), x) <=> In(q, x) \/ x = e
<1> DEFINE n == Len(q)
<1> DEFINE r == Append(q, e)
<1>1. /\ n \in Nat /\ DOMAIN q = 1..n
      /\ r \in Seq(S) /\ Len(r) = n + 1 /\ DOMAIN r = 1..n + 1
      /\ r[n + 1] = e /\ \A i \in 1..n : r[i] = q[i]
    BY LenProperties
<1> HIDE DEF n, r
<1>2. Once(r)
  <2> SUFFICES ASSUME NEW i \in 1..n + 1, NEW k \in 1..n + 1, r[i] = r[k] PROVE i = k
    BY <1>1 DEF Once
  <2>1. \A l \in 1..n : q[l] # e
    BY <1>1 DEF In
  <2>2. \A l \in 1..n + 1 : l \in 1..n \/ l = n + 1
    BY <1>1
  <2> QED BY <1>1, <2>1, <2>2 DEF Once
<1>3. \A x : In(r, x) <=> In(q, x) \/ x = e
  <2>1. \A l \in 1..n + 1 : l \in 1..n \/ l = n + 1
    BY <1>1
  <2>2. n + 1 \in 1..n + 1 /\ 1..n \subseteq 1..n + 1
    BY <1>1
  <2> QED BY <1>1, <2>1, <2>2 DEF In
<1> QED BY <1>1, <1>2, <1>3 DEF n, r

-----------------------------------------------------------------------------
(* Facts about handles *)

\* rga_mm_get_handle_info gives the job the channels it found.
LEMMA Got ==
    ASSUME TypeOK, NEW j \in Jobs, NEW n \in 0..2, GetHandles(j, n)
    PROVE  /\ refs' \in [Handles -> Int] /\ imports' = imports
           /\ held' = [held EXCEPT ![j] = n] /\ owns' = [owns EXCEPT ![j] = n]
<1>1. refs \in [Handles -> Int] /\ Src \in [Jobs -> Handles] /\ Dst \in [Jobs -> Handles]
    BY RgaAssumption DEF TypeOK
<1> QED BY <1>1 DEF GetHandles, Count, Set

\* rga_mm_put_handle_info leaves them where they are.
LEMMA Gave ==
    ASSUME TypeOK, NEW j \in Jobs, PutHandles(j)
    PROVE  /\ refs' \in [Handles -> Int] /\ imports' = imports /\ held' = held
           /\ owns' = [owns EXCEPT ![j] = 0]
<1>1. refs \in [Handles -> Int] /\ Src \in [Jobs -> Handles] /\ Dst \in [Jobs -> Handles]
    BY RgaAssumption DEF TypeOK
<1> QED BY <1>1 DEF PutHandles, Count, Set

-----------------------------------------------------------------------------
(* Steps *)

\* What a step that leaves the lists or the handles alone keeps.
LEMMA SameLists ==
    ASSUME UNCHANGED todo
    PROVE  \A j \in Jobs, c \in Cores : InQueue(j, c)' <=> InQueue(j, c)
BY DEF InQueue

\* Where a committer and a thread in rga_job_next are.
LEMMA HasCore ==
    ASSUME TypeOK, Sound
    PROVE  /\ \A j \in Jobs : spc[j] \in Assigned => core[j] \in Cores
           /\ \A t \in Threads : npc[t] # "off" => At(t) \in Cores
<1>1. \A j \in Jobs : spc[j] \in Assigned => core[j] \in Cores
    BY DEF Sound, Locals, Committers
<1>2. ASSUME NEW t \in Threads, npc[t] # "off" PROVE At(t) \in Cores
  <2>1. CASE t \in Cores
    BY <2>1 DEF At
  <2>2. CASE t \notin Cores
    <3>1. t \in Jobs /\ spc[t] = "next"
      BY <1>2, <2>2 DEF Sound, Locals, Runners, Threads
    <3>2. spc[t] \in Assigned
      BY <3>1 DEF Assigned
    <3> QED BY <1>1, <2>2, <3>1, <3>2 DEF At
  <2> QED BY <2>1, <2>2
<1> QED BY <1>1, <1>2

\* What keeps InLists: nothing is put into a list or into running_job, and the
\* jobs that are there stay as they are, but for a caller that gives up a job in
\* a list.
LEMMA KeepInLists ==
    ASSUME InLists, None \notin Jobs, UNCHANGED todo,
           \A c \in Cores : running'[c] \in {running[c], None},
           \A t \in Threads : njob'[t] \in {njob[t], None},
           \A j \in Jobs, c \in Cores : running'[c] = j => page'[j] = page[j] /\ core'[j] = core[j],
           \A j \in Jobs, c \in Cores : InQueue(j, c) =>
               /\ core'[j] = core[j] /\ held'[j] = held[j]
               /\ \/ page'[j] = page[j] /\ (j \in Sync => result'[j] = result[j])
                  \/ j \in Sync /\ result'[j] = "error"
    PROVE  InLists'
BY SameLists DEF InLists

\* What keeps Before: threads only pass on jobs that are committed.
LEMMA KeepBefore ==
    ASSUME Before, None \notin Jobs, UNCHANGED todo,
           \A c \in Cores : running'[c] \in {running[c], None},
           \A t \in Threads : njob'[t] \in {njob[t], None},
           \A c \in Cores : ijob'[c] \in {ijob[c], None, running[c]},
           \A i \in Jobs : \/ victim'[i] \in {victim[i], None}
                           \/ \E c \in Cores : victim'[i] = running[c],
           \A j \in Jobs : spc'[j] \in Uncommitted =>
               /\ spc[j] \in Uncommitted /\ held'[j] = held[j] /\ done'[j] = done[j]
               /\ spc'[j] # "new" => page'[j] = "live"
    PROVE  Before'
BY SameLists DEF Before

\* What keeps a job out of the lists: nothing is put into them.
LEMMA KeepNowhere ==
    ASSUME None \notin Jobs, UNCHANGED todo,
           \A c \in Cores : running'[c] \in {running[c], None}
    PROVE  \A j \in Jobs : Nowhere(j) => Nowhere(j)'
BY SameLists DEF Nowhere

\* Gone, for the jobs by name.
LEMMA AreGone ==
    ASSUME \A i, x \in Jobs : victim'[i] = x => Nowhere(x)',
           \A c \in Cores, x \in Jobs : ijob'[c] = x => Nowhere(x)',
           \A t \in Threads : npc'[t] = "put" =>
               njob'[t] \in Jobs /\ \A x \in Jobs : njob'[t] = x => Nowhere(x)',
           \A x \in Jobs : done'[x] => Nowhere(x)'
    PROVE  Gone'
BY DEF Gone, Nowhere, InQueue

\* ... and no more jobs are taken or done.
LEMMA KeepGone ==
    ASSUME Gone, None \notin Jobs, UNCHANGED todo,
           \A t \in Threads : npc[t] = "put" => njob[t] \in Jobs,
           \A c \in Cores : running'[c] \in {running[c], None},
           \A i \in Jobs : victim'[i] \in {victim[i], None},
           \A c \in Cores : ijob'[c] \in {ijob[c], None},
           \A t \in Threads : npc'[t] = "put" => npc[t] = "put" /\ njob'[t] = njob[t],
           \A j \in Jobs : done'[j] => done[j]
    PROVE  Gone'
<1>1. \A j \in Jobs : Nowhere(j) => Nowhere(j)'
    BY KeepNowhere
<1>2. \A i \in Jobs : victim'[i] \in Jobs => Nowhere(victim[i])' /\ victim'[i] = victim[i]
    BY <1>1 DEF Gone
<1>3. \A c \in Cores : ijob'[c] \in Jobs => Nowhere(ijob[c])' /\ ijob'[c] = ijob[c]
    BY <1>1 DEF Gone
<1>4. \A t \in Threads : npc'[t] = "put" => Nowhere(njob[t])' /\ njob'[t] = njob[t]
    BY <1>1 DEF Gone
<1>5. \A j \in Jobs : done'[j] => Nowhere(j)'
    BY <1>1 DEF Gone
<1> QED BY <1>2, <1>3, <1>4, <1>5 DEF Gone, Nowhere, InQueue

\* rga_mm_import_buffer: one import and one reference more.
LEMMA StepImport ==
    ASSUME TypeOK, Sound, ~undefined, NEW h \in Handles, Import(h)
    PROVE  TypeOK' /\ (~undefined' => Sound')
<1>1. /\ imports' = [imports EXCEPT ![h] = imports[h] + 1] /\ imports'[h] \in 0..MaxImports
      /\ refs' \in [Handles -> Int]
      /\ UNCHANGED <<todo, jobCount, running, power, page, core, prio, done, failed, fence,
                     inFence, held, owns>>
      /\ UNCHANGED <<npc, njob, ipc, ijob, hw, irq, hung, executed, dropped, seized, lost,
                     undefined>>
      /\ UNCHANGED <<spc, result, victim>>
  <2>1. /\ imports[h] \in 0..MaxImports /\ imports \in [Handles -> 0..MaxImports]
        /\ refs \in [Handles -> Int] /\ MaxImports \in Nat
    BY RgaAssumption DEF TypeOK
  <2> QED BY <2>1 DEF Import, sched, job, next, irqt, hard, hist, Set
<1>2. TypeOK'
  <2>1. /\ refs \in [Handles -> Int]
        /\ imports \in [Handles -> 0..MaxImports]
    BY DEF TypeOK
  <2>2. /\ refs' \in [Handles -> Int]
        /\ imports' \in [Handles -> 0..MaxImports]
    BY <1>1, <2>1, RgaAssumption
  <2> QED BY <1>1, <2>2 DEF TypeOK
<1> SUFFICES ASSUME ~undefined' PROVE Sound'
    BY <1>2
<1>3. Queues'
    BY <1>1 DEF TypeOK, Sound, Queues
<1>5. InLists'
    BY <1>1, KeepInLists, RgaAssumption DEF TypeOK, Sound
<1>6. Before'
  <2>1. \A k \in Jobs : spc'[k] \in Uncommitted =>
            /\ spc[k] \in Uncommitted /\ held'[k] = held[k] /\ done'[k] = done[k]
            /\ spc'[k] # "new" => page'[k] = "live"
    BY <1>1 DEF TypeOK, Sound, Before, Uncommitted
  <2> QED BY <1>1, <2>1, KeepBefore, RgaAssumption DEF TypeOK, Sound
<1>7. Locals'
  <2>1. Runners'
    BY <1>1 DEF TypeOK, Sound, Locals, Runners, Threads, At
  <2>2. Apart'
    BY <1>1 DEF TypeOK, Sound, Locals, Apart
  <2>3. Committers'
    BY <1>1 DEF TypeOK, Sound, Locals, Committers, Assigned
  <2>4. Enders'
    BY <1>1 DEF TypeOK, Sound, Locals, Enders
  <2> QED BY <2>1, <2>2, <2>3, <2>4 DEF Locals
<1>8. Gone'
    BY <1>1, KeepGone, RgaAssumption DEF TypeOK, Sound, Locals, Runners
<1> QED BY <1>3, <1>5, <1>6, <1>7, <1>8 DEF Sound

\* rga_mm_release_buffer: one of each less; the import it ends has a reference.
LEMMA StepRelease ==
    ASSUME TypeOK, Sound, ~undefined, NEW h \in Handles, Release(h)
    PROVE  TypeOK' /\ (~undefined' => Sound')
<1>1. /\ imports' = [imports EXCEPT ![h] = imports[h] - 1] /\ imports'[h] \in 0..MaxImports
      /\ refs' \in [Handles -> Int]
      /\ UNCHANGED <<todo, jobCount, running, power, page, core, prio, done, failed, fence,
                     inFence, held, owns>>
      /\ UNCHANGED <<npc, njob, ipc, ijob, hw, irq, hung, executed, dropped, seized, lost,
                     undefined>>
      /\ UNCHANGED <<spc, result, victim>>
  <2>1. /\ imports[h] \in 0..MaxImports /\ imports \in [Handles -> 0..MaxImports]
        /\ refs \in [Handles -> Int] /\ MaxImports \in Nat
    BY RgaAssumption DEF TypeOK
  <2> QED BY <2>1 DEF Release, sched, job, next, irqt, hard, hist, Set
<1>2. TypeOK'
  <2>1. /\ refs \in [Handles -> Int]
        /\ imports \in [Handles -> 0..MaxImports]
    BY DEF TypeOK
  <2>2. /\ refs' \in [Handles -> Int]
        /\ imports' \in [Handles -> 0..MaxImports]
    BY <1>1, <2>1, RgaAssumption
  <2> QED BY <1>1, <2>2 DEF TypeOK
<1> SUFFICES ASSUME ~undefined' PROVE Sound'
    BY <1>2
<1>3. Queues'
    BY <1>1 DEF TypeOK, Sound, Queues
<1>5. InLists'
    BY <1>1, KeepInLists, RgaAssumption DEF TypeOK, Sound
<1>6. Before'
  <2>1. \A k \in Jobs : spc'[k] \in Uncommitted =>
            /\ spc[k] \in Uncommitted /\ held'[k] = held[k] /\ done'[k] = done[k]
            /\ spc'[k] # "new" => page'[k] = "live"
    BY <1>1 DEF TypeOK, Sound, Before, Uncommitted
  <2> QED BY <1>1, <2>1, KeepBefore, RgaAssumption DEF TypeOK, Sound
<1>7. Locals'
  <2>1. Runners'
    BY <1>1 DEF TypeOK, Sound, Locals, Runners, Threads, At
  <2>2. Apart'
    BY <1>1 DEF TypeOK, Sound, Locals, Apart
  <2>3. Committers'
    BY <1>1 DEF TypeOK, Sound, Locals, Committers, Assigned
  <2>4. Enders'
    BY <1>1 DEF TypeOK, Sound, Locals, Enders
  <2> QED BY <2>1, <2>2, <2>3, <2>4 DEF Locals
<1>8. Gone'
    BY <1>1, KeepGone, RgaAssumption DEF TypeOK, Sound, Locals, Runners
<1> QED BY <1>3, <1>5, <1>6, <1>7, <1>8 DEF Sound

\* rga_job_commit: a new job, nowhere yet.
LEMMA StepCommit ==
    ASSUME TypeOK, Sound, ~undefined, NEW j \in Jobs, Commit(j)
    PROVE  TypeOK' /\ (~undefined' => Sound')
<1>1. /\ spc[j] = "new" /\ page' = [page EXCEPT ![j] = "live"]
      /\ fence' \in {fence, [fence EXCEPT ![j] = "pending"]}
      /\ spc' \in {[spc EXCEPT ![j] = "check_fence"], [spc EXCEPT ![j] = "assign"]}
      /\ UNCHANGED <<todo, jobCount, running, power, core, prio, done, failed, inFence, held, owns,
                     refs, imports>>
      /\ UNCHANGED <<npc, njob, ipc, ijob, hw, irq, hung, executed, dropped, seized, lost,
                     undefined>>
      /\ UNCHANGED <<result, victim>>
    BY DEF Commit, Quiet, sched, mm, next, irqt, hard, Set, Async
<1>2. TypeOK'
  <2>1. /\ page \in [Jobs -> {"none", "live", "freed"}]
        /\ fence \in [Jobs -> {"none", "pending", "signaled"}]
        /\ spc \in [Jobs -> {"new", "check_fence", "add_callback", "callback", "assign",
                             "clean", "reset", "put", "insert", "next", "ret", "wait",
                             "timeout", "abort", "end"}]
    BY DEF TypeOK
  <2>2. /\ page' \in [Jobs -> {"none", "live", "freed"}]
        /\ fence' \in [Jobs -> {"none", "pending", "signaled"}]
        /\ spc' \in [Jobs -> {"new", "check_fence", "add_callback", "callback", "assign",
                             "clean", "reset", "put", "insert", "next", "ret", "wait",
                             "timeout", "abort", "end"}]
    BY <1>1, <2>1, RgaAssumption
  <2> QED BY <1>1, <2>2 DEF TypeOK
<1> SUFFICES ASSUME ~undefined' PROVE Sound'
    BY <1>2
<1>3. Queues'
    BY <1>1 DEF TypeOK, Sound, Queues
<1>4. \A k \in Jobs, d \in Cores : InQueue(k, d)' <=> InQueue(k, d)
    BY <1>1, SameLists
<1>5. InLists'
    BY <1>1, <1>4 DEF TypeOK, Sound, InLists, Before, Uncommitted
<1>6. Before'
    BY <1>1, <1>4 DEF TypeOK, Sound, Before, Uncommitted
<1>7. Locals'
  <2>1. Runners'
    BY <1>1 DEF TypeOK, Sound, Locals, Runners, Threads, At
  <2>2. Apart'
    BY <1>1 DEF TypeOK, Sound, Locals, Apart
  <2>3. Committers'
    BY <1>1 DEF TypeOK, Sound, Locals, Committers, Assigned
  <2>4. Enders'
    BY <1>1 DEF TypeOK, Sound, Locals, Enders
  <2> QED BY <2>1, <2>2, <2>3, <2>4 DEF Locals
<1>8. Gone'
    BY <1>1, KeepGone, RgaAssumption DEF TypeOK, Sound, Locals, Runners
<1> QED BY <1>3, <1>5, <1>6, <1>7, <1>8 DEF Sound

\* rga_job_commit that fails: the job was nowhere.
LEMMA StepRefuse ==
    ASSUME TypeOK, Sound, ~undefined, NEW j \in Jobs, Refuse(j)
    PROVE  TypeOK' /\ (~undefined' => Sound')
<1>1. /\ spc[j] = "new" /\ spc' = [spc EXCEPT ![j] = "end"]
      /\ page' = [page EXCEPT ![j] = "freed"] /\ result' = [result EXCEPT ![j] = "error"]
      /\ UNCHANGED <<todo, jobCount, running, power, core, prio, done, failed, fence,
                     inFence, held, owns, refs>>
      /\ UNCHANGED <<imports, npc, njob, ipc, ijob, hw, irq, hung, executed, dropped, seized,
                     lost>>
      /\ UNCHANGED <<undefined, victim>>
    BY DEF Refuse, GiveUp, Quiet, sched, mm, next, irqt, hard, Set
<1>2. TypeOK'
  <2>1. /\ page \in [Jobs -> {"none", "live", "freed"}]
        /\ spc \in [Jobs -> {"new", "check_fence", "add_callback", "callback", "assign",
                             "clean", "reset", "put", "insert", "next", "ret", "wait",
                             "timeout", "abort", "end"}]
        /\ result \in [Jobs -> {"none", "ok", "error"}]
    BY DEF TypeOK
  <2>2. /\ page' \in [Jobs -> {"none", "live", "freed"}]
        /\ spc' \in [Jobs -> {"new", "check_fence", "add_callback", "callback", "assign",
                             "clean", "reset", "put", "insert", "next", "ret", "wait",
                             "timeout", "abort", "end"}]
        /\ result' \in [Jobs -> {"none", "ok", "error"}]
    BY <1>1, <2>1, RgaAssumption
  <2> QED BY <1>1, <2>2 DEF TypeOK
<1> SUFFICES ASSUME ~undefined' PROVE Sound'
    BY <1>2
<1>3. Queues'
    BY <1>1 DEF TypeOK, Sound, Queues
<1>4. \A k \in Jobs, d \in Cores : InQueue(k, d)' <=> InQueue(k, d)
    BY <1>1, SameLists
<1>5. InLists'
    BY <1>1, <1>4 DEF TypeOK, Sound, InLists, Before, Uncommitted
<1>6. Before'
    BY <1>1, <1>4 DEF TypeOK, Sound, Before, Uncommitted
<1>7. Locals'
  <2>1. Runners'
    BY <1>1 DEF TypeOK, Sound, Locals, Runners, Threads, At
  <2>2. Apart'
    BY <1>1 DEF TypeOK, Sound, Locals, Apart
  <2>3. Committers'
    BY <1>1 DEF TypeOK, Sound, Locals, Committers, Assigned
  <2>4. Enders'
    BY <1>1 DEF TypeOK, Sound, Locals, Enders
  <2> QED BY <2>1, <2>2, <2>3, <2>4 DEF Locals
<1>8. Gone'
    BY <1>1, KeepGone, RgaAssumption DEF TypeOK, Sound, Locals, Runners
<1> QED BY <1>3, <1>5, <1>6, <1>7, <1>8 DEF Sound

\* rga_job_commit: the committer only moves on.
LEMMA StepCheckFence ==
    ASSUME TypeOK, Sound, ~undefined, NEW j \in Jobs, CheckFence(j)
    PROVE  TypeOK' /\ (~undefined' => Sound')
<1>1. /\ spc[j] = "check_fence"
      /\ spc' \in {[spc EXCEPT ![j] = "assign"], [spc EXCEPT ![j] = "add_callback"]}
      /\ UNCHANGED <<todo, jobCount, running, power, page, core, prio, done, failed, fence,
                     inFence, held, owns>>
      /\ UNCHANGED <<refs, imports, npc, njob, ipc, ijob, hw, irq, hung, executed, dropped,
                     seized>>
      /\ UNCHANGED <<lost, undefined, result, victim>>
    BY DEF CheckFence, job, Quiet, sched, mm, next, irqt, hard, Set
<1>2. TypeOK'
  <2>1. /\ spc \in [Jobs -> {"new", "check_fence", "add_callback", "callback", "assign",
                             "clean", "reset", "put", "insert", "next", "ret", "wait",
                             "timeout", "abort", "end"}]
    BY DEF TypeOK
  <2>2. /\ spc' \in [Jobs -> {"new", "check_fence", "add_callback", "callback", "assign",
                             "clean", "reset", "put", "insert", "next", "ret", "wait",
                             "timeout", "abort", "end"}]
    BY <1>1, <2>1, RgaAssumption
  <2> QED BY <1>1, <2>2 DEF TypeOK
<1> SUFFICES ASSUME ~undefined' PROVE Sound'
    BY <1>2
<1>3. Queues'
    BY <1>1 DEF TypeOK, Sound, Queues
<1>4. \A k \in Jobs, d \in Cores : InQueue(k, d)' <=> InQueue(k, d)
    BY <1>1, SameLists
<1>5. InLists'
    BY <1>1, <1>4 DEF TypeOK, Sound, InLists, Before, Uncommitted
<1>6. Before'
    BY <1>1, <1>4 DEF TypeOK, Sound, Before, Uncommitted
<1>7. Locals'
  <2>1. Runners'
    BY <1>1 DEF TypeOK, Sound, Locals, Runners, Threads, At
  <2>2. Apart'
    BY <1>1 DEF TypeOK, Sound, Locals, Apart
  <2>3. Committers'
    BY <1>1 DEF TypeOK, Sound, Locals, Committers, Assigned
  <2>4. Enders'
    BY <1>1 DEF TypeOK, Sound, Locals, Enders
  <2> QED BY <2>1, <2>2, <2>3, <2>4 DEF Locals
<1>8. Gone'
    BY <1>1, KeepGone, RgaAssumption DEF TypeOK, Sound, Locals, Runners
<1> QED BY <1>3, <1>5, <1>6, <1>7, <1>8 DEF Sound

\* rga_job_commit with a bad fence: the job was nowhere.
LEMMA StepBadFence ==
    ASSUME TypeOK, Sound, ~undefined, NEW j \in Jobs, BadFence(j)
    PROVE  TypeOK' /\ (~undefined' => Sound')
<1>1. /\ spc[j] = "check_fence" /\ spc' \in {[spc EXCEPT ![j] = "end"]}
      /\ page' = [page EXCEPT ![j] = "freed"]
      /\ result' = result \/ \E r \in {"ok", "error"} : result' = [result EXCEPT ![j] = r]
      /\ dropped' \in {dropped, dropped \cup {j}}
      /\ UNCHANGED <<todo, jobCount, running, core, prio, done, failed, fence, refs, imports,
                     held, owns>>
      /\ UNCHANGED <<npc, njob, ipc, ijob, hw, irq, hung, executed, seized, lost, undefined>>
      /\ UNCHANGED <<power, inFence, victim>>
    BY DEF BadFence, GiveUp, Quiet, sched, mm, next, irqt, hard, Set
<1>2. TypeOK'
  <2>1. /\ page \in [Jobs -> {"none", "live", "freed"}]
        /\ spc \in [Jobs -> {"new", "check_fence", "add_callback", "callback", "assign",
                             "clean", "reset", "put", "insert", "next", "ret", "wait",
                             "timeout", "abort", "end"}]
        /\ result \in [Jobs -> {"none", "ok", "error"}]
        /\ dropped \in SUBSET Jobs
    BY DEF TypeOK
  <2>2. /\ page' \in [Jobs -> {"none", "live", "freed"}]
        /\ spc' \in [Jobs -> {"new", "check_fence", "add_callback", "callback", "assign",
                             "clean", "reset", "put", "insert", "next", "ret", "wait",
                             "timeout", "abort", "end"}]
        /\ result' \in [Jobs -> {"none", "ok", "error"}]
        /\ dropped' \in SUBSET Jobs
    BY <1>1, <2>1, RgaAssumption
  <2> QED BY <1>1, <2>2 DEF TypeOK
<1> SUFFICES ASSUME ~undefined' PROVE Sound'
    BY <1>2
<1>3. Queues'
    BY <1>1 DEF TypeOK, Sound, Queues
<1>4. \A k \in Jobs, d \in Cores : InQueue(k, d)' <=> InQueue(k, d)
    BY <1>1, SameLists
<1>5. InLists'
    BY <1>1, <1>4 DEF TypeOK, Sound, InLists, Before, Uncommitted
<1>6. Before'
    BY <1>1, <1>4 DEF TypeOK, Sound, Before, Uncommitted
<1>7. Locals'
  <2>1. Runners'
    BY <1>1 DEF TypeOK, Sound, Locals, Runners, Threads, At
  <2>2. Apart'
    BY <1>1 DEF TypeOK, Sound, Locals, Apart
  <2>3. Committers'
    BY <1>1 DEF TypeOK, Sound, Locals, Committers, Assigned
  <2>4. Enders'
    BY <1>1 DEF TypeOK, Sound, Locals, Enders
  <2> QED BY <2>1, <2>2, <2>3, <2>4 DEF Locals
<1>8. Gone'
    BY <1>1, KeepGone, RgaAssumption DEF TypeOK, Sound, Locals, Runners
<1> QED BY <1>3, <1>5, <1>6, <1>7, <1>8 DEF Sound

\* rga_add_dma_fence_callback: the job waits, or was nowhere.
LEMMA StepAddCallback ==
    ASSUME TypeOK, Sound, ~undefined, NEW j \in Jobs, AddCallback(j)
    PROVE  TypeOK' /\ (~undefined' => Sound')
<1>1. /\ spc[j] = "add_callback"
      /\ \/ /\ spc' = [spc EXCEPT ![j] = "end"] /\ page' = [page EXCEPT ![j] = "freed"]
            /\ result' = [result EXCEPT ![j] = "error"]
         \/ /\ spc' = [spc EXCEPT ![j] = "callback"] /\ page' = page
            /\ result' = [result EXCEPT ![j] = "ok"]
      /\ UNCHANGED <<todo, jobCount, running, core, prio, done, failed, fence, refs, imports,
                     held, owns>>
      /\ UNCHANGED <<npc, njob, ipc, ijob, hw, irq, hung, executed, dropped, seized, lost,
                     undefined>>
      /\ UNCHANGED <<power, inFence, victim>>
    BY DEF AddCallback, GiveUp, Quiet, sched, mm, next, irqt, hard, Set
<1>2. TypeOK'
  <2>1. /\ page \in [Jobs -> {"none", "live", "freed"}]
        /\ spc \in [Jobs -> {"new", "check_fence", "add_callback", "callback", "assign",
                             "clean", "reset", "put", "insert", "next", "ret", "wait",
                             "timeout", "abort", "end"}]
        /\ result \in [Jobs -> {"none", "ok", "error"}]
    BY DEF TypeOK
  <2>2. /\ page' \in [Jobs -> {"none", "live", "freed"}]
        /\ spc' \in [Jobs -> {"new", "check_fence", "add_callback", "callback", "assign",
                             "clean", "reset", "put", "insert", "next", "ret", "wait",
                             "timeout", "abort", "end"}]
        /\ result' \in [Jobs -> {"none", "ok", "error"}]
    BY <1>1, <2>1, RgaAssumption
  <2> QED BY <1>1, <2>2 DEF TypeOK
<1> SUFFICES ASSUME ~undefined' PROVE Sound'
    BY <1>2
<1>3. Queues'
    BY <1>1 DEF TypeOK, Sound, Queues
<1>4. \A k \in Jobs, d \in Cores : InQueue(k, d)' <=> InQueue(k, d)
    BY <1>1, SameLists
<1>5. InLists'
    BY <1>1, <1>4 DEF TypeOK, Sound, InLists, Before, Uncommitted
<1>6. Before'
    BY <1>1, <1>4 DEF TypeOK, Sound, Before, Uncommitted
<1>7. Locals'
  <2>1. Runners'
    BY <1>1 DEF TypeOK, Sound, Locals, Runners, Threads, At
  <2>2. Apart'
    BY <1>1 DEF TypeOK, Sound, Locals, Apart
  <2>3. Committers'
    BY <1>1 DEF TypeOK, Sound, Locals, Committers, Assigned
  <2>4. Enders'
    BY <1>1 DEF TypeOK, Sound, Locals, Enders
  <2> QED BY <2>1, <2>2, <2>3, <2>4 DEF Locals
<1>8. Gone'
    BY <1>1, KeepGone, RgaAssumption DEF TypeOK, Sound, Locals, Runners
<1> QED BY <1>3, <1>5, <1>6, <1>7, <1>8 DEF Sound

\* rga_input_fence_signaled: the committer moves on.
LEMMA StepInFenceSignal ==
    ASSUME TypeOK, Sound, ~undefined, NEW j \in Jobs, InFenceSignal(j)
    PROVE  TypeOK' /\ (~undefined' => Sound')
<1>1. /\ inFence' = [inFence EXCEPT ![j] = TRUE]
      /\ spc' = spc \/ (spc[j] = "callback" /\ spc' = [spc EXCEPT ![j] = "assign"])
      /\ UNCHANGED <<todo, jobCount, running, power, page, core, prio, done, failed, fence,
                     held, owns, refs>>
      /\ UNCHANGED <<imports, npc, njob, ipc, ijob, hw, irq, hung, executed, dropped, seized,
                     lost>>
      /\ UNCHANGED <<undefined, result, victim>>
    BY DEF InFenceSignal, job, Quiet, sched, mm, next, irqt, hard, Set
<1>2. TypeOK'
  <2>1. /\ inFence \in [Jobs -> BOOLEAN]
        /\ spc \in [Jobs -> {"new", "check_fence", "add_callback", "callback", "assign",
                             "clean", "reset", "put", "insert", "next", "ret", "wait",
                             "timeout", "abort", "end"}]
    BY DEF TypeOK
  <2>2. /\ inFence' \in [Jobs -> BOOLEAN]
        /\ spc' \in [Jobs -> {"new", "check_fence", "add_callback", "callback", "assign",
                             "clean", "reset", "put", "insert", "next", "ret", "wait",
                             "timeout", "abort", "end"}]
    BY <1>1, <2>1, RgaAssumption
  <2> QED BY <1>1, <2>2 DEF TypeOK
<1> SUFFICES ASSUME ~undefined' PROVE Sound'
    BY <1>2
<1>3. Queues'
    BY <1>1 DEF TypeOK, Sound, Queues
<1>4. \A k \in Jobs, d \in Cores : InQueue(k, d)' <=> InQueue(k, d)
    BY <1>1, SameLists
<1>5. InLists'
    BY <1>1, <1>4 DEF TypeOK, Sound, InLists, Before, Uncommitted
<1>6. Before'
    BY <1>1, <1>4 DEF TypeOK, Sound, Before, Uncommitted
<1>7. Locals'
  <2>1. Runners'
    BY <1>1 DEF TypeOK, Sound, Locals, Runners, Threads, At
  <2>2. Apart'
    BY <1>1 DEF TypeOK, Sound, Locals, Apart
  <2>3. Committers'
    BY <1>1 DEF TypeOK, Sound, Locals, Committers, Assigned
  <2>4. Enders'
    BY <1>1 DEF TypeOK, Sound, Locals, Enders
  <2> QED BY <2>1, <2>2, <2>3, <2>4 DEF Locals
<1>8. Gone'
    BY <1>1, KeepGone, RgaAssumption DEF TypeOK, Sound, Locals, Runners
<1> QED BY <1>3, <1>5, <1>6, <1>7, <1>8 DEF Sound

\* rga_job_assign: the job gets a core of the driver.
LEMMA StepAssign ==
    ASSUME TypeOK, Sound, ~undefined, NEW j \in Jobs, Assign(j)
    PROVE  TypeOK' /\ (~undefined' => Sound')
<1>1. /\ spc[j] = "assign" /\ spc' = [spc EXCEPT ![j] = "clean"]
      /\ core' \in [Jobs -> Cores \cup {None}] /\ core'[j] \in Cores
      /\ \A k \in Jobs \ {j} : core'[k] = core[k]
      /\ UNCHANGED <<todo, jobCount, running, page, prio, done, failed, fence, refs, imports,
                     held, owns>>
      /\ UNCHANGED <<npc, njob, ipc, ijob, hw, irq, hung, executed, dropped, seized, lost,
                     undefined>>
      /\ UNCHANGED <<power, inFence, result, victim>>
  <2>1. PICK usable \in (SUBSET Cores) \ {{}} :
            core' = [core EXCEPT ![j] = Choice(CoreOrder, usable, running, jobCount)]
    BY DEF Assign, Set
  <2>2. jobCount \in [Cores -> Nat] /\ core \in [Jobs -> Cores \cup {None}]
    BY DEF TypeOK
  <2>3. usable \in SUBSET Cores /\ usable # {}
    OBVIOUS
  <2> DEFINE d == Choice(CoreOrder, usable, running, jobCount)
  <2>4. d \in Cores
    BY <2>2, <2>3, ChoiceIsCore, Zenon
  <2>5. core' = [core EXCEPT ![j] = d]
    BY <2>1
  <2> HIDE DEF d
  <2>6. /\ core' \in [Jobs -> Cores \cup {None}] /\ core'[j] \in Cores
        /\ \A k \in Jobs \ {j} : core'[k] = core[k]
    BY <2>2, <2>4, <2>5
  <2> QED BY <2>6 DEF Assign, Quiet, sched, mm, next, irqt, hard, Set
<1>2. TypeOK'
  <2>1. /\ core \in [Jobs -> Cores \cup {None}]
        /\ spc \in [Jobs -> {"new", "check_fence", "add_callback", "callback", "assign",
                             "clean", "reset", "put", "insert", "next", "ret", "wait",
                             "timeout", "abort", "end"}]
    BY DEF TypeOK
  <2>2. /\ core' \in [Jobs -> Cores \cup {None}]
        /\ spc' \in [Jobs -> {"new", "check_fence", "add_callback", "callback", "assign",
                             "clean", "reset", "put", "insert", "next", "ret", "wait",
                             "timeout", "abort", "end"}]
    BY <1>1, <2>1, RgaAssumption
  <2> QED BY <1>1, <2>2 DEF TypeOK
<1> SUFFICES ASSUME ~undefined' PROVE Sound'
    BY <1>2
<1>3. Queues'
    BY <1>1 DEF TypeOK, Sound, Queues
<1>4. \A k \in Jobs, d \in Cores : InQueue(k, d)' <=> InQueue(k, d)
    BY <1>1, SameLists
<1>5. InLists'
    BY <1>1, <1>4 DEF TypeOK, Sound, InLists, Before, Uncommitted
<1>6. Before'
    BY <1>1, <1>4 DEF TypeOK, Sound, Before, Uncommitted
<1>7. Locals'
  <2>1. Runners'
    <3>1. \A t \in Threads : njob[t] # j
      BY <1>1 DEF Sound, Before, Uncommitted
    <3>2. \A t \in Threads : npc[t] # "off" => At(t)' = At(t)
      BY <1>1, RgaAssumption DEF Sound, Locals, Runners, Threads, At
    <3>3. \A t \in Threads : njob[t] \in Jobs => core'[njob[t]] = core[njob[t]]
      BY <1>1, <3>1
    <3>4. \A t \in Jobs : npc[t] # "off" => spc'[t] = spc[t]
      BY <1>1 DEF TypeOK, Sound, Locals, Runners, Threads
    <3> QED BY <1>1, <3>2, <3>3, <3>4 DEF TypeOK, Sound, Locals, Runners
  <2>2. Apart'
    BY <1>1 DEF TypeOK, Sound, Locals, Apart
  <2>3. Committers'
    BY <1>1 DEF TypeOK, Sound, Locals, Committers, Assigned
  <2>4. Enders'
    BY <1>1 DEF TypeOK, Sound, Locals, Enders
  <2> QED BY <2>1, <2>2, <2>3, <2>4 DEF Locals
<1>8. Gone'
    BY <1>1, KeepGone, RgaAssumption DEF TypeOK, Sound, Locals, Runners
<1> QED BY <1>3, <1>5, <1>6, <1>7, <1>8 DEF Sound

\* rga_invalid_job_abort: the job was nowhere.
LEMMA StepReject ==
    ASSUME TypeOK, Sound, ~undefined, NEW j \in Jobs, Reject(j)
    PROVE  TypeOK' /\ (~undefined' => Sound')
<1>1. /\ spc[j] = "assign" /\ spc' \in {[spc EXCEPT ![j] = "end"]}
      /\ page' = page \/ page' = [page EXCEPT ![j] = "freed"]
      /\ result' = result \/ \E r \in {"ok", "error"} : result' = [result EXCEPT ![j] = r]
      /\ dropped' \in {dropped, dropped \cup {j}}
      /\ UNCHANGED <<todo, jobCount, running, core, prio, done, failed, fence, refs, imports,
                     held, owns>>
      /\ UNCHANGED <<npc, njob, ipc, ijob, hw, irq, hung, executed, seized, lost, undefined>>
      /\ UNCHANGED <<power, inFence, victim>>
    BY DEF Reject, GiveUp, Quiet, sched, mm, next, irqt, hard, Set
<1>2. TypeOK'
  <2>1. /\ page \in [Jobs -> {"none", "live", "freed"}]
        /\ spc \in [Jobs -> {"new", "check_fence", "add_callback", "callback", "assign",
                             "clean", "reset", "put", "insert", "next", "ret", "wait",
                             "timeout", "abort", "end"}]
        /\ result \in [Jobs -> {"none", "ok", "error"}]
        /\ dropped \in SUBSET Jobs
    BY DEF TypeOK
  <2>2. /\ page' \in [Jobs -> {"none", "live", "freed"}]
        /\ spc' \in [Jobs -> {"new", "check_fence", "add_callback", "callback", "assign",
                             "clean", "reset", "put", "insert", "next", "ret", "wait",
                             "timeout", "abort", "end"}]
        /\ result' \in [Jobs -> {"none", "ok", "error"}]
        /\ dropped' \in SUBSET Jobs
    BY <1>1, <2>1, RgaAssumption
  <2> QED BY <1>1, <2>2 DEF TypeOK
<1> SUFFICES ASSUME ~undefined' PROVE Sound'
    BY <1>2
<1>3. Queues'
    BY <1>1 DEF TypeOK, Sound, Queues
<1>4. \A k \in Jobs, d \in Cores : InQueue(k, d)' <=> InQueue(k, d)
    BY <1>1, SameLists
<1>5. InLists'
    BY <1>1, <1>4 DEF TypeOK, Sound, InLists, Before, Uncommitted
<1>6. Before'
    BY <1>1, <1>4 DEF TypeOK, Sound, Before, Uncommitted
<1>7. Locals'
  <2>1. Runners'
    BY <1>1 DEF TypeOK, Sound, Locals, Runners, Threads, At
  <2>2. Apart'
    BY <1>1 DEF TypeOK, Sound, Locals, Apart
  <2>3. Committers'
    BY <1>1 DEF TypeOK, Sound, Locals, Committers, Assigned
  <2>4. Enders'
    BY <1>1 DEF TypeOK, Sound, Locals, Enders
  <2> QED BY <2>1, <2>2, <2>3, <2>4 DEF Locals
<1>8. Gone'
    BY <1>1, KeepGone, RgaAssumption DEF TypeOK, Sound, Locals, Runners
<1> QED BY <1>3, <1>5, <1>6, <1>7, <1>8 DEF Sound

\* rga_job_timeout_clean: the running job becomes a victim.
LEMMA StepClean ==
    ASSUME TypeOK, Sound, ~undefined, NEW j \in Jobs, Clean(j)
    PROVE  TypeOK' /\ (~undefined' => Sound')
<1>1. /\ core[j] \in Cores /\ spc[j] = "clean"
      /\ \/ /\ running[core[j]] \in Jobs
            /\ running' = [running EXCEPT ![core[j]] = None]
            /\ victim' = [victim EXCEPT ![j] = running[core[j]]]
            /\ spc' = [spc EXCEPT ![j] = "reset"]
         \/ UNCHANGED <<running, victim>> /\ spc' = [spc EXCEPT ![j] = "insert"]
      /\ UNCHANGED <<todo, jobCount, power, inFence, result>>
      /\ UNCHANGED <<page, core, prio, done, failed, fence, refs, imports, held, owns, npc, njob>>
      /\ UNCHANGED <<ipc, ijob, hw, irq, hung, executed, dropped, lost>>
      /\ seized' \in [Cores -> SUBSET {"caller", "timeout"}] /\ undefined' \in BOOLEAN
  <2>1. core[j] \in Cores /\ spc[j] = "clean"
    BY HasCore DEF Assigned, Clean
  <2>2. seized' \in [Cores -> SUBSET {"caller", "timeout"}]
    <3>1. seized \in [Cores -> SUBSET {"caller", "timeout"}]
      BY DEF TypeOK
    <3>2. seized' = seized \/ seized' = [seized EXCEPT ![core[j]] = seized[core[j]] \cup {"timeout"}]
      BY DEF Clean, Seize, Set
    <3> QED BY <2>1, <3>1, <3>2
  <2>3. undefined' \in BOOLEAN
    BY DEF Clean
  <2> QED BY <2>1, <2>2, <2>3 DEF Clean, job, mm, next, irqt, hard, Set, Async
<1>2. TypeOK'
  <2>1. /\ running \in [Cores -> Jobs \cup {None}]
        /\ victim \in [Jobs -> Jobs \cup {None}]
        /\ spc \in [Jobs -> {"new", "check_fence", "add_callback", "callback", "assign",
                             "clean", "reset", "put", "insert", "next", "ret", "wait",
                             "timeout", "abort", "end"}]
    BY DEF TypeOK
  <2>2. /\ running' \in [Cores -> Jobs \cup {None}]
        /\ victim' \in [Jobs -> Jobs \cup {None}]
        /\ spc' \in [Jobs -> {"new", "check_fence", "add_callback", "callback", "assign",
                             "clean", "reset", "put", "insert", "next", "ret", "wait",
                             "timeout", "abort", "end"}]
    BY <1>1, <2>1, RgaAssumption
  <2> QED BY <1>1, <2>2 DEF TypeOK
<1> SUFFICES ASSUME ~undefined' PROVE Sound'
    BY <1>2
<1>3. Queues'
    BY <1>1 DEF TypeOK, Sound, Queues
<1>5. InLists'
    BY <1>1, KeepInLists, RgaAssumption DEF TypeOK, Sound
<1>6. Before'
  <2>1. \A k \in Jobs : spc'[k] \in Uncommitted =>
            /\ spc[k] \in Uncommitted /\ held'[k] = held[k] /\ done'[k] = done[k]
            /\ spc'[k] # "new" => page'[k] = "live"
    BY <1>1 DEF TypeOK, Sound, Before, Uncommitted
  <2>2. \A i \in Jobs : \/ victim'[i] \in {victim[i], None}
                        \/ \E c \in Cores : victim'[i] = running[c]
    BY <1>1 DEF TypeOK
  <2>3. /\ \A c \in Cores : running'[c] \in {running[c], None}
        /\ \A t \in Threads : njob'[t] \in {njob[t], None}
        /\ \A c \in Cores : ijob'[c] \in {ijob[c], None, running[c]}
        /\ UNCHANGED todo
    BY <1>1 DEF TypeOK
  <2> QED BY <2>1, <2>2, <2>3, KeepBefore, RgaAssumption, Zenon DEF Sound
<1>7. Locals'
  <2>1. Runners'
    BY <1>1 DEF TypeOK, Sound, Locals, Runners, Threads, At
  <2>2. Apart'
    BY <1>1 DEF TypeOK, Sound, Locals, Apart
  <2>3. Committers'
    BY <1>1 DEF TypeOK, Sound, Locals, Committers, Assigned
  <2>4. Enders'
    BY <1>1 DEF TypeOK, Sound, Locals, Enders
  <2> QED BY <2>1, <2>2, <2>3, <2>4 DEF Locals
<1>8. Gone'
  <2>1. CASE UNCHANGED <<running, victim>>
    BY <1>1, <2>1, KeepGone, RgaAssumption DEF TypeOK, Sound, Locals, Runners
  <2>2. CASE ~ UNCHANGED <<running, victim>>
    <3>1. PICK x \in Jobs, c \in Cores : x = running[c] /\ c = core[j]
      BY <1>1, <2>2
    <3>2. /\ running'[c] = None /\ \A d \in Cores \ {c} : running'[d] = running[d]
          /\ victim'[j] = x /\ \A i \in Jobs \ {j} : victim'[i] = victim[i]
          /\ UNCHANGED <<todo, ijob, npc, njob, done>>
      BY <1>1, <2>2, <3>1 DEF TypeOK
    <3>3. \A k \in Jobs : Nowhere(k) => Nowhere(k)'
      BY <3>2, KeepNowhere, RgaAssumption
    <3>4. Nowhere(x)'
      <4>1. \A d \in Cores : ~ InQueue(x, d) /\ (d # c => running[d] # x)
        BY <3>1 DEF Sound, InLists
      <4> QED BY <3>2, <4>1, SameLists, RgaAssumption DEF Nowhere
    <3>5. \A i, k \in Jobs : victim'[i] = k => Nowhere(k)'
      BY <3>2, <3>3, <3>4 DEF Sound, Gone
    <3>6. \A u \in Threads : npc'[u] = "put" =>
              njob'[u] \in Jobs /\ \A k \in Jobs : njob'[u] = k => Nowhere(k)'
      BY <3>2, <3>3 DEF Sound, Gone, Locals, Runners
    <3>7. \A d \in Cores, k \in Jobs : ijob'[d] = k => Nowhere(k)'
      BY <3>2, <3>3 DEF Sound, Gone
    <3>8. \A k \in Jobs : done'[k] => Nowhere(k)'
      BY <3>2, <3>3 DEF Sound, Gone
    <3> QED BY <3>5, <3>6, <3>7, <3>8, AreGone
  <2> QED BY <2>1, <2>2
<1> QED BY <1>3, <1>5, <1>6, <1>7, <1>8 DEF Sound

\* rga_job_timeout_clean: soft_reset.
LEMMA StepCleanReset ==
    ASSUME TypeOK, Sound, ~undefined, NEW j \in Jobs, CleanReset(j)
    PROVE  TypeOK' /\ (~undefined' => Sound')
<1>1. /\ core[j] \in Cores /\ spc[j] = "reset" /\ spc' = [spc EXCEPT ![j] = "put"]
      /\ hw' = [hw EXCEPT ![core[j]] = None] /\ hung' = [hung EXCEPT ![core[j]] = FALSE]
      /\ lost' = lost \cup ({hw[core[j]]} \ {None})
      /\ UNCHANGED <<todo, jobCount, running, page, core, prio, done, failed, fence, refs,
                     imports>>
      /\ UNCHANGED <<held, owns, npc, njob, ipc, ijob, irq, executed, dropped, seized, undefined>>
      /\ UNCHANGED <<power, inFence, result, victim>>
    BY HasCore DEF Assigned, CleanReset, Reset, sched, job, mm, next, irqt, Set
<1>2. TypeOK'
  <2>1. /\ hw \in [Cores -> Jobs \cup {None}]
        /\ hung \in [Cores -> BOOLEAN]
        /\ lost \in SUBSET Jobs
        /\ spc \in [Jobs -> {"new", "check_fence", "add_callback", "callback", "assign",
                             "clean", "reset", "put", "insert", "next", "ret", "wait",
                             "timeout", "abort", "end"}]
    BY DEF TypeOK
  <2>2. /\ hw' \in [Cores -> Jobs \cup {None}]
        /\ hung' \in [Cores -> BOOLEAN]
        /\ lost' \in SUBSET Jobs
        /\ spc' \in [Jobs -> {"new", "check_fence", "add_callback", "callback", "assign",
                             "clean", "reset", "put", "insert", "next", "ret", "wait",
                             "timeout", "abort", "end"}]
    BY <1>1, <2>1, RgaAssumption
  <2> QED BY <1>1, <2>2 DEF TypeOK
<1> SUFFICES ASSUME ~undefined' PROVE Sound'
    BY <1>2
<1>3. Queues'
    BY <1>1 DEF TypeOK, Sound, Queues
<1>5. InLists'
    BY <1>1, KeepInLists, RgaAssumption DEF TypeOK, Sound
<1>6. Before'
  <2>1. \A k \in Jobs : spc'[k] \in Uncommitted =>
            /\ spc[k] \in Uncommitted /\ held'[k] = held[k] /\ done'[k] = done[k]
            /\ spc'[k] # "new" => page'[k] = "live"
    BY <1>1 DEF TypeOK, Sound, Before, Uncommitted
  <2> QED BY <1>1, <2>1, KeepBefore, RgaAssumption DEF TypeOK, Sound
<1>7. Locals'
  <2>1. Runners'
    BY <1>1 DEF TypeOK, Sound, Locals, Runners, Threads, At
  <2>2. Apart'
    BY <1>1 DEF TypeOK, Sound, Locals, Apart
  <2>3. Committers'
    BY <1>1 DEF TypeOK, Sound, Locals, Committers, Assigned
  <2>4. Enders'
    BY <1>1 DEF TypeOK, Sound, Locals, Enders
  <2> QED BY <2>1, <2>2, <2>3, <2>4 DEF Locals
<1>8. Gone'
    BY <1>1, KeepGone, RgaAssumption DEF TypeOK, Sound, Locals, Runners
<1> QED BY <1>3, <1>5, <1>6, <1>7, <1>8 DEF Sound

\* rga_job_timeout_clean: the victim, which is in no list, is freed.
LEMMA StepCleanPut ==
    ASSUME TypeOK, Sound, ~undefined, NEW j \in Jobs, CleanPut(j)
    PROVE  TypeOK' /\ (~undefined' => Sound')
<1>1. /\ victim[j] \in Jobs /\ core[j] \in Cores /\ spc[j] = "put"
      /\ spc' = [spc EXCEPT ![j] = "insert"] /\ victim' = [victim EXCEPT ![j] = None]
      /\ page' = [page EXCEPT ![victim[j]] = "freed"]
      /\ undefined' = (undefined \/ Stale({victim[j]}) \/ Overdrawn)
      /\ fence' \in {fence, [fence EXCEPT ![victim[j]] = "signaled"]}
      /\ power' = [power EXCEPT ![core[j]] = power[core[j]] - 1]
      /\ owns' = [owns EXCEPT ![victim[j]] = 0] /\ held' = held /\ refs' \in [Handles -> Int]
      /\ UNCHANGED <<todo, jobCount, running, core, prio, done, failed, inFence, imports,
                     npc, njob, ipc>>
      /\ UNCHANGED <<ijob, hw, irq, hung, executed, dropped, seized, lost, result>>
  <2>1. victim[j] \in Jobs /\ core[j] \in Cores /\ spc[j] = "put" /\ PutHandles(victim[j])
    BY HasCore DEF Sound, Locals, Committers, Assigned, CleanPut
  <2>2. /\ owns' = [owns EXCEPT ![victim[j]] = 0] /\ held' = held /\ refs' \in [Handles -> Int]
        /\ imports' = imports
    BY <2>1, Gave, Zenon
  <2> QED BY <2>1, <2>2 DEF CleanPut, Signal, Free, sched, next, irqt, hard, Set
<1>2. TypeOK'
  <2>1. /\ page \in [Jobs -> {"none", "live", "freed"}]
        /\ undefined \in BOOLEAN
        /\ fence \in [Jobs -> {"none", "pending", "signaled"}]
        /\ power \in [Cores -> Int]
        /\ held \in [Jobs -> 0..2] /\ owns \in [Jobs -> 0..2]
        /\ refs \in [Handles -> Int]
        /\ spc \in [Jobs -> {"new", "check_fence", "add_callback", "callback", "assign",
                             "clean", "reset", "put", "insert", "next", "ret", "wait",
                             "timeout", "abort", "end"}]
        /\ victim \in [Jobs -> Jobs \cup {None}]
    BY DEF TypeOK
  <2>2. page' \in [Jobs -> {"none", "live", "freed"}]
    BY <1>1, <2>1, RgaAssumption
  <2>3. undefined' \in BOOLEAN
    BY <1>1, <2>1, RgaAssumption
  <2>4. fence' \in [Jobs -> {"none", "pending", "signaled"}]
    BY <1>1, <2>1, RgaAssumption
  <2>5. power' \in [Cores -> Int]
    BY <1>1, <2>1, RgaAssumption
  <2>6. held' \in [Jobs -> 0..2] /\ owns' \in [Jobs -> 0..2]
    BY <1>1, <2>1
  <2>7. refs' \in [Handles -> Int]
    BY <1>1, <2>1, RgaAssumption
  <2>8. spc' \in [Jobs -> {"new", "check_fence", "add_callback", "callback", "assign",
                             "clean", "reset", "put", "insert", "next", "ret", "wait",
                             "timeout", "abort", "end"}]
    BY <1>1, <2>1, RgaAssumption
  <2>9. victim' \in [Jobs -> Jobs \cup {None}]
    BY <1>1, <2>1, RgaAssumption
  <2> QED BY <1>1, <2>2, <2>3, <2>4, <2>5, <2>6, <2>7, <2>8, <2>9 DEF TypeOK
<1> SUFFICES ASSUME ~undefined' PROVE Sound'
    BY <1>2
<1>3. Queues'
    BY <1>1 DEF TypeOK, Sound, Queues
<1>5. InLists'
  <2>1. PICK x \in Jobs : x = victim[j]
    BY <1>1
  <2>2. \A d \in Cores : running[d] # x /\ ~ InQueue(x, d)
    BY <1>1, <2>1 DEF Sound, Gone, Nowhere
  <2>3. \A k \in Jobs, d \in Cores : running'[d] = k => page'[k] = page[k] /\ core'[k] = core[k]
    BY <1>1, <2>1, <2>2 DEF TypeOK
  <2>4. \A k \in Jobs, d \in Cores : InQueue(k, d) =>
            page'[k] = page[k] /\ core'[k] = core[k] /\ held'[k] = held[k] /\ result'[k] = result[k]
    BY <1>1, <2>1, <2>2 DEF TypeOK
  <2>5. /\ \A d \in Cores : running'[d] \in {running[d], None}
        /\ \A u \in Threads : njob'[u] \in {njob[u], None}
        /\ UNCHANGED todo /\ InLists /\ None \notin Jobs
    BY <1>1, RgaAssumption DEF TypeOK, Sound
  <2> QED BY <2>3, <2>4, <2>5, KeepInLists, Zenon
<1>6. Before'
  <2>1. PICK x \in Jobs : x = victim[j]
    BY <1>1
  <2>2. \A k \in Jobs : spc'[k] \in Uncommitted => spc[k] \in Uncommitted /\ k # x
    BY <1>1, <2>1 DEF TypeOK, Sound, Before, Uncommitted
  <2>3. \A k \in Jobs : k # x => page'[k] = page[k] /\ held'[k] = held[k] /\ done'[k] = done[k]
    BY <1>1, <2>1 DEF TypeOK
  <2>4. \A k \in Jobs : spc'[k] \in Uncommitted =>
            /\ spc[k] \in Uncommitted /\ held'[k] = held[k] /\ done'[k] = done[k]
            /\ spc'[k] # "new" => page'[k] = "live"
    BY <1>1, <2>2, <2>3 DEF TypeOK, Sound, Before, Uncommitted
  <2>5. /\ Before /\ None \notin Jobs /\ UNCHANGED todo
        /\ \A d \in Cores : running'[d] \in {running[d], None}
        /\ \A u \in Threads : njob'[u] \in {njob[u], None}
        /\ \A d \in Cores : ijob'[d] \in {ijob[d], None, running[d]}
        /\ \A i \in Jobs : victim'[i] \in {victim[i], None}
    BY <1>1, RgaAssumption DEF TypeOK, Sound
  <2> QED BY <2>4, <2>5, KeepBefore, Zenon
<1>7. Locals'
  <2>1. Runners'
    BY <1>1 DEF TypeOK, Sound, Locals, Runners, Threads, At
  <2>2. Apart'
    BY <1>1 DEF TypeOK, Sound, Locals, Apart
  <2>3. Committers'
    BY <1>1 DEF TypeOK, Sound, Locals, Committers, Assigned
  <2>4. Enders'
    BY <1>1 DEF TypeOK, Sound, Locals, Enders
  <2> QED BY <2>1, <2>2, <2>3, <2>4 DEF Locals
<1>8. Gone'
    BY <1>1, KeepGone, RgaAssumption DEF TypeOK, Sound, Locals, Runners
<1> QED BY <1>3, <1>5, <1>6, <1>7, <1>8 DEF Sound

\* What rga_job_schedule changes: one list has one job more.
LEMMA InsertEffect ==
    ASSUME TypeOK, Sound, ~undefined, NEW j \in Jobs, Insert(j)
    PROVE  /\ core[j] \in Cores /\ spc[j] = "insert"
           /\ spc' = [spc EXCEPT ![j] = "next"] /\ npc' = [npc EXCEPT ![j] = "loop"]
           /\ \E q \in Seq(Jobs) : /\ todo' = [todo EXCEPT ![core[j]] = q]
                                   /\ Len(q) = jobCount[core[j]] + 1 /\ IsInjective(q)
           /\ jobCount' = [jobCount EXCEPT ![core[j]] = jobCount[core[j]] + 1]
           /\ prio' \in [Jobs -> Nat] /\ undefined' \in BOOLEAN
           /\ \A k \in Jobs, d \in Cores :
                 InQueue(k, d)' <=> InQueue(k, d) \/ (d = core[j] /\ k = j)
           /\ UNCHANGED <<running, power, page, core, done, failed, fence, inFence, held, owns, refs,
                          imports, njob>>
           /\ UNCHANGED <<ipc, ijob, hw, irq, hung, executed, dropped, seized, lost,
                          result, victim>>
<1> DEFINE c   == core[j]
<1> DEFINE q   == todo[c]
<1> DEFINE low == {i \in DOMAIN q : 0 < prio[j] /\ prio[q[i]] < prio[j]}
<1> DEFINE r   == IF low = {} THEN Append(q, j) ELSE InsertAt(q, Min(low) + 1, j)
<1>1. c \in Cores /\ spc[j] = "insert"
    BY HasCore DEF Insert, Assigned
<1>2. q \in Seq(Jobs) /\ Once(q) /\ ~ In(q, j) /\ jobCount[c] = Len(q)
    BY <1>1 DEF TypeOK, Sound, Queues, Before, Uncommitted, InQueue, IsInjective, Once, In
<1>3. /\ r \in Seq(Jobs) /\ Len(r) = Len(q) + 1 /\ Once(r)
      /\ \A x : In(r, x) <=> In(q, x) \/ x = j
  <2>1. CASE low = {}
    BY <1>2, <2>1, Appended, Zenon
  <2>2. CASE low # {}
    <3>1. Len(q) \in Nat /\ DOMAIN q = 1..Len(q)
      BY <1>2
    <3>2. low \in SUBSET Nat /\ low \subseteq 1..Len(q)
      BY <3>1
    <3> HIDE DEF low
    <3>3. Min(low) \in low
      BY <2>2, <3>2, MinIsLeast
    <3>4. Min(low) + 1 \in 1..Len(q) + 1
      <4> HIDE DEF q
      <4>1. Min(low) \in 1..Len(q)
        BY <3>2, <3>3
      <4> QED BY <3>1, <4>1
    <3>5. ASSUME NEW p \in 1..Len(q) + 1
          PROVE  /\ InsertAt(q, p, j) \in Seq(Jobs) /\ Len(InsertAt(q, p, j)) = Len(q) + 1
                 /\ Once(InsertAt(q, p, j))
                 /\ \A x : In(InsertAt(q, p, j), x) <=> In(q, x) \/ x = j
      BY <1>2, Inserted, Zenon
    <3> QED BY <2>2, <3>4, <3>5, Zenon
  <2> QED BY <2>1, <2>2
<1>4. todo' = [todo EXCEPT ![c] = r]
    BY DEF Insert, Set
<1>5. /\ jobCount' = [jobCount EXCEPT ![c] = jobCount[c] + 1]
      /\ spc' = [spc EXCEPT ![j] = "next"] /\ npc' = [npc EXCEPT ![j] = "loop"]
      /\ UNCHANGED <<running, power, page, core, done, failed, fence, inFence, held, owns, refs,
                     imports, njob>>
      /\ UNCHANGED <<ipc, ijob, hw, irq, hung, executed, dropped, seized, lost,
                     result, victim>>
    BY DEF Insert, Counted, mm, irqt, hard, Set
<1>11. undefined' \in BOOLEAN
    BY DEF Insert
<1>6. prio' \in [Jobs -> Nat]
  <2>1. prio \in [Jobs -> Nat]
    BY DEF TypeOK
  <2>2. PICK aged : prio' = [i \in Jobs |-> IF i \in aged THEN prio[i] + 1 ELSE prio[i]]
    BY DEF Insert
  <2> QED BY <2>1, <2>2
<1> HIDE DEF r, low
<1>7. todo'[c] = r /\ \A d \in Cores \ {c} : todo'[d] = todo[d]
    BY <1>1, <1>4 DEF TypeOK
<1>8. ASSUME NEW k \in Jobs, NEW d \in Cores
      PROVE  InQueue(k, d)' <=> InQueue(k, d) \/ (d = c /\ k = j)
  <2>1. /\ InQueue(k, d) <=> In(todo[d], k)
        /\ InQueue(k, d)' <=> In(todo'[d], k)
    BY DEF InQueue, In
  <2>2. CASE d = c
    <3>1. InQueue(k, d)' <=> In(r, k)
      BY <1>7, <2>1, <2>2
    <3>2. InQueue(k, d) <=> In(q, k)
      BY <2>1, <2>2
    <3> QED BY <1>3, <2>2, <3>1, <3>2, Zenon
  <2>3. CASE d # c
    BY <1>7, <2>1, <2>3
  <2> QED BY <2>2, <2>3
<1>9. IsInjective(r) /\ Len(r) = jobCount[c] + 1
    BY <1>2, <1>3 DEF IsInjective, Once
<1>10. \E s \in Seq(Jobs) : /\ todo' = [todo EXCEPT ![c] = s]
                            /\ Len(s) = jobCount[c] + 1 /\ IsInjective(s)
    BY <1>3, <1>4, <1>9
<1> HIDE DEF c
<1> QED BY <1>1, <1>5, <1>6, <1>8, <1>10, <1>11, Zenon DEF c

\* rga_job_schedule: the job, nowhere before, is in its list once.
LEMMA StepInsert ==
    ASSUME TypeOK, Sound, ~undefined, NEW j \in Jobs, Insert(j)
    PROVE  TypeOK' /\ (~undefined' => Sound')
<1>1. /\ core[j] \in Cores /\ spc[j] = "insert"
      /\ spc' = [spc EXCEPT ![j] = "next"] /\ npc' = [npc EXCEPT ![j] = "loop"]
      /\ \E q \in Seq(Jobs) : /\ todo' = [todo EXCEPT ![core[j]] = q]
                              /\ Len(q) = jobCount[core[j]] + 1 /\ IsInjective(q)
      /\ jobCount' = [jobCount EXCEPT ![core[j]] = jobCount[core[j]] + 1]
      /\ prio' \in [Jobs -> Nat] /\ undefined' \in BOOLEAN
      /\ \A k \in Jobs, d \in Cores :
            InQueue(k, d)' <=> InQueue(k, d) \/ (d = core[j] /\ k = j)
      /\ UNCHANGED <<running, power, page, core, done, failed, fence, inFence, held, owns, refs,
                     imports, njob>>
      /\ UNCHANGED <<ipc, ijob, hw, irq, hung, executed, dropped, seized, lost,
                     result, victim>>
    BY InsertEffect, Zenon
<1>2. TypeOK'
  <2>1. /\ todo \in [Cores -> Seq(Jobs)]
        /\ jobCount \in [Cores -> Nat]
        /\ prio \in [Jobs -> Nat]
        /\ npc \in [Threads -> {"off", "loop", "run", "ret", "failret", "fail", "put"}]
        /\ spc \in [Jobs -> {"new", "check_fence", "add_callback", "callback", "assign",
                             "clean", "reset", "put", "insert", "next", "ret", "wait",
                             "timeout", "abort", "end"}]
    BY DEF TypeOK
  <2>2. todo' \in [Cores -> Seq(Jobs)]
    BY <1>1, <2>1, RgaAssumption
  <2>3. jobCount' \in [Cores -> Nat]
    BY <1>1, <2>1, RgaAssumption
  <2>4. prio' \in [Jobs -> Nat]
    BY <1>1, <2>1, RgaAssumption
  <2>5. npc' \in [Threads -> {"off", "loop", "run", "ret", "failret", "fail", "put"}]
    BY <1>1, <2>1, RgaAssumption
  <2>6. spc' \in [Jobs -> {"new", "check_fence", "add_callback", "callback", "assign",
                             "clean", "reset", "put", "insert", "next", "ret", "wait",
                             "timeout", "abort", "end"}]
    BY <1>1, <2>1, RgaAssumption
  <2> QED BY <1>1, <2>2, <2>3, <2>4, <2>5, <2>6 DEF TypeOK
<1> SUFFICES ASSUME ~undefined' PROVE Sound'
    BY <1>2
<1>3. Queues'
  <2>1. PICK c \in Cores : c = core[j]
    BY <1>1
  <2>2. /\ jobCount'[c] = Len(todo'[c]) /\ IsInjective(todo'[c])
        /\ \A d \in Cores \ {c} : todo'[d] = todo[d] /\ jobCount'[d] = jobCount[d]
    BY <1>1, <2>1 DEF TypeOK
  <2> QED BY <2>2 DEF Sound, Queues
<1>5. InLists'
  <2>1. PICK c \in Cores : c = core[j]
    BY <1>1
  <2>2. /\ spc[j] = "insert" /\ spc'[j] = "next" /\ \A k \in Jobs \ {j} : spc'[k] = spc[k]
        /\ page'= page /\ core' = core /\ held' = held /\ running' = running
        /\ ijob' = ijob /\ victim' = victim /\ njob' = njob /\ done' = done /\ result' = result
    BY <1>1 DEF TypeOK
  <2>3. \A k \in Jobs, d \in Cores : InQueue(k, d)' <=> InQueue(k, d) \/ (d = c /\ k = j)
    BY <1>1, <2>1, Zenon
  <2>4. /\ page[j] = "live" /\ held[j] = 0 /\ \A t \in Threads : njob[t] # j
        /\ \A d \in Cores : running[d] # j
    BY <2>2 DEF Sound, Before, Uncommitted
  <2> QED BY <2>1, <2>2, <2>3, <2>4 DEF Sound, InLists
<1>6. Before'
  <2>1. PICK c \in Cores : c = core[j]
    BY <1>1
  <2>2. /\ spc[j] = "insert" /\ spc'[j] = "next" /\ \A k \in Jobs \ {j} : spc'[k] = spc[k]
        /\ page'= page /\ core' = core /\ held' = held /\ running' = running
        /\ ijob' = ijob /\ victim' = victim /\ njob' = njob /\ done' = done /\ result' = result
    BY <1>1 DEF TypeOK
  <2>3. \A k \in Jobs, d \in Cores : InQueue(k, d)' <=> InQueue(k, d) \/ (d = c /\ k = j)
    BY <1>1, <2>1, Zenon
  <2> QED BY <2>2, <2>3 DEF Sound, Before, Uncommitted
<1>7. Locals'
  <2>1. Runners'
    BY <1>1 DEF TypeOK, Sound, Locals, Runners, Threads, At
  <2>2. Apart'
    BY <1>1 DEF TypeOK, Sound, Locals, Apart
  <2>3. Committers'
    BY <1>1 DEF TypeOK, Sound, Locals, Committers, Assigned
  <2>4. Enders'
    BY <1>1 DEF TypeOK, Sound, Locals, Enders
  <2> QED BY <2>1, <2>2, <2>3, <2>4 DEF Locals
<1>8. Gone'
  <2>1. \A k \in Jobs, d \in Cores : k # j => (InQueue(k, d)' <=> InQueue(k, d))
    BY <1>1, Zenon
  <2>2. \A k \in Jobs : k # j /\ Nowhere(k) => Nowhere(k)'
    BY <1>1, <2>1 DEF Nowhere
  <2>3. /\ ~ done[j] /\ \A t \in Threads : njob[t] # j
        /\ \A c \in Cores : ijob[c] # j
        /\ \A i \in Jobs : victim[i] # j
    BY <1>1 DEF Sound, Before, Uncommitted
  <2>4. \A t \in Threads : npc'[t] = "put" => npc[t] = "put"
    BY <1>1 DEF TypeOK
  <2>6. UNCHANGED <<victim, ijob, njob, done>>
    BY <1>1
  <2>5. \A t \in Threads : npc'[t] = "put" =>
            njob'[t] \in Jobs /\ \A k \in Jobs : njob'[t] = k => Nowhere(k)'
    <3>1. \A t \in Threads : npc[t] = "put" => njob[t] \in Jobs /\ Nowhere(njob[t])
      BY DEF Sound, Gone, Locals, Runners
    <3> QED BY <2>2, <2>3, <2>4, <2>6, <3>1
  <2>7. \A i, k \in Jobs : victim'[i] = k => Nowhere(k)'
    BY <2>2, <2>3, <2>6 DEF Sound, Gone
  <2>8. \A d \in Cores, k \in Jobs : ijob'[d] = k => Nowhere(k)'
    BY <2>2, <2>3, <2>6 DEF Sound, Gone
  <2>9. \A k \in Jobs : done'[k] => Nowhere(k)'
    BY <2>2, <2>3, <2>6 DEF Sound, Gone
  <2> QED BY <2>5, <2>7, <2>8, <2>9, AreGone
<1> QED BY <1>3, <1>5, <1>6, <1>7, <1>8 DEF Sound

\* rga_job_next with nothing to start.
LEMMA StepNextNone ==
    ASSUME TypeOK, Sound, ~undefined, NEW t \in Threads, NextNone(t)
    PROVE  TypeOK' /\ (~undefined' => Sound')
<1>1. /\ npc' = [npc EXCEPT ![t] = "off"]
      /\ ipc' = ipc \/ (t \in Cores /\ ipc' = [ipc EXCEPT ![t] = "power"])
      /\ \/ UNCHANGED <<spc, result>>
         \/ /\ t \in Sync /\ t \in Jobs /\ spc[t] = "next"
            /\ spc' = [spc EXCEPT ![t] = "ret"] /\ result' = result
         \/ /\ t \notin Sync /\ t \in Jobs /\ spc[t] = "next"
            /\ spc' = [spc EXCEPT ![t] = "end"] /\ result' = [result EXCEPT ![t] = "ok"]
      /\ UNCHANGED <<todo, jobCount, running, page, core, prio, done, failed, fence, refs,
                     imports, held, owns>>
      /\ UNCHANGED <<ijob, hw, irq, hung, executed, dropped, seized, lost, undefined, power,
                     inFence>>
      /\ UNCHANGED <<victim, njob>>
  <2>1. Continue(t) /\ npc[t] = "loop" /\ npc' = [npc EXCEPT ![t] = "off"]
       /\ UNCHANGED <<todo, jobCount, running, page, core, prio, done, failed, fence, refs,
                      imports>>
       /\ UNCHANGED <<held, owns, hw, irq, hung, executed, dropped, seized, lost, undefined, power>>
       /\ UNCHANGED <<inFence, victim, njob>>
    BY DEF NextNone, Set, sched, job, mm, hard, hist
  <2>2. t \in Jobs => spc[t] = "next"
    BY <2>1 DEF Sound, Locals, Runners, NextNone
  <2>3. CASE t \in Cores
    <3>1. ipc' = [ipc EXCEPT ![t] = "power"] /\ UNCHANGED <<spc, result, ijob>>
      BY <2>1, <2>3 DEF Continue, Set
    <3> QED BY <2>1, <2>3, <3>1
  <2>4. CASE t \notin Cores
    <3>1. t \in Jobs /\ spc[t] = "next"
      BY <2>2, <2>4 DEF Threads
    <3>2. CASE t \in Sync
      <4>1. spc' = [spc EXCEPT ![t] = "ret"] /\ UNCHANGED <<ipc, ijob, result>>
        BY <2>1, <2>4, <3>2 DEF Continue, irqt, Set
      <4> QED BY <2>1, <3>1, <4>1, <3>2
    <3>3. CASE t \notin Sync
      <4>1. /\ spc' = [spc EXCEPT ![t] = "end"] /\ result' = [result EXCEPT ![t] = "ok"]
            /\ UNCHANGED <<ipc, ijob>>
        BY <2>1, <2>4, <3>3 DEF Continue, irqt, Set
      <4> QED BY <2>1, <3>1, <4>1, <3>3
    <3> QED BY <3>2, <3>3
  <2> QED BY <2>3, <2>4
<1>2. TypeOK'
  <2>1. /\ npc \in [Threads -> {"off", "loop", "run", "ret", "failret", "fail", "put"}]
        /\ ipc \in [Cores -> {"idle", "enter", "took", "flagged", "next", "power"}]
        /\ spc \in [Jobs -> {"new", "check_fence", "add_callback", "callback", "assign",
                             "clean", "reset", "put", "insert", "next", "ret", "wait",
                             "timeout", "abort", "end"}]
        /\ result \in [Jobs -> {"none", "ok", "error"}]
    BY DEF TypeOK
  <2>2. /\ npc' \in [Threads -> {"off", "loop", "run", "ret", "failret", "fail", "put"}]
        /\ ipc' \in [Cores -> {"idle", "enter", "took", "flagged", "next", "power"}]
        /\ spc' \in [Jobs -> {"new", "check_fence", "add_callback", "callback", "assign",
                             "clean", "reset", "put", "insert", "next", "ret", "wait",
                             "timeout", "abort", "end"}]
        /\ result' \in [Jobs -> {"none", "ok", "error"}]
    BY <1>1, <2>1, RgaAssumption
  <2> QED BY <1>1, <2>2 DEF TypeOK
<1> SUFFICES ASSUME ~undefined' PROVE Sound'
    BY <1>2
<1>3. Queues'
    BY <1>1 DEF TypeOK, Sound, Queues
<1>5. InLists'
  <2>1. \A k \in Sync : result'[k] = result[k]
    BY <1>1, RgaAssumption DEF TypeOK
  <2> QED BY <1>1, <2>1, KeepInLists, RgaAssumption DEF TypeOK, Sound
<1>6. Before'
  <2>1. \A k \in Jobs : spc'[k] \in Uncommitted =>
            /\ spc[k] \in Uncommitted /\ held'[k] = held[k] /\ done'[k] = done[k]
            /\ spc'[k] # "new" => page'[k] = "live"
    BY <1>1 DEF TypeOK, Sound, Before, Uncommitted
  <2> QED BY <1>1, <2>1, KeepBefore, RgaAssumption DEF TypeOK, Sound
<1>7. Locals'
  <2>1. Runners'
    BY <1>1 DEF TypeOK, Sound, Locals, Runners, Threads, At
  <2>2. Apart'
    BY <1>1 DEF TypeOK, Sound, Locals, Apart
  <2>3. Committers'
    BY <1>1 DEF TypeOK, Sound, Locals, Committers, Assigned
  <2>4. Enders'
    BY <1>1 DEF TypeOK, Sound, Locals, Enders
  <2> QED BY <2>1, <2>2, <2>3, <2>4 DEF Locals
<1>8. Gone'
    BY <1>1, KeepGone, RgaAssumption DEF TypeOK, Sound, Locals, Runners
<1> QED BY <1>3, <1>5, <1>6, <1>7, <1>8 DEF Sound

\* What rga_job_next changes: the first job of a list becomes running_job.
LEMMA NextTakeEffect ==
    ASSUME TypeOK, Sound, ~undefined, NEW t \in Threads, NextTake(t)
    PROVE  /\ At(t) \in Cores /\ npc[t] = "loop" /\ running[At(t)] = None
           /\ todo' = [todo EXCEPT ![At(t)] = Tail(todo[At(t)])]
           /\ jobCount' = [jobCount EXCEPT ![At(t)] = jobCount[At(t)] - 1]
           /\ running' = [running EXCEPT ![At(t)] = Head(todo[At(t)])]
           /\ njob' = [njob EXCEPT ![t] = Head(todo[At(t)])] /\ npc' = [npc EXCEPT ![t] = "run"]
           /\ undefined' \in BOOLEAN /\ (~ undefined' => page[Head(todo[At(t)])] = "live")
           /\ Head(todo[At(t)]) \in Jobs /\ InQueue(Head(todo[At(t)]), At(t))
           /\ Tail(todo[At(t)]) \in Seq(Jobs) /\ IsInjective(Tail(todo[At(t)]))
           /\ jobCount[At(t)] - 1 \in Nat /\ Len(Tail(todo[At(t)])) = jobCount[At(t)] - 1
           /\ \A k \in Jobs, d \in Cores :
                 InQueue(k, d)' <=> InQueue(k, d) /\ ~ (d = At(t) /\ k = Head(todo[At(t)]))
           /\ UNCHANGED <<power, page, core, prio, done, failed, fence, inFence, held, owns, refs,
                          imports, ipc>>
           /\ UNCHANGED <<ijob, hw, irq, hung, executed, dropped, seized, lost, spc,
                          result, victim>>
<1> DEFINE c == At(t)
<1> DEFINE q == todo[c]
<1>1. c \in Cores /\ npc[t] = "loop"
    BY HasCore DEF NextTake
<1>2. q \in Seq(Jobs) /\ q # <<>> /\ Once(q) /\ jobCount[c] = Len(q)
    BY <1>1 DEF NextTake, TypeOK, Sound, Queues, IsInjective, Once
<1>3. /\ Head(q) \in Jobs /\ Tail(q) \in Seq(Jobs)
      /\ Len(q) \in Nat /\ Len(q) > 0 /\ Len(Tail(q)) = Len(q) - 1
      /\ In(q, Head(q)) /\ Once(Tail(q))
      /\ \A x : In(Tail(q), x) <=> In(q, x) /\ x # Head(q)
    BY <1>2, Taken, Zenon
<1>4. /\ todo' = [todo EXCEPT ![c] = Tail(q)]
      /\ jobCount' = [jobCount EXCEPT ![c] = jobCount[c] - 1]
      /\ running' = [running EXCEPT ![c] = Head(q)]
      /\ njob' = [njob EXCEPT ![t] = Head(q)] /\ npc' = [npc EXCEPT ![t] = "run"]
      /\ running[c] = None
    BY DEF NextTake, CoreIsFree, Unlink, Set
<1>5. todo'[c] = Tail(q) /\ \A d \in Cores \ {c} : todo'[d] = todo[d]
    BY <1>1, <1>4 DEF TypeOK
<1>6. ASSUME NEW k \in Jobs, NEW d \in Cores
      PROVE  InQueue(k, d)' <=> InQueue(k, d) /\ ~ (d = c /\ k = Head(q))
  <2>1. /\ InQueue(k, d) <=> In(todo[d], k)
        /\ InQueue(k, d)' <=> In(todo'[d], k)
    BY DEF InQueue, In
  <2>2. CASE d = c
    <3>1. InQueue(k, d)' <=> In(Tail(q), k)
      BY <1>5, <2>1, <2>2
    <3>2. InQueue(k, d) <=> In(q, k)
      BY <2>1, <2>2
    <3> QED BY <1>3, <2>2, <3>1, <3>2, Zenon
  <2>3. CASE d # c
    BY <1>5, <2>1, <2>3
  <2> QED BY <2>2, <2>3
<1>7. InQueue(Head(q), c)
    BY <1>3 DEF InQueue, In
<1>8. IsInjective(Tail(q))
    BY <1>3 DEF IsInjective, Once
<1>9. /\ UNCHANGED <<power, page, core, prio, done, failed, fence, inFence, held, owns, refs, imports, ipc>>
      /\ UNCHANGED <<ijob, hw, irq, hung, executed, dropped, seized, lost, spc,
                     result, victim>>
    BY DEF NextTake, job, mm, irqt, hard
<1>11. undefined' \in BOOLEAN /\ (~ undefined' => page[Head(q)] = "live")
  <2>1. 1 \in DOMAIN q \cap {1, 2} /\ Head(q) = q[1]
    BY <1>2, <1>3
  <2> HIDE DEF q
  <2>2. undefined' = (undefined \/ Stale({q[i] : i \in DOMAIN q \cap {1, 2}}))
    BY DEF NextTake, q
  <2> QED BY <2>1, <2>2 DEF Stale
<1>10. jobCount[c] - 1 \in Nat /\ Len(Tail(q)) = jobCount[c] - 1
    BY <1>2, <1>3
<1> QED BY <1>1, <1>3, <1>4, <1>6, <1>7, <1>8, <1>9, <1>10, <1>11, Zenon

\* rga_job_next: the first job leaves the list for running_job.
LEMMA StepNextTake ==
    ASSUME TypeOK, Sound, ~undefined, NEW t \in Threads, NextTake(t)
    PROVE  TypeOK' /\ (~undefined' => Sound')
<1>1. /\ At(t) \in Cores /\ npc[t] = "loop" /\ running[At(t)] = None
      /\ todo' = [todo EXCEPT ![At(t)] = Tail(todo[At(t)])]
      /\ jobCount' = [jobCount EXCEPT ![At(t)] = jobCount[At(t)] - 1]
      /\ running' = [running EXCEPT ![At(t)] = Head(todo[At(t)])]
      /\ njob' = [njob EXCEPT ![t] = Head(todo[At(t)])] /\ npc' = [npc EXCEPT ![t] = "run"]
      /\ undefined' \in BOOLEAN /\ (~ undefined' => page[Head(todo[At(t)])] = "live")
      /\ Head(todo[At(t)]) \in Jobs /\ InQueue(Head(todo[At(t)]), At(t))
      /\ Tail(todo[At(t)]) \in Seq(Jobs) /\ IsInjective(Tail(todo[At(t)]))
      /\ jobCount[At(t)] - 1 \in Nat /\ Len(Tail(todo[At(t)])) = jobCount[At(t)] - 1
      /\ \A k \in Jobs, d \in Cores :
            InQueue(k, d)' <=> InQueue(k, d) /\ ~ (d = At(t) /\ k = Head(todo[At(t)]))
      /\ UNCHANGED <<power, page, core, prio, done, failed, fence, inFence, held, owns, refs,
                     imports, ipc>>
      /\ UNCHANGED <<ijob, hw, irq, hung, executed, dropped, seized, lost, spc,
                     result, victim>>
    BY NextTakeEffect, Zenon
<1>2. TypeOK'
  <2>1. /\ todo \in [Cores -> Seq(Jobs)]
        /\ jobCount \in [Cores -> Nat]
        /\ running \in [Cores -> Jobs \cup {None}]
        /\ npc \in [Threads -> {"off", "loop", "run", "ret", "failret", "fail", "put"}]
        /\ njob \in [Threads -> Jobs \cup {None}]
    BY DEF TypeOK
  <2>2. todo' \in [Cores -> Seq(Jobs)]
    BY <1>1, <2>1, RgaAssumption
  <2>3. jobCount' \in [Cores -> Nat]
    BY <1>1, <2>1, RgaAssumption
  <2>4. running' \in [Cores -> Jobs \cup {None}]
    BY <1>1, <2>1, RgaAssumption
  <2>5. npc' \in [Threads -> {"off", "loop", "run", "ret", "failret", "fail", "put"}]
    BY <1>1, <2>1, RgaAssumption
  <2>6. njob' \in [Threads -> Jobs \cup {None}]
    BY <1>1, <2>1, RgaAssumption
  <2> QED BY <1>1, <2>2, <2>3, <2>4, <2>5, <2>6 DEF TypeOK
<1> SUFFICES ASSUME ~undefined' PROVE Sound'
    BY <1>2
<1>3. Queues'
  <2>1. PICK c \in Cores : c = At(t)
    BY <1>1
  <2>2. /\ todo'[c] = Tail(todo[At(t)]) /\ jobCount'[c] = Len(todo'[c])
        /\ \A d \in Cores \ {c} : todo'[d] = todo[d] /\ jobCount'[d] = jobCount[d]
    BY <1>1, <2>1 DEF TypeOK
  <2> QED BY <1>1, <2>1, <2>2 DEF Sound, Queues
<1>5. InLists'
  <2>1. PICK c \in Cores, x \in Jobs : c = At(t) /\ x = Head(todo[At(t)])
    BY <1>1
  <2>2. /\ running'[c] = x /\ \A d \in Cores \ {c} : running'[d] = running[d]
        /\ njob'[t] = x /\ \A u \in Threads \ {t} : njob'[u] = njob[u]
        /\ InQueue(x, c) /\ page'= page /\ core' = core /\ held' = held /\ spc' = spc
        /\ ijob' = ijob /\ victim' = victim /\ done' = done /\ result' = result
    BY <1>1, <2>1 DEF TypeOK
  <2>3. \A k \in Jobs, d \in Cores : InQueue(k, d)' <=> InQueue(k, d) /\ ~ (d = c /\ k = x)
    BY <1>1, <2>1, Zenon
  <2>4. \A k \in Jobs, d \in Cores : InQueue(k, d)' => k # x
    BY <2>2, <2>3 DEF Sound, InLists
  <2>5. page[x] = "live"
    BY <1>1, <2>1
  <2> QED BY <2>2, <2>3, <2>4, <2>5 DEF Sound, InLists
<1>6. Before'
  <2>1. PICK c \in Cores, x \in Jobs : c = At(t) /\ x = Head(todo[At(t)])
    BY <1>1
  <2>2. /\ running'[c] = x /\ \A d \in Cores \ {c} : running'[d] = running[d]
        /\ njob'[t] = x /\ \A u \in Threads \ {t} : njob'[u] = njob[u]
        /\ InQueue(x, c) /\ page'= page /\ core' = core /\ held' = held /\ spc' = spc
        /\ ijob' = ijob /\ victim' = victim /\ done' = done /\ result' = result
    BY <1>1, <2>1 DEF TypeOK
  <2>3. \A k \in Jobs, d \in Cores : InQueue(k, d)' <=> InQueue(k, d) /\ ~ (d = c /\ k = x)
    BY <1>1, <2>1, Zenon
  <2>4. \A k \in Jobs : spc[k] \in Uncommitted => k # x
    BY <2>2 DEF Sound, Before
  <2> QED BY <2>2, <2>3, <2>4 DEF Sound, Before
<1>7. Locals'
  <2>1. Runners'
    <3>1. PICK x \in Jobs : x = Head(todo[At(t)]) /\ held[x] = 0 /\ core[x] = At(t)
      BY <1>1 DEF Sound, InLists
    <3>2. /\ npc'[t] = "run" /\ \A u \in Threads \ {t} : npc'[u] = npc[u] /\ njob'[u] = njob[u]
          /\ njob'[t] = x /\ held' = held /\ core' = core /\ spc' = spc /\ npc[t] = "loop"
      BY <1>1, <3>1 DEF TypeOK
    <3> QED BY <3>1, <3>2 DEF Sound, Locals, Runners, At
  <2>2. Apart'
    <3>1. PICK x \in Jobs : x = Head(todo[At(t)]) /\ \A u \in Threads : njob[u] # x
      BY <1>1 DEF Sound, InLists
    <3>2. njob'[t] = x /\ \A u \in Threads \ {t} : njob'[u] = njob[u]
      BY <1>1, <3>1 DEF TypeOK
    <3> QED BY <3>1, <3>2 DEF Sound, Locals, Apart
  <2>3. Committers'
    BY <1>1 DEF TypeOK, Sound, Locals, Committers, Assigned
  <2>4. Enders'
    BY <1>1 DEF TypeOK, Sound, Locals, Enders
  <2> QED BY <2>1, <2>2, <2>3, <2>4 DEF Locals
<1>8. Gone'
  <2>1. PICK c \in Cores, x \in Jobs : c = At(t) /\ x = Head(todo[At(t)])
    BY <1>1
  <2>2. /\ running'[c] = x /\ \A d \in Cores \ {c} : running'[d] = running[d]
        /\ npc'[t] = "run" /\ \A u \in Threads \ {t} : npc'[u] = npc[u] /\ njob'[u] = njob[u]
        /\ InQueue(x, c) /\ UNCHANGED <<victim, ijob, done>>
    BY <1>1, <2>1 DEF TypeOK
  <2>3. \A k \in Jobs, d \in Cores : InQueue(k, d)' => InQueue(k, d)
    BY <1>1, Zenon
  <2>4. \A k \in Jobs : Nowhere(k) => Nowhere(k)'
    BY <2>2, <2>3 DEF Nowhere
  <2>5. \A u \in Threads : npc'[u] = "put" => Nowhere(njob[u])' /\ njob'[u] = njob[u]
    BY <2>2, <2>4 DEF Sound, Gone, Locals, Runners
  <2> QED BY <2>2, <2>4, <2>5 DEF Sound, Gone
<1> QED BY <1>3, <1>5, <1>6, <1>7, <1>8 DEF Sound

\* rga_job_run: the job, which had no buffers, gets a reference to both.
LEMMA StepRunOk ==
    ASSUME TypeOK, Sound, ~undefined, NEW t \in Threads, RunOk(t)
    PROVE  TypeOK' /\ (~undefined' => Sound')
<1>1. /\ njob[t] \in Jobs /\ npc[t] = "run" /\ At(t) \in Cores
      /\ npc' = [npc EXCEPT ![t] = "ret"]
      /\ power' = [power EXCEPT ![At(t)] = power[At(t)] + 1]
      /\ hw' = [hw EXCEPT ![At(t)] = njob[t]]
      /\ undefined' \in BOOLEAN
      /\ held' = [held EXCEPT ![njob[t]] = 2] /\ owns' = [owns EXCEPT ![njob[t]] = 2]
        /\ refs' \in [Handles -> Int]
      /\ UNCHANGED <<todo, jobCount, running, page, core, prio, done, failed, fence, inFence,
                     imports, njob>>
      /\ UNCHANGED <<ipc, ijob, irq, hung, executed, dropped, seized, lost, spc, result, victim>>
  <2>1. npc[t] = "run" /\ njob[t] \in Jobs /\ held[njob[t]] = 0 /\ GetHandles(njob[t], 2)
    BY DEF Sound, Locals, Runners, RunOk
  <2>2. 2 \in 0..2
    OBVIOUS
  <2>3. /\ held' = [held EXCEPT ![njob[t]] = 2] /\ owns' = [owns EXCEPT ![njob[t]] = 2]
        /\ refs' \in [Handles -> Int]
        /\ imports' = imports
    BY <2>1, <2>2, Got, Zenon
  <2>4. At(t) \in Cores
    BY <2>1, HasCore
  <2> QED BY <2>1, <2>3, <2>4 DEF RunOk, sched, job, irqt, Set
<1>2. TypeOK'
  <2>1. /\ power \in [Cores -> Int]
        /\ held \in [Jobs -> 0..2] /\ owns \in [Jobs -> 0..2]
        /\ refs \in [Handles -> Int]
        /\ npc \in [Threads -> {"off", "loop", "run", "ret", "failret", "fail", "put"}]
        /\ hw \in [Cores -> Jobs \cup {None}]
        /\ undefined \in BOOLEAN
    BY DEF TypeOK
  <2>2. power' \in [Cores -> Int]
    BY <1>1, <2>1, RgaAssumption
  <2>3. held' \in [Jobs -> 0..2] /\ owns' \in [Jobs -> 0..2]
    BY <1>1, <2>1, RgaAssumption
  <2>4. refs' \in [Handles -> Int]
    BY <1>1, <2>1, RgaAssumption
  <2>5. npc' \in [Threads -> {"off", "loop", "run", "ret", "failret", "fail", "put"}]
    BY <1>1, <2>1, RgaAssumption
  <2>6. hw' \in [Cores -> Jobs \cup {None}]
    BY <1>1, <2>1, RgaAssumption
  <2>7. undefined' \in BOOLEAN
    BY <1>1, <2>1, RgaAssumption
  <2> QED BY <1>1, <2>2, <2>3, <2>4, <2>5, <2>6, <2>7 DEF TypeOK
<1> SUFFICES ASSUME ~undefined' PROVE Sound'
    BY <1>2
<1>3. Queues'
    BY <1>1 DEF TypeOK, Sound, Queues
<1>5. InLists'
  <2>1. \A k \in Jobs, d \in Cores : InQueue(k, d) => held'[k] = held[k]
    BY <1>1 DEF TypeOK, Sound, InLists
  <2> QED BY <1>1, <2>1, KeepInLists, RgaAssumption DEF TypeOK, Sound
<1>6. Before'
  <2>1. \A k \in Jobs : spc[k] \in Uncommitted => held'[k] = held[k]
    BY <1>1 DEF TypeOK, Sound, Before
  <2>2. \A k \in Jobs : spc'[k] \in Uncommitted =>
            /\ spc[k] \in Uncommitted /\ held'[k] = held[k] /\ done'[k] = done[k]
            /\ spc'[k] # "new" => page'[k] = "live"
    BY <1>1, <2>1 DEF Sound, Before
  <2> QED BY <1>1, <2>2, KeepBefore, RgaAssumption DEF TypeOK, Sound
<1>7. Locals'
  <2>1. Runners'
    <3>1. \A u \in Threads \ {t} : npc'[u] = npc[u]
      BY <1>1 DEF TypeOK
    <3>2. npc'[t] \notin {"off", "run"}
      BY <1>1 DEF TypeOK
    <3>3. \A u \in Threads \ {t} : njob[u] \in Jobs => held'[njob[u]] = held[njob[u]]
      BY <1>1, RgaAssumption DEF TypeOK, Sound, Locals, Apart
    <3> QED BY <1>1, <3>1, <3>2, <3>3 DEF Sound, Locals, Runners, At
  <2>2. Apart'
    BY <1>1 DEF TypeOK, Sound, Locals, Apart
  <2>3. Committers'
    BY <1>1 DEF TypeOK, Sound, Locals, Committers, Assigned
  <2>4. Enders'
    BY <1>1 DEF TypeOK, Sound, Locals, Enders
  <2> QED BY <2>1, <2>2, <2>3, <2>4 DEF Locals
<1>8. Gone'
    BY <1>1, KeepGone, RgaAssumption DEF TypeOK, Sound, Locals, Runners
<1> QED BY <1>3, <1>5, <1>6, <1>7, <1>8 DEF Sound

\* rga_job_run that fails: the job gets some references, or none.
LEMMA StepRunFail ==
    ASSUME TypeOK, Sound, ~undefined, NEW t \in Threads, RunFail(t)
    PROVE  TypeOK' /\ (~undefined' => Sound')
<1>1. /\ njob[t] \in Jobs /\ npc[t] = "run" /\ At(t) \in Cores
      /\ npc' = [npc EXCEPT ![t] = "failret"]
      /\ power' = [power EXCEPT ![At(t)] = power[At(t)]]
      /\ \E n \in 0..2 : held' = [held EXCEPT ![njob[t]] = n] /\ owns' = [owns EXCEPT ![njob[t]] = n]
      /\ refs' \in [Handles -> Int] /\ undefined' \in BOOLEAN
      /\ UNCHANGED <<todo, jobCount, running, page, core, prio, done, failed, fence, inFence,
                     imports, njob>>
      /\ UNCHANGED <<ipc, ijob, hw, irq, hung, executed, dropped, seized, lost, spc, result>>
      /\ UNCHANGED <<victim>>
  <2>1. npc[t] = "run" /\ njob[t] \in Jobs /\ held[njob[t]] = 0
    BY DEF Sound, Locals, Runners, RunFail
  <2>2. Channels(njob[t]) \in 0..2
    <3>1. refs[Src[njob[t]]] \in Int /\ refs[Dst[njob[t]]] \in Int
      BY <2>1, RgaAssumption DEF TypeOK
    <3> QED BY <3>1 DEF Channels
  <2>3. PICK n \in 0..2 : GetHandles(njob[t], n)
    BY <2>2 DEF RunFail
  <2>4. /\ held' = [held EXCEPT ![njob[t]] = n] /\ owns' = [owns EXCEPT ![njob[t]] = n]
        /\ refs' \in [Handles -> Int]
        /\ imports' = imports
    BY <2>1, <2>3, Got, Zenon
  <2>5. At(t) \in Cores
    BY <2>1, HasCore
  <2> QED BY <2>1, <2>4, <2>5 DEF RunFail, PowerAfterFail, sched, job, irqt, hard, Set
<1>2. TypeOK'
  <2>1. /\ power \in [Cores -> Int]
        /\ held \in [Jobs -> 0..2] /\ owns \in [Jobs -> 0..2]
        /\ refs \in [Handles -> Int]
        /\ npc \in [Threads -> {"off", "loop", "run", "ret", "failret", "fail", "put"}]
    BY DEF TypeOK
  <2>2. power' \in [Cores -> Int]
    BY <1>1, <2>1, RgaAssumption
  <2>3. held' \in [Jobs -> 0..2] /\ owns' \in [Jobs -> 0..2]
    BY <1>1, <2>1, RgaAssumption
  <2>4. refs' \in [Handles -> Int]
    BY <1>1, <2>1, RgaAssumption
  <2>5. npc' \in [Threads -> {"off", "loop", "run", "ret", "failret", "fail", "put"}]
    BY <1>1, <2>1, RgaAssumption
  <2> QED BY <1>1, <2>2, <2>3, <2>4, <2>5 DEF TypeOK
<1> SUFFICES ASSUME ~undefined' PROVE Sound'
    BY <1>2
<1>3. Queues'
    BY <1>1 DEF TypeOK, Sound, Queues
<1>5. InLists'
  <2>1. \A k \in Jobs, d \in Cores : InQueue(k, d) => held'[k] = held[k]
    BY <1>1 DEF TypeOK, Sound, InLists
  <2> QED BY <1>1, <2>1, KeepInLists, RgaAssumption DEF TypeOK, Sound
<1>6. Before'
  <2>1. \A k \in Jobs : spc[k] \in Uncommitted => held'[k] = held[k]
    BY <1>1 DEF TypeOK, Sound, Before
  <2>2. \A k \in Jobs : spc'[k] \in Uncommitted =>
            /\ spc[k] \in Uncommitted /\ held'[k] = held[k] /\ done'[k] = done[k]
            /\ spc'[k] # "new" => page'[k] = "live"
    BY <1>1, <2>1 DEF Sound, Before
  <2> QED BY <1>1, <2>2, KeepBefore, RgaAssumption DEF TypeOK, Sound
<1>7. Locals'
  <2>1. Runners'
    <3>1. \A u \in Threads \ {t} : npc'[u] = npc[u]
      BY <1>1 DEF TypeOK
    <3>2. npc'[t] \notin {"off", "run"}
      BY <1>1 DEF TypeOK
    <3>3. \A u \in Threads \ {t} : njob[u] \in Jobs => held'[njob[u]] = held[njob[u]]
      BY <1>1, RgaAssumption DEF TypeOK, Sound, Locals, Apart
    <3> QED BY <1>1, <3>1, <3>2, <3>3 DEF Sound, Locals, Runners, At
  <2>2. Apart'
    BY <1>1 DEF TypeOK, Sound, Locals, Apart
  <2>3. Committers'
    BY <1>1 DEF TypeOK, Sound, Locals, Committers, Assigned
  <2>4. Enders'
    BY <1>1 DEF TypeOK, Sound, Locals, Enders
  <2> QED BY <2>1, <2>2, <2>3, <2>4 DEF Locals
<1>8. Gone'
    BY <1>1, KeepGone, RgaAssumption DEF TypeOK, Sound, Locals, Runners
<1> QED BY <1>3, <1>5, <1>6, <1>7, <1>8 DEF Sound

\* rga_job_next after a start.
LEMMA StepReturn ==
    ASSUME TypeOK, Sound, ~undefined, NEW t \in Threads, Return(t)
    PROVE  TypeOK' /\ (~undefined' => Sound')
<1>1. /\ njob[t] \in Jobs /\ npc[t] = "ret"
      /\ failed' = [failed EXCEPT ![njob[t]] = FALSE] /\ undefined' \in BOOLEAN
      /\ npc' = [npc EXCEPT ![t] = "off"] /\ njob' = [njob EXCEPT ![t] = None]
      /\ ipc' = ipc \/ (t \in Cores /\ ipc' = [ipc EXCEPT ![t] = "power"])
      /\ \/ UNCHANGED <<spc, result>>
         \/ /\ t \in Sync /\ t \in Jobs /\ spc[t] = "next"
            /\ spc' = [spc EXCEPT ![t] = "ret"] /\ result' = result
         \/ /\ t \notin Sync /\ t \in Jobs /\ spc[t] = "next"
            /\ spc' = [spc EXCEPT ![t] = "end"] /\ result' = [result EXCEPT ![t] = "ok"]
      /\ UNCHANGED <<todo, jobCount, running, page, core, prio, done, fence, refs, imports,
                     held, owns>>
      /\ UNCHANGED <<ijob, hw, irq, hung, executed, dropped, seized, lost, power,
                     inFence>>
      /\ UNCHANGED victim
  <2>1. Continue(t) /\ njob[t] \in Jobs /\ npc[t] = "ret"
       /\ failed' = [failed EXCEPT ![njob[t]] = FALSE] /\ undefined' \in BOOLEAN
       /\ npc' = [npc EXCEPT ![t] = "off"] /\ njob' = [njob EXCEPT ![t] = None]
       /\ UNCHANGED <<todo, jobCount, running, page, core, prio, done, fence, refs, imports,
                      held, owns>>
       /\ UNCHANGED <<hw, irq, hung, executed, dropped, seized, lost, power, inFence>>
       /\ UNCHANGED victim
    BY DEF Return, Set, sched, mm, hard, Sound, Locals, Runners
  <2>2. t \in Jobs => spc[t] = "next"
    BY DEF Sound, Locals, Runners, Return
  <2>3. CASE t \in Cores
    <3>1. ipc' = [ipc EXCEPT ![t] = "power"] /\ UNCHANGED <<spc, result, ijob>>
      BY <2>1, <2>3 DEF Continue, Set
    <3> QED BY <2>1, <2>3, <3>1
  <2>4. CASE t \notin Cores
    <3>1. t \in Jobs /\ spc[t] = "next"
      BY <2>2, <2>4 DEF Threads
    <3>2. CASE t \in Sync
      <4>1. spc' = [spc EXCEPT ![t] = "ret"] /\ UNCHANGED <<ipc, ijob, result>>
        BY <2>1, <2>4, <3>2 DEF Continue, irqt, Set
      <4> QED BY <2>1, <3>1, <4>1, <3>2
    <3>3. CASE t \notin Sync
      <4>1. /\ spc' = [spc EXCEPT ![t] = "end"] /\ result' = [result EXCEPT ![t] = "ok"]
            /\ UNCHANGED <<ipc, ijob>>
        BY <2>1, <2>4, <3>3 DEF Continue, irqt, Set
      <4> QED BY <2>1, <3>1, <4>1, <3>3
    <3> QED BY <3>2, <3>3
  <2> QED BY <2>3, <2>4
<1>2. TypeOK'
  <2>1. /\ failed \in [Jobs -> BOOLEAN]
        /\ npc \in [Threads -> {"off", "loop", "run", "ret", "failret", "fail", "put"}]
        /\ njob \in [Threads -> Jobs \cup {None}]
        /\ ipc \in [Cores -> {"idle", "enter", "took", "flagged", "next", "power"}]
        /\ spc \in [Jobs -> {"new", "check_fence", "add_callback", "callback", "assign",
                             "clean", "reset", "put", "insert", "next", "ret", "wait",
                             "timeout", "abort", "end"}]
        /\ result \in [Jobs -> {"none", "ok", "error"}]
    BY DEF TypeOK
  <2>2. /\ failed' \in [Jobs -> BOOLEAN]
        /\ npc' \in [Threads -> {"off", "loop", "run", "ret", "failret", "fail", "put"}]
        /\ njob' \in [Threads -> Jobs \cup {None}]
        /\ ipc' \in [Cores -> {"idle", "enter", "took", "flagged", "next", "power"}]
        /\ spc' \in [Jobs -> {"new", "check_fence", "add_callback", "callback", "assign",
                             "clean", "reset", "put", "insert", "next", "ret", "wait",
                             "timeout", "abort", "end"}]
        /\ result' \in [Jobs -> {"none", "ok", "error"}]
    <3>1. failed' \in [Jobs -> BOOLEAN]
      BY <1>1, <2>1
    <3>2. /\ npc' \in [Threads -> {"off", "loop", "run", "ret", "failret", "fail", "put"}]
          /\ njob' \in [Threads -> Jobs \cup {None}]
          /\ ipc' \in [Cores -> {"idle", "enter", "took", "flagged", "next", "power"}]
      BY <1>1, <2>1, RgaAssumption
    <3>3. /\ spc' \in [Jobs -> {"new", "check_fence", "add_callback", "callback", "assign",
                               "clean", "reset", "put", "insert", "next", "ret", "wait",
                               "timeout", "abort", "end"}]
          /\ result' \in [Jobs -> {"none", "ok", "error"}]
      <4>1. CASE UNCHANGED <<spc, result>>
        BY <2>1, <4>1
      <4>2. CASE /\ spc' = [spc EXCEPT ![t] = "ret"] /\ result' = result
        BY <2>1, <4>2
      <4>3. CASE /\ spc' = [spc EXCEPT ![t] = "end"] /\ result' = [result EXCEPT ![t] = "ok"]
        BY <2>1, <4>3
      <4> QED BY <1>1, <4>1, <4>2, <4>3
    <3> QED BY <3>1, <3>2, <3>3
  <2> QED BY <1>1, <2>2 DEF TypeOK
<1> SUFFICES ASSUME ~undefined' PROVE Sound'
    BY <1>2
<1>3. Queues'
    BY <1>1 DEF TypeOK, Sound, Queues
<1>5. InLists'
  <2>1. \A k \in Sync : result'[k] = result[k]
    BY <1>1, RgaAssumption DEF TypeOK
  <2> QED BY <1>1, <2>1, KeepInLists, RgaAssumption DEF TypeOK, Sound
<1>6. Before'
  <2>1. \A k \in Jobs : spc'[k] \in Uncommitted =>
            /\ spc[k] \in Uncommitted /\ held'[k] = held[k] /\ done'[k] = done[k]
            /\ spc'[k] # "new" => page'[k] = "live"
    BY <1>1 DEF TypeOK, Sound, Before, Uncommitted
  <2> QED BY <1>1, <2>1, KeepBefore, RgaAssumption DEF TypeOK, Sound
<1>7. Locals'
  <2>1. Runners'
    BY <1>1 DEF TypeOK, Sound, Locals, Runners, Threads, At
  <2>2. Apart'
    BY <1>1 DEF TypeOK, Sound, Locals, Apart
  <2>3. Committers'
    BY <1>1 DEF TypeOK, Sound, Locals, Committers, Assigned
  <2>4. Enders'
    BY <1>1 DEF TypeOK, Sound, Locals, Enders
  <2> QED BY <2>1, <2>2, <2>3, <2>4 DEF Locals
<1>8. Gone'
    BY <1>1, KeepGone, RgaAssumption DEF TypeOK, Sound, Locals, Runners
<1> QED BY <1>3, <1>5, <1>6, <1>7, <1>8 DEF Sound

\* rga_job_next after a failure.
LEMMA StepFailReturn ==
    ASSUME TypeOK, Sound, ~undefined, NEW t \in Threads, FailReturn(t)
    PROVE  TypeOK' /\ (~undefined' => Sound')
<1>1. /\ npc[t] = "failret" /\ npc' = [npc EXCEPT ![t] = "fail"]
      /\ failed' = [failed EXCEPT ![njob[t]] = TRUE] /\ undefined' \in BOOLEAN
      /\ UNCHANGED <<todo, jobCount, running, power, page, core, prio, done, fence, inFence,
                     held, owns, refs>>
      /\ UNCHANGED <<imports, njob, ipc, ijob, hw, irq, hung, executed, dropped, seized, lost>>
      /\ UNCHANGED <<spc, result, victim>>
    BY DEF FailReturn, Failure, sched, mm, irqt, hard, Set
<1>2. TypeOK'
  <2>1. /\ failed \in [Jobs -> BOOLEAN]
        /\ npc \in [Threads -> {"off", "loop", "run", "ret", "failret", "fail", "put"}]
    BY DEF TypeOK
  <2>2. /\ failed' \in [Jobs -> BOOLEAN]
        /\ npc' \in [Threads -> {"off", "loop", "run", "ret", "failret", "fail", "put"}]
    BY <1>1, <2>1, RgaAssumption
  <2> QED BY <1>1, <2>2 DEF TypeOK
<1> SUFFICES ASSUME ~undefined' PROVE Sound'
    BY <1>2
<1>3. Queues'
    BY <1>1 DEF TypeOK, Sound, Queues
<1>5. InLists'
    BY <1>1, KeepInLists, RgaAssumption DEF TypeOK, Sound
<1>6. Before'
  <2>1. \A k \in Jobs : spc'[k] \in Uncommitted =>
            /\ spc[k] \in Uncommitted /\ held'[k] = held[k] /\ done'[k] = done[k]
            /\ spc'[k] # "new" => page'[k] = "live"
    BY <1>1 DEF TypeOK, Sound, Before, Uncommitted
  <2> QED BY <1>1, <2>1, KeepBefore, RgaAssumption DEF TypeOK, Sound
<1>7. Locals'
  <2>1. Runners'
    BY <1>1 DEF TypeOK, Sound, Locals, Runners, Threads, At
  <2>2. Apart'
    BY <1>1 DEF TypeOK, Sound, Locals, Apart
  <2>3. Committers'
    BY <1>1 DEF TypeOK, Sound, Locals, Committers, Assigned
  <2>4. Enders'
    BY <1>1 DEF TypeOK, Sound, Locals, Enders
  <2> QED BY <2>1, <2>2, <2>3, <2>4 DEF Locals
<1>8. Gone'
    BY <1>1, KeepGone, RgaAssumption DEF TypeOK, Sound, Locals, Runners
<1> QED BY <1>3, <1>5, <1>6, <1>7, <1>8 DEF Sound

\* rga_job_next after a failure: running_job is cleared.
LEMMA StepFailClear ==
    ASSUME TypeOK, Sound, ~undefined, NEW t \in Threads, FailClear(t)
    PROVE  TypeOK' /\ (~undefined' => Sound')
<1>1. /\ At(t) \in Cores /\ npc[t] = "fail"
      /\ running' = [running EXCEPT ![At(t)] = None] /\ npc' = [npc EXCEPT ![t] = "put"]
      /\ UNCHANGED <<todo, jobCount, page, core, prio, done, failed, fence, refs, imports,
                     held, owns, njob>>
      /\ UNCHANGED <<ipc, ijob, hw, irq, hung, executed, dropped, seized, lost, undefined>>
      /\ UNCHANGED <<power, inFence, spc, result, victim>>
    BY HasCore DEF FailClear, job, mm, irqt, hard, hist, Set
<1>2. TypeOK'
  <2>1. /\ running \in [Cores -> Jobs \cup {None}]
        /\ npc \in [Threads -> {"off", "loop", "run", "ret", "failret", "fail", "put"}]
    BY DEF TypeOK
  <2>2. /\ running' \in [Cores -> Jobs \cup {None}]
        /\ npc' \in [Threads -> {"off", "loop", "run", "ret", "failret", "fail", "put"}]
    BY <1>1, <2>1, RgaAssumption
  <2> QED BY <1>1, <2>2 DEF TypeOK
<1> SUFFICES ASSUME ~undefined' PROVE Sound'
    BY <1>2
<1>3. Queues'
    BY <1>1 DEF TypeOK, Sound, Queues
<1>5. InLists'
    BY <1>1, KeepInLists, RgaAssumption DEF TypeOK, Sound
<1>6. Before'
  <2>1. \A k \in Jobs : spc'[k] \in Uncommitted =>
            /\ spc[k] \in Uncommitted /\ held'[k] = held[k] /\ done'[k] = done[k]
            /\ spc'[k] # "new" => page'[k] = "live"
    BY <1>1 DEF TypeOK, Sound, Before, Uncommitted
  <2> QED BY <1>1, <2>1, KeepBefore, RgaAssumption DEF TypeOK, Sound
<1>7. Locals'
  <2>1. Runners'
    BY <1>1 DEF TypeOK, Sound, Locals, Runners, Threads, At
  <2>2. Apart'
    BY <1>1 DEF TypeOK, Sound, Locals, Apart
  <2>3. Committers'
    BY <1>1 DEF TypeOK, Sound, Locals, Committers, Assigned
  <2>4. Enders'
    BY <1>1 DEF TypeOK, Sound, Locals, Enders
  <2> QED BY <2>1, <2>2, <2>3, <2>4 DEF Locals
<1>8. Gone'
  <2>1. /\ \A u \in Threads \ {t} : npc'[u] = npc[u]
        /\ running'[At(t)] = None /\ \A d \in Cores \ {At(t)} : running'[d] = running[d]
        /\ UNCHANGED <<todo, victim, ijob, njob, done>>
    BY <1>1 DEF TypeOK
  <2>2. \A k \in Jobs : Nowhere(k) => Nowhere(k)'
    BY <1>1, <2>1, KeepNowhere, RgaAssumption DEF TypeOK
  <2>3. njob[t] \in Jobs /\ core[njob[t]] = At(t)
    BY <1>1 DEF Sound, Locals, Runners
  <2>4. Nowhere(njob[t])'
    <3>1. \A d \in Cores : ~ InQueue(njob[t], d) /\ (d # At(t) => running[d] # njob[t])
      BY <2>3 DEF Sound, InLists
    <3> QED BY <1>1, <2>1, <2>3, <3>1, SameLists, RgaAssumption DEF Nowhere
  <2>5. \A u \in Threads : npc'[u] = "put" => Nowhere(njob[u])'
    BY <2>1, <2>2, <2>4 DEF Sound, Gone, Locals, Runners
  <2> QED BY <2>1, <2>2, <2>5 DEF Sound, Gone
<1> QED BY <1>3, <1>5, <1>6, <1>7, <1>8 DEF Sound

\* rga_job_next after a failure: buffers are put, an asynchronous job is freed.
LEMMA StepFailPut ==
    ASSUME TypeOK, Sound, ~undefined, NEW t \in Threads, FailPut(t)
    PROVE  TypeOK' /\ (~undefined' => Sound')
<1>1. /\ njob[t] \in Jobs /\ npc[t] = "put"
      /\ njob' = [njob EXCEPT ![t] = None] /\ npc' = [npc EXCEPT ![t] = "loop"]
      /\ page' \in {page, [page EXCEPT ![njob[t]] = "freed"]} /\ undefined' \in BOOLEAN
      /\ done' \in {done, [done EXCEPT ![njob[t]] = TRUE]}
      /\ fence' \in {fence, [fence EXCEPT ![njob[t]] = "signaled"]}
      /\ owns' = [owns EXCEPT ![njob[t]] = 0] /\ held' = held /\ refs' \in [Handles -> Int]
      /\ UNCHANGED <<todo, jobCount, running, power, core, prio, failed, inFence, imports,
                     ipc, ijob, hw>>
      /\ UNCHANGED <<irq, hung, executed, dropped, seized, lost, spc, result, victim>>
  <2>1. njob[t] \in Jobs /\ npc[t] = "put" /\ PutHandles(njob[t])
    BY DEF Sound, Locals, Runners, FailPut
  <2>2. /\ owns' = [owns EXCEPT ![njob[t]] = 0] /\ held' = held /\ refs' \in [Handles -> Int]
        /\ imports' = imports
    BY <2>1, Gave, Zenon
  <2>3. CASE njob[t] \in Async
    BY <2>1, <2>2, <2>3 DEF FailPut, Signal, Free, sched, irqt, hard, Set
  <2>4. CASE njob[t] \notin Async
    BY <2>1, <2>2, <2>4 DEF FailPut, Signal, sched, irqt, hard, Set
  <2> QED BY <2>3, <2>4
<1>2. TypeOK'
  <2>1. /\ page \in [Jobs -> {"none", "live", "freed"}]
        /\ undefined \in BOOLEAN
        /\ fence \in [Jobs -> {"none", "pending", "signaled"}]
        /\ done \in [Jobs -> BOOLEAN]
        /\ held \in [Jobs -> 0..2] /\ owns \in [Jobs -> 0..2]
        /\ refs \in [Handles -> Int]
        /\ npc \in [Threads -> {"off", "loop", "run", "ret", "failret", "fail", "put"}]
        /\ njob \in [Threads -> Jobs \cup {None}]
    BY DEF TypeOK
  <2>2. page' \in [Jobs -> {"none", "live", "freed"}]
    BY <1>1, <2>1, RgaAssumption
  <2>3. undefined' \in BOOLEAN
    BY <1>1, <2>1, RgaAssumption
  <2>4. fence' \in [Jobs -> {"none", "pending", "signaled"}]
    BY <1>1, <2>1, RgaAssumption
  <2>5. done' \in [Jobs -> BOOLEAN]
    BY <1>1, <2>1, RgaAssumption
  <2>6. held' \in [Jobs -> 0..2] /\ owns' \in [Jobs -> 0..2]
    BY <1>1, <2>1, RgaAssumption
  <2>7. refs' \in [Handles -> Int]
    BY <1>1, <2>1, RgaAssumption
  <2>8. npc' \in [Threads -> {"off", "loop", "run", "ret", "failret", "fail", "put"}]
    BY <1>1, <2>1, RgaAssumption
  <2>9. njob' \in [Threads -> Jobs \cup {None}]
    BY <1>1, <2>1, RgaAssumption
  <2> QED BY <1>1, <2>2, <2>3, <2>4, <2>5, <2>6, <2>7, <2>8, <2>9 DEF TypeOK
<1> SUFFICES ASSUME ~undefined' PROVE Sound'
    BY <1>2
<1>3. Queues'
    BY <1>1 DEF TypeOK, Sound, Queues
<1>5. InLists'
  <2>1. PICK x \in Jobs : x = njob[t]
    BY <1>1
  <2>2. \A d \in Cores : running[d] # x /\ ~ InQueue(x, d)
    BY <1>1, <2>1 DEF Sound, Gone, Nowhere
  <2>3. \A k \in Jobs, d \in Cores : running'[d] = k => page'[k] = page[k] /\ core'[k] = core[k]
    BY <1>1, <2>1, <2>2 DEF TypeOK
  <2>4. \A k \in Jobs, d \in Cores : InQueue(k, d) =>
            page'[k] = page[k] /\ core'[k] = core[k] /\ held'[k] = held[k] /\ result'[k] = result[k]
    BY <1>1, <2>1, <2>2 DEF TypeOK
  <2>5. /\ \A d \in Cores : running'[d] \in {running[d], None}
        /\ \A u \in Threads : njob'[u] \in {njob[u], None}
        /\ UNCHANGED todo /\ InLists /\ None \notin Jobs
    BY <1>1, RgaAssumption DEF TypeOK, Sound
  <2> QED BY <2>3, <2>4, <2>5, KeepInLists, Zenon
<1>6. Before'
  <2>1. PICK x \in Jobs : x = njob[t]
    BY <1>1
  <2>2. \A k \in Jobs : spc'[k] \in Uncommitted => spc[k] \in Uncommitted /\ k # x
    BY <1>1, <2>1 DEF TypeOK, Sound, Before, Uncommitted
  <2>3. \A k \in Jobs : k # x => page'[k] = page[k] /\ held'[k] = held[k] /\ done'[k] = done[k]
    BY <1>1, <2>1 DEF TypeOK
  <2>4. \A k \in Jobs : spc'[k] \in Uncommitted =>
            /\ spc[k] \in Uncommitted /\ held'[k] = held[k] /\ done'[k] = done[k]
            /\ spc'[k] # "new" => page'[k] = "live"
    BY <1>1, <2>2, <2>3 DEF TypeOK, Sound, Before, Uncommitted
  <2>5. /\ Before /\ None \notin Jobs /\ UNCHANGED todo
        /\ \A d \in Cores : running'[d] \in {running[d], None}
        /\ \A u \in Threads : njob'[u] \in {njob[u], None}
        /\ \A d \in Cores : ijob'[d] \in {ijob[d], None, running[d]}
        /\ \A i \in Jobs : victim'[i] \in {victim[i], None}
    BY <1>1, RgaAssumption DEF TypeOK, Sound
  <2> QED BY <2>4, <2>5, KeepBefore, Zenon
<1>7. Locals'
  <2>1. Runners'
    BY <1>1 DEF TypeOK, Sound, Locals, Runners, Threads, At
  <2>2. Apart'
    BY <1>1 DEF TypeOK, Sound, Locals, Apart
  <2>3. Committers'
    BY <1>1 DEF TypeOK, Sound, Locals, Committers, Assigned
  <2>4. Enders'
    BY <1>1 DEF TypeOK, Sound, Locals, Enders
  <2> QED BY <2>1, <2>2, <2>3, <2>4 DEF Locals
<1>8. Gone'
  <2>1. PICK x \in Jobs : x = njob[t]
    BY <1>1
  <2>2. /\ npc'[t] = "loop" /\ \A u \in Threads \ {t} : npc'[u] = npc[u] /\ njob'[u] = njob[u]
        /\ \A k \in Jobs : done'[k] => done[k] \/ k = x
        /\ UNCHANGED <<todo, running, ijob, victim>>
    BY <1>1, <2>1 DEF TypeOK
  <2>3. \A k \in Jobs : Nowhere(k) => Nowhere(k)'
    BY <2>2, KeepNowhere, RgaAssumption
  <2>4. Nowhere(x)
    BY <1>1, <2>1 DEF Sound, Gone
  <2>5. \A u \in Threads : npc'[u] = "put" => Nowhere(njob[u])' /\ njob'[u] = njob[u]
    BY <2>2, <2>3 DEF Sound, Gone, Locals, Runners
  <2> QED BY <2>2, <2>3, <2>4, <2>5 DEF Sound, Gone
<1> QED BY <1>3, <1>5, <1>6, <1>7, <1>8 DEF Sound

\* rga_job_commit: job->ret is read.
LEMMA StepReadRet ==
    ASSUME TypeOK, Sound, ~undefined, NEW j \in Jobs, ReadRet(j)
    PROVE  TypeOK' /\ (~undefined' => Sound')
<1>1. /\ core[j] \in Cores /\ spc[j] = "ret"
      /\ spc' \in {[spc EXCEPT ![j] = "abort"], [spc EXCEPT ![j] = "wait"]}
      /\ UNCHANGED <<todo, jobCount, running, power, page, core, prio, done, failed, fence,
                     inFence, held, owns>>
      /\ UNCHANGED <<refs, imports, npc, njob, ipc, ijob, hw, irq, hung, executed, dropped,
                     seized>>
      /\ UNCHANGED <<lost, undefined, result, victim>>
    BY HasCore DEF Assigned, ReadRet, Waiting, sched, job, mm, next, irqt, hard, Set
<1>2. TypeOK'
  <2>1. /\ spc \in [Jobs -> {"new", "check_fence", "add_callback", "callback", "assign",
                             "clean", "reset", "put", "insert", "next", "ret", "wait",
                             "timeout", "abort", "end"}]
    BY DEF TypeOK
  <2>2. /\ spc' \in [Jobs -> {"new", "check_fence", "add_callback", "callback", "assign",
                             "clean", "reset", "put", "insert", "next", "ret", "wait",
                             "timeout", "abort", "end"}]
    BY <1>1, <2>1, RgaAssumption
  <2> QED BY <1>1, <2>2 DEF TypeOK
<1> SUFFICES ASSUME ~undefined' PROVE Sound'
    BY <1>2
<1>3. Queues'
    BY <1>1 DEF TypeOK, Sound, Queues
<1>5. InLists'
    BY <1>1, KeepInLists, RgaAssumption DEF TypeOK, Sound
<1>6. Before'
  <2>1. \A k \in Jobs : spc'[k] \in Uncommitted =>
            /\ spc[k] \in Uncommitted /\ held'[k] = held[k] /\ done'[k] = done[k]
            /\ spc'[k] # "new" => page'[k] = "live"
    BY <1>1 DEF TypeOK, Sound, Before, Uncommitted
  <2> QED BY <1>1, <2>1, KeepBefore, RgaAssumption DEF TypeOK, Sound
<1>7. Locals'
  <2>1. Runners'
    BY <1>1 DEF TypeOK, Sound, Locals, Runners, Threads, At
  <2>2. Apart'
    BY <1>1 DEF TypeOK, Sound, Locals, Apart
  <2>3. Committers'
    BY <1>1 DEF TypeOK, Sound, Locals, Committers, Assigned
  <2>4. Enders'
    BY <1>1 DEF TypeOK, Sound, Locals, Enders
  <2> QED BY <2>1, <2>2, <2>3, <2>4 DEF Locals
<1>8. Gone'
    BY <1>1, KeepGone, RgaAssumption DEF TypeOK, Sound, Locals, Runners
<1> QED BY <1>3, <1>5, <1>6, <1>7, <1>8 DEF Sound

\* rga_job_wait: the time is over.
LEMMA StepWaitTimeout ==
    ASSUME TypeOK, Sound, ~undefined, NEW j \in Jobs, WaitTimeout(j)
    PROVE  TypeOK' /\ (~undefined' => Sound')
<1>1. /\ core[j] \in Cores /\ spc[j] = "wait"
      /\ spc' = [spc EXCEPT ![j] = "timeout"]
      /\ UNCHANGED <<todo, jobCount, running, power, page, core, prio, done, failed, fence,
                     inFence, held, owns>>
      /\ UNCHANGED <<refs, imports, npc, njob, ipc, ijob, hw, irq, hung, executed, dropped,
                     seized>>
      /\ UNCHANGED <<lost, undefined, result, victim>>
    BY HasCore DEF Assigned, WaitTimeout, Waiting, sched, job, mm, next, irqt, hard, Set
<1>2. TypeOK'
  <2>1. /\ spc \in [Jobs -> {"new", "check_fence", "add_callback", "callback", "assign",
                             "clean", "reset", "put", "insert", "next", "ret", "wait",
                             "timeout", "abort", "end"}]
    BY DEF TypeOK
  <2>2. /\ spc' \in [Jobs -> {"new", "check_fence", "add_callback", "callback", "assign",
                             "clean", "reset", "put", "insert", "next", "ret", "wait",
                             "timeout", "abort", "end"}]
    BY <1>1, <2>1, RgaAssumption
  <2> QED BY <1>1, <2>2 DEF TypeOK
<1> SUFFICES ASSUME ~undefined' PROVE Sound'
    BY <1>2
<1>3. Queues'
    BY <1>1 DEF TypeOK, Sound, Queues
<1>5. InLists'
    BY <1>1, KeepInLists, RgaAssumption DEF TypeOK, Sound
<1>6. Before'
  <2>1. \A k \in Jobs : spc'[k] \in Uncommitted =>
            /\ spc[k] \in Uncommitted /\ held'[k] = held[k] /\ done'[k] = done[k]
            /\ spc'[k] # "new" => page'[k] = "live"
    BY <1>1 DEF TypeOK, Sound, Before, Uncommitted
  <2> QED BY <1>1, <2>1, KeepBefore, RgaAssumption DEF TypeOK, Sound
<1>7. Locals'
  <2>1. Runners'
    BY <1>1 DEF TypeOK, Sound, Locals, Runners, Threads, At
  <2>2. Apart'
    BY <1>1 DEF TypeOK, Sound, Locals, Apart
  <2>3. Committers'
    BY <1>1 DEF TypeOK, Sound, Locals, Committers, Assigned
  <2>4. Enders'
    BY <1>1 DEF TypeOK, Sound, Locals, Enders
  <2> QED BY <2>1, <2>2, <2>3, <2>4 DEF Locals
<1>8. Gone'
    BY <1>1, KeepGone, RgaAssumption DEF TypeOK, Sound, Locals, Runners
<1> QED BY <1>3, <1>5, <1>6, <1>7, <1>8 DEF Sound

\* rga_job_wait: soft_reset.
LEMMA StepTimeoutReset ==
    ASSUME TypeOK, Sound, ~undefined, NEW j \in Jobs, TimeoutReset(j)
    PROVE  TypeOK' /\ (~undefined' => Sound')
<1>1. /\ core[j] \in Cores /\ spc[j] = "timeout" /\ spc' = [spc EXCEPT ![j] = "abort"]
      /\ hw' = [hw EXCEPT ![core[j]] = None] /\ hung' = [hung EXCEPT ![core[j]] = FALSE]
      /\ lost' = lost \cup ({hw[core[j]]} \ {None})
      /\ UNCHANGED <<todo, jobCount, running, page, core, prio, done, failed, fence, refs,
                     imports>>
      /\ UNCHANGED <<held, owns, npc, njob, ipc, ijob, irq, executed, dropped, seized, undefined>>
      /\ UNCHANGED <<power, inFence, result, victim>>
    BY HasCore DEF Assigned, TimeoutReset, Waiting, Reset, sched, job, mm, next, irqt, Set
<1>2. TypeOK'
  <2>1. /\ hw \in [Cores -> Jobs \cup {None}]
        /\ hung \in [Cores -> BOOLEAN]
        /\ lost \in SUBSET Jobs
        /\ spc \in [Jobs -> {"new", "check_fence", "add_callback", "callback", "assign",
                             "clean", "reset", "put", "insert", "next", "ret", "wait",
                             "timeout", "abort", "end"}]
    BY DEF TypeOK
  <2>2. /\ hw' \in [Cores -> Jobs \cup {None}]
        /\ hung' \in [Cores -> BOOLEAN]
        /\ lost' \in SUBSET Jobs
        /\ spc' \in [Jobs -> {"new", "check_fence", "add_callback", "callback", "assign",
                             "clean", "reset", "put", "insert", "next", "ret", "wait",
                             "timeout", "abort", "end"}]
    BY <1>1, <2>1, RgaAssumption
  <2> QED BY <1>1, <2>2 DEF TypeOK
<1> SUFFICES ASSUME ~undefined' PROVE Sound'
    BY <1>2
<1>3. Queues'
    BY <1>1 DEF TypeOK, Sound, Queues
<1>5. InLists'
    BY <1>1, KeepInLists, RgaAssumption DEF TypeOK, Sound
<1>6. Before'
  <2>1. \A k \in Jobs : spc'[k] \in Uncommitted =>
            /\ spc[k] \in Uncommitted /\ held'[k] = held[k] /\ done'[k] = done[k]
            /\ spc'[k] # "new" => page'[k] = "live"
    BY <1>1 DEF TypeOK, Sound, Before, Uncommitted
  <2> QED BY <1>1, <2>1, KeepBefore, RgaAssumption DEF TypeOK, Sound
<1>7. Locals'
  <2>1. Runners'
    BY <1>1 DEF TypeOK, Sound, Locals, Runners, Threads, At
  <2>2. Apart'
    BY <1>1 DEF TypeOK, Sound, Locals, Apart
  <2>3. Committers'
    BY <1>1 DEF TypeOK, Sound, Locals, Committers, Assigned
  <2>4. Enders'
    BY <1>1 DEF TypeOK, Sound, Locals, Enders
  <2> QED BY <2>1, <2>2, <2>3, <2>4 DEF Locals
<1>8. Gone'
    BY <1>1, KeepGone, RgaAssumption DEF TypeOK, Sound, Locals, Runners
<1> QED BY <1>3, <1>5, <1>6, <1>7, <1>8 DEF Sound

\* rga_job_wait: a signal.
LEMMA StepWaitSignal ==
    ASSUME TypeOK, Sound, ~undefined, NEW j \in Jobs, WaitSignal(j)
    PROVE  TypeOK' /\ (~undefined' => Sound')
<1>1. /\ core[j] \in Cores /\ spc[j] = "wait"
      /\ spc' = [spc EXCEPT ![j] = "abort"]
      /\ UNCHANGED <<todo, jobCount, running, power, page, core, prio, done, failed, fence,
                     inFence, held, owns>>
      /\ UNCHANGED <<refs, imports, npc, njob, ipc, ijob, hw, irq, hung, executed, dropped,
                     seized>>
      /\ UNCHANGED <<lost, undefined, result, victim>>
    BY HasCore DEF Assigned, WaitSignal, Waiting, sched, job, mm, next, irqt, hard, Set
<1>2. TypeOK'
  <2>1. /\ spc \in [Jobs -> {"new", "check_fence", "add_callback", "callback", "assign",
                             "clean", "reset", "put", "insert", "next", "ret", "wait",
                             "timeout", "abort", "end"}]
    BY DEF TypeOK
  <2>2. /\ spc' \in [Jobs -> {"new", "check_fence", "add_callback", "callback", "assign",
                             "clean", "reset", "put", "insert", "next", "ret", "wait",
                             "timeout", "abort", "end"}]
    BY <1>1, <2>1, RgaAssumption
  <2> QED BY <1>1, <2>2 DEF TypeOK
<1> SUFFICES ASSUME ~undefined' PROVE Sound'
    BY <1>2
<1>3. Queues'
    BY <1>1 DEF TypeOK, Sound, Queues
<1>5. InLists'
    BY <1>1, KeepInLists, RgaAssumption DEF TypeOK, Sound
<1>6. Before'
  <2>1. \A k \in Jobs : spc'[k] \in Uncommitted =>
            /\ spc[k] \in Uncommitted /\ held'[k] = held[k] /\ done'[k] = done[k]
            /\ spc'[k] # "new" => page'[k] = "live"
    BY <1>1 DEF TypeOK, Sound, Before, Uncommitted
  <2> QED BY <1>1, <2>1, KeepBefore, RgaAssumption DEF TypeOK, Sound
<1>7. Locals'
  <2>1. Runners'
    BY <1>1 DEF TypeOK, Sound, Locals, Runners, Threads, At
  <2>2. Apart'
    BY <1>1 DEF TypeOK, Sound, Locals, Apart
  <2>3. Committers'
    BY <1>1 DEF TypeOK, Sound, Locals, Committers, Assigned
  <2>4. Enders'
    BY <1>1 DEF TypeOK, Sound, Locals, Enders
  <2> QED BY <2>1, <2>2, <2>3, <2>4 DEF Locals
<1>8. Gone'
    BY <1>1, KeepGone, RgaAssumption DEF TypeOK, Sound, Locals, Runners
<1> QED BY <1>3, <1>5, <1>6, <1>7, <1>8 DEF Sound

\* rga_job_commit frees a job that is done: it is in no list, or the step is undefined.
LEMMA StepWaitDone ==
    ASSUME TypeOK, Sound, ~undefined, NEW j \in Jobs, WaitDone(j)
    PROVE  TypeOK' /\ (~undefined' => Sound')
<1>1. /\ spc[j] = "wait" /\ spc' = [spc EXCEPT ![j] = "end"]
      /\ result' = [result EXCEPT ![j] = "ok"] /\ page' = [page EXCEPT ![j] = "freed"]
      /\ undefined' = undefined /\ done[j]
      /\ UNCHANGED <<todo, jobCount, running, core, prio, done, failed, fence, refs, imports,
                     held, owns>>
      /\ UNCHANGED <<npc, njob, ipc, ijob, hw, irq, hung, executed, dropped, seized, lost>>
      /\ UNCHANGED <<power, inFence, victim>>
    BY DEF WaitDone, Free, sched, mm, next, irqt, hard, hist, Set
<1>2. TypeOK'
    BY <1>1 DEF TypeOK
<1> SUFFICES ASSUME ~undefined' PROVE Sound'
    BY <1>2
<1>3. Queues'
    BY <1>1 DEF TypeOK, Sound, Queues
<1>5. InLists'
  <2>1. \A d \in Cores : running'[d] # j /\ ~ InQueue(j, d)
    BY <1>1 DEF Sound, Gone, Nowhere
  <2> QED BY <1>1, <2>1, KeepInLists, RgaAssumption DEF TypeOK, Sound
<1>6. Before'
  <2>1. \A k \in Jobs : spc'[k] \in Uncommitted =>
            /\ spc[k] \in Uncommitted /\ held'[k] = held[k] /\ done'[k] = done[k]
            /\ spc'[k] # "new" => page'[k] = "live"
    BY <1>1 DEF TypeOK, Sound, Before, Uncommitted
  <2> QED BY <1>1, <2>1, KeepBefore, RgaAssumption DEF TypeOK, Sound
<1>7. Locals'
  <2>1. Runners'
    BY <1>1 DEF TypeOK, Sound, Locals, Runners, Threads, At
  <2>2. Apart'
    BY <1>1 DEF TypeOK, Sound, Locals, Apart
  <2>3. Committers'
    BY <1>1 DEF TypeOK, Sound, Locals, Committers, Assigned
  <2>4. Enders'
    BY <1>1 DEF TypeOK, Sound, Locals, Enders
  <2> QED BY <2>1, <2>2, <2>3, <2>4 DEF Locals
<1>8. Gone'
    BY <1>1, KeepGone, RgaAssumption DEF TypeOK, Sound, Locals, Runners
<1> QED BY <1>3, <1>5, <1>6, <1>7, <1>8 DEF Sound

\* rga_running_job_abort frees a job that is not in running_job any more.
LEMMA StepAbort ==
    ASSUME TypeOK, Sound, ~undefined, NEW j \in Jobs, Abort(j)
    PROVE  TypeOK' /\ (~undefined' => Sound')
<1>1. /\ core[j] \in Cores /\ spc[j] = "abort" /\ spc' = [spc EXCEPT ![j] = "end"]
      /\ result' = [result EXCEPT ![j] = "error"] /\ page' = [page EXCEPT ![j] = "freed"]
      /\ running' = running \/ running' = [running EXCEPT ![core[j]] = None]
      /\ seized' \in [Cores -> SUBSET {"caller", "timeout"}]
      /\ undefined' = undefined /\ running'[core[j]] # j /\ j \in Sync
      /\ UNCHANGED <<todo, jobCount, core, prio, done, failed, fence, refs, imports, held, owns>>
      /\ UNCHANGED <<npc, njob, ipc, ijob, hw, irq, hung, executed, dropped, lost>>
      /\ UNCHANGED <<power, inFence, victim>>
  <2>1. core[j] \in Cores /\ spc[j] = "abort" /\ j \in Sync
    BY HasCore DEF Abort, Assigned, Sound, Locals, Committers
  <2>2. seized' \in [Cores -> SUBSET {"caller", "timeout"}]
    <3>1. seized \in [Cores -> SUBSET {"caller", "timeout"}]
      BY DEF TypeOK
    <3>2. seized' = seized \/ seized' = [seized EXCEPT ![core[j]] = seized[core[j]] \cup {"caller"}]
      BY DEF Abort, Seize, Set
    <3> QED BY <2>1, <3>1, <3>2
  <2>3. running'[core[j]] # j
    BY <2>1, RgaAssumption DEF Abort, Set, TypeOK
  <2> QED BY <2>1, <2>2, <2>3 DEF Abort, Free, mm, next, irqt, hard, Set
<1>2. TypeOK'
  <2>1. /\ running \in [Cores -> Jobs \cup {None}]
        /\ seized \in [Cores -> SUBSET {"caller", "timeout"}]
        /\ page \in [Jobs -> {"none", "live", "freed"}]
        /\ spc \in [Jobs -> {"new", "check_fence", "add_callback", "callback", "assign",
                             "clean", "reset", "put", "insert", "next", "ret", "wait",
                             "timeout", "abort", "end"}]
        /\ result \in [Jobs -> {"none", "ok", "error"}]
    BY DEF TypeOK
  <2>2. /\ running' \in [Cores -> Jobs \cup {None}]
        /\ seized' \in [Cores -> SUBSET {"caller", "timeout"}]
        /\ page' \in [Jobs -> {"none", "live", "freed"}]
        /\ spc' \in [Jobs -> {"new", "check_fence", "add_callback", "callback", "assign",
                             "clean", "reset", "put", "insert", "next", "ret", "wait",
                             "timeout", "abort", "end"}]
        /\ result' \in [Jobs -> {"none", "ok", "error"}]
    BY <1>1, <2>1, RgaAssumption
  <2> QED BY <1>1, <2>2 DEF TypeOK
<1> SUFFICES ASSUME ~undefined' PROVE Sound'
    BY <1>2
<1>3. Queues'
    BY <1>1 DEF TypeOK, Sound, Queues
<1>5. InLists'
  <2>1. \A d \in Cores : running'[d] # j
    <3>1. \A d \in Cores : running[d] = j => d = core[j]
      BY <1>1 DEF Sound, InLists
    <3>2. \A d \in Cores : d # core[j] => running'[d] = running[d]
      BY <1>1 DEF TypeOK
    <3> QED BY <1>1, <3>1, <3>2
  <2> QED BY <1>1, <2>1, KeepInLists, RgaAssumption DEF TypeOK, Sound
<1>6. Before'
  <2>1. \A k \in Jobs : spc'[k] \in Uncommitted =>
            /\ spc[k] \in Uncommitted /\ held'[k] = held[k] /\ done'[k] = done[k]
            /\ spc'[k] # "new" => page'[k] = "live"
    BY <1>1 DEF TypeOK, Sound, Before, Uncommitted
  <2> QED BY <1>1, <2>1, KeepBefore, RgaAssumption DEF TypeOK, Sound
<1>7. Locals'
  <2>1. Runners'
    BY <1>1 DEF TypeOK, Sound, Locals, Runners, Threads, At
  <2>2. Apart'
    BY <1>1 DEF TypeOK, Sound, Locals, Apart
  <2>3. Committers'
    BY <1>1 DEF TypeOK, Sound, Locals, Committers, Assigned
  <2>4. Enders'
    BY <1>1 DEF TypeOK, Sound, Locals, Enders
  <2> QED BY <2>1, <2>2, <2>3, <2>4 DEF Locals
<1>8. Gone'
    BY <1>1, KeepGone, RgaAssumption DEF TypeOK, Sound, Locals, Runners
<1> QED BY <1>3, <1>5, <1>6, <1>7, <1>8 DEF Sound

\* The core finishes: no variable of the driver changes.
LEMMA StepHwDone ==
    ASSUME TypeOK, Sound, ~undefined, NEW c \in Cores, HwDone(c)
    PROVE  TypeOK' /\ (~undefined' => Sound')
<1>1. /\ hw[c] # None /\ executed' = executed \cup {hw[c]}
      /\ hw' = [hw EXCEPT ![c] = None] /\ irq' = [irq EXCEPT ![c] = TRUE]
      /\ UNCHANGED <<todo, jobCount, running, page, core, prio, done, failed, fence, refs,
                     imports, held, owns>>
      /\ UNCHANGED <<npc, njob, ipc, ijob, hung, dropped, seized, lost, undefined>>
      /\ UNCHANGED <<power, inFence, spc, result, victim>>
    BY DEF HwDone, sched, job, mm, next, irqt, hist, Set
<1>2. TypeOK'
  <2>1. /\ hw \in [Cores -> Jobs \cup {None}]
        /\ irq \in [Cores -> BOOLEAN]
        /\ executed \in SUBSET Jobs
    BY DEF TypeOK
  <2>2. /\ hw' \in [Cores -> Jobs \cup {None}]
        /\ irq' \in [Cores -> BOOLEAN]
        /\ executed' \in SUBSET Jobs
    BY <1>1, <2>1, RgaAssumption
  <2> QED BY <1>1, <2>2 DEF TypeOK
<1> SUFFICES ASSUME ~undefined' PROVE Sound'
    BY <1>2
<1>3. Queues'
    BY <1>1 DEF TypeOK, Sound, Queues
<1>5. InLists'
    BY <1>1, KeepInLists, RgaAssumption DEF TypeOK, Sound
<1>6. Before'
  <2>1. \A k \in Jobs : spc'[k] \in Uncommitted =>
            /\ spc[k] \in Uncommitted /\ held'[k] = held[k] /\ done'[k] = done[k]
            /\ spc'[k] # "new" => page'[k] = "live"
    BY <1>1 DEF TypeOK, Sound, Before, Uncommitted
  <2> QED BY <1>1, <2>1, KeepBefore, RgaAssumption DEF TypeOK, Sound
<1>7. Locals'
  <2>1. Runners'
    BY <1>1 DEF TypeOK, Sound, Locals, Runners, Threads, At
  <2>2. Apart'
    BY <1>1 DEF TypeOK, Sound, Locals, Apart
  <2>3. Committers'
    BY <1>1 DEF TypeOK, Sound, Locals, Committers, Assigned
  <2>4. Enders'
    BY <1>1 DEF TypeOK, Sound, Locals, Enders
  <2> QED BY <2>1, <2>2, <2>3, <2>4 DEF Locals
<1>8. Gone'
    BY <1>1, KeepGone, RgaAssumption DEF TypeOK, Sound, Locals, Runners
<1> QED BY <1>3, <1>5, <1>6, <1>7, <1>8 DEF Sound

\* The core hangs.
LEMMA StepHang ==
    ASSUME TypeOK, Sound, ~undefined, NEW c \in Cores, Hang(c)
    PROVE  TypeOK' /\ (~undefined' => Sound')
<1>1. /\ hung' = [hung EXCEPT ![c] = TRUE]
      /\ UNCHANGED <<todo, jobCount, running, power, page, core, prio, done, failed, fence,
                     inFence, held, owns>>
      /\ UNCHANGED <<refs, imports, npc, njob, ipc, ijob, hw, irq, executed, dropped, seized,
                     lost>>
      /\ UNCHANGED <<undefined, spc, result, victim>>
    BY DEF Hang, sched, job, mm, next, irqt, hist, Set
<1>2. TypeOK'
  <2>1. /\ hung \in [Cores -> BOOLEAN]
    BY DEF TypeOK
  <2>2. /\ hung' \in [Cores -> BOOLEAN]
    BY <1>1, <2>1, RgaAssumption
  <2> QED BY <1>1, <2>2 DEF TypeOK
<1> SUFFICES ASSUME ~undefined' PROVE Sound'
    BY <1>2
<1>3. Queues'
    BY <1>1 DEF TypeOK, Sound, Queues
<1>5. InLists'
    BY <1>1, KeepInLists, RgaAssumption DEF TypeOK, Sound
<1>6. Before'
  <2>1. \A k \in Jobs : spc'[k] \in Uncommitted =>
            /\ spc[k] \in Uncommitted /\ held'[k] = held[k] /\ done'[k] = done[k]
            /\ spc'[k] # "new" => page'[k] = "live"
    BY <1>1 DEF TypeOK, Sound, Before, Uncommitted
  <2> QED BY <1>1, <2>1, KeepBefore, RgaAssumption DEF TypeOK, Sound
<1>7. Locals'
  <2>1. Runners'
    BY <1>1 DEF TypeOK, Sound, Locals, Runners, Threads, At
  <2>2. Apart'
    BY <1>1 DEF TypeOK, Sound, Locals, Apart
  <2>3. Committers'
    BY <1>1 DEF TypeOK, Sound, Locals, Committers, Assigned
  <2>4. Enders'
    BY <1>1 DEF TypeOK, Sound, Locals, Enders
  <2> QED BY <2>1, <2>2, <2>3, <2>4 DEF Locals
<1>8. Gone'
    BY <1>1, KeepGone, RgaAssumption DEF TypeOK, Sound, Locals, Runners
<1> QED BY <1>3, <1>5, <1>6, <1>7, <1>8 DEF Sound

\* rga3_irq_thread starts.
LEMMA StepIrqThread ==
    ASSUME TypeOK, Sound, ~undefined, NEW c \in Cores, IrqThread(c)
    PROVE  TypeOK' /\ (~undefined' => Sound')
<1>1. /\ irq' = [irq EXCEPT ![c] = FALSE]
      /\ ipc' \in {ipc, [ipc EXCEPT ![c] = "enter"]}
      /\ UNCHANGED <<todo, jobCount, running, power, page, core, prio, done, failed, fence,
                     inFence, held, owns>>
      /\ UNCHANGED <<refs, imports, npc, njob, ijob, hw, hung, executed, dropped, seized,
                     lost, undefined>>
      /\ UNCHANGED <<spc, result, victim>>
    BY DEF IrqThread, sched, job, mm, next, hist, Set
<1>2. TypeOK'
  <2>1. /\ irq \in [Cores -> BOOLEAN]
        /\ ipc \in [Cores -> {"idle", "enter", "took", "flagged", "next", "power"}]
    BY DEF TypeOK
  <2>2. /\ irq' \in [Cores -> BOOLEAN]
        /\ ipc' \in [Cores -> {"idle", "enter", "took", "flagged", "next", "power"}]
    BY <1>1, <2>1, RgaAssumption
  <2> QED BY <1>1, <2>2 DEF TypeOK
<1> SUFFICES ASSUME ~undefined' PROVE Sound'
    BY <1>2
<1>3. Queues'
    BY <1>1 DEF TypeOK, Sound, Queues
<1>5. InLists'
    BY <1>1, KeepInLists, RgaAssumption DEF TypeOK, Sound
<1>6. Before'
  <2>1. \A k \in Jobs : spc'[k] \in Uncommitted =>
            /\ spc[k] \in Uncommitted /\ held'[k] = held[k] /\ done'[k] = done[k]
            /\ spc'[k] # "new" => page'[k] = "live"
    BY <1>1 DEF TypeOK, Sound, Before, Uncommitted
  <2> QED BY <1>1, <2>1, KeepBefore, RgaAssumption DEF TypeOK, Sound
<1>7. Locals'
  <2>1. Runners'
    BY <1>1 DEF TypeOK, Sound, Locals, Runners, Threads, At
  <2>2. Apart'
    BY <1>1 DEF TypeOK, Sound, Locals, Apart
  <2>3. Committers'
    BY <1>1 DEF TypeOK, Sound, Locals, Committers, Assigned
  <2>4. Enders'
    BY <1>1 DEF TypeOK, Sound, Locals, Enders
  <2> QED BY <2>1, <2>2, <2>3, <2>4 DEF Locals
<1>8. Gone'
    BY <1>1, KeepGone, RgaAssumption DEF TypeOK, Sound, Locals, Runners
<1> QED BY <1>3, <1>5, <1>6, <1>7, <1>8 DEF Sound

\* rga_job_done: the running job becomes that of the irq thread.
LEMMA StepDoneTake ==
    ASSUME TypeOK, Sound, ~undefined, NEW c \in Cores, DoneTake(c)
    PROVE  TypeOK' /\ (~undefined' => Sound')
<1>1. /\ ipc[c] = "enter" /\ ipc' = [ipc EXCEPT ![c] = "took"]
      /\ running' = [running EXCEPT ![c] = None] /\ ijob' = [ijob EXCEPT ![c] = running[c]]
      /\ undefined' = (undefined \/ running[c] = None \/ Stale({running[c]} \ {None}))
      /\ UNCHANGED <<todo, jobCount, page, core, prio, done, failed, fence, refs, imports,
                     held, owns>>
      /\ UNCHANGED <<npc, njob, hw, irq, hung, executed, dropped, seized, lost>>
      /\ UNCHANGED <<power, inFence, spc, result, victim>>
    BY DEF DoneTake, job, mm, next, hard, Set
<1>2. TypeOK'
  <2>1. /\ running \in [Cores -> Jobs \cup {None}]
        /\ ijob \in [Cores -> Jobs \cup {None}]
        /\ ipc \in [Cores -> {"idle", "enter", "took", "flagged", "next", "power"}]
    BY DEF TypeOK
  <2>2. /\ running' \in [Cores -> Jobs \cup {None}]
        /\ ijob' \in [Cores -> Jobs \cup {None}]
        /\ ipc' \in [Cores -> {"idle", "enter", "took", "flagged", "next", "power"}]
    BY <1>1, <2>1, RgaAssumption
  <2> QED BY <1>1, <2>2 DEF TypeOK
<1> SUFFICES ASSUME ~undefined' PROVE Sound'
    BY <1>2
<1>3. Queues'
    BY <1>1 DEF TypeOK, Sound, Queues
<1>5. InLists'
    BY <1>1, KeepInLists, RgaAssumption DEF TypeOK, Sound
<1>6. Before'
  <2>1. \A k \in Jobs : spc'[k] \in Uncommitted =>
            /\ spc[k] \in Uncommitted /\ held'[k] = held[k] /\ done'[k] = done[k]
            /\ spc'[k] # "new" => page'[k] = "live"
    BY <1>1 DEF TypeOK, Sound, Before, Uncommitted
  <2> QED BY <1>1, <2>1, KeepBefore, RgaAssumption DEF TypeOK, Sound
<1>7. Locals'
  <2>1. Runners'
    BY <1>1 DEF TypeOK, Sound, Locals, Runners, Threads, At
  <2>2. Apart'
    BY <1>1 DEF TypeOK, Sound, Locals, Apart
  <2>3. Committers'
    BY <1>1 DEF TypeOK, Sound, Locals, Committers, Assigned
  <2>4. Enders'
    <3>1. running[c] \in Jobs
      <4>1. running[c] # None
        BY <1>1, Zenon
      <4> QED BY <4>1 DEF TypeOK
    <3>2. ASSUME NEW d \in Cores, ipc'[d] \in {"took", "flagged"} PROVE ijob'[d] \in Jobs
      <4>1. CASE d = c
        BY <1>1, <3>1, <4>1 DEF TypeOK
      <4>2. CASE d # c
        BY <1>1, <3>2, <4>2 DEF TypeOK, Sound, Locals, Enders
      <4> QED BY <4>1, <4>2
    <3> QED BY <3>2 DEF Enders
  <2> QED BY <2>1, <2>2, <2>3, <2>4 DEF Locals
<1>8. Gone'
  <2>1. /\ running'[c] = None /\ \A d \in Cores \ {c} : running'[d] = running[d]
        /\ ijob'[c] = running[c] /\ \A d \in Cores \ {c} : ijob'[d] = ijob[d]
        /\ UNCHANGED <<todo, victim, npc, njob, done>>
    BY <1>1 DEF TypeOK
  <2>2. \A k \in Jobs : Nowhere(k) => Nowhere(k)'
    BY <2>1, KeepNowhere, RgaAssumption
  <2>3. ASSUME NEW x \in Jobs, running[c] = x PROVE Nowhere(x)'
    <3>1. \A d \in Cores : ~ InQueue(x, d) /\ (d # c => running[d] # x)
      BY <2>3 DEF Sound, InLists
    <3> QED BY <2>1, <2>3, <3>1, SameLists, RgaAssumption DEF Nowhere
  <2>4. \A d \in Cores, k \in Jobs : ijob'[d] = k => Nowhere(k)'
    BY <2>1, <2>2, <2>3 DEF Sound, Gone, Nowhere, InQueue
  <2>5. \A u \in Threads : npc'[u] = "put" =>
            njob'[u] \in Jobs /\ \A k \in Jobs : njob'[u] = k => Nowhere(k)'
    BY <2>1, <2>2 DEF Sound, Gone, Locals, Runners
  <2>6. \A i, k \in Jobs : victim'[i] = k => Nowhere(k)'
    BY <2>1, <2>2 DEF Sound, Gone
  <2>7. \A k \in Jobs : done'[k] => Nowhere(k)'
    BY <2>1, <2>2 DEF Sound, Gone
  <2> QED BY <2>4, <2>5, <2>6, <2>7, AreGone
<1> QED BY <1>3, <1>5, <1>6, <1>7, <1>8 DEF Sound

\* rga_job_done: RGA_JOB_DONE.
LEMMA StepDoneFlag ==
    ASSUME TypeOK, Sound, ~undefined, NEW c \in Cores, DoneFlag(c)
    PROVE  TypeOK' /\ (~undefined' => Sound')
<1>1. /\ undefined' \in BOOLEAN /\ ipc[c] = "took" /\ ipc' = [ipc EXCEPT ![c] = "flagged"]
      /\ done' = [done EXCEPT ![ijob[c]] = TRUE] /\ failed' = [failed EXCEPT ![ijob[c]] = FALSE]
      /\ UNCHANGED <<todo, jobCount, running, power, page, core, prio, fence, inFence, held, owns,
                     refs, imports>>
      /\ UNCHANGED <<npc, njob, ijob, hw, irq, hung, executed, dropped, seized, lost,
                     spc>>
      /\ UNCHANGED <<result, victim>>
    BY DEF DoneFlag, sched, mm, next, hard, Set
<1>2. TypeOK'
  <2>1. /\ done \in [Jobs -> BOOLEAN]
        /\ failed \in [Jobs -> BOOLEAN]
        /\ ipc \in [Cores -> {"idle", "enter", "took", "flagged", "next", "power"}]
    BY DEF TypeOK
  <2>2. /\ done' \in [Jobs -> BOOLEAN]
        /\ failed' \in [Jobs -> BOOLEAN]
        /\ ipc' \in [Cores -> {"idle", "enter", "took", "flagged", "next", "power"}]
    BY <1>1, <2>1, RgaAssumption
  <2> QED BY <1>1, <2>2 DEF TypeOK
<1> SUFFICES ASSUME ~undefined' PROVE Sound'
    BY <1>2
<1>3. Queues'
    BY <1>1 DEF TypeOK, Sound, Queues
<1>5. InLists'
    BY <1>1, KeepInLists, RgaAssumption DEF TypeOK, Sound
<1>9. ijob[c] \in Jobs
    BY <1>1 DEF Sound, Locals, Enders
<1>6. Before'
  <2>2. \A k \in Jobs : k # ijob[c] => done'[k] = done[k]
    BY <1>1 DEF TypeOK
  <2>3. \A k \in Jobs : spc[k] \in Uncommitted => k # ijob[c]
    BY DEF Sound, Before
  <2>1. \A k \in Jobs : spc'[k] \in Uncommitted =>
            /\ spc[k] \in Uncommitted /\ held'[k] = held[k] /\ done'[k] = done[k]
            /\ spc'[k] # "new" => page'[k] = "live"
    BY <1>1, <2>2, <2>3 DEF Sound, Before
  <2> QED BY <1>1, <2>1, KeepBefore, RgaAssumption DEF TypeOK, Sound
<1>7. Locals'
  <2>1. Runners'
    BY <1>1 DEF TypeOK, Sound, Locals, Runners, Threads, At
  <2>2. Apart'
    BY <1>1 DEF TypeOK, Sound, Locals, Apart
  <2>3. Committers'
    BY <1>1 DEF TypeOK, Sound, Locals, Committers, Assigned
  <2>4. Enders'
    BY <1>1 DEF TypeOK, Sound, Locals, Enders
  <2> QED BY <2>1, <2>2, <2>3, <2>4 DEF Locals
<1>8. Gone'
  <2>1. \A k \in Jobs : Nowhere(k) => Nowhere(k)'
    BY <1>1, KeepNowhere, RgaAssumption DEF TypeOK
  <2>2. Nowhere(ijob[c])
    BY <1>9 DEF Sound, Gone
  <2>3. \A k \in Jobs : done'[k] => done[k] \/ k = ijob[c]
    BY <1>1 DEF TypeOK
  <2>4. UNCHANGED <<victim, ijob, npc, njob>>
    BY <1>1
  <2> QED BY <2>1, <2>2, <2>3, <2>4, <1>9 DEF Sound, Gone, Locals, Runners
<1> QED BY <1>3, <1>5, <1>6, <1>7, <1>8 DEF Sound

\* rga_job_done: buffers are put, an asynchronous job is freed.
LEMMA StepDoneFinish ==
    ASSUME TypeOK, Sound, ~undefined, NEW c \in Cores, DoneFinish(c)
    PROVE  TypeOK' /\ (~undefined' => Sound')
<1>1. /\ ijob[c] \in Jobs /\ ipc[c] = "flagged"
      /\ ijob' = [ijob EXCEPT ![c] = None] /\ ipc' = [ipc EXCEPT ![c] = "next"]
      /\ npc' = [npc EXCEPT ![c] = "loop"]
      /\ page' \in {page, [page EXCEPT ![ijob[c]] = "freed"]} /\ undefined' \in BOOLEAN
      /\ fence' \in {fence, [fence EXCEPT ![ijob[c]] = "signaled"]}
      /\ owns' = [owns EXCEPT ![ijob[c]] = 0] /\ held' = held /\ refs' \in [Handles -> Int]
      /\ UNCHANGED <<todo, jobCount, running, power, core, prio, done, failed, inFence,
                     imports, njob, hw>>
      /\ UNCHANGED <<irq, hung, executed, dropped, seized, lost, spc, result, victim>>
  <2>1. ijob[c] \in Jobs /\ ipc[c] = "flagged" /\ PutHandles(ijob[c])
    BY DEF Sound, Locals, Enders, DoneFinish
  <2>2. /\ owns' = [owns EXCEPT ![ijob[c]] = 0] /\ held' = held /\ refs' \in [Handles -> Int]
        /\ imports' = imports
    BY <2>1, Gave, Zenon
  <2>3. CASE ijob[c] \in Async
    BY <2>1, <2>2, <2>3 DEF DoneFinish, DoneNext, Signal, Free, sched, hard, Set
  <2>4. CASE ijob[c] \notin Async
    BY <2>1, <2>2, <2>4 DEF DoneFinish, DoneNext, Signal, sched, hard, Set
  <2> QED BY <2>3, <2>4
<1>2. TypeOK'
  <2>1. /\ page \in [Jobs -> {"none", "live", "freed"}]
        /\ undefined \in BOOLEAN
        /\ fence \in [Jobs -> {"none", "pending", "signaled"}]
        /\ held \in [Jobs -> 0..2] /\ owns \in [Jobs -> 0..2]
        /\ refs \in [Handles -> Int]
        /\ npc \in [Threads -> {"off", "loop", "run", "ret", "failret", "fail", "put"}]
        /\ ipc \in [Cores -> {"idle", "enter", "took", "flagged", "next", "power"}]
        /\ ijob \in [Cores -> Jobs \cup {None}]
    BY DEF TypeOK
  <2>2. page' \in [Jobs -> {"none", "live", "freed"}]
    BY <1>1, <2>1, RgaAssumption
  <2>3. undefined' \in BOOLEAN
    BY <1>1, <2>1, RgaAssumption
  <2>4. fence' \in [Jobs -> {"none", "pending", "signaled"}]
    BY <1>1, <2>1, RgaAssumption
  <2>5. held' \in [Jobs -> 0..2] /\ owns' \in [Jobs -> 0..2]
    BY <1>1, <2>1, RgaAssumption
  <2>6. refs' \in [Handles -> Int]
    BY <1>1, <2>1, RgaAssumption
  <2>7. npc' \in [Threads -> {"off", "loop", "run", "ret", "failret", "fail", "put"}]
    BY <1>1, <2>1, RgaAssumption
  <2>8. ipc' \in [Cores -> {"idle", "enter", "took", "flagged", "next", "power"}]
    BY <1>1, <2>1, RgaAssumption
  <2>9. ijob' \in [Cores -> Jobs \cup {None}]
    BY <1>1, <2>1, RgaAssumption
  <2> QED BY <1>1, <2>2, <2>3, <2>4, <2>5, <2>6, <2>7, <2>8, <2>9 DEF TypeOK
<1> SUFFICES ASSUME ~undefined' PROVE Sound'
    BY <1>2
<1>3. Queues'
    BY <1>1 DEF TypeOK, Sound, Queues
<1>5. InLists'
  <2>1. PICK x \in Jobs : x = ijob[c]
    BY <1>1
  <2>2. \A d \in Cores : running[d] # x /\ ~ InQueue(x, d)
    BY <1>1, <2>1 DEF Sound, Gone, Nowhere
  <2>3. \A k \in Jobs, d \in Cores : running'[d] = k => page'[k] = page[k] /\ core'[k] = core[k]
    BY <1>1, <2>1, <2>2 DEF TypeOK
  <2>4. \A k \in Jobs, d \in Cores : InQueue(k, d) =>
            page'[k] = page[k] /\ core'[k] = core[k] /\ held'[k] = held[k] /\ result'[k] = result[k]
    BY <1>1, <2>1, <2>2 DEF TypeOK
  <2>5. /\ \A d \in Cores : running'[d] \in {running[d], None}
        /\ \A u \in Threads : njob'[u] \in {njob[u], None}
        /\ UNCHANGED todo /\ InLists /\ None \notin Jobs
    BY <1>1, RgaAssumption DEF TypeOK, Sound
  <2> QED BY <2>3, <2>4, <2>5, KeepInLists, Zenon
<1>6. Before'
  <2>1. PICK x \in Jobs : x = ijob[c]
    BY <1>1
  <2>2. \A k \in Jobs : spc'[k] \in Uncommitted => spc[k] \in Uncommitted /\ k # x
    BY <1>1, <2>1 DEF TypeOK, Sound, Before, Uncommitted
  <2>3. \A k \in Jobs : k # x => page'[k] = page[k] /\ held'[k] = held[k] /\ done'[k] = done[k]
    BY <1>1, <2>1 DEF TypeOK
  <2>4. \A k \in Jobs : spc'[k] \in Uncommitted =>
            /\ spc[k] \in Uncommitted /\ held'[k] = held[k] /\ done'[k] = done[k]
            /\ spc'[k] # "new" => page'[k] = "live"
    BY <1>1, <2>2, <2>3 DEF TypeOK, Sound, Before, Uncommitted
  <2>5. /\ Before /\ None \notin Jobs /\ UNCHANGED todo
        /\ \A d \in Cores : running'[d] \in {running[d], None}
        /\ \A u \in Threads : njob'[u] \in {njob[u], None}
        /\ \A d \in Cores : ijob'[d] \in {ijob[d], None, running[d]}
        /\ \A i \in Jobs : victim'[i] \in {victim[i], None}
    BY <1>1, RgaAssumption DEF TypeOK, Sound
  <2> QED BY <2>4, <2>5, KeepBefore, Zenon
<1>7. Locals'
  <2>1. Runners'
    <3>1. c \notin Jobs /\ c \in Threads
      BY RgaAssumption DEF Threads
    <3>2. npc'[c] = "loop" /\ \A u \in Threads \ {c} : npc'[u] = npc[u]
      BY <1>1, <3>1 DEF TypeOK
    <3>3. \A u \in Threads : njob[u] \in Jobs /\ held[njob[u]] = 0 => held'[njob[u]] = 0
      BY <1>1 DEF TypeOK
    <3> QED BY <1>1, <3>1, <3>2, <3>3 DEF Sound, Locals, Runners, At
  <2>2. Apart'
    BY <1>1 DEF TypeOK, Sound, Locals, Apart
  <2>3. Committers'
    BY <1>1 DEF TypeOK, Sound, Locals, Committers, Assigned
  <2>4. Enders'
    BY <1>1 DEF TypeOK, Sound, Locals, Enders
  <2> QED BY <2>1, <2>2, <2>3, <2>4 DEF Locals
<1>8. Gone'
    BY <1>1, KeepGone, RgaAssumption DEF TypeOK, Sound, Locals, Runners
<1> QED BY <1>3, <1>5, <1>6, <1>7, <1>8 DEF Sound

\* rga_job_done: rga_power_disable.
LEMMA StepDonePower ==
    ASSUME TypeOK, Sound, ~undefined, NEW c \in Cores, DonePower(c)
    PROVE  TypeOK' /\ (~undefined' => Sound')
<1>1. /\ ipc' = [ipc EXCEPT ![c] = "idle"] /\ power' = [power EXCEPT ![c] = power[c] - 1]
      /\ UNCHANGED <<todo, jobCount, running, page, core, prio, done, failed, fence, refs,
                     imports, held, owns>>
      /\ UNCHANGED <<npc, njob, ijob, hw, irq, hung, executed, dropped, seized, lost, undefined>>
      /\ UNCHANGED <<inFence, spc, result, victim>>
    BY DEF DonePower, sched, job, mm, next, hard, hist, Set
<1>2. TypeOK'
  <2>1. /\ ipc \in [Cores -> {"idle", "enter", "took", "flagged", "next", "power"}]
        /\ power \in [Cores -> Int]
    BY DEF TypeOK
  <2>2. /\ ipc' \in [Cores -> {"idle", "enter", "took", "flagged", "next", "power"}]
        /\ power' \in [Cores -> Int]
    BY <1>1, <2>1, RgaAssumption
  <2> QED BY <1>1, <2>2 DEF TypeOK
<1> SUFFICES ASSUME ~undefined' PROVE Sound'
    BY <1>2
<1>3. Queues'
    BY <1>1 DEF TypeOK, Sound, Queues
<1>5. InLists'
    BY <1>1, KeepInLists, RgaAssumption DEF TypeOK, Sound
<1>6. Before'
  <2>1. \A k \in Jobs : spc'[k] \in Uncommitted =>
            /\ spc[k] \in Uncommitted /\ held'[k] = held[k] /\ done'[k] = done[k]
            /\ spc'[k] # "new" => page'[k] = "live"
    BY <1>1 DEF TypeOK, Sound, Before, Uncommitted
  <2> QED BY <1>1, <2>1, KeepBefore, RgaAssumption DEF TypeOK, Sound
<1>7. Locals'
  <2>1. Runners'
    BY <1>1 DEF TypeOK, Sound, Locals, Runners, Threads, At
  <2>2. Apart'
    BY <1>1 DEF TypeOK, Sound, Locals, Apart
  <2>3. Committers'
    BY <1>1 DEF TypeOK, Sound, Locals, Committers, Assigned
  <2>4. Enders'
    BY <1>1 DEF TypeOK, Sound, Locals, Enders
  <2> QED BY <2>1, <2>2, <2>3, <2>4 DEF Locals
<1>8. Gone'
    BY <1>1, KeepGone, RgaAssumption DEF TypeOK, Sound, Locals, Runners
<1> QED BY <1>3, <1>5, <1>6, <1>7, <1>8 DEF Sound

-----------------------------------------------------------------------------
(* The invariant holds in the initial states and is kept by every step *)

\* Nothing is in a list and nobody runs when the driver is probed.
LEMMA InitSound == Init => IInv
<1> SUFFICES ASSUME Init PROVE IInv
    OBVIOUS
<1>1. TypeOK
  <2>1. Priority \in [Jobs -> Nat]
    BY RgaAssumption
  <2>2. /\ todo \in [Cores -> Seq(Jobs)] /\ jobCount \in [Cores -> Nat]
        /\ power \in [Cores -> Int] /\ running \in [Cores -> Jobs \cup {None}]
        /\ page \in [Jobs -> {"none", "live", "freed"}]
        /\ core \in [Jobs -> Cores \cup {None}] /\ prio \in [Jobs -> Nat]
    BY <2>1 DEF Init
  <2>3. /\ done \in [Jobs -> BOOLEAN] /\ failed \in [Jobs -> BOOLEAN]
        /\ held \in [Jobs -> 0..2] /\ owns \in [Jobs -> 0..2] /\ fence \in [Jobs -> {"none", "pending", "signaled"}]
        /\ inFence \in [Jobs -> BOOLEAN]
        /\ refs \in [Handles -> Int] /\ imports \in [Handles -> 0..MaxImports]
    BY RgaAssumption DEF Init
  <2>4. /\ result \in [Jobs -> {"none", "ok", "error"}]
        /\ victim \in [Jobs -> Jobs \cup {None}] /\ njob \in [Threads -> Jobs \cup {None}]
        /\ ijob \in [Cores -> Jobs \cup {None}] /\ hw \in [Cores -> Jobs \cup {None}]
        /\ irq \in [Cores -> BOOLEAN] /\ hung \in [Cores -> BOOLEAN]
        /\ executed \subseteq Jobs /\ dropped \subseteq Jobs /\ lost \subseteq Jobs
        /\ seized \in [Cores -> SUBSET {"caller", "timeout"}] /\ undefined \in BOOLEAN
    BY DEF Init
  <2>5. spc = [j \in Jobs |-> "new"] /\ npc = [t \in Threads |-> "off"] /\ ipc = [c \in Cores |-> "idle"]
    BY DEF Init
  <2> QED BY <2>2, <2>3, <2>4, <2>5 DEF TypeOK
<1>2. \A c \in Cores : todo[c] = <<>> /\ Len(todo[c]) = 0 /\ DOMAIN todo[c] = {}
    BY DEF Init
<1>3. Queues
    BY <1>2 DEF Init, Queues, IsInjective
<1>4. InLists
    BY <1>2, RgaAssumption DEF Init, InLists, InQueue
<1>5. Before
    BY <1>2, RgaAssumption DEF Init, Before, InQueue
<1>6. Locals
    BY DEF Init, Locals, Runners, Apart, Committers, Enders, Assigned, Threads
<1>7. Gone
    BY RgaAssumption DEF Init, Gone
<1> QED BY <1>1, <1>3, <1>4, <1>5, <1>6, <1>7 DEF IInv, Sound

\* Nothing changes when no thread of the driver takes a step.
LEMMA StepStutter ==
    ASSUME TypeOK, Sound, UNCHANGED vars
    PROVE  TypeOK' /\ Sound'
<1>1. /\ UNCHANGED <<todo, jobCount, power, running, page, core, prio, done, failed, held, owns, fence>>
      /\ UNCHANGED <<inFence, refs, imports, spc, result, victim, npc, njob, ipc, ijob, hw>>
      /\ UNCHANGED <<irq, hung, executed, dropped, seized, lost, undefined>>
    BY DEF vars, sched, job, mm, next, irqt, hard, hist
<1>2. TypeOK'
    BY <1>1 DEF TypeOK
<1>3. Queues'
    BY <1>1 DEF Sound, Queues
<1>4. InLists'
    BY <1>1, SameLists DEF Sound, InLists
<1>5. Before'
    BY <1>1, SameLists DEF Sound, Before
<1>6. Locals'
  <2>1. Runners'
    BY <1>1 DEF Sound, Locals, Runners, At
  <2>2. Apart' /\ Committers' /\ Enders'
    BY <1>1 DEF Sound, Locals, Apart, Committers, Enders
  <2> QED BY <2>1, <2>2 DEF Locals
<1>7. Gone'
  <2>1. \A k \in Jobs : Nowhere(k) => Nowhere(k)'
    BY <1>1, SameLists DEF Nowhere
  <2> QED BY <1>1, <2>1, AreGone DEF Sound, Gone, Locals, Runners
<1> QED BY <1>2, <1>3, <1>4, <1>5, <1>6, <1>7 DEF Sound

\* Whoever runs rga_job_next, a committer or the irq thread of a core.
LEMMA StepRunNext ==
    ASSUME TypeOK, Sound, ~undefined, NEW t \in Threads, RunNext(t)
    PROVE  TypeOK' /\ (~undefined' => Sound')
<1>1. CASE NextNone(t)
    BY <1>1, StepNextNone, Zenon
<1>2. CASE NextTake(t)
    BY <1>2, StepNextTake, Zenon
<1>3. CASE RunOk(t)
    BY <1>3, StepRunOk, Zenon
<1>4. CASE RunFail(t)
    BY <1>4, StepRunFail, Zenon
<1>5. CASE Return(t)
    BY <1>5, StepReturn, Zenon
<1>6. CASE FailReturn(t)
    BY <1>6, StepFailReturn, Zenon
<1>7. CASE FailClear(t)
    BY <1>7, StepFailClear, Zenon
<1>8. CASE FailPut(t)
    BY <1>8, StepFailPut, Zenon
<1> QED BY <1>1, <1>2, <1>3, <1>4, <1>5, <1>6, <1>7, <1>8, Zenon DEF RunNext

\* Every step of a committer.
LEMMA StepCommitter ==
    ASSUME TypeOK, Sound, ~undefined, NEW j \in Jobs, Committer(j)
    PROVE  TypeOK' /\ (~undefined' => Sound')
<1>1. CASE CheckFence(j) \/ BadFence(j) \/ AddCallback(j)
    BY <1>1, StepCheckFence, StepBadFence, StepAddCallback, Zenon
<1>2. CASE Schedule(j)
  <2>1. CASE Assign(j) \/ Reject(j)
    BY <2>1, StepAssign, StepReject, Zenon
  <2>2. CASE Clean(j) \/ CleanReset(j) \/ CleanPut(j)
    BY <2>2, StepClean, StepCleanReset, StepCleanPut, Zenon
  <2>3. CASE Insert(j)
    BY <2>3, StepInsert, Zenon
  <2> QED BY <1>2, <2>1, <2>2, <2>3, Zenon DEF Schedule
<1>3. CASE RunNext(j)
  <2>1. j \in Threads
    BY DEF Threads
  <2> QED BY <1>3, <2>1, StepRunNext, Zenon
<1>4. CASE Wait(j)
  <2>1. CASE ReadRet(j) \/ WaitTimeout(j) \/ TimeoutReset(j)
    BY <2>1, StepReadRet, StepWaitTimeout, StepTimeoutReset, Zenon
  <2>2. CASE WaitDone(j) \/ Abort(j)
    BY <2>2, StepWaitDone, StepAbort, Zenon
  <2> QED BY <1>4, <2>1, <2>2, Zenon DEF Wait
<1> QED BY <1>1, <1>2, <1>3, <1>4, Zenon DEF Committer

\* Every step of the irq thread of a core.
LEMMA StepIrq ==
    ASSUME TypeOK, Sound, ~undefined, NEW c \in Cores, Irq(c)
    PROVE  TypeOK' /\ (~undefined' => Sound')
<1>1. CASE IrqThread(c) \/ DoneTake(c) \/ DoneFlag(c)
    BY <1>1, StepIrqThread, StepDoneTake, StepDoneFlag, Zenon
<1>2. CASE DoneFinish(c) \/ DonePower(c)
    BY <1>2, StepDoneFinish, StepDonePower, Zenon
<1>3. CASE RunNext(c)
  <2>1. c \in Threads
    BY DEF Threads
  <2> QED BY <1>3, <2>1, StepRunNext, Zenon
<1> QED BY <1>1, <1>2, <1>3, Zenon DEF Irq

\* The invariant is inductive.
LEMMA NextSound == IInv /\ [Next]_vars => IInv'
<1> SUFFICES ASSUME IInv, [Next]_vars PROVE IInv'
    OBVIOUS
<1>1. TypeOK
    BY DEF IInv
<1>2. CASE UNCHANGED vars
  <2>1. CASE undefined
    <3>1. UNCHANGED <<todo, jobCount, power, running, page, core, prio, done, failed, held, owns, fence>>
      BY <1>2 DEF vars, sched, job, mm
    <3>2. /\ UNCHANGED <<inFence, refs, imports, spc, result, victim, npc, njob, ipc, ijob, hw>>
          /\ UNCHANGED <<irq, hung, executed, dropped, seized, lost, undefined>>
      BY <1>2 DEF vars, mm, next, irqt, hard, hist
    <3>3. TypeOK'
      BY <1>1, <3>1, <3>2 DEF TypeOK
    <3> QED BY <2>1, <3>2, <3>3 DEF IInv
  <2>2. CASE ~undefined
    <3>1. TypeOK' /\ Sound'
      BY <1>1, <1>2, <2>2, StepStutter, Zenon DEF IInv
    <3> QED BY <3>1, Zenon DEF IInv
  <2> QED BY <2>1, <2>2
<1>3. CASE Next
  <2>1. ~undefined /\ Sound
    BY <1>3 DEF Next, IInv
  <2>2. ASSUME NEW h \in Handles, Import(h) \/ Release(h)
        PROVE  TypeOK' /\ (~undefined' => Sound')
    BY <1>1, <2>1, <2>2, StepImport, StepRelease, Zenon
  <2>3. ASSUME NEW j \in Jobs,
               Commit(j) \/ Refuse(j) \/ InFenceSignal(j) \/ WaitSignal(j) \/ Committer(j)
        PROVE  TypeOK' /\ (~undefined' => Sound')
    <3>1. CASE Commit(j) \/ Refuse(j) \/ InFenceSignal(j)
      BY <1>1, <2>1, <3>1, StepCommit, StepRefuse, StepInFenceSignal, Zenon
    <3>2. CASE WaitSignal(j) \/ Committer(j)
      BY <1>1, <2>1, <3>2, StepWaitSignal, StepCommitter, Zenon
    <3> QED BY <2>3, <3>1, <3>2
  <2>4. ASSUME NEW c \in Cores, HwDone(c) \/ Hang(c) \/ Irq(c)
        PROVE  TypeOK' /\ (~undefined' => Sound')
    BY <1>1, <2>1, <2>4, StepHwDone, StepHang, StepIrq, Zenon
  <2>5. TypeOK' /\ (~undefined' => Sound')
    BY <1>3, <2>2, <2>3, <2>4, Zenon DEF Next
  <2> QED BY <2>5, Zenon DEF IInv
<1> QED BY <1>2, <1>3

-----------------------------------------------------------------------------
(* What the invariant says of the properties the runs check *)

\* The job lists and the running jobs of the cores.
LEMMA SoundQueues == IInv => QueuesHoldLiveJobs
<1> SUFFICES ASSUME Sound, TypeOK
             PROVE  /\ \A c \in Cores : jobCount[c] = Len(todo[c]) /\ IsInjective(todo[c])
                    /\ \A j \in Jobs : /\ Cardinality(Places(j)) <= 1
                                       /\ \A p \in Places(j) : p[2] = core[j]
                    /\ \A c \in Cores : running[c] # None => page[running[c]] = "live"
                    /\ \A c \in Cores, j \in Jobs :
                          InQueue(j, c) => page[j] = "live" \/ (j \in Sync /\ result[j] = "error")
    BY Zenon DEF IInv, QueuesHoldLiveJobs
<1>1. \A c \in Cores : jobCount[c] = Len(todo[c]) /\ IsInjective(todo[c])
    BY DEF Sound, Queues
<1>2. ASSUME NEW j \in Jobs
      PROVE  /\ Cardinality(Places(j)) <= 1
             /\ \A p \in Places(j) : p[2] = core[j]
  <2>1. ASSUME NEW p \in Places(j)
        PROVE  \E c \in Cores : /\ c = core[j]
                                /\ \/ p = <<"todo", c>> /\ InQueue(j, c)
                                   \/ p = <<"running", c>> /\ running[c] = j
    BY DEF Places, Sound, InLists
  <2>2. \A c \in Cores : ~ (InQueue(j, c) /\ running[c] = j)
    BY DEF Sound, InLists
  <2>3. \A p \in Places(j) : p[2] = core[j]
    BY <2>1
  <2>4. \A p, q \in Places(j) : p = q
    BY <2>1, <2>2
  <2>5. Cardinality(Places(j)) <= 1
    <3>1. CASE Places(j) = {}
      BY <3>1, FS_EmptySet
    <3>2. CASE Places(j) # {}
      <4>1. PICK p \in Places(j) : TRUE
        BY <3>2
      <4>2. Places(j) = {p}
        BY <2>4, <4>1
      <4>3. Cardinality(Places(j)) = 1
        BY <4>2, FS_Singleton
      <4> QED BY <4>3
    <3> QED BY <3>1, <3>2
  <2> QED BY <2>3, <2>5
<1>3. \A c \in Cores : running[c] # None => page[running[c]] = "live"
    BY DEF Sound, InLists, TypeOK
<1>4. \A c \in Cores, j \in Jobs :
          InQueue(j, c) => page[j] = "live" \/ (j \in Sync /\ result[j] = "error")
    BY DEF Sound, InLists
<1> QED BY <1>1, <1>2, <1>3, <1>4

-----------------------------------------------------------------------------
(* Theorems *)

\* The invariant of rga_job_commit, rga_job_next and rga_job_done: for any
\* numbers of jobs, cores and handles, any timeouts, signals and failures.
THEOREM Invariant == Spec => []IInv
<1>1. Init => IInv
    BY InitSound
<1>2. IInv /\ [Next]_vars => IInv'
    BY NextSound
<1> QED BY <1>1, <1>2, PTL DEF Spec

\* Every variable of the scheduler keeps its type: a list holds jobs only and
\* job_count never wraps.
THEOREM TypeCorrect == Spec => []TypeOK
<1>1. IInv => TypeOK
    BY DEF IInv
<1> QED BY <1>1, Invariant, PTL

\* A job is in one list or on one core, once, and on the core it was assigned
\* to; running_job was not freed, and a job in a list only by a caller that gave
\* it up: also when rga_job_timeout_clean takes jobs that are under way.
THEOREM JobsAreInOnePlace == Spec => []QueuesHoldLiveJobs
BY SoundQueues, Invariant, PTL

=============================================================================
