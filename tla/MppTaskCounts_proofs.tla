------------------------ MODULE MppTaskCounts_proofs ------------------------
(***************************************************************************)
(* Proofs about what MppTaskQueue counts and frees, for any sets of        *)
(* sessions, devices and tasks.  They rest on ExclusionInvariant.          *)
(*                                                                         *)
(*   RefCountExactAlways       task->ref counts its holders                *)
(*   PointersAreLiveAlways     no thread uses a freed task                 *)
(*   QueuedIsInSessionAlways   a queued task can still be polled           *)
(*   TaskCountsExactAlways     both task_count fields                      *)
(*   FreedSessionIsQuietAlways nothing refers to a freed session           *)
(*   PowerBalancedAlways       a device is powered while its task runs     *)
(*   StartsCleanAlways         nothing outstanding when a task is started  *)
(***************************************************************************)
EXTENDS MppTaskQueue_proofs, FiniteSetTheorems

-----------------------------------------------------------------------------
(* The inductive invariants.  Each one is about another part of the state    *)
(* and takes the ones before it as given.                                   *)

One(b) == IF b THEN 1 ELSE 0

\* The holders that RefCountExact adds up.
Held(t) == One(t \in Listed(spending[owner[t]])) + One(t \in Listed(qpending))
           + One(t \in qrunning) + One(Submitting(t))

\* A thread that is in an ioctl works on a task of its session's list, on a file
\* that is open; when it pops the task, it has seen it done or aborted it.
IoctlsOK ==
  \A s \in Sessions :
    /\ upc[s] # "idle" => sess[s] = "open" /\ utask[s] \in Listed(spending[s])
    /\ upc[s] = "pop" => Has(utask[s], "DONE") \/ abort[utask[s]] > 0

\* A session lists its own tasks, once each, and has a device if it has tasks.
SessionListsOK ==
  /\ \A s \in Sessions : \A i, j \in DOMAIN spending[s] :
       spending[s][i] = spending[s][j] => i = j
  /\ \A s \in Sessions : \A t \in Listed(spending[s]) : owner[t] = s
  /\ \A t \in Tasks : owner[t] # None => sdev[owner[t]] \in Devices

RefsInv == IoctlsOK /\ SessionListsOK /\ RefCountExact /\ QueuedIsInSession

\* The submitter has not put the task in the queue yet.
Pushing(t) == upc[owner[t]] = "push" /\ utask[owner[t]] = t

\* The sets TaskCountsExact and PowerBalanced count.
LiveOf(s)   == {t \in Tasks : Live(t) /\ owner[t] = s}
PushedOf(d) == {t \in Tasks : Live(t) /\ DeviceOf(t) = d /\ ~Pushing(t)}
OnOf(d)     == {t \in Tasks : /\ owner[t] # None /\ DeviceOf(t) = d
                              /\ Has(t, "START") /\ ~Has(t, "DONE")}

\* Only finitely many tasks have been allocated.
Allocated == {t \in Tasks : owner[t] # None}

CountsInv == IsFiniteSet(Allocated) /\ TaskCountsExact

\* A session is in the detach list once or with the worker, and only between its
\* release and its deinit; a freed session has no live task.
DetachInv ==
  /\ \A i, j \in DOMAIN qdetach : qdetach[i] = qdetach[j] => i = j
  /\ \A s \in Listed(qdetach) : sess[s] = "released"
  /\ wpc = "deinit" <=> wsess # None
  /\ wsess # None => sess[wsess] = "released" /\ wsess \notin Listed(qdetach)
  /\ \A s \in Sessions : sess[s] = "freed" => \A t \in Tasks : owner[t] = s => ~Live(t)

\* The irq thread powers its device off before its task is done, and resets it
\* in the same step if the status asked for it.
PowerInv ==
  /\ PowerBalanced
  /\ \A d \in Devices :
       /\ ipc[d] = "finish" => ~Has(itask[d], "DONE")
       /\ resetRequest[d] # 0 => ipc[d] = "finish"

CountInv == ExclusionInv /\ RefsInv /\ CountsInv /\ DetachInv /\ PowerInv
-----------------------------------------------------------------------------
(* The references of a task.                                                *)

LEMMA RefExactHeld ==
  RefCountExact <=> \A t \in Tasks : owner[t] # None => ref[t] = Held(t)
  BY DEF RefCountExact, Held, One

\* kref_put by a holder that gives the task up.
LEMMA RefsPut ==
  ASSUME TypeOK, RefCountExact, NEW t \in Tasks, Put(t), UNCHANGED owner,
         Held(t)' = Held(t) - 1,
         \A u \in Tasks \ {t} : owner[u] # None => Held(u)' = Held(u)
  PROVE  RefCountExact'
<1>1. ref' = [ref EXCEPT ![t] = @ - 1] /\ ref \in [Tasks -> Int]
  BY DEF Put, TypeOK, CountTypeOK
<1>2. \A u \in Tasks : owner[u] # None => ref[u] = Held(u)
  BY RefExactHeld
<1>3. ASSUME NEW u \in Tasks, owner'[u] # None PROVE ref'[u] = Held(u)'
  BY <1>1, <1>2, <1>3
<1> QED  BY <1>3 DEF RefCountExact, Held, One

\* Nobody holds a task when no task exists.
LEMMA RefsInit == Init => RefsInv
<1> SUFFICES ASSUME Init PROVE RefsInv
  OBVIOUS
<1> QED  BY DEF Init, InitFrom, RefsInv, IoctlsOK, SessionListsOK, RefCountExact,
            QueuedIsInSession, Listed

\* A task in a list of the queue has a session, and so has one in a session's list.
LEMMA ListedHaveSessions ==
  ASSUME ExclusionInv, RefsInv
  PROVE  /\ \A t \in Listed(qpending) \cup qrunning : t \in Tasks /\ owner[t] \in Sessions
         /\ \A s \in Sessions : \A t \in Listed(spending[s]) : t \in Tasks /\ owner[t] = s
<1> USE DEF ExclusionInv, TypeOK
<1>1. Listed(qpending) \subseteq Tasks /\ qrunning \subseteq Tasks
  BY ListedType DEF QueueTypeOK
<1>2. \A s \in Sessions : Listed(spending[s]) \subseteq Tasks
  BY ListedType DEF SessionTypeOK
<1>3. \A t \in Tasks : owner[t] \in Sessions \/ owner[t] = None
  BY DEF TaskTypeOK
<1> QED  BY <1>1, <1>2, <1>3 DEF ListsOK, RefsInv, SessionListsOK

\* A step that changes no list, no holder and no reference, takes back no DONE flag
\* and no abort request, and changes no session that is in an ioctl.
LEMMA RefsFrame ==
  ASSUME ExclusionInv, RefsInv,
         UNCHANGED <<spending, owner, sdev, qpending, qrunning, upc, utask, ref>>,
         \A s \in Sessions : upc[s] # "idle" => sess'[s] = sess[s],
         \A t \in Tasks : Has(t, "DONE") => Has(t, "DONE")',
         \A t \in Tasks : abort[t] > 0 => abort'[t] > 0
  PROVE  RefsInv'
<1>1. /\ \A t \in Listed(qpending) \cup qrunning : t \in Tasks
      /\ \A s \in Sessions : upc[s] # "idle" => utask[s] \in Tasks
  BY ListedHaveSessions DEF RefsInv, IoctlsOK
<1>2. IoctlsOK' /\ SessionListsOK'
  BY <1>1 DEF RefsInv, IoctlsOK, SessionListsOK
<1>3. RefCountExact'
  BY DEF RefsInv, RefCountExact, Submitting
<1>4. QueuedIsInSession'
  BY <1>1 DEF RefsInv, QueuedIsInSession
<1> QED  BY <1>2, <1>3, <1>4 DEF RefsInv

\* Every step keeps the references exact, and the lists of sessions in agreement
\* with those of the queue.
LEMMA RefsNext == ExclusionInv /\ RefsInv /\ DetachInv /\ [Next]_vars => RefsInv'
<1> SUFFICES ASSUME ExclusionInv, RefsInv, DetachInv, [Next]_vars PROVE RefsInv'
  OBVIOUS
<1> USE NoneAssumption DEF ExclusionInv, TypeOK, userVars, sessVars, countVars, stateVars,
            queueVars, workerVars, irqVars, runVars
<1>a. /\ \A t \in Listed(qpending) \cup qrunning : t \in Tasks /\ owner[t] \in Sessions
      /\ \A s \in Sessions : \A t \in Listed(spending[s]) : t \in Tasks /\ owner[t] = s
  BY ListedHaveSessions
<1>b. \A s \in Sessions : spending[s] \in Seq(Tasks)
  BY DEF SessionTypeOK
<1>c. IoctlsOK /\ SessionListsOK /\ RefCountExact /\ QueuedIsInSession
  BY DEF RefsInv
<1>d. /\ \A s \in Sessions : upc[s] # "idle" => utask[s] \in Tasks /\ owner[utask[s]] = s
      /\ \A t \in Tasks : owner[t] # None => owner[t] \in Sessions
  BY <1>a, <1>c DEF IoctlsOK, TaskTypeOK
<1>1. ASSUME NEW s \in Sessions, Open(s)
      PROVE  RefsInv'
  BY <1>1, <1>c, RefsFrame DEF Open, IoctlsOK, SessionTypeOK, Has
<1>2. ASSUME NEW s \in Sessions, NEW d \in Devices, InitClientType(s, d)
      PROVE  RefsInv'
  <2>1. /\ sdev' = [sdev EXCEPT ![s] = d]
        /\ UNCHANGED <<sess, spending, owner, flags, abort, qpending, qrunning, upc, utask, ref>>
    BY <1>2 DEF InitClientType
  <2>2. IoctlsOK'  BY <1>c, <2>1 DEF IoctlsOK, Has
  <2>3. SessionListsOK'  BY <1>c, <1>d, <2>1 DEF SessionListsOK, SessionTypeOK
  <2>4. RefCountExact'  BY <1>c, <2>1 DEF RefCountExact, Submitting
  <2>5. QueuedIsInSession'  BY <1>c, <2>1 DEF QueuedIsInSession, Has
  <2> QED  BY <2>2, <2>3, <2>4, <2>5 DEF RefsInv
<1>3. ASSUME NEW s \in Sessions, Release(s)
      PROVE  RefsInv'
  BY <1>3, <1>c, RefsFrame DEF Release, IoctlsOK, SessionTypeOK, Has
<1>4. ASSUME NEW s \in Sessions, ReleaseNoClient(s)
      PROVE  RefsInv'
  <2>1. upc[s] = "idle"
    BY <1>4, <1>a, <1>c, <1>d DEF ReleaseNoClient, IoctlsOK, SessionListsOK
  <2> QED  BY <1>4, <2>1, RefsFrame DEF ReleaseNoClient, SessionTypeOK, Has
<1>5. ASSUME NEW s \in Sessions, NEW t \in Tasks, SendTask(s, t)
      PROVE  RefsInv'
  <2>1. /\ sess[s] = "open" /\ sdev[s] # None /\ upc[s] = "idle" /\ owner[t] = None
        /\ owner' = [owner EXCEPT ![t] = s]
        /\ spending' = [spending EXCEPT ![s] = Append(@, t)]
        /\ ref' = [ref EXCEPT ![t] = 2]
        /\ upc' = [upc EXCEPT ![s] = "push"] /\ utask' = [utask EXCEPT ![s] = t]
        /\ UNCHANGED <<sess, sdev, flags, abort, qpending, qrunning>>
    BY <1>5 DEF SendTask
  <2>2. /\ t \notin Listed(qpending) /\ t \notin qrunning
        /\ \A r \in Sessions : t \notin Listed(spending[r])
    BY <1>a, <2>1
  <2>3. /\ Listed(spending'[s]) = Listed(spending[s]) \cup {t}
        /\ \A i, j \in DOMAIN spending'[s] : spending'[s][i] = spending'[s][j] => i = j
        /\ \A r \in Sessions \ {s} : spending'[r] = spending[r]
    <3>1. /\ spending'[s] = Append(spending[s], t)
          /\ \A r \in Sessions \ {s} : spending'[r] = spending[r]
      BY <2>1 DEF SessionTypeOK
    <3>2. /\ Listed(Append(spending[s], t)) = Listed(spending[s]) \cup {t}
          /\ \A i, j \in DOMAIN Append(spending[s], t) :
               Append(spending[s], t)[i] = Append(spending[s], t)[j] => i = j
      BY <1>b, <1>c, <2>2, AppendFacts DEF SessionListsOK
    <3> QED  BY <3>1, <3>2
  <2>4. IoctlsOK'
    BY <1>c, <2>1, <2>3 DEF IoctlsOK, SessionTypeOK, Has
  <2>5. SessionListsOK'
    <3>1. (\A r \in Sessions : \A i, j \in DOMAIN spending[r] :
             spending[r][i] = spending[r][j] => i = j)'
      BY <1>c, <2>3 DEF SessionListsOK
    <3>2. (\A r \in Sessions : \A u \in Listed(spending[r]) : owner[u] = r)'
      BY <1>a, <1>c, <2>1, <2>2, <2>3 DEF SessionListsOK, TaskTypeOK
    <3>3. (\A u \in Tasks : owner[u] # None => sdev[owner[u]] \in Devices)'
      BY <1>c, <2>1 DEF SessionListsOK, TaskTypeOK, SessionTypeOK
    <3> QED  BY <3>1, <3>2, <3>3 DEF SessionListsOK
  <2>6. RefCountExact'
    <3>1. ASSUME NEW u \in Tasks, u # t, owner[u] # None PROVE Held(u)' = Held(u)
      <4>1. owner'[u] = owner[u] /\ owner[u] \in Sessions
        BY <1>d, <2>1, <3>1
      <4>2. u \in Listed(spending'[owner'[u]]) <=> u \in Listed(spending[owner[u]])
        BY <2>3, <3>1, <4>1
      <4>3. Submitting(u)' <=> Submitting(u)
        BY <2>1, <3>1, <4>1 DEF Submitting, SessionTypeOK
      <4> QED  BY <2>1, <4>2, <4>3 DEF Held, One
    <3>2. Held(t)' = 2
      BY <2>1, <2>2, <2>3 DEF Held, One, Submitting, SessionTypeOK, TaskTypeOK
    <3>3. \A u \in Tasks : owner[u] # None => ref[u] = Held(u)
      BY <1>c, RefExactHeld
    <3>4. ASSUME NEW u \in Tasks, owner'[u] # None PROVE ref'[u] = Held(u)'
      BY <2>1, <3>1, <3>2, <3>3, <3>4 DEF TaskTypeOK, CountTypeOK
    <3> QED  BY <3>4 DEF RefCountExact, Held, One
  <2>7. QueuedIsInSession'
    <3>1. ASSUME NEW u \in Listed(qpending) \cup qrunning
          PROVE  u \in Listed(spending'[owner'[u]]) \/ Has(u, "DONE")' \/ abort'[u] > 0
      <4>1. u \in Tasks /\ u # t /\ owner'[u] = owner[u] /\ owner[u] \in Sessions
        BY <1>a, <2>1, <2>2
      <4> QED  BY <1>c, <2>1, <2>3, <4>1 DEF QueuedIsInSession, Has
    <3> QED  BY <2>1, <3>1 DEF QueuedIsInSession
  <2> QED  BY <2>4, <2>5, <2>6, <2>7 DEF RefsInv
<1>6. ASSUME NEW s \in Sessions, PushPending(s)
      PROVE  RefsInv'
  <2>1. PICK t \in Tasks :
          /\ t = utask[s] /\ upc[s] = "push" /\ owner[t] = s
          /\ t \in Listed(spending[s]) /\ t \notin Listed(qpending) /\ t \notin qrunning
    BY <1>6, <1>c, <1>d DEF PushPending, IoctlsOK, ListsOK
  <2>2. /\ ref' = [ref EXCEPT ![t] = @ + 1] /\ qpending' = Append(qpending, t)
        /\ upc' = [upc EXCEPT ![s] = "trigger"]
        /\ UNCHANGED <<sess, sdev, spending, owner, utask, flags, abort, qrunning>>
    BY <1>6, <2>1 DEF PushPending, Get
  <2>3. Listed(qpending') = Listed(qpending) \cup {t}
    BY <2>1, <2>2, AppendFacts DEF QueueTypeOK
  <2>4. IoctlsOK' /\ SessionListsOK'
    BY <1>c, <2>1, <2>2 DEF IoctlsOK, SessionListsOK, SessionTypeOK, Has
  <2>5. RefCountExact'
    <3>1. \A u \in Tasks : Submitting(u)' <=> Submitting(u)
      BY <2>1, <2>2 DEF Submitting, SessionTypeOK
    <3>2. \A u \in Tasks \ {t} : Held(u)' = Held(u)
      BY <2>2, <2>3, <3>1 DEF Held, One
    <3>3. Held(t)' = Held(t) + 1
      BY <2>1, <2>2, <2>3, <3>1 DEF Held, One
    <3>4. \A u \in Tasks : owner[u] # None => ref[u] = Held(u)
      BY <1>c, RefExactHeld
    <3>5. ASSUME NEW u \in Tasks, owner'[u] # None PROVE ref'[u] = Held(u)'
      BY <2>2, <3>2, <3>3, <3>4, <3>5 DEF CountTypeOK
    <3> QED  BY <3>5 DEF RefCountExact, Held, One
  <2>6. QueuedIsInSession'
    BY <1>c, <2>1, <2>2, <2>3 DEF QueuedIsInSession, Has
  <2> QED  BY <2>4, <2>5, <2>6 DEF RefsInv
<1>7. ASSUME NEW s \in Sessions, TriggerSubmitted(s)
      PROVE  RefsInv'
  <2>1. /\ upc[s] = "trigger" /\ upc' = [upc EXCEPT ![s] = "put"]
        /\ UNCHANGED <<sess, sdev, spending, owner, utask, abort, qpending, qrunning, ref>>
        /\ \A t \in Tasks : Has(t, "DONE") => Has(t, "DONE")'
    BY <1>7 DEF TriggerSubmitted, Has, TaskTypeOK
  <2>2. IoctlsOK' /\ SessionListsOK'
    BY <1>c, <1>d, <2>1 DEF IoctlsOK, SessionListsOK, SessionTypeOK
  <2>3. RefCountExact'
    BY <1>c, <2>1 DEF RefCountExact, Submitting, SessionTypeOK
  <2>4. QueuedIsInSession'
    BY <1>a, <1>c, <2>1 DEF QueuedIsInSession
  <2> QED  BY <2>2, <2>3, <2>4 DEF RefsInv
<1>8. ASSUME NEW s \in Sessions, PutSubmitted(s)
      PROVE  RefsInv'
  <2>1. PICK t \in Tasks : t = utask[s] /\ upc[s] = "put" /\ owner[t] = s
    BY <1>8, <1>d DEF PutSubmitted
  <2>2. /\ Put(t) /\ upc' = [upc EXCEPT ![s] = "idle"]
        /\ utask' = [utask EXCEPT ![s] = None]
        /\ UNCHANGED <<sess, sdev, spending, owner, flags, abort, qpending, qrunning>>
    BY <1>8, <2>1 DEF PutSubmitted
  <2>3. /\ Submitting(t) /\ ~Submitting(t)'
        /\ \A u \in Tasks \ {t} : owner[u] # None => (Submitting(u)' <=> Submitting(u))
    BY <1>d, <2>1, <2>2 DEF Submitting, SessionTypeOK
  <2>4. IoctlsOK' /\ SessionListsOK'
    BY <1>c, <2>1, <2>2 DEF IoctlsOK, SessionListsOK, SessionTypeOK, Has
  <2>5. RefCountExact'
    <3>1. Held(t)' = Held(t) - 1
      BY <2>2, <2>3 DEF Held, One
    <3>2. \A u \in Tasks \ {t} : owner[u] # None => Held(u)' = Held(u)
      BY <2>2, <2>3 DEF Held, One
    <3> QED  BY <1>c, <2>1, <2>2, <3>1, <3>2, RefsPut
  <2>6. QueuedIsInSession'
    BY <1>c, <2>2 DEF QueuedIsInSession, Has
  <2> QED  BY <2>4, <2>5, <2>6 DEF RefsInv
<1>9. ASSUME NEW s \in Sessions, Poll(s)
      PROVE  RefsInv'
  <2>1. /\ sess[s] = "open" /\ upc[s] = "idle" /\ spending[s] # <<>>
        /\ upc' = [upc EXCEPT ![s] = "wait"]
        /\ utask' = [utask EXCEPT ![s] = Head(spending[s])]
        /\ UNCHANGED <<sess, sdev, spending, owner, flags, abort, qpending, qrunning, ref>>
    BY <1>9 DEF Poll
  <2>2. Head(spending[s]) \in Listed(spending[s])
    BY <1>b, <2>1, HeadFacts
  <2>3. IoctlsOK' /\ SessionListsOK'
    BY <1>c, <2>1, <2>2 DEF IoctlsOK, SessionListsOK, SessionTypeOK, Has
  <2>4. RefCountExact'
    BY <1>c, <2>1 DEF RefCountExact, Submitting, SessionTypeOK
  <2>5. QueuedIsInSession'
    BY <1>c, <2>1 DEF QueuedIsInSession, Has
  <2> QED  BY <2>3, <2>4, <2>5 DEF RefsInv
<1>10. ASSUME NEW s \in Sessions, WaitDone(s)
      PROVE  RefsInv'
  <2>1. /\ upc[s] = "wait" /\ Has(utask[s], "DONE") /\ upc' = [upc EXCEPT ![s] = "pop"]
        /\ UNCHANGED <<sess, sdev, spending, owner, utask, flags, abort, qpending, qrunning, ref>>
    BY <1>10 DEF WaitDone
  <2>2. IoctlsOK' /\ SessionListsOK'
    BY <1>c, <2>1 DEF IoctlsOK, SessionListsOK, SessionTypeOK, Has
  <2>3. RefCountExact'
    BY <1>c, <2>1 DEF RefCountExact, Submitting, SessionTypeOK
  <2>4. QueuedIsInSession'
    BY <1>c, <2>1 DEF QueuedIsInSession, Has
  <2> QED  BY <2>2, <2>3, <2>4 DEF RefsInv
<1>11. ASSUME NEW s \in Sessions, WaitTimeout(s)
      PROVE  RefsInv'
  <2> DEFINE t == utask[s]
  <2>1. upc[s] = "wait" /\ t \in Tasks
    BY <1>11, <1>d DEF WaitTimeout
  <2>2. /\ abort' = [abort EXCEPT ![t] = @ + 1]
        /\ flags' = [flags EXCEPT ![t] = @ \cup {"ABORT"}]
        /\ upc' = [upc EXCEPT ![s] = "pop"]
        /\ UNCHANGED <<sess, sdev, spending, owner, utask, qpending, qrunning, ref>>
    BY <1>11 DEF WaitTimeout, AbortRequest
  <2>3. /\ \A u \in Tasks : Has(u, "DONE") => Has(u, "DONE")'
        /\ \A u \in Tasks : abort[u] > 0 => abort'[u] > 0
        /\ abort'[t] > 0
    BY <2>1, <2>2 DEF Has, TaskTypeOK
  <2>4. IoctlsOK'
    <3>1. ASSUME NEW r \in Sessions, upc'[r] = "pop"
          PROVE  Has(utask[r], "DONE")' \/ abort'[utask[r]] > 0
      <4>1. CASE r = s  BY <2>3, <4>1
      <4>2. CASE r # s
        <5>1. upc[r] = "pop"  BY <2>2, <3>1, <4>2 DEF SessionTypeOK
        <5> QED  BY <1>c, <1>d, <2>2, <2>3, <5>1 DEF IoctlsOK
      <4> QED  BY <4>1, <4>2
    <3>2. \A r \in Sessions : upc'[r] # "idle" => upc[r] # "idle"
      BY <2>1, <2>2 DEF SessionTypeOK
    <3> QED  BY <1>c, <2>2, <3>1, <3>2 DEF IoctlsOK
  <2>5. SessionListsOK'
    BY <1>c, <2>2 DEF SessionListsOK
  <2>6. RefCountExact'
    BY <1>c, <2>1, <2>2 DEF RefCountExact, Submitting, SessionTypeOK
  <2>7. QueuedIsInSession'
    BY <1>a, <1>c, <2>2, <2>3 DEF QueuedIsInSession
  <2> QED  BY <2>4, <2>5, <2>6, <2>7 DEF RefsInv
<1>12. ASSUME NEW s \in Sessions, PopSession(s)
      PROVE  RefsInv'
  <2>1. PICK t \in Tasks :
          /\ t = utask[s] /\ upc[s] = "pop" /\ owner[t] = s /\ t \in Listed(spending[s])
          /\ Has(t, "DONE") \/ abort[t] > 0
    BY <1>12, <1>c, <1>d DEF PopSession, IoctlsOK
  <2> DEFINE l == ListDel(spending[s], t)
  <2>2. /\ spending' = [spending EXCEPT ![s] = l] /\ Put(t)
        /\ upc' = [upc EXCEPT ![s] = "idle"] /\ utask' = [utask EXCEPT ![s] = None]
        /\ UNCHANGED <<sess, sdev, owner, flags, abort, qpending, qrunning>>
    BY <1>12, <2>1 DEF PopSession
  <2>3. Listed(l) = Listed(spending[s]) \ {t} /\ \A i, j \in DOMAIN l : l[i] = l[j] => i = j
    BY <1>b, <1>c, ListDelFacts DEF SessionListsOK
  <2> HIDE DEF l
  <2>4. spending'[s] = l /\ \A r \in Sessions \ {s} : spending'[r] = spending[r]
    BY <2>2 DEF SessionTypeOK
  <2>5. IoctlsOK'
    BY <1>c, <2>1, <2>2, <2>4 DEF IoctlsOK, SessionTypeOK, Has
  <2>6. SessionListsOK'
    <3>1. (\A r \in Sessions : \A i, j \in DOMAIN spending[r] :
             spending[r][i] = spending[r][j] => i = j)'
      BY <1>c, <2>3, <2>4 DEF SessionListsOK
    <3>2. (\A r \in Sessions : \A u \in Listed(spending[r]) : owner[u] = r)'
      BY <1>c, <2>2, <2>3, <2>4 DEF SessionListsOK
    <3> QED  BY <1>c, <2>2, <3>1, <3>2 DEF SessionListsOK
  <2>7. RefCountExact'
    <3>1. ~Submitting(t) /\ ~Submitting(t)'
      BY <2>1, <2>2 DEF Submitting, SessionTypeOK
    <3>2. Held(t)' = Held(t) - 1
      BY <2>1, <2>2, <2>3, <2>4, <3>1 DEF Held, One
    <3>3. ASSUME NEW u \in Tasks \ {t}, owner[u] # None PROVE Held(u)' = Held(u)
      <4>1. owner'[u] = owner[u] /\ owner[u] \in Sessions
        BY <1>d, <2>2, <3>3
      <4>2. u \in Listed(spending'[owner'[u]]) <=> u \in Listed(spending[owner[u]])
        BY <2>3, <2>4, <4>1
      <4>3. Submitting(u)' <=> Submitting(u)
        BY <2>1, <2>2, <4>1 DEF Submitting, SessionTypeOK
      <4> QED  BY <2>2, <4>2, <4>3 DEF Held, One
    <3> QED  BY <1>c, <2>1, <2>2, <3>2, <3>3, RefsPut
  <2>8. QueuedIsInSession'
    <3>1. ASSUME NEW u \in Listed(qpending) \cup qrunning
          PROVE  u \in Listed(spending'[owner'[u]]) \/ Has(u, "DONE")' \/ abort'[u] > 0
      BY <1>a, <1>c, <2>1, <2>2, <2>3, <2>4 DEF QueuedIsInSession, Has
    <3> QED  BY <2>2, <3>1 DEF QueuedIsInSession
  <2> QED  BY <2>5, <2>6, <2>7, <2>8 DEF RefsInv
<1>13. ASSUME NEW d \in Devices, WorkerStart(d)
      PROVE  RefsInv'
  BY <1>13, RefsFrame DEF WorkerStart, Has
<1>14. ASSUME WorkerNoTask
      PROVE  RefsInv'
  BY <1>14, RefsFrame DEF WorkerNoTask, Has
<1>15. ASSUME WorkerDropAborted
      PROVE  RefsInv'
  <2>1. PICK t \in Tasks : t = Head(qpending) /\ t \in Listed(qpending) /\ t \notin qrunning
    BY <1>15, <1>a, HeadFacts DEF WorkerDropAborted, QueueTypeOK, ListsOK
  <2> DEFINE q == ListDel(qpending, t)
  <2>2. /\ qpending' = q /\ Put(t)
        /\ UNCHANGED <<sess, sdev, spending, owner, flags, abort, qrunning, upc, utask>>
    BY <1>15, <2>1 DEF WorkerDropAborted
  <2>3. Listed(q) = Listed(qpending) \ {t}
    BY ListDelFacts DEF ListsOK, QueueTypeOK
  <2> HIDE DEF q
  <2>4. IoctlsOK' /\ SessionListsOK'
    BY <1>c, <2>2 DEF IoctlsOK, SessionListsOK, Has
  <2>5. RefCountExact'
    <3>1. \A u : Submitting(u)' <=> Submitting(u)
      BY <2>2 DEF Submitting
    <3>2. Held(t)' = Held(t) - 1
      BY <2>1, <2>2, <2>3, <3>1 DEF Held, One
    <3>3. \A u \in Tasks \ {t} : owner[u] # None => Held(u)' = Held(u)
      BY <2>2, <2>3, <3>1 DEF Held, One
    <3> QED  BY <1>c, <2>1, <2>2, <3>2, <3>3, RefsPut
  <2>6. QueuedIsInSession'
    BY <1>c, <2>2, <2>3 DEF QueuedIsInSession, Has
  <2> QED  BY <2>4, <2>5, <2>6 DEF RefsInv
<1>16. ASSUME WorkerTake
      PROVE  RefsInv'
  BY <1>16, RefsFrame DEF WorkerTake, Has
<1>17. ASSUME WorkerBusy
      PROVE  RefsInv'
  BY <1>17, RefsFrame DEF WorkerBusy, Has
<1>18. ASSUME WorkerToRun
      PROVE  RefsInv'
  <2> DEFINE q == ListDel(qpending, wtask)
  <2>1. wtask \in Listed(qpending) /\ wtask \in Tasks /\ wtask \notin qrunning
    BY <1>18, <1>a DEF WorkerToRun, ListsOK
  <2>2. /\ qpending' = q /\ qrunning' = qrunning \cup {wtask}
        /\ UNCHANGED <<sess, sdev, spending, owner, abort, upc, utask, ref>>
        /\ \A u \in Tasks : Has(u, "DONE") => Has(u, "DONE")'
    BY <1>18 DEF WorkerToRun, Has, TaskTypeOK
  <2>3. Listed(q) = Listed(qpending) \ {wtask}
    BY ListDelFacts DEF ListsOK, QueueTypeOK
  <2> HIDE DEF q
  <2>4. IoctlsOK' /\ SessionListsOK'
    BY <1>c, <1>d, <2>2 DEF IoctlsOK, SessionListsOK
  <2>5. RefCountExact'
    <3>1. \A u : Submitting(u)' <=> Submitting(u)
      BY <2>2 DEF Submitting
    <3>2. \A u \in Tasks : Held(u)' = Held(u)
      BY <2>1, <2>2, <2>3, <3>1 DEF Held, One
    <3>3. \A u \in Tasks : owner[u] # None => ref[u] = Held(u)
      BY <1>c, RefExactHeld
    <3>4. ASSUME NEW u \in Tasks, owner'[u] # None PROVE ref'[u] = Held(u)'
      BY <2>2, <3>2, <3>3, <3>4
    <3> QED  BY <3>4 DEF RefCountExact, Held, One
  <2>6. QueuedIsInSession'
    BY <1>a, <1>c, <2>1, <2>2, <2>3 DEF QueuedIsInSession
  <2> QED  BY <2>4, <2>5, <2>6 DEF RefsInv
<1>19. ASSUME WorkerRun
      PROVE  RefsInv'
  <2>1. \A t \in Tasks : Has(t, "DONE") => Has(t, "DONE")'
    BY <1>19 DEF WorkerRun, Has, TaskTypeOK
  <2> QED  BY <1>19, <2>1, RefsFrame DEF WorkerRun
<1>e. ASSUME NEW t \in qrunning, Put(t), qrunning' = qrunning \ {t},
             UNCHANGED <<sess, sdev, spending, owner, flags, abort, qpending, upc, utask>>
      PROVE  RefsInv'
  <2>1. t \in Tasks /\ t \notin Listed(qpending)
    BY <1>a, <1>e DEF ListsOK
  <2>2. IoctlsOK' /\ SessionListsOK'
    BY <1>c, <1>e DEF IoctlsOK, SessionListsOK, Has
  <2>3. RefCountExact'
    <3>1. \A u : Submitting(u)' <=> Submitting(u)
      BY <1>e DEF Submitting
    <3>2. Held(t)' = Held(t) - 1
      BY <1>e, <2>1, <3>1 DEF Held, One
    <3>3. \A u \in Tasks \ {t} : owner[u] # None => Held(u)' = Held(u)
      BY <1>e, <3>1 DEF Held, One
    <3> QED  BY <1>c, <1>e, <2>1, <3>2, <3>3, RefsPut
  <2>4. QueuedIsInSession'
    BY <1>c, <1>e DEF QueuedIsInSession, Has
  <2> QED  BY <2>2, <2>3, <2>4 DEF RefsInv
<1>20. ASSUME WorkerRunFail
      PROVE  RefsInv'
  <2>1. wtask \in qrunning
    BY <1>20 DEF WorkerRunFail, ListsOK
  <2> QED  BY <1>20, <1>e, <2>1 DEF WorkerRunFail
<1>21. ASSUME WorkerDetach
      PROVE  RefsInv'
  BY <1>21, RefsFrame DEF WorkerDetach, Has
<1>22. ASSUME WorkerEnd
      PROVE  RefsInv'
  BY <1>22, RefsFrame DEF WorkerEnd, Has
<1>23. ASSUME WorkerDeinitBusy
      PROVE  RefsInv'
  BY <1>23, RefsFrame DEF WorkerDeinitBusy, Has
<1>24. ASSUME WorkerDeinit
      PROVE  RefsInv'
  <2>1. wsess \in Sessions /\ upc[wsess] = "idle"
    BY <1>24, <1>c DEF WorkerDeinit, DetachInv, QueueTypeOK, IoctlsOK
  <2> QED  BY <1>24, <2>1, RefsFrame DEF WorkerDeinit, SessionTypeOK, Has
<1>25. ASSUME NEW d \in Devices, NEW st \in {"ok", "error"}, HwDone(d, st)
      PROVE  RefsInv'
  BY <1>25, RefsFrame DEF HwDone, Has
<1>26. ASSUME NEW d \in Devices, DevIrq(d)
      PROVE  RefsInv'
  BY <1>26, RefsFrame DEF DevIrq, Has
<1>26a. ASSUME NEW d \in Devices, DevIrqStatus(d)
      PROVE  RefsInv'
  BY <1>26a, RefsFrame DEF DevIrqStatus, Has
<1>26b. ASSUME NEW d \in Devices, DevIrqHandle(d)
      PROVE  RefsInv'
  <2>1. \A t \in Tasks : Has(t, "DONE") => Has(t, "DONE")'
    <3>1. flags' = [flags EXCEPT ![htask[d]] = @ \cup {"HANDLE"}] \/ flags' = flags
      BY <1>26b DEF DevIrqHandle
    <3> QED  BY <3>1 DEF Has, TaskTypeOK
  <2> QED  BY <1>26b, <2>1, RefsFrame DEF DevIrqHandle
<1>26c. ASSUME NEW d \in Devices, DevIrqWild(d)
      PROVE  RefsInv'
  BY <1>26c, RefsFrame DEF DevIrqWild, Has
<1>27. ASSUME NEW d \in Devices, DevIrqWake(d)
      PROVE  RefsInv'
  <2>1. \A t \in Tasks : Has(t, "DONE") => Has(t, "DONE")'
    BY <1>27 DEF DevIrqWake, Has, TaskTypeOK
  <2> QED  BY <1>27, <2>1, RefsFrame DEF DevIrqWake
<1>28. ASSUME NEW d \in Devices, Isr(d)
      PROVE  RefsInv'
  BY <1>28, RefsFrame DEF Isr, Has
<1>29. ASSUME NEW d \in Devices, IsrFinish(d)
      PROVE  RefsInv'
  <2>1. \A t \in Tasks : Has(t, "DONE") => Has(t, "DONE")'
    BY <1>29 DEF IsrFinish, Has, TaskTypeOK
  <2> QED  BY <1>29, <2>1, RefsFrame DEF IsrFinish
<1>30. ASSUME NEW d \in Devices, IsrPop(d)
      PROVE  RefsInv'
  <2>1. itask[d] \in qrunning
    BY <1>30 DEF IsrPop, StagesOK, Started
  <2> QED  BY <1>30, <1>e, <2>1 DEF IsrPop
<1>31. ASSUME NEW d \in Devices, IsrTrigger(d)
      PROVE  RefsInv'
  BY <1>31, RefsFrame DEF IsrTrigger, Has
<1>32. ASSUME NEW t \in Tasks, TimeoutStart(t)
      PROVE  RefsInv'
  <2>1. \A u \in Tasks : Has(u, "DONE") => Has(u, "DONE")'
    <3>1. flags' = [flags EXCEPT ![t] = @ \cup {"HANDLE"}] \/ flags' = flags
      BY <1>32 DEF TimeoutStart
    <3> QED  BY <3>1 DEF Has, TaskTypeOK
  <2> QED  BY <1>32, <2>1, RefsFrame DEF TimeoutStart
<1>33. ASSUME NEW t \in Tasks, TimeoutReset(t)
      PROVE  RefsInv'
  <2>1. \A u \in Tasks : Has(u, "DONE") => Has(u, "DONE")'
    BY <1>33 DEF TimeoutReset, Has, TaskTypeOK
  <2> QED  BY <1>33, <2>1, RefsFrame DEF TimeoutReset
<1>34. ASSUME NEW t \in Tasks, TimeoutPop(t)
      PROVE  RefsInv'
  <2>1. t \in qrunning
    BY <1>34 DEF TimeoutPop, TimersOK, Started
  <2> QED  BY <1>34, <1>e, <2>1 DEF TimeoutPop
<1>35. ASSUME UNCHANGED vars
      PROVE  RefsInv'
  BY <1>35, RefsFrame DEF vars, Has
<1> QED
  BY <1>1, <1>2, <1>3, <1>4, <1>5, <1>6, <1>7, <1>8, <1>9, <1>10, <1>11, <1>12,
     <1>13, <1>14, <1>15, <1>16, <1>17, <1>18, <1>19, <1>20, <1>21, <1>22, <1>23, <1>24,
     <1>25, <1>26, <1>26a, <1>26b, <1>26c, <1>27, <1>28, <1>29, <1>30, <1>31, <1>32, <1>33, <1>34, <1>35 DEF
     Next, Ioctl, Worker, HardIrq, IrqThread, Timeout

-----------------------------------------------------------------------------
(* The task counters.                                                       *)

\* TaskCountsExact in terms of the sets it counts, which are finite.
LEMMA CountsOfSets ==
  /\ TaskCountsExact <=>
       /\ \A s \in Sessions : taskCount[s] = Cardinality(LiveOf(s))
       /\ \A d \in Devices : devCount[d] = Cardinality(PushedOf(d))
  /\ IsFiniteSet(Allocated) =>
       /\ \A s : IsFiniteSet(LiveOf(s))
       /\ \A d : IsFiniteSet(PushedOf(d)) /\ IsFiniteSet(OnOf(d))
<1>1. TaskCountsExact <=>
       /\ \A s \in Sessions : taskCount[s] = Cardinality(LiveOf(s))
       /\ \A d \in Devices : devCount[d] = Cardinality(PushedOf(d))
  BY DEF TaskCountsExact, LiveOf, PushedOf, Pushing
<1>2. ASSUME IsFiniteSet(Allocated), NEW s PROVE IsFiniteSet(LiveOf(s))
  <2>1. LiveOf(s) \subseteq Allocated  BY DEF LiveOf, Live, Allocated
  <2> QED  BY <1>2, <2>1, FS_Subset
<1>3. ASSUME IsFiniteSet(Allocated), NEW d PROVE IsFiniteSet(PushedOf(d)) /\ IsFiniteSet(OnOf(d))
  <2>1. PushedOf(d) \subseteq Allocated /\ OnOf(d) \subseteq Allocated
    BY DEF PushedOf, OnOf, Live, Allocated
  <2> QED  BY <1>3, <2>1, FS_Subset
<1> QED  BY <1>1, <1>2, <1>3

\* What every holder may rely on: a task in a list, or being submitted, is live.
LEMMA HeldIsLive ==
  ASSUME ExclusionInv, RefsInv
  PROVE  /\ \A t \in Listed(qpending) \cup qrunning : t \in Tasks /\ Live(t) /\ ~Pushing(t)
         /\ \A s \in Sessions : \A t \in Listed(spending[s]) : t \in Tasks /\ Live(t) /\ owner[t] = s
         /\ \A s \in Sessions : upc[s] # "idle" =>
              utask[s] \in Tasks /\ Live(utask[s]) /\ owner[utask[s]] = s
<1>1. /\ \A t \in Listed(qpending) \cup qrunning : t \in Tasks /\ owner[t] \in Sessions
      /\ \A s \in Sessions : \A t \in Listed(spending[s]) : t \in Tasks /\ owner[t] = s
  BY ListedHaveSessions
<1>2. \A t \in Tasks : owner[t] # None => ref[t] = Held(t)
  BY RefExactHeld DEF RefsInv
<1>3. \A t \in Listed(qpending) \cup qrunning : t \in Tasks /\ Live(t)
  BY <1>1, <1>2, NoneAssumption DEF Held, One, Live
<1>4. \A s \in Sessions : \A t \in Listed(spending[s]) : t \in Tasks /\ Live(t) /\ owner[t] = s
  BY <1>1, <1>2, NoneAssumption DEF Held, One, Live
<1>5. \A t \in Listed(qpending) \cup qrunning : ~Pushing(t)
  BY <1>1 DEF Pushing, ExclusionInv, ListsOK
<1> QED  BY <1>3, <1>4, <1>5 DEF RefsInv, IoctlsOK

\* A step that neither takes nor drops a reference.
LEMMA CountsFrame ==
  ASSUME CountsInv, UNCHANGED <<owner, sdev, ref, taskCount, devCount>>,
         \A t \in Allocated : Pushing(t)' <=> Pushing(t)
  PROVE  CountsInv'
<1>1. Allocated' = Allocated
  BY DEF Allocated
<1>2. \A s : LiveOf(s)' = LiveOf(s)
  BY DEF LiveOf, Live
<1>3. \A d : PushedOf(d)' = PushedOf(d)
  BY DEF PushedOf, Live, DeviceOf, Allocated
<1>4. /\ \A s \in Sessions : taskCount[s] = Cardinality(LiveOf(s))
      /\ \A d \in Devices : devCount[d] = Cardinality(PushedOf(d))
  BY CountsOfSets DEF CountsInv
<1>5. TaskCountsExact'
  <2>1. \A s \in Sessions : taskCount'[s] = Cardinality(LiveOf(s)')
    BY <1>2, <1>4
  <2>2. \A d \in Devices : devCount'[d] = Cardinality(PushedOf(d)')
    BY <1>3, <1>4
  <2> QED  BY <2>1, <2>2 DEF TaskCountsExact, LiveOf, PushedOf, Pushing
<1> QED  BY <1>1, <1>5 DEF CountsInv

\* mpp_free_task runs on the last kref_put, and then both counters drop by one.
LEMMA CountsPut ==
  ASSUME TypeOK, CountsInv, NEW t \in Tasks, Live(t), owner[t] \in Sessions, ~Pushing(t),
         Put(t), UNCHANGED <<owner, sdev>>, \A u \in Allocated : Pushing(u)' <=> Pushing(u)
  PROVE  CountsInv'
<1> DEFINE freed == IF ref[t] = 1 THEN 1 ELSE 0
<1>1. /\ ref' = [ref EXCEPT ![t] = @ - 1]
      /\ taskCount' = [taskCount EXCEPT ![owner[t]] = @ - freed]
      /\ devCount' = [devCount EXCEPT ![DeviceOf(t)] = @ - freed]
  BY DEF Put, LastRef
<1>2. /\ \A s \in Sessions : taskCount[s] = Cardinality(LiveOf(s)) /\ IsFiniteSet(LiveOf(s))
      /\ \A d \in Devices : devCount[d] = Cardinality(PushedOf(d)) /\ IsFiniteSet(PushedOf(d))
  BY CountsOfSets DEF CountsInv
<1>3. Allocated' = Allocated
  BY DEF Allocated
<1>4. ref[t] \in Int /\ ref[t] > 0 /\ t \in Allocated
  BY NoneAssumption DEF TypeOK, CountTypeOK, Live, Allocated
<1>5. \A u \in Tasks : Live(u)' <=> Live(u) /\ (u = t => ref[t] # 1)
  BY <1>1, <1>4 DEF Live, TypeOK, CountTypeOK
<1>6. ASSUME NEW s \in Sessions PROVE taskCount'[s] = Cardinality(LiveOf(s)')
  <2>1. CASE s = owner[t] /\ ref[t] = 1
    <3>1. LiveOf(s)' = LiveOf(s) \ {t} /\ t \in LiveOf(s)
      BY <1>5, <2>1 DEF LiveOf
    <3>2. taskCount'[s] = taskCount[s] - 1
      BY <1>1, <2>1 DEF TypeOK, CountTypeOK
    <3> QED  BY <1>2, <3>1, <3>2, FS_RemoveElement
  <2>2. CASE ~(s = owner[t] /\ ref[t] = 1)
    <3>1. LiveOf(s)' = LiveOf(s)
      BY <1>5, <2>2 DEF LiveOf
    <3>2. taskCount'[s] = taskCount[s]
      BY <1>1, <2>2 DEF TypeOK, CountTypeOK
    <3> QED  BY <1>2, <3>1, <3>2
  <2> QED  BY <2>1, <2>2
<1>7. ASSUME NEW d \in Devices PROVE devCount'[d] = Cardinality(PushedOf(d)')
  <2>0. \A u \in Tasks : (Live(u) \/ Live(u)') => (Pushing(u)' <=> Pushing(u))
    BY DEF Live, Allocated
  <2>1. CASE d = DeviceOf(t) /\ ref[t] = 1
    <3>1. PushedOf(d)' = PushedOf(d) \ {t} /\ t \in PushedOf(d)
      BY <1>5, <2>0, <2>1 DEF PushedOf, DeviceOf
    <3>2. devCount'[d] = devCount[d] - 1
      BY <1>1, <2>1 DEF TypeOK, CountTypeOK
    <3> QED  BY <1>2, <3>1, <3>2, FS_RemoveElement
  <2>2. CASE ~(d = DeviceOf(t) /\ ref[t] = 1)
    <3>1. PushedOf(d)' = PushedOf(d)
      BY <1>5, <2>0, <2>2 DEF PushedOf, DeviceOf
    <3>2. devCount'[d] = devCount[d]
      BY <1>1, <2>2 DEF TypeOK, CountTypeOK
    <3> QED  BY <1>2, <3>1, <3>2
  <2> QED  BY <2>1, <2>2
<1>8. TaskCountsExact'
  BY <1>6, <1>7 DEF TaskCountsExact, LiveOf, PushedOf, Pushing
<1> QED  BY <1>3, <1>8 DEF CountsInv

\* No task has been allocated.
LEMMA CountsInit == Init => CountsInv
<1> SUFFICES ASSUME Init PROVE CountsInv
  OBVIOUS
<1>1. /\ Allocated = {} /\ \A s \in Sessions : taskCount[s] = 0 /\ LiveOf(s) = {}
      /\ \A d \in Devices : devCount[d] = 0 /\ PushedOf(d) = {}
  BY DEF Init, InitFrom, Allocated, LiveOf, PushedOf, Live
<1> QED  BY <1>1, CountsOfSets, FS_EmptySet DEF CountsInv

\* Every step keeps the task counters exact.
LEMMA CountsNext == ExclusionInv /\ RefsInv /\ CountsInv /\ [Next]_vars => CountsInv'
<1> SUFFICES ASSUME ExclusionInv, RefsInv, CountsInv, [Next]_vars PROVE CountsInv'
  OBVIOUS
<1> USE NoneAssumption DEF userVars, sessVars, countVars, stateVars, queueVars, workerVars,
            irqVars, runVars
<1>a. TypeOK /\ SessionTypeOK /\ TaskTypeOK /\ CountTypeOK
  BY DEF ExclusionInv, TypeOK
<1>b. /\ \A t \in Listed(qpending) \cup qrunning : t \in Tasks /\ Live(t) /\ ~Pushing(t)
      /\ \A s \in Sessions : \A t \in Listed(spending[s]) : t \in Tasks /\ Live(t) /\ owner[t] = s
      /\ \A s \in Sessions : upc[s] # "idle" =>
           utask[s] \in Tasks /\ Live(utask[s]) /\ owner[utask[s]] = s
  BY HeldIsLive
<1>c. /\ \A s \in Sessions : taskCount[s] = Cardinality(LiveOf(s)) /\ IsFiniteSet(LiveOf(s))
      /\ \A d \in Devices : devCount[d] = Cardinality(PushedOf(d)) /\ IsFiniteSet(PushedOf(d))
      /\ IsFiniteSet(Allocated)
  BY CountsOfSets DEF CountsInv
<1>d. \A t \in Tasks : owner[t] # None => owner[t] \in Sessions /\ sdev[owner[t]] \in Devices
  BY <1>a DEF TaskTypeOK, RefsInv, SessionListsOK
<1>1. ASSUME NEW s \in Sessions, Open(s)
      PROVE  CountsInv'
  BY <1>1, CountsFrame DEF Open, Pushing
<1>2. ASSUME NEW s \in Sessions, NEW d \in Devices, InitClientType(s, d)
      PROVE  CountsInv'
  <2>1. /\ sdev[s] = None /\ sdev' = [sdev EXCEPT ![s] = d]
        /\ UNCHANGED <<owner, ref, taskCount, devCount, upc, utask>>
    BY <1>2 DEF InitClientType
  <2>2. \A t \in Tasks : owner[t] # None => owner[t] # s /\ DeviceOf(t)' = DeviceOf(t)
    BY <1>a, <1>d, <2>1 DEF DeviceOf, SessionTypeOK
  <2>3. /\ Allocated' = Allocated
        /\ \A r : LiveOf(r)' = LiveOf(r)
        /\ \A e : PushedOf(e)' = PushedOf(e)
    BY <2>1, <2>2 DEF Allocated, LiveOf, PushedOf, Live, Pushing
  <2>4. /\ \A r \in Sessions : taskCount'[r] = Cardinality(LiveOf(r)')
        /\ \A e \in Devices : devCount'[e] = Cardinality(PushedOf(e)')
    BY <1>c, <2>1, <2>3
  <2>5. TaskCountsExact'
    BY <2>4 DEF TaskCountsExact, LiveOf, PushedOf, Pushing
  <2> QED  BY <1>c, <2>3, <2>5 DEF CountsInv
<1>3. ASSUME NEW s \in Sessions, Release(s)
      PROVE  CountsInv'
  BY <1>3, CountsFrame DEF Release, Pushing
<1>4. ASSUME NEW s \in Sessions, ReleaseNoClient(s)
      PROVE  CountsInv'
  BY <1>4, CountsFrame DEF ReleaseNoClient, Pushing
<1>5. ASSUME NEW s \in Sessions, NEW t \in Tasks, SendTask(s, t)
      PROVE  CountsInv'
  <2>1. /\ upc[s] = "idle" /\ owner[t] = None
        /\ owner' = [owner EXCEPT ![t] = s]
        /\ taskCount' = [taskCount EXCEPT ![s] = @ + 1]
        /\ ref' = [ref EXCEPT ![t] = 2]
        /\ upc' = [upc EXCEPT ![s] = "push"] /\ utask' = [utask EXCEPT ![s] = t]
        /\ UNCHANGED <<sdev, devCount>>
    BY <1>5 DEF SendTask
  <2>2. Allocated' = Allocated \cup {t} /\ t \notin Allocated
    BY <1>a, <2>1 DEF Allocated, TaskTypeOK
  <2>3. \A u \in Tasks : u # t => (Live(u)' <=> Live(u)) /\ owner'[u] = owner[u]
    BY <1>a, <2>1 DEF Live, TaskTypeOK, CountTypeOK
  <2>4. Live(t)' /\ ~Live(t) /\ owner'[t] = s /\ Pushing(t)'
    BY <1>a, <2>1 DEF Live, Pushing, TaskTypeOK, CountTypeOK, SessionTypeOK
  <2>5. \A u \in Tasks : u # t /\ Live(u) => (Pushing(u)' <=> Pushing(u))
    BY <1>a, <1>d, <2>1, <2>3 DEF Live, Pushing, SessionTypeOK
  <2>6. ASSUME NEW r \in Sessions PROVE taskCount'[r] = Cardinality(LiveOf(r)')
    <3>1. CASE r = s
      <4>1. LiveOf(r)' = LiveOf(r) \cup {t} /\ t \notin LiveOf(r)
        BY <2>3, <2>4, <3>1 DEF LiveOf
      <4>2. taskCount'[r] = taskCount[r] + 1
        BY <1>a, <2>1, <3>1 DEF CountTypeOK
      <4> QED  BY <1>c, <4>1, <4>2, FS_AddElement
    <3>2. CASE r # s
      <4>1. LiveOf(r)' = LiveOf(r)
        BY <2>3, <2>4, <3>2 DEF LiveOf
      <4>2. taskCount'[r] = taskCount[r]
        BY <1>a, <2>1, <3>2 DEF CountTypeOK
      <4> QED  BY <1>c, <4>1, <4>2
    <3> QED  BY <3>1, <3>2
  <2>7. \A e : PushedOf(e)' = PushedOf(e)
    BY <2>1, <2>3, <2>4, <2>5 DEF PushedOf, DeviceOf
  <2>8. \A e \in Devices : devCount'[e] = Cardinality(PushedOf(e)')
    BY <1>c, <2>1, <2>7
  <2>9. TaskCountsExact'
    BY <2>6, <2>8 DEF TaskCountsExact, LiveOf, PushedOf, Pushing
  <2>10. IsFiniteSet(Allocated')
    BY <1>c, <2>2, FS_AddElement
  <2> QED  BY <2>9, <2>10 DEF CountsInv
<1>6. ASSUME NEW s \in Sessions, PushPending(s)
      PROVE  CountsInv'
  <2>1. PICK t \in Tasks : t = utask[s] /\ upc[s] = "push" /\ Live(t) /\ owner[t] = s
    BY <1>6, <1>b DEF PushPending
  <2>2. /\ devCount' = [devCount EXCEPT ![sdev[s]] = @ + 1]
        /\ ref' = [ref EXCEPT ![t] = @ + 1]
        /\ upc' = [upc EXCEPT ![s] = "trigger"]
        /\ UNCHANGED <<owner, sdev, utask, taskCount>>
    BY <1>6, <2>1 DEF PushPending, Get
  <2>3. \A u \in Tasks : Live(u)' <=> Live(u)
    BY <1>a, <2>1, <2>2 DEF Live, CountTypeOK
  <2>4. /\ Pushing(t) /\ ~Pushing(t)'
        /\ \A u \in Tasks : u # t /\ Live(u) => (Pushing(u)' <=> Pushing(u))
    BY <1>a, <1>d, <2>1, <2>2 DEF Live, Pushing, SessionTypeOK
  <2>5. /\ Allocated' = Allocated
        /\ \A r : LiveOf(r)' = LiveOf(r)
    BY <2>2, <2>3 DEF Allocated, LiveOf
  <2>6. \A r \in Sessions : taskCount'[r] = Cardinality(LiveOf(r)')
    BY <1>c, <2>2, <2>5
  <2>7. ASSUME NEW d \in Devices PROVE devCount'[d] = Cardinality(PushedOf(d)')
    <3>1. CASE d = sdev[s]
      <4>1. PushedOf(d)' = PushedOf(d) \cup {t} /\ t \notin PushedOf(d)
        BY <2>1, <2>2, <2>3, <2>4, <3>1 DEF PushedOf, DeviceOf
      <4>2. devCount'[d] = devCount[d] + 1
        BY <1>a, <2>2, <3>1 DEF CountTypeOK
      <4> QED  BY <1>c, <4>1, <4>2, FS_AddElement
    <3>2. CASE d # sdev[s]
      <4>1. PushedOf(d)' = PushedOf(d)
        BY <2>1, <2>2, <2>3, <2>4, <3>2 DEF PushedOf, DeviceOf
      <4>2. devCount'[d] = devCount[d]
        BY <1>a, <2>2, <3>2 DEF CountTypeOK
      <4> QED  BY <1>c, <4>1, <4>2
    <3> QED  BY <3>1, <3>2
  <2>8. TaskCountsExact'
    BY <2>6, <2>7 DEF TaskCountsExact, LiveOf, PushedOf, Pushing
  <2> QED  BY <1>c, <2>5, <2>8 DEF CountsInv
<1>7. ASSUME NEW s \in Sessions, TriggerSubmitted(s)
      PROVE  CountsInv'
  <2>1. \A t \in Allocated : Pushing(t)' <=> Pushing(t)
    BY <1>7, <1>a, <1>d DEF TriggerSubmitted, Allocated, Pushing, SessionTypeOK
  <2> QED  BY <1>7, <2>1, CountsFrame DEF TriggerSubmitted
<1>8. ASSUME NEW s \in Sessions, PutSubmitted(s)
      PROVE  CountsInv'
  <2>1. PICK t \in Tasks : t = utask[s] /\ upc[s] = "put" /\ Live(t) /\ owner[t] = s
    BY <1>8, <1>b DEF PutSubmitted
  <2>2. Put(t) /\ UNCHANGED <<owner, sdev>>
    BY <1>8, <2>1 DEF PutSubmitted
  <2>3. \A u \in Allocated : Pushing(u)' <=> Pushing(u)
    BY <1>8, <1>a, <1>d DEF PutSubmitted, Allocated, Pushing, SessionTypeOK
  <2>4. ~Pushing(t)
    BY <2>1 DEF Pushing
  <2> QED  BY <1>a, <2>1, <2>2, <2>3, <2>4, CountsPut
<1>9. ASSUME NEW s \in Sessions, Poll(s)
      PROVE  CountsInv'
  <2>1. \A t \in Allocated : Pushing(t)' <=> Pushing(t)
    BY <1>9, <1>a, <1>d DEF Poll, Allocated, Pushing, SessionTypeOK
  <2> QED  BY <1>9, <2>1, CountsFrame DEF Poll
<1>10. ASSUME NEW s \in Sessions, WaitDone(s)
      PROVE  CountsInv'
  <2>1. \A t \in Allocated : Pushing(t)' <=> Pushing(t)
    BY <1>10, <1>a, <1>d DEF WaitDone, Allocated, Pushing, SessionTypeOK
  <2> QED  BY <1>10, <2>1, CountsFrame DEF WaitDone
<1>11. ASSUME NEW s \in Sessions, WaitTimeout(s)
      PROVE  CountsInv'
  <2>1. \A t \in Allocated : Pushing(t)' <=> Pushing(t)
    BY <1>11, <1>a, <1>d DEF WaitTimeout, Allocated, Pushing, SessionTypeOK
  <2> QED  BY <1>11, <2>1, CountsFrame DEF WaitTimeout
<1>12. ASSUME NEW s \in Sessions, PopSession(s)
      PROVE  CountsInv'
  <2>1. PICK t \in Tasks : t = utask[s] /\ upc[s] = "pop" /\ Live(t) /\ owner[t] = s
    BY <1>12, <1>b DEF PopSession
  <2>2. Put(t) /\ UNCHANGED <<owner, sdev>>
    BY <1>12, <2>1 DEF PopSession
  <2>3. \A u \in Allocated : Pushing(u)' <=> Pushing(u)
    BY <1>12, <1>a, <1>d DEF PopSession, Allocated, Pushing, SessionTypeOK
  <2>4. ~Pushing(t)
    BY <2>1 DEF Pushing
  <2> QED  BY <1>a, <2>1, <2>2, <2>3, <2>4, CountsPut
<1>e. ASSUME NEW t \in Listed(qpending) \cup qrunning, Put(t), UNCHANGED <<owner, sdev, upc, utask>>
      PROVE  CountsInv'
  <2>1. t \in Tasks /\ Live(t) /\ ~Pushing(t) /\ owner[t] \in Sessions
    BY <1>b, <1>d, <1>e DEF Live
  <2>2. \A u : Pushing(u)' <=> Pushing(u)
    BY <1>e DEF Pushing
  <2> QED  BY <1>a, <1>e, <2>1, <2>2, CountsPut
<1>13. ASSUME NEW d \in Devices, WorkerStart(d)
      PROVE  CountsInv'
  BY <1>13, CountsFrame DEF WorkerStart, Pushing
<1>14. ASSUME WorkerNoTask
      PROVE  CountsInv'
  BY <1>14, CountsFrame DEF WorkerNoTask, Pushing
<1>15. ASSUME WorkerDropAborted
      PROVE  CountsInv'
  <2>1. Head(qpending) \in Listed(qpending)
    BY <1>15, HeadFacts DEF WorkerDropAborted, ExclusionInv, TypeOK, QueueTypeOK
  <2> QED  BY <1>15, <1>e, <2>1 DEF WorkerDropAborted
<1>16. ASSUME WorkerTake
      PROVE  CountsInv'
  BY <1>16, CountsFrame DEF WorkerTake, Pushing
<1>17. ASSUME WorkerBusy
      PROVE  CountsInv'
  BY <1>17, CountsFrame DEF WorkerBusy, Pushing
<1>18. ASSUME WorkerToRun
      PROVE  CountsInv'
  BY <1>18, CountsFrame DEF WorkerToRun, Pushing
<1>19. ASSUME WorkerRun
      PROVE  CountsInv'
  BY <1>19, CountsFrame DEF WorkerRun, Pushing
<1>20. ASSUME WorkerRunFail
      PROVE  CountsInv'
  <2>1. wtask \in qrunning
    BY <1>20 DEF WorkerRunFail, ExclusionInv, ListsOK
  <2> QED  BY <1>20, <1>e, <2>1 DEF WorkerRunFail
<1>21. ASSUME WorkerDetach
      PROVE  CountsInv'
  BY <1>21, CountsFrame DEF WorkerDetach, Pushing
<1>22. ASSUME WorkerEnd
      PROVE  CountsInv'
  BY <1>22, CountsFrame DEF WorkerEnd, Pushing
<1>23. ASSUME WorkerDeinitBusy
      PROVE  CountsInv'
  BY <1>23, CountsFrame DEF WorkerDeinitBusy, Pushing
<1>24. ASSUME WorkerDeinit
      PROVE  CountsInv'
  BY <1>24, CountsFrame DEF WorkerDeinit, Pushing
<1>25. ASSUME NEW d \in Devices, NEW st \in {"ok", "error"}, HwDone(d, st)
      PROVE  CountsInv'
  BY <1>25, CountsFrame DEF HwDone, Pushing
<1>26. ASSUME NEW d \in Devices, DevIrq(d)
      PROVE  CountsInv'
  BY <1>26, CountsFrame DEF DevIrq, Pushing
<1>26a. ASSUME NEW d \in Devices, DevIrqStatus(d)
      PROVE  CountsInv'
  BY <1>26a, CountsFrame DEF DevIrqStatus, Pushing
<1>26b. ASSUME NEW d \in Devices, DevIrqHandle(d)
      PROVE  CountsInv'
  BY <1>26b, CountsFrame DEF DevIrqHandle, Pushing
<1>26c. ASSUME NEW d \in Devices, DevIrqWild(d)
      PROVE  CountsInv'
  BY <1>26c, CountsFrame DEF DevIrqWild, Pushing
<1>27. ASSUME NEW d \in Devices, DevIrqWake(d)
      PROVE  CountsInv'
  BY <1>27, CountsFrame DEF DevIrqWake, Pushing
<1>28. ASSUME NEW d \in Devices, Isr(d)
      PROVE  CountsInv'
  BY <1>28, CountsFrame DEF Isr, Pushing
<1>29. ASSUME NEW d \in Devices, IsrFinish(d)
      PROVE  CountsInv'
  BY <1>29, CountsFrame DEF IsrFinish, Pushing
<1>30. ASSUME NEW d \in Devices, IsrPop(d)
      PROVE  CountsInv'
  <2>1. itask[d] \in qrunning
    BY <1>30 DEF IsrPop, ExclusionInv, StagesOK, Started
  <2> QED  BY <1>30, <1>e, <2>1 DEF IsrPop
<1>31. ASSUME NEW d \in Devices, IsrTrigger(d)
      PROVE  CountsInv'
  BY <1>31, CountsFrame DEF IsrTrigger, Pushing
<1>32. ASSUME NEW t \in Tasks, TimeoutStart(t)
      PROVE  CountsInv'
  BY <1>32, CountsFrame DEF TimeoutStart, Pushing
<1>33. ASSUME NEW t \in Tasks, TimeoutReset(t)
      PROVE  CountsInv'
  BY <1>33, CountsFrame DEF TimeoutReset, Pushing
<1>34. ASSUME NEW t \in Tasks, TimeoutPop(t)
      PROVE  CountsInv'
  <2>1. t \in qrunning
    BY <1>34 DEF TimeoutPop, ExclusionInv, TimersOK, Started
  <2> QED  BY <1>34, <1>e, <2>1 DEF TimeoutPop
<1>35. ASSUME UNCHANGED vars
      PROVE  CountsInv'
  BY <1>35, CountsFrame DEF vars, Pushing
<1> QED
  BY <1>1, <1>2, <1>3, <1>4, <1>5, <1>6, <1>7, <1>8, <1>9, <1>10, <1>11, <1>12,
     <1>13, <1>14, <1>15, <1>16, <1>17, <1>18, <1>19, <1>20, <1>21, <1>22, <1>23, <1>24,
     <1>25, <1>26, <1>26a, <1>26b, <1>26c, <1>27, <1>28, <1>29, <1>30, <1>31, <1>32, <1>33, <1>34, <1>35 DEF
     Next, Ioctl, Worker, HardIrq, IrqThread, Timeout

-----------------------------------------------------------------------------
(* The detach list and freed sessions.                                      *)

\* The worker takes the first session off a list that has each once.
LEMMA TailFacts ==
  ASSUME NEW S, NEW list \in Seq(S), list # <<>>,
         \A i, j \in DOMAIN list : list[i] = list[j] => i = j
  PROVE  /\ \A i, j \in DOMAIN Tail(list) : Tail(list)[i] = Tail(list)[j] => i = j
         /\ Listed(Tail(list)) = Listed(list) \ {Head(list)}
<1> DEFINE n == Len(list)
           r == Tail(list)
<1>1. n \in Nat /\ n >= 1 /\ DOMAIN list = 1 .. n /\ Head(list) = list[1]
  BY EmptySeq
<1>2. r \in Seq(S) /\ Len(r) = n - 1 /\ \A i \in 1 .. n - 1 : r[i] = list[i + 1]
  BY HeadTailProperties
<1> HIDE DEF r, n
<1>3. DOMAIN r = 1 .. n - 1
  BY <1>2
<1>4. \A i, j \in DOMAIN r : r[i] = r[j] => i = j
  <2>1. ASSUME NEW i \in 1 .. n - 1, NEW j \in 1 .. n - 1, r[i] = r[j] PROVE i = j
    <3>1. i + 1 \in 1 .. n /\ j + 1 \in 1 .. n /\ list[i + 1] = list[j + 1]
      BY <1>1, <1>2, <2>1
    <3>2. i + 1 = j + 1
      BY <1>1, <3>1
    <3> QED  BY <1>1, <3>2
  <2> QED  BY <1>3, <2>1
<1>5. ASSUME NEW i \in 1 .. n - 1 PROVE r[i] \in Listed(list) /\ r[i] # list[1]
  <2>1. i + 1 \in 1 .. n /\ 1 \in 1 .. n /\ i + 1 # 1 /\ r[i] = list[i + 1]
    BY <1>1, <1>2
  <2> QED  BY <1>1, <2>1 DEF Listed
<1>6. ASSUME NEW x \in Listed(list), x # list[1] PROVE x \in Listed(r)
  <2>1. PICK i \in 1 .. n : x = list[i]
    BY <1>1 DEF Listed
  <2>2. i - 1 \in 1 .. n - 1 /\ (i - 1) + 1 = i
    BY <1>1, <1>6, <2>1
  <2> QED  BY <1>2, <1>3, <2>1, <2>2 DEF Listed
<1>7. Listed(r) = Listed(list) \ {list[1]}
  BY <1>3, <1>5, <1>6 DEF Listed
<1> QED  BY <1>1, <1>4, <1>7 DEF r

\* A step that leaves sessions and detach list alone, and makes no task live.
LEMMA DetachFrame ==
  ASSUME DetachInv, UNCHANGED <<sess, qdetach, wsess, owner>>,
         wpc' = "deinit" <=> wpc = "deinit",
         \A t \in Tasks : Live(t)' => Live(t)
  PROVE  DetachInv'
  BY DEF DetachInv

\* kref_put makes no task live.
LEMMA PutNotLive ==
  ASSUME TypeOK, NEW t, Put(t), UNCHANGED owner
  PROVE  \A u \in Tasks : Live(u)' => Live(u)
<1>1. ref' = [ref EXCEPT ![t] = @ - 1] /\ ref \in [Tasks -> Int]
  BY DEF Put, TypeOK, CountTypeOK
<1>2. ASSUME NEW u \in Tasks, Live(u)' PROVE Live(u)
  <2>1. owner[u] # None /\ ref'[u] > 0
    BY <1>2 DEF Live
  <2>2. CASE u = t
    BY <1>1, <2>1, <2>2 DEF Live
  <2>3. CASE u # t
    BY <1>1, <2>1, <2>3 DEF Live
  <2> QED  BY <2>2, <2>3
<1> QED  BY <1>2

\* No session has been opened.
LEMMA DetachInit == Init => DetachInv
  BY DEF Init, InitFrom, DetachInv, Listed, Live

\* Every step keeps the detach list in order, and frees a session only when none of
\* its tasks is live.
LEMMA DetachNext ==
  ExclusionInv /\ RefsInv /\ CountsInv /\ DetachInv /\ [Next]_vars => DetachInv'
<1> SUFFICES ASSUME ExclusionInv, RefsInv, CountsInv, DetachInv, [Next]_vars PROVE DetachInv'
  OBVIOUS
<1> USE NoneAssumption DEF userVars, sessVars, countVars, stateVars, queueVars, workerVars,
            irqVars, runVars
<1>a. TypeOK /\ SessionTypeOK /\ TaskTypeOK /\ CountTypeOK /\ QueueTypeOK
  BY DEF ExclusionInv, TypeOK
<1>b. /\ \A i, j \in DOMAIN qdetach : qdetach[i] = qdetach[j] => i = j
      /\ \A s \in Listed(qdetach) : sess[s] = "released"
      /\ wpc = "deinit" <=> wsess # None
      /\ wsess # None => sess[wsess] = "released" /\ wsess \notin Listed(qdetach)
      /\ \A s \in Sessions : sess[s] = "freed" => \A t \in Tasks : owner[t] = s => ~Live(t)
  BY DEF DetachInv
<1>c. Listed(qdetach) \subseteq Sessions
  BY <1>a, ListedType DEF QueueTypeOK
<1>1. ASSUME NEW s \in Sessions, Open(s)
      PROVE  DetachInv'
  <2>1. sess[s] = "none" /\ sess' = [sess EXCEPT ![s] = "open"]
        /\ UNCHANGED <<qdetach, wpc, wsess, owner, ref>>
    BY <1>1 DEF Open
  <2> QED  BY <1>a, <1>b, <1>c, <2>1 DEF DetachInv, Live, SessionTypeOK, QueueTypeOK
<1>2. ASSUME NEW s \in Sessions, NEW d \in Devices, InitClientType(s, d)
      PROVE  DetachInv'
  BY <1>2, DetachFrame DEF InitClientType, Live
<1>3. ASSUME NEW s \in Sessions, Release(s)
      PROVE  DetachInv'
  <2>1. /\ sess[s] = "open" /\ sess' = [sess EXCEPT ![s] = "released"]
        /\ qdetach' = Append(qdetach, s)
        /\ UNCHANGED <<wpc, wsess, owner, ref>>
    BY <1>3 DEF Release
  <2>2. s \notin Listed(qdetach) /\ s # wsess
    BY <1>b, <2>1
  <2>3. /\ Listed(qdetach') = Listed(qdetach) \cup {s}
        /\ \A i, j \in DOMAIN qdetach' : qdetach'[i] = qdetach'[j] => i = j
    <3>1. qdetach \in Seq(Sessions)  BY <1>a DEF QueueTypeOK
    <3>2. /\ Listed(Append(qdetach, s)) = Listed(qdetach) \cup {s}
          /\ \A i, j \in DOMAIN Append(qdetach, s) :
               Append(qdetach, s)[i] = Append(qdetach, s)[j] => i = j
      BY <1>b, <2>2, <3>1, AppendFacts
    <3> QED  BY <2>1, <3>2
  <2>4. \A r \in Sessions : sess'[r] = IF r = s THEN "released" ELSE sess[r]
    BY <1>a, <2>1 DEF SessionTypeOK
  <2> QED  BY <1>a, <1>b, <1>c, <2>1, <2>2, <2>3, <2>4 DEF DetachInv, Live, QueueTypeOK
<1>4. ASSUME NEW s \in Sessions, ReleaseNoClient(s)
      PROVE  DetachInv'
  <2>1. /\ sess[s] = "open" /\ sdev[s] = None /\ sess' = [sess EXCEPT ![s] = "freed"]
        /\ UNCHANGED <<qdetach, wpc, wsess, owner, ref>>
    BY <1>4 DEF ReleaseNoClient
  <2>2. \A t \in Tasks : owner[t] # s
    BY <2>1 DEF RefsInv, SessionListsOK
  <2>3. \A r \in Sessions : sess'[r] = IF r = s THEN "freed" ELSE sess[r]
    BY <1>a, <2>1 DEF SessionTypeOK
  <2> QED  BY <1>a, <1>b, <1>c, <2>1, <2>2, <2>3 DEF DetachInv, Live, QueueTypeOK
<1>5. ASSUME NEW s \in Sessions, NEW t \in Tasks, SendTask(s, t)
      PROVE  DetachInv'
  <2>1. /\ sess[s] = "open" /\ owner' = [owner EXCEPT ![t] = s] /\ ref' = [ref EXCEPT ![t] = 2]
        /\ UNCHANGED <<sess, qdetach, wpc, wsess>>
    BY <1>5 DEF SendTask
  <2>2. ASSUME NEW r \in Sessions, sess[r] = "freed", NEW u \in Tasks, owner'[u] = r
        PROVE  ~Live(u)'
    <3>1. u # t
      BY <1>a, <2>1, <2>2 DEF TaskTypeOK
    <3> QED  BY <1>a, <1>b, <2>1, <2>2, <3>1 DEF Live, TaskTypeOK, CountTypeOK
  <2> QED  BY <1>b, <2>1, <2>2 DEF DetachInv
<1>6. ASSUME NEW s \in Sessions, PushPending(s)
      PROVE  DetachInv'
  <2>1. PICK t \in Tasks : t = utask[s] /\ Live(t)
    BY <1>6, HeldIsLive DEF PushPending
  <2>2. ref' = [ref EXCEPT ![t] = @ + 1]
        /\ UNCHANGED <<sess, qdetach, wpc, wsess, owner>>
    BY <1>6, <2>1 DEF PushPending, Get
  <2>3. \A u \in Tasks : Live(u)' => Live(u)
    BY <1>a, <2>1, <2>2 DEF Live, CountTypeOK
  <2> QED  BY <2>2, <2>3, DetachFrame
<1>7. ASSUME NEW s \in Sessions, TriggerSubmitted(s)
      PROVE  DetachInv'
  BY <1>7, DetachFrame DEF TriggerSubmitted, Live
<1>8. ASSUME NEW s \in Sessions, PutSubmitted(s)
      PROVE  DetachInv'
  <2>1. \A u \in Tasks : Live(u)' => Live(u)
    BY <1>8, <1>a, PutNotLive DEF PutSubmitted
  <2> QED  BY <1>8, <2>1, DetachFrame DEF PutSubmitted
<1>9. ASSUME NEW s \in Sessions, Poll(s)
      PROVE  DetachInv'
  BY <1>9, DetachFrame DEF Poll, Live
<1>10. ASSUME NEW s \in Sessions, WaitDone(s)
      PROVE  DetachInv'
  BY <1>10, DetachFrame DEF WaitDone, Live
<1>11. ASSUME NEW s \in Sessions, WaitTimeout(s)
      PROVE  DetachInv'
  BY <1>11, DetachFrame DEF WaitTimeout, Live
<1>12. ASSUME NEW s \in Sessions, PopSession(s)
      PROVE  DetachInv'
  <2>1. \A u \in Tasks : Live(u)' => Live(u)
    BY <1>12, <1>a, PutNotLive DEF PopSession
  <2> QED  BY <1>12, <2>1, DetachFrame DEF PopSession
<1>13. ASSUME NEW d \in Devices, WorkerStart(d)
      PROVE  DetachInv'
  BY <1>13, DetachFrame DEF WorkerStart, Live
<1>14. ASSUME WorkerNoTask
      PROVE  DetachInv'
  BY <1>14, DetachFrame DEF WorkerNoTask, Live
<1>15. ASSUME WorkerDropAborted
      PROVE  DetachInv'
  <2>1. \A u \in Tasks : Live(u)' => Live(u)
    BY <1>15, <1>a, PutNotLive DEF WorkerDropAborted
  <2> QED  BY <1>15, <2>1, DetachFrame DEF WorkerDropAborted
<1>16. ASSUME WorkerTake
      PROVE  DetachInv'
  BY <1>16, DetachFrame DEF WorkerTake, Live
<1>17. ASSUME WorkerBusy
      PROVE  DetachInv'
  BY <1>17, DetachFrame DEF WorkerBusy, Live
<1>18. ASSUME WorkerToRun
      PROVE  DetachInv'
  BY <1>18, DetachFrame DEF WorkerToRun, Live
<1>19. ASSUME WorkerRun
      PROVE  DetachInv'
  BY <1>19, DetachFrame DEF WorkerRun, Live
<1>20. ASSUME WorkerRunFail
      PROVE  DetachInv'
  <2>1. \A u \in Tasks : Live(u)' => Live(u)
    BY <1>20, <1>a, PutNotLive DEF WorkerRunFail
  <2> QED  BY <1>20, <2>1, DetachFrame DEF WorkerRunFail
<1>21. ASSUME WorkerDetach
      PROVE  DetachInv'
  <2>1. /\ wpc = "detach" /\ qdetach # <<>> /\ wsess' = Head(qdetach) /\ qdetach' = Tail(qdetach)
        /\ wpc' = "deinit" /\ UNCHANGED <<sess, owner, ref>>
    BY <1>21 DEF WorkerDetach
  <2>2. qdetach \in Seq(Sessions)
    BY <1>a DEF QueueTypeOK
  <2>3. Head(qdetach) \in Listed(qdetach)
    BY <2>1, <2>2, HeadFacts
  <2>4. /\ Listed(Tail(qdetach)) = Listed(qdetach) \ {Head(qdetach)}
        /\ \A i, j \in DOMAIN Tail(qdetach) : Tail(qdetach)[i] = Tail(qdetach)[j] => i = j
    BY <1>b, <2>1, <2>2, TailFacts
  <2> QED  BY <1>b, <1>c, <2>1, <2>3, <2>4 DEF DetachInv, Live
<1>22. ASSUME WorkerEnd
      PROVE  DetachInv'
  BY <1>22, DetachFrame DEF WorkerEnd, Live
<1>23. ASSUME WorkerDeinitBusy
      PROVE  DetachInv'
  BY <1>23, <1>b DEF WorkerDeinitBusy, DetachInv, Live
<1>24. ASSUME WorkerDeinit
      PROVE  DetachInv'
  <2>1. PICK s \in Sessions : s = wsess /\ s \notin Listed(qdetach)
    BY <1>24, <1>a, <1>b DEF WorkerDeinit, QueueTypeOK
  <2>2. /\ taskCount[s] = 0 /\ sess' = [sess EXCEPT ![s] = "freed"] /\ wsess' = None
        /\ wpc' = "detach" /\ UNCHANGED <<qdetach, owner, ref>>
    BY <1>24, <2>1 DEF WorkerDeinit, MayDeinit
  <2>3. LiveOf(s) = {}
    <3>1. Cardinality(LiveOf(s)) = 0 /\ IsFiniteSet(LiveOf(s))
      BY <2>2, CountsOfSets DEF CountsInv
    <3> QED  BY <3>1, FS_EmptySet
  <2>4. \A t \in Tasks : owner[t] = s => ~Live(t)
    BY <2>3 DEF LiveOf
  <2>5. \A r \in Sessions : sess'[r] = IF r = s THEN "freed" ELSE sess[r]
    BY <1>a, <2>2 DEF SessionTypeOK
  <2> QED  BY <1>b, <1>c, <2>1, <2>2, <2>4, <2>5 DEF DetachInv, Live
<1>25. ASSUME NEW d \in Devices, NEW st \in {"ok", "error"}, HwDone(d, st)
      PROVE  DetachInv'
  BY <1>25, DetachFrame DEF HwDone, Live
<1>26. ASSUME NEW d \in Devices, DevIrq(d)
      PROVE  DetachInv'
  BY <1>26, DetachFrame DEF DevIrq, Live
<1>26a. ASSUME NEW d \in Devices, DevIrqStatus(d)
      PROVE  DetachInv'
  BY <1>26a, DetachFrame DEF DevIrqStatus, Live
<1>26b. ASSUME NEW d \in Devices, DevIrqHandle(d)
      PROVE  DetachInv'
  BY <1>26b, DetachFrame DEF DevIrqHandle, Live
<1>26c. ASSUME NEW d \in Devices, DevIrqWild(d)
      PROVE  DetachInv'
  BY <1>26c, DetachFrame DEF DevIrqWild, Live
<1>27. ASSUME NEW d \in Devices, DevIrqWake(d)
      PROVE  DetachInv'
  BY <1>27, DetachFrame DEF DevIrqWake, Live
<1>28. ASSUME NEW d \in Devices, Isr(d)
      PROVE  DetachInv'
  BY <1>28, DetachFrame DEF Isr, Live
<1>29. ASSUME NEW d \in Devices, IsrFinish(d)
      PROVE  DetachInv'
  BY <1>29, DetachFrame DEF IsrFinish, Live
<1>30. ASSUME NEW d \in Devices, IsrPop(d)
      PROVE  DetachInv'
  <2>1. \A u \in Tasks : Live(u)' => Live(u)
    BY <1>30, <1>a, PutNotLive DEF IsrPop
  <2> QED  BY <1>30, <2>1, DetachFrame DEF IsrPop
<1>31. ASSUME NEW d \in Devices, IsrTrigger(d)
      PROVE  DetachInv'
  BY <1>31, DetachFrame DEF IsrTrigger, Live
<1>32. ASSUME NEW t \in Tasks, TimeoutStart(t)
      PROVE  DetachInv'
  BY <1>32, DetachFrame DEF TimeoutStart, Live
<1>33. ASSUME NEW t \in Tasks, TimeoutReset(t)
      PROVE  DetachInv'
  BY <1>33, DetachFrame DEF TimeoutReset, Live
<1>34. ASSUME NEW t \in Tasks, TimeoutPop(t)
      PROVE  DetachInv'
  <2>1. \A u \in Tasks : Live(u)' => Live(u)
    BY <1>34, <1>a, PutNotLive DEF TimeoutPop
  <2> QED  BY <1>34, <2>1, DetachFrame DEF TimeoutPop
<1>35. ASSUME UNCHANGED vars
      PROVE  DetachInv'
  BY <1>35, DetachFrame DEF vars, Live
<1> QED
  BY <1>1, <1>2, <1>3, <1>4, <1>5, <1>6, <1>7, <1>8, <1>9, <1>10, <1>11, <1>12,
     <1>13, <1>14, <1>15, <1>16, <1>17, <1>18, <1>19, <1>20, <1>21, <1>22, <1>23, <1>24,
     <1>25, <1>26, <1>26a, <1>26b, <1>26c, <1>27, <1>28, <1>29, <1>30, <1>31, <1>32, <1>33, <1>34, <1>35 DEF
     Next, Ioctl, Worker, HardIrq, IrqThread, Timeout

-----------------------------------------------------------------------------
(* Power.                                                                   *)

\* The task keeps its device powered.
InUse(t) == owner[t] # None /\ Has(t, "START") /\ ~Has(t, "DONE")

\* A step that turns no device on or off, and starts and ends the use of none.
LEMMA PowerFrame ==
  ASSUME PowerInv, UNCHANGED <<powered, resetRequest>>,
         \A d \in Devices : ipc'[d] = "finish" <=> ipc[d] = "finish",
         \A d \in Devices : ipc[d] = "finish" =>
           itask'[d] = itask[d] /\ (Has(itask[d], "DONE")' => Has(itask[d], "DONE")),
         \A t \in Tasks : InUse(t)' <=> InUse(t),
         \A t \in Tasks : InUse(t) => DeviceOf(t)' = DeviceOf(t)
  PROVE  PowerInv'
<1>1. \A d : OnOf(d)' = OnOf(d)
  BY DEF OnOf, InUse
<1>2. \A d \in Devices : powered[d] = Cardinality(OnOf(d))
  BY DEF PowerInv, PowerBalanced, OnOf
<1>3. \A d \in Devices : powered'[d] = Cardinality(OnOf(d)')
  BY <1>1, <1>2
<1>4. PowerBalanced'
  BY <1>3 DEF PowerBalanced, OnOf
<1> QED  BY <1>4 DEF PowerInv, Has

\* A step that sets a flag of one task that says nothing about its start or end.
LEMMA OtherFlag ==
  ASSUME TypeOK, NEW t \in Tasks, NEW flag, flag \notin {"START", "DONE"},
         flags' = [flags EXCEPT ![t] = @ \cup {flag}], UNCHANGED owner
  PROVE  \A u \in Tasks : (InUse(u)' <=> InUse(u)) /\ (Has(u, "DONE")' <=> Has(u, "DONE"))
  BY DEF TypeOK, TaskTypeOK, InUse, Has

\* No device has been powered.
LEMMA PowerInit == Init => PowerInv
<1> SUFFICES ASSUME Init PROVE PowerInv
  OBVIOUS
<1>1. \A d \in Devices : powered[d] = 0 /\ OnOf(d) = {}
  BY DEF Init, InitFrom, OnOf
<1>2. PowerBalanced
  BY <1>1, FS_EmptySet DEF PowerBalanced, OnOf
<1> QED  BY <1>2 DEF Init, InitFrom, PowerInv

\* Every step keeps the power of a device in agreement with the task that uses it.
LEMMA PowerNext ==
  ExclusionInv /\ RefsInv /\ IsFiniteSet(Allocated) /\ PowerInv /\ [Next]_vars => PowerInv'
<1> SUFFICES ASSUME ExclusionInv, RefsInv, IsFiniteSet(Allocated), PowerInv,
                    [Next]_vars
             PROVE  PowerInv'
  OBVIOUS
<1> USE NoneAssumption DEF userVars, sessVars, countVars, stateVars, queueVars, workerVars,
            irqVars, runVars
<1>a. TypeOK /\ SessionTypeOK /\ TaskTypeOK /\ CountTypeOK /\ QueueTypeOK /\ DeviceTypeOK
  BY DEF ExclusionInv, TypeOK
<1>b. PointersSet /\ ListsOK /\ StagesOK /\ TimersOK
  BY DEF ExclusionInv
<1>c. /\ \A d \in Devices : powered[d] = Cardinality(OnOf(d)) /\ IsFiniteSet(OnOf(d))
      /\ \A d \in Devices : ipc[d] = "finish" => ~Has(itask[d], "DONE")
      /\ \A d \in Devices : resetRequest[d] # 0 => ipc[d] = "finish"
  BY CountsOfSets DEF PowerInv, PowerBalanced, OnOf
<1>d. \A d \in Devices : ipc[d] \in {"finish", "pop"} =>
        /\ itask[d] \in Tasks /\ itask[d] \in qrunning /\ DeviceOf(itask[d]) = d
        /\ owner[itask[d]] \in Sessions /\ Has(itask[d], "START")
        /\ timer[itask[d]] = "off"
  BY <1>b DEF StagesOK, Started, Placed
<1>e. ASSUME UNCHANGED <<flags, owner, sdev, powered, resetRequest, ipc, itask>>
      PROVE  PowerInv'
  BY <1>e, PowerFrame DEF InUse, Has, DeviceOf
<1>f. ASSUME NEW t \in Tasks, NEW flag, flag \notin {"START", "DONE"},
             flags' = [flags EXCEPT ![t] = @ \cup {flag}],
             UNCHANGED <<owner, sdev, powered, resetRequest, ipc, itask>>
      PROVE  PowerInv'
  <2>1. \A u \in Tasks : (InUse(u)' <=> InUse(u)) /\ (Has(u, "DONE")' <=> Has(u, "DONE"))
    BY <1>a, <1>f, OtherFlag
  <2>2. \A d \in Devices : ipc[d] = "finish" =>
          itask'[d] = itask[d] /\ (Has(itask[d], "DONE")' => Has(itask[d], "DONE"))
    BY <1>d, <1>f, <2>1 DEF Has
  <2>3. \A u \in Tasks : DeviceOf(u)' = DeviceOf(u)
    BY <1>f DEF DeviceOf
  <2> QED  BY <1>f, <2>1, <2>2, <2>3, PowerFrame
<1>1. ASSUME NEW s \in Sessions, Open(s)
      PROVE  PowerInv'
  BY <1>1, <1>e DEF Open
<1>2. ASSUME NEW s \in Sessions, NEW d \in Devices, InitClientType(s, d)
      PROVE  PowerInv'
  <2>1. /\ sdev[s] = None /\ sdev' = [sdev EXCEPT ![s] = d]
        /\ UNCHANGED <<flags, owner, powered, resetRequest, ipc, itask>>
    BY <1>2 DEF InitClientType
  <2>2. \A t \in Tasks : owner[t] # None => owner[t] # s
    BY <2>1 DEF RefsInv, SessionListsOK
  <2>3. \A t \in Tasks : (InUse(t)' <=> InUse(t)) /\ (InUse(t) => DeviceOf(t)' = DeviceOf(t))
    BY <1>a, <2>1, <2>2 DEF InUse, Has, DeviceOf, SessionTypeOK
  <2> QED  BY <2>1, <2>3, PowerFrame DEF Has
<1>3. ASSUME NEW s \in Sessions, Release(s)
      PROVE  PowerInv'
  BY <1>3, <1>e DEF Release
<1>4. ASSUME NEW s \in Sessions, ReleaseNoClient(s)
      PROVE  PowerInv'
  BY <1>4, <1>e DEF ReleaseNoClient
<1>5. ASSUME NEW s \in Sessions, NEW t \in Tasks, SendTask(s, t)
      PROVE  PowerInv'
  <2>1. /\ owner[t] = None /\ owner' = [owner EXCEPT ![t] = s]
        /\ UNCHANGED <<flags, sdev, powered, resetRequest, ipc, itask>>
    BY <1>5 DEF SendTask
  <2>2. ~Has(t, "START")
    BY <1>b, <2>1 DEF ListsOK, Fresh, Has
  <2>3. \A u \in Tasks : (InUse(u)' <=> InUse(u)) /\ (InUse(u) => DeviceOf(u)' = DeviceOf(u))
    BY <1>a, <2>1, <2>2 DEF InUse, Has, DeviceOf, TaskTypeOK
  <2> QED  BY <2>1, <2>3, PowerFrame DEF Has
<1>6. ASSUME NEW s \in Sessions, PushPending(s)
      PROVE  PowerInv'
  BY <1>6, <1>e DEF PushPending
<1>7. ASSUME NEW s \in Sessions, TriggerSubmitted(s)
      PROVE  PowerInv'
  <2>1. PICK u \in Tasks : u = utask[s]
    BY <1>7, <1>b DEF TriggerSubmitted, PointersSet
  <2>2. flags' = [flags EXCEPT ![u] = @ \cup {"PENDING"}]
    BY <1>7, <2>1 DEF TriggerSubmitted
  <2>3. UNCHANGED <<owner, sdev, powered, resetRequest, ipc, itask>>
    BY <1>7 DEF TriggerSubmitted
  <2>4. "PENDING" \notin {"START", "DONE"}
    OBVIOUS
  <2> QED  BY <1>f, <2>2, <2>3, <2>4
<1>8. ASSUME NEW s \in Sessions, PutSubmitted(s)
      PROVE  PowerInv'
  BY <1>8, <1>e DEF PutSubmitted
<1>9. ASSUME NEW s \in Sessions, Poll(s)
      PROVE  PowerInv'
  BY <1>9, <1>e DEF Poll
<1>10. ASSUME NEW s \in Sessions, WaitDone(s)
      PROVE  PowerInv'
  BY <1>10, <1>e DEF WaitDone
<1>11. ASSUME NEW s \in Sessions, WaitTimeout(s)
      PROVE  PowerInv'
  <2>1. PICK u \in Tasks : u = utask[s]
    BY <1>11, <1>b DEF WaitTimeout, PointersSet
  <2>2. flags' = [flags EXCEPT ![u] = @ \cup {"ABORT"}]
    BY <1>11, <2>1 DEF WaitTimeout
  <2>3. UNCHANGED <<owner, sdev, powered, resetRequest, ipc, itask>>
    BY <1>11 DEF WaitTimeout
  <2>4. "ABORT" \notin {"START", "DONE"}
    OBVIOUS
  <2> QED  BY <1>f, <2>2, <2>3, <2>4
<1>12. ASSUME NEW s \in Sessions, PopSession(s)
      PROVE  PowerInv'
  BY <1>12, <1>e DEF PopSession
<1>13. ASSUME NEW d \in Devices, WorkerStart(d)
      PROVE  PowerInv'
  BY <1>13, <1>e DEF WorkerStart
<1>14. ASSUME WorkerNoTask
      PROVE  PowerInv'
  BY <1>14, <1>e DEF WorkerNoTask
<1>15. ASSUME WorkerDropAborted
      PROVE  PowerInv'
  BY <1>15, <1>e DEF WorkerDropAborted
<1>16. ASSUME WorkerTake
      PROVE  PowerInv'
  BY <1>16, <1>e DEF WorkerTake
<1>17. ASSUME WorkerBusy
      PROVE  PowerInv'
  BY <1>17, <1>e DEF WorkerBusy
<1>18. ASSUME WorkerToRun
      PROVE  PowerInv'
  <2>1. PICK u \in Tasks : u = wtask
    BY <1>18, <1>b DEF WorkerToRun, PointersSet
  <2>2. flags' = [flags EXCEPT ![u] = @ \cup {"RUNNING"}]
    BY <1>18, <2>1 DEF WorkerToRun
  <2>3. UNCHANGED <<owner, sdev, powered, resetRequest, ipc, itask>>
    BY <1>18 DEF WorkerToRun
  <2>4. "RUNNING" \notin {"START", "DONE"}
    OBVIOUS
  <2> QED  BY <1>f, <2>2, <2>3, <2>4
<1>19. ASSUME WorkerRun
      PROVE  PowerInv'
  <2>1. PICK t \in Tasks, d \in Devices :
          /\ t = wtask /\ d = DeviceOf(t) /\ owner[t] \in Sessions
          /\ ~Has(t, "START") /\ ~Has(t, "DONE")
    BY <1>19, <1>b DEF WorkerRun, PointersSet, ListsOK, Placed, Fresh, Has
  <2>2. /\ powered' = [powered EXCEPT ![d] = @ + 1]
        /\ flags' = [flags EXCEPT ![t] = @ \cup {"START"}]
        /\ UNCHANGED <<owner, sdev, resetRequest, ipc, itask>>
    BY <1>19, <2>1 DEF WorkerRun
  <2>3. \A u \in Tasks : Has(u, "DONE")' <=> Has(u, "DONE")
    BY <1>a, <2>2 DEF Has, TaskTypeOK
  <2>4. /\ OnOf(d)' = OnOf(d) \cup {t} /\ t \notin OnOf(d)
        /\ \A e \in Devices : e # d => OnOf(e)' = OnOf(e)
    BY <1>a, <2>1, <2>2, <2>3 DEF OnOf, Has, DeviceOf, TaskTypeOK
  <2>5. ASSUME NEW e \in Devices PROVE powered'[e] = Cardinality(OnOf(e)')
    <3>1. CASE e = d
      <4>1. Cardinality(OnOf(e)') = Cardinality(OnOf(e)) + 1
        BY <1>c, <2>4, <3>1, FS_AddElement
      <4>2. powered'[e] = powered[e] + 1
        BY <1>a, <2>2, <3>1 DEF DeviceTypeOK
      <4> QED  BY <1>c, <4>1, <4>2
    <3>2. CASE e # d
      BY <1>a, <1>c, <2>2, <2>4, <3>2 DEF DeviceTypeOK
    <3> QED  BY <3>1, <3>2
  <2>6. PowerBalanced'
    BY <2>5 DEF PowerBalanced, OnOf
  <2>7. \A e \in Devices : ipc'[e] = "finish" => ~Has(itask[e], "DONE")'
    BY <1>c, <1>d, <2>2, <2>3 DEF Has
  <2> QED  BY <1>c, <2>2, <2>6, <2>7 DEF PowerInv
<1>20. ASSUME WorkerRunFail
      PROVE  PowerInv'
  BY <1>20, <1>e DEF WorkerRunFail
<1>21. ASSUME WorkerDetach
      PROVE  PowerInv'
  BY <1>21, <1>e DEF WorkerDetach
<1>22. ASSUME WorkerEnd
      PROVE  PowerInv'
  BY <1>22, <1>e DEF WorkerEnd
<1>23. ASSUME WorkerDeinitBusy
      PROVE  PowerInv'
  BY <1>23, <1>e DEF WorkerDeinitBusy
<1>24. ASSUME WorkerDeinit
      PROVE  PowerInv'
  BY <1>24, <1>e DEF WorkerDeinit
<1>25. ASSUME NEW d \in Devices, NEW st \in {"ok", "error"}, HwDone(d, st)
      PROVE  PowerInv'
  BY <1>25, <1>e DEF HwDone
<1>26. ASSUME NEW d \in Devices, DevIrq(d)
      PROVE  PowerInv'
  BY <1>26, <1>e DEF DevIrq
<1>26a. ASSUME NEW d \in Devices, DevIrqStatus(d)
      PROVE  PowerInv'
  BY <1>26a, <1>e DEF DevIrqStatus
<1>26b. ASSUME NEW d \in Devices, DevIrqHandle(d)
      PROVE  PowerInv'
  <2>1. PICK t \in Tasks : t = htask[d]
    BY <1>26b, <1>b DEF DevIrqHandle, StagesOK
  <2>2. UNCHANGED <<owner, sdev, powered, resetRequest, ipc, itask>>
    BY <1>26b DEF DevIrqHandle
  <2>3. flags' = [flags EXCEPT ![t] = @ \cup {"HANDLE"}] \/ flags' = flags
    BY <1>26b, <2>1 DEF DevIrqHandle
  <2>4. CASE flags' = flags
    BY <1>e, <2>2, <2>4
  <2>5. CASE flags' = [flags EXCEPT ![t] = @ \cup {"HANDLE"}]
    <3>1. "HANDLE" \notin {"START", "DONE"}
      OBVIOUS
    <3> QED  BY <1>f, <2>2, <2>5, <3>1
  <2> QED  BY <2>3, <2>4, <2>5
<1>26c. ASSUME NEW d \in Devices, DevIrqWild(d)
      PROVE  PowerInv'
  BY <1>26c, <1>e DEF DevIrqWild
<1>27. ASSUME NEW d \in Devices, DevIrqWake(d)
      PROVE  PowerInv'
  <2>1. PICK u \in Tasks : u = htask[d]
    BY <1>27, <1>b DEF DevIrqWake, StagesOK
  <2>2. flags' = [flags EXCEPT ![u] = @ \cup {"IRQ"}]
    BY <1>27, <2>1 DEF DevIrqWake
  <2>3. UNCHANGED <<owner, sdev, powered, resetRequest, ipc, itask>>
    BY <1>27 DEF DevIrqWake
  <2>4. "IRQ" \notin {"START", "DONE"}
    OBVIOUS
  <2> QED  BY <1>f, <2>2, <2>3, <2>4
<1>28. ASSUME NEW d \in Devices, Isr(d)
      PROVE  PowerInv'
  <2>1. /\ woken[d] /\ itask' = [itask EXCEPT ![d] = curTask[d]]
        /\ ipc' = [ipc EXCEPT ![d] = "finish"]
        /\ UNCHANGED <<flags, owner, sdev, powered>>
        /\ \A e \in Devices : e # d => resetRequest'[e] = resetRequest[e]
    BY <1>28, <1>a DEF Isr, DeviceTypeOK
  <2>2. ~Has(curTask[d], "DONE")
    BY <1>b, <2>1 DEF StagesOK
  <2>3. PowerBalanced'
    <3>1. \A e : OnOf(e)' = OnOf(e)
      BY <2>1 DEF OnOf, Has, DeviceOf
    <3>2. \A e \in Devices : powered'[e] = Cardinality(OnOf(e)')
      BY <1>c, <2>1, <3>1
    <3> QED  BY <3>2 DEF PowerBalanced, OnOf
  <2>4. ASSUME NEW e \in Devices
        PROVE  /\ ipc'[e] = "finish" => ~Has(itask[e], "DONE")'
               /\ resetRequest'[e] # 0 => ipc'[e] = "finish"
    <3>1. CASE e = d
      BY <1>a, <2>1, <2>2, <3>1 DEF Has, DeviceTypeOK
    <3>2. CASE e # d
      BY <1>a, <1>c, <2>1, <3>2 DEF Has, DeviceTypeOK
    <3> QED  BY <3>1, <3>2
  <2> QED  BY <2>3, <2>4 DEF PowerInv
<1>g. ASSUME NEW t \in Tasks, NEW d \in Devices, d = DeviceOf(t), InUse(t),
             NEW set, "START" \notin set, "DONE" \in set,
             flags' = [flags EXCEPT ![t] = @ \cup set],
             powered' = [powered EXCEPT ![d] = @ - 1],
             UNCHANGED <<owner, sdev>>
      PROVE  /\ PowerBalanced'
             /\ \A u \in Tasks : u # t => (Has(u, "DONE")' <=> Has(u, "DONE"))
  <2>1. \A u \in Tasks : flags'[u] = IF u = t THEN flags[u] \cup set ELSE flags[u]
    BY <1>a, <1>g DEF TaskTypeOK
  <2>2. /\ OnOf(d)' = OnOf(d) \ {t} /\ t \in OnOf(d)
        /\ \A e \in Devices : e # d => OnOf(e)' = OnOf(e)
    BY <1>g, <2>1 DEF OnOf, InUse, Has, DeviceOf
  <2>3. ASSUME NEW e \in Devices PROVE powered'[e] = Cardinality(OnOf(e)')
    <3>1. CASE e = d
      <4>1. Cardinality(OnOf(e)') = Cardinality(OnOf(e)) - 1
        BY <1>c, <2>2, <3>1, FS_RemoveElement
      <4>2. powered'[e] = powered[e] - 1
        BY <1>a, <1>g, <3>1 DEF DeviceTypeOK
      <4> QED  BY <1>c, <4>1, <4>2
    <3>2. CASE e # d
      BY <1>a, <1>c, <1>g, <2>2, <3>2 DEF DeviceTypeOK
    <3> QED  BY <3>1, <3>2
  <2>4. PowerBalanced'
    BY <2>3 DEF PowerBalanced, OnOf
  <2> QED  BY <2>1, <2>4 DEF Has
<1>29. ASSUME NEW d \in Devices, IsrFinish(d)
      PROVE  PowerInv'
  <2>1. PICK t \in Tasks : t = itask[d] /\ ipc[d] = "finish" /\ InUse(t) /\ DeviceOf(t) = d
                           /\ t \in qrunning
    BY <1>29, <1>c, <1>d DEF IsrFinish, InUse
  <2>2. /\ flags' = [flags EXCEPT ![t] = @ \cup {"FINISH", "DONE"}]
        /\ powered' = [powered EXCEPT ![d] = @ - 1]
        /\ ipc' = [ipc EXCEPT ![d] = "pop"]
        /\ UNCHANGED <<owner, sdev, itask>>
    BY <1>29, <2>1 DEF IsrFinish
  <2>3. \A e \in Devices : resetRequest'[e] = IF e = d THEN 0 ELSE resetRequest[e]
    BY <1>29, <1>a DEF IsrFinish, NeedsReset, DevReset, DeviceTypeOK
  <2>4. PowerBalanced' /\ \A u \in Tasks : u # t => (Has(u, "DONE")' <=> Has(u, "DONE"))
    <3>1. "START" \notin {"FINISH", "DONE"} /\ "DONE" \in {"FINISH", "DONE"}
      OBVIOUS
    <3> QED  BY <1>g, <2>1, <2>2, <3>1
  <2>5. ASSUME NEW e \in Devices
        PROVE  /\ ipc'[e] = "finish" => ~Has(itask[e], "DONE")'
               /\ resetRequest'[e] # 0 => ipc'[e] = "finish"
    <3>1. CASE e = d
      BY <1>a, <2>2, <2>3, <3>1 DEF DeviceTypeOK
    <3>2. CASE e # d
      <4>1. ipc'[e] = ipc[e] /\ resetRequest'[e] = resetRequest[e] /\ itask' = itask
        BY <1>a, <2>2, <2>3, <3>2 DEF DeviceTypeOK
      <4>2. ipc[e] = "finish" => itask[e] # t /\ itask[e] \in Tasks
        BY <1>d, <2>1, <3>2
      <4> QED  BY <1>c, <2>4, <4>1, <4>2 DEF Has
    <3> QED  BY <3>1, <3>2
  <2> QED  BY <2>4, <2>5 DEF PowerInv
<1>30. ASSUME NEW d \in Devices, IsrPop(d)
      PROVE  PowerInv'
  <2>1. UNCHANGED <<flags, owner, sdev, powered, resetRequest>>
    BY <1>30 DEF IsrPop
  <2>2. \A e \in Devices : ipc'[e] = "finish" <=> ipc[e] = "finish"
    BY <1>30, <1>a DEF IsrPop, DeviceTypeOK
  <2>3. \A e \in Devices : ipc[e] = "finish" => itask'[e] = itask[e]
    BY <1>30, <1>a DEF IsrPop, DeviceTypeOK
  <2> QED  BY <2>1, <2>2, <2>3, PowerFrame DEF InUse, Has, DeviceOf
<1>31. ASSUME NEW d \in Devices, IsrTrigger(d)
      PROVE  PowerInv'
  <2>1. UNCHANGED <<flags, owner, sdev, powered, resetRequest>>
    BY <1>31 DEF IsrTrigger
  <2>2. \A e \in Devices : ipc'[e] = "finish" <=> ipc[e] = "finish"
    BY <1>31, <1>a DEF IsrTrigger, DeviceTypeOK
  <2>3. \A e \in Devices : ipc[e] = "finish" => itask'[e] = itask[e]
    BY <1>31, <1>a DEF IsrTrigger, DeviceTypeOK
  <2> QED  BY <2>1, <2>2, <2>3, PowerFrame DEF InUse, Has, DeviceOf
<1>32. ASSUME NEW t \in Tasks, TimeoutStart(t)
      PROVE  PowerInv'
  <2>1. UNCHANGED <<owner, sdev, powered, resetRequest, ipc, itask>>
    BY <1>32 DEF TimeoutStart
  <2>2. flags' = [flags EXCEPT ![t] = @ \cup {"HANDLE"}] \/ flags' = flags
    BY <1>32 DEF TimeoutStart
  <2>3. CASE flags' = flags
    BY <1>e, <2>1, <2>3
  <2>4. CASE flags' = [flags EXCEPT ![t] = @ \cup {"HANDLE"}]
    <3>1. "HANDLE" \notin {"START", "DONE"}
      OBVIOUS
    <3> QED  BY <1>f, <2>1, <2>4, <3>1
  <2> QED  BY <2>2, <2>3, <2>4
<1>33. ASSUME NEW t \in Tasks, TimeoutReset(t)
      PROVE  PowerInv'
  <2>1. PICK d \in Devices : d = DeviceOf(t) /\ InUse(t) /\ timer[t] = "reset"
    BY <1>33, <1>b DEF TimeoutReset, TimersOK, Started, Placed, InUse
  <2>2. /\ flags' = [flags EXCEPT ![t] = @ \cup {"TIMEOUT", "DONE"}]
        /\ powered' = [powered EXCEPT ![d] = @ - 1]
        /\ resetRequest' = [resetRequest EXCEPT ![d] = 0]
        /\ UNCHANGED <<owner, sdev, ipc, itask>>
    BY <1>33, <2>1 DEF TimeoutReset, DevReset
  <2>3. PowerBalanced' /\ \A u \in Tasks : u # t => (Has(u, "DONE")' <=> Has(u, "DONE"))
    <3>1. "START" \notin {"TIMEOUT", "DONE"} /\ "DONE" \in {"TIMEOUT", "DONE"}
      OBVIOUS
    <3> QED  BY <1>g, <2>1, <2>2, <3>1
  <2>4. \A e \in Devices : ipc[e] = "finish" => itask[e] # t /\ itask[e] \in Tasks
    BY <1>d, <2>1
  <2>5. \A e \in Devices : ipc'[e] = "finish" => ~Has(itask[e], "DONE")'
    BY <1>c, <2>2, <2>3, <2>4 DEF Has
  <2>6. \A e \in Devices : resetRequest'[e] # 0 => ipc'[e] = "finish"
    BY <1>a, <1>c, <2>2 DEF DeviceTypeOK
  <2> QED  BY <2>3, <2>5, <2>6 DEF PowerInv
<1>34. ASSUME NEW t \in Tasks, TimeoutPop(t)
      PROVE  PowerInv'
  BY <1>34, <1>e DEF TimeoutPop
<1>35. ASSUME UNCHANGED vars
      PROVE  PowerInv'
  BY <1>35, <1>e DEF vars
<1> QED
  BY <1>1, <1>2, <1>3, <1>4, <1>5, <1>6, <1>7, <1>8, <1>9, <1>10, <1>11, <1>12,
     <1>13, <1>14, <1>15, <1>16, <1>17, <1>18, <1>19, <1>20, <1>21, <1>22, <1>23, <1>24,
     <1>25, <1>26, <1>26a, <1>26b, <1>26c, <1>27, <1>28, <1>29, <1>30, <1>31, <1>32, <1>33, <1>34, <1>35 DEF
     Next, Ioctl, Worker, HardIrq, IrqThread, Timeout

-----------------------------------------------------------------------------
(* The theorems.                                                            *)

\* The invariants are inductive together: the references need the detach list, the
\* counters the references, and the detach list the counters.
THEOREM CountInvariant == Spec => []CountInv
<1>1. Init => CountInv
  BY ExclusionInit, RefsInit, CountsInit, DetachInit, PowerInit DEF CountInv
<1>2. CountInv /\ [Next]_vars => CountInv'
  <2> SUFFICES ASSUME CountInv, [Next]_vars PROVE CountInv'
    OBVIOUS
  <2>1. ExclusionInv /\ RefsInv /\ CountsInv /\ DetachInv /\ PowerInv /\ IsFiniteSet(Allocated)
    BY DEF CountInv, CountsInv
  <2>2. ExclusionInv'  BY <2>1, ExclusionNext
  <2>3. RefsInv'  BY <2>1, RefsNext
  <2>4. CountsInv'  BY <2>1, CountsNext
  <2>5. DetachInv'  BY <2>1, DetachNext
  <2>6. PowerInv'  BY <2>1, PowerNext
  <2> QED  BY <2>2, <2>3, <2>4, <2>5, <2>6 DEF CountInv
<1>3. CountInv /\ UNCHANGED vars => CountInv'
  BY <1>2
<1> QED  BY <1>1, <1>2, <1>3, PTL DEF Spec

\* Every kref_get has its kref_put: task->ref is the number of lists and threads
\* that hold the task.
THEOREM RefCountExactAlways == Spec => []RefCountExact
<1>1. CountInv => RefCountExact
  BY DEF CountInv, RefsInv
<1> QED  BY <1>1, CountInvariant, PTL

\* Pollers, worker, interrupt handlers and timeout work use a task without a
\* reference of their own; it is in a list that has one for as long as they do.
\* Only the hard handler's pointer may outlive it, and only when the timeout work
\* completed the task while the handler was running.
THEOREM PointersAreLiveAlways == Spec => []PointersAreLive
<1>1. CountInv => PointersAreLive
  <2> SUFFICES ASSUME CountInv PROVE PointersAreLive
    OBVIOUS
  <2>1. ListsOK /\ StagesOK /\ TimersOK
    BY DEF CountInv, ExclusionInv
  <2>2. /\ \A t \in Listed(qpending) \cup qrunning : Live(t)
        /\ \A s \in Sessions : upc[s] # "idle" => Live(utask[s])
    BY HeldIsLive DEF CountInv
  <2>3. wpc \in {"prepare", "run"} => Live(wtask)
    BY <2>1, <2>2 DEF ListsOK
  <2>4. ASSUME NEW d \in Devices
        PROVE  /\ irq[d] # "none" \/ woken[d] => Live(curTask[d])
               /\ hpc[d] = "cancel" => Live(htask[d])
               /\ hpc[d] \in {"status", "handle"} =>
                    Live(htask[d]) \/ Has(htask[d], "TIMEOUT")
               /\ ipc[d] \in {"finish", "pop"} => Live(itask[d])
    <3>1. ASSUME hpc[d] \in {"status", "handle"}
          PROVE  htask[d] \in qrunning \/ Has(htask[d], "TIMEOUT")
      BY <2>1, <3>1 DEF StagesOK, TimersOK, Started
    <3> QED  BY <2>1, <2>2, <3>1 DEF StagesOK, Started
  <2>5. \A t \in Tasks : timer[t] # "off" => Live(t)
    BY <2>1, <2>2 DEF TimersOK, Started
  <2> QED  BY <2>2, <2>3, <2>4, <2>5 DEF PointersAreLive
<1> QED  BY <1>1, CountInvariant, PTL

\* mpp_process_task_default pushes the task to its session first, and a poller pops
\* it only when it is done or aborted.
THEOREM QueuedIsInSessionAlways == Spec => []QueuedIsInSession
<1>1. CountInv => QueuedIsInSession
  BY DEF CountInv, RefsInv
<1> QED  BY <1>1, CountInvariant, PTL

\* session->task_count and mpp->task_count count the tasks that are not freed.
THEOREM TaskCountsExactAlways == Spec => []TaskCountsExact
<1>1. CountInv => TaskCountsExact
  BY DEF CountInv, CountsInv
<1> QED  BY <1>1, CountInvariant, PTL

\* mpp_session_deinit frees a session that no task and no list refers to.
THEOREM FreedSessionIsQuietAlways == Spec => []FreedSessionIsQuiet
<1>1. CountInv => FreedSessionIsQuiet
  <2> SUFFICES ASSUME CountInv, NEW s \in Sessions, sess[s] = "freed"
               PROVE  /\ taskCount[s] = 0 /\ spending[s] = <<>>
                      /\ s \notin Listed(qdetach) /\ s # wsess
                      /\ \A t \in Tasks : owner[t] = s => ~Live(t)
    BY DEF FreedSessionIsQuiet
  <2>1. s \notin Listed(qdetach) /\ s # wsess /\ \A t \in Tasks : owner[t] = s => ~Live(t)
    BY NoneAssumption DEF CountInv, DetachInv
  <2>2. taskCount[s] = 0
    <3>1. LiveOf(s) = {}
      BY <2>1 DEF LiveOf
    <3>2. taskCount[s] = Cardinality(LiveOf(s))
      BY CountsOfSets DEF CountInv, CountsInv
    <3> QED  BY <3>1, <3>2, FS_EmptySet
  <2>3. spending[s] = <<>>
    <3>1. spending[s] \in Seq(Tasks)
      BY DEF CountInv, ExclusionInv, TypeOK, SessionTypeOK
    <3>2. spending[s] # <<>> => Head(spending[s]) \in Listed(spending[s])
      BY <3>1, HeadFacts
    <3>3. \A t \in Listed(spending[s]) : t \in Tasks /\ Live(t) /\ owner[t] = s
      BY HeldIsLive DEF CountInv
    <3> QED  BY <2>1, <3>2, <3>3
  <2> QED  BY <2>1, <2>2, <2>3
<1> QED  BY <1>1, CountInvariant, PTL

\* Each mpp_power_on has one mpp_power_off, of the irq thread or the timeout work.
THEOREM PowerBalancedAlways == Spec => []PowerBalanced
<1>1. CountInv => PowerBalanced
  BY DEF CountInv, PowerInv
<1> QED  BY <1>1, CountInvariant, PTL

\* mpp_task_run is the only place that starts a device, and there the running list
\* holds only a task nothing has happened to.
THEOREM StartsCleanAlways == Spec => StartsClean
<1> DEFINE A == \A d \in Devices : hw[d] = None /\ hw'[d] # None =>
                  /\ irq[d] = "none" /\ hpc[d] # "cancel" /\ ~woken[d]
                  /\ ipc[d] \in {"idle", "trigger"} /\ resetRequest[d] = 0
<1>1. CountInv /\ [Next]_vars => [A]_vars
  <2> SUFFICES ASSUME CountInv, Next, NEW d \in Devices, hw[d] = None, hw'[d] # None
               PROVE  /\ irq[d] = "none" /\ hpc[d] # "cancel" /\ ~woken[d]
                      /\ ipc[d] \in {"idle", "trigger"} /\ resetRequest[d] = 0
    OBVIOUS
  <2>1. DeviceTypeOK /\ ListsOK /\ StagesOK /\ PowerInv
    BY DEF CountInv, ExclusionInv, TypeOK
  <2> USE DEF userVars, sessVars, countVars, stateVars, queueVars, workerVars, irqVars, runVars
  <2>2. WorkerRun
    <3>1. ASSUME NEW s \in Sessions,
                 \/ Open(s) \/ Release(s) \/ ReleaseNoClient(s) \/ Poll(s) \/ Ioctl(s)
                 \/ \E e \in Devices : InitClientType(s, e)
                 \/ \E t \in Tasks : SendTask(s, t)
          PROVE  hw' = hw
      BY <3>1 DEF Open, Release, ReleaseNoClient, Poll, Ioctl, InitClientType, SendTask,
         PushPending, TriggerSubmitted, PutSubmitted, WaitDone, WaitTimeout, PopSession
    <3>2. ASSUME Worker, ~WorkerRun PROVE hw' = hw
      BY <3>2 DEF Worker, WorkerStart, WorkerNoTask, WorkerDropAborted, WorkerTake, WorkerBusy,
         WorkerToRun, WorkerRunFail, WorkerDetach, WorkerEnd, WorkerDeinitBusy, WorkerDeinit
    <3>3. ASSUME NEW e \in Devices,
                 \/ \E status \in {"ok", "error"} : HwDone(e, status)
                 \/ HardIrq(e) \/ IrqThread(e)
          PROVE  hw' = hw \/ hw' = [hw EXCEPT ![e] = None]
      BY <3>3 DEF HwDone, HardIrq, DevIrq, DevIrqStatus, DevIrqHandle, DevIrqWild, DevIrqWake,
         IrqThread, Isr, IsrFinish, DevReset, IsrPop, IsrTrigger
    <3>4. ASSUME NEW t \in Tasks, Timeout(t)
          PROVE  hw' = hw \/ hw' = [hw EXCEPT ![DeviceOf(t)] = None]
      BY <3>4 DEF Timeout, TimeoutStart, TimeoutReset, DevReset, TimeoutPop
    <3>5. hw \in [Devices -> Tasks \cup {None}]
      BY <2>1 DEF DeviceTypeOK
    <3> QED  BY <3>1, <3>2, <3>3, <3>4, <3>5 DEF Next
  <2>3. d = DeviceOf(wtask) /\ qrunning = {wtask} /\ ~Has(wtask, "START")
    BY <2>1, <2>2 DEF WorkerRun, DeviceTypeOK, ListsOK, Fresh, Has
  <2>4. \A t \in Tasks : ~Started(t)
    BY <2>3 DEF Started
  <2>5. irq[d] = "none" /\ hpc[d] # "cancel" /\ ~woken[d] /\ ipc[d] \in {"idle", "trigger"}
    BY <2>1, <2>4 DEF StagesOK, DeviceTypeOK
  <2>6. resetRequest[d] = 0
    BY <2>1, <2>5 DEF PowerInv
  <2> QED  BY <2>5, <2>6
<1> QED  BY <1>1, CountInvariant, PTL DEF Spec, StartsClean
=============================================================================
