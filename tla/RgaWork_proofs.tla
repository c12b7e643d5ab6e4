--------------------------- MODULE RgaWork_proofs ---------------------------
(***************************************************************************)
(* What the cores of RgaScheduler do with the jobs, for any sets of jobs,  *)
(* cores and handles: a job that is done was executed, its buffers are     *)
(* mapped while the core works on it, the core at work is that of          *)
(* running_job, its power references are balanced, and no reference to a   *)
(* buffer is put twice.                                                    *)
(*                                                                         *)
(* The timers may expire at any moment.  What the properties say of a core *)
(* ends when a job is taken from it under way (InPeace).  The inductive    *)
(* invariant is in two layers on top of that of RgaScheduler_proofs: Work, *)
(* about jobs, cores and power, and Accounts, about the references.        *)
(***************************************************************************)
EXTENDS RgaScheduler_proofs

-----------------------------------------------------------------------------
(* The inductive invariant *)

\* The job is finished for whoever waits for it.
Ended(j) == fence[j] = "signaled" \/ done[j]

\* A thread whose job is in running_job and not started yet, or will not be.
Starts(t, c) == npc[t] \in {"run", "failret", "fail"} /\ At(t) = c

\* Threads, cores and job->core agree on who has which job.
Owners ==
    /\ \A t \in Threads :
          /\ njob[t] # None <=> npc[t] \in {"run", "ret", "failret", "fail", "put"}
          /\ njob[t] # None => core[njob[t]] = At(t)
    /\ \A c \in Cores :
          /\ npc[c] # "off" <=> ipc[c] = "next"
          /\ ijob[c] # None <=> ipc[c] \in {"took", "flagged"}
          /\ ijob[c] # None => core[ijob[c]] = c
          /\ hw[c] # None => core[hw[c]] = c
          /\ hung[c] => hw[c] # None
    /\ \A j \in Jobs : victim[j] # None <=> spc[j] \in {"reset", "put"}

\* rga_job_timeout_clean takes a job of its own core.
Evicted == \A j \in Jobs : victim[j] # None => core[victim[j]] = core[j]

\* The core and its irq thread do not know a job that is on its way to a list
\* or in one, and nobody took it for finished.
Fresh ==
    \A j \in Jobs :
        spc[j] \in Uncommitted \/ (\E c \in Cores : InQueue(j, c)) =>
            /\ ~Ended(j)
            /\ \A c \in Cores : hw[c] # j /\ ijob[c] # j
            /\ \A i \in Jobs : victim[i] # j

\* Until a job was taken from the core under way: running_job is that
\* of the thread that starts it and of the core at work, and of the interrupt
\* that is about to be handled.
Tended(c) ==
    /\ \A t \in Threads : Starts(t, c) => running[c] = njob[t]
    /\ hw[c] # None /\ ~hung[c] => running[c] = hw[c]
    /\ irq[c] \/ ipc[c] = "enter" => running[c] # None /\ hw[c] = None
    /\ ~ (irq[c] /\ ipc[c] = "enter")
    /\ irq[c] \/ ipc[c] = "enter" \/ (hw[c] # None /\ ~hung[c]) =>
           \A t \in Threads : ~Starts(t, c)

\* Until work was reset, too: running_job is being started, or the
\* core works on it, or its interrupt comes.
Watched(c) ==
    running[c] # None =>
        \/ hw[c] = running[c] \/ irq[c] \/ ipc[c] = "enter"
        \/ \E t \in Threads : Starts(t, c)

\* A committer resets a hung core only.
Resets(c) ==
    \A j \in Jobs : core[j] = c =>
        /\ spc[j] = "reset" => hw[c] # None /\ hung[c]
        /\ spc[j] # "put"

\* The irq thread ends jobs the core has finished.
Finished(c) ==
    /\ irq[c] \/ ipc[c] = "enter" => running[c] \in executed
    /\ ijob[c] # None => ijob[c] \in executed /\ hw[c] # ijob[c]

\* The job the core works on has its buffers.
Mapped(c) == hw[c] # None => owns[hw[c]] = 2

\* A job that was not started is nowhere else.
Unstarted(c) ==
    \A t \in Threads : At(t) = c /\ npc[t] \in {"run", "failret", "fail", "put"} =>
        /\ njob[t] # hw[c] /\ njob[t] # ijob[c] /\ ~Ended(njob[t])
        /\ npc[t] = "put" => njob[t] # running[c]

\* A job is finished when the core has executed it, or failed.
Honest(c) ==
    /\ \A t \in Threads : At(t) = c =>
          /\ npc[t] \in {"fail", "put"} => failed[njob[t]]
          /\ npc[t] = "ret" /\ Ended(njob[t]) => njob[t] \in executed
    /\ \A j \in Jobs : core[j] = c /\ Ended(j) => j \in executed \/ failed[j]

Served(c) ==
    Watched(c) /\ Resets(c) /\ Finished(c) /\ Mapped(c) /\ Unstarted(c) /\ Honest(c)

\* The runtime references: of the started job, of the irq thread, and of the
\* jobs rga_job_timeout_clean is about to end.
Busy(c)    == running[c] # None /\ \A t \in Threads : ~Starts(t, c)
Ending(c)  == ipc[c] \in {"took", "flagged", "next", "power"}
Victims(c) == {j \in Jobs : victim[j] # None /\ core[j] = c}
Balanced(c) ==
    power[c] = (IF Busy(c) THEN 1 ELSE 0) + (IF Ending(c) THEN 1 ELSE 0) + Cardinality(Victims(c))

Work ==
    /\ Owners /\ Evicted /\ Fresh
    /\ \A c \in Cores : seized[c] = {} => Tended(c) /\ Balanced(c)
    /\ \A c \in Cores : seized[c] = {} /\ lost = {} => Served(c)

WInv == IInv /\ (~undefined => Work)

-----------------------------------------------------------------------------
(* Facts about a state *)

\* The victims of a core can be counted.
LEMMA VictimsFinite ==
    ASSUME NEW c \in Cores
    PROVE  IsFiniteSet(Victims(c)) /\ Cardinality(Victims(c)) \in Nat
BY RgaAssumption, FS_Subset, FS_CardinalityType DEF Victims

\* The jobs that own a reference of a channel.
Sources(h) == {j \in Jobs : owns[j] > 0 /\ Src[j] = h}
Targets(h) == {j \in Jobs : owns[j] > 1 /\ Dst[j] = h}

\* A finite set that gains or loses one element.
LEMMA OneElement ==
    ASSUME NEW A, IsFiniteSet(A), NEW x
    PROVE  /\ Cardinality(A) \in Nat
           /\ x \notin A => Cardinality(A \cup {x}) = Cardinality(A) + 1
           /\ x \in A => Cardinality(A \ {x}) = Cardinality(A) - 1 /\ Cardinality(A) > 0
<1>1. Cardinality(A) \in Nat
    BY FS_CardinalityType
<1>2. x \notin A => Cardinality(A \cup {x}) = Cardinality(A) + 1
    BY FS_AddElement
<1>3. ASSUME x \in A PROVE Cardinality(A \ {x}) = Cardinality(A) - 1 /\ Cardinality(A) > 0
  <2>1. IsFiniteSet(A \ {x}) /\ Cardinality(A \ {x}) = Cardinality(A) - 1
    BY <1>3, FS_RemoveElement
  <2>2. Cardinality(A \ {x}) \in Nat
    BY <2>1, FS_CardinalityType
  <2> QED BY <1>1, <2>1, <2>2
<1> QED BY <1>1, <1>2, <1>3

\* The jobs that hold a channel are finitely many.
LEMMA HoldersFinite ==
    ASSUME NEW h \in Handles
    PROVE  IsFiniteSet(Sources(h)) /\ IsFiniteSet(Targets(h))
BY RgaAssumption, FS_Subset DEF Sources, Targets

-----------------------------------------------------------------------------
(* Steps that leave the cores alone *)

\* What a step keeps that moves committers on, gives cores to jobs that have
\* none, or seized a job.
LEMMA KeepWork ==
    ASSUME TypeOK, Sound, Work,
           UNCHANGED <<todo, power, done, owns, failed, npc, njob, ipc, ijob>>,
           UNCHANGED <<hw, irq, hung, executed, lost, victim>>,
           \A j \in Jobs : fence'[j] = "signaled" <=> fence[j] = "signaled",
           \A c \in Cores : seized'[c] = {} => seized[c] = {} /\ running'[c] = running[c],
           \A j \in Jobs : core'[j] = core[j] \/ (spc[j] = "assign" /\ spc'[j] = "clean"),
           \A j \in Jobs : spc'[j] \in Uncommitted => spc[j] \in Uncommitted,
           \A j \in Jobs : /\ spc'[j] = "reset" <=> spc[j] = "reset"
                           /\ spc'[j] = "put" <=> spc[j] = "put"
    PROVE  Work'
<1>1. \A j \in Jobs : Ended(j)' <=> Ended(j)
    BY DEF Ended
<1>2. \A t \in Threads : npc[t] # "off" \/ njob[t] # None => At(t)' = At(t)
  <2> SUFFICES ASSUME NEW t \in Jobs, npc[t] # "off" PROVE core'[t] = core[t]
    BY DEF At, Threads, Owners, Work
  <2>1. spc[t] = "next"
    BY DEF Sound, Locals, Runners, Threads
  <2> QED BY <2>1
<1>3. \A j \in Jobs : core'[j] # core[j] =>
          /\ victim[j] = None /\ ~Ended(j) /\ spc[j] = "assign"
          /\ \A c \in Cores : hw[c] # j /\ ijob[c] # j
          /\ \A t \in Threads : njob[t] # j
    BY DEF Work, Fresh, Owners, Uncommitted, Sound, Before
<1>4. Owners'
  <2>1. ASSUME NEW t \in Threads
        PROVE  /\ njob'[t] # None <=> npc'[t] \in {"run", "ret", "failret", "fail", "put"}
               /\ njob'[t] # None => core'[njob'[t]] = At(t)'
    BY <1>2, <1>3 DEF Work, Owners, TypeOK
  <2>2. ASSUME NEW c \in Cores
        PROVE  /\ npc'[c] # "off" <=> ipc'[c] = "next"
               /\ ijob'[c] # None <=> ipc'[c] \in {"took", "flagged"}
               /\ ijob'[c] # None => core'[ijob'[c]] = c
               /\ hw'[c] # None => core'[hw'[c]] = c
               /\ hung'[c] => hw'[c] # None
    BY <1>3 DEF Work, Owners, TypeOK
  <2>3. \A j \in Jobs : victim'[j] # None <=> spc'[j] \in {"reset", "put"}
    BY DEF Work, Owners
  <2> QED BY <2>1, <2>2, <2>3 DEF Owners
<1>5. Fresh'
    BY <1>1, SameLists DEF Work, Fresh
<1>9. Evicted'
  <2> SUFFICES ASSUME NEW j \in Jobs, victim[j] # None PROVE core'[victim[j]] = core'[j]
    BY DEF Evicted
  <2>1. victim[j] \in Jobs /\ core[victim[j]] = core[j]
    BY DEF TypeOK, Work, Evicted
  <2>2. core'[j] = core[j]
    BY <1>3
  <2>3. spc[victim[j]] \notin Uncommitted
    BY <2>1 DEF Work, Fresh
  <2> QED BY <1>3, <2>1, <2>2, <2>3 DEF Uncommitted
<1>6. \A t \in Threads, c \in Cores : Starts(t, c)' <=> Starts(t, c)
    BY <1>2 DEF Starts
<1>7. ASSUME NEW c \in Cores, seized'[c] = {} PROVE Tended(c)' /\ Balanced(c)'
  <2>1. seized[c] = {} /\ running'[c] = running[c] /\ Tended(c) /\ Balanced(c)
    BY <1>7 DEF Work
  <2>2. Tended(c)'
    BY <2>1, <1>6 DEF Tended
  <2>3. Busy(c)' <=> Busy(c)
    BY <2>1, <1>6 DEF Busy
  <2>4. Ending(c)' <=> Ending(c)
    BY DEF Ending
  <2>5. Victims(c)' = Victims(c)
    BY <1>3 DEF Victims
  <2>6. Balanced(c)'
    BY <2>1, <2>3, <2>4, <2>5 DEF Balanced
  <2> QED BY <2>2, <2>6
<1>8. ASSUME NEW c \in Cores, seized'[c] = {}, lost' = {} PROVE Served(c)'
  <2>1. seized[c] = {} /\ running'[c] = running[c] /\ Served(c)
    BY <1>8 DEF Work
  <2>2. Watched(c)'
    BY <2>1, <1>6 DEF Served, Watched
  <2>3. Resets(c)'
    BY <2>1, <1>3 DEF Served, Resets
  <2>4. Finished(c)' /\ Mapped(c)'
    BY <2>1 DEF Served, Finished, Mapped
  <2>5. \A t \in Threads : npc[t] # "off" /\ At(t)' = c => At(t) = c
    BY <1>2
  <2>6. \A t \in Threads : njob[t] # None => (Ended(njob[t])' <=> Ended(njob[t]))
    <3>1. \A t \in Threads : njob[t] # None => njob[t] \in Jobs
      BY DEF TypeOK
    <3> QED BY <3>1, <1>1 DEF Ended
  <2>7. Unstarted(c)'
    BY <2>1, <2>5, <2>6 DEF Served, Unstarted, Work, Owners
  <2>8. Honest(c)'
    <3>1. \A t \in Threads : At(t)' = c =>
          /\ npc'[t] \in {"fail", "put"} => failed'[njob'[t]]
          /\ npc'[t] = "ret" /\ Ended(njob[t])' => njob'[t] \in executed'
      BY <2>1, <2>5, <2>6 DEF Served, Honest, Work, Owners
    <3>2. \A j \in Jobs : core'[j] = c /\ Ended(j)' => j \in executed' \/ failed'[j]
      BY <2>1, <1>1, <1>3 DEF Served, Honest
    <3> QED BY <3>1, <3>2 DEF Honest
  <2> QED BY <2>2, <2>3, <2>4, <2>7, <2>8 DEF Served
<1> QED BY <1>4, <1>5, <1>7, <1>8, <1>9 DEF Work

\* The steps of a committer that leave the cores alone.
LEMMA CommitKeeps ==
    ASSUME TypeOK, Sound, Work, NEW j \in Jobs,
           \/ Commit(j) \/ Refuse(j) \/ CheckFence(j) \/ BadFence(j) \/ AddCallback(j)
           \/ InFenceSignal(j) \/ Assign(j) \/ Reject(j)
    PROVE  Work'
<1> DEFINE Moved(k) == /\ spc'[k] \in Uncommitted => spc[k] \in Uncommitted
                       /\ spc'[k] = "reset" <=> spc[k] = "reset"
                       /\ spc'[k] = "put" <=> spc[k] = "put"
<1>1. Quiet
    BY DEF Commit, Refuse, CheckFence, BadFence, AddCallback, InFenceSignal, Assign, Reject
<1>2. UNCHANGED <<done, failed>>
    BY DEF Commit, Refuse, CheckFence, BadFence, AddCallback, InFenceSignal, Assign, Reject,
        GiveUp, job
<1>3. (\A k \in Jobs : fence'[k] = "signaled" <=> fence[k] = "signaled")
  <2>1. CASE Commit(j)
    <3>1. ~Ended(j)
      BY <2>1 DEF Work, Fresh, Uncommitted, Commit
    <3>2. fence' \in {fence, [fence EXCEPT ![j] = "pending"]}
      BY <2>1 DEF Commit, Set
    <3> QED BY <3>1, <3>2 DEF Ended, TypeOK
  <2>2. CASE ~Commit(j)
    <3>1. fence' = fence
      BY <2>2 DEF Commit, Refuse, CheckFence, BadFence, AddCallback, InFenceSignal, Assign,
          Reject, job
    <3> QED BY <3>1
  <2> QED BY <2>1, <2>2
<1>4. \A k \in Jobs : core'[k] = core[k] \/ (spc[k] = "assign" /\ spc'[k] = "clean")
  <2>1. CASE Assign(j)
    <3>1. /\ \E c : core' = [core EXCEPT ![j] = c]
          /\ spc[j] = "assign" /\ spc' = [spc EXCEPT ![j] = "clean"]
      BY <2>1 DEF Assign, Set
    <3> QED BY <3>1 DEF TypeOK
  <2>2. CASE ~Assign(j)
    <3>1. core' = core
      BY <2>2 DEF Commit, Refuse, CheckFence, BadFence, AddCallback, InFenceSignal, Assign,
          Reject, GiveUp, job
    <3> QED BY <3>1
  <2> QED BY <2>1, <2>2
<1>5. \A k \in Jobs : Moved(k)
  <2>1. \/ spc' = spc
        \/ /\ spc[j] \in {"new", "check_fence", "add_callback", "callback", "assign"}
           /\ \E s \in {"check_fence", "assign", "add_callback", "callback", "clean", "end"} :
                  spc' = [spc EXCEPT ![j] = s]
    BY DEF Commit, Refuse, CheckFence, BadFence, AddCallback, InFenceSignal, Assign, Reject,
        GiveUp, Set
  <2> QED BY <2>1 DEF TypeOK, Uncommitted
<1>6. /\ UNCHANGED <<todo, running, power, owns, npc, njob, ipc, ijob, hw, irq, hung, executed>>
      /\ UNCHANGED <<seized, lost, victim>>
    BY <1>1 DEF Quiet, sched, mm, next, irqt, hard
<1>7. \A c \in Cores : seized'[c] = {} => seized[c] = {} /\ running'[c] = running[c]
    BY <1>6
<1> QED BY <1>2, <1>3, <1>4, <1>5, <1>6, <1>7, KeepWork

\* A caller that gives up its job takes it from a core under way, or from none.
LEMMA WaitSeizes ==
    ASSUME TypeOK, Sound, NEW j \in Jobs,
           ReadRet(j) \/ WaitTimeout(j) \/ WaitSignal(j) \/ WaitDone(j) \/ Abort(j)
    PROVE  \A c \in Cores : seized'[c] = {} => seized[c] = {} /\ running'[c] = running[c]
<1>1. CASE Abort(j)
  <2>1. spc[j] \in Assigned
    BY <1>1 DEF Abort, Assigned
  <2>2. core[j] \in Cores
    BY <2>1, HasCore
  <2>3. \/ UNCHANGED <<running, seized>>
        \/ /\ running' = [running EXCEPT ![core[j]] = None]
           /\ seized' = [seized EXCEPT ![core[j]] = seized[core[j]] \cup {"caller"}]
    BY <1>1 DEF Abort, Seize, Set
  <2>4. seized \in [Cores -> SUBSET {"caller", "timeout"}] /\ running \in [Cores -> Jobs \cup {None}]
    BY DEF TypeOK
  <2> QED BY <2>2, <2>3, <2>4
<1>2. CASE ~Abort(j)
  <2>1. UNCHANGED <<running, seized>>
    BY <1>2 DEF ReadRet, WaitTimeout, WaitSignal, WaitDone, Waiting, sched, hist
  <2> QED BY <2>1
<1> QED BY <1>1, <1>2

\* ... of one that waits for its job, or gives it up.
LEMMA WaitKeeps ==
    ASSUME TypeOK, Sound, Work, NEW j \in Jobs,
           ReadRet(j) \/ WaitTimeout(j) \/ WaitSignal(j) \/ WaitDone(j) \/ Abort(j)
    PROVE  Work'
<1>1. /\ UNCHANGED <<todo, power, core, done, failed, fence, owns, npc, njob, ipc, ijob>>
      /\ UNCHANGED <<hw, irq, hung, executed, lost, victim>>
    BY DEF ReadRet, WaitTimeout, WaitSignal, WaitDone, Abort, Waiting, sched, job, mm, next,
        irqt, hard, hist
<1>2. \A c \in Cores : seized'[c] = {} => seized[c] = {} /\ running'[c] = running[c]
    BY WaitSeizes
<1>3. \A k \in Jobs : /\ spc'[k] \in Uncommitted => spc[k] \in Uncommitted
                      /\ spc'[k] = "reset" <=> spc[k] = "reset"
                      /\ spc'[k] = "put" <=> spc[k] = "put"
  <2>1. /\ spc[j] \in {"ret", "wait", "abort"}
        /\ \E s \in {"abort", "wait", "timeout", "end"} : spc' = [spc EXCEPT ![j] = s]
    BY DEF ReadRet, WaitTimeout, WaitSignal, WaitDone, Abort, Waiting, Set
  <2> QED BY <2>1 DEF TypeOK, Uncommitted
<1> QED BY <1>1, <1>2, <1>3, KeepWork

\* ... and of the clients, who import and release buffers.
LEMMA ClientKeeps ==
    ASSUME TypeOK, Sound, Work,
           UNCHANGED vars \/ \E h \in Handles : Import(h) \/ Release(h)
    PROVE  Work'
<1>1. /\ UNCHANGED <<todo, running, power, core, done, failed, fence, owns, npc, njob>>
      /\ UNCHANGED <<ipc, ijob, hw, irq, hung, executed, lost, seized, victim, spc>>
  <2>1. CASE UNCHANGED vars
    BY <2>1 DEF vars, sched, job, mm, next, irqt, hard, hist
  <2>2. CASE \E h \in Handles : Import(h) \/ Release(h)
    BY <2>2 DEF Import, Release, sched, job, next, irqt, hard, hist
  <2> QED BY <2>1, <2>2
<1> QED BY <1>1, KeepWork

-----------------------------------------------------------------------------
(* The core and its irq thread *)

\* The core has finished its job: the interrupt is of running_job.
LEMMA HwDoneKeeps ==
    ASSUME TypeOK, Sound, Work, NEW c \in Cores, HwDone(c)
    PROVE  Work'
<1>1. /\ hw[c] # None /\ ~hung[c] /\ executed' = executed \cup {hw[c]}
      /\ hw' = [hw EXCEPT ![c] = None] /\ irq' = [irq EXCEPT ![c] = TRUE]
      /\ UNCHANGED <<todo, running, power, core, done, failed, fence, owns, npc, njob>>
      /\ UNCHANGED <<ipc, ijob, hung, lost, seized, victim, spc>>
    BY DEF HwDone, sched, job, mm, next, irqt, hist, Set
<1>2. /\ hw'[c] = None /\ irq'[c] = TRUE
      /\ \A d \in Cores \ {c} : hw'[d] = hw[d] /\ irq'[d] = irq[d]
    BY <1>1 DEF TypeOK
<1>3. \A t \in Threads, d \in Cores : At(t)' = At(t) /\ (Starts(t, d)' <=> Starts(t, d))
    BY <1>1 DEF At, Starts
<1>4. \A k \in Jobs : Ended(k)' <=> Ended(k)
    BY <1>1 DEF Ended
<1>5. Owners'
    BY <1>1, <1>2, <1>3 DEF Work, Owners
<1>6. Fresh'
    BY <1>1, <1>2, <1>4, SameLists, RgaAssumption DEF Work, Fresh
<1>7. ASSUME NEW d \in Cores, seized'[d] = {} PROVE Tended(d)' /\ Balanced(d)'
  <2>1. Tended(d) /\ Balanced(d)
    BY <1>1, <1>7 DEF Work
  <2>2. Tended(d)'
    BY <1>1, <1>2, <1>3, <2>1 DEF Tended
  <2>3. (Busy(d)' <=> Busy(d)) /\ (Ending(d)' <=> Ending(d)) /\ Victims(d)' = Victims(d)
    BY <1>1, <1>3 DEF Busy, Ending, Victims
  <2>4. Balanced(d)'
    BY <1>1, <2>1, <2>3 DEF Balanced
  <2> QED BY <2>2, <2>4
<1>8. ASSUME NEW d \in Cores, seized'[d] = {}, lost' = {} PROVE Served(d)'
  <2>1. Tended(d) /\ Served(d)
    BY <1>1, <1>8 DEF Work
  <2>2. Watched(d)'
    BY <1>1, <1>2, <1>3, <2>1 DEF Served, Watched, Tended
  <2>3. Resets(d)'
    BY <1>1, <1>2, <2>1 DEF Served, Resets
  <2>4. Finished(d)' /\ Mapped(d)'
    BY <1>1, <1>2, <2>1 DEF Served, Finished, Mapped, Tended
  <2>5. Unstarted(d)'
    BY <1>1, <1>2, <1>3, <1>4, <2>1 DEF Served, Unstarted, Work, Owners, Ended, TypeOK
  <2>6. Honest(d)'
    BY <1>1, <1>3, <1>4, <2>1 DEF Served, Honest, Work, Owners, TypeOK
  <2> QED BY <2>2, <2>3, <2>4, <2>5, <2>6 DEF Served
<1> QED BY <1>1, <1>5, <1>6, <1>7, <1>8 DEF Work, Evicted

\* The core stops answering: its job stays where it is.
LEMMA HangKeeps ==
    ASSUME TypeOK, Sound, Work, NEW c \in Cores, Hang(c)
    PROVE  Work'
<1>1. /\ hw[c] # None /\ ~hung[c] /\ hung' = [hung EXCEPT ![c] = TRUE]
      /\ UNCHANGED <<todo, running, power, core, done, failed, fence, owns, npc, njob>>
      /\ UNCHANGED <<ipc, ijob, hw, irq, executed, lost, seized, victim, spc>>
    BY DEF Hang, sched, job, mm, next, irqt, hist, Set
<1>2. hung'[c] = TRUE /\ \A d \in Cores \ {c} : hung'[d] = hung[d]
    BY <1>1 DEF TypeOK
<1>3. \A t \in Threads, d \in Cores : At(t)' = At(t) /\ (Starts(t, d)' <=> Starts(t, d))
    BY <1>1 DEF At, Starts
<1>4. \A k \in Jobs : Ended(k)' <=> Ended(k)
    BY <1>1 DEF Ended
<1>5. Owners'
    BY <1>1, <1>2, <1>3 DEF Work, Owners
<1>6. Fresh'
    BY <1>1, <1>4, SameLists DEF Work, Fresh
<1>7. ASSUME NEW d \in Cores, seized'[d] = {} PROVE Tended(d)' /\ Balanced(d)'
  <2>1. Tended(d) /\ Balanced(d)
    BY <1>1, <1>7 DEF Work
  <2>2. Tended(d)'
    BY <1>1, <1>2, <1>3, <2>1 DEF Tended
  <2>3. (Busy(d)' <=> Busy(d)) /\ (Ending(d)' <=> Ending(d)) /\ Victims(d)' = Victims(d)
    BY <1>1, <1>3 DEF Busy, Ending, Victims
  <2>4. Balanced(d)'
    BY <1>1, <2>1, <2>3 DEF Balanced
  <2> QED BY <2>2, <2>4
<1>8. ASSUME NEW d \in Cores, seized'[d] = {}, lost' = {} PROVE Served(d)'
  <2>1. Tended(d) /\ Served(d)
    BY <1>1, <1>8 DEF Work
  <2>2. Watched(d)'
    BY <1>1, <1>3, <2>1 DEF Served, Watched
  <2>3. Resets(d)'
    BY <1>1, <1>2, <2>1 DEF Served, Resets
  <2>4. Finished(d)' /\ Mapped(d)'
    BY <1>1, <2>1 DEF Served, Finished, Mapped
  <2>5. Unstarted(d)'
    BY <1>1, <1>3, <1>4, <2>1 DEF Served, Unstarted, Work, Owners, Ended, TypeOK
  <2>6. Honest(d)'
    BY <1>1, <1>3, <1>4, <2>1 DEF Served, Honest, Work, Owners, TypeOK
  <2> QED BY <2>2, <2>3, <2>4, <2>5, <2>6 DEF Served
<1> QED BY <1>1, <1>5, <1>6, <1>7, <1>8 DEF Work, Evicted

\* The irq thread is woken and finds running_job.
LEMMA IrqThreadKeeps ==
    ASSUME TypeOK, Sound, Work, NEW c \in Cores, IrqThread(c)
    PROVE  Work'
<1>1. /\ irq[c] /\ ipc[c] = "idle" /\ irq' = [irq EXCEPT ![c] = FALSE]
      /\ ipc' = IF running[c] = None THEN ipc ELSE [ipc EXCEPT ![c] = "enter"]
      /\ UNCHANGED <<todo, running, power, core, done, failed, fence, owns, npc, njob>>
      /\ UNCHANGED <<ijob, hw, hung, executed, lost, seized, victim, spc>>
    BY DEF IrqThread, sched, job, mm, next, hist, Set
<1>2. /\ irq'[c] = FALSE /\ ipc'[c] = (IF running[c] = None THEN "idle" ELSE "enter")
      /\ \A d \in Cores \ {c} : irq'[d] = irq[d] /\ ipc'[d] = ipc[d]
    BY <1>1 DEF TypeOK
<1>3. \A t \in Threads, d \in Cores : At(t)' = At(t) /\ (Starts(t, d)' <=> Starts(t, d))
    BY <1>1 DEF At, Starts
<1>4. \A k \in Jobs : Ended(k)' <=> Ended(k)
    BY <1>1 DEF Ended
<1>5. Owners'
    BY <1>1, <1>2, <1>3 DEF Work, Owners
<1>6. Fresh'
    BY <1>1, <1>4, SameLists DEF Work, Fresh
<1>7. ASSUME NEW d \in Cores, seized'[d] = {} PROVE Tended(d)' /\ Balanced(d)'
  <2>1. Tended(d) /\ Balanced(d)
    BY <1>1, <1>7 DEF Work
  <2>2. Tended(d)'
    BY <1>1, <1>2, <1>3, <2>1 DEF Tended
  <2>3. (Busy(d)' <=> Busy(d)) /\ (Ending(d)' <=> Ending(d)) /\ Victims(d)' = Victims(d)
    BY <1>1, <1>2, <1>3 DEF Busy, Ending, Victims
  <2>4. Balanced(d)'
    BY <1>1, <2>1, <2>3 DEF Balanced
  <2> QED BY <2>2, <2>4
<1>8. ASSUME NEW d \in Cores, seized'[d] = {}, lost' = {} PROVE Served(d)'
  <2>1. Tended(d) /\ Served(d)
    BY <1>1, <1>8 DEF Work
  <2>2. Watched(d)'
    BY <1>1, <1>2, <1>3, <2>1 DEF Served, Watched
  <2>3. Resets(d)'
    BY <1>1, <2>1 DEF Served, Resets
  <2>4. Finished(d)' /\ Mapped(d)'
    BY <1>1, <1>2, <2>1 DEF Served, Finished, Mapped
  <2>5. Unstarted(d)'
    BY <1>1, <1>3, <1>4, <2>1 DEF Served, Unstarted, Work, Owners, Ended, TypeOK
  <2>6. Honest(d)'
    BY <1>1, <1>3, <1>4, <2>1 DEF Served, Honest, Work, Owners, TypeOK
  <2> QED BY <2>2, <2>3, <2>4, <2>5, <2>6 DEF Served
<1> QED BY <1>1, <1>5, <1>6, <1>7, <1>8 DEF Work, Evicted

\* rga_job_done takes running_job, which the core has executed.
LEMMA DoneTakeKeeps ==
    ASSUME TypeOK, Sound, Work, NEW c \in Cores, DoneTake(c), ~undefined'
    PROVE  Work'
<1>1. /\ ipc[c] = "enter" /\ running[c] # None /\ running[c] \in Jobs
      /\ running' = [running EXCEPT ![c] = None] /\ ijob' = [ijob EXCEPT ![c] = running[c]]
      /\ ipc' = [ipc EXCEPT ![c] = "took"]
      /\ UNCHANGED <<todo, power, core, done, failed, fence, owns, npc, njob>>
      /\ UNCHANGED <<hw, irq, hung, executed, lost, seized, victim, spc>>
  <2>1. running[c] # None
    BY Zenon DEF DoneTake
  <2> QED BY <2>1 DEF DoneTake, job, mm, next, hard, Set, TypeOK
<1>2. /\ running'[c] = None /\ ijob'[c] = running[c] /\ ipc'[c] = "took"
      /\ \A d \in Cores \ {c} : /\ running'[d] = running[d] /\ ijob'[d] = ijob[d]
                                /\ ipc'[d] = ipc[d]
      /\ core[running[c]] = c
    BY <1>1 DEF TypeOK, Sound, InLists
<1>3. \A t \in Threads, d \in Cores : At(t)' = At(t) /\ (Starts(t, d)' <=> Starts(t, d))
    BY <1>1 DEF At, Starts
<1>4. \A k \in Jobs : Ended(k)' <=> Ended(k)
    BY <1>1 DEF Ended
<1>5. Owners'
    BY <1>1, <1>2, <1>3 DEF Work, Owners
<1>6. Fresh'
  <2>1. \A k \in Jobs : spc[k] \in Uncommitted \/ (\E d \in Cores : InQueue(k, d)) =>
            running[c] # k
    BY DEF Sound, InLists, Before
  <2> QED BY <1>1, <1>2, <1>4, <2>1, SameLists DEF Work, Fresh
<1>7. ASSUME NEW d \in Cores, seized'[d] = {} PROVE Tended(d)' /\ Balanced(d)'
  <2>1. Tended(d) /\ Balanced(d)
    BY <1>1, <1>7 DEF Work
  <2>2. Tended(d)'
    BY <1>1, <1>2, <1>3, <2>1 DEF Tended
  <2>3. Victims(d)' = Victims(d)
    BY <1>1 DEF Victims
  <2>4. CASE d = c
    <3>1. Busy(d) /\ ~Busy(d)' /\ ~Ending(d) /\ Ending(d)'
      BY <1>1, <1>2, <2>1, <2>4 DEF Busy, Ending, Tended
    <3> QED BY <1>1, <2>1, <2>2, <2>3, <3>1, VictimsFinite DEF Balanced
  <2>5. CASE d # c
    <3>1. (Busy(d)' <=> Busy(d)) /\ (Ending(d)' <=> Ending(d))
      BY <1>2, <1>3, <2>5 DEF Busy, Ending
    <3> QED BY <1>1, <2>1, <2>2, <2>3, <3>1 DEF Balanced
  <2> QED BY <2>4, <2>5
<1>8. ASSUME NEW d \in Cores, seized'[d] = {}, lost' = {} PROVE Served(d)'
  <2>1. Tended(d) /\ Served(d)
    BY <1>1, <1>8 DEF Work
  <2>2. Watched(d)'
    BY <1>1, <1>2, <1>3, <2>1 DEF Served, Watched
  <2>3. Resets(d)'
    BY <1>1, <2>1 DEF Served, Resets
  <2>4. Finished(d)' /\ Mapped(d)'
    BY <1>1, <1>2, <2>1 DEF Served, Finished, Mapped, Tended
  <2>5. Unstarted(d)'
    <3> SUFFICES ASSUME NEW t \in Threads, At(t) = d,
                        npc[t] \in {"run", "failret", "fail", "put"}
                 PROVE  /\ njob[t] # hw[d] /\ njob[t] # ijob'[d] /\ ~Ended(njob[t])
                        /\ npc[t] = "put" => njob[t] # running'[d]
      BY <1>1, <1>3 DEF Unstarted, Ended
    <3>1. /\ njob[t] # hw[d] /\ njob[t] # ijob[d] /\ ~Ended(njob[t])
          /\ npc[t] = "put" => njob[t] # running[d]
      BY <2>1 DEF Served, Unstarted
    <3>2. njob[t] # None
      BY DEF Work, Owners
    <3>3. d = c => npc[t] = "put"
      BY <1>1, <2>1 DEF Tended, Starts
    <3> QED BY <1>2, <3>1, <3>2, <3>3
  <2>6. Honest(d)'
    BY <1>1, <1>3, <1>4, <2>1 DEF Served, Honest, Work, Owners, TypeOK
  <2> QED BY <2>2, <2>3, <2>4, <2>5, <2>6 DEF Served
<1> QED BY <1>1, <1>5, <1>6, <1>7, <1>8 DEF Work, Evicted

\* rga_job_done marks a job that was executed as done.
LEMMA DoneFlagKeeps ==
    ASSUME TypeOK, Sound, Work, NEW c \in Cores, DoneFlag(c)
    PROVE  Work'
<1>1. /\ ipc[c] = "took" /\ ijob[c] \in Jobs /\ ijob[c] # None /\ core[ijob[c]] = c
      /\ done' = [done EXCEPT ![ijob[c]] = TRUE] /\ failed' = [failed EXCEPT ![ijob[c]] = FALSE]
      /\ ipc' = [ipc EXCEPT ![c] = "flagged"]
      /\ UNCHANGED <<todo, running, power, core, fence, owns, npc, njob>>
      /\ UNCHANGED <<ijob, hw, irq, hung, executed, lost, seized, victim, spc>>
    BY RgaAssumption DEF DoneFlag, sched, mm, next, hard, Set, Sound, Locals, Enders, Work, Owners
<1>2. /\ ipc'[c] = "flagged" /\ \A d \in Cores \ {c} : ipc'[d] = ipc[d]
      /\ \A k \in Jobs \ {ijob[c]} : done'[k] = done[k] /\ failed'[k] = failed[k]
    BY <1>1 DEF TypeOK
<1>3. \A t \in Threads, d \in Cores : At(t)' = At(t) /\ (Starts(t, d)' <=> Starts(t, d))
    BY <1>1 DEF At, Starts
<1>4. \A k \in Jobs \ {ijob[c]} : Ended(k)' <=> Ended(k)
    BY <1>1, <1>2 DEF Ended
<1>5. Owners'
    BY <1>1, <1>2, <1>3 DEF Work, Owners
<1>6. Fresh'
    BY <1>1, <1>4, SameLists DEF Work, Fresh
<1>7. ASSUME NEW d \in Cores, seized'[d] = {} PROVE Tended(d)' /\ Balanced(d)'
  <2>1. Tended(d) /\ Balanced(d)
    BY <1>1, <1>7 DEF Work
  <2>2. Tended(d)'
    BY <1>1, <1>2, <1>3, <2>1 DEF Tended
  <2>3. (Busy(d)' <=> Busy(d)) /\ (Ending(d)' <=> Ending(d)) /\ Victims(d)' = Victims(d)
    BY <1>1, <1>2, <1>3 DEF Busy, Ending, Victims
  <2>4. Balanced(d)'
    BY <1>1, <2>1, <2>3 DEF Balanced
  <2> QED BY <2>2, <2>4
<1>8. ASSUME NEW d \in Cores, seized'[d] = {}, lost' = {} PROVE Served(d)'
  <2>1. Tended(d) /\ Served(d)
    BY <1>1, <1>8 DEF Work
  <2>2. Watched(d)'
    BY <1>1, <1>2, <1>3, <2>1 DEF Served, Watched
  <2>3. Resets(d)'
    BY <1>1, <2>1 DEF Served, Resets
  <2>4. Finished(d)' /\ Mapped(d)'
    BY <1>1, <1>2, <2>1 DEF Served, Finished, Mapped
  <2>5. /\ d = c => ijob[c] \in executed
        /\ \A t \in Threads : /\ njob[t] # None => njob[t] \in Jobs /\ core[njob[t]] = At(t)
                              /\ npc[t] \in {"run", "ret", "failret", "fail", "put"} => njob[t] # None
    BY <1>1, <2>1 DEF Served, Finished, Work, Owners, TypeOK
  <2>6. Unstarted(d)'
    <3> SUFFICES ASSUME NEW t \in Threads, At(t) = d,
                        npc[t] \in {"run", "failret", "fail", "put"}
                 PROVE  /\ njob[t] # hw[d] /\ njob[t] # ijob[d] /\ ~Ended(njob[t])'
                        /\ npc[t] = "put" => njob[t] # running[d]
      BY <1>1, <1>3 DEF Unstarted, Ended
    <3>1. /\ njob[t] # hw[d] /\ njob[t] # ijob[d] /\ ~Ended(njob[t])
          /\ npc[t] = "put" => njob[t] # running[d]
      BY <2>1 DEF Served, Unstarted
    <3>2. njob[t] # ijob[c] /\ njob[t] \in Jobs
      BY <1>1, <2>5, <3>1
    <3>3. ~Ended(njob[t])'
      BY <1>1, <1>2, <3>1, <3>2 DEF Ended
    <3> QED BY <3>1, <3>3
  <2>7. Honest(d)'
    <3>1. ASSUME NEW t \in Threads, At(t) = d
          PROVE  /\ npc[t] \in {"fail", "put"} => failed'[njob[t]]
                 /\ npc[t] = "ret" /\ Ended(njob[t])' => njob[t] \in executed
      <4>1. /\ npc[t] \in {"fail", "put"} => failed[njob[t]] /\ njob[t] # ijob[d]
            /\ npc[t] = "ret" /\ Ended(njob[t]) => njob[t] \in executed
        BY <2>1, <3>1 DEF Served, Honest, Unstarted
      <4>2. CASE njob[t] = ijob[c]
        <5>1. d = c
          BY <1>1, <2>5, <3>1, <4>2
        <5> QED BY <2>5, <4>1, <4>2, <5>1
      <4>3. CASE njob[t] # ijob[c]
        BY <1>1, <1>2, <2>5, <4>1, <4>3 DEF Ended
      <4> QED BY <4>2, <4>3
    <3>2. \A j \in Jobs : core[j] = d /\ Ended(j)' => j \in executed \/ failed'[j]
      BY <1>1, <1>2, <1>4, <2>1, <2>5 DEF Served, Honest
    <3> QED BY <1>1, <1>3, <3>1, <3>2 DEF Honest, Ended
  <2> QED BY <2>2, <2>3, <2>4, <2>6, <2>7 DEF Served
<1> QED BY <1>1, <1>5, <1>6, <1>7, <1>8 DEF Work, Evicted

\* rga_job_done puts the buffers and the fence of its job, and goes on with
\* rga_job_next.
LEMMA DoneFinishKeeps ==
    ASSUME TypeOK, Sound, Work, NEW c \in Cores, DoneFinish(c)
    PROVE  Work'
<1>1. /\ ipc[c] = "flagged" /\ ijob[c] \in Jobs /\ ijob[c] # None /\ core[ijob[c]] = c
      /\ npc[c] = "off" /\ c \in Threads
    BY RgaAssumption DEF DoneFinish, Sound, Locals, Enders, Work, Owners, TypeOK, Threads
<1>2. /\ owns' = [owns EXCEPT ![ijob[c]] = 0] /\ ijob' = [ijob EXCEPT ![c] = None]
      /\ fence' \in {fence, [fence EXCEPT ![ijob[c]] = "signaled"]}
      /\ ipc' = [ipc EXCEPT ![c] = "next"] /\ npc' = [npc EXCEPT ![c] = "loop"]
      /\ UNCHANGED <<todo, running, power, core, done, failed, njob>>
      /\ UNCHANGED <<hw, irq, hung, executed, lost, seized, victim, spc>>
    BY DEF DoneFinish, PutHandles, Signal, DoneNext, sched, hard, Set
<1>3. /\ ipc'[c] = "next" /\ \A d \in Cores \ {c} : ipc'[d] = ipc[d] /\ ijob'[d] = ijob[d]
      /\ ijob'[c] = None
      /\ npc'[c] = "loop" /\ \A t \in Threads \ {c} : npc'[t] = npc[t]
      /\ \A k \in Jobs \ {ijob[c]} : fence'[k] = fence[k] /\ owns'[k] = owns[k]
    BY <1>1, <1>2 DEF TypeOK
<1>4. \A t \in Threads, d \in Cores : At(t)' = At(t) /\ (Starts(t, d)' <=> Starts(t, d))
    BY <1>1, <1>2, <1>3 DEF At, Starts
<1>5. \A k \in Jobs \ {ijob[c]} : Ended(k)' <=> Ended(k)
    BY <1>2, <1>3 DEF Ended
<1>6. Owners'
  <2>1. \A t \in Threads :
            /\ njob'[t] # None <=> npc'[t] \in {"run", "ret", "failret", "fail", "put"}
            /\ njob'[t] # None => core'[njob'[t]] = At(t)'
    BY <1>1, <1>2, <1>3, <1>4 DEF Work, Owners
  <2>2. \A d \in Cores :
          /\ npc'[d] # "off" <=> ipc'[d] = "next"
          /\ ijob'[d] # None <=> ipc'[d] \in {"took", "flagged"}
          /\ ijob'[d] # None => core'[ijob'[d]] = d
          /\ hw'[d] # None => core'[hw'[d]] = d
          /\ hung'[d] => hw'[d] # None
    BY <1>1, <1>2, <1>3 DEF Work, Owners, Threads
  <2> QED BY <1>2, <2>1, <2>2 DEF Work, Owners
<1>7. Fresh'
  <2>1. \A k \in Jobs : spc[k] \in Uncommitted \/ (\E d \in Cores : InQueue(k, d)) => k # ijob[c]
    BY DEF Work, Fresh
  <2> QED BY <1>2, <1>3, <1>5, <2>1, SameLists, RgaAssumption DEF Work, Fresh
<1>8. ASSUME NEW d \in Cores, seized'[d] = {} PROVE Tended(d)' /\ Balanced(d)'
  <2>1. Tended(d) /\ Balanced(d)
    BY <1>2, <1>8 DEF Work
  <2>2. Tended(d)'
    BY <1>1, <1>2, <1>3, <1>4, <2>1 DEF Tended
  <2>3. (Busy(d)' <=> Busy(d)) /\ (Ending(d)' <=> Ending(d)) /\ Victims(d)' = Victims(d)
    BY <1>1, <1>2, <1>3, <1>4 DEF Busy, Ending, Victims
  <2>4. Balanced(d)'
    BY <1>2, <2>1, <2>3 DEF Balanced
  <2> QED BY <2>2, <2>4
<1>9. ASSUME NEW d \in Cores, seized'[d] = {}, lost' = {} PROVE Served(d)'
  <2>1. Tended(d) /\ Served(d)
    BY <1>2, <1>9 DEF Work
  <2>2. Watched(d)'
    BY <1>1, <1>2, <1>3, <1>4, <2>1 DEF Served, Watched
  <2>3. Resets(d)'
    BY <1>2, <2>1 DEF Served, Resets
  <2>4. Finished(d)'
    BY <1>1, <1>2, <1>3, <2>1 DEF Served, Finished
  <2>5. Mapped(d)'
    <3>1. hw[d] # None => hw[d] # ijob[c] /\ hw[d] \in Jobs
      BY <1>1, <2>1 DEF Served, Finished, Work, Owners, TypeOK
    <3> QED BY <1>2, <1>3, <2>1, <3>1 DEF Served, Mapped
  <2>6. /\ d = c => ijob[c] \in executed
        /\ \A t \in Threads : /\ njob[t] # None => njob[t] \in Jobs /\ core[njob[t]] = At(t)
                              /\ npc[t] \in {"run", "ret", "failret", "fail", "put"} => njob[t] # None
    BY <1>1, <2>1 DEF Served, Finished, Work, Owners, TypeOK
  <2>7. Unstarted(d)'
    <3> SUFFICES ASSUME NEW t \in Threads, At(t) = d,
                        npc'[t] \in {"run", "failret", "fail", "put"}
                 PROVE  /\ njob[t] # hw[d] /\ njob[t] # ijob'[d] /\ ~Ended(njob[t])'
                        /\ npc'[t] = "put" => njob[t] # running[d]
      BY <1>2, <1>4 DEF Unstarted, Ended
    <3>0. npc'[t] = npc[t]
      BY <1>3
    <3>1. /\ njob[t] # hw[d] /\ njob[t] # ijob[d] /\ ~Ended(njob[t])
          /\ npc[t] = "put" => njob[t] # running[d]
      BY <2>1, <3>0 DEF Served, Unstarted
    <3>2. njob[t] # ijob[c] /\ njob[t] \in Jobs /\ njob[t] # None
      BY <1>1, <2>6, <3>0, <3>1
    <3>3. ~Ended(njob[t])'
      BY <1>2, <1>3, <3>1, <3>2 DEF Ended
    <3> QED BY <1>3, <3>0, <3>1, <3>2, <3>3
  <2>8. Honest(d)'
    <3>1. ASSUME NEW t \in Threads, At(t) = d
          PROVE  /\ npc'[t] \in {"fail", "put"} => failed[njob[t]]
                 /\ npc'[t] = "ret" /\ Ended(njob[t])' => njob[t] \in executed
      <4>1. /\ npc[t] \in {"fail", "put"} => failed[njob[t]] /\ njob[t] # ijob[d]
            /\ npc[t] = "ret" /\ Ended(njob[t]) => njob[t] \in executed
            /\ npc'[t] \in {"fail", "put", "ret"} => npc'[t] = npc[t]
        BY <1>3, <2>1, <3>1 DEF Served, Honest, Unstarted
      <4>2. CASE njob[t] = ijob[c]
        <5>1. d = c
          BY <1>1, <2>6, <3>1, <4>2
        <5> QED BY <2>6, <4>1, <4>2, <5>1
      <4>3. CASE njob[t] # ijob[c]
        BY <1>2, <1>3, <2>6, <4>1, <4>3 DEF Ended
      <4> QED BY <4>2, <4>3
    <3>2. \A j \in Jobs : core[j] = d /\ Ended(j)' => j \in executed \/ failed[j]
      BY <1>1, <1>5, <2>1, <2>6 DEF Served, Honest
    <3> QED BY <1>2, <1>4, <3>1, <3>2 DEF Honest, Ended
  <2> QED BY <2>2, <2>3, <2>4, <2>5, <2>7, <2>8 DEF Served
<1> QED BY <1>2, <1>6, <1>7, <1>8, <1>9 DEF Work, Evicted

\* The irq thread gives back its power reference.
LEMMA DonePowerKeeps ==
    ASSUME TypeOK, Sound, Work, NEW c \in Cores, DonePower(c)
    PROVE  Work'
<1>1. /\ ipc[c] = "power" /\ ipc' = [ipc EXCEPT ![c] = "idle"]
      /\ power' = [power EXCEPT ![c] = power[c] - 1]
      /\ UNCHANGED <<todo, running, core, done, failed, fence, owns, npc, njob>>
      /\ UNCHANGED <<ijob, hw, irq, hung, executed, lost, seized, victim, spc>>
    BY DEF DonePower, sched, job, mm, next, hard, hist, Set
<1>2. /\ ipc'[c] = "idle" /\ power'[c] = power[c] - 1 /\ power[c] \in Int
      /\ \A d \in Cores \ {c} : ipc'[d] = ipc[d] /\ power'[d] = power[d]
    BY <1>1 DEF TypeOK
<1>3. \A t \in Threads, d \in Cores : At(t)' = At(t) /\ (Starts(t, d)' <=> Starts(t, d))
    BY <1>1 DEF At, Starts
<1>4. \A k \in Jobs : Ended(k)' <=> Ended(k)
    BY <1>1 DEF Ended
<1>5. Owners'
    BY <1>1, <1>2, <1>3 DEF Work, Owners
<1>6. Fresh'
    BY <1>1, <1>4, SameLists DEF Work, Fresh
<1>7. ASSUME NEW d \in Cores, seized'[d] = {} PROVE Tended(d)' /\ Balanced(d)'
  <2>1. Tended(d) /\ Balanced(d)
    BY <1>1, <1>7 DEF Work
  <2>2. Tended(d)'
    BY <1>1, <1>2, <1>3, <2>1 DEF Tended
  <2>3. (Busy(d)' <=> Busy(d)) /\ Victims(d)' = Victims(d)
    BY <1>1, <1>3 DEF Busy, Victims
  <2>4. CASE d = c
    <3>1. Ending(d) /\ ~Ending(d)'
      BY <1>1, <1>2, <2>4 DEF Ending
    <3> QED BY <1>2, <2>1, <2>2, <2>3, <2>4, <3>1, VictimsFinite DEF Balanced
  <2>5. CASE d # c
    <3>1. Ending(d)' <=> Ending(d)
      BY <1>2, <2>5 DEF Ending
    <3> QED BY <1>2, <2>1, <2>2, <2>3, <2>5, <3>1 DEF Balanced
  <2> QED BY <2>4, <2>5
<1>8. ASSUME NEW d \in Cores, seized'[d] = {}, lost' = {} PROVE Served(d)'
  <2>1. Tended(d) /\ Served(d)
    BY <1>1, <1>8 DEF Work
  <2>2. Watched(d)'
    BY <1>1, <1>2, <1>3, <2>1 DEF Served, Watched
  <2>3. Resets(d)'
    BY <1>1, <2>1 DEF Served, Resets
  <2>4. Finished(d)' /\ Mapped(d)'
    BY <1>1, <1>2, <2>1 DEF Served, Finished, Mapped
  <2>5. Unstarted(d)'
    BY <1>1, <1>3, <1>4, <2>1 DEF Served, Unstarted, Work, Owners, Ended, TypeOK
  <2>6. Honest(d)'
    BY <1>1, <1>3, <1>4, <2>1 DEF Served, Honest, Work, Owners, TypeOK
  <2> QED BY <2>2, <2>3, <2>4, <2>5, <2>6 DEF Served
<1> QED BY <1>1, <1>5, <1>6, <1>7, <1>8 DEF Work, Evicted

-----------------------------------------------------------------------------
(* rga_job_schedule, rga_job_next and rga_job_run *)

\* The job goes into a list.
LEMMA InsertKeeps ==
    ASSUME TypeOK, Sound, Work, ~undefined, NEW j \in Jobs, Insert(j)
    PROVE  Work'
<1>1. /\ core[j] \in Cores /\ spc[j] = "insert"
      /\ spc' = [spc EXCEPT ![j] = "next"] /\ npc' = [npc EXCEPT ![j] = "loop"]
      /\ \A k \in Jobs, d \in Cores :
            InQueue(k, d)' <=> InQueue(k, d) \/ (d = core[j] /\ k = j)
      /\ UNCHANGED <<running, power, core, done, failed, fence, owns, njob, ipc, ijob>>
      /\ UNCHANGED <<hw, irq, hung, executed, seized, lost, victim>>
    BY InsertEffect, Zenon
<1>2. /\ j \in Threads /\ j \notin Cores /\ npc[j] = "off" /\ njob[j] = None
      /\ npc'[j] = "loop" /\ \A t \in Threads \ {j} : npc'[t] = npc[t]
      /\ spc'[j] = "next" /\ \A k \in Jobs \ {j} : spc'[k] = spc[k]
  <2>1. j \in Threads /\ j \notin Cores
    BY RgaAssumption DEF Threads
  <2>2. npc[j] = "off"
    BY <1>1, <2>1 DEF Sound, Locals, Runners
  <2>3. njob[j] = None
    BY <2>1, <2>2 DEF Work, Owners
  <2>4. npc'[j] = "loop" /\ \A t \in Threads \ {j} : npc'[t] = npc[t]
    BY <1>1, <2>1 DEF TypeOK
  <2>5. spc'[j] = "next" /\ \A k \in Jobs \ {j} : spc'[k] = spc[k]
    BY <1>1 DEF TypeOK
  <2> QED BY <2>1, <2>2, <2>3, <2>4, <2>5
<1>3. \A t \in Threads, d \in Cores : At(t)' = At(t) /\ (Starts(t, d)' <=> Starts(t, d))
    BY <1>1, <1>2 DEF At, Starts
<1>4. \A k \in Jobs : Ended(k)' <=> Ended(k)
    BY <1>1 DEF Ended
<1>5. Owners'
  <2>1. \A t \in Threads :
            /\ njob'[t] # None <=> npc'[t] \in {"run", "ret", "failret", "fail", "put"}
            /\ njob'[t] # None => core'[njob'[t]] = At(t)'
    BY <1>1, <1>2, <1>3 DEF Work, Owners
  <2>2. \A d \in Cores :
          /\ npc'[d] # "off" <=> ipc'[d] = "next"
          /\ ijob'[d] # None <=> ipc'[d] \in {"took", "flagged"}
          /\ ijob'[d] # None => core'[ijob'[d]] = d
          /\ hw'[d] # None => core'[hw'[d]] = d
          /\ hung'[d] => hw'[d] # None
    BY <1>1, <1>2 DEF Work, Owners, Threads
  <2>3. \A k \in Jobs : victim'[k] # None <=> spc'[k] \in {"reset", "put"}
    BY <1>1, <1>2 DEF Work, Owners
  <2> QED BY <2>1, <2>2, <2>3 DEF Owners
<1>6. Fresh'
  <2>1. ASSUME NEW k \in Jobs, spc'[k] \in Uncommitted \/ (\E d \in Cores : InQueue(k, d)')
        PROVE  spc[k] \in Uncommitted \/ (\E d \in Cores : InQueue(k, d))
    BY <1>1, <1>2, <2>1 DEF Uncommitted
  <2> QED BY <1>1, <1>4, <2>1 DEF Work, Fresh
<1>7. ASSUME NEW d \in Cores, seized'[d] = {} PROVE Tended(d)' /\ Balanced(d)'
  <2>1. Tended(d) /\ Balanced(d)
    BY <1>1, <1>7 DEF Work
  <2>2. Tended(d)'
    BY <1>1, <1>3, <2>1 DEF Tended
  <2>3. (Busy(d)' <=> Busy(d)) /\ (Ending(d)' <=> Ending(d)) /\ Victims(d)' = Victims(d)
    BY <1>1, <1>3 DEF Busy, Ending, Victims
  <2>4. Balanced(d)'
    BY <1>1, <2>1, <2>3 DEF Balanced
  <2> QED BY <2>2, <2>4
<1>8. ASSUME NEW d \in Cores, seized'[d] = {}, lost' = {} PROVE Served(d)'
  <2>1. Tended(d) /\ Served(d)
    BY <1>1, <1>8 DEF Work
  <2>2. Watched(d)'
    BY <1>1, <1>3, <2>1 DEF Served, Watched
  <2>3. Resets(d)'
    BY <1>1, <1>2, <2>1 DEF Served, Resets
  <2>4. Finished(d)' /\ Mapped(d)'
    BY <1>1, <2>1 DEF Served, Finished, Mapped
  <2>5. Unstarted(d)'
    BY <1>1, <1>2, <1>3, <1>4, <2>1 DEF Served, Unstarted, Work, Owners, Ended, TypeOK
  <2>6. Honest(d)'
    BY <1>1, <1>2, <1>3, <1>4, <2>1 DEF Served, Honest, Work, Owners, TypeOK
  <2> QED BY <2>2, <2>3, <2>4, <2>5, <2>6 DEF Served
<1> QED BY <1>1, <1>5, <1>6, <1>7, <1>8 DEF Work, Evicted

\* What follows rga_job_next.
LEMMA ContinueEffect ==
    ASSUME TypeOK, Sound, Work, NEW t \in Threads, npc[t] # "off", Continue(t)
    PROVE  /\ ijob' = ijob
           /\ \/ /\ t \in Cores /\ ipc[t] = "next" /\ ipc' = [ipc EXCEPT ![t] = "power"]
                 /\ spc' = spc
              \/ /\ t \in Jobs /\ t \notin Cores /\ spc[t] = "next" /\ ipc' = ipc
                 /\ \E s \in {"ret", "end"} : spc' = [spc EXCEPT ![t] = s]
<1>1. CASE t \in Cores
    BY <1>1 DEF Continue, Set, Work, Owners
<1>2. CASE t \notin Cores
  <2>1. t \in Jobs /\ spc[t] = "next"
    BY <1>2 DEF Sound, Locals, Runners, Threads
  <2>2. UNCHANGED <<ipc, ijob>> /\ \E s \in {"ret", "end"} : spc' = [spc EXCEPT ![t] = s]
    BY <1>2 DEF Continue, irqt, Set
  <2> QED BY <1>2, <2>1, <2>2
<1> QED BY <1>1, <1>2

\* A thread leaves rga_job_next, with nothing to run or after it started a
\* job, whose job->ret it sets to 0.
LEMMA LeaveKeeps ==
    ASSUME TypeOK, Sound, Work, NEW t \in Threads, NextNone(t) \/ Return(t)
    PROVE  Work'
<1> DEFINE mine == {k \in Jobs : npc[t] = "ret" /\ k = njob[t]}
<1>1. /\ npc[t] \in {"loop", "ret"} /\ npc' = [npc EXCEPT ![t] = "off"] /\ Continue(t)
      /\ njob' = [njob EXCEPT ![t] = None]
      /\ failed' = [k \in Jobs |-> IF k \in mine THEN FALSE ELSE failed[k]]
      /\ UNCHANGED <<todo, running, power, core, done, fence, owns, hw, irq, hung, executed>>
      /\ UNCHANGED <<seized, lost, victim>>
  <2>1. CASE NextNone(t)
    <3>1. npc[t] = "loop" /\ njob' = njob /\ failed' = failed
      BY <2>1 DEF NextNone, job
    <3>2. njob[t] = None
      BY <3>1 DEF Work, Owners
    <3>3. njob' = [njob EXCEPT ![t] = None] /\ mine = {}
      BY <3>1, <3>2 DEF TypeOK
    <3>4. failed' = [k \in Jobs |-> IF k \in mine THEN FALSE ELSE failed[k]]
      BY <3>1, <3>3 DEF TypeOK
    <3> QED BY <2>1, <3>1, <3>3, <3>4 DEF NextNone, sched, job, mm, hard, hist, Set
  <2>2. CASE Return(t)
    <3>1. npc[t] = "ret" /\ failed' = [failed EXCEPT ![njob[t]] = FALSE] /\ njob[t] \in Jobs
      BY <2>2 DEF Return, Set, Sound, Locals, Runners
    <3>2. failed' = [k \in Jobs |-> IF k \in mine THEN FALSE ELSE failed[k]]
      BY <3>1 DEF TypeOK
    <3> QED BY <2>2, <3>1, <3>2 DEF Return, sched, mm, hard, Set
  <2> QED BY <2>1, <2>2
<1>2. /\ ijob' = ijob
      /\ \/ /\ t \in Cores /\ ipc[t] = "next" /\ ipc' = [ipc EXCEPT ![t] = "power"]
            /\ spc' = spc
         \/ /\ t \in Jobs /\ t \notin Cores /\ spc[t] = "next" /\ ipc' = ipc
            /\ \E s \in {"ret", "end"} : spc' = [spc EXCEPT ![t] = s]
    BY <1>1, ContinueEffect
<1>3. /\ npc'[t] = "off" /\ njob'[t] = None
      /\ \A u \in Threads \ {t} : npc'[u] = npc[u] /\ njob'[u] = njob[u]
      /\ \A d \in Cores \ {t} : ipc'[d] = ipc[d]
      /\ t \in Cores => ipc[t] = "next" /\ ipc'[t] = "power"
      /\ \A k \in Jobs : \/ spc'[k] = spc[k]
                         \/ k = t /\ spc[k] = "next" /\ spc'[k] \in {"ret", "end"}
      /\ \A k \in Jobs : k \notin mine => failed'[k] = failed[k]
  <2>1. /\ npc'[t] = "off" /\ njob'[t] = None
        /\ \A u \in Threads \ {t} : npc'[u] = npc[u] /\ njob'[u] = njob[u]
    BY <1>1 DEF TypeOK
  <2>2. \A k \in Jobs : k \notin mine => failed'[k] = failed[k]
    BY <1>1
  <2>3. CASE t \in Cores
    <3>1. ipc[t] = "next" /\ ipc' = [ipc EXCEPT ![t] = "power"] /\ spc' = spc
      BY <1>2, <2>3
    <3>2. ipc'[t] = "power" /\ \A d \in Cores \ {t} : ipc'[d] = ipc[d]
      BY <2>3, <3>1 DEF TypeOK
    <3> QED BY <2>1, <2>2, <2>3, <3>1, <3>2
  <2>4. CASE t \notin Cores
    <3>1. /\ t \in Jobs /\ spc[t] = "next" /\ ipc' = ipc
          /\ \E s \in {"ret", "end"} : spc' = [spc EXCEPT ![t] = s]
      BY <1>2, <2>4
    <3>2. \A k \in Jobs : \/ spc'[k] = spc[k]
                          \/ k = t /\ spc[k] = "next" /\ spc'[k] \in {"ret", "end"}
      <4>1. PICK s \in {"ret", "end"} : spc' = [spc EXCEPT ![t] = s]
        BY <3>1
      <4>2. spc'[t] = s /\ \A k \in Jobs \ {t} : spc'[k] = spc[k]
        BY <3>1, <4>1 DEF TypeOK
      <4>3. spc[t] = "next" /\ spc'[t] \in {"ret", "end"}
        BY <3>1, <4>1, <4>2
      <4> QED BY <4>2, <4>3
    <3> QED BY <2>1, <2>2, <2>4, <3>1, <3>2
  <2> QED BY <2>3, <2>4
<1>4. \A u \in Threads, d \in Cores : At(u)' = At(u) /\ (Starts(u, d)' <=> Starts(u, d))
    BY <1>1, <1>3 DEF At, Starts
<1>5. \A k \in Jobs : Ended(k)' <=> Ended(k)
    BY <1>1 DEF Ended
<1>6. Owners'
  <2>1. ASSUME NEW u \in Threads
        PROVE  /\ njob'[u] # None <=> npc'[u] \in {"run", "ret", "failret", "fail", "put"}
               /\ njob'[u] # None => core'[njob'[u]] = At(u)'
    <3>1. At(u)' = At(u)
      BY <1>1 DEF At
    <3>2. CASE u = t
      BY <1>3, <3>2
    <3>3. CASE u # t
      BY <1>1, <1>3, <3>1, <3>3 DEF Work, Owners
    <3> QED BY <3>2, <3>3
  <2>2. \A d \in Cores :
          /\ npc'[d] # "off" <=> ipc'[d] = "next"
          /\ ijob'[d] # None <=> ipc'[d] \in {"took", "flagged"}
          /\ ijob'[d] # None => core'[ijob'[d]] = d
          /\ hw'[d] # None => core'[hw'[d]] = d
          /\ hung'[d] => hw'[d] # None
    BY <1>1, <1>2, <1>3 DEF Work, Owners, Threads
  <2>3. \A k \in Jobs : victim'[k] # None <=> spc'[k] \in {"reset", "put"}
    BY <1>1, <1>3 DEF Work, Owners
  <2> QED BY <2>1, <2>2, <2>3 DEF Owners
<1>7. Fresh'
  <2>1. \A k \in Jobs : spc'[k] \in Uncommitted => spc[k] \in Uncommitted
    BY <1>3 DEF Uncommitted
  <2> QED BY <1>1, <1>2, <1>5, <2>1, SameLists DEF Work, Fresh
<1>8. ASSUME NEW d \in Cores, seized'[d] = {} PROVE Tended(d)' /\ Balanced(d)'
  <2>1. Tended(d) /\ Balanced(d)
    BY <1>1, <1>8 DEF Work
  <2>2. Tended(d)'
    BY <1>1, <1>3, <1>4, <2>1 DEF Tended, Starts
  <2>3. (Busy(d)' <=> Busy(d)) /\ (Ending(d)' <=> Ending(d)) /\ Victims(d)' = Victims(d)
    BY <1>1, <1>3, <1>4 DEF Busy, Ending, Victims
  <2>4. Balanced(d)'
    BY <1>1, <2>1, <2>3 DEF Balanced
  <2> QED BY <2>2, <2>4
<1>9. ASSUME NEW d \in Cores, seized'[d] = {}, lost' = {} PROVE Served(d)'
  <2>1. Tended(d) /\ Served(d)
    BY <1>1, <1>9 DEF Work
  <2>2. Watched(d)'
    BY <1>1, <1>3, <1>4, <2>1 DEF Served, Watched
  <2>3. Resets(d)'
    BY <1>1, <1>3, <2>1 DEF Served, Resets
  <2>4. Finished(d)' /\ Mapped(d)'
    BY <1>1, <1>2, <1>3, <2>1 DEF Served, Finished, Mapped
  <2>5. \A u \in Threads : /\ njob[u] # None => njob[u] \in Jobs /\ core[njob[u]] = At(u)
                           /\ npc[u] \in {"run", "ret", "failret", "fail", "put"} => njob[u] # None
    BY DEF Work, Owners, TypeOK
  <2>6. Unstarted(d)'
    <3> SUFFICES ASSUME NEW u \in Threads, At(u) = d,
                        npc'[u] \in {"run", "failret", "fail", "put"}
                 PROVE  /\ njob'[u] # hw[d] /\ njob'[u] # ijob[d] /\ ~Ended(njob[u])
                        /\ njob'[u] = njob[u]
                        /\ npc'[u] = "put" => njob'[u] # running[d]
      BY <1>1, <1>2, <1>4 DEF Unstarted, Ended
    <3> QED BY <1>3, <2>1 DEF Served, Unstarted
  <2>7. Honest(d)'
    <3>1. ASSUME NEW u \in Threads, At(u) = d
          PROVE  /\ npc'[u] \in {"fail", "put"} => failed'[njob'[u]]
                 /\ npc'[u] = "ret" /\ Ended(njob[u]) =>
                        njob'[u] \in executed /\ njob'[u] = njob[u]
      <4>1. CASE u = t
        BY <1>3, <4>1
      <4>2. CASE u # t
        <5>1. njob[u] # None => njob[u] \notin mine
          BY <4>2 DEF Sound, Locals, Apart
        <5> QED BY <1>3, <2>1, <2>5, <3>1, <4>2, <5>1 DEF Served, Honest
      <4> QED BY <4>1, <4>2
    <3>2. \A j \in Jobs : core[j] = d /\ Ended(j) => j \in executed \/ failed'[j]
      <4> SUFFICES ASSUME NEW j \in Jobs, core[j] = d, Ended(j), j \notin executed
                   PROVE  failed'[j]
        OBVIOUS
      <4>1. failed[j]
        BY <2>1 DEF Served, Honest
      <4>2. j \notin mine
        BY <2>1, <2>5 DEF Served, Honest
      <4> QED BY <1>3, <4>1, <4>2
    <3>3. \A u \in Threads : npc'[u] = "ret" => njob'[u] = njob[u]
      BY <1>3
    <3> QED BY <1>1, <1>4, <3>1, <3>2, <3>3 DEF Honest, Ended
  <2> QED BY <2>2, <2>3, <2>4, <2>6, <2>7 DEF Served
<1> QED BY <1>1, <1>6, <1>7, <1>8, <1>9 DEF Work, Evicted

\* Where a thread of rga_job_next is, and its job.
LEMMA RunnerHas ==
    ASSUME TypeOK, Sound, Work, NEW t \in Threads, npc[t] # "off"
    PROVE  /\ At(t) \in Cores
           /\ npc[t] \in {"run", "ret", "failret", "fail", "put"} =>
                  /\ njob[t] \in Jobs /\ njob[t] # None /\ core[njob[t]] = At(t)
                  /\ \A u \in Threads : njob[u] = njob[t] => u = t
                  /\ \A k \in Jobs : spc[k] \in Uncommitted \/ (\E d \in Cores : InQueue(k, d)) =>
                         k # njob[t]
<1>1. At(t) \in Cores
    BY HasCore
<1>2. ASSUME npc[t] \in {"run", "ret", "failret", "fail", "put"}
      PROVE  /\ njob[t] \in Jobs /\ njob[t] # None /\ core[njob[t]] = At(t)
             /\ \A u \in Threads : njob[u] = njob[t] => u = t
             /\ \A k \in Jobs : spc[k] \in Uncommitted \/ (\E d \in Cores : InQueue(k, d)) =>
                    k # njob[t]
  <2>1. njob[t] \in Jobs /\ njob[t] # None /\ core[njob[t]] = At(t)
    BY <1>2 DEF Work, Owners, Sound, Locals, Runners
  <2>2. \A u \in Threads : njob[u] = njob[t] => u = t
    BY <2>1 DEF Sound, Locals, Apart
  <2>3. \A k \in Jobs : spc[k] \in Uncommitted \/ (\E d \in Cores : InQueue(k, d)) => k # njob[t]
    BY DEF Sound, InLists, Before
  <2> QED BY <2>1, <2>2, <2>3
<1> QED BY <1>1, <1>2

\* The first job of the list becomes running_job of an idle core.
LEMMA NextTakeKeeps ==
    ASSUME TypeOK, Sound, Work, ~undefined, NEW t \in Threads, NextTake(t)
    PROVE  Work'
<1>1. /\ At(t) \in Cores /\ npc[t] = "loop" /\ running[At(t)] = None
      /\ running' = [running EXCEPT ![At(t)] = Head(todo[At(t)])]
      /\ njob' = [njob EXCEPT ![t] = Head(todo[At(t)])] /\ npc' = [npc EXCEPT ![t] = "run"]
      /\ Head(todo[At(t)]) \in Jobs /\ InQueue(Head(todo[At(t)]), At(t))
      /\ \A k \in Jobs, d \in Cores : InQueue(k, d)' => InQueue(k, d)
      /\ UNCHANGED <<power, core, done, failed, fence, owns, spc, ipc, ijob>>
      /\ UNCHANGED <<hw, irq, hung, executed, seized, lost, victim>>
    BY NextTakeEffect, Zenon
<1>2. PICK c \in Cores, x \in Jobs : c = At(t) /\ x = Head(todo[At(t)])
    BY <1>1
<1>3. /\ npc[t] = "loop" /\ running[c] = None /\ InQueue(x, c) /\ core[x] = c
      /\ running'[c] = x /\ \A d \in Cores \ {c} : running'[d] = running[d]
      /\ npc'[t] = "run" /\ njob'[t] = x
      /\ \A u \in Threads \ {t} : npc'[u] = npc[u] /\ njob'[u] = njob[u]
    BY <1>1, <1>2 DEF TypeOK, Sound, InLists
<1>4. x # None /\ ~Ended(x) /\ (\A d \in Cores : hw[d] # x /\ ijob[d] # x)
      /\ \A u \in Threads : njob[u] # x
    BY <1>2, <1>3, RgaAssumption DEF Work, Fresh, Sound, InLists
<1>5. /\ \A u \in Threads : At(u)' = At(u)
      /\ \A u \in Threads, d \in Cores : Starts(u, d)' <=> Starts(u, d) \/ (u = t /\ d = c)
    BY <1>1, <1>2, <1>3 DEF At, Starts
<1>6. \A k \in Jobs : Ended(k)' <=> Ended(k)
    BY <1>1 DEF Ended
<1>7. Owners'
  <2>1. ASSUME NEW u \in Threads
        PROVE  /\ njob'[u] # None <=> npc'[u] \in {"run", "ret", "failret", "fail", "put"}
               /\ njob'[u] # None => core'[njob'[u]] = At(u)'
    <3>1. CASE u = t
      BY <1>1, <1>2, <1>3, <1>4, <1>5, <3>1
    <3>2. CASE u # t
      BY <1>1, <1>3, <1>5, <3>2 DEF Work, Owners
    <3> QED BY <3>1, <3>2
  <2>2. \A d \in Cores :
          /\ npc'[d] # "off" <=> ipc'[d] = "next"
          /\ ijob'[d] # None <=> ipc'[d] \in {"took", "flagged"}
          /\ ijob'[d] # None => core'[ijob'[d]] = d
          /\ hw'[d] # None => core'[hw'[d]] = d
          /\ hung'[d] => hw'[d] # None
    BY <1>1, <1>3 DEF Work, Owners, Threads
  <2>3. \A k \in Jobs : victim'[k] # None <=> spc'[k] \in {"reset", "put"}
    BY <1>1 DEF Work, Owners
  <2> QED BY <2>1, <2>2, <2>3 DEF Owners
<1>8. Fresh'
    BY <1>1, <1>6 DEF Work, Fresh
<1>9. ASSUME NEW d \in Cores, seized'[d] = {} PROVE Tended(d)' /\ Balanced(d)'
  <2>1. Tended(d) /\ Balanced(d)
    BY <1>1, <1>9 DEF Work
  <2>2. Tended(d)'
    <3>1. CASE d = c
      <4>1. \A u \in Threads : ~Starts(u, d)
        BY <1>3, <2>1, <3>1 DEF Tended, Starts, Work, Owners
      <4>2. ~irq[d] /\ ipc[d] # "enter" /\ (hw[d] # None => hung[d])
        BY <1>3, <2>1, <3>1 DEF Tended
      <4> QED BY <1>1, <1>3, <1>5, <3>1, <4>1, <4>2 DEF Tended
    <3>2. CASE d # c
      BY <1>1, <1>3, <1>5, <2>1, <3>2 DEF Tended, Starts
    <3> QED BY <3>1, <3>2
  <2>3. Busy(d)' <=> Busy(d)
    BY <1>1, <1>3, <1>5 DEF Busy
  <2>4. (Ending(d)' <=> Ending(d)) /\ Victims(d)' = Victims(d)
    BY <1>1 DEF Ending, Victims
  <2>5. Balanced(d)'
    BY <1>1, <2>1, <2>3, <2>4 DEF Balanced
  <2> QED BY <2>2, <2>5
<1>10. ASSUME NEW d \in Cores, seized'[d] = {}, lost' = {} PROVE Served(d)'
  <2>1. Tended(d) /\ Served(d)
    BY <1>1, <1>10 DEF Work
  <2>2. Watched(d)'
    BY <1>1, <1>3, <1>5, <2>1 DEF Served, Watched
  <2>3. Resets(d)'
    BY <1>1, <2>1 DEF Served, Resets
  <2>4. Finished(d)' /\ Mapped(d)'
    BY <1>1, <1>3, <2>1 DEF Served, Finished, Mapped, Tended
  <2>5. Unstarted(d)'
    <3> SUFFICES ASSUME NEW u \in Threads, At(u) = d,
                        npc'[u] \in {"run", "failret", "fail", "put"}
                 PROVE  /\ njob'[u] # hw[d] /\ njob'[u] # ijob[d] /\ ~Ended(njob'[u])
                        /\ npc'[u] = "put" => njob'[u] # running'[d]
      BY <1>1, <1>5 DEF Unstarted, Ended
    <3>1. CASE u = t
      BY <1>3, <1>4, <3>1
    <3>2. CASE u # t
      BY <1>3, <1>4, <2>1, <3>2 DEF Served, Unstarted
    <3> QED BY <3>1, <3>2
  <2>6. Honest(d)'
    BY <1>1, <1>3, <1>5, <1>6, <2>1 DEF Served, Honest, Work, Owners, TypeOK, Ended
  <2> QED BY <2>2, <2>3, <2>4, <2>5, <2>6 DEF Served
<1> QED BY <1>1, <1>7, <1>8, <1>9, <1>10 DEF Work, Evicted

\* The core is started with the job in running_job; it was idle, or hung.
LEMMA RunOkKeeps ==
    ASSUME TypeOK, Sound, Work, NEW t \in Threads, RunOk(t), ~undefined'
    PROVE  Work'
<1>1. npc[t] = "run" /\ (hw[At(t)] = None \/ hung[At(t)])
    BY Zenon DEF RunOk
<1>2. PICK c \in Cores, j \in Jobs : c = At(t) /\ j = njob[t]
    BY <1>1, RunnerHas
<1>3. /\ j # None /\ core[j] = c /\ \A u \in Threads : njob[u] = j => u = t
      /\ \A k \in Jobs : spc[k] \in Uncommitted \/ (\E d \in Cores : InQueue(k, d)) => k # j
    BY <1>1, <1>2, RunnerHas
<1>4. /\ power' = [power EXCEPT ![c] = power[c] + 1] /\ owns' = [owns EXCEPT ![j] = 2]
      /\ hw' = [hw EXCEPT ![c] = j] /\ npc' = [npc EXCEPT ![t] = "ret"]
      /\ UNCHANGED <<todo, running, core, done, failed, fence, njob, spc, ipc, ijob>>
      /\ UNCHANGED <<irq, hung, executed, seized, lost, victim>>
    BY <1>2 DEF RunOk, GetHandles, sched, job, irqt, Set
<1>5. /\ power'[c] = power[c] + 1 /\ power[c] \in Int
      /\ \A d \in Cores \ {c} : power'[d] = power[d] /\ hw'[d] = hw[d]
      /\ hw'[c] = j /\ owns'[j] = 2 /\ \A k \in Jobs \ {j} : owns'[k] = owns[k]
      /\ npc'[t] = "ret" /\ \A u \in Threads \ {t} : npc'[u] = npc[u]
    BY <1>4 DEF TypeOK
<1>6. /\ \A u \in Threads : At(u)' = At(u)
      /\ \A u \in Threads, d \in Cores : Starts(u, d)' <=> Starts(u, d) /\ u # t
      /\ Starts(t, c)
    BY <1>1, <1>2, <1>4, <1>5 DEF At, Starts
<1>7. \A k \in Jobs : Ended(k)' <=> Ended(k)
    BY <1>4 DEF Ended
<1>8. Owners'
  <2>1. ASSUME NEW u \in Threads
        PROVE  /\ njob'[u] # None <=> npc'[u] \in {"run", "ret", "failret", "fail", "put"}
               /\ njob'[u] # None => core'[njob'[u]] = At(u)'
    <3>1. CASE u = t
      BY <1>2, <1>3, <1>4, <1>5, <1>6, <3>1
    <3>2. CASE u # t
      BY <1>4, <1>5, <1>6, <3>2 DEF Work, Owners
    <3> QED BY <3>1, <3>2
  <2>2. ASSUME NEW d \in Cores
        PROVE  /\ npc'[d] # "off" <=> ipc'[d] = "next"
               /\ ijob'[d] # None <=> ipc'[d] \in {"took", "flagged"}
               /\ ijob'[d] # None => core'[ijob'[d]] = d
               /\ hw'[d] # None => core'[hw'[d]] = d
               /\ hung'[d] => hw'[d] # None
    BY <1>1, <1>3, <1>4, <1>5 DEF Work, Owners, Threads
  <2>3. \A k \in Jobs : victim'[k] # None <=> spc'[k] \in {"reset", "put"}
    BY <1>4 DEF Work, Owners
  <2> QED BY <2>1, <2>2, <2>3 DEF Owners
<1>9. Fresh'
    BY <1>3, <1>4, <1>5, <1>7, SameLists DEF Work, Fresh
<1>10. ASSUME NEW d \in Cores, seized'[d] = {} PROVE Tended(d)' /\ Balanced(d)'
  <2>1. Tended(d) /\ Balanced(d)
    BY <1>4, <1>10 DEF Work
  <2>2. (Ending(d)' <=> Ending(d)) /\ Victims(d)' = Victims(d)
    BY <1>4 DEF Ending, Victims
  <2>3. CASE d = c
    <3>1. running[d] = j /\ \A u \in Threads : ~Starts(u, d)'
      BY <1>2, <1>3, <1>6, <2>1, <2>3 DEF Tended
    <3>2. ~irq[d] /\ ipc[d] # "enter"
      BY <1>6, <2>1, <2>3 DEF Tended
    <3>3. Tended(d)'
      BY <1>4, <1>5, <2>3, <3>1, <3>2 DEF Tended
    <3>4. ~Busy(d) /\ Busy(d)'
      BY <1>3, <1>4, <1>6, <2>3, <3>1 DEF Busy
    <3>5. Balanced(d)'
      BY <1>5, <2>1, <2>2, <2>3, <3>4, VictimsFinite DEF Balanced
    <3> QED BY <3>3, <3>5
  <2>4. CASE d # c
    <3>1. \A u \in Threads : Starts(u, d)' <=> Starts(u, d)
      BY <1>2, <1>6, <2>4 DEF Starts
    <3>2. Tended(d)'
      BY <1>4, <1>5, <2>1, <2>4, <3>1 DEF Tended
    <3>3. Busy(d)' <=> Busy(d)
      BY <1>4, <3>1 DEF Busy
    <3>4. Balanced(d)'
      BY <1>5, <2>1, <2>2, <2>4, <3>3 DEF Balanced
    <3> QED BY <3>2, <3>4
  <2> QED BY <2>3, <2>4
<1>11. ASSUME NEW d \in Cores, seized'[d] = {}, lost' = {} PROVE Served(d)'
  <2>1. Tended(d) /\ Served(d)
    BY <1>4, <1>11 DEF Work
  <2>2. d = c => running[d] = j
    BY <1>2, <1>6, <2>1 DEF Tended
  <2>3. Watched(d)'
    <3>1. CASE d = c
      BY <1>4, <1>5, <2>2, <3>1 DEF Watched
    <3>2. CASE d # c
      <4>1. \A u \in Threads : Starts(u, d)' <=> Starts(u, d)
        BY <1>2, <1>6, <3>2 DEF Starts
      <4> QED BY <1>4, <1>5, <2>1, <3>2, <4>1 DEF Served, Watched
    <3> QED BY <3>1, <3>2
  <2>4. Resets(d)'
    BY <1>3, <1>4, <1>5, <2>1 DEF Served, Resets
  <2>5. Finished(d)'
    <3>1. d = c => j # ijob[d]
      BY <1>1, <1>2, <2>1 DEF Served, Unstarted
    <3>2. d = c => ~irq[d] /\ ipc[d] # "enter"
      BY <1>6, <2>1 DEF Tended
    <3> QED BY <1>4, <1>5, <2>1, <3>1, <3>2 DEF Served, Finished
  <2>6. Mapped(d)'
    BY <1>4, <1>5, <2>1 DEF Served, Mapped, TypeOK
  <2>7. Unstarted(d)'
    <3> SUFFICES ASSUME NEW u \in Threads, At(u) = d,
                        npc'[u] \in {"run", "failret", "fail", "put"}
                 PROVE  /\ njob[u] # hw'[d] /\ njob[u] # ijob[d] /\ ~Ended(njob[u])
                        /\ npc'[u] = "put" => njob[u] # running[d]
      BY <1>4, <1>6 DEF Unstarted, Ended
    <3>1. u # t /\ npc'[u] = npc[u]
      BY <1>5
    <3>2. njob[u] # j
      BY <1>3, <3>1
    <3> QED BY <1>5, <2>1, <3>1, <3>2 DEF Served, Unstarted
  <2>8. Honest(d)'
    <3>1. ASSUME NEW u \in Threads, At(u) = d
          PROVE  /\ npc'[u] \in {"fail", "put"} => failed[njob[u]]
                 /\ npc'[u] = "ret" /\ Ended(njob[u]) => njob[u] \in executed
      <4>1. CASE u = t
        BY <1>1, <1>5, <2>1, <3>1, <4>1 DEF Served, Unstarted
      <4>2. CASE u # t
        BY <1>5, <2>1, <3>1, <4>2 DEF Served, Honest
      <4> QED BY <4>1, <4>2
    <3> QED BY <1>4, <1>6, <2>1, <3>1 DEF Served, Honest, Ended
  <2> QED BY <2>3, <2>4, <2>5, <2>6, <2>7, <2>8 DEF Served
<1> QED BY <1>4, <1>8, <1>9, <1>10, <1>11 DEF Work, Evicted

\* The job is not started: the channels that were found stay with it.
LEMMA RunFailKeeps ==
    ASSUME TypeOK, Sound, Work, NEW t \in Threads, RunFail(t)
    PROVE  Work'
<1>1. npc[t] = "run"
    BY DEF RunFail
<1>2. PICK c \in Cores, j \in Jobs : c = At(t) /\ j = njob[t]
    BY <1>1, RunnerHas
<1>3. /\ j # None /\ core[j] = c /\ \A u \in Threads : njob[u] = j => u = t
    BY <1>1, <1>2, RunnerHas
<1>4. /\ power' = power /\ (\E n : owns' = [owns EXCEPT ![j] = n])
      /\ npc' = [npc EXCEPT ![t] = "failret"]
      /\ UNCHANGED <<todo, running, core, done, failed, fence, njob, spc, ipc, ijob>>
      /\ UNCHANGED <<hw, irq, hung, executed, seized, lost, victim>>
  <2>1. power' = power
    BY <1>2 DEF RunFail, PowerAfterFail, Set, TypeOK
  <2> QED BY <1>2, <2>1 DEF RunFail, GetHandles, sched, job, irqt, hard, Set
<1>5. /\ \A k \in Jobs \ {j} : owns'[k] = owns[k]
      /\ npc'[t] = "failret" /\ \A u \in Threads \ {t} : npc'[u] = npc[u]
    BY <1>4 DEF TypeOK
<1>6. /\ \A u \in Threads : At(u)' = At(u)
      /\ \A u \in Threads, d \in Cores : Starts(u, d)' <=> Starts(u, d)
    BY <1>1, <1>4, <1>5 DEF At, Starts
<1>7. \A k \in Jobs : Ended(k)' <=> Ended(k)
    BY <1>4 DEF Ended
<1>8. Owners'
  <2>1. \A u \in Threads :
            /\ njob'[u] # None <=> npc'[u] \in {"run", "ret", "failret", "fail", "put"}
            /\ njob'[u] # None => core'[njob'[u]] = At(u)'
    BY <1>1, <1>4, <1>5, <1>6 DEF Work, Owners
  <2>2. \A d \in Cores :
            /\ npc'[d] # "off" <=> ipc'[d] = "next"
            /\ ijob'[d] # None <=> ipc'[d] \in {"took", "flagged"}
            /\ ijob'[d] # None => core'[ijob'[d]] = d
            /\ hw'[d] # None => core'[hw'[d]] = d
            /\ hung'[d] => hw'[d] # None
    BY <1>1, <1>4, <1>5 DEF Work, Owners, Threads
  <2>3. \A k \in Jobs : victim'[k] # None <=> spc'[k] \in {"reset", "put"}
    BY <1>4 DEF Work, Owners
  <2> QED BY <2>1, <2>2, <2>3 DEF Owners
<1>9. Fresh'
    BY <1>4, <1>7, SameLists DEF Work, Fresh
<1>10. ASSUME NEW d \in Cores, seized'[d] = {} PROVE Tended(d)' /\ Balanced(d)'
  <2>1. Tended(d) /\ Balanced(d)
    BY <1>4, <1>10 DEF Work
  <2>2. Tended(d)'
    BY <1>4, <1>6, <2>1 DEF Tended
  <2>3. (Busy(d)' <=> Busy(d)) /\ (Ending(d)' <=> Ending(d)) /\ Victims(d)' = Victims(d)
    BY <1>4, <1>6 DEF Busy, Ending, Victims
  <2>4. Balanced(d)'
    BY <1>4, <2>1, <2>3 DEF Balanced
  <2> QED BY <2>2, <2>4
<1>11. ASSUME NEW d \in Cores, seized'[d] = {}, lost' = {} PROVE Served(d)'
  <2>1. Tended(d) /\ Served(d)
    BY <1>4, <1>11 DEF Work
  <2>2. Watched(d)' /\ Resets(d)' /\ Finished(d)'
    BY <1>4, <1>6, <2>1 DEF Served, Watched, Resets, Finished
  <2>3. Mapped(d)'
    <3>1. hw[d] # None => hw[d] # j /\ hw[d] \in Jobs
      BY <1>1, <1>2, <1>3, <2>1 DEF Served, Unstarted, Work, Owners, TypeOK
    <3> QED BY <1>4, <1>5, <2>1, <3>1 DEF Served, Mapped
  <2>4. Unstarted(d)'
    <3> SUFFICES ASSUME NEW u \in Threads, At(u) = d,
                        npc'[u] \in {"run", "failret", "fail", "put"}
                 PROVE  /\ njob[u] # hw[d] /\ njob[u] # ijob[d] /\ ~Ended(njob[u])
                        /\ npc'[u] = "put" => njob[u] # running[d]
      BY <1>4, <1>6 DEF Unstarted, Ended
    <3> QED BY <1>1, <1>5, <2>1 DEF Served, Unstarted
  <2>5. Honest(d)'
    <3>1. ASSUME NEW u \in Threads, At(u) = d
          PROVE  /\ npc'[u] \in {"fail", "put"} => failed[njob[u]]
                 /\ npc'[u] = "ret" /\ Ended(njob[u]) => njob[u] \in executed
      BY <1>5, <2>1, <3>1 DEF Served, Honest
    <3> QED BY <1>4, <1>6, <2>1, <3>1 DEF Served, Honest, Ended
  <2> QED BY <2>2, <2>3, <2>4, <2>5 DEF Served
<1> QED BY <1>4, <1>8, <1>9, <1>10, <1>11 DEF Work, Evicted

\* job->ret gets the error.
LEMMA FailReturnKeeps ==
    ASSUME TypeOK, Sound, Work, NEW t \in Threads, FailReturn(t)
    PROVE  Work'
<1>1. npc[t] = "failret"
    BY DEF FailReturn
<1>2. PICK c \in Cores, j \in Jobs : c = At(t) /\ j = njob[t]
    BY <1>1, RunnerHas
<1>3. failed' = [failed EXCEPT ![j] = TRUE] /\ npc' = [npc EXCEPT ![t] = "fail"]
      /\ UNCHANGED <<todo, running, power, core, done, fence, owns, njob, spc, ipc, ijob>>
      /\ UNCHANGED <<hw, irq, hung, executed, seized, lost, victim>>
    BY <1>2 DEF FailReturn, Failure, sched, mm, irqt, hard, Set
<1>4. /\ failed'[j] = TRUE /\ \A k \in Jobs \ {j} : failed'[k] = failed[k]
      /\ npc'[t] = "fail" /\ \A u \in Threads \ {t} : npc'[u] = npc[u]
    BY <1>3 DEF TypeOK
<1>5. /\ \A u \in Threads : At(u)' = At(u)
      /\ \A u \in Threads, d \in Cores : Starts(u, d)' <=> Starts(u, d)
    BY <1>1, <1>3, <1>4 DEF At, Starts
<1>6. \A k \in Jobs : Ended(k)' <=> Ended(k)
    BY <1>3 DEF Ended
<1>7. Owners'
  <2>1. \A u \in Threads :
            /\ njob'[u] # None <=> npc'[u] \in {"run", "ret", "failret", "fail", "put"}
            /\ njob'[u] # None => core'[njob'[u]] = At(u)'
    BY <1>1, <1>3, <1>4, <1>5 DEF Work, Owners
  <2>2. \A d \in Cores :
            /\ npc'[d] # "off" <=> ipc'[d] = "next"
            /\ ijob'[d] # None <=> ipc'[d] \in {"took", "flagged"}
            /\ ijob'[d] # None => core'[ijob'[d]] = d
            /\ hw'[d] # None => core'[hw'[d]] = d
            /\ hung'[d] => hw'[d] # None
    BY <1>1, <1>3, <1>4 DEF Work, Owners, Threads
  <2>3. \A k \in Jobs : victim'[k] # None <=> spc'[k] \in {"reset", "put"}
    BY <1>3 DEF Work, Owners
  <2> QED BY <2>1, <2>2, <2>3 DEF Owners
<1>8. Fresh'
    BY <1>3, <1>6, SameLists DEF Work, Fresh
<1>9. ASSUME NEW d \in Cores, seized'[d] = {} PROVE Tended(d)' /\ Balanced(d)'
  <2>1. Tended(d) /\ Balanced(d)
    BY <1>3, <1>9 DEF Work
  <2>2. Tended(d)'
    BY <1>3, <1>5, <2>1 DEF Tended
  <2>3. (Busy(d)' <=> Busy(d)) /\ (Ending(d)' <=> Ending(d)) /\ Victims(d)' = Victims(d)
    BY <1>3, <1>5 DEF Busy, Ending, Victims
  <2>4. Balanced(d)'
    BY <1>3, <2>1, <2>3 DEF Balanced
  <2> QED BY <2>2, <2>4
<1>10. ASSUME NEW d \in Cores, seized'[d] = {}, lost' = {} PROVE Served(d)'
  <2>1. Tended(d) /\ Served(d)
    BY <1>3, <1>10 DEF Work
  <2>2. Watched(d)' /\ Resets(d)' /\ Finished(d)' /\ Mapped(d)'
    BY <1>3, <1>5, <2>1 DEF Served, Watched, Resets, Finished, Mapped
  <2>3. Unstarted(d)'
    <3> SUFFICES ASSUME NEW u \in Threads, At(u) = d,
                        npc'[u] \in {"run", "failret", "fail", "put"}
                 PROVE  /\ njob[u] # hw[d] /\ njob[u] # ijob[d] /\ ~Ended(njob[u])
                        /\ npc'[u] = "put" => njob[u] # running[d]
      BY <1>3, <1>5 DEF Unstarted, Ended
    <3> QED BY <1>1, <1>4, <2>1 DEF Served, Unstarted
  <2>4. Honest(d)'
    <3>1. ASSUME NEW u \in Threads, At(u) = d
          PROVE  /\ npc'[u] \in {"fail", "put"} => failed'[njob[u]]
                 /\ npc'[u] = "ret" /\ Ended(njob[u]) => njob[u] \in executed
      <4>1. CASE u = t
        BY <1>2, <1>4, <4>1
      <4>2. CASE u # t
        <5>1. /\ npc[u] \in {"fail", "put"} => failed[njob[u]] /\ njob[u] \in Jobs
              /\ npc[u] = "ret" /\ Ended(njob[u]) => njob[u] \in executed
          BY <2>1, <3>1 DEF Served, Honest, Sound, Locals, Runners
        <5> QED BY <1>4, <4>2, <5>1
      <4> QED BY <4>1, <4>2
    <3>2. \A k \in Jobs : core[k] = d /\ Ended(k) => k \in executed \/ failed'[k]
      BY <1>4, <2>1 DEF Served, Honest
    <3> QED BY <1>3, <1>5, <3>1, <3>2 DEF Honest, Ended
  <2> QED BY <2>2, <2>3, <2>4 DEF Served
<1> QED BY <1>3, <1>7, <1>8, <1>9, <1>10 DEF Work, Evicted

\* running_job, which is the job that failed, is cleared.
LEMMA FailClearKeeps ==
    ASSUME TypeOK, Sound, Work, NEW t \in Threads, FailClear(t)
    PROVE  Work'
<1>1. npc[t] = "fail"
    BY DEF FailClear
<1>2. PICK c \in Cores, j \in Jobs : c = At(t) /\ j = njob[t]
    BY <1>1, RunnerHas
<1>3. /\ j # None /\ core[j] = c /\ \A u \in Threads : njob[u] = j => u = t
    BY <1>1, <1>2, RunnerHas
<1>4. /\ running' = [running EXCEPT ![c] = None] /\ npc' = [npc EXCEPT ![t] = "put"]
      /\ UNCHANGED <<todo, power, core, done, failed, fence, owns, njob, spc, ipc, ijob>>
      /\ UNCHANGED <<hw, irq, hung, executed, seized, lost, victim>>
    BY <1>2 DEF FailClear, job, mm, irqt, hard, hist, Set
<1>5. /\ running'[c] = None /\ \A d \in Cores \ {c} : running'[d] = running[d]
      /\ npc'[t] = "put" /\ \A u \in Threads \ {t} : npc'[u] = npc[u]
    BY <1>4 DEF TypeOK
<1>6. /\ \A u \in Threads : At(u)' = At(u)
      /\ \A u \in Threads, d \in Cores : Starts(u, d)' <=> Starts(u, d) /\ u # t
      /\ Starts(t, c)
    BY <1>1, <1>2, <1>4, <1>5 DEF At, Starts
<1>7. \A k \in Jobs : Ended(k)' <=> Ended(k)
    BY <1>4 DEF Ended
<1>8. Owners'
  <2>1. \A u \in Threads :
            /\ njob'[u] # None <=> npc'[u] \in {"run", "ret", "failret", "fail", "put"}
            /\ njob'[u] # None => core'[njob'[u]] = At(u)'
    BY <1>1, <1>4, <1>5, <1>6 DEF Work, Owners
  <2>2. \A d \in Cores :
            /\ npc'[d] # "off" <=> ipc'[d] = "next"
            /\ ijob'[d] # None <=> ipc'[d] \in {"took", "flagged"}
            /\ ijob'[d] # None => core'[ijob'[d]] = d
            /\ hw'[d] # None => core'[hw'[d]] = d
            /\ hung'[d] => hw'[d] # None
    BY <1>1, <1>4, <1>5 DEF Work, Owners, Threads
  <2>3. \A k \in Jobs : victim'[k] # None <=> spc'[k] \in {"reset", "put"}
    BY <1>4 DEF Work, Owners
  <2> QED BY <2>1, <2>2, <2>3 DEF Owners
<1>9. Fresh'
    BY <1>4, <1>7, SameLists DEF Work, Fresh
<1>10. ASSUME NEW d \in Cores, seized'[d] = {}
       PROVE  /\ Tended(d)' /\ Balanced(d)'
              /\ d = c => (\A u \in Threads : ~Starts(u, d)') /\ ~irq[d] /\ ipc[d] # "enter"
  <2>1. Tended(d) /\ Balanced(d)
    BY <1>4, <1>10 DEF Work
  <2>2. (Ending(d)' <=> Ending(d)) /\ Victims(d)' = Victims(d)
    BY <1>4 DEF Ending, Victims
  <2>3. CASE d = c
    <3>1. \A u \in Threads : ~Starts(u, d)'
      BY <1>2, <1>3, <1>6, <2>1, <2>3 DEF Tended
    <3>2. ~irq[d] /\ ipc[d] # "enter" /\ (hw[d] # None => hung[d])
      BY <1>6, <2>1, <2>3 DEF Tended
    <3>3. Tended(d)'
      BY <1>4, <3>1, <3>2 DEF Tended
    <3>4. ~Busy(d) /\ ~Busy(d)'
      BY <1>5, <1>6, <2>3 DEF Busy
    <3>5. Balanced(d)'
      BY <1>4, <2>1, <2>2, <3>4 DEF Balanced
    <3> QED BY <3>1, <3>2, <3>3, <3>5
  <2>4. CASE d # c
    <3>1. \A u \in Threads : Starts(u, d)' <=> Starts(u, d)
      BY <1>2, <1>6, <2>4 DEF Starts
    <3>2. Tended(d)'
      BY <1>4, <1>5, <2>1, <2>4, <3>1 DEF Tended
    <3>3. Busy(d)' <=> Busy(d)
      BY <1>5, <2>4, <3>1 DEF Busy
    <3>4. Balanced(d)'
      BY <1>4, <2>1, <2>2, <3>3 DEF Balanced
    <3> QED BY <2>4, <3>2, <3>4
  <2> QED BY <2>3, <2>4
<1>11. ASSUME NEW d \in Cores, seized'[d] = {}, lost' = {} PROVE Served(d)'
  <2>1. Tended(d) /\ Served(d)
    BY <1>4, <1>11 DEF Work
  <2>2. Watched(d)'
    <3>1. CASE d = c
      BY <1>5, <3>1 DEF Watched
    <3>2. CASE d # c
      <4>1. \A u \in Threads : Starts(u, d)' <=> Starts(u, d)
        BY <1>2, <1>6, <3>2 DEF Starts
      <4> QED BY <1>4, <1>5, <2>1, <3>2, <4>1 DEF Served, Watched
    <3> QED BY <3>1, <3>2
  <2>3. Resets(d)' /\ Mapped(d)'
    BY <1>4, <2>1 DEF Served, Resets, Mapped
  <2>4. Finished(d)'
    BY <1>4, <1>5, <1>10, <1>11, <2>1 DEF Served, Finished
  <2>5. Unstarted(d)'
    <3> SUFFICES ASSUME NEW u \in Threads, At(u) = d,
                        npc'[u] \in {"run", "failret", "fail", "put"}
                 PROVE  /\ njob[u] # hw[d] /\ njob[u] # ijob[d] /\ ~Ended(njob[u])
                        /\ npc'[u] = "put" => njob[u] # running'[d]
      BY <1>4, <1>6 DEF Unstarted, Ended
    <3>1. /\ njob[u] # hw[d] /\ njob[u] # ijob[d] /\ ~Ended(njob[u])
          /\ npc[u] = "put" => njob[u] # running[d]
      BY <1>1, <1>5, <2>1 DEF Served, Unstarted
    <3>2. njob[u] # None
      BY <1>1, <1>5 DEF Work, Owners
    <3>3. d # c => u # t
      BY <1>2
    <3> QED BY <1>5, <3>1, <3>2, <3>3
  <2>6. Honest(d)'
    <3>1. ASSUME NEW u \in Threads, At(u) = d
          PROVE  /\ npc'[u] \in {"fail", "put"} => failed[njob[u]]
                 /\ npc'[u] = "ret" /\ Ended(njob[u]) => njob[u] \in executed
      BY <1>1, <1>5, <2>1, <3>1 DEF Served, Honest
    <3> QED BY <1>4, <1>6, <2>1, <3>1 DEF Served, Honest, Ended
  <2> QED BY <2>2, <2>3, <2>4, <2>5, <2>6 DEF Served
<1> QED BY <1>4, <1>8, <1>9, <1>10, <1>11 DEF Work, Evicted

\* The buffers and the fence of the job that failed are put.
LEMMA FailPutKeeps ==
    ASSUME TypeOK, Sound, Work, NEW t \in Threads, FailPut(t)
    PROVE  Work'
<1>1. npc[t] = "put"
    BY DEF FailPut
<1>2. PICK c \in Cores, j \in Jobs : c = At(t) /\ j = njob[t]
    BY <1>1, RunnerHas
<1>3. /\ j # None /\ core[j] = c /\ \A u \in Threads : njob[u] = j => u = t
      /\ \A k \in Jobs : spc[k] \in Uncommitted \/ (\E d \in Cores : InQueue(k, d)) => k # j
    BY <1>1, <1>2, RunnerHas
<1>4. /\ owns' = [owns EXCEPT ![j] = 0] /\ done' \in {done, [done EXCEPT ![j] = TRUE]}
      /\ fence' \in {fence, [fence EXCEPT ![j] = "signaled"]}
      /\ njob' = [njob EXCEPT ![t] = None] /\ npc' = [npc EXCEPT ![t] = "loop"]
      /\ UNCHANGED <<todo, running, power, core, failed, spc, ipc, ijob>>
      /\ UNCHANGED <<hw, irq, hung, executed, seized, lost, victim>>
  <2>1. done' \in {done, [done EXCEPT ![j] = TRUE]}
    BY <1>2 DEF FailPut, Set
  <2> QED BY <1>2, <2>1 DEF FailPut, PutHandles, Signal, sched, irqt, hard, Set
<1>5. /\ \A k \in Jobs \ {j} : owns'[k] = owns[k] /\ done'[k] = done[k] /\ fence'[k] = fence[k]
      /\ npc'[t] = "loop" /\ njob'[t] = None
      /\ \A u \in Threads \ {t} : npc'[u] = npc[u] /\ njob'[u] = njob[u]
    BY <1>4 DEF TypeOK
<1>6. /\ \A u \in Threads : At(u)' = At(u)
      /\ \A u \in Threads, d \in Cores : Starts(u, d)' <=> Starts(u, d)
    BY <1>1, <1>4, <1>5 DEF At, Starts
<1>7. \A k \in Jobs \ {j} : Ended(k)' <=> Ended(k)
    BY <1>5 DEF Ended
<1>8. Owners'
  <2>1. ASSUME NEW u \in Threads
        PROVE  /\ njob'[u] # None <=> npc'[u] \in {"run", "ret", "failret", "fail", "put"}
               /\ njob'[u] # None => core'[njob'[u]] = At(u)'
    <3>1. CASE u = t
      BY <1>5, <3>1
    <3>2. CASE u # t
      BY <1>4, <1>5, <1>6, <3>2 DEF Work, Owners
    <3> QED BY <3>1, <3>2
  <2>2. \A d \in Cores :
            /\ npc'[d] # "off" <=> ipc'[d] = "next"
            /\ ijob'[d] # None <=> ipc'[d] \in {"took", "flagged"}
            /\ ijob'[d] # None => core'[ijob'[d]] = d
            /\ hw'[d] # None => core'[hw'[d]] = d
            /\ hung'[d] => hw'[d] # None
    BY <1>1, <1>4, <1>5 DEF Work, Owners, Threads
  <2>3. \A k \in Jobs : victim'[k] # None <=> spc'[k] \in {"reset", "put"}
    BY <1>4 DEF Work, Owners
  <2> QED BY <2>1, <2>2, <2>3 DEF Owners
<1>9. Fresh'
    BY <1>3, <1>4, <1>7, SameLists DEF Work, Fresh
<1>10. ASSUME NEW d \in Cores, seized'[d] = {} PROVE Tended(d)' /\ Balanced(d)'
  <2>1. Tended(d) /\ Balanced(d)
    BY <1>4, <1>10 DEF Work
  <2>2. Tended(d)'
    BY <1>1, <1>4, <1>5, <1>6, <2>1 DEF Tended, Starts
  <2>3. (Busy(d)' <=> Busy(d)) /\ (Ending(d)' <=> Ending(d)) /\ Victims(d)' = Victims(d)
    BY <1>4, <1>6 DEF Busy, Ending, Victims
  <2>4. Balanced(d)'
    BY <1>4, <2>1, <2>3 DEF Balanced
  <2> QED BY <2>2, <2>4
<1>11. ASSUME NEW d \in Cores, seized'[d] = {}, lost' = {} PROVE Served(d)'
  <2>1. Tended(d) /\ Served(d)
    BY <1>4, <1>11 DEF Work
  <2>2. Watched(d)' /\ Resets(d)' /\ Finished(d)'
    BY <1>4, <1>6, <2>1 DEF Served, Watched, Resets, Finished
  <2>3. Mapped(d)'
    <3>1. hw[d] # None => hw[d] # j /\ hw[d] \in Jobs
      BY <1>1, <1>2, <1>3, <2>1 DEF Served, Unstarted, Work, Owners, TypeOK
    <3> QED BY <1>4, <1>5, <2>1, <3>1 DEF Served, Mapped
  <2>4. \A u \in Threads \ {t} : /\ njob[u] # j
                                 /\ npc[u] \in {"run", "ret", "failret", "fail", "put"} => njob[u] \in Jobs
    BY <1>3 DEF Sound, Locals, Runners
  <2>5. Unstarted(d)'
    <3> SUFFICES ASSUME NEW u \in Threads, At(u) = d,
                        npc'[u] \in {"run", "failret", "fail", "put"}
                 PROVE  /\ njob'[u] # hw[d] /\ njob'[u] # ijob[d] /\ ~Ended(njob[u])'
                        /\ njob'[u] = njob[u]
                        /\ npc'[u] = "put" => njob'[u] # running[d]
      BY <1>4, <1>6 DEF Unstarted, Ended
    <3>1. u # t /\ npc'[u] = npc[u] /\ njob'[u] = njob[u]
      BY <1>5
    <3>2. njob[u] \in Jobs \ {j}
      BY <2>4, <3>1
    <3>3. /\ njob[u] # hw[d] /\ njob[u] # ijob[d] /\ ~Ended(njob[u])
          /\ npc[u] = "put" => njob[u] # running[d]
      BY <2>1, <3>1 DEF Served, Unstarted
    <3>4. ~Ended(njob[u])'
      BY <1>5, <3>1, <3>2, <3>3 DEF Ended
    <3> QED BY <3>1, <3>3, <3>4
  <2>6. Honest(d)'
    <3>1. ASSUME NEW u \in Threads, At(u) = d
          PROVE  /\ npc'[u] \in {"fail", "put"} => failed[njob'[u]]
                 /\ npc'[u] = "ret" /\ (fence'[njob'[u]] = "signaled" \/ done'[njob'[u]]) =>
                        njob'[u] \in executed
      <4>1. CASE u = t
        BY <1>5, <4>1
      <4>2. CASE u # t
        <5>1. /\ npc[u] \in {"fail", "put"} => failed[njob[u]]
              /\ npc[u] = "ret" /\ Ended(njob[u]) => njob[u] \in executed
          BY <2>1, <3>1 DEF Served, Honest
        <5> QED BY <1>5, <2>4, <4>2, <5>1 DEF Ended
      <4> QED BY <4>1, <4>2
    <3>2. ASSUME NEW k \in Jobs, core[k] = d, Ended(k)' PROVE k \in executed \/ failed[k]
      <4>1. CASE k = j
        BY <1>1, <1>2, <1>3, <2>1, <3>2, <4>1 DEF Served, Honest
      <4>2. CASE k # j
        BY <1>7, <2>1, <3>2, <4>2 DEF Served, Honest
      <4> QED BY <4>1, <4>2
    <3> QED BY <1>4, <1>6, <3>1, <3>2 DEF Honest, Ended
  <2> QED BY <2>2, <2>3, <2>5, <2>6 DEF Served
<1> QED BY <1>4, <1>8, <1>9, <1>10, <1>11 DEF Work, Evicted

-----------------------------------------------------------------------------
(* Timeouts *)

\* Nothing goes on at a core whose running_job was taken in peace.
LEMMA Quiescent ==
    ASSUME NEW c \in Cores, ~Progress(c)
    PROVE  /\ hw[c] = None \/ hung[c]
           /\ ~irq[c] /\ ipc[c] # "enter"
           /\ \A t \in Threads : ~Starts(t, c)
BY DEF Progress, Starts

\* rga_job_timeout_clean takes running_job, of a core that hangs or of one it
\* did not look at closely enough.
LEMMA CleanKeeps ==
    ASSUME TypeOK, Sound, Work, NEW j \in Jobs, Clean(j)
    PROVE  Work'
<1>1. PICK c \in Cores : c = core[j]
  <2>1. spc[j] \in Assigned
    BY DEF Clean, Assigned
  <2> QED BY <2>1, HasCore
<1>2. CASE spc'[j] = "reset"
  <2>1. /\ spc[j] = "clean" /\ victim' = [victim EXCEPT ![j] = running[c]]
        /\ running' = [running EXCEPT ![c] = None] /\ spc' = [spc EXCEPT ![j] = "reset"]
        /\ UNCHANGED <<todo, power, core, done, failed, fence, owns, npc, njob, ipc, ijob>>
        /\ UNCHANGED <<hw, irq, hung, executed, lost>> /\ running[c] \in Async
        /\ seized' = IF Progress(c) THEN [seized EXCEPT ![c] = seized[c] \cup {"timeout"}] ELSE seized
    <3>1. DOMAIN spc = Jobs
      BY DEF TypeOK
    <3> QED BY <1>1, <1>2, <3>1 DEF Clean, Seize, job, mm, next, irqt, hard, Set
  <2>2. /\ running[c] \in Jobs /\ running[c] # None /\ core[running[c]] = c
        /\ \A k \in Jobs : spc[k] \in Uncommitted \/ (\E d \in Cores : InQueue(k, d)) =>
               k # running[c]
    BY <2>1, RgaAssumption DEF Async, Sound, InLists, Before
  <2>3. /\ victim[j] = None /\ victim'[j] = running[c]
        /\ \A k \in Jobs \ {j} : victim'[k] = victim[k] /\ spc'[k] = spc[k]
        /\ spc'[j] = "reset"
        /\ running'[c] = None /\ \A d \in Cores \ {c} : running'[d] = running[d]
    <3>1. victim[j] = None
      BY <2>1 DEF Work, Owners
    <3>2. victim'[j] = running[c] /\ \A k \in Jobs \ {j} : victim'[k] = victim[k]
      BY <2>1 DEF TypeOK
    <3>3. spc'[j] = "reset" /\ \A k \in Jobs \ {j} : spc'[k] = spc[k]
      BY <2>1 DEF TypeOK
    <3>4. running'[c] = None /\ \A d \in Cores \ {c} : running'[d] = running[d]
      BY <2>1 DEF TypeOK
    <3> QED BY <3>1, <3>2, <3>3, <3>4
  <2>4. /\ \A d \in Cores : seized'[d] = {} => seized[d] = {}
        /\ seized'[c] = {} => /\ hw[c] = None \/ hung[c]
                              /\ ~irq[c] /\ ipc[c] # "enter"
                              /\ \A t \in Threads : ~Starts(t, c)
    <3>1. CASE Progress(c)
      <4>1. seized'[c] # {} /\ \A d \in Cores \ {c} : seized'[d] = seized[d]
        BY <2>1, <3>1 DEF TypeOK
      <4> QED BY <4>1
    <3>2. CASE ~Progress(c)
      BY <2>1, <3>2, Quiescent
    <3> QED BY <3>1, <3>2
  <2>5. /\ \A u \in Threads : At(u)' = At(u)
        /\ \A u \in Threads, d \in Cores : Starts(u, d)' <=> Starts(u, d)
    BY <2>1 DEF At, Starts
  <2>6. \A k \in Jobs : Ended(k)' <=> Ended(k)
    BY <2>1 DEF Ended
  <2>7. Owners'
    <3>1. \A u \in Threads :
            /\ njob'[u] # None <=> npc'[u] \in {"run", "ret", "failret", "fail", "put"}
            /\ njob'[u] # None => core'[njob'[u]] = At(u)'
      BY <2>1, <2>5 DEF Work, Owners
    <3>2. \A d \in Cores :
            /\ npc'[d] # "off" <=> ipc'[d] = "next"
            /\ ijob'[d] # None <=> ipc'[d] \in {"took", "flagged"}
            /\ ijob'[d] # None => core'[ijob'[d]] = d
            /\ hw'[d] # None => core'[hw'[d]] = d
            /\ hung'[d] => hw'[d] # None
      BY <2>1 DEF Work, Owners
    <3>3. \A k \in Jobs : victim'[k] # None <=> spc'[k] \in {"reset", "put"}
      BY <2>2, <2>3 DEF Work, Owners
    <3> QED BY <3>1, <3>2, <3>3 DEF Owners
  <2>8. Evicted'
    BY <1>1, <2>1, <2>2, <2>3 DEF Work, Evicted
  <2>9. Fresh'
    <3>1. \A k \in Jobs : spc'[k] \in Uncommitted => spc[k] \in Uncommitted
      BY <2>1, <2>3 DEF Uncommitted
    <3> QED BY <2>1, <2>2, <2>3, <2>6, <3>1, SameLists DEF Work, Fresh
  <2>10. ASSUME NEW d \in Cores, seized'[d] = {} PROVE Tended(d)' /\ Balanced(d)'
    <3>1. Tended(d) /\ Balanced(d)
      BY <2>4, <2>10 DEF Work
    <3>2. Tended(d)'
      BY <2>1, <2>3, <2>4, <2>5, <2>10, <3>1 DEF Tended
    <3>3. Ending(d)' <=> Ending(d)
      BY <2>1 DEF Ending
    <3>4. CASE d = c
      <4>1. Busy(d) /\ ~Busy(d)'
        BY <2>2, <2>3, <2>4, <2>5, <2>10, <3>4 DEF Busy
      <4>2. Victims(d)' = Victims(d) \cup {j} /\ j \notin Victims(d)
        BY <1>1, <2>1, <2>2, <2>3, <3>4 DEF Victims
      <4>3. /\ Cardinality(Victims(d)) \in Nat
            /\ Cardinality(Victims(d)') = Cardinality(Victims(d)) + 1
        BY <4>2, VictimsFinite, OneElement
      <4> QED BY <2>1, <3>1, <3>2, <3>3, <4>1, <4>3 DEF Balanced
    <3>5. CASE d # c
      <4>1. Busy(d)' <=> Busy(d)
        BY <2>3, <2>5, <3>5 DEF Busy
      <4>2. Victims(d)' = Victims(d)
        BY <1>1, <2>1, <2>3, <3>5 DEF Victims
      <4> QED BY <2>1, <3>1, <3>2, <3>3, <4>1, <4>2 DEF Balanced
    <3> QED BY <3>4, <3>5
  <2>11. ASSUME NEW d \in Cores, seized'[d] = {}, lost' = {} PROVE Served(d)'
    <3>1. Tended(d) /\ Served(d)
      BY <2>1, <2>4, <2>11 DEF Work
    <3>2. Watched(d)'
      BY <2>1, <2>3, <2>5, <3>1 DEF Served, Watched
    <3>3. Resets(d)'
      <4>1. d = c => hw[d] # None /\ hung[d]
        BY <2>2, <2>4, <2>11, <3>1 DEF Served, Watched
      <4> QED BY <1>1, <2>1, <2>3, <3>1, <4>1 DEF Served, Resets
    <3>4. Finished(d)' /\ Mapped(d)'
      BY <2>1, <2>3, <2>4, <2>11, <3>1 DEF Served, Finished, Mapped
    <3>5. Unstarted(d)'
      <4> SUFFICES ASSUME NEW u \in Threads, At(u) = d,
                          npc[u] \in {"run", "failret", "fail", "put"}
                   PROVE  /\ njob[u] # hw[d] /\ njob[u] # ijob[d] /\ ~Ended(njob[u])
                          /\ npc[u] = "put" => njob[u] # running'[d]
        BY <2>1, <2>5 DEF Unstarted, Ended
      <4>1. njob[u] # None
        BY DEF Work, Owners
      <4> QED BY <2>3, <3>1, <4>1 DEF Served, Unstarted
    <3>6. Honest(d)'
      BY <2>1, <2>5, <2>6, <3>1 DEF Served, Honest, Work, Owners, TypeOK
    <3> QED BY <3>2, <3>3, <3>4, <3>5, <3>6 DEF Served
  <2> QED BY <2>7, <2>8, <2>9, <2>10, <2>11 DEF Work
<1>3. CASE spc'[j] # "reset"
  <2>1. /\ spc[j] = "clean" /\ spc' = [spc EXCEPT ![j] = "insert"]
        /\ UNCHANGED <<todo, running, power, core, done, failed, fence, owns, npc, njob>>
        /\ UNCHANGED <<ipc, ijob, hw, irq, hung, executed, seized, lost, victim>>
    <3>1. DOMAIN spc = Jobs
      BY DEF TypeOK
    <3> QED BY <1>1, <1>3, <3>1 DEF Clean, job, mm, next, irqt, hard, Set
  <2>2. \A k \in Jobs : /\ spc'[k] \in Uncommitted => spc[k] \in Uncommitted
                        /\ spc'[k] = "reset" <=> spc[k] = "reset"
                        /\ spc'[k] = "put" <=> spc[k] = "put"
    BY <2>1 DEF TypeOK, Uncommitted
  <2>3. \A d \in Cores : seized'[d] = {} => seized[d] = {} /\ running'[d] = running[d]
    BY <2>1
  <2> QED BY <2>1, <2>2, <2>3, KeepWork
<1> QED BY <1>2, <1>3

\* soft_reset by rga_job_timeout_clean or rga_job_wait: the work of the core
\* is lost, if it had any.
LEMMA ResetKeeps ==
    ASSUME TypeOK, Sound, Work, NEW j \in Jobs, CleanReset(j) \/ TimeoutReset(j)
    PROVE  Work'
<1>1. /\ Reset(core[j])
      /\ \/ spc[j] = "reset" /\ spc' = [spc EXCEPT ![j] = "put"]
         \/ spc[j] = "timeout" /\ spc' = [spc EXCEPT ![j] = "abort"]
      /\ UNCHANGED <<todo, running, power, core, done, failed, fence, owns, npc, njob>>
      /\ UNCHANGED <<ipc, ijob, seized, victim>>
    BY DEF CleanReset, TimeoutReset, Waiting, sched, job, mm, next, irqt, Set
<1>2. PICK c \in Cores : c = core[j]
  <2>1. spc[j] \in Assigned
    BY <1>1 DEF Assigned
  <2> QED BY <2>1, HasCore
<1>3. /\ hw' = [hw EXCEPT ![c] = None] /\ hung' = [hung EXCEPT ![c] = FALSE]
      /\ lost' = lost \cup ({hw[c]} \ {None}) /\ UNCHANGED <<irq, executed>>
    BY <1>1, <1>2 DEF Reset, Set
<1>4. /\ hw'[c] = None /\ hung'[c] = FALSE
      /\ \A d \in Cores \ {c} : hw'[d] = hw[d] /\ hung'[d] = hung[d]
      /\ \A k \in Jobs \ {j} : spc'[k] = spc[k]
      /\ \/ spc[j] = "reset" /\ spc'[j] = "put"
         \/ spc[j] = "timeout" /\ spc'[j] = "abort"
    BY <1>1, <1>3 DEF TypeOK
<1>5. /\ \A u \in Threads : At(u)' = At(u)
      /\ \A u \in Threads, d \in Cores : Starts(u, d)' <=> Starts(u, d)
    BY <1>1 DEF At, Starts
<1>6. \A k \in Jobs : Ended(k)' <=> Ended(k)
    BY <1>1 DEF Ended
<1>7. Owners'
  <2>1. \A u \in Threads :
            /\ njob'[u] # None <=> npc'[u] \in {"run", "ret", "failret", "fail", "put"}
            /\ njob'[u] # None => core'[njob'[u]] = At(u)'
    BY <1>1, <1>5 DEF Work, Owners
  <2>2. \A d \in Cores :
            /\ npc'[d] # "off" <=> ipc'[d] = "next"
            /\ ijob'[d] # None <=> ipc'[d] \in {"took", "flagged"}
            /\ ijob'[d] # None => core'[ijob'[d]] = d
            /\ hw'[d] # None => core'[hw'[d]] = d
            /\ hung'[d] => hw'[d] # None
    BY <1>1, <1>4 DEF Work, Owners
  <2>3. \A k \in Jobs : victim'[k] # None <=> spc'[k] \in {"reset", "put"}
    BY <1>1, <1>4 DEF Work, Owners
  <2> QED BY <2>1, <2>2, <2>3 DEF Owners
<1>8. Evicted'
    BY <1>1 DEF Work, Evicted
<1>9. Fresh'
  <2>1. \A k \in Jobs : spc'[k] \in Uncommitted => spc[k] \in Uncommitted
    BY <1>4 DEF Uncommitted
  <2> QED BY <1>1, <1>4, <1>6, <2>1, SameLists, RgaAssumption DEF Work, Fresh
<1>10. ASSUME NEW d \in Cores, seized'[d] = {} PROVE Tended(d)' /\ Balanced(d)'
  <2>1. Tended(d) /\ Balanced(d)
    BY <1>1, <1>10 DEF Work
  <2>2. Tended(d)'
    BY <1>1, <1>3, <1>4, <1>5, <2>1 DEF Tended
  <2>3. (Busy(d)' <=> Busy(d)) /\ (Ending(d)' <=> Ending(d)) /\ Victims(d)' = Victims(d)
    BY <1>1, <1>5 DEF Busy, Ending, Victims
  <2>4. Balanced(d)'
    BY <1>1, <2>1, <2>3 DEF Balanced
  <2> QED BY <2>2, <2>4
<1>11. ASSUME NEW d \in Cores, seized'[d] = {}, lost' = {} PROVE Served(d)'
  <2>1. lost = {} /\ hw[c] = None /\ hw'[d] = hw[d]
    BY <1>3, <1>4, <1>11
  <2>2. Tended(d) /\ Served(d)
    BY <1>1, <1>11, <2>1 DEF Work
  <2>3. Watched(d)'
    BY <1>1, <1>3, <1>5, <2>1, <2>2 DEF Served, Watched
  <2>4. Resets(d)'
    BY <1>1, <1>2, <1>4, <2>1, <2>2 DEF Served, Resets
  <2>5. Finished(d)' /\ Mapped(d)'
    BY <1>1, <1>3, <2>1, <2>2 DEF Served, Finished, Mapped
  <2>6. Unstarted(d)'
    BY <1>1, <1>5, <1>6, <2>1, <2>2 DEF Served, Unstarted, Work, Owners, Ended, TypeOK
  <2>7. Honest(d)'
    BY <1>1, <1>3, <1>5, <1>6, <2>2 DEF Served, Honest, Work, Owners, TypeOK
  <2> QED BY <2>3, <2>4, <2>5, <2>6, <2>7 DEF Served
<1> QED BY <1>7, <1>8, <1>9, <1>10, <1>11 DEF Work

\* rga_job_timeout_clean ends the job it took: the core was reset before.
LEMMA CleanPutKeeps ==
    ASSUME TypeOK, Sound, Work, NEW j \in Jobs, CleanPut(j)
    PROVE  Work'
<1>1. spc[j] = "put"
    BY DEF CleanPut
<1>2. PICK c \in Cores, v \in Jobs : c = core[j] /\ v = victim[j]
  <2>1. spc[j] \in Assigned
    BY <1>1 DEF Assigned
  <2>2. victim[j] \in Jobs
    BY <1>1 DEF Sound, Locals, Committers
  <2> QED BY <2>1, <2>2, HasCore
<1>3. /\ core[v] = c /\ victim[j] # None
      /\ \A k \in Jobs : spc[k] \in Uncommitted \/ (\E d \in Cores : InQueue(k, d)) => k # v
  <2>1. victim[j] # None /\ core[v] = c
    BY <1>2, RgaAssumption DEF Work, Evicted
  <2>2. \A k \in Jobs : spc[k] \in Uncommitted \/ (\E d \in Cores : InQueue(k, d)) => k # v
    BY <1>2 DEF Work, Fresh
  <2> QED BY <2>1, <2>2
<1>4. /\ owns' = [owns EXCEPT ![v] = 0] /\ fence' \in {fence, [fence EXCEPT ![v] = "signaled"]}
      /\ power' = [power EXCEPT ![c] = power[c] - 1] /\ victim' = [victim EXCEPT ![j] = None]
      /\ spc' = [spc EXCEPT ![j] = "insert"]
      /\ UNCHANGED <<todo, running, core, done, failed, npc, njob, ipc, ijob>>
      /\ UNCHANGED <<hw, irq, hung, executed, seized, lost>>
    BY <1>2 DEF CleanPut, PutHandles, Signal, sched, next, irqt, hard, Set
<1>5. /\ \A k \in Jobs \ {v} : owns'[k] = owns[k] /\ fence'[k] = fence[k]
      /\ power'[c] = power[c] - 1 /\ power[c] \in Int
      /\ \A d \in Cores \ {c} : power'[d] = power[d]
      /\ victim'[j] = None /\ spc'[j] = "insert"
      /\ \A k \in Jobs \ {j} : victim'[k] = victim[k] /\ spc'[k] = spc[k]
    BY <1>4 DEF TypeOK
<1>6. /\ \A u \in Threads : At(u)' = At(u)
      /\ \A u \in Threads, d \in Cores : Starts(u, d)' <=> Starts(u, d)
    BY <1>4 DEF At, Starts
<1>7. \A k \in Jobs \ {v} : Ended(k)' <=> Ended(k)
    BY <1>4, <1>5 DEF Ended
<1>8. Owners'
  <2>1. \A u \in Threads :
            /\ njob'[u] # None <=> npc'[u] \in {"run", "ret", "failret", "fail", "put"}
            /\ njob'[u] # None => core'[njob'[u]] = At(u)'
    BY <1>4, <1>6 DEF Work, Owners
  <2>2. \A d \in Cores :
            /\ npc'[d] # "off" <=> ipc'[d] = "next"
            /\ ijob'[d] # None <=> ipc'[d] \in {"took", "flagged"}
            /\ ijob'[d] # None => core'[ijob'[d]] = d
            /\ hw'[d] # None => core'[hw'[d]] = d
            /\ hung'[d] => hw'[d] # None
    BY <1>4 DEF Work, Owners
  <2>3. \A k \in Jobs : victim'[k] # None <=> spc'[k] \in {"reset", "put"}
    BY <1>5 DEF Work, Owners
  <2> QED BY <2>1, <2>2, <2>3 DEF Owners
<1>9. Evicted'
    BY <1>4, <1>5 DEF Work, Evicted
<1>10. Fresh'
  <2>1. \A k \in Jobs : spc'[k] \in Uncommitted => spc[k] \in Uncommitted
    BY <1>1, <1>5 DEF Uncommitted
  <2> QED BY <1>3, <1>4, <1>5, <1>7, <2>1, SameLists, RgaAssumption DEF Work, Fresh
<1>11. ASSUME NEW d \in Cores, seized'[d] = {} PROVE Tended(d)' /\ Balanced(d)'
  <2>1. Tended(d) /\ Balanced(d)
    BY <1>4, <1>11 DEF Work
  <2>2. Tended(d)'
    BY <1>4, <1>6, <2>1 DEF Tended
  <2>3. (Busy(d)' <=> Busy(d)) /\ (Ending(d)' <=> Ending(d))
    BY <1>4, <1>6 DEF Busy, Ending
  <2>4. CASE d = c
    <3>1. Victims(d)' = Victims(d) \ {j} /\ j \in Victims(d)
      BY <1>2, <1>3, <1>4, <1>5, <2>4 DEF Victims
    <3>2. /\ Cardinality(Victims(d)) \in Nat
          /\ Cardinality(Victims(d)') = Cardinality(Victims(d)) - 1
      BY <3>1, VictimsFinite, OneElement
    <3> QED BY <1>5, <2>1, <2>2, <2>3, <2>4, <3>2 DEF Balanced
  <2>5. CASE d # c
    <3>1. Victims(d)' = Victims(d)
      BY <1>2, <1>4, <1>5, <2>5 DEF Victims
    <3> QED BY <1>5, <2>1, <2>2, <2>3, <2>5, <3>1 DEF Balanced
  <2> QED BY <2>4, <2>5
<1>12. ASSUME NEW d \in Cores, seized'[d] = {}, lost' = {} PROVE Served(d)'
  <2>1. Tended(d) /\ Served(d)
    BY <1>4, <1>12 DEF Work
  <2>2. d # c
    BY <1>1, <1>2, <2>1 DEF Served, Resets
  <2>3. Watched(d)' /\ Finished(d)'
    BY <1>4, <1>6, <2>1 DEF Served, Watched, Finished
  <2>4. Resets(d)'
    BY <1>4, <1>5, <2>1 DEF Served, Resets
  <2>5. Mapped(d)'
    <3>1. hw[d] # None => hw[d] # v /\ hw[d] \in Jobs
      BY <1>3, <2>2 DEF Work, Owners, TypeOK
    <3> QED BY <1>4, <1>5, <2>1, <3>1 DEF Served, Mapped
  <2>6. \A u \in Threads : At(u) = d /\ npc[u] \in {"run", "ret", "failret", "fail", "put"} =>
            njob[u] \in Jobs \ {v} /\ (Ended(njob[u])' <=> Ended(njob[u]))
    <3> SUFFICES ASSUME NEW u \in Threads, At(u) = d,
                        npc[u] \in {"run", "ret", "failret", "fail", "put"}
                 PROVE  njob[u] \in Jobs \ {v} /\ (Ended(njob[u])' <=> Ended(njob[u]))
      OBVIOUS
    <3>1. njob[u] \in Jobs \ {v}
      BY <1>3, <2>2 DEF Work, Owners, TypeOK
    <3> QED BY <1>4, <1>5, <3>1 DEF Ended
  <2>7. Unstarted(d)'
    BY <1>4, <1>6, <2>1, <2>6 DEF Served, Unstarted
  <2>8. Honest(d)'
    <3>1. \A u \in Threads : At(u) = d =>
            /\ npc[u] \in {"fail", "put"} => failed[njob[u]]
            /\ npc[u] = "ret" /\ Ended(njob[u])' => njob[u] \in executed
      BY <2>1, <2>6 DEF Served, Honest
    <3>2. \A k \in Jobs : core[k] = d /\ Ended(k)' => k \in executed \/ failed[k]
      BY <1>3, <1>7, <2>1, <2>2 DEF Served, Honest
    <3> QED BY <1>4, <1>6, <3>1, <3>2 DEF Honest, Ended
  <2> QED BY <2>3, <2>4, <2>5, <2>7, <2>8 DEF Served
<1> QED BY <1>8, <1>9, <1>10, <1>11, <1>12 DEF Work

-----------------------------------------------------------------------------
(* The invariant *)

\* No job is committed and no core works.
LEMMA InitWork == Init => Work
<1> SUFFICES ASSUME Init PROVE Work
    OBVIOUS
<1>1. \A c \in Cores : DOMAIN todo[c] = {}
    BY DEF Init
<1>2. /\ \A j \in Jobs : /\ spc[j] = "new" /\ fence[j] = "none" /\ done[j] = FALSE
                         /\ victim[j] = None /\ core[j] = None
      /\ \A t \in Threads : npc[t] = "off" /\ njob[t] = None
      /\ \A c \in Cores : /\ running[c] = None /\ power[c] = 0 /\ ipc[c] = "idle"
                          /\ ijob[c] = None /\ hw[c] = None
                          /\ irq[c] = FALSE /\ hung[c] = FALSE
    BY DEF Init
<1>3. Owners /\ Evicted
    BY <1>2 DEF Owners, Evicted, Threads
<1>4. Fresh
    BY <1>2, RgaAssumption DEF Fresh, Ended
<1>5. ASSUME NEW c \in Cores PROVE Tended(c) /\ Balanced(c) /\ Served(c)
  <2>1. \A t \in Threads : ~Starts(t, c)
    BY <1>2 DEF Starts
  <2>2. Tended(c)
    BY <1>2, <2>1 DEF Tended
  <2>3. Balanced(c)
    <3>1. Victims(c) = {}
      BY <1>2 DEF Victims
    <3>2. ~Busy(c) /\ ~Ending(c)
      BY <1>2 DEF Busy, Ending
    <3> QED BY <1>2, <3>1, <3>2, FS_EmptySet DEF Balanced
  <2>4. Watched(c) /\ Resets(c) /\ Finished(c) /\ Mapped(c)
    BY <1>2 DEF Watched, Resets, Finished, Mapped
  <2>5. Unstarted(c) /\ Honest(c)
    BY <1>2 DEF Unstarted, Honest, Ended
  <2> QED BY <2>2, <2>3, <2>4, <2>5 DEF Served
<1> QED BY <1>3, <1>4, <1>5 DEF Work

\* Whoever runs rga_job_next.
LEMMA RunNextKeeps ==
    ASSUME TypeOK, Sound, Work, ~undefined, NEW t \in Threads, RunNext(t), ~undefined'
    PROVE  Work'
<1>1. CASE NextNone(t) \/ Return(t)
    BY <1>1, LeaveKeeps, Zenon
<1>2. CASE NextTake(t)
    BY <1>2, NextTakeKeeps, Zenon
<1>3. CASE RunOk(t)
    BY <1>3, RunOkKeeps, Zenon
<1>4. CASE RunFail(t)
    BY <1>4, RunFailKeeps, Zenon
<1>5. CASE FailReturn(t)
    BY <1>5, FailReturnKeeps, Zenon
<1>6. CASE FailClear(t)
    BY <1>6, FailClearKeeps, Zenon
<1>7. CASE FailPut(t)
    BY <1>7, FailPutKeeps, Zenon
<1> QED BY <1>1, <1>2, <1>3, <1>4, <1>5, <1>6, <1>7, Zenon DEF RunNext

\* Every step of a committer.
LEMMA CommitterKeeps ==
    ASSUME TypeOK, Sound, Work, ~undefined, NEW j \in Jobs, Committer(j), ~undefined'
    PROVE  Work'
<1>1. CASE CheckFence(j) \/ BadFence(j) \/ AddCallback(j)
    BY <1>1, CommitKeeps, Zenon
<1>2. CASE Schedule(j)
  <2>1. CASE Assign(j) \/ Reject(j)
    BY <2>1, CommitKeeps, Zenon
  <2>2. CASE Clean(j)
    BY <2>2, CleanKeeps, Zenon
  <2>3. CASE CleanReset(j)
    BY <2>3, ResetKeeps, Zenon
  <2>4. CASE CleanPut(j)
    BY <2>4, CleanPutKeeps, Zenon
  <2>5. CASE Insert(j)
    BY <2>5, InsertKeeps, Zenon
  <2> QED BY <1>2, <2>1, <2>2, <2>3, <2>4, <2>5, Zenon DEF Schedule
<1>3. CASE RunNext(j)
  <2>1. j \in Threads
    BY DEF Threads
  <2> QED BY <1>3, <2>1, RunNextKeeps, Zenon
<1>4. CASE Wait(j)
  <2>1. CASE ReadRet(j) \/ WaitTimeout(j) \/ WaitDone(j) \/ Abort(j)
    BY <2>1, WaitKeeps, Zenon
  <2>2. CASE TimeoutReset(j)
    BY <2>2, ResetKeeps, Zenon
  <2> QED BY <1>4, <2>1, <2>2, Zenon DEF Wait
<1> QED BY <1>1, <1>2, <1>3, <1>4, Zenon DEF Committer

\* Every step of the irq thread of a core.
LEMMA IrqKeeps ==
    ASSUME TypeOK, Sound, Work, ~undefined, NEW c \in Cores, Irq(c), ~undefined'
    PROVE  Work'
<1>1. CASE IrqThread(c)
    BY <1>1, IrqThreadKeeps, Zenon
<1>2. CASE DoneTake(c)
    BY <1>2, DoneTakeKeeps, Zenon
<1>3. CASE DoneFlag(c)
    BY <1>3, DoneFlagKeeps, Zenon
<1>4. CASE DoneFinish(c)
    BY <1>4, DoneFinishKeeps, Zenon
<1>5. CASE DonePower(c)
    BY <1>5, DonePowerKeeps, Zenon
<1>6. CASE RunNext(c)
  <2>1. c \in Threads
    BY DEF Threads
  <2> QED BY <1>6, <2>1, RunNextKeeps, Zenon
<1> QED BY <1>1, <1>2, <1>3, <1>4, <1>5, <1>6, Zenon DEF Irq

\* The invariant is inductive.
LEMMA NextWork == WInv /\ [Next]_vars => WInv'
<1> SUFFICES ASSUME WInv, [Next]_vars PROVE WInv'
    OBVIOUS
<1>1. IInv'
    BY NextSound DEF WInv
<1> SUFFICES ASSUME ~undefined' PROVE Work'
    BY <1>1 DEF WInv
<1>2. CASE UNCHANGED vars
  <2>1. ~undefined
    BY <1>2 DEF vars, hist
  <2>2. TypeOK /\ Sound /\ Work
    BY <2>1 DEF WInv, IInv
  <2> QED BY <1>2, <2>2, ClientKeeps, Zenon
<1>3. CASE Next
  <2>1. ~undefined /\ TypeOK /\ Sound /\ Work
    BY <1>3 DEF Next, WInv, IInv
  <2>2. ASSUME NEW h \in Handles, Import(h) \/ Release(h) PROVE Work'
    BY <2>1, <2>2, ClientKeeps, Zenon
  <2>3. ASSUME NEW j \in Jobs,
               Commit(j) \/ Refuse(j) \/ InFenceSignal(j) \/ WaitSignal(j) \/ Committer(j)
        PROVE  Work'
    <3>1. CASE Commit(j) \/ Refuse(j) \/ InFenceSignal(j)
      BY <2>1, <3>1, CommitKeeps, Zenon
    <3>2. CASE WaitSignal(j)
      BY <2>1, <3>2, WaitKeeps, Zenon
    <3>3. CASE Committer(j)
      BY <2>1, <3>3, CommitterKeeps, Zenon
    <3> QED BY <2>3, <3>1, <3>2, <3>3, Zenon
  <2>4. ASSUME NEW c \in Cores, HwDone(c) \/ Hang(c) \/ Irq(c) PROVE Work'
    BY <2>1, <2>4, HwDoneKeeps, HangKeeps, IrqKeeps, Zenon
  <2> QED BY <1>3, <2>2, <2>3, <2>4, Zenon DEF Next
<1> QED BY <1>2, <1>3

-----------------------------------------------------------------------------
(* What the invariant says of the properties the runs check *)

\* The core at work is that of running_job.
LEMMA WorkTracked == WInv => WorkIsTracked
<1> SUFFICES ASSUME Work, NEW c \in Cores, hw[c] # None, ~hung[c], seized[c] = {}
             PROVE  running[c] = hw[c]
    BY DEF WInv, WorkIsTracked, InPeace
<1> QED BY DEF Work, Tended

\* A finished job was executed.
LEMMA WorkHonest == WInv => DoneIsExecuted
<1> SUFFICES ASSUME TypeOK, Work, NEW j \in Jobs, fence[j] = "signaled" \/ done[j],
                    core[j] # None, seized[core[j]] = {}, lost = {}
             PROVE  j \in executed \/ failed[j]
    BY DEF WInv, IInv, DoneIsExecuted, InPeace
<1>1. core[j] \in Cores
    BY DEF TypeOK
<1> QED BY <1>1 DEF Work, Served, Honest, Ended

\* The two ways to count the started job agree.
LEMMA WorkBalanced == WInv => PowerBalanced
<1> DEFINE Started(c) == {j \in Jobs : running[c] = j /\ ~Starting(j)}
<1> DEFINE AtEnd(c) == {d \in {c} : ipc[d] \in {"took", "flagged", "next", "power"}}
<1> SUFFICES ASSUME TypeOK, Sound, Work, NEW c \in Cores, seized[c] = {}
             PROVE  power[c] = Cardinality(Started(c)) + Cardinality(AtEnd(c))
                                   + Cardinality(Victims(c))
    BY DEF WInv, IInv, PowerBalanced, InPeace, Victims
<1>1. Tended(c) /\ Balanced(c)
    BY DEF Work
<1>2. Cardinality(Started(c)) = IF Busy(c) THEN 1 ELSE 0
  <2>1. CASE Busy(c)
    <3>1. running[c] \in Jobs /\ core[running[c]] = c
      BY <2>1 DEF Busy, TypeOK, Sound, InLists
    <3>2. ~Starting(running[c])
      <4> SUFFICES ASSUME NEW t \in Threads, njob[t] = running[c],
                          npc[t] \in {"run", "failret", "fail"}
                   PROVE  FALSE
        BY DEF Starting
      <4>1. At(t) = c
        BY <3>1, RgaAssumption DEF Work, Owners
      <4> QED BY <2>1, <4>1 DEF Busy, Starts
    <3>3. Started(c) = {running[c]}
      BY <3>1, <3>2
    <3> QED BY <2>1, <3>3, FS_Singleton
  <2>2. CASE ~Busy(c)
    <3>1. Started(c) = {}
      <4>1. CASE running[c] = None
        BY <4>1, RgaAssumption
      <4>2. CASE running[c] # None
        <5>1. PICK t \in Threads : Starts(t, c)
          BY <2>2, <4>2 DEF Busy
        <5>2. Starting(running[c])
          BY <1>1, <5>1 DEF Tended, Starts, Starting
        <5> QED BY <5>2
      <4> QED BY <4>1, <4>2
    <3> QED BY <2>2, <3>1, FS_EmptySet
  <2> QED BY <2>1, <2>2
<1>3. Cardinality(AtEnd(c)) = IF Ending(c) THEN 1 ELSE 0
  <2>1. CASE Ending(c)
    <3>1. AtEnd(c) = {c}
      BY <2>1 DEF Ending
    <3> QED BY <2>1, <3>1, FS_Singleton
  <2>2. CASE ~Ending(c)
    <3>1. AtEnd(c) = {}
      BY <2>2 DEF Ending
    <3> QED BY <2>2, <3>1, FS_EmptySet
  <2> QED BY <2>1, <2>2
<1> HIDE DEF Started, AtEnd
<1> QED BY <1>1, <1>2, <1>3 DEF Balanced

-----------------------------------------------------------------------------
(* The accounts of the handles *)

\* Whoever puts the buffers of job j of core c: its irq thread, the thread
\* whose start of the job failed, or rga_job_timeout_clean.
Puts(t, c)   == At(t) = c /\ npc[t] = "put"
Evicts(i, c) == core[i] = c /\ victim[i] # None

\* The buffers of a job are counted for it until they are put.
Full(j) == owns[j] = held[j]
Entitled(c) ==
    /\ running[c] # None => Full(running[c])
    /\ ijob[c] # None => Full(ijob[c])
    /\ \A i \in Jobs : Evicts(i, c) => Full(victim[i])
    /\ \A t \in Threads : Puts(t, c) => Full(njob[t])

\* Only one of them puts them.
Alone(c) ==
    /\ \A i \in Jobs : Evicts(i, c) =>
           /\ victim[i] # ijob[c]
           /\ \A k \in Jobs : Evicts(k, c) /\ victim[k] = victim[i] => k = i
           /\ \A t \in Threads : Puts(t, c) => njob[t] # victim[i]
    /\ \A t \in Threads : Puts(t, c) => njob[t] # ijob[c]

\* A job of core c that owns references is there, or about to put them.
Owner(j, c) ==
    \/ running[c] = j \/ ijob[c] = j
    \/ \E i \in Jobs : Evicts(i, c) /\ victim[i] = j
    \/ \E t \in Threads : Puts(t, c) /\ njob[t] = j
Traced(c) == \A j \in Jobs : owns[j] > 0 /\ core[j] = c => Owner(j, c)

\* Every reference is an import or a channel of a job.
Refs == \A h \in Handles :
    refs[h] = imports[h] + Cardinality(Sources(h)) + Cardinality(Targets(h))

Settled(c) == Entitled(c) /\ Alone(c) /\ Traced(c)

Accounts ==
    /\ \A j \in Jobs : owns[j] \in {0, held[j]} /\ (owns[j] > 0 => core[j] \in Cores)
    /\ \A c \in Cores : InPeace(c) => Settled(c)
    /\ (\A c \in Cores : InPeace(c)) => Refs

AInv == WInv /\ (~undefined => Accounts)

\* rga_mm_get_handle_info takes a reference for each channel of the job.
LEMMA GotCounted ==
    ASSUME TypeOK, Refs, NEW j \in Jobs, NEW n \in 0..2, owns[j] = 0, GetHandles(j, n)
    PROVE  Refs'
<1>1. /\ owns \in [Jobs -> 0..2] /\ refs \in [Handles -> Int]
      /\ Src \in [Jobs -> Handles] /\ Dst \in [Jobs -> Handles]
    BY RgaAssumption DEF TypeOK
<1>2. /\ owns' = [owns EXCEPT ![j] = n] /\ imports' = imports
      /\ refs' \in [Handles -> Int]
      /\ \A h \in Handles :
            refs'[h] = refs[h] + (IF n > 0 /\ Src[j] = h THEN 1 ELSE 0)
                               + (IF n > 1 /\ Dst[j] = h THEN 1 ELSE 0)
    BY <1>1 DEF GetHandles, Count, Set
<1>3. \A h \in Handles :
          /\ Sources(h)' = IF n > 0 /\ Src[j] = h THEN Sources(h) \cup {j} ELSE Sources(h)
          /\ Targets(h)' = IF n > 1 /\ Dst[j] = h THEN Targets(h) \cup {j} ELSE Targets(h)
          /\ j \notin Sources(h) /\ j \notin Targets(h)
    BY <1>1, <1>2 DEF Sources, Targets
<1>4. ASSUME NEW h \in Handles
      PROVE  refs'[h] = imports'[h] + Cardinality(Sources(h)') + Cardinality(Targets(h)')
  <2>1. /\ Cardinality(Sources(h)) \in Nat /\ Cardinality(Targets(h)) \in Nat
        /\ Cardinality(Sources(h) \cup {j}) = Cardinality(Sources(h)) + 1
        /\ Cardinality(Targets(h) \cup {j}) = Cardinality(Targets(h)) + 1
    BY <1>3, HoldersFinite, OneElement
  <2>2. refs[h] = imports[h] + Cardinality(Sources(h)) + Cardinality(Targets(h))
    BY DEF Refs, Sources, Targets
  <2>3. Cardinality(Sources(h)') =
            Cardinality(Sources(h)) + (IF n > 0 /\ Src[j] = h THEN 1 ELSE 0)
    <3>1. CASE n > 0 /\ Src[j] = h
      <4>1. Sources(h)' = Sources(h) \cup {j}
        BY <1>3, <3>1
      <4> QED BY <2>1, <3>1, <4>1
    <3>2. CASE ~ (n > 0 /\ Src[j] = h)
      <4>1. Sources(h)' = Sources(h)
        BY <1>3, <3>2
      <4> QED BY <2>1, <3>2, <4>1
    <3> QED BY <3>1, <3>2
  <2>5. Cardinality(Targets(h)') =
            Cardinality(Targets(h)) + (IF n > 1 /\ Dst[j] = h THEN 1 ELSE 0)
    <3>1. CASE n > 1 /\ Dst[j] = h
      <4>1. Targets(h)' = Targets(h) \cup {j}
        BY <1>3, <3>1
      <4> QED BY <2>1, <3>1, <4>1
    <3>2. CASE ~ (n > 1 /\ Dst[j] = h)
      <4>1. Targets(h)' = Targets(h)
        BY <1>3, <3>2
      <4> QED BY <2>1, <3>2, <4>1
    <3> QED BY <3>1, <3>2
  <2>4. imports[h] \in Nat
    BY RgaAssumption DEF TypeOK
  <2> QED BY <1>2, <2>1, <2>2, <2>3, <2>4, <2>5
<1> QED BY <1>2, <1>4 DEF Refs, Sources, Targets

\* rga_mm_put_handle_info gives them back.
LEMMA GaveCounted ==
    ASSUME TypeOK, Refs, NEW j \in Jobs, Full(j), PutHandles(j)
    PROVE  Refs'
<1> DEFINE n == owns[j]
<1>1. /\ owns \in [Jobs -> 0..2] /\ refs \in [Handles -> Int] /\ n \in 0..2
      /\ Src \in [Jobs -> Handles] /\ Dst \in [Jobs -> Handles]
    BY RgaAssumption DEF TypeOK
<1>2. /\ owns' = [owns EXCEPT ![j] = 0] /\ imports' = imports
      /\ refs' \in [Handles -> Int]
      /\ \A h \in Handles :
            refs'[h] = refs[h] - (IF n > 0 /\ Src[j] = h THEN 1 ELSE 0)
                               - (IF n > 1 /\ Dst[j] = h THEN 1 ELSE 0)
    BY <1>1 DEF PutHandles, Count, Set, Full
<1>3. \A h \in Handles :
          /\ Sources(h)' = Sources(h) \ {j} /\ Targets(h)' = Targets(h) \ {j}
          /\ j \in Sources(h) <=> n > 0 /\ Src[j] = h
          /\ j \in Targets(h) <=> n > 1 /\ Dst[j] = h
    BY <1>1, <1>2 DEF Sources, Targets
<1>4. ASSUME NEW h \in Handles
      PROVE  refs'[h] = imports'[h] + Cardinality(Sources(h)') + Cardinality(Targets(h)')
  <2> DEFINE s == IF n > 0 /\ Src[j] = h THEN 1 ELSE 0
  <2> DEFINE d == IF n > 1 /\ Dst[j] = h THEN 1 ELSE 0
  <2>1. /\ Cardinality(Sources(h)) \in Nat /\ Cardinality(Sources(h)') \in Nat
        /\ Cardinality(Sources(h)') = Cardinality(Sources(h)) - s
    <3>1. IsFiniteSet(Sources(h)) /\ IsFiniteSet(Sources(h) \ {j})
      BY HoldersFinite, FS_Subset
    <3>2. Sources(h)' = Sources(h) \ {j} /\ Cardinality(Sources(h)) \in Nat /\ Cardinality(Sources(h) \ {j}) \in Nat
      BY <1>3, <3>1, FS_CardinalityType
    <3>3. CASE j \in Sources(h)
      <4>1. Cardinality(Sources(h) \ {j}) = Cardinality(Sources(h)) - 1 /\ s = 1
        BY <1>3, <3>1, <3>3, OneElement
      <4> QED BY <3>2, <4>1
    <3>4. CASE j \notin Sources(h)
      <4>1. Sources(h) \ {j} = Sources(h)
        BY <3>4
      <4>2. Cardinality(Sources(h)') = Cardinality(Sources(h))
        BY <3>2, <4>1, Zenon
      <4>3. s = 0
        BY <1>3, <3>4
      <4> QED BY <3>2, <4>2, <4>3
    <3> QED BY <3>3, <3>4
  <2>2. /\ Cardinality(Targets(h)) \in Nat /\ Cardinality(Targets(h)') \in Nat
        /\ Cardinality(Targets(h)') = Cardinality(Targets(h)) - d
    <3>1. IsFiniteSet(Targets(h)) /\ IsFiniteSet(Targets(h) \ {j})
      BY HoldersFinite, FS_Subset
    <3>2. Targets(h)' = Targets(h) \ {j} /\ Cardinality(Targets(h)) \in Nat /\ Cardinality(Targets(h) \ {j}) \in Nat
      BY <1>3, <3>1, FS_CardinalityType
    <3>3. CASE j \in Targets(h)
      <4>1. Cardinality(Targets(h) \ {j}) = Cardinality(Targets(h)) - 1 /\ d = 1
        BY <1>3, <3>1, <3>3, OneElement
      <4> QED BY <3>2, <4>1
    <3>4. CASE j \notin Targets(h)
      <4>1. Targets(h) \ {j} = Targets(h)
        BY <3>4
      <4>2. Cardinality(Targets(h)') = Cardinality(Targets(h))
        BY <3>2, <4>1, Zenon
      <4>3. d = 0
        BY <1>3, <3>4
      <4> QED BY <3>2, <4>2, <4>3
    <3> QED BY <3>3, <3>4
  <2>3. refs[h] = imports[h] + Cardinality(Sources(h)) + Cardinality(Targets(h))
    BY DEF Refs, Sources, Targets
  <2>4. imports[h] \in Nat
    BY RgaAssumption DEF TypeOK
  <2>5. refs'[h] = refs[h] - s - d /\ s \in {0, 1} /\ d \in {0, 1}
    BY <1>2
  <2> HIDE DEF s, d
  <2> QED BY <1>2, <2>1, <2>2, <2>3, <2>4, <2>5
<1> QED BY <1>2, <1>4 DEF Refs, Sources, Targets

\* The jobs of those who put buffers are of their core, and nowhere else.
LEMMA HolderHas ==
    ASSUME TypeOK, Sound, Work, NEW c \in Cores
    PROVE  /\ running[c] # None => running[c] \in Jobs /\ core[running[c]] = c
           /\ ijob[c] # None => /\ ijob[c] \in Jobs /\ core[ijob[c]] = c
                                /\ \A d \in Cores : running[d] # ijob[c]
           /\ \A i \in Jobs : Evicts(i, c) =>
                  /\ victim[i] \in Jobs /\ victim[i] # None /\ core[victim[i]] = c
                  /\ \A d \in Cores : running[d] # victim[i]
           /\ \A t \in Threads : Puts(t, c) =>
                  /\ njob[t] \in Jobs /\ njob[t] # None /\ core[njob[t]] = c
                  /\ \A d \in Cores : running[d] # njob[t]
<1>1. running[c] # None => running[c] \in Jobs /\ core[running[c]] = c
    BY DEF TypeOK, Sound, InLists
<1>2. ijob[c] # None => /\ ijob[c] \in Jobs /\ core[ijob[c]] = c
                        /\ \A d \in Cores : running[d] # ijob[c]
    BY DEF TypeOK, Work, Owners, Sound, Gone, Nowhere
<1>3. ASSUME NEW i \in Jobs, Evicts(i, c)
      PROVE  /\ victim[i] \in Jobs /\ victim[i] # None /\ core[victim[i]] = c
             /\ \A d \in Cores : running[d] # victim[i]
  <2>1. victim[i] \in Jobs /\ victim[i] # None /\ core[victim[i]] = c
    BY <1>3 DEF TypeOK, Evicts, Work, Evicted
  <2> QED BY <2>1 DEF Sound, Gone, Nowhere
<1>4. ASSUME NEW t \in Threads, Puts(t, c)
      PROVE  /\ njob[t] \in Jobs /\ njob[t] # None /\ core[njob[t]] = c
             /\ \A d \in Cores : running[d] # njob[t]
    BY <1>4, RgaAssumption DEF Puts, Sound, Gone, Nowhere, Locals, Runners
<1> QED BY <1>1, <1>2, <1>3, <1>4

\* What a step keeps that leaves the buffers of the jobs alone.
LEMMA KeepSettled ==
    ASSUME TypeOK, Sound, Work, Accounts,
           UNCHANGED <<held, owns, ijob, victim>>,
           \A c \in Cores : seized'[c] = {} => seized[c] = {} /\ running'[c] = running[c],
           \A t \in Threads : npc[t] = "put" \/ npc'[t] = "put" =>
               npc'[t] = npc[t] /\ njob'[t] = njob[t],
           \A j \in Jobs : core'[j] = core[j] \/ (spc[j] = "assign" /\ core'[j] \in Cores),
           (\A c \in Cores : seized[c] = {}) /\ Refs => Refs'
    PROVE  Accounts'
<1>1. \A j \in Jobs : core'[j] # core[j] =>
          /\ core'[j] \in Cores /\ owns[j] = 0 /\ victim[j] = None /\ npc[j] = "off"
  <2> SUFFICES ASSUME NEW j \in Jobs, core'[j] # core[j]
               PROVE  /\ core'[j] \in Cores /\ owns[j] = 0 /\ victim[j] = None /\ npc[j] = "off"
    OBVIOUS
  <2>1. spc[j] = "assign" /\ core'[j] \in Cores
    OBVIOUS
  <2>2. held[j] = 0 /\ owns[j] \in {0, held[j]}
    BY <2>1 DEF Sound, Before, Uncommitted, Accounts
  <2>3. victim[j] = None
    BY <2>1 DEF Work, Owners
  <2>4. npc[j] = "off"
    BY <2>1 DEF Sound, Locals, Runners, Threads
  <2> QED BY <2>1, <2>2, <2>3, <2>4
<1>2. \A t \in Threads : npc[t] = "put" \/ npc'[t] = "put" => At(t)' = At(t)
    BY <1>1 DEF At, Threads
<1>3. \A t \in Threads, c \in Cores : /\ Puts(t, c)' <=> Puts(t, c)
                                      /\ Puts(t, c) => njob'[t] = njob[t]
    BY <1>2 DEF Puts
<1>4. \A i \in Jobs, c \in Cores : Evicts(i, c)' <=> Evicts(i, c)
    BY <1>1 DEF Evicts
<1>5. ASSUME NEW c \in Cores, InPeace(c)' PROVE Settled(c)'
  <2>1. Settled(c) /\ running'[c] = running[c]
    BY <1>5 DEF Accounts, InPeace
  <2>2. Entitled(c)'
    <3>1. /\ running'[c] # None => owns'[running'[c]] = held'[running'[c]]
          /\ ijob'[c] # None => owns'[ijob'[c]] = held'[ijob'[c]]
          /\ \A i \in Jobs : Evicts(i, c) => owns'[victim'[i]] = held'[victim'[i]]
          /\ \A t \in Threads : Puts(t, c) => owns'[njob'[t]] = held'[njob'[t]]
      BY <1>3, <2>1 DEF Settled, Entitled, Full
    <3> QED BY <1>3, <1>4, <3>1 DEF Entitled, Full
  <2>3. Alone(c)'
    BY <1>3, <1>4, <2>1 DEF Settled, Alone
  <2>4. Traced(c)'
    <3> SUFFICES ASSUME NEW j \in Jobs, owns[j] > 0, core'[j] = c PROVE Owner(j, c)'
      BY DEF Traced
    <3>1. core[j] = c
      BY <1>1 DEF TypeOK
    <3>2. Owner(j, c)
      BY <2>1, <3>1 DEF Settled, Traced
    <3> QED BY <1>3, <1>4, <2>1, <3>2 DEF Owner
  <2> QED BY <2>2, <2>3, <2>4 DEF Settled
<1>6. \A j \in Jobs : owns'[j] \in {0, held'[j]} /\ (owns'[j] > 0 => core'[j] \in Cores)
    BY <1>1 DEF Accounts
<1>7. (\A c \in Cores : InPeace(c)') => Refs'
    BY DEF Accounts, InPeace
<1> QED BY <1>5, <1>6, <1>7 DEF Accounts

\* References that are neither taken nor put stay counted.
LEMMA SameRefs ==
    ASSUME UNCHANGED <<refs, imports, owns>>, Refs
    PROVE  Refs'
<1>1. \A h \in Handles : Sources(h)' = Sources(h) /\ Targets(h)' = Targets(h)
    BY DEF Sources, Targets
<1> QED BY <1>1 DEF Refs

\* The imports and releases of the clients are counted.
LEMMA ClientRefs ==
    ASSUME TypeOK, Refs, NEW g \in Handles, Import(g) \/ Release(g)
    PROVE  Refs'
<1>1. \A h \in Handles : Sources(h)' = Sources(h) /\ Targets(h)' = Targets(h)
  <2>1. UNCHANGED owns
    BY DEF Import, Release
  <2> QED BY <2>1 DEF Sources, Targets
<1> SUFFICES ASSUME NEW h \in Handles
             PROVE  refs'[h] = imports'[h] + Cardinality(Sources(h)) + Cardinality(Targets(h))
    BY <1>1 DEF Refs
<1>2. /\ refs[h] = imports[h] + Cardinality(Sources(h)) + Cardinality(Targets(h))
      /\ refs[h] \in Int /\ imports[h] \in Nat
      /\ Cardinality(Sources(h)) \in Nat /\ Cardinality(Targets(h)) \in Nat
    BY RgaAssumption, HoldersFinite, FS_CardinalityType DEF Refs, TypeOK
<1>3. CASE Import(g)
  <2>1. refs' = [refs EXCEPT ![g] = refs[g] + 1] /\ imports' = [imports EXCEPT ![g] = imports[g] + 1]
    BY <1>3 DEF Import, Set
  <2>2. refs'[h] = refs[h] + (IF h = g THEN 1 ELSE 0) /\ imports'[h] = imports[h] + (IF h = g THEN 1 ELSE 0)
    <3>1. refs \in [Handles -> Int] /\ imports \in [Handles -> 0..MaxImports]
      BY DEF TypeOK
    <3>2. CASE h = g
      BY <2>1, <3>1, <3>2
    <3>3. CASE h # g
      BY <1>2, <2>1, <3>1, <3>3
    <3> QED BY <3>2, <3>3
  <2> QED BY <1>2, <2>2
<1>4. CASE Release(g)
  <2>1. /\ imports[g] > 0 /\ imports' = [imports EXCEPT ![g] = imports[g] - 1]
        /\ refs' = IF refs[g] > 0 THEN [refs EXCEPT ![g] = refs[g] - 1] ELSE refs
    BY <1>4 DEF Release, Set
  <2>2. h = g => refs[g] > 0
    BY <1>2, <2>1
  <2>3. refs'[h] - refs[h] = imports'[h] - imports[h] /\ refs'[h] \in Int /\ imports'[h] \in Int
    BY <1>2, <2>1, <2>2 DEF TypeOK
  <2> QED BY <1>2, <2>3
<1> QED BY <1>3, <1>4

\* The steps that neither move a job between those who put its buffers, nor
\* take or put any.
LEMMA QuietSettled ==
    ASSUME TypeOK, Sound, Work, Accounts, NEW j \in Jobs,
           \/ Commit(j) \/ Refuse(j) \/ CheckFence(j) \/ BadFence(j) \/ AddCallback(j)
           \/ InFenceSignal(j) \/ Assign(j) \/ Reject(j)
    PROVE  Accounts'
<1>1. Quiet
    BY DEF Commit, Refuse, CheckFence, BadFence, AddCallback, InFenceSignal, Assign, Reject
<1>2. UNCHANGED <<running, held, owns, refs, imports, ijob, victim, npc, njob, seized>>
    BY <1>1 DEF Quiet, sched, mm, next, irqt
<1>3. \A k \in Jobs : core'[k] = core[k] \/ (spc[k] = "assign" /\ core'[k] \in Cores)
  <2>1. CASE Assign(j)
    <3>1. PICK usable \in (SUBSET Cores) \ {{}} :
              core' = [core EXCEPT ![j] = Choice(CoreOrder, usable, running, jobCount)]
      BY <2>1 DEF Assign, Set
    <3>2. Choice(CoreOrder, usable, running, jobCount) \in Cores
      BY <3>1, ChoiceIsCore DEF TypeOK
    <3>3. spc[j] = "assign"
      BY <2>1 DEF Assign
    <3> QED BY <3>1, <3>2, <3>3 DEF TypeOK
  <2>2. CASE ~Assign(j)
    BY <2>2 DEF Commit, Refuse, CheckFence, BadFence, AddCallback, InFenceSignal, Assign,
        Reject, GiveUp, job
  <2> QED BY <2>1, <2>2
<1> QED BY <1>2, <1>3, KeepSettled, SameRefs

LEMMA WaitSettled ==
    ASSUME TypeOK, Sound, Work, Accounts, NEW j \in Jobs,
           ReadRet(j) \/ WaitTimeout(j) \/ WaitSignal(j) \/ WaitDone(j) \/ Abort(j)
    PROVE  Accounts'
<1>1. UNCHANGED <<core, held, owns, refs, imports, ijob, victim, npc, njob>>
    BY DEF ReadRet, WaitTimeout, WaitSignal, WaitDone, Abort, Waiting, job, mm, next, irqt
<1>2. \A c \in Cores : seized'[c] = {} => seized[c] = {} /\ running'[c] = running[c]
    BY WaitSeizes
<1> QED BY <1>1, <1>2, KeepSettled, SameRefs

LEMMA ResetSettled ==
    ASSUME TypeOK, Sound, Work, Accounts, NEW j \in Jobs, CleanReset(j) \/ TimeoutReset(j)
    PROVE  Accounts'
<1>1. UNCHANGED <<running, core, held, owns, refs, imports, ijob, victim, npc, njob, seized>>
    BY DEF CleanReset, TimeoutReset, Waiting, sched, job, mm, next, irqt
<1> QED BY <1>1, KeepSettled, SameRefs

LEMMA CoreSettled ==
    ASSUME TypeOK, Sound, Work, Accounts, NEW c \in Cores,
           HwDone(c) \/ Hang(c) \/ IrqThread(c) \/ DoneFlag(c) \/ DonePower(c)
    PROVE  Accounts'
<1>1. UNCHANGED <<running, core, held, owns, refs, imports, ijob, victim, npc, njob, seized>>
    BY DEF HwDone, Hang, IrqThread, DoneFlag, DonePower, sched, job, mm, next, irqt, hist
<1> QED BY <1>1, KeepSettled, SameRefs

LEMMA ClientSettled ==
    ASSUME TypeOK, Sound, Work, Accounts,
           UNCHANGED vars \/ \E h \in Handles : Import(h) \/ Release(h)
    PROVE  Accounts'
<1>1. UNCHANGED <<running, core, held, owns, ijob, victim, npc, njob, seized>>
  <2>1. CASE UNCHANGED vars
    BY <2>1 DEF vars, sched, job, mm, next, irqt, hist
  <2>2. CASE \E h \in Handles : Import(h) \/ Release(h)
    BY <2>2 DEF Import, Release, sched, job, next, irqt, hist
  <2> QED BY <2>1, <2>2
<1>2. Refs => Refs'
  <2>1. CASE UNCHANGED vars
    <3>1. UNCHANGED <<refs, imports, owns>>
      BY <2>1 DEF vars, mm
    <3> QED BY <3>1, SameRefs
  <2> QED BY <2>1, ClientRefs
<1> QED BY <1>1, <1>2, KeepSettled

LEMMA ThreadSettled ==
    ASSUME TypeOK, Sound, Work, Accounts, NEW t \in Threads,
           NextNone(t) \/ Return(t) \/ FailReturn(t)
    PROVE  Accounts'
<1>1. UNCHANGED <<running, core, held, owns, refs, imports, victim, seized>>
    BY DEF NextNone, Return, FailReturn, sched, job, mm, hist
<1>2. UNCHANGED ijob
    BY DEF NextNone, Return, FailReturn, Continue, irqt
<1>3. /\ npc[t] # "put" /\ njob' \in {njob, [njob EXCEPT ![t] = None]}
      /\ \E p \in {"off", "fail"} : npc' = [npc EXCEPT ![t] = p]
    BY DEF NextNone, Return, FailReturn, Set
<1>4. \A u \in Threads : npc[u] = "put" \/ npc'[u] = "put" =>
          npc'[u] = npc[u] /\ njob'[u] = njob[u]
    BY <1>3 DEF TypeOK
<1> QED BY <1>1, <1>2, <1>4, KeepSettled, SameRefs

LEMMA InsertSettled ==
    ASSUME TypeOK, Sound, Work, Accounts, ~undefined, NEW j \in Jobs, Insert(j)
    PROVE  Accounts'
<1>1. /\ UNCHANGED <<running, core, held, owns, refs, imports, ijob, victim, njob, seized>>
      /\ npc' = [npc EXCEPT ![j] = "loop"] /\ spc[j] = "insert"
    BY InsertEffect, Zenon
<1>2. npc[j] = "off"
    BY <1>1 DEF Sound, Locals, Runners, Threads
<1>3. \A u \in Threads : npc[u] = "put" \/ npc'[u] = "put" => npc'[u] = npc[u]
    BY <1>1, <1>2 DEF TypeOK
<1> QED BY <1>1, <1>3, KeepSettled, SameRefs

\* rga_mm_get_handle_info looks up the buffers of running_job.
LEMMA GetSettled ==
    ASSUME TypeOK, Sound, Work, Accounts, NEW t \in Threads, RunOk(t) \/ RunFail(t)
    PROVE  Accounts'
<1>1. npc[t] = "run"
    BY DEF RunOk, RunFail
<1>2. PICK c \in Cores, j \in Jobs : c = At(t) /\ j = njob[t]
    BY <1>1, RunnerHas
<1>3. PICK n \in 0..2 : GetHandles(j, n)
  <2>1. CASE RunOk(t)
    BY <1>2, <2>1 DEF RunOk
  <2>2. CASE RunFail(t)
    <3>1. Channels(j) \in 0..2
      BY DEF Channels
    <3> QED BY <1>2, <2>2, <3>1 DEF RunFail
  <2> QED BY <2>1, <2>2
<1>4. /\ UNCHANGED <<running, core, ijob, victim, njob, seized>>
      /\ \E p \in {"ret", "failret"} : npc' = [npc EXCEPT ![t] = p]
    BY DEF RunOk, RunFail, sched, job, irqt, Set
<1>5. /\ held' = [held EXCEPT ![j] = n] /\ owns' = [owns EXCEPT ![j] = n]
    BY <1>3, Got
<1>6. /\ held[j] = 0 /\ owns[j] = 0 /\ core[j] = c
    BY <1>1, <1>2 DEF Sound, Locals, Runners, Accounts
<1>7. /\ \A u \in Threads : At(u)' = At(u) /\ (npc'[u] = "put" <=> npc[u] = "put")
      /\ \A u \in Threads, d \in Cores : Puts(u, d)' <=> Puts(u, d)
      /\ \A i \in Jobs, d \in Cores : Evicts(i, d)' <=> Evicts(i, d)
  <2>1. \A u \in Threads : At(u)' = At(u) /\ (npc'[u] = "put" <=> npc[u] = "put")
    BY <1>1, <1>4 DEF At, TypeOK
  <2>2. \A u \in Threads, d \in Cores : Puts(u, d)' <=> Puts(u, d)
    BY <2>1 DEF Puts
  <2>3. \A i \in Jobs, d \in Cores : Evicts(i, d)' <=> Evicts(i, d)
    BY <1>4 DEF Evicts
  <2> QED BY <2>1, <2>2, <2>3
<1>8. \A k \in Jobs : Full(k) => owns'[k] = held'[k]
    BY <1>5 DEF Full, TypeOK
<1>9. ASSUME NEW d \in Cores, InPeace(d)' PROVE Settled(d)'
  <2>1. Settled(d) /\ Tended(d)
    BY <1>4, <1>9 DEF Accounts, InPeace, Work
  <2>2. Entitled(d)'
    <3>1. /\ running[d] # None => owns'[running[d]] = held'[running[d]]
          /\ ijob[d] # None => owns'[ijob[d]] = held'[ijob[d]]
          /\ \A i \in Jobs : Evicts(i, d) => owns'[victim[i]] = held'[victim[i]]
          /\ \A u \in Threads : Puts(u, d) => owns'[njob[u]] = held'[njob[u]]
      BY <1>8, <2>1, HolderHas DEF Settled, Entitled
    <3> QED BY <1>4, <1>7, <3>1 DEF Entitled, Full
  <2>3. Alone(d)'
    BY <1>4, <1>7, <2>1 DEF Settled, Alone
  <2>4. Traced(d)'
    <3> SUFFICES ASSUME NEW k \in Jobs, owns'[k] > 0, core[k] = d PROVE Owner(k, d)'
      BY <1>4 DEF Traced
    <3>1. CASE k = j
      <4>1. running[d] = j
        BY <1>1, <1>2, <1>6, <2>1, <3>1 DEF Tended, Starts
      <4> QED BY <1>4, <3>1, <4>1 DEF Owner
    <3>2. CASE k # j
      <4>1. owns[k] > 0
        BY <1>5, <3>2 DEF TypeOK
      <4>2. Owner(k, d)
        BY <2>1, <4>1 DEF Settled, Traced
      <4> QED BY <1>4, <1>7, <4>2 DEF Owner
    <3> QED BY <3>1, <3>2
  <2> QED BY <2>2, <2>3, <2>4 DEF Settled
<1>10. \A k \in Jobs : owns'[k] \in {0, held'[k]} /\ (owns'[k] > 0 => core'[k] \in Cores)
    BY <1>2, <1>4, <1>5, <1>6 DEF Accounts, TypeOK
<1>11. ASSUME \A d \in Cores : InPeace(d)' PROVE Refs'
  <2>1. Refs
    BY <1>4, <1>11 DEF Accounts, InPeace
  <2> QED BY <1>3, <1>6, <2>1, GotCounted
<1> QED BY <1>9, <1>10, <1>11 DEF Accounts

\* The job that becomes running_job has no buffers yet.
LEMMA NextTakeSettled ==
    ASSUME TypeOK, Sound, Work, Accounts, ~undefined, NEW t \in Threads, NextTake(t)
    PROVE  Accounts'
<1>1. /\ At(t) \in Cores /\ npc[t] = "loop" /\ running[At(t)] = None
      /\ running' = [running EXCEPT ![At(t)] = Head(todo[At(t)])]
      /\ njob' = [njob EXCEPT ![t] = Head(todo[At(t)])] /\ npc' = [npc EXCEPT ![t] = "run"]
      /\ Head(todo[At(t)]) \in Jobs /\ InQueue(Head(todo[At(t)]), At(t))
      /\ UNCHANGED <<core, held, owns, refs, imports, ijob, victim, seized>>
    BY NextTakeEffect, Zenon
<1>2. PICK c \in Cores, x \in Jobs : c = At(t) /\ x = Head(todo[At(t)])
    BY <1>1
<1>3. owns[x] = held[x]
    BY <1>1, <1>2 DEF Sound, InLists, Accounts
<1>4. /\ running'[c] = x /\ \A d \in Cores \ {c} : running'[d] = running[d]
      /\ \A u \in Threads : /\ At(u)' = At(u) /\ (npc'[u] = "put" <=> npc[u] = "put")
                            /\ npc[u] = "put" => njob'[u] = njob[u]
    BY <1>1, <1>2 DEF At, TypeOK
<1>5. /\ \A u \in Threads, d \in Cores : /\ Puts(u, d)' <=> Puts(u, d)
                                         /\ Puts(u, d) => njob'[u] = njob[u]
      /\ \A i \in Jobs, d \in Cores : Evicts(i, d)' <=> Evicts(i, d)
    BY <1>1, <1>4 DEF Puts, Evicts
<1>6. ASSUME NEW d \in Cores, InPeace(d)' PROVE Settled(d)'
  <2>1. Settled(d)
    BY <1>1, <1>6 DEF Accounts, InPeace
  <2>2. Entitled(d)'
    BY <1>1, <1>3, <1>4, <1>5, <2>1 DEF Settled, Entitled, Full
  <2>3. Alone(d)'
    BY <1>1, <1>5, <2>1 DEF Settled, Alone
  <2>4. Traced(d)'
    <3> SUFFICES ASSUME NEW k \in Jobs, owns[k] > 0, core[k] = d PROVE Owner(k, d)'
      BY <1>1 DEF Traced
    <3>1. Owner(k, d)
      BY <2>1 DEF Settled, Traced
    <3>2. running[d] = k => running'[d] = k
      BY <1>1, <1>2, <1>4, RgaAssumption
    <3> QED BY <1>1, <1>5, <3>1, <3>2 DEF Owner
  <2> QED BY <2>2, <2>3, <2>4 DEF Settled
<1>7. (\A d \in Cores : InPeace(d)') => Refs'
    BY <1>1, SameRefs DEF Accounts, InPeace
<1> QED BY <1>1, <1>6, <1>7 DEF Accounts

\* rga_job_done takes running_job, which nobody else has.
LEMMA DoneTakeSettled ==
    ASSUME TypeOK, Sound, Work, Accounts, NEW c \in Cores, DoneTake(c), ~undefined'
    PROVE  Accounts'
<1>1. /\ ipc[c] = "enter" /\ running[c] # None
      /\ running' = [running EXCEPT ![c] = None] /\ ijob' = [ijob EXCEPT ![c] = running[c]]
      /\ UNCHANGED <<core, held, owns, refs, imports, npc, njob, victim, seized>>
  <2>1. running[c] # None
    BY Zenon DEF DoneTake
  <2> QED BY <2>1 DEF DoneTake, job, mm, next, Set
<1>2. /\ running'[c] = None /\ ijob'[c] = running[c] /\ ijob[c] = None
      /\ \A d \in Cores \ {c} : running'[d] = running[d] /\ ijob'[d] = ijob[d]
  <2>1. running \in [Cores -> Jobs \cup {None}] /\ ijob \in [Cores -> Jobs \cup {None}]
    BY DEF TypeOK
  <2>2. ijob[c] = None
    BY <1>1 DEF Work, Owners
  <2> QED BY <1>1, <2>1, <2>2
<1>3. /\ \A u \in Threads, d \in Cores : Puts(u, d)' <=> Puts(u, d)
      /\ \A i \in Jobs, d \in Cores : Evicts(i, d)' <=> Evicts(i, d)
    BY <1>1 DEF Puts, Evicts, At
<1>4. ASSUME NEW d \in Cores, InPeace(d)' PROVE Settled(d)'
  <2>1. Settled(d)
    BY <1>1, <1>4 DEF Accounts, InPeace
  <2>2. Entitled(d)'
    BY <1>1, <1>2, <1>3, <2>1 DEF Settled, Entitled, Full
  <2>3. Alone(d)'
    BY <1>1, <1>2, <1>3, <2>1, HolderHas DEF Settled, Alone
  <2>4. Traced(d)'
    <3> SUFFICES ASSUME NEW k \in Jobs, owns[k] > 0, core[k] = d PROVE Owner(k, d)'
      BY <1>1 DEF Traced
    <3>1. Owner(k, d)
      BY <2>1 DEF Settled, Traced
    <3> QED BY <1>1, <1>2, <1>3, <3>1, RgaAssumption DEF Owner
  <2> QED BY <2>2, <2>3, <2>4 DEF Settled
<1>5. (\A d \in Cores : InPeace(d)') => Refs'
    BY <1>1, SameRefs DEF Accounts, InPeace
<1> QED BY <1>1, <1>4, <1>5 DEF Accounts

\* The thread whose start of running_job failed has it alone.
LEMMA FailClearSettled ==
    ASSUME TypeOK, Sound, Work, Accounts, NEW t \in Threads, FailClear(t)
    PROVE  Accounts'
<1>1. npc[t] = "fail"
    BY DEF FailClear
<1>2. PICK c \in Cores, x \in Jobs : c = At(t) /\ x = njob[t] /\ x # None
    BY <1>1, RunnerHas
<1>3. /\ running' = [running EXCEPT ![c] = None] /\ npc' = [npc EXCEPT ![t] = "put"]
      /\ UNCHANGED <<core, held, owns, refs, imports, ijob, njob, victim, seized>>
    BY <1>2 DEF FailClear, job, mm, irqt, hist, Set
<1>4. /\ running'[c] = None /\ \A d \in Cores \ {c} : running'[d] = running[d]
      /\ \A u \in Threads : At(u)' = At(u) /\ (npc'[u] = "put" <=> npc[u] = "put" \/ u = t)
    BY <1>3 DEF At, TypeOK
<1>5. /\ \A u \in Threads, d \in Cores : Puts(u, d)' <=> Puts(u, d) \/ (u = t /\ d = c)
      /\ \A i \in Jobs, d \in Cores : Evicts(i, d)' <=> Evicts(i, d)
    BY <1>2, <1>3, <1>4 DEF Puts, Evicts
<1>6. ASSUME NEW d \in Cores, InPeace(d)' PROVE Settled(d)'
  <2>1. Settled(d) /\ (d = c => running[c] = x)
    BY <1>1, <1>2, <1>3, <1>6 DEF Accounts, InPeace, Work, Tended, Starts
  <2>2. Entitled(d)'
    BY <1>2, <1>3, <1>4, <1>5, <2>1 DEF Settled, Entitled, Full
  <2>3. Alone(d)'
    BY <1>2, <1>3, <1>5, <2>1, HolderHas DEF Settled, Alone
  <2>4. Traced(d)'
    <3> SUFFICES ASSUME NEW k \in Jobs, owns[k] > 0, core[k] = d PROVE Owner(k, d)'
      BY <1>3 DEF Traced
    <3>1. Owner(k, d)
      BY <2>1 DEF Settled, Traced
    <3>2. running[d] = k => running'[d] = k \/ (Puts(t, d)' /\ njob'[t] = k)
      BY <1>2, <1>3, <1>4, <1>5, <2>1
    <3> QED BY <1>3, <1>5, <3>1, <3>2 DEF Owner
  <2> QED BY <2>2, <2>3, <2>4 DEF Settled
<1>7. (\A d \in Cores : InPeace(d)') => Refs'
    BY <1>3, SameRefs DEF Accounts, InPeace
<1> QED BY <1>3, <1>6, <1>7 DEF Accounts

\* rga_job_timeout_clean takes running_job, which nobody else has.
LEMMA CleanSettled ==
    ASSUME TypeOK, Sound, Work, Accounts, NEW j \in Jobs, Clean(j)
    PROVE  Accounts'
<1>1. PICK c \in Cores : c = core[j]
  <2>1. spc[j] \in Assigned
    BY DEF Clean, Assigned
  <2> QED BY <2>1, HasCore
<1>2. /\ UNCHANGED <<core, held, owns, refs, imports, ijob, npc, njob>>
      /\ \/ UNCHANGED <<running, victim, seized>>
         \/ /\ running[c] \in Async /\ spc[j] = "clean"
            /\ victim' = [victim EXCEPT ![j] = running[c]]
            /\ running' = [running EXCEPT ![c] = None]
            /\ seized' \in {seized, [seized EXCEPT ![c] = seized[c] \cup {"timeout"}]}
    BY <1>1 DEF Clean, Seize, job, mm, next, irqt, Set
<1>3. CASE UNCHANGED <<running, victim, seized>>
    BY <1>2, <1>3, KeepSettled, SameRefs
<1>4. CASE ~UNCHANGED <<running, victim, seized>>
  <2>1. /\ running[c] \in Jobs /\ running[c] # None /\ victim[j] = None
        /\ victim'[j] = running[c] /\ \A i \in Jobs \ {j} : victim'[i] = victim[i]
        /\ running'[c] = None /\ \A d \in Cores \ {c} : running'[d] = running[d]
    <3>1. running[c] \in Jobs /\ running[c] # None
      BY <1>2, <1>4, RgaAssumption DEF Async
    <3>2. victim[j] = None
      BY <1>2, <1>4 DEF Work, Owners
    <3>3. victim'[j] = running[c] /\ \A i \in Jobs \ {j} : victim'[i] = victim[i]
      <4>1. DOMAIN victim = Jobs
        BY DEF TypeOK
      <4> QED BY <1>2, <1>4, <4>1
    <3>4. running'[c] = None /\ \A d \in Cores \ {c} : running'[d] = running[d]
      <4>1. DOMAIN running = Cores
        BY DEF TypeOK
      <4> QED BY <1>2, <1>4, <4>1
    <3> QED BY <3>1, <3>2, <3>3, <3>4
  <2>2. \A d \in Cores : seized'[d] = {} => seized[d] = {}
    <3>1. seized \in [Cores -> SUBSET {"caller", "timeout"}]
      BY DEF TypeOK
    <3>2. CASE seized' = seized
      BY <3>2
    <3>3. CASE seized' = [seized EXCEPT ![c] = seized[c] \cup {"timeout"}]
      BY <3>1, <3>3
    <3> QED BY <1>2, <1>4, <3>2, <3>3
  <2>3. /\ \A u \in Threads, d \in Cores : Puts(u, d)' <=> Puts(u, d)
        /\ \A i \in Jobs, d \in Cores : Evicts(i, d)' <=> Evicts(i, d) \/ (i = j /\ d = c)
        /\ \A d \in Cores : ~Evicts(j, d)
    BY <1>1, <1>2, <2>1 DEF Puts, Evicts, At
  <2>4. ASSUME NEW d \in Cores, InPeace(d)' PROVE Settled(d)'
    <3>1. Settled(d)
      BY <2>2, <2>4 DEF Accounts, InPeace
    <3>2. Entitled(d)'
      BY <1>2, <2>1, <2>3, <3>1 DEF Settled, Entitled, Full
    <3>3. Alone(d)'
      <4>1. \A i \in Jobs : Evicts(i, d) => i # j /\ victim'[i] = victim[i] /\ victim[i] # running[c]
        BY <2>1, <2>3, HolderHas
      <4>2. ASSUME NEW i \in Jobs, Evicts(i, d)'
            PROVE  /\ victim'[i] # ijob[d]
                   /\ \A k \in Jobs : Evicts(k, d)' /\ victim'[k] = victim'[i] => k = i
                   /\ \A u \in Threads : Puts(u, d) => njob[u] # victim'[i]
        BY <2>1, <2>3, <3>1, <4>1, <4>2, HolderHas DEF Settled, Alone
      <4>3. \A u \in Threads : Puts(u, d) => njob[u] # ijob[d]
        BY <3>1 DEF Settled, Alone
      <4> QED BY <1>2, <2>3, <4>2, <4>3 DEF Alone
    <3>4. Traced(d)'
      <4> SUFFICES ASSUME NEW k \in Jobs, owns[k] > 0, core[k] = d PROVE Owner(k, d)'
        BY <1>2 DEF Traced
      <4>1. Owner(k, d)
        BY <3>1 DEF Settled, Traced
      <4>2. \A i \in Jobs : Evicts(i, d) => victim'[i] = victim[i] /\ Evicts(i, d)'
        BY <2>1, <2>3
      <4>3. running[d] = k => running'[d] = k \/ (Evicts(j, d)' /\ victim'[j] = k)
        BY <2>1, <2>3
      <4> QED BY <1>2, <2>3, <4>1, <4>2, <4>3 DEF Owner
    <3> QED BY <3>2, <3>3, <3>4 DEF Settled
  <2>5. (\A d \in Cores : InPeace(d)') => Refs'
    BY <1>2, <2>2, SameRefs DEF Accounts, InPeace
  <2> QED BY <1>2, <2>4, <2>5 DEF Accounts
<1> QED BY <1>3, <1>4

\* The only one who puts the buffers of a job puts them.
LEMMA GiveSettled ==
    ASSUME TypeOK, Sound, Work, Accounts, NEW c \in Cores, NEW x \in Jobs,
           core[x] = c, PutHandles(x), UNCHANGED <<running, core, seized>>,
           \A d \in Cores : running[d] # x,
           \A d \in Cores : ijob'[d] = ijob[d] \/ (ijob[d] = x /\ ijob'[d] = None),
           \A i \in Jobs : victim'[i] = victim[i] \/ (victim[i] = x /\ victim'[i] = None),
           \A u \in Threads, d \in Cores :
               /\ Puts(u, d)' => Puts(u, d) /\ njob'[u] = njob[u]
               /\ Puts(u, d) => Puts(u, d)' \/ njob[u] = x,
           InPeace(c) => /\ Full(x) /\ ijob'[c] # x
                         /\ \A i \in Jobs : Evicts(i, c)' => victim'[i] # x
                         /\ \A u \in Threads : Puts(u, c)' => njob'[u] # x
    PROVE  Accounts'
<1>1. held' = held /\ owns' = [owns EXCEPT ![x] = 0]
    BY Gave
<1>2. owns'[x] = 0 /\ \A k \in Jobs \ {x} : owns'[k] = owns[k]
    BY <1>1 DEF TypeOK
<1>3. \A i \in Jobs, d \in Cores :
          /\ Evicts(i, d)' => Evicts(i, d) /\ victim'[i] = victim[i]
          /\ Evicts(i, d) => Evicts(i, d)' \/ victim[i] = x
    BY DEF Evicts
<1>4. ASSUME NEW d \in Cores, InPeace(d)' PROVE Settled(d)'
  <2>1. Settled(d) /\ InPeace(d)
    BY <1>4 DEF Accounts, InPeace
  <2>2. Entitled(d)'
    <3>1. running[d] # None => running[d] \in Jobs \ {x} /\ Full(running[d])
      BY <2>1, HolderHas DEF Settled, Entitled
    <3>2. ijob'[d] # None => ijob'[d] \in Jobs \ {x} /\ Full(ijob'[d])
      BY <2>1, HolderHas DEF Settled, Entitled
    <3>3. \A i \in Jobs : Evicts(i, d)' => victim'[i] \in Jobs \ {x} /\ Full(victim'[i])
      <4> SUFFICES ASSUME NEW i \in Jobs, Evicts(i, d)'
                   PROVE  victim'[i] \in Jobs \ {x} /\ Full(victim'[i])
        OBVIOUS
      <4>1. Evicts(i, d) /\ victim'[i] = victim[i]
        BY <1>3
      <4>2. victim[i] \in Jobs /\ core[victim[i]] = d /\ Full(victim[i])
        BY <2>1, <4>1, HolderHas DEF Settled, Entitled
      <4>3. victim[i] # x
        BY <2>1, <4>1, <4>2
      <4> QED BY <4>1, <4>2, <4>3
    <3>4. \A u \in Threads : Puts(u, d)' => njob'[u] \in Jobs \ {x} /\ Full(njob'[u])
      <4> SUFFICES ASSUME NEW u \in Threads, Puts(u, d)'
                   PROVE  njob'[u] \in Jobs \ {x} /\ Full(njob'[u])
        OBVIOUS
      <4>1. Puts(u, d) /\ njob'[u] = njob[u]
        OBVIOUS
      <4>2. njob[u] \in Jobs /\ core[njob[u]] = d /\ Full(njob[u])
        BY <2>1, <4>1, HolderHas DEF Settled, Entitled
      <4>3. njob[u] # x
        BY <2>1, <4>1, <4>2
      <4> QED BY <4>1, <4>2, <4>3
    <3>5. \A k \in Jobs \ {x} : Full(k) => owns'[k] = held'[k]
      BY <1>1, <1>2 DEF Full
    <3> QED BY <3>1, <3>2, <3>3, <3>4, <3>5 DEF Entitled, Full
  <2>3. Alone(d)'
    <3>1. ijob'[d] \in {ijob[d], None}
      OBVIOUS
    <3>2. ASSUME NEW i \in Jobs, Evicts(i, d)'
          PROVE  /\ victim'[i] # ijob'[d]
                 /\ \A k \in Jobs : Evicts(k, d)' /\ victim'[k] = victim'[i] => k = i
                 /\ \A u \in Threads : Puts(u, d)' => njob'[u] # victim'[i]
      <4>1. Evicts(i, d) /\ victim'[i] = victim[i] /\ victim[i] # None
        BY <1>3, <3>2, HolderHas
      <4> QED BY <1>3, <2>1, <3>1, <4>1 DEF Settled, Alone
    <3>3. ASSUME NEW u \in Threads, Puts(u, d)' PROVE njob'[u] # ijob'[d]
      <4>1. Puts(u, d) /\ njob'[u] = njob[u]
        BY <3>3
      <4>2. njob[u] # None /\ njob[u] # ijob[d]
        BY <2>1, <4>1, HolderHas DEF Settled, Alone
      <4> QED BY <3>1, <4>1, <4>2
    <3> QED BY <3>2, <3>3 DEF Alone
  <2>4. Traced(d)'
    <3> SUFFICES ASSUME NEW k \in Jobs, owns'[k] > 0, core[k] = d PROVE Owner(k, d)'
      BY DEF Traced
    <3>1. k # x /\ owns[k] > 0
      BY <1>2
    <3>2. Owner(k, d)
      BY <2>1, <3>1 DEF Settled, Traced
    <3> QED BY <1>3, <3>1, <3>2 DEF Owner
  <2> QED BY <2>2, <2>3, <2>4 DEF Settled
<1>5. \A k \in Jobs : owns'[k] \in {0, held'[k]} /\ (owns'[k] > 0 => core'[k] \in Cores)
    BY <1>1, <1>2 DEF Accounts
<1>6. ASSUME \A d \in Cores : InPeace(d)' PROVE Refs'
  <2>1. Refs /\ InPeace(c)
    BY <1>6 DEF Accounts, InPeace
  <2> QED BY <2>1, GaveCounted
<1> QED BY <1>4, <1>5, <1>6 DEF Accounts

LEMMA DoneFinishSettled ==
    ASSUME TypeOK, Sound, Work, Accounts, NEW c \in Cores, DoneFinish(c)
    PROVE  Accounts'
<1>1. PICK x \in Jobs : x = ijob[c] /\ x # None /\ core[x] = c
    BY RgaAssumption DEF DoneFinish, Sound, Locals, Enders, Work, Owners
<1>2. /\ PutHandles(x) /\ ijob' = [ijob EXCEPT ![c] = None] /\ npc' = [npc EXCEPT ![c] = "loop"]
      /\ ipc[c] = "flagged" /\ UNCHANGED <<running, core, seized, victim, njob>>
    BY <1>1 DEF DoneFinish, DoneNext, sched, Set
<1>3. ijob'[c] = None /\ \A d \in Cores \ {c} : ijob'[d] = ijob[d]
    BY <1>2 DEF TypeOK
<1>4. \A u \in Threads, d \in Cores : Puts(u, d)' <=> Puts(u, d)
  <2>1. npc[c] = "off"
    BY <1>2 DEF Work, Owners
  <2>2. \A u \in Threads : At(u)' = At(u) /\ (npc'[u] = "put" <=> npc[u] = "put")
    BY <1>2, <2>1 DEF At, TypeOK
  <2> QED BY <2>2 DEF Puts
<1>5. \A i \in Jobs : Evicts(i, c)' <=> Evicts(i, c)
    BY <1>2 DEF Evicts
<1>6. InPeace(c) => /\ Full(x) /\ ijob'[c] # x
                    /\ \A i \in Jobs : Evicts(i, c)' => victim'[i] # x
                    /\ \A u \in Threads : Puts(u, c)' => njob'[u] # x
    BY <1>1, <1>2, <1>3, <1>4, <1>5 DEF Accounts, Settled, Entitled, Alone
<1>7. \A d \in Cores : running[d] # x
    BY <1>1, HolderHas
<1> QED BY <1>1, <1>2, <1>3, <1>4, <1>6, <1>7, GiveSettled

LEMMA FailPutSettled ==
    ASSUME TypeOK, Sound, Work, Accounts, NEW t \in Threads, FailPut(t)
    PROVE  Accounts'
<1>1. npc[t] = "put"
    BY DEF FailPut
<1>2. PICK c \in Cores, x \in Jobs : c = At(t) /\ x = njob[t] /\ x # None /\ core[x] = c
    BY <1>1, RunnerHas
<1>3. /\ PutHandles(x) /\ npc' = [npc EXCEPT ![t] = "loop"] /\ njob' = [njob EXCEPT ![t] = None]
      /\ UNCHANGED <<running, core, seized, victim, ijob>>
    BY <1>2 DEF FailPut, sched, irqt, Set
<1>4. /\ \A u \in Threads : At(u)' = At(u)
      /\ npc'[t] = "loop" /\ \A u \in Threads \ {t} : npc'[u] = npc[u] /\ njob'[u] = njob[u]
    BY <1>3 DEF At, TypeOK
<1>5. /\ \A u \in Threads, d \in Cores : Puts(u, d)' <=> Puts(u, d) /\ u # t
      /\ \A i \in Jobs : Evicts(i, c)' <=> Evicts(i, c)
      /\ Puts(t, c)
    BY <1>1, <1>2, <1>3, <1>4 DEF Puts, Evicts
<1>6. \A u \in Threads \ {t} : njob[u] # x
    BY <1>2 DEF Sound, Locals, Apart
<1>7. InPeace(c) => /\ Full(x) /\ ijob'[c] # x
                    /\ \A i \in Jobs : Evicts(i, c)' => victim'[i] # x
                    /\ \A u \in Threads : Puts(u, c)' => njob'[u] # x
    BY <1>2, <1>3, <1>4, <1>5, <1>6 DEF Accounts, Settled, Entitled, Alone
<1>8. \A d \in Cores : running[d] # x
    BY <1>2, <1>5, HolderHas
<1> QED BY <1>2, <1>3, <1>4, <1>5, <1>7, <1>8, GiveSettled

LEMMA CleanPutSettled ==
    ASSUME TypeOK, Sound, Work, Accounts, NEW j \in Jobs, CleanPut(j)
    PROVE  Accounts'
<1>1. spc[j] = "put"
    BY DEF CleanPut
<1>2. PICK c \in Cores, x \in Jobs : c = core[j] /\ x = victim[j] /\ x # None
  <2>1. spc[j] \in Assigned
    BY <1>1 DEF Assigned
  <2>2. victim[j] \in Jobs
    BY <1>1 DEF Sound, Locals, Committers
  <2> QED BY <2>1, <2>2, HasCore, RgaAssumption
<1>3. Evicts(j, c) /\ core[x] = c /\ \A d \in Cores : running[d] # x
  <2>1. Evicts(j, c)
    BY <1>2 DEF Evicts
  <2> QED BY <1>2, <2>1, HolderHas
<1>4. /\ PutHandles(x) /\ victim' = [victim EXCEPT ![j] = None]
      /\ UNCHANGED <<running, core, seized, ijob, npc, njob>>
    BY <1>2 DEF CleanPut, sched, next, irqt, Set
<1>5. victim'[j] = None /\ \A i \in Jobs \ {j} : victim'[i] = victim[i]
    BY <1>4 DEF TypeOK
<1>6. /\ \A u \in Threads, d \in Cores : Puts(u, d)' <=> Puts(u, d)
      /\ \A i \in Jobs : Evicts(i, c)' <=> Evicts(i, c) /\ i # j
    BY <1>4, <1>5 DEF Puts, Evicts, At
<1>7. InPeace(c) => /\ Full(x) /\ ijob'[c] # x
                    /\ \A i \in Jobs : Evicts(i, c)' => victim'[i] # x
                    /\ \A u \in Threads : Puts(u, c)' => njob'[u] # x
  <2> SUFFICES ASSUME InPeace(c)
               PROVE  /\ Full(x) /\ ijob'[c] # x
                      /\ \A i \in Jobs : Evicts(i, c)' => victim'[i] # x
                      /\ \A u \in Threads : Puts(u, c)' => njob'[u] # x
    OBVIOUS
  <2>1. Entitled(c) /\ Alone(c)
    BY DEF Accounts, Settled
  <2> QED BY <1>2, <1>3, <1>4, <1>5, <1>6, <2>1 DEF Entitled, Alone
<1> QED BY <1>2, <1>3, <1>4, <1>5, <1>6, <1>7, GiveSettled

-----------------------------------------------------------------------------
(* The invariant of the accounts *)

\* Nobody has a reference.
LEMMA InitAccounts == Init => Accounts
<1> SUFFICES ASSUME Init PROVE Accounts
    OBVIOUS
<1>1. /\ \A j \in Jobs : owns[j] = 0 /\ held[j] = 0 /\ victim[j] = None
      /\ \A t \in Threads : npc[t] = "off"
      /\ \A c \in Cores : running[c] = None /\ ijob[c] = None
      /\ \A h \in Handles : refs[h] = 0 /\ imports[h] = 0
    BY DEF Init
<1>2. \A c \in Cores : Settled(c)
    BY <1>1 DEF Settled, Entitled, Alone, Traced, Evicts, Puts
<1>3. Refs
  <2>1. \A h \in Handles : Sources(h) = {} /\ Targets(h) = {}
    BY <1>1 DEF Sources, Targets
  <2> QED BY <1>1, <2>1, FS_EmptySet DEF Refs
<1> QED BY <1>1, <1>2, <1>3 DEF Accounts

LEMMA RunNextSettled ==
    ASSUME TypeOK, Sound, Work, Accounts, ~undefined, NEW t \in Threads, RunNext(t)
    PROVE  Accounts'
<1>1. CASE NextNone(t) \/ Return(t) \/ FailReturn(t)
    BY <1>1, ThreadSettled, Zenon
<1>2. CASE NextTake(t)
    BY <1>2, NextTakeSettled, Zenon
<1>3. CASE RunOk(t) \/ RunFail(t)
    BY <1>3, GetSettled, Zenon
<1>4. CASE FailClear(t)
    BY <1>4, FailClearSettled, Zenon
<1>5. CASE FailPut(t)
    BY <1>5, FailPutSettled, Zenon
<1> QED BY <1>1, <1>2, <1>3, <1>4, <1>5, Zenon DEF RunNext

LEMMA CommitterSettled ==
    ASSUME TypeOK, Sound, Work, Accounts, ~undefined, NEW j \in Jobs, Committer(j)
    PROVE  Accounts'
<1>1. CASE CheckFence(j) \/ BadFence(j) \/ AddCallback(j)
    BY <1>1, QuietSettled, Zenon
<1>2. CASE Schedule(j)
  <2>1. CASE Assign(j) \/ Reject(j)
    BY <2>1, QuietSettled, Zenon
  <2>2. CASE Clean(j)
    BY <2>2, CleanSettled, Zenon
  <2>3. CASE CleanReset(j)
    BY <2>3, ResetSettled, Zenon
  <2>4. CASE CleanPut(j)
    BY <2>4, CleanPutSettled, Zenon
  <2>5. CASE Insert(j)
    BY <2>5, InsertSettled, Zenon
  <2> QED BY <1>2, <2>1, <2>2, <2>3, <2>4, <2>5, Zenon DEF Schedule
<1>3. CASE RunNext(j)
  <2>1. j \in Threads
    BY DEF Threads
  <2> QED BY <1>3, <2>1, RunNextSettled, Zenon
<1>4. CASE Wait(j)
  <2>1. CASE ReadRet(j) \/ WaitTimeout(j) \/ WaitDone(j) \/ Abort(j)
    BY <2>1, WaitSettled, Zenon
  <2>2. CASE TimeoutReset(j)
    BY <2>2, ResetSettled, Zenon
  <2> QED BY <1>4, <2>1, <2>2, Zenon DEF Wait
<1> QED BY <1>1, <1>2, <1>3, <1>4, Zenon DEF Committer

LEMMA IrqSettled ==
    ASSUME TypeOK, Sound, Work, Accounts, ~undefined, NEW c \in Cores, Irq(c), ~undefined'
    PROVE  Accounts'
<1>1. CASE IrqThread(c) \/ DoneFlag(c) \/ DonePower(c)
    BY <1>1, CoreSettled, Zenon
<1>2. CASE DoneTake(c)
    BY <1>2, DoneTakeSettled, Zenon
<1>3. CASE DoneFinish(c)
    BY <1>3, DoneFinishSettled, Zenon
<1>4. CASE RunNext(c)
  <2>1. c \in Threads
    BY DEF Threads
  <2> QED BY <1>4, <2>1, RunNextSettled, Zenon
<1> QED BY <1>1, <1>2, <1>3, <1>4, Zenon DEF Irq

\* The invariant is inductive.
LEMMA NextAccounts == AInv /\ [Next]_vars => AInv'
<1> SUFFICES ASSUME AInv, [Next]_vars PROVE AInv'
    OBVIOUS
<1>1. WInv'
    BY NextWork DEF AInv
<1> SUFFICES ASSUME ~undefined' PROVE Accounts'
    BY <1>1 DEF AInv
<1>2. CASE UNCHANGED vars
  <2>1. ~undefined
    BY <1>2 DEF vars, hist
  <2>2. TypeOK /\ Sound /\ Work /\ Accounts
    BY <2>1 DEF AInv, WInv, IInv
  <2> QED BY <1>2, <2>2, ClientSettled, Zenon
<1>3. CASE Next
  <2>1. ~undefined /\ TypeOK /\ Sound /\ Work /\ Accounts
    BY <1>3 DEF Next, AInv, WInv, IInv
  <2>2. ASSUME NEW h \in Handles, Import(h) \/ Release(h) PROVE Accounts'
    BY <2>1, <2>2, ClientSettled, Zenon
  <2>3. ASSUME NEW j \in Jobs,
               Commit(j) \/ Refuse(j) \/ InFenceSignal(j) \/ WaitSignal(j) \/ Committer(j)
        PROVE  Accounts'
    <3>1. CASE Commit(j) \/ Refuse(j) \/ InFenceSignal(j)
      BY <2>1, <3>1, QuietSettled, Zenon
    <3>2. CASE WaitSignal(j)
      BY <2>1, <3>2, WaitSettled, Zenon
    <3>3. CASE Committer(j)
      BY <2>1, <3>3, CommitterSettled, Zenon
    <3> QED BY <2>3, <3>1, <3>2, <3>3, Zenon
  <2>4. ASSUME NEW c \in Cores, HwDone(c) \/ Hang(c) \/ Irq(c) PROVE Accounts'
    BY <2>1, <2>4, CoreSettled, IrqSettled, Zenon
  <2> QED BY <1>3, <2>2, <2>3, <2>4, Zenon DEF Next
<1> QED BY <1>2, <1>3

\* The channels of the job the core works on are counted.
LEMMA AccountsMapped == AInv => BuffersAreMapped
<1> SUFFICES ASSUME TypeOK, Sound, Work, Accounts, \A c \in Cores : InPeace(c), lost = {},
                    NEW c \in Cores, hw[c] # None
             PROVE  refs[Src[hw[c]]] > 0 /\ refs[Dst[hw[c]]] > 0
    BY DEF AInv, WInv, IInv, BuffersAreMapped
<1>1. PICK k \in Jobs : k = hw[c]
    BY DEF TypeOK
<1>2. owns[k] = 2
    BY <1>1 DEF Work, Served, Mapped, InPeace
<1>3. Src[k] \in Handles /\ Dst[k] \in Handles
    BY RgaAssumption
<1>4. k \in Sources(Src[k]) /\ k \in Targets(Dst[k])
    BY <1>2 DEF Sources, Targets
<1>5. ASSUME NEW h \in Handles
      PROVE  /\ refs[h] = imports[h] + Cardinality(Sources(h)) + Cardinality(Targets(h))
             /\ imports[h] \in Nat
             /\ Cardinality(Sources(h)) \in Nat /\ Cardinality(Targets(h)) \in Nat
             /\ k \in Sources(h) => Cardinality(Sources(h)) > 0
             /\ k \in Targets(h) => Cardinality(Targets(h)) > 0
  <2>1. refs[h] = imports[h] + Cardinality(Sources(h)) + Cardinality(Targets(h))
    BY DEF Accounts, Refs
  <2>2. imports[h] \in Nat
    BY RgaAssumption DEF TypeOK
  <2> QED BY <2>1, <2>2, HoldersFinite, OneElement
<1> QED BY <1>1, <1>3, <1>4, <1>5

\* No reference is put twice, and whoever puts those of a freed job is known.
LEMMA AccountsCounted == AInv => HandlesAreCounted
<1> SUFFICES ASSUME TypeOK, Sound, Work, Accounts, \A c \in Cores : InPeace(c)
             PROVE  /\ \A h \in Handles : refs[h] =
                           imports[h] + Cardinality(Sources(h)) + Cardinality(Targets(h))
                    /\ \A j \in Jobs : page[j] = "freed" /\ owns[j] > 0 =>
                           \/ \E c \in Cores : ijob[c] = j
                           \/ \E t \in Threads : njob[t] = j
                           \/ \E i \in Jobs : victim[i] = j
    BY DEF AInv, WInv, IInv, HandlesAreCounted, Sources, Targets
<1>1. Refs
    BY DEF Accounts
<1>2. ASSUME NEW j \in Jobs, page[j] = "freed", owns[j] > 0
      PROVE  \/ \E c \in Cores : ijob[c] = j
             \/ \E t \in Threads : njob[t] = j
             \/ \E i \in Jobs : victim[i] = j
  <2>1. PICK c \in Cores : c = core[j] /\ Owner(j, c)
    BY <1>2 DEF Accounts, Settled, Traced
  <2>2. running[c] # j
    BY <1>2 DEF Sound, InLists
  <2> QED BY <2>1, <2>2 DEF Owner
<1> QED BY <1>1, <1>2 DEF Refs

-----------------------------------------------------------------------------
(* Theorems *)

\* The invariant of the cores: which thread starts a job, which job a core
\* works on, whose interrupt comes and who has a power reference, until a job
\* was taken from the core under way (rga_running_job_abort,
\* rga_job_timeout_clean); for any jobs, cores and handles, hangs and failures.
THEOREM WorkInvariant == Spec => []WInv
<1>1. Init => WInv
    BY InitSound, InitWork DEF WInv
<1>2. WInv /\ [Next]_vars => WInv'
    BY NextWork
<1> QED BY <1>1, <1>2, PTL DEF Spec

\* A core at work is the core of running_job, so rga_job_next never writes
\* the registers of a core that works, also after a soft reset: until a job was
\* taken from the core under way (rga_job_next, rga_job_timeout_clean).
THEOREM CoreIsTracked == Spec => []WorkIsTracked
<1>1. Spec => []WInv
    BY WorkInvariant
<1> QED BY <1>1, WorkTracked, PTL

\* No fence is signaled without an error and no waiting caller told that its
\* job is done before the core has finished it, until a job was taken from the
\* core under way or a core was reset at work (rga_job_done, rga_job_run).
THEOREM DoneMeansExecuted == Spec => []DoneIsExecuted
<1>1. Spec => []WInv
    BY WorkInvariant
<1> QED BY <1>1, WorkHonest, PTL

\* The invariant of the references, on top of that of the cores.
LEMMA AccountsInvariant == Spec => []AInv
<1>1. Init => AInv
    BY InitSound, InitWork, InitAccounts DEF AInv, WInv
<1>2. AInv /\ [Next]_vars => AInv'
    BY NextAccounts
<1> QED BY <1>1, <1>2, PTL DEF Spec

\* The buffers of the job a core works on have references, whatever the
\* clients release and other jobs put: until a job was taken from a core under
\* way or its work was reset (rga_mm_get_handle_info, rga_mm_release_buffer).
THEOREM BuffersStayMapped == Spec => []BuffersAreMapped
<1>1. Spec => []AInv
    BY AccountsInvariant
<1> QED BY <1>1, AccountsMapped, PTL

\* Although rga_mm_put_handle_info leaves the pointers in the job, nobody puts
\* a reference twice, and a freed job has none that nobody will put: until a
\* job was taken from a core under way.
THEOREM HandlesStayCounted == Spec => []HandlesAreCounted
<1>1. Spec => []AInv
    BY AccountsInvariant
<1> QED BY <1>1, AccountsCounted, PTL

\* Every rga_power_enable has its rga_power_disable, on every path of
\* rga_job_run, rga_job_done and rga_job_timeout_clean, until a job was taken
\* from the core under way.
THEOREM PowerStaysBalanced == Spec => []PowerBalanced
<1>1. Spec => []WInv
    BY WorkInvariant
<1> QED BY <1>1, WorkBalanced, PTL
=============================================================================
