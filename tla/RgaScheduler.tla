----------------------------- MODULE RgaScheduler -----------------------------
(***************************************************************************)
(* The job scheduler of the RGA2/RGA3 blitters of RK3588 with the buffer   *)
(* handles its jobs use (rga_job.c, rga_mm.c, rga_fence.c, rga_drv.c).     *)
(*                                                                         *)
(* Three kinds of contexts run the code: the ioctl that commits a job, the *)
(* callback of the fence the job waits for, and the irq thread of a core.  *)
(* The first two never overlap for one job, so the job names its           *)
(* committer.  All of them run rga_job_next.                               *)
(*                                                                         *)
(* Where the kernel uses a freed job, a freed buffer or a null pointer, or *)
(* writes the registers of a core at work, its behaviour is undefined: the *)
(* step that does so sets "undefined" and the model stops there.           *)
(***************************************************************************)
EXTENDS Integers, FiniteSets, Sequences, SequencesExt

CONSTANTS
    Jobs, Handles,
    CoreOrder,      \* rga_drvdata->rga_scheduler, the cores as probed
    Sync,           \* the jobs of RGA_BLIT_SYNC, the others are RGA_BLIT_ASYNC
    Fenced,         \* the asynchronous jobs with an in_fence_fd
    Src, Dst,       \* the handles of the channels of each job
    Priority,       \* rga_req.priority of each job
    Interrupted,    \* the synchronous jobs whose caller may get a signal
    Failing,        \* the jobs with a step that may fail: fd, registers, policy
    MayHang,        \* the cores that may stop answering
    Overdue,        \* the synchronous jobs whose caller may have to wait for HZ
    MaxImports,     \* bound on the imports of a handle
    None

Cores == Range(CoreOrder)

ASSUME RgaAssumption ==
    /\ Sync \subseteq Jobs /\ Fenced \subseteq Jobs \ Sync
    /\ Src \in [Jobs -> Handles] /\ Dst \in [Jobs -> Handles]
    /\ Priority \in [Jobs -> 0..6]
    /\ CoreOrder \in Seq(Cores) /\ IsInjective(CoreOrder)
    /\ Interrupted \subseteq Sync /\ Overdue \subseteq Sync
    /\ Failing \subseteq Jobs /\ MayHang \subseteq Cores
    /\ MaxImports \in Nat
    /\ None \notin Jobs \cup Cores /\ Jobs \cap Cores = {} /\ IsFiniteSet(Jobs)

Async == Jobs \ Sync
Threads == Jobs \cup Cores

VARIABLES
    \* rga_scheduler_t of each core
    todo,           \* todo_list
    jobCount,       \* job_count
    running,        \* running_job
    power,          \* runtime references of rga_power_enable
    \* rga_job
    page,           \* "none", "live" or "freed"
    core,           \* job->core
    prio,           \* job->priority
    done,           \* RGA_JOB_DONE
    failed,         \* job->ret < 0
    held,           \* channels with src_buffer or dst_buffer set: 0..2
    fence,          \* job->out_fence: "none", "pending" or "signaled"
    inFence,        \* the fence of in_fence_fd has been signaled
    \* rga_mm
    refs,           \* kref of the buffer of a handle, 0: not in memory_idr
    imports,        \* imports its clients have not released
    \* threads
    spc,            \* where the committer is
    result,         \* what the ioctl returned
    victim,         \* job of rga_job_timeout_clean of a committer
    npc,            \* where a thread is in rga_job_next
    njob,           \* its job there
    ipc,            \* where the irq thread of a core is
    ijob,           \* its job in rga_job_done
    \* hardware
    hw,             \* the job a core works on
    irq,            \* the irq thread of a core has been woken
    hung,           \* a core will not answer
    \* history
    executed,       \* jobs the hardware has finished
    dropped,        \* jobs given up by the driver that returned success
    owns,           \* channels whose reference the job took and did not put
    seized,         \* for each core, who took a job from it under way
    lost,           \* jobs whose work on the core was reset
    undefined       \* see above

sched == <<todo, jobCount, running>>
job   == <<page, core, prio, done, failed, fence>>
mm    == <<refs, imports, held, owns>>
next  == <<npc, njob>>
irqt  == <<ipc, ijob>>
hard  == <<hw, irq, hung, executed>>
hist  == <<dropped, seized, lost, undefined>>
vars  == <<sched, job, mm, next, irqt, hard, hist, power, inFence, spc, result, victim>>

Set(f, x, v) == [f EXCEPT ![x] = v]

TypeOK ==
    /\ todo \in [Cores -> Seq(Jobs)]
    /\ jobCount \in [Cores -> Nat] /\ power \in [Cores -> Int]
    /\ running \in [Cores -> Jobs \cup {None}]
    /\ page \in [Jobs -> {"none", "live", "freed"}]
    /\ core \in [Jobs -> Cores \cup {None}]
    /\ prio \in [Jobs -> Nat]
    /\ done \in [Jobs -> BOOLEAN] /\ failed \in [Jobs -> BOOLEAN]
    /\ held \in [Jobs -> 0..2] /\ owns \in [Jobs -> 0..2]
    /\ fence \in [Jobs -> {"none", "pending", "signaled"}]
    /\ inFence \in [Jobs -> BOOLEAN]
    /\ refs \in [Handles -> Int] /\ imports \in [Handles -> 0..MaxImports]
    /\ spc \in [Jobs -> {"new", "check_fence", "add_callback", "callback", "assign",
                         "clean", "reset", "put", "insert", "next", "ret", "wait",
                         "timeout", "abort", "end"}]
    /\ result \in [Jobs -> {"none", "ok", "error"}]
    /\ victim \in [Jobs -> Jobs \cup {None}]
    /\ npc \in [Threads -> {"off", "loop", "run", "ret", "failret", "fail", "put"}]
    /\ njob \in [Threads -> Jobs \cup {None}]
    /\ ipc \in [Cores -> {"idle", "enter", "took", "flagged", "next", "power"}]
    /\ ijob \in [Cores -> Jobs \cup {None}]
    /\ hw \in [Cores -> Jobs \cup {None}]
    /\ irq \in [Cores -> BOOLEAN] /\ hung \in [Cores -> BOOLEAN]
    /\ executed \subseteq Jobs /\ dropped \subseteq Jobs
    /\ lost \subseteq Jobs
    /\ seized \in [Cores -> SUBSET {"caller", "timeout"}] /\ undefined \in BOOLEAN

Init ==
    /\ todo = [c \in Cores |-> <<>>] /\ jobCount = [c \in Cores |-> 0]
    /\ running = [c \in Cores |-> None] /\ power = [c \in Cores |-> 0]
    /\ page = [j \in Jobs |-> "none"] /\ core = [j \in Jobs |-> None]
    /\ prio = Priority
    /\ done = [j \in Jobs |-> FALSE] /\ failed = [j \in Jobs |-> FALSE]
    /\ held = [j \in Jobs |-> 0] /\ owns = [j \in Jobs |-> 0]
    /\ fence = [j \in Jobs |-> "none"]
    /\ inFence = [j \in Jobs |-> FALSE]
    /\ refs = [h \in Handles |-> 0] /\ imports = [h \in Handles |-> 0]
    /\ spc = [j \in Jobs |-> "new"] /\ result = [j \in Jobs |-> "none"]
    /\ victim = [j \in Jobs |-> None]
    /\ npc = [t \in Threads |-> "off"] /\ njob = [t \in Threads |-> None]
    /\ ipc = [c \in Cores |-> "idle"] /\ ijob = [c \in Cores |-> None]
    /\ hw = [c \in Cores |-> None]
    /\ irq = [c \in Cores |-> FALSE] /\ hung = [c \in Cores |-> FALSE]
    /\ executed = {} /\ dropped = {}
    /\ seized = [c \in Cores |-> {}] /\ lost = {} /\ undefined = FALSE

-----------------------------------------------------------------------------
(* Freeing and using a job *)

\* One of the jobs is used and has been freed.
Stale(used) == \E j \in used : page[j] # "live"

\* rga_job_free
Free(j) == page' = Set(page, j, "freed")

-----------------------------------------------------------------------------
(* rga_mm: handles *)

Import(h) ==
    /\ imports[h] < MaxImports
    /\ imports' = Set(imports, h, imports[h] + 1)
    /\ refs' = Set(refs, h, refs[h] + 1)
    /\ UNCHANGED <<sched, job, held, owns, next, irqt, hard, hist, power, inFence, spc, result,
                   victim>>

\* rga_mm_release_buffer; the handle is not found when its buffer is gone.
Release(h) ==
    /\ imports[h] > 0
    /\ imports' = Set(imports, h, imports[h] - 1)
    /\ refs' = IF refs[h] > 0 THEN Set(refs, h, refs[h] - 1) ELSE refs
    /\ UNCHANGED <<sched, job, held, owns, next, irqt, hard, hist, power, inFence, spc, result,
                   victim>>

\* The reference counts with n more on the handle of a channel.
Count(r, h, n) == Set(r, h, r[h] + n)

\* rga_mm_get_handle_info: the source and then the destination.  Channels
\* that were found keep their reference when a later one is not.
Channels(j) ==
    CASE refs[Src[j]] = 0 -> 0
      [] refs[Src[j]] > 0 /\ refs[Dst[j]] = 0 -> 1
      [] OTHER -> 2

\* Mutant: lookups without kref_get.
GetHandles_NoRef(j, n) ==
    held' = Set(held, j, n) /\ owns' = Set(owns, j, n) /\ UNCHANGED <<refs, imports>>

GetHandles(j, n) ==
    /\ held' = Set(held, j, n) /\ owns' = Set(owns, j, n)
    /\ refs' = LET r == IF n > 0 THEN Count(refs, Src[j], 1) ELSE refs
               IN  IF n > 1 THEN Count(r, Dst[j], 1) ELSE r
    /\ UNCHANGED imports

\* Mutant: the channels are put when all of them were found.
PutHandles_AllOrNone(j) ==
    /\ owns' = Set(owns, j, 0)
    /\ refs' = IF held[j] > 1 THEN Count(Count(refs, Src[j], -1), Dst[j], -1) ELSE refs
    /\ UNCHANGED <<imports, held>>

\* rga_mm_put_handle_info leaves the pointers to the buffers in the job: a
\* second put gives back what is not the job's any more.
PutHandles(j) ==
    /\ owns' = Set(owns, j, 0)
    /\ refs' = LET r == IF held[j] > 0 THEN Count(refs, Src[j], -1) ELSE refs
               IN  IF held[j] > 1 THEN Count(r, Dst[j], -1) ELSE r
    /\ UNCHANGED <<imports, held>>

\* A buffer without a reference has been put.
Overdrawn == \E h \in Handles : refs'[h] < 0

Signal(j) == fence' = IF fence[j] = "pending" THEN Set(fence, j, "signaled") ELSE fence

-----------------------------------------------------------------------------
(* rga_job_commit up to rga_job_schedule *)

Quiet == UNCHANGED <<sched, mm, next, irqt, hard, seized, lost, power, victim>>

\* The job is given up by its caller before anybody else knew of it.
GiveUp(j, r) ==
    /\ page' = Set(page, j, "freed") /\ spc' = Set(spc, j, "end")
    /\ result' = Set(result, j, r)
    /\ UNCHANGED <<core, prio, done, failed, undefined>>

Commit(j) ==
    /\ spc[j] = "new"
    /\ page' = Set(page, j, "live")
    /\ fence' = IF j \in Async THEN Set(fence, j, "pending") ELSE fence
    /\ spc' = Set(spc, j, IF j \in Fenced THEN "check_fence" ELSE "assign")
    /\ UNCHANGED <<core, prio, done, failed, dropped, undefined, inFence, result>> /\ Quiet

\* rga_dma_buf_get or rga_out_fence_alloc fails.
Refuse(j) ==
    /\ spc[j] = "new" /\ j \in Failing
    /\ GiveUp(j, "error")
    /\ UNCHANGED <<fence, dropped, inFence>> /\ Quiet

\* The fence of in_fence_fd is valid: schedule the job now or wait.
CheckFence(j) ==
    /\ spc[j] = "check_fence"
    /\ spc' = Set(spc, j, IF inFence[j] THEN "assign" ELSE "add_callback")
    /\ UNCHANGED <<job, dropped, undefined, inFence, result>> /\ Quiet

\* It is not, then the job is freed and ret still 0, or has an error status.
BadFence(j) ==
    /\ spc[j] = "check_fence" /\ j \in Failing
    /\ \/ GiveUp(j, "ok") /\ dropped' = dropped \cup {j}
       \/ GiveUp(j, "error") /\ UNCHANGED dropped
    /\ UNCHANGED <<fence, inFence>> /\ Quiet

\* rga_add_dma_fence_callback; -ENOENT when it was signaled in between.
AddCallback(j) ==
    /\ spc[j] = "add_callback"
    /\ IF inFence[j]
       THEN GiveUp(j, "error")
       ELSE /\ spc' = Set(spc, j, "callback") /\ result' = Set(result, j, "ok")
            /\ UNCHANGED <<page, core, prio, done, failed, undefined>>
    /\ UNCHANGED <<fence, dropped, inFence>> /\ Quiet

\* Whoever signals the input fence; rga_input_fence_signaled is called when
\* it has been added.
InFenceSignal(j) ==
    /\ j \in Fenced /\ ~inFence[j]
    /\ inFence' = Set(inFence, j, TRUE)
    /\ spc' = IF spc[j] = "callback" THEN Set(spc, j, "assign") ELSE spc
    /\ UNCHANGED <<job, dropped, undefined, result>> /\ Quiet

-----------------------------------------------------------------------------
(* rga_job_assign and rga_job_schedule *)

\* The first idle core the job may use, else one with a short todo_list: the
\* loop takes zero for "no minimum yet", so only the cores behind the last one
\* with an empty list are compared, and that one is taken if none is behind it.
Choice(order, usable, run, count) ==
    LET may  == {i \in DOMAIN order : order[i] \in usable}
        idle == {i \in may : run[order[i]] = None}
        rest == {i \in may : \A k \in may : count[order[k]] = 0 => k < i}
        best == {i \in rest : \A k \in rest : count[order[i]] <= count[order[k]]}
    IN  order[CASE idle # {}               -> Min(idle)
                [] idle = {} /\ rest # {}  -> Min(best)
                [] OTHER                   -> Max(may)]

\* The cores are locked one after the other while they are compared.
Assign(j) ==
    /\ spc[j] = "assign"
    /\ \E usable \in (SUBSET Cores) \ {{}} : core' = Set(core, j, Choice(CoreOrder, usable, running, jobCount))
    /\ spc' = Set(spc, j, "clean")
    /\ UNCHANGED <<page, prio, done, failed, fence, dropped, undefined, inFence, result>>
    /\ Quiet

\* No core supports the job: rga_invalid_job_abort with ret still 0; from
\* the callback of the input fence only a message.
Reject(j) ==
    /\ spc[j] = "assign" /\ j \in Failing
    /\ dropped' = dropped \cup {j}
    /\ IF result[j] = "ok"
       THEN /\ spc' = Set(spc, j, "end")
            /\ UNCHANGED <<page, core, prio, done, failed, undefined, result>>
       ELSE GiveUp(j, "ok")
    /\ UNCHANGED <<fence, inFence>> /\ Quiet

\* Where thread t runs rga_job_next.
At(t) == IF t \in Cores THEN t ELSE core[t]

\* The running job of core c is being started, worked on, or about to be
\* ended: c is not stuck.
Progress(c) ==
    \/ \E t \in Threads : npc[t] \in {"run", "failret", "fail"} /\ At(t) = c
    \/ hw[c] # None /\ ~hung[c]
    \/ irq[c] \/ ipc[c] = "enter"

Seize(c, who) == Set(seized, c, seized[c] \cup {who})

\* soft_reset
Reset(c) ==
    /\ hw' = Set(hw, c, None) /\ hung' = Set(hung, c, FALSE)
    /\ lost' = lost \cup ({hw[c]} \ {None})
    /\ UNCHANGED <<irq, executed>>

\* rga_job_timeout_clean under irq_lock.  The timestamp of a job is that of its
\* allocation until set_reg, where a hrtimer refreshes it once a second: an
\* asynchronous running_job may be 500 ms old before it was started, and a
\* stuck one younger.
Clean(j) ==
    LET c == core[j]
        v == running[c]
    IN  /\ spc[j] = "clean"
        /\ \/ /\ v \in Async
              /\ victim' = Set(victim, j, v)
              /\ running' = Set(running, c, None)
              /\ seized' = IF Progress(c) THEN Seize(c, "timeout") ELSE seized
              /\ spc' = Set(spc, j, "reset")
           \/ spc' = Set(spc, j, "insert") /\ UNCHANGED <<victim, running, seized>>
        /\ undefined' = (undefined \/ Stale({v} \ {None}))
        /\ UNCHANGED <<todo, jobCount, job, mm, next, irqt, hard, dropped, lost, power,
                       inFence, result>>

CleanReset(j) ==
    /\ spc[j] = "reset"
    /\ Reset(core[j])
    /\ spc' = Set(spc, j, "put")
    /\ UNCHANGED <<sched, job, mm, next, irqt, dropped, seized, undefined, power, inFence,
                   result, victim>>

CleanPut(j) ==
    LET v == victim[j]
    IN  /\ spc[j] = "put"
        /\ PutHandles(v) /\ Signal(v) /\ Free(v)
        /\ undefined' = (undefined \/ Stale({v}) \/ Overdrawn)
        /\ power' = Set(power, core[j], power[core[j]] - 1)
        /\ victim' = Set(victim, j, None)
        /\ spc' = Set(spc, j, "insert")
        /\ UNCHANGED <<sched, core, prio, done, failed, next, irqt, hard, dropped, seized, lost,
                       inFence, result>>

\* Mutant: job_count is only decremented.
Counted_Not(n) == n

Counted(n) == n + 1

\* A job with a priority goes behind the first job with a lower one (never
\* before the head); it and everything behind ages by one.  Without one only
\* the last element is written.
Insert(j) ==
    LET c    == core[j]
        q    == todo[c]
        low  == {i \in DOMAIN q : 0 < prio[j] /\ prio[q[i]] < prio[j]}
        pos  == IF low = {} THEN Len(q) + 1 ELSE Min(low)
        aged == {q[i] : i \in {k \in DOMAIN q : k >= pos}} \cup {i \in {j} : low # {}}
        seen == IF prio[j] = 0 THEN {Len(q)} \cap DOMAIN q ELSE DOMAIN q
    IN  /\ spc[j] = "insert"
        /\ todo' = Set(todo, c, IF low = {} THEN Append(q, j) ELSE InsertAt(q, pos + 1, j))
        /\ prio' = [i \in Jobs |-> IF i \in aged THEN prio[i] + 1 ELSE prio[i]]
        /\ jobCount' = Set(jobCount, c, Counted(jobCount[c]))
        /\ spc' = Set(spc, j, "next") /\ npc' = Set(npc, j, "loop")
        /\ undefined' = (undefined \/ Stale({q[i] : i \in seen}))
        /\ UNCHANGED <<running, page, core, done, failed, fence, mm, njob, irqt, hard, dropped,
                       seized, lost, power, inFence, result, victim>>

-----------------------------------------------------------------------------
(* rga_job_next and rga_job_run, by thread t *)

\* What follows rga_job_next.
Continue(t) ==
    IF t \in Cores
    THEN ipc' = Set(ipc, t, "power") /\ UNCHANGED <<spc, result, ijob>>
    ELSE /\ UNCHANGED irqt
         /\ IF t \in Sync
            THEN spc' = Set(spc, t, "ret") /\ UNCHANGED result
            ELSE spc' = Set(spc, t, "end") /\ result' = Set(result, t, "ok")

NextNone(t) ==
    /\ npc[t] = "loop" /\ (running[At(t)] # None \/ todo[At(t)] = <<>>)
    /\ npc' = Set(npc, t, "off")
    /\ Continue(t)
    /\ UNCHANGED <<sched, job, mm, njob, hard, hist, power, inFence, victim>>

\* Mutant: the job is not unlinked.
Unlink_Not(q) == q

Unlink(q) == Tail(q)

\* Mutant: running_job is not looked at.
CoreIsFree_Always(c) == TRUE

CoreIsFree(c) == running[c] = None

\* list_del_init writes the head of the list and the job behind it.
NextTake(t) ==
    LET c == At(t)
    IN  /\ npc[t] = "loop" /\ CoreIsFree(c) /\ todo[c] # <<>>
        /\ todo' = Set(todo, c, Unlink(todo[c]))
        /\ jobCount' = Set(jobCount, c, jobCount[c] - 1)
        /\ running' = Set(running, c, Head(todo[c]))
        /\ njob' = Set(njob, t, Head(todo[c])) /\ npc' = Set(npc, t, "run")
        /\ undefined' = (undefined \/ Stale({todo[c][i] : i \in DOMAIN todo[c] \cap {1, 2}}))
        /\ UNCHANGED <<job, mm, irqt, hard, dropped, seized, lost, power, inFence, spc, result,
                       victim>>

\* set_reg starts the core.
RunOk(t) ==
    LET c == At(t)
        j == njob[t]
    IN  /\ npc[t] = "run" /\ Channels(j) = 2
        /\ power' = Set(power, c, power[c] + 1)
        /\ GetHandles(j, 2)
        /\ hw' = Set(hw, c, j)
        /\ undefined' = (undefined \/ Stale({j}) \/ (hw[c] # None /\ ~hung[c]))
        /\ npc' = Set(npc, t, "ret")
        /\ UNCHANGED <<sched, job, njob, irqt, irq, hung, executed, dropped, seized, lost,
                       inFence, spc, result, victim>>

\* Mutant: the failed label without rga_power_disable.
PowerAfterFail_On(c) == power[c] + 1

PowerAfterFail(c) == power[c]

\* Power, a handle, init_reg or set_reg fails.
RunFail(t) ==
    LET j == njob[t]
    IN  /\ npc[t] = "run"
        /\ \E n \in {Channels(j)} \cup (IF j \in Failing THEN {0} ELSE {}) :
               (n < 2 \/ j \in Failing) /\ GetHandles(j, n)
        /\ power' = Set(power, At(t), PowerAfterFail(At(t)))
        /\ npc' = Set(npc, t, "failret")
        /\ undefined' = (undefined \/ Stale({j}))
        /\ UNCHANGED <<sched, job, njob, irqt, hard, dropped, seized, lost, inFence, spc, result,
                       victim>>

\* job->ret = 0, the core may have finished the job by now.
Return(t) ==
    /\ npc[t] = "ret"
    /\ failed' = Set(failed, njob[t], FALSE)
    /\ npc' = Set(npc, t, "off") /\ njob' = Set(njob, t, None)
    /\ undefined' = (undefined \/ Stale({njob[t]}))
    /\ Continue(t)
    /\ UNCHANGED <<sched, page, core, prio, done, fence, mm, hard, dropped, seized, lost, power,
                   inFence, victim>>

\* Mutant: job->ret keeps its zero.
Failure_Forgotten == FALSE

Failure == TRUE

FailReturn(t) ==
    /\ npc[t] = "failret"
    /\ failed' = Set(failed, njob[t], Failure)
    /\ npc' = Set(npc, t, "fail")
    /\ undefined' = (undefined \/ Stale({njob[t]}))
    /\ UNCHANGED <<sched, page, core, prio, done, fence, mm, njob, irqt, hard, dropped, seized,
                   lost, power, inFence, spc, result, victim>>

\* Whatever running_job is by now.
FailClear(t) ==
    /\ npc[t] = "fail"
    /\ running' = Set(running, At(t), None)
    /\ npc' = Set(npc, t, "put")
    /\ UNCHANGED <<todo, jobCount, job, mm, njob, irqt, hard, hist, power, inFence, spc, result,
                   victim>>

FailPut(t) ==
    LET j == njob[t]
    IN  /\ npc[t] = "put"
        /\ PutHandles(j) /\ Signal(j)
        /\ IF j \in Async
           THEN Free(j) /\ UNCHANGED done
           ELSE done' = Set(done, j, TRUE) /\ UNCHANGED page
        /\ undefined' = (undefined \/ Stale({j}) \/ Overdrawn)
        /\ njob' = Set(njob, t, None) /\ npc' = Set(npc, t, "loop")
        /\ UNCHANGED <<sched, core, prio, failed, irqt, hard, dropped, seized, lost, power,
                       inFence, spc, result, victim>>

-----------------------------------------------------------------------------
(* The end of rga_job_commit for a synchronous job: rga_job_wait *)

Waiting(j, from, to) ==
    /\ spc[j] = from /\ spc' = Set(spc, j, to)
    /\ UNCHANGED <<sched, job, mm, next, irqt, dropped, seized, undefined, power, inFence,
                   result, victim>>

ReadRet(j) ==
    /\ Waiting(j, "ret", IF failed[j] THEN "abort" ELSE "wait") /\ UNCHANGED <<hard, lost>>

\* Mutant: the wait has no timeout.
Expires_Never(j) == FALSE

\* HZ is counted from the commit, whatever the core does meanwhile.
Expires(j) == j \in Overdue /\ ~done[j]

WaitTimeout(j) ==
    /\ Waiting(j, "wait", "timeout") /\ UNCHANGED <<hard, lost>>
    /\ Expires(j)

TimeoutReset(j) == Waiting(j, "timeout", "abort") /\ Reset(core[j])

WaitSignal(j) ==
    /\ j \in Interrupted /\ ~done[j]
    /\ Waiting(j, "wait", "abort") /\ UNCHANGED <<hard, lost>>

\* What wait returned replaces job->ret.
WaitDone(j) ==
    /\ spc[j] = "wait" /\ done[j]
    /\ Free(j)
    /\ spc' = Set(spc, j, "end") /\ result' = Set(result, j, "ok")
    /\ UNCHANGED <<sched, core, prio, done, failed, fence, mm, next, irqt, hard, hist, power,
                   inFence, victim>>

\* rga_running_job_abort: neither the power nor the buffers of a job that
\* was started are put, nobody starts the next one, and a job that is still
\* in a todo_list is freed there.
Abort(j) ==
    LET c == core[j]
    IN  /\ spc[j] = "abort"
        /\ running' = IF running[c] = j THEN Set(running, c, None) ELSE running
        /\ seized' = IF running[c] = j THEN Seize(c, "caller") ELSE seized
        /\ Free(j)
        /\ spc' = Set(spc, j, "end") /\ result' = Set(result, j, "error")
        /\ UNCHANGED <<todo, jobCount, core, prio, done, failed, fence, mm, next, irqt, hard,
                       dropped, lost, undefined, power, inFence, victim>>

-----------------------------------------------------------------------------
(* The core and its irq thread: rga_job_done *)

HwDone(c) ==
    /\ hw[c] # None /\ ~hung[c]
    /\ executed' = executed \cup {hw[c]}
    /\ hw' = Set(hw, c, None) /\ irq' = Set(irq, c, TRUE)
    /\ UNCHANGED <<sched, job, mm, next, irqt, hung, hist, power, inFence, spc, result, victim>>

Hang(c) ==
    /\ c \in MayHang /\ hw[c] # None /\ ~hung[c] /\ lost = {}
    /\ hung' = Set(hung, c, TRUE)
    /\ UNCHANGED <<sched, job, mm, next, irqt, hw, irq, executed, hist, power, inFence, spc,
                   result, victim>>

\* The irq thread looks at running_job without irq_lock.
IrqThread(c) ==
    /\ irq[c] /\ ipc[c] = "idle"
    /\ irq' = Set(irq, c, FALSE)
    /\ ipc' = IF running[c] = None THEN ipc ELSE Set(ipc, c, "enter")
    /\ UNCHANGED <<sched, job, mm, next, ijob, hw, hung, executed, hist, power, inFence, spc,
                   result, victim>>

DoneTake(c) ==
    /\ ipc[c] = "enter"
    /\ running' = Set(running, c, None)
    /\ ijob' = Set(ijob, c, running[c]) /\ ipc' = Set(ipc, c, "took")
    /\ undefined' = (undefined \/ running[c] = None \/ Stale({running[c]} \ {None}))
    /\ UNCHANGED <<todo, jobCount, job, mm, next, hard, dropped, seized, lost, power, inFence,
                   spc, result, victim>>

\* RGA_JOB_DONE: a committer about to wait goes on at once.
DoneFlag(c) ==
    /\ ipc[c] = "took"
    /\ done' = Set(done, ijob[c], TRUE) /\ failed' = Set(failed, ijob[c], FALSE)
    /\ ipc' = Set(ipc, c, "flagged")
    /\ undefined' = (undefined \/ Stale({ijob[c]}))
    /\ UNCHANGED <<sched, page, core, prio, fence, mm, next, ijob, hard, dropped, seized, lost,
                   power, inFence, spc, result, victim>>

\* Mutant: rga_job_done does not call rga_job_next.
DoneNext_Missing(c) == ipc' = Set(ipc, c, "power") /\ UNCHANGED npc

DoneNext(c) == ipc' = Set(ipc, c, "next") /\ npc' = Set(npc, c, "loop")

DoneFinish(c) ==
    LET j == ijob[c]
    IN  /\ ipc[c] = "flagged"
        /\ PutHandles(j) /\ Signal(j)
        /\ IF j \in Async THEN Free(j) ELSE UNCHANGED page
        /\ undefined' = (undefined \/ Stale({j}) \/ Overdrawn)
        /\ ijob' = Set(ijob, c, None) /\ DoneNext(c)
        /\ UNCHANGED <<sched, core, prio, done, failed, njob, hard, dropped, seized, lost, power,
                       inFence, spc, result, victim>>

DonePower(c) ==
    /\ ipc[c] = "power"
    /\ ipc' = Set(ipc, c, "idle")
    /\ power' = Set(power, c, power[c] - 1)
    /\ UNCHANGED <<sched, job, mm, next, ijob, hard, hist, inFence, spc, result, victim>>

-----------------------------------------------------------------------------
Schedule(j) ==
    Assign(j) \/ Reject(j) \/ Clean(j) \/ CleanReset(j) \/ CleanPut(j) \/ Insert(j)

RunNext(t) ==
    \/ NextNone(t) \/ NextTake(t) \/ RunOk(t) \/ RunFail(t) \/ Return(t) \/ FailReturn(t)
    \/ FailClear(t) \/ FailPut(t)

Wait(j) == ReadRet(j) \/ WaitTimeout(j) \/ TimeoutReset(j) \/ WaitDone(j) \/ Abort(j)

Committer(j) == CheckFence(j) \/ BadFence(j) \/ AddCallback(j) \/ Schedule(j) \/ RunNext(j) \/ Wait(j)

Irq(c) ==
    IrqThread(c) \/ DoneTake(c) \/ DoneFlag(c) \/ DoneFinish(c) \/ RunNext(c) \/ DonePower(c)

Next ==
    /\ ~undefined
    /\ \/ \E h \in Handles : Import(h) \/ Release(h)
       \/ \E j \in Jobs :
              Commit(j) \/ Refuse(j) \/ InFenceSignal(j) \/ WaitSignal(j) \/ Committer(j)
       \/ \E c \in Cores : HwDone(c) \/ Hang(c) \/ Irq(c)

Spec == Init /\ [][Next]_vars

\* The scheduler of the kernel runs every thread, a core that does not hang
\* finishes its job, and every fence is signaled in the end.
Fairness ==
    /\ \A j \in Jobs : WF_vars(~undefined /\ Committer(j))
    /\ \A j \in Jobs : WF_vars(~undefined /\ InFenceSignal(j))
    /\ \A c \in Cores : WF_vars(~undefined /\ Irq(c)) /\ WF_vars(~undefined /\ HwDone(c))

FairSpec == Spec /\ Fairness

-----------------------------------------------------------------------------
(* Properties *)

InQueue(j, c) == \E i \in DOMAIN todo[c] : todo[c][i] = j
Places(j) ==
    {<<"todo", c>> : c \in {d \in Cores : InQueue(j, d)}}
    \cup {<<"running", c>> : c \in {d \in Cores : running[d] = j}}

\* A job is in one place once, and on the core it was assigned to, and job_count
\* is the length of the list.  A core's running_job has not been freed, and a
\* job in a list only if its caller gave it up there (rga_running_job_abort
\* does not unlink it, although it was called for a job in a list).
QueuesHoldLiveJobs ==
    ~undefined =>
        /\ \A c \in Cores : jobCount[c] = Len(todo[c]) /\ IsInjective(todo[c])
        /\ \A j \in Jobs : /\ Cardinality(Places(j)) <= 1
                           /\ \A p \in Places(j) : p[2] = core[j]
        /\ \A c \in Cores : running[c] # None => page[running[c]] = "live"
        /\ \A c \in Cores, j \in Jobs :
               InQueue(j, c) => page[j] = "live" \/ (j \in Sync /\ result[j] = "error")

\* No job was taken from a core that was starting it, working on it or about to
\* end it: neither by a caller whose wait ended (rga_running_job_abort) nor by
\* rga_job_timeout_clean, which looks at the age of the job only.
InPeace(c) == seized[c] = {}

\* A fence is signaled without an error, or a waiting caller told that its
\* job is done, only after the core has finished it: unless it was rejected
\* by rga_job_run, or a soft reset hit a core at work.  When a job was taken from
\* a core under way, its late interrupt completes the next one (rga_job_done).
DoneIsExecuted ==
    ~undefined => \A j \in Jobs :
        (fence[j] = "signaled" \/ done[j]) /\ core[j] # None /\ InPeace(core[j])
            => j \in executed \/ failed[j] \/ lost # {}

\* The buffers of a job are mapped as long as the core works on it, whatever
\* its clients release meanwhile and whatever other jobs put: until a job was
\* taken from a core under way, which puts its buffers early or twice, or a
\* core was reset (rga_mm_get_handle_info, rga_mm_release_buffer).
BuffersAreMapped ==
    ~undefined /\ lost = {} /\ (\A c \in Cores : InPeace(c)) =>
        \A c \in Cores : hw[c] # None =>
            refs[Src[hw[c]]] > 0 /\ refs[Dst[hw[c]]] > 0

\* A buffer has a reference for every import and for every channel of a job
\* that was found, also when a later channel of that job was not: none is
\* given back twice, although rga_mm_put_handle_info leaves the pointers in the
\* job.  None is lost either: a job is freed without references, or somebody
\* who still has a pointer to it is about to put them (and uses freed memory).
\* Both end with the first job that is taken from a core under way.
HandlesAreCounted ==
    ~undefined /\ (\A c \in Cores : InPeace(c)) =>
        /\ \A h \in Handles :
               refs[h] = imports[h] + Cardinality({j \in Jobs : owns[j] > 0 /\ Src[j] = h})
                                    + Cardinality({j \in Jobs : owns[j] > 1 /\ Dst[j] = h})
        /\ \A j \in Jobs : page[j] = "freed" /\ owns[j] > 0 =>
               \/ \E c \in Cores : ijob[c] = j
               \/ \E t \in Threads : njob[t] = j
               \/ \E i \in Jobs : victim[i] = j

\* A core that works is the core of running_job, so nobody writes its
\* registers, also after a soft reset: until a job was taken from it under way.
WorkIsTracked ==
    ~undefined => \A c \in Cores :
        hw[c] # None /\ ~hung[c] /\ InPeace(c) => running[c] = hw[c]

Starting(j) == \E t \in Threads : njob[t] = j /\ npc[t] \in {"run", "failret", "fail"}

\* rga_power_enable and rga_power_disable: a core has one runtime reference
\* for the started job, one for a job its irq thread or rga_job_timeout_clean
\* is about to end: until a job was taken from it under way, which loses a
\* reference (rga_running_job_abort) or gives back one before it was taken.
PowerBalanced ==
    ~undefined => \A c \in {d \in Cores : InPeace(d)} :
        power[c] =
              Cardinality({j \in Jobs : running[c] = j /\ ~Starting(j)})
            + Cardinality({d \in {c} : ipc[d] \in {"took", "flagged", "next", "power"}})
            + Cardinality({j \in Jobs : victim[j] # None /\ core[j] = c})

\* No freed job is used, by a list, a core's running_job or a thread: "sync
\* mode: wait utill job finish".
NeverUndefined == ~undefined

\* Every synchronous ioctl returns (rga_job_wait is bounded by HZ).
SyncReturns ==
    \A j \in Sync : spc[j] # "new" ~> spc[j] = "end" \/ undefined

\* The out fence of an asynchronous job is signaled, if the job was not
\* given up while it was committed, no core hung or was reset at work and no
\* caller aborted a started job: a todo_list is never left behind by the last
\* thread that saw running_job set, also when rga_job_timeout_clean took a job
\* that was under way.
FenceIsSignaled ==
    \A j \in Async : fence[j] = "pending" ~>
        \/ fence[j] = "signaled" \/ undefined
        \/ j \in dropped \/ result[j] = "error"
        \/ \E c \in Cores : hung[c] \/ "caller" \in seized[c]
        \/ lost # {}

=============================================================================
