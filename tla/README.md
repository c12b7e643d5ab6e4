# Verification project for the Rockchip SoC adaptation

TLA+ models, TLC runs and TLAPS proofs for the parts of this repository that
have a logic of their own. The repository is a board support package: kernel
drivers, user space HALs and LiteOS adapters for RK3568, RK3588, RK3399, RK3566
and RK2206. Most of it is derived from the upstream kernel, vendored (Mali,
wireless) or register programming. What is left, and can go wrong in ways tests
hardly reach, is the following.

## 1. Inventory

The drivers exist twice, under `src/common/vendor/drivers/` and under
`src/rk3588/kernel/drivers/`. `mpp_common.c`, `mpp_vdpu2.c` and
`sdmmc_vendor_storage.c` have the same logic in both, and the models refer to the
lines of RK3588; `mpp_iommu.c` is modelled as RK3588 has it. `rga3` is only there,
`mtd_vendor_storage.c` only in `common/vendor`. Paths in the table are below
the first directory unless they start with another one.

| Component | State it keeps | Operations | Interacts by | What is hard | Correct when |
|---|---|---|---|---|---|
| **MPP task service** `src/rk3588/.../mpp/mpp_common.c` | sessions and their pending lists, one task queue (pending, running, detach lists), task flags and reference counts, per device current task, irq status, reset request, power count | open, INIT_CLIENT_TYPE, submit, poll, release; worker; hard irq, irq thread; delayed timeout work; RESET_SESSION; shutdown | two list locks, atomic flags, kthread work, irq thread wake-up, callbacks of the codec | six kinds of threads on the same task; irq against timeout; coalescing triggers; freeing of tasks and sessions | one task runs; each is completed once; nothing is used after it is freed; counts are exact; every task ends; every session is freed |
| MPP codecs `mpp_vdpu2.c`, `mpp_rkvdec.c`, ... | registers, clocks | alloc_task, run, irq, isr, finish, reset | called by the service | status read twice without a lock | the service's properties |
| **MPP dma session** `src/rk3588/.../mpp/mpp_iommu.c` | buffers of a session in two lists, with reference counts | import for a task or for user space, release, release by fd, eviction above `max_buffers`, RESET_SESSION, close | called by ioctls and by tasks; `list_mutex` is dropped between finding a buffer and using it | a buffer in use is evicted, released by its fd or reused for another dmabuf | references are exact; a task's buffers stay mapped; nothing stays mapped after the close |
| MPP reset group `mpp_service.c`, `mpp_common.c` | reader/writer lock shared by queues, `rw_sem_on` | reset lock and unlock around runs and resets | by all queues of a group | a device that probes during a reset | no device runs while its group is reset |
| MPP link decoder `mpp_rkvdec2_link.c` | a table of tasks in hardware | append, irq, recovery by soft reset | its own worker | lost tasks when the table is reset | as the task service |
| **Vendor storage, NAND** `rockchip/mtd_vendor_storage.c` | pages of a flash partition; version, position in a ring of blocks | init, write | ioctls and kernel callers | power loss in each program and erase; failures; bad blocks | a write that returned is found; an interrupted one as a whole or not at all |
| **Vendor storage, SD/MMC** `src/rk3588/.../sdmmc_vendor_storage.c` | four partitions, `next_index` | init thread, write | same | power loss between sectors, failed transfers | same |
| **Vendor storage, item table** (both files) | items in a region, free space | read, write (in place, growing, new) | the two above store it | gaps after shrinking, moving items down | a map from ids to contents |
| Vendor storage front `rockchip/rk_vendor_storage.c` | two function pointers | read, write, register | kernel callers bypass the mutex of the ioctls | two writers at once | -- |
| dma-buf heap helpers `dma-buf/heaps/` | per order page pools, deferred free list | allocate, free, shrink, thread | shrinker | counters against lists | no page lost or in two lists |
| **RGA scheduler** `src/rk3588/.../rga3` | per core a list, the running job and power; jobs with fences; handles of buffers with reference counts | import, release, commit (synchronous, asynchronous, behind an input fence), next, irq thread, timeout clean, abort | `irq_lock` of each core, dma fences, the irq thread | the caller's timeout, signal and free against the irq thread; running the next job from three contexts | a job is in one place; a fence means that the core is done; buffers are mapped while it works; nobody waits forever |
| RGA2 `video/rockchip/rga2` | register lists | submit, irq, wait with timeout | sessions | timeout against irq | each job ends once |
| Display HDI `src/rk3568/hardware/display` | layers, vsync callbacks | commit, vsync thread | DRM | callback against unregister | no callback after unregister |
| OMX components `src/rk3568/hardware/omx_il` | component state, queues | state commands, flush, buffers | threads, semaphores | flush during buffer processing | the OMX state machine |
| RK2206 HALs `src/rk2206/adapter/hals` | file table, wifi events | open, read, close, scan | LiteOS SDK | table full | descriptors are unique |

The remaining components (adapters without state, vendored and upstream drivers)
are listed in `PROJECT.json` with the reason why they are not modelled. The
hazards of the code are there too, each at its line.

## 2. Modules

| Module | Models | Uses |
|---|---|---|
| `MppTaskQueue` | sessions, ioctl threads, queue, worker, irq, irq thread, timeout work | |
| `MCMppTaskQueue` | its instances | `MppTaskQueue` |
| `MppTaskQueue_proofs` | its theorems about exclusion | `MppTaskQueue` |
| `MppTaskCounts_proofs` | its theorems about counts and freeing | `MppTaskQueue_proofs` |
| `MppDmaSession`, `MCMppDmaSession` | the buffer pool of a session and the ioctls and tasks that use it | |
| `MppDmaSession_proofs` | its theorems | `MppDmaSession` |
| `RgaScheduler`, `MCRgaScheduler` | jobs, cores and buffer handles of the RGA blitters | |
| `RgaScheduler_proofs` | its theorems about types and lists | `RgaScheduler` |
| `RgaWork_proofs` | its theorems about the work of the cores, buffers and power | `RgaScheduler_proofs` |
| `AtomicStore` | abstract: what a vendor storage promises | |
| `MtdVendorStorage`, `MCMtdVendorStorage` | the NAND storage; implements `AtomicStore` | `AtomicStore` |
| `MtdVendorStorage_proofs` | its theorems, the refinement among them | `MtdVendorStorage` |
| `SdmmcVendorStorage`, `MCSdmmcVendorStorage` | the SD/MMC storage; implements `AtomicStore` | `AtomicStore` |
| `SdmmcVendorStorage_proofs` | its theorems, the refinement among them | `SdmmcVendorStorage` |
| `ItemMap` | abstract: a map with writes that are taken or refused | |
| `VendorItems`, `MCVendorItems` | the item table of both drivers; implements `ItemMap` | `ItemMap` |
| `VendorItems_proofs` | its theorems, the refinement among them | `VendorItems` |

`VendorItems` and the two storages compose by value: `mtd_vendor_write` changes
the item table and then stores the whole structure, so the storages see the
table as one number, the number of the write. `MppTaskQueue` and `MppDmaSession`
meet in two places: a task is submitted when all its imports succeeded, and its
buffers are put when its last reference is (`mpp_free_task`). In `MppDmaSession`
the life of a task between them is one state (`running`), from which it may be
freed at any time, which is more than `MppTaskQueue` allows.

Definitions whose name has an underscore (`Unhandled_Untested`) are mutants: a
plausible bug in the definition that follows them. Each property of a passing
run is violated when one of them replaces its original (`PROJECT.json`,
"mutants").

## 3. The task service

### State and actions

Every variable is a field or a local variable of the code; the comment at its
declaration names it. `upc`, `wpc`, `hpc`, `ipc` and `timer` say where the ioctl
thread of each session, the worker, the hard interrupt, the irq thread and the
timeout work of each task are. One action is a region that the code runs under
one lock, or one atomic access to shared state.

| Code | Actions |
|---|---|
| `mpp_dev_open`, `mpp_dev_release`, INIT_CLIENT_TYPE | `Open`, `Release`, `ReleaseNoClient`, `InitClientType` |
| `mpp_process_task_default` | `SendTask`, `PushPending`, `TriggerSubmitted`, `PutSubmitted` |
| `mpp_wait_result_default` | `Poll`, `WaitDone`, `WaitTimeout`, `PopSession` |
| `mpp_task_worker_default`, `mpp_task_run`, `mpp_session_deinit` | `WorkerStart`, ..., `WorkerDeinit` |
| the decoder | `HwDone` |
| `mpp_dev_irq`, `vdpu_irq` | `HardIrq`: `DevIrq` (reads `cur_task`), `DevIrqStatus`, `DevIrqHandle`, `DevIrqWake`, `DevIrqWild` |
| `mpp_dev_isr_sched`, `vdpu_isr`, `mpp_task_finish` | `Isr`, `IsrFinish`, `IsrPop`, `IsrTrigger` |
| `mpp_task_timeout_work`, `mpp_dev_reset` | `TimeoutStart`, `TimeoutReset`, `TimeoutPop` |

Assumptions, each a place where the model says less than the code could do:

- A file is used by one thread, and release is called when no ioctl of it is in
  progress. INIT_CLIENT_TYPE is sent once.
- The device has no `prepare` callback and sets no `task->mpp` (mpp_vdpu2.c), so
  the whole queue runs one task at a time.
- `mpp_task_run` arms the timeout and starts the device in one step: the worker is
  not delayed by 200 ms in between.
- A task that loses `test_and_set_bit` in `mpp_task_timeout_work` only logs, so
  the work ends in the step of the test.
- `mpp_session_clear` in `mpp_session_deinit` finds no task (`FreedSessionIsQuiet`
  is checked), `detach_count` is the length of `session_detach`.
- The hard handler is entered for a raised status only: the line is requested with
  `IRQF_SHARED` (mpp_vdpu2.c:707), a call for another device's interrupt reads no
  status and returns.
- A task is allocated once; the number of tasks is the bound of every run.
- `WaitsExpire = "any"` lets the two seconds of a poll end at any moment. It is
  more than the code can do for a task that was started at once (its timeout
  comes after 200 ms), and what it can do for one that waited in the queue.

### Runs

| Run | Bounds | Shows |
|---|---|---|
| `mpp_queue_safety` | 2 sessions, 2 devices, 2 tasks; timers and polls expire any time, set_grf fails | ten invariants and `StartsClean` |
| `mpp_queue_liveness` | the same, clients ready; no timer expires; fair threads and hardware | every submitted task is done |
| `mpp_queue_silent_hw` | 1 session, 1 device, 2 tasks; hardware that may stay silent | a started task is done |
| `mpp_queue_release` | 1, 1, 1 | finding: a released session may never be freed |

Two of each are enough for the interesting cases: a second device whose task
must wait, a second task to be mistaken for the first (late interrupt, stale
`cur_task`), two submitters whose triggers coalesce, a session that is released
while the other's task runs. The safety run has the sets as symmetry sets; the runs
with liveness properties have no symmetry.

Fairness is that of the kernel's scheduler: threads and work items that can run
do run (`ThreadFairness`, weak fairness for each thread). Clients need not submit,
poll or close. `HwFairness`, that the hardware answers, is assumed only where the
property is about lost wake-ups; `mpp_queue_silent_hw` does without. In the
run of the finding no timer and no poll expires (`WaitsExpire = "never"`): the
counterexample needs none.

`mpp_dev_irq` reads `cur_task`, then the status, then tests `TASK_STATE_HANDLE` in the
task, without a lock or a reference. The actions are apart, so the timeout work and the
poller can complete and free the task between any two of them, and the worker can
start the next one, whose status the handler then reads. The runs and the proofs
show that such a handler always finds HANDLE set by the timeout work and completes
nothing (`IrqServesItsTask`, `CompletedOnce`), and that its pointer dangles only if the
timeout work completed the task under it (`PointersAreLive`). If it does, the test writes
into freed memory: this is reachable (half a handler against reset, pop and a poller
that returns), `DevIrqWild` is that step and the model stops there (`Wild`).

The safety run starts from closed files, so it has the races of open, first
submission and release; the liveness runs start with clients that are ready,
which only leaves out that prefix.

### Findings

The first has the run `mpp_queue_release`. The others were met on the way and
have a property in the module (`AbortedIsRemoved`, `TaskBehindAbortedRuns`,
`AbortedIsNotServedByIrq`), which is violated with one to three tasks; they have no
run of their own.

1. `mpp_dev_release` says "wait for task all done". Nothing waits. If the worker
   takes the session off the detach list while its last task is done but not yet
   popped, `mpp_session_deinit` returns -1 and nobody tries again.
2. `mpp_task_timeout_work` does not trigger the queue. A pending task stays until
   the next submission, aborted or not.
3. A worker run that removes an aborted task ends there; the trigger of the task
   behind it is used up.
4. `mpp_dev_irq` says that the isr does not respond after an abort request. It
   looks at `TASK_STATE_HANDLE`, which an abort does not set.

### Proofs

`MppTaskQueue_proofs` proves, for any sets of sessions, devices and tasks and all
values of the switches, from `NoneAssumption` only (that NULL is none of them):

| Theorem | Statement |
|---|---|
| `TypeCorrect` | `Spec => []TypeOK` |
| `ExclusionInvariant` | `Spec => []ExclusionInv` |
| `OneTaskRunsAlways` | `Spec => []OneTaskRuns` |
| `CompletedOnceAlways` | `Spec => []CompletedOnce` |
| `IrqServesItsTaskAlways` | `Spec => []IrqServesItsTask` |

The argument. `TypeOK` alone is not inductive: lists and counters are indexed by
the local pointers of threads, so `PointersSet` says where these are set.
`OneTaskRuns` needs to know that the running list is empty whenever the worker
adds to it, hence where the worker is (`ListsOK`). `CompletedOnce` and
`IrqServesItsTask` need the life of a started task on its device: executing,
status raised, status read, handled by the irq, thread woken, finished by the thread. `StagesOK`
says that the stages exclude each other, which flags go with each, that
`curTask` is the task the hardware was started with until the thread has taken
it, and what its timer is doing; `TimersOK` is the same from the side of the
timeout work. `ExclusionInv` is their conjunction. The preservation proofs have a step per action and under it one
per conjunct the action can disturb; `ExclusionFrame` covers the actions that
touch no variable of the invariant.

`ListDelFacts`, `AppendFacts`, `HeadFacts` and `PutType` say what the list and
counter operations return.

`MppTaskCounts_proofs` proves the rest of what the safety run checks, under the same
assumption:

| Theorem | Statement |
|---|---|
| `CountInvariant` | `Spec => []CountInv` |
| `RefCountExactAlways` | `Spec => []RefCountExact` |
| `PointersAreLiveAlways` | `Spec => []PointersAreLive` |
| `QueuedIsInSessionAlways` | `Spec => []QueuedIsInSession` |
| `TaskCountsExactAlways` | `Spec => []TaskCountsExact` |
| `FreedSessionIsQuietAlways` | `Spec => []FreedSessionIsQuiet` |
| `PowerBalancedAlways` | `Spec => []PowerBalanced` |
| `StartsCleanAlways` | `Spec => StartsClean` |

The argument. `ExclusionInv` says which queue list a task is in. `RefsInv` adds the
sessions' lists: each task is in the list of its own session only, once, and an
ioctl in progress works on a task of its session's list. Then every reference
has one holder, which is `RefCountExact`, and every pointer without a reference
of its own is into a list that has one (`PointersAreLive`). `CountsInv` says that
finitely many tasks have been allocated, so the sets that `TaskCountsExact` counts
change by one element when the counter changes by one. `DetachInv` follows a session
from its release over the detach list to the worker: `mpp_session_deinit` frees it
when `task_count` is 0, which by the exact count means that no task of it is live.
`PowerInv` says when `reset_request` may be set and that a task the irq thread is about to
finish is not done yet, so that `mpp_power_off` runs once for it. The invariants need each other:
a session is freed safely because the count is exact, the count because the references are, and
the references because a session with the worker has no ioctl in progress.

Liveness under fairness is out of the prover's reach and stays with TLC.

## 4. The dma session

### State and actions

`used` and `unused` are the two lists of `struct mpp_dma_session` (sets: which
buffer of `used_list` is the oldest is left open, so eviction may take any),
`regions` is the `mem_region_list` of each task, and `pc`, `fd`, `owner`, `buffer` are
where an ioctl thread is in `mpp_dma_import_fd` or `mpp_dma_release_fd`. One action
is what the code does under `list_mutex`, or between two such regions.

| Code | Actions |
|---|---|
| `vdpu_alloc_task`, `mpp_task_attach_fd` | `Submit`, `AttachFd`, `Queue` |
| `mpp_dma_import_fd` | `Evict`, `Find`, `Get`, `Missing`, `Take`, `TakeNone`, `Map`, `MapFails`, `Add` |
| TRANS_FD_TO_IOVA, RELEASE_FD, `mpp_dma_release_fd` | `Trans`, `ReleaseFd`, `PutFd` |
| RESET_SESSION, last close, `mpp_dma_session_destroy` | `Reset`, `Close`, `UseAfterReset` |
| `mpp_task_finalize`, `mpp_dma_release` | `FreeTask`, `Finalize`, `Finalized` |

A dmabuf is the fd that names it: two fds of one dmabuf are one member of `Fds`.
User space releases an fd at most as often as it translated it (`client`).

Four flags in the state say from where on the code promises nothing, and every
property is about the states before: `undefined` (a reference put that does not
exist, the session used after RESET_SESSION freed it), `twice` (the pool has dropped
two references of one buffer: `mpp_dma_remove_extra_buffer` leaves a buffer in
`used_list` as long as somebody holds it and takes the next reference from it at
the next import), `mixed` (an import returned a buffer of another dmabuf). The
model stops there. They are limits of the code, listed as hazards, not of
the model.

### Runs

| Run | Bounds | Shows |
|---|---|---|
| `mpp_dma` | 2 threads, 2 tasks (one fd, two fds), 2 buffers, 1 kept without eviction, 1 translation per fd, reset and close | references are exact, held buffers stay mapped, lists and `buffer_count` agree, a closed session has nothing mapped but what user space did not release |
| `mpp_dma_mixed` | the same | finding 5 |

Two threads are needed to find a buffer that another releases, two buffers to reuse
one for another dmabuf, `MaxBuffers = 1` so that the second import evicts. The
buffers are a symmetry set. There is no liveness property: nothing here waits.

5. "fd may dup several and point the same dambuf. thus, here should be distinguish
   with the dmabuf": `mpp_dma_import_fd` takes the reference after it dropped the lock and
   does not compare the dmabuf again, so a buffer that was reused in between is
   returned for the wrong fd.

### Proofs

`MppDmaSession_proofs` proves from `DmaAssumption` (finite sets, None is none of
them), for any number of fds, tasks, buffers and threads, and any values of
`MaxBuffers` and `MaxTrans`:

| Theorem | Statement |
|---|---|
| `TypeCorrect` | `Spec => []TypeOK` |
| `Invariant` | `Spec => []IInv` |
| `ReferencesAreExact` | `Spec => []RefsExact` |
| `HeldBuffersStayMapped` | `Spec => []HeldBuffersAreMapped` |
| `EachBufferIsInOneList` | `Spec => []EachBufferInOneList` |
| `ClosedSessionIsUnmapped` | `Spec => []ClosedIsUnmapped` |

The argument. The reference count of a buffer is a sum over the regions of all
tasks, so it is only preserved if no task gets the same region twice: `Owners` says
that a task under construction belongs to one thread, which imports an fd the task
does not have. `Lists` says that a buffer outside both lists is with one thread;
`Refs` that a buffer that is neither in use nor being added has no reference, no
region and no translation, without which `Map` could overwrite somebody's count;
`Matches` and `Adds` that buffers are of the dmabuf of their fds. `ClosedIsUnmapped`
follows at the close: then no thread and no task is left, so each buffer has the
pool's reference and the translations, less at most one that was dropped.

## 5. The RGA scheduler

### State and actions

A job is committed by its ioctl, or by the callback of the fence it waits for; the
two do not overlap, so `spc` is one program counter per job. `rga_job_next` runs in
three contexts (the committer, the callback and the irq thread of a core); `npc` and
`njob` are where a thread is in it, `ipc` and `ijob` where an irq thread is in
`rga_job_done`. One action is what the code does under `irq_lock` of a core or
`rga_mm`'s lock, or one access without a lock.

| Code | Actions |
|---|---|
| `rga_mm_import_buffer`, `rga_mm_release_buffer` | `Import`, `Release` |
| `rga_job_commit`, `rga_add_dma_fence_callback`, `rga_input_fence_signaled` | `Commit`, `Refuse`, `CheckFence`, `BadFence`, `AddCallback`, `InFenceSignal` |
| `rga_job_assign`, `rga_job_schedule`, `rga_job_timeout_clean` | `Assign`, `Reject`, `Clean`, `CleanReset`, `CleanPut`, `Insert` |
| `rga_job_next`, `rga_job_run` | `NextNone`, `NextTake`, `RunOk`, `RunFail`, `Return`, `FailReturn`, `FailClear`, `FailPut` |
| `rga_job_wait`, `rga_running_job_abort` | `ReadRet`, `WaitTimeout`, `TimeoutReset`, `WaitSignal`, `WaitDone`, `Abort` |
| the core | `HwDone`, `Hang` |
| `rga3_irq_thread`, `rga_job_done` | `IrqThread`, `DoneTake`, `DoneFlag`, `DoneFinish`, `DonePower` |

`Choice` says which core `rga_job_assign` takes: the first idle one, else one with a
short list. The loop of the code keeps a running minimum and takes zero for "none
yet"; `ChoiceIsLoop` in the MC module compares `Choice` with the loop, turn by turn,
on all inputs for four cores.

Assumptions:

- A job has a source and a destination channel with handles. The path with virtual
  addresses, the pattern channel and the contents of registers are left out.
- Clients release what they imported. The code lets them release more.
- The age of a job is not counted. Its timestamp is that of the allocation
  (rga_job.c:216) until `set_reg` (rga3_reg_info.c:2091), and a hrtimer refreshes it
  once a second: an asynchronous job may be 500 ms old before it is started, and
  a stuck one younger. So `Clean` takes any asynchronous `running_job`, or none
  (rga_job.c:405-412). `Overdue` are the synchronous jobs whose caller may have to
  wait for HZ.
- `held` is what the pointers in a job say; `rga_mm_put_handle_info` leaves them
  (rga_mm.c:1027-1041), so `PutHandles` may give back the references of others. The
  history variable `owns` has the references that the job took and has not put. A
  handle names the same buffer when it is imported again.
- Using a freed job, dereferencing a null `running_job` and starting a core at
  work are `undefined`, where the model stops. Freeing a job that is in a list is
  not, but the next step that follows the list is. The reuse of a freed page for
  another job is not modelled.

Two history variables say how far the properties reach. `seized` has, for each core,
who took a job from it under way, that is while the job was being started, worked
on or about to be ended: "caller" for `rga_running_job_abort`, which gives back neither power
nor buffers and leaves the core working, and "timeout" for `rga_job_timeout_clean`,
after which the interrupt of the victim completes the next job. `lost` has the jobs
that a soft reset outside `irq_lock` killed at work. `DoneIsExecuted`,
`BuffersAreMapped`, `HandlesAreCounted`, `WorkIsTracked` and `PowerBalanced` are about cores
from which nothing was taken under way (`InPeace`), the second and the third about all
cores at once; the first two also end with `lost`. `QueuesHoldLiveJobs` holds through
all of it, `FenceIsSignaled` through what a timeout took, but not through an abort by a
caller, a hung core or a lost job. No text of the repository
claims more, so these ends are hazards and not findings.

### Runs

| Run | Bounds | Shows |
|---|---|---|
| `rga` | 2 cores (one may hang), a synchronous job with a priority and an asynchronous one behind a fence, 2 handles both use, 1 import of each, steps of the asynchronous job may fail, the caller may get a signal or time out, a clean may take any asynchronous running job | where jobs are, fences, mapped and counted buffers, power; every synchronous call returns and every fence is signaled |
| `rga_freed` | 1 core, one synchronous job alone, no failures, signals or timeouts | finding 6 |

Two jobs are enough for a job behind another one, for a caller that gives up its job
in the list, for the callback of a fence that schedules while the irq thread looks
for the next job, and for a timeout clean of one job by the commit of the other,
the running one started or not; two cores are enough for the choice. Lists of
two jobs behind a running one are left to the proofs. Fairness is that of threads, of
cores that do not hang, and of whoever signals input fences; `Hang`, signals,
imports and commits are not fair.

6. "sync mode: wait utill job finish": `rga_job_done` sets RGA_JOB_DONE, which the
   synchronous caller waits for, and goes on to use the job. The caller frees it.
   An asynchronous job has a use after free of its own, which violates the same
   property when the run has one: the core may finish the job, and its irq thread
   free it, before the thread that started it writes `job->ret` (rga_job.c:318).

### Proofs

`RgaScheduler_proofs` proves from `RgaAssumption` (finitely many jobs, no core twice, None
is no job and no core), for any sets of jobs, cores and handles, any priorities,
failures, signals and hanging cores, and with timeouts at any moment:

| Theorem | Statement |
|---|---|
| `TypeCorrect` | `Spec => []TypeOK` |
| `Invariant` | `Spec => []IInv` |
| `JobsAreInOnePlace` | `Spec => []QueuesHoldLiveJobs` |

The argument. `IInv` is `TypeOK` and, while nothing was undefined, `Sound`. A job is put into a
list once if it is nowhere when it is committed: `Before` says that neither a list,
`running_job`, a thread nor a victim of `rga_job_timeout_clean` is a job that is still
being committed. `InLists` says that a job in a list is in no `running_job` and with no
thread, has no buffers yet, and is live unless its caller has returned an error:
`rga_running_job_abort` is the only one to free a job there, since everybody else who
frees a job has it from a place behind the list (`Gone`: a victim, a job that the irq
thread ends, one whose start failed and one that is done are in no list and in no
`running_job`). `Locals` says which job the threads have, and that no two
threads in `rga_job_next` have the same (`Apart`). `Inserted`, `Appended` and `Taken` say what
the list operations do to the jobs of a list, `ChoiceIsCore` that `rga_job_assign`
chooses a core.

`RgaWork_proofs` proves the other safety properties of the run `rga`, from the same
assumption and for the same timeouts:

| Theorem | Statement |
|---|---|
| `WorkInvariant` | `Spec => []WInv` |
| `CoreIsTracked` | `Spec => []WorkIsTracked` |
| `DoneMeansExecuted` | `Spec => []DoneIsExecuted` |
| `BuffersStayMapped` | `Spec => []BuffersAreMapped` |
| `HandlesStayCounted` | `Spec => []HandlesAreCounted` |
| `PowerStaysBalanced` | `Spec => []PowerBalanced` |

The argument. Each property is about a core, its irq thread and the threads in
`rga_job_next`, which know a job from three places (`running_job`, the registers, their
local variables) and change them without one lock. `Work` relates them, in layers,
because the code promises less after each of its own limits:

- Always: `Owners` says that the job a thread or a core has is a job of that core, and
  in which step who has one; `Evicted` the same for the victim of
  `rga_job_timeout_clean`; `Fresh` that no core, irq thread or victim is a job that is
  still being committed or in a list, and that such a job is not done.
- As long as no job was taken from the core under way (`seized`): `Tended` says that
  `running_job` is the job that some thread is starting, or the one the core works
  on, or the one whose interrupt is on its way, and that these three exclude each
  other. So a thread that finds `running_job` empty starts an idle core, and the irq
  thread takes the job that was finished. `Balanced` says where the runtime
  references are: one for a started job (`Busy`), one with the irq thread (`Ending`),
  one for each victim (`Victims`).
- As long as no work was lost to a reset either, `Served`: `Watched` says that a job in
  `running_job` is being started, worked on or about to be completed, `Resets` that a
  commit only resets a core that hangs, so nothing is reset before `lost` says so;
  `Finished`, `Unstarted` and `Honest` follow a job from its start to RGA_JOB_DONE,
  `Mapped` says that the core's job holds both buffers.

`Accounts` is about the references to buffers: what a job owns is what its pointers
say, or nothing once they were put; on each core in peace exactly one holder
will put them (`Settled`); and while all cores are in peace `Refs` is the count itself.
`GotCounted` and its counterparts say what the handle operations do to it. With `Mapped` it
gives `BuffersAreMapped`.

## 6. The vendor storages

### NAND: `MtdVendorStorage`

A page stands for `ops_size` bytes. `blk` and `page` are `nand_info.blk_offset`
and `page_offset` in blocks and pages, `mem` is `*g_vendor`. Each turn of the loop
in `mtd_vendor_nand_write` is one action, by what the turn does: `SkipBadBlock`,
`EraseBlock`, `EraseFail`, `Program`, `ProgramFail`. `mtd_vendor_storage_init` only
reads until it formats, so it is one action (`Boot`, `BootEmpty`), and formatting
is one action per erase.

The flash is outside the repository. It is modelled as the code relies on it:
pages read as erased, as what was programmed, or with an ECC error (`Junk`); a
page that is not erased cannot be programmed; an erase that is cut or fails
leaves each page of the block as it was, erased or unreadable; a program that is
cut or fails leaves its page unreadable. Power may fail before, in and after each
of them. A bad block stays as it is. Not modelled: a cut program whose page still
reads as erased, blocks that turn bad at run time, pages that decay.

`Store == INSTANCE AtomicStore` maps the durable contents to what init would load
from the flash of the moment, without an action for it. `ImplementsAtomicStore`
then says that they change only while a write is in progress, only to what is
being written, and before the write returns.

It ends where the driver loses track of what it wrote. There are five ways, and the
history variable `lapses` names those that have happened; the step that takes one
adds it:

| Lapse | What happens | Lines |
|---|---|---|
| "page" | power fails when a block has one programmed page: init takes that page for free, and the next write programs it again | 169, finding 7 |
| "head" | the first page of a block is lost to a failed or cut program and the block is used on: init, which looks at first pages only, does not see what is behind it | 106-111, 147 |
| "twins" | the second copy must go to the next block when the first block begins with the first copy: two blocks begin with the same version, init prefers the older and misses later copies in the newer | 149 |
| "format" | with a bad first block the format loop erases the wrong addresses: init programs a block that it has not erased | 193 |
| "round" | all other good blocks are bad or failed: the ring comes round to the block that init would load, and erases it | 88-99 |

Before a lapse all properties hold, whatever fails and whenever power does.
`WritesReturn` and `TypeOK` hold after it too. That init may lose a write after one is a
hazard; only "page" contradicts a text of the repository. Not modelled: reads of the flash
that fail once and succeed later (an ECC error stays).

7. "point to the next free page": `nand_info.page_offset < offset` is false at
   offset 0, so a block with one programmed page is taken as empty and that page
   is programmed again, which loses the head that init looks for.

| Run | Bounds | Shows |
|---|---|---|
| `mtd_safety` | 4 blocks of 3 pages, block 0 bad, 3 writes, 2 failed calls, power loss at any step | `AtomicStore`, order of programs, two copies, nothing newer left behind, until a lapse; every write returns |
| `mtd_free_page` | 3 blocks of 3 pages, 4 writes, no fault | finding 7 |

In `mtd_safety` all five lapses occur. The four programmed structures of two copies,
with the pages that failed calls and power losses cost, are more than the nine
pages of the three good blocks: the ring wraps, over the bad block, and erases
blocks with old versions. Three pages per block are the least in which a copy pair
starts at each position.

The fairness of `WritesReturn` is that of one thread in its loop; power may fail,
which ends the wait as well. It needs the bound on faults: on a flash where every
erase fails the code never returns.

`MtdVendorStorage_proofs` proves from `FlashAssumption` alone (two pages per block, one good
block), for any number of blocks, pages, bad blocks, writes and failed calls:

| Theorem | Statement |
|---|---|
| `TypeCorrect` | `Spec => []TypeOK` |
| `Invariant` | `Spec => []MInv` |
| `NothingNewerAlways`, `ProgramsInOrderAlways` | `Spec => []NothingNewer`, `Spec => []ProgramsInOrder` |
| `TwoCopiesAlways` | `Spec => ReturnsWithTwoCopies` |
| `Implements` | `Spec => ImplementsAtomicStore` |

The argument. The properties do not say where the data is; `MInv` does, until a lapse.
Either the flash holds no structure and is being formatted (`Formatting`), or there is
a block `h`, a number `k` of used pages of it and a page `m` such that `Stored(h, k, m)`:
`IsLast(h)`, the first page of `h` has the greatest version of all first pages and no
other block holds a later one, so that init finds `h`; `IsFilled(h, k, m)`, the pages
below `k` are used and `m` is the last of them that can be read, so that init finds `m`
and continues at `k`; and `Serving`, where the driver is. A write is at page `k` of `h`,
or `Beyond` it: `h` is full and its first page is older than the write. `FullBlock`
is where the lapse "round" is used: the block erased next is not `h`. A second clause in
`Writing` keeps the first page of `h` from being a copy of the write in progress when
`h` is full, which is where "twins" is used. An erase, cut or not, then leaves `h` as
it is (`EraseKeepsStored`), a failed program only moves `k` (`ProgramFailKeepsStored`), and a
program that succeeds moves `m`, or `h`, to what it wrote (`ProgramStores`): the step of
`AtomicStore` in which the store changes. `LapsesStay` says that a lapse is never taken
back, so that what holds without one held in every state before.

### SD/MMC: `SdmmcVendorStorage`

Sectors are written one action each, and power may fail between any two. A sector
holds the structure it was written from; a partition whose ends agree but whose
sectors do not is loaded as `Torn`, which is no value of `AtomicStore`. Transfers
are assumed to reach the medium in order. The module loads with init in one
action. A failing read of the scan makes init try again and give up in the end, which is
no start. But `emmc_vendor_ops` keeps the result of the last sector only (lines 84-85,
called at 119-122), so a load may return 0 without other sectors: `BootMisread`.
`misread` says what is then wrong in memory: "items", which are torn, or "head" too,
version and `next_index`, which are those of the last partition the scan read when the
first sector is missing. Never written partitions count as empty contents: here init builds the
structure in memory only.

The run `sdmmc` has 4 partitions of 3 sectors and 6 writes, so that partitions are
overwritten, three failing transfers, whose result the code drops, and loads that
miss any sectors but the last. Until one of these happens the storage implements
`AtomicStore`. A write never goes to the partition that a restart would load, until
three transfers failed at first sectors or a load has missed a first sector: then
it does, which is why `NeverOverwritesNewest` ends there. A failure in the middle of
a partition, written or loaded, gives torn items: the code has no check for it (the
field `hash` is not used), and no text of the repository says otherwise, so this is
a hazard without a property.

`SdmmcVendorStorage_proofs` proves from `PartsAssumption`, for any number of
partitions, sectors and writes:

| Theorem | Statement |
|---|---|
| `TypeCorrect` | `Spec => []TypeOK` |
| `Invariant` | `Spec => []SInv` |
| `NewestIsKept` | `Spec => []NeverOverwritesNewest` |
| `Implements` | `Spec => ImplementsAtomicStore` |

The argument. Restarts make it hard: what init finds must tell where the interrupted
write went. `Clean` is what holds until a transfer fails or a load misses a sector. `Whole` says that a valid partition holds one structure, whose
`next_index` is the partition behind it; `Below` that the newest valid partition has
the greatest version that any partition ends with, so that an interrupted write,
whose last sector is the old one, is not preferred; `Idle` that the structure in
memory is the newest one between writes; `Writing` that the write under way has a
version above all and is not in the newest partition. Then each transfer leaves the newest
partition as it was, until the last one makes its own the newest: that is the
step of `AtomicStore` in which the store changes.

`Kept` is what holds longer. When some transfers have failed partitions need not be
whole, versions are used again after a restart, and a partition may become valid with
its first sector, in the middle of its write. What remains is `Kept`: the
structure in memory is `Lead` writes ahead of the newest partition, the write goes
to the partition that is `Lead` behind it in the ring (`Trails`), and each of these
writes has cost a failure, but for the one in progress. A partition that becomes valid
in the course of a write becomes the newest one, with `Lead` zero
(`TransferKeepsNewest`). So it takes `NumParts - 1` failures to come around to it, or
a load that takes `next_index` from another partition ("head").

### Items: `VendorItems`

A write takes one action, in the cases of the code. Bytes carry the write's value
and their position, so a read shows any byte that was moved wrongly or
overwritten. `Turns(i)` is what the loop that moves items down has made after each
of its turns, when item `i` grows; `memcpy` copies forward to a lower address, which for overlapping
regions is what the build's memcpy does in units of at most 64 bytes. `driver`
says whose functions run: `emmc_vendor_write` counts free space in another way.
`FreeSpaceIsThere` is about what each counts. For `mtd_vendor_write` that is all the space
behind `free_offset`; the rest of the room of an item that was shrunk is counted by
neither until items are moved over it.

Neither function compares `item_num` with the length of `item[]`, which lies before
`data`. `Entered` is the assignment to `item[item_num]`: in a full table it writes over the
first bytes of `data` and sets `overrun`, where the model ends and up to which the
properties speak. In `emmc_vendor_write` (126 entries) the 127th id does it; in
`mtd_vendor_write` `data` has room for 55 items of a size above 0, fewer than the 62
entries, but the ioctls also take size 0, which needs no room.

The run `items`: 4 ids for a table of 3 entries, so that it is overrun, 3 sizes (none, below
a unit and above it), 2 values, a region with room for four units and a rest, so
that items shrink, leave gaps, grow over other items and are refused. Ids and values are
symmetric. Deadlock is not checked because the model ends at the overrun.

`VendorItems_proofs` proves from `ItemsAssumption` (a unit of at least one byte), for any
ids, sizes (zero too), values, unit, size of the region and length of the table, and
for both drivers:

| Theorem | Statement |
|---|---|
| `Invariant` | `Spec => []IInv` |
| `TypeCorrect` | `Spec => []TypeOK` |
| `RoomsApart` | `Spec => []RoomsAreApart` |
| `FreeSpace` | `Spec => []FreeSpaceIsThere` |
| `ImplementsMap` | `Spec => ImplementsItemMap` |

The argument. `IInv` is `TypeOK` and, until the overrun, `Sound`: no write entered an item behind
the table so far. `RoomsAreApart` speaks of the bytes of the rooms; `InOrder` says the same of their
ends, which the loop can be followed with. `OneEach`, that no id is twice in the
table, is why the loop over `item[]` that looks for an id finds the only one. The
heart is the loop of `mtd_vendor_write` that moves items down. `Turned(m, i, k)` is its
invariant: after `k` turns the items before and behind item `i` are there, in order,
with the bytes they had, the room of item `i` is free below the next item to move
(`Behind`), and that item and all behind it are untouched. So the source of
a copy is intact when its turn comes, although source and destination may overlap,
and the item that grows has room at the end, since `Fits` does not count on its old
room. `InPlaceWrites`, `NewWrites` and `GrownWrites` say of the three cases that a write
is a `Wrote`: the item has the new bytes, every other one what it had. From there
each step is a step of `ItemMap`.

The library's induction rules cannot be used by these provers, so the proof uses
least elements instead: were the loop invariant broken after some turn, there
would be a least such turn (`LeastTurn`, `TurnByTurn`), and it is not the first one
(`FirstTurn`) nor behind one after which it held (`NextTurn`). `LoopEnds` and `TurnsAre`
show in the same way that the recursive function `Turns(i)` is what its definition
says.

## 7. Plan

Done in this order: `MppTaskQueue` and its first proofs, `MtdVendorStorage`,
`SdmmcVendorStorage`, `VendorItems`, `RgaScheduler`, `MppDmaSession` and its proofs,
the refinement proof of `SdmmcVendorStorage`, the proofs of `RgaScheduler`, the
counts of `MppTaskQueue`, the refinement proof of `MtdVendorStorage`, the proofs of
`VendorItems`, the cores of `RgaScheduler`. Not modelled, in the order it would be worth
doing:

1. `MppTaskQueue`: RESET_SESSION, a second INIT_CLIENT_TYPE, several ioctl threads
   of a file, shutdown; the reader/writer lock of several queues with a probe during
   a reset.
2. `VendorItems` with two callers and no common mutex.
3. Page pools of the dma-buf heaps with their shrinker and the deferred free thread.
4. RGA2's register lists; the link table of rkvdec2; OMX components; the vsync
   thread of the display HDI; the file table of RK2206.

What is not in this list is left out for the reason given in `PROJECT.json`: register
programming without state, adapters to closed libraries, vendored and upstream
drivers. The models cover a small part of the repository's lines because
these make up nearly all of it.

What is proved and what is not:

- Proved for all values of the constants: the theorems of the eight `_proofs` modules. They
  state every invariant, every refinement and every action property that the passing runs
  check. The properties themselves say where the code stops keeping them: at a step that is
  undefined, at the first job taken from a core under way, at a lapse of the NAND
  storage, at a transfer or a load of the SD/MMC storage that failed, at an overrun of the
  item table. The theorems assume nothing else than the named assumptions on the constants.
- Model-checked only: the liveness properties (`SyncReturns` and `FenceIsSignaled` of the RGA
  scheduler, `WritesReturn` of the NAND storage, the ones of the task service), because
  fairness and ENABLED are beyond the prover, and the violations of the findings,
  which are counterexamples.

## 8. How to run

    tlc -config MppQueueSafety.cfg MCMppTaskQueue.tla
    tlc -config MppDma.cfg MCMppDmaSession.tla
    tlapm MppTaskQueue_proofs.tla
    tlapm MppTaskCounts_proofs.tla
    tlapm MtdVendorStorage_proofs.tla
    tlapm RgaWork_proofs.tla
    tlapm VendorItems_proofs.tla

Deadlock is not checked where the system may stop: all tasks of the bound are used
up and all files closed, or all writes of the bound are done.
