---------------------------- MODULE MppTaskQueue ----------------------------
(***************************************************************************)
(* The task service of the Rockchip media process platform (mpp_common.c): *)
(* client sessions submit tasks to devices that share one task queue, one  *)
(* kthread worker starts them, and each started task is completed either   *)
(* by the interrupt of its device or by its delayed timeout work.          *)
(*                                                                         *)
(* The device callbacks (run, irq, isr, reset) are those of mpp_vdpu2.c,   *)
(* a device without a prepare callback and without task->mpp, so a task    *)
(* runs on the device of its session and the whole queue runs one task at  *)
(* a time.                                                                 *)
(*                                                                         *)
(* Threads: one ioctl thread per session (upc), the queue's worker (wpc),  *)
(* per device the hard interrupt handler (hpc) and its irq thread (ipc),   *)
(* and per task the delayed work (timer).  Each step is one region the     *)
(* code runs under a lock or one atomic operation on shared state.         *)
(***************************************************************************)
EXTENDS Integers, Sequences, FiniteSets

CONSTANTS
  Sessions,       \* open files of the service's character device
  Devices,        \* struct mpp_dev attached to the one task queue
  Tasks,          \* struct mpp_task allocations (bound: each is used once)
  None,           \* NULL
  TimersExpire,   \* MPP_WORK_TIMEOUT_DELAY (200 ms) may elapse before the irq
  WaitsExpire,    \* when MPP_WAIT_TIMEOUT_DELAY (2000 ms) may elapse in a poll:
                  \* "never", "stalled" (only while the queue does nothing), "any"
  GrfMayFail      \* hw_ops->set_grf may return an error

ASSUME NoneAssumption == None \notin Sessions \cup Devices \cup Tasks
ASSUME SwitchAssumption ==
  /\ TimersExpire \in BOOLEAN /\ GrfMayFail \in BOOLEAN
  /\ WaitsExpire \in {"never", "stalled", "any"}

VARIABLES
  (* sessions and their ioctl threads *)
  sess,           \* "none", "open", "released" (release_request), "freed"
  sdev,           \* session->mpp
  spending,       \* session->pending_list
  taskCount,      \* session->task_count
  upc, utask,     \* where the ioctl thread is, and its local task pointer
  (* tasks *)
  owner,          \* task->session, None before alloc_task
  flags,          \* task->state
  abort,          \* task->abort_request
  ref,            \* task->ref
  timer,          \* task->timeout_work and where its function is
  (* the task queue and its worker *)
  qpending,       \* queue->pending_list
  qrunning,       \* queue->running_list
  qdetach,        \* queue->session_detach; detach_count is its length
  work,           \* devices whose mpp->work is queued on queue->worker
  wpc, wtask, wsess,
  (* devices *)
  curTask,        \* mpp->cur_task
  hw,             \* the task the hardware is executing
  irq,            \* the interrupt status register: "none", "ok", "error"
  irqStatus,      \* mpp->irq_status
  hpc, htask,     \* the hard interrupt handler and its local task pointer
  woken,          \* the irq thread was woken and has not consumed it
  ipc, itask,     \* the irq thread
  resetRequest,   \* mpp->reset_request
  powered,        \* mpp_power_on calls minus mpp_power_off calls
  devCount        \* mpp->task_count

userVars   == <<upc, utask>>
sessVars   == <<sess, sdev>>
countVars  == <<ref, taskCount, devCount>>
stateVars  == <<flags, abort, timer>>
queueVars  == <<qpending, qrunning, qdetach>>
workerVars == <<wpc, wtask, wsess>>
irqVars    == <<irq, irqStatus, hpc, htask, woken, ipc, itask>>
runVars    == <<curTask, hw, resetRequest, powered>>
vars == <<userVars, sessVars, spending, owner, countVars, stateVars, queueVars,
          work, workerVars, irqVars, runVars>>

Flag == {"PENDING", "RUNNING", "START", "HANDLE", "IRQ", "FINISH", "TIMEOUT",
         "DONE", "ABORT"}

Listed(list) == {list[i] : i \in DOMAIN list}

\* Mutant: the entry is never unlinked.
ListDel_Missing(list, x) == list

\* list_del_init: an element that is not linked leaves the list as it is.
ListDel(list, x) ==
  IF x \notin Listed(list) THEN list
  ELSE LET i == CHOOSE j \in DOMAIN list : list[j] = x
       IN  SubSeq(list, 1, i - 1) \o SubSeq(list, i + 1, Len(list))

Has(t, flag) == flag \in flags[t]
DeviceOf(t)  == sdev[owner[t]]
Live(t)      == owner[t] # None /\ ref[t] > 0

-----------------------------------------------------------------------------
(* Reference counting: kref_put runs mpp_free_task on the last reference.  *)

\* Mutant: the queue's list takes no reference.
Get_Missing(t) == ref

Get(t) == [ref EXCEPT ![t] = @ + 1]

\* Mutant: the reference of the submitter or of a list counts as the last one.
LastRef_Early(t) == ref[t] <= 2

LastRef(t) == ref[t] = 1

Put(t) ==
  LET freed == IF LastRef(t) THEN 1 ELSE 0
  IN  /\ ref' = [ref EXCEPT ![t] = @ - 1]
      /\ taskCount' = [taskCount EXCEPT ![owner[t]] = @ - freed]
      /\ devCount' = [devCount EXCEPT ![DeviceOf(t)] = @ - freed]

-----------------------------------------------------------------------------
\* No task exists; the files are in the given states.
InitFrom(files, devs) ==
  /\ sess = files
  /\ sdev = devs
  /\ spending = [s \in Sessions |-> <<>>]
  /\ taskCount = [s \in Sessions |-> 0]
  /\ upc = [s \in Sessions |-> "idle"]
  /\ utask = [s \in Sessions |-> None]
  /\ owner = [t \in Tasks |-> None]
  /\ flags = [t \in Tasks |-> {}]
  /\ abort = [t \in Tasks |-> 0]
  /\ ref = [t \in Tasks |-> 0]
  /\ timer = [t \in Tasks |-> "off"]
  /\ qpending = <<>> /\ qrunning = {} /\ qdetach = <<>>
  /\ work = {}
  /\ wpc = "idle" /\ wtask = None /\ wsess = None
  /\ curTask = [d \in Devices |-> None]
  /\ hw = [d \in Devices |-> None]
  /\ irq = [d \in Devices |-> "none"]
  /\ irqStatus = [d \in Devices |-> "none"]
  /\ hpc = [d \in Devices |-> "idle"]
  /\ htask = [d \in Devices |-> None]
  /\ woken = [d \in Devices |-> FALSE]
  /\ ipc = [d \in Devices |-> "idle"]
  /\ itask = [d \in Devices |-> None]
  /\ resetRequest = [d \in Devices |-> 0]
  /\ powered = [d \in Devices |-> 0]
  /\ devCount = [d \in Devices |-> 0]

Init == InitFrom([s \in Sessions |-> "none"], [s \in Sessions |-> None])

-----------------------------------------------------------------------------
(* Sessions.  One thread uses a file: it is in at most one ioctl, and the   *)
(* kernel calls release only when no ioctl of the file is in progress.      *)

\* mpp_dev_open
Open(s) ==
  /\ sess[s] = "none"
  /\ sess' = [sess EXCEPT ![s] = "open"]
  /\ UNCHANGED <<userVars, sdev, spending, owner, countVars, stateVars,
                 queueVars, work, workerVars, irqVars, runVars>>

\* MPP_CMD_INIT_CLIENT_TYPE, which a client sends once: session->mpp is the
\* service's sub device of that type.
InitClientType(s, d) ==
  /\ sess[s] = "open" /\ sdev[s] = None
  /\ sdev' = [sdev EXCEPT ![s] = d]
  /\ UNCHANGED <<userVars, sess, spending, owner, countVars, stateVars,
                 queueVars, work, workerVars, irqVars, runVars>>

\* mpp_session_detach_workqueue puts the session on the queue's detach list.
Release(s) ==
  /\ sess[s] = "open" /\ upc[s] = "idle" /\ sdev[s] # None
  /\ sess' = [sess EXCEPT ![s] = "released"]
  /\ qdetach' = Append(qdetach, s)
  /\ work' = work \cup {sdev[s]}
  /\ UNCHANGED <<userVars, sdev, spending, owner, countVars, stateVars,
                 qpending, qrunning, workerVars, irqVars, runVars>>

\* A session that never chose a device is freed by release itself.
ReleaseNoClient(s) ==
  /\ sess[s] = "open" /\ sdev[s] = None
  /\ sess' = [sess EXCEPT ![s] = "freed"]
  /\ UNCHANGED <<userVars, sdev, spending, owner, countVars, stateVars,
                 queueVars, work, workerVars, irqVars, runVars>>

-----------------------------------------------------------------------------
(* mpp_process_task_default: submit one task.                               *)

\* alloc_task, kref_init and mpp_session_push_pending.  A failing alloc_task
\* returns before any of it.
SendTask(s, t) ==
  /\ sess[s] = "open" /\ sdev[s] # None /\ upc[s] = "idle"
  /\ owner[t] = None
  /\ owner' = [owner EXCEPT ![t] = s]
  /\ taskCount' = [taskCount EXCEPT ![s] = @ + 1]
  /\ spending' = [spending EXCEPT ![s] = Append(@, t)]
  /\ ref' = [ref EXCEPT ![t] = 2]
  /\ upc' = [upc EXCEPT ![s] = "push"]
  /\ utask' = [utask EXCEPT ![s] = t]
  /\ UNCHANGED <<sessVars, devCount, stateVars, queueVars, work, workerVars,
                 irqVars, runVars>>

\* mpp_taskqueue_push_pending
PushPending(s) ==
  LET t == utask[s] IN
  /\ upc[s] = "push"
  /\ devCount' = [devCount EXCEPT ![sdev[s]] = @ + 1]
  /\ ref' = Get(t)
  /\ qpending' = Append(qpending, t)
  /\ upc' = [upc EXCEPT ![s] = "trigger"]
  /\ UNCHANGED <<utask, sessVars, spending, owner, taskCount, stateVars,
                 qrunning, qdetach, work, workerVars, irqVars, runVars>>

\* mpp_taskqueue_trigger_work: a work item that is already queued stays one.
TriggerSubmitted(s) ==
  LET t == utask[s] IN
  /\ upc[s] = "trigger"
  /\ flags' = [flags EXCEPT ![t] = @ \cup {"PENDING"}]
  /\ work' = work \cup {sdev[s]}
  /\ upc' = [upc EXCEPT ![s] = "put"]
  /\ UNCHANGED <<utask, sessVars, spending, owner, countVars, abort, timer,
                 queueVars, workerVars, irqVars, runVars>>

\* The submitter drops the reference of kref_init.
PutSubmitted(s) ==
  /\ upc[s] = "put"
  /\ Put(utask[s])
  /\ upc' = [upc EXCEPT ![s] = "idle"]
  /\ utask' = [utask EXCEPT ![s] = None]
  /\ UNCHANGED <<sessVars, spending, owner, stateVars, queueVars, work,
                 workerVars, irqVars, runVars>>

-----------------------------------------------------------------------------
(* mpp_wait_result_default: poll the oldest task of the session.            *)

\* mpp_session_get_pending_task takes no reference.
Poll(s) ==
  /\ sess[s] = "open" /\ upc[s] = "idle"
  /\ spending[s] # <<>>
  /\ upc' = [upc EXCEPT ![s] = "wait"]
  /\ utask' = [utask EXCEPT ![s] = Head(spending[s])]
  /\ UNCHANGED <<sessVars, spending, owner, countVars, stateVars, queueVars,
                 work, workerVars, irqVars, runVars>>

\* wait_event_timeout sees TASK_STATE_DONE.
WaitDone(s) ==
  /\ upc[s] = "wait" /\ Has(utask[s], "DONE")
  /\ upc' = [upc EXCEPT ![s] = "pop"]
  /\ UNCHANGED <<utask, sessVars, spending, owner, countVars, stateVars,
                 queueVars, work, workerVars, irqVars, runVars>>

\* Nothing runs or is about to run: kernel threads need far less than 2 s, and a
\* started task is completed within 200 ms.
Stalled ==
  /\ qrunning = {} /\ work = {} /\ wpc = "idle"
  /\ \A d \in Devices : ipc[d] = "idle"

\* Mutant: a poller that gives up leaves no abort request.
AbortRequest_Missing(t) == abort

AbortRequest(t) == [abort EXCEPT ![t] = @ + 1]

\* It returns 0 only when the condition is still false after the timeout.
WaitTimeout(s) ==
  LET t == utask[s] IN
  /\ WaitsExpire = "any" \/ (WaitsExpire = "stalled" /\ Stalled)
  /\ upc[s] = "wait" /\ ~Has(t, "DONE")
  /\ abort' = AbortRequest(t)
  /\ flags' = [flags EXCEPT ![t] = @ \cup {"ABORT"}]
  /\ upc' = [upc EXCEPT ![s] = "pop"]
  /\ UNCHANGED <<utask, sessVars, spending, owner, countVars, timer, queueVars,
                 work, workerVars, irqVars, runVars>>

\* mpp_session_pop_pending
PopSession(s) ==
  LET t == utask[s] IN
  /\ upc[s] = "pop"
  /\ spending' = [spending EXCEPT ![s] = ListDel(@, t)]
  /\ Put(t)
  /\ upc' = [upc EXCEPT ![s] = "idle"]
  /\ utask' = [utask EXCEPT ![s] = None]
  /\ UNCHANGED <<sessVars, owner, stateVars, queueVars, work, workerVars,
                 irqVars, runVars>>

-----------------------------------------------------------------------------
(* mpp_task_worker_default, run by the queue's single kthread worker.       *)

WorkerStart(d) ==
  /\ wpc = "idle" /\ d \in work
  /\ work' = work \ {d}
  /\ wpc' = "get"
  /\ UNCHANGED <<userVars, sessVars, spending, owner, countVars, stateVars,
                 queueVars, wtask, wsess, irqVars, runVars>>

WorkerNoTask ==
  /\ wpc = "get" /\ qpending = <<>>
  /\ wpc' = "detach"
  /\ UNCHANGED <<userVars, sessVars, spending, owner, countVars, stateVars,
                 queueVars, work, wtask, wsess, irqVars, runVars>>

\* An aborted head is removed, and this run of the work ends there.
WorkerDropAborted ==
  /\ wpc = "get" /\ qpending # <<>>
  /\ LET t == Head(qpending)
     IN  /\ abort[t] > 0
         /\ qpending' = ListDel(qpending, t)
         /\ Put(t)
  /\ wpc' = "detach"
  /\ UNCHANGED <<userVars, sessVars, spending, owner, stateVars, qrunning,
                 qdetach, work, wtask, wsess, irqVars, runVars>>

\* The head was not aborted when the worker looked; it may be a moment later.
WorkerTake ==
  /\ wpc = "get" /\ qpending # <<>>
  /\ abort[Head(qpending)] = 0
  /\ wtask' = Head(qpending)
  /\ wpc' = "prepare"
  /\ UNCHANGED <<userVars, sessVars, spending, owner, countVars, stateVars,
                 queueVars, work, wsess, irqVars, runVars>>

\* Mutant: only tasks of the same device make the queue busy.
IsRunning_SameDevice == \E t \in qrunning : DeviceOf(t) = DeviceOf(wtask)

IsRunning == qrunning # {}

WorkerBusy ==
  /\ wpc = "prepare" /\ IsRunning
  /\ wtask' = None
  /\ wpc' = "detach"
  /\ UNCHANGED <<userVars, sessVars, spending, owner, countVars, stateVars,
                 queueVars, work, wsess, irqVars, runVars>>

\* mpp_taskqueue_pending_to_run
WorkerToRun ==
  /\ wpc = "prepare" /\ ~IsRunning
  /\ qpending' = ListDel(qpending, wtask)
  /\ qrunning' = qrunning \cup {wtask}
  /\ flags' = [flags EXCEPT ![wtask] = @ \cup {"RUNNING"}]
  /\ wpc' = "run"
  /\ UNCHANGED <<userVars, sessVars, spending, owner, countVars, abort, timer,
                 qdetach, work, wtask, wsess, irqVars, runVars>>

\* mpp_task_run arms the timeout before dev_ops->run.  The 200 ms do not elapse
\* between the two, so they are one step.
WorkerRun ==
  LET d == DeviceOf(wtask) IN
  /\ wpc = "run"
  /\ powered' = [powered EXCEPT ![d] = @ + 1]
  /\ flags' = [flags EXCEPT ![wtask] = @ \cup {"START"}]
  /\ timer' = [timer EXCEPT ![wtask] = "armed"]
  /\ curTask' = [curTask EXCEPT ![d] = wtask]
  /\ hw' = [hw EXCEPT ![d] = wtask]
  /\ wtask' = None
  /\ wpc' = "detach"
  /\ UNCHANGED <<userVars, sessVars, spending, owner, countVars, abort,
                 queueVars, work, wsess, irqVars, resetRequest>>

\* mpp_task_run returned an error of set_grf before it touched the device.
WorkerRunFail ==
  /\ GrfMayFail
  /\ wpc = "run"
  /\ qrunning' = qrunning \ {wtask}
  /\ Put(wtask)
  /\ wtask' = None
  /\ wpc' = "detach"
  /\ UNCHANGED <<userVars, sessVars, spending, owner, stateVars, qpending,
                 qdetach, work, wsess, irqVars, runVars>>

\* The loop over session_detach at label done, one session per iteration.
WorkerDetach ==
  /\ wpc = "detach" /\ qdetach # <<>>
  /\ wsess' = Head(qdetach)
  /\ qdetach' = Tail(qdetach)
  /\ wpc' = "deinit"
  /\ UNCHANGED <<userVars, sessVars, spending, owner, countVars, stateVars,
                 qpending, qrunning, work, wtask, irqVars, runVars>>

WorkerEnd ==
  /\ wpc = "detach" /\ qdetach = <<>>
  /\ wpc' = "idle"
  /\ UNCHANGED <<userVars, sessVars, spending, owner, countVars, stateVars,
                 queueVars, work, wtask, wsess, irqVars, runVars>>

\* Mutant: deinit does not look at task_count.
MayDeinit_Always(s) == TRUE

MayDeinit(s) == taskCount[s] = 0

\* mpp_session_deinit gives up on a session that still has tasks: the session
\* is off the detach list and nothing puts it back.
WorkerDeinitBusy ==
  /\ wpc = "deinit" /\ ~MayDeinit(wsess)
  /\ wsess' = None
  /\ wpc' = "detach"
  /\ UNCHANGED <<userVars, sessVars, spending, owner, countVars, stateVars,
                 queueVars, work, wtask, irqVars, runVars>>

\* mpp_session_deinit_default: mpp_session_clear finds an empty list here
\* (FreedSessionIsQuiet), so the session alone changes.
WorkerDeinit ==
  /\ wpc = "deinit" /\ MayDeinit(wsess)
  /\ sess' = [sess EXCEPT ![wsess] = "freed"]
  /\ wsess' = None
  /\ wpc' = "detach"
  /\ UNCHANGED <<userVars, sdev, spending, owner, countVars, stateVars,
                 queueVars, work, wtask, irqVars, runVars>>

-----------------------------------------------------------------------------
(* The hardware and its interrupt.                                          *)

\* The hardware finishes its task and raises the interrupt.
HwDone(d, status) ==
  /\ hw[d] # None
  /\ hw' = [hw EXCEPT ![d] = None]
  /\ irq' = [irq EXCEPT ![d] = status]
  /\ UNCHANGED <<userVars, sessVars, spending, owner, countVars, stateVars,
                 queueVars, work, workerVars, irqStatus, hpc, htask, woken, ipc,
                 itask, curTask, resetRequest, powered>>

\* Mutants: set_bit instead of test_and_set_bit, and its result inverted.
Unhandled_Untested(t) == TRUE
Unhandled_Inverted(t) == Has(t, "HANDLE")

\* test_and_set_bit(TASK_STATE_HANDLE): the first caller handles the task.
Unhandled(t) == ~Has(t, "HANDLE")

\* mpp_dev_irq is entered for a raised status and reads cur_task first, without a
\* lock or a reference.  The device has an interrupt line of its own.
DevIrq(d) ==
  /\ irq[d] # "none" /\ hpc[d] = "idle"
  /\ htask' = [htask EXCEPT ![d] = curTask[d]]
  /\ hpc' = [hpc EXCEPT ![d] = "status"]
  /\ UNCHANGED <<userVars, sessVars, spending, owner, countVars, stateVars,
                 queueVars, work, workerVars, irq, irqStatus, woken, ipc, itask,
                 runVars>>

HandlerReturns(d) ==
  /\ hpc' = [hpc EXCEPT ![d] = "idle"]
  /\ htask' = [htask EXCEPT ![d] = None]

\* dev_ops->irq: vdpu_irq reads and clears the status, IRQ_NONE when a reset has
\* cleared it before.
DevIrqStatus(d) ==
  /\ hpc[d] = "status"
  /\ irqStatus' = [irqStatus EXCEPT ![d] = irq[d]]
  /\ irq' = [irq EXCEPT ![d] = "none"]
  /\ IF irq[d] = "none" THEN HandlerReturns(d)
     ELSE hpc' = [hpc EXCEPT ![d] = "handle"] /\ htask' = htask
  /\ UNCHANGED <<userVars, sessVars, spending, owner, countVars, stateVars,
                 queueVars, work, workerVars, woken, ipc, itask, runVars>>

\* Whoever set HANDLE first completes the task.
DevIrqHandle(d) ==
  LET t == htask[d] IN
  /\ hpc[d] = "handle" /\ Live(t)
  /\ IF Unhandled(t)
     THEN /\ flags' = [flags EXCEPT ![t] = @ \cup {"HANDLE"}]
          /\ hpc' = [hpc EXCEPT ![d] = "cancel"]
          /\ htask' = htask
     ELSE HandlerReturns(d) /\ flags' = flags
  /\ UNCHANGED <<userVars, sessVars, spending, owner, countVars, abort, timer,
                 queueVars, work, workerVars, irq, irqStatus, woken, ipc, itask,
                 runVars>>

\* The timeout work and the poller have finished and freed the task since the
\* handler read cur_task: test_and_set_bit writes into freed memory, and the
\* model says nothing of what follows.
DevIrqWild(d) ==
  /\ hpc[d] = "handle" /\ ~Live(htask[d])
  /\ hpc' = [hpc EXCEPT ![d] = "wild"]
  /\ UNCHANGED <<userVars, sessVars, spending, owner, countVars, stateVars,
                 queueVars, work, workerVars, irq, irqStatus, htask, woken, ipc,
                 itask, runVars>>

Wild == \E d \in Devices : hpc[d] = "wild"

\* cancel_delayed_work does not wait for a work function that has started.
DevIrqWake(d) ==
  LET t == htask[d] IN
  /\ hpc[d] = "cancel"
  /\ timer' = [timer EXCEPT ![t] = IF @ = "armed" THEN "off" ELSE @]
  /\ flags' = [flags EXCEPT ![t] = @ \cup {"IRQ"}]
  /\ woken' = [woken EXCEPT ![d] = TRUE]
  /\ HandlerReturns(d)
  /\ UNCHANGED <<userVars, sessVars, spending, owner, countVars, abort,
                 queueVars, work, workerVars, irq, irqStatus, ipc, itask, runVars>>

HardIrq(d) ==
  \/ DevIrq(d) \/ DevIrqStatus(d) \/ DevIrqHandle(d) \/ DevIrqWild(d)
  \/ DevIrqWake(d)

\* mpp_dev_isr_sched -> vdpu_isr
Isr(d) ==
  /\ woken[d] /\ ipc[d] = "idle"
  /\ woken' = [woken EXCEPT ![d] = FALSE]
  /\ itask' = [itask EXCEPT ![d] = curTask[d]]
  /\ curTask' = [curTask EXCEPT ![d] = None]
  /\ resetRequest' = [resetRequest EXCEPT
                        ![d] = IF irqStatus[d] = "error" THEN @ + 1 ELSE @]
  /\ ipc' = [ipc EXCEPT ![d] = "finish"]
  /\ UNCHANGED <<userVars, sessVars, spending, owner, countVars, stateVars,
                 queueVars, work, workerVars, irq, irqStatus, hpc, htask, hw,
                 powered>>

\* Mutants: the status survives the reset; the request is decremented, not cleared.
DevReset_KeepStatus(d) ==
  /\ hw' = [hw EXCEPT ![d] = None]
  /\ resetRequest' = [resetRequest EXCEPT ![d] = 0]
  /\ irq' = irq
DevReset_Decrement(d) ==
  /\ hw' = [hw EXCEPT ![d] = None]
  /\ irq' = [irq EXCEPT ![d] = "none"]
  /\ resetRequest' = [resetRequest EXCEPT ![d] = @ - 1]

\* mpp_dev_reset: vdpu_reset stops the device and clears its status.
DevReset(d) ==
  /\ hw' = [hw EXCEPT ![d] = None]
  /\ irq' = [irq EXCEPT ![d] = "none"]
  /\ resetRequest' = [resetRequest EXCEPT ![d] = 0]

\* Mutant: one request is not enough.
NeedsReset_OffByOne(d) == resetRequest[d] > 1

NeedsReset(d) == resetRequest[d] > 0

\* mpp_task_finish up to the wake_up
IsrFinish(d) ==
  LET t == itask[d] IN
  /\ ipc[d] = "finish"
  /\ IF NeedsReset(d) THEN DevReset(d)
                      ELSE UNCHANGED <<hw, irq, resetRequest>>
  /\ powered' = [powered EXCEPT ![d] = @ - 1]
  /\ flags' = [flags EXCEPT ![t] = @ \cup {"FINISH", "DONE"}]
  /\ ipc' = [ipc EXCEPT ![d] = "pop"]
  /\ UNCHANGED <<userVars, sessVars, spending, owner, countVars, abort, timer,
                 queueVars, work, workerVars, irqStatus, hpc, htask, woken, itask,
                 curTask>>

\* mpp_task_finish: mpp_taskqueue_pop_running
IsrPop(d) ==
  /\ ipc[d] = "pop"
  /\ qrunning' = qrunning \ {itask[d]}
  /\ Put(itask[d])
  /\ itask' = [itask EXCEPT ![d] = None]
  /\ ipc' = [ipc EXCEPT ![d] = "trigger"]
  /\ UNCHANGED <<userVars, sessVars, spending, owner, stateVars, qpending,
                 qdetach, work, workerVars, irq, irqStatus, hpc, htask, woken, runVars>>

\* Mutant: the isr does not trigger the queue.
IsrTrigger_Missing(d) ==
  /\ ipc[d] = "trigger"
  /\ ipc' = [ipc EXCEPT ![d] = "idle"]
  /\ UNCHANGED <<userVars, sessVars, spending, owner, countVars, stateVars,
                 queueVars, work, workerVars, irq, irqStatus, hpc, htask, woken, itask,
                 runVars>>

\* mpp_dev_isr_sched triggers the queue to run the next task.
IsrTrigger(d) ==
  /\ ipc[d] = "trigger"
  /\ work' = work \cup {d}
  /\ ipc' = [ipc EXCEPT ![d] = "idle"]
  /\ UNCHANGED <<userVars, sessVars, spending, owner, countVars, stateVars,
                 queueVars, workerVars, irq, irqStatus, hpc, htask, woken, itask,
                 runVars>>

-----------------------------------------------------------------------------
(* mpp_task_timeout_work                                                    *)

TimeoutStart(t) ==
  /\ timer[t] = "armed"
  /\ TimersExpire
  /\ IF Unhandled(t)
     THEN /\ flags' = [flags EXCEPT ![t] = @ \cup {"HANDLE"}]
          /\ timer' = [timer EXCEPT ![t] = "reset"]
     ELSE /\ timer' = [timer EXCEPT ![t] = "off"]
          /\ flags' = flags
  /\ UNCHANGED <<userVars, sessVars, spending, owner, countVars, abort,
                 queueVars, work, workerVars, irqVars, runVars>>

TimeoutReset(t) ==
  LET d == DeviceOf(t) IN
  /\ timer[t] = "reset"
  /\ DevReset(d)
  /\ powered' = [powered EXCEPT ![d] = @ - 1]
  /\ flags' = [flags EXCEPT ![t] = @ \cup {"TIMEOUT", "DONE"}]
  /\ timer' = [timer EXCEPT ![t] = "pop"]
  /\ UNCHANGED <<userVars, sessVars, spending, owner, countVars, abort,
                 queueVars, work, workerVars, irqStatus, hpc, htask, woken, ipc,
                 itask, curTask>>

\* mpp_taskqueue_pop_running ends the work; the queue is not triggered and
\* cur_task keeps its value.
TimeoutPop(t) ==
  /\ timer[t] = "pop"
  /\ qrunning' = qrunning \ {t}
  /\ Put(t)
  /\ timer' = [timer EXCEPT ![t] = "off"]
  /\ UNCHANGED <<userVars, sessVars, spending, owner, flags, abort, qpending,
                 qdetach, work, workerVars, irqVars, runVars>>

-----------------------------------------------------------------------------
Ioctl(s) ==
  \/ PushPending(s) \/ TriggerSubmitted(s) \/ PutSubmitted(s)
  \/ WaitDone(s) \/ WaitTimeout(s) \/ PopSession(s)

Worker ==
  \/ \E d \in Devices : WorkerStart(d)
  \/ WorkerNoTask \/ WorkerDropAborted \/ WorkerTake \/ WorkerBusy
  \/ WorkerToRun \/ WorkerRun \/ WorkerRunFail
  \/ WorkerDetach \/ WorkerEnd \/ WorkerDeinitBusy \/ WorkerDeinit

IrqThread(d) == Isr(d) \/ IsrFinish(d) \/ IsrPop(d) \/ IsrTrigger(d)

Timeout(t) == TimeoutStart(t) \/ TimeoutReset(t) \/ TimeoutPop(t)

Next ==
  /\ ~Wild
  /\ \/ \E s \in Sessions :
          \/ Open(s) \/ Release(s) \/ ReleaseNoClient(s) \/ Poll(s) \/ Ioctl(s)
          \/ \E d \in Devices : InitClientType(s, d)
          \/ \E t \in Tasks : SendTask(s, t)
     \/ Worker
     \/ \E d \in Devices :
          \/ \E status \in {"ok", "error"} : HwDone(d, status)
          \/ HardIrq(d) \/ IrqThread(d)
     \/ \E t \in Tasks : Timeout(t)

Spec == Init /\ [][Next]_vars

\* Threads the kernel schedules keep running: an ioctl in progress, the worker,
\* interrupt delivery, irq threads and timers.  Opening, submitting, polling and
\* releasing are the client's choice.
ThreadFairness ==
  /\ \A s \in Sessions : WF_vars(Ioctl(s))
  /\ WF_vars(Worker)
  /\ \A d \in Devices : WF_vars(HardIrq(d)) /\ WF_vars(IrqThread(d))
  /\ \A t \in Tasks : WF_vars(Timeout(t))

\* The hardware finishes what it was started with.
HwFairness ==
  \A d \in Devices : WF_vars(\E status \in {"ok", "error"} : HwDone(d, status))

FairSpec == Spec /\ ThreadFairness /\ HwFairness

-----------------------------------------------------------------------------
(* Properties                                                               *)

\* The type of the state: every field of the C structures holds a value the
\* code can put there.  Reference and task counters are checked exactly below.
SessionTypeOK ==
  /\ sess \in [Sessions -> {"none", "open", "released", "freed"}]
  /\ sdev \in [Sessions -> Devices \cup {None}]
  /\ spending \in [Sessions -> Seq(Tasks)]
  /\ upc \in [Sessions -> {"idle", "push", "trigger", "put", "wait", "pop"}]
  /\ utask \in [Sessions -> Tasks \cup {None}]

TaskTypeOK ==
  /\ owner \in [Tasks -> Sessions \cup {None}]
  /\ flags \in [Tasks -> SUBSET Flag]
  /\ abort \in [Tasks -> Nat]
  /\ timer \in [Tasks -> {"off", "armed", "reset", "pop"}]

CountTypeOK ==
  /\ ref \in [Tasks -> Int]
  /\ taskCount \in [Sessions -> Int]
  /\ devCount \in [Devices -> Int]

QueueTypeOK ==
  /\ qpending \in Seq(Tasks) /\ qrunning \in SUBSET Tasks
  /\ qdetach \in Seq(Sessions)
  /\ work \in SUBSET Devices
  /\ wpc \in {"idle", "get", "prepare", "run", "detach", "deinit"}
  /\ wtask \in Tasks \cup {None} /\ wsess \in Sessions \cup {None}

DeviceTypeOK ==
  /\ curTask \in [Devices -> Tasks \cup {None}]
  /\ hw \in [Devices -> Tasks \cup {None}]
  /\ irq \in [Devices -> {"none", "ok", "error"}]
  /\ irqStatus \in [Devices -> {"none", "ok", "error"}]
  /\ hpc \in [Devices -> {"idle", "status", "handle", "cancel", "wild"}]
  /\ htask \in [Devices -> Tasks \cup {None}]
  /\ woken \in [Devices -> BOOLEAN]
  /\ ipc \in [Devices -> {"idle", "finish", "pop", "trigger"}]
  /\ itask \in [Devices -> Tasks \cup {None}]
  /\ resetRequest \in [Devices -> Nat]
  /\ powered \in [Devices -> Int]

TypeOK ==
  SessionTypeOK /\ TaskTypeOK /\ CountTypeOK /\ QueueTypeOK /\ DeviceTypeOK

Submitting(t) == upc[owner[t]] \in {"push", "trigger", "put"} /\ utask[owner[t]] = t

\* task->ref counts exactly the holders the code took it for: the session
\* list, the queue list the task is in, and the submitting ioctl.  A
\* kref_get or kref_put too many or too few on any path would break it.
RefCountExact ==
  \A t \in Tasks : owner[t] # None =>
    LET one(b) == IF b THEN 1 ELSE 0 IN
    ref[t] = one(t \in Listed(spending[owner[t]])) + one(t \in Listed(qpending))
             + one(t \in qrunning) + one(Submitting(t))

\* A task pointer that is used without a reference of its own (the poller's,
\* the worker's, cur_task while the irq thread will use it, the timeout work's)
\* points to a task that has not been freed.  The hard handler's, read from
\* cur_task before anything else, does so once it has won HANDLE; until then the
\* one way it can come to dangle is that the timeout work completed the task in
\* the middle of the handler.
PointersAreLive ==
  /\ \A s \in Sessions : upc[s] # "idle" => Live(utask[s])
  /\ wpc \in {"prepare", "run"} => Live(wtask)
  /\ \A d \in Devices :
       /\ irq[d] # "none" \/ woken[d] => Live(curTask[d])
       /\ hpc[d] = "cancel" => Live(htask[d])
       /\ hpc[d] \in {"status", "handle"} =>
            Live(htask[d]) \/ Has(htask[d], "TIMEOUT")
       /\ ipc[d] \in {"finish", "pop"} => Live(itask[d])
  /\ \A t \in Tasks : timer[t] # "off" => Live(t)

\* session->task_count is the number of the session's tasks that are not freed,
\* and mpp->task_count that of the device's tasks pushed to the queue: deinit,
\* RESET_SESSION and shutdown decide by these counters.
TaskCountsExact ==
  /\ \A s \in Sessions :
       taskCount[s] = Cardinality({t \in Tasks : Live(t) /\ owner[t] = s})
  /\ \A d \in Devices :
       devCount[d] = Cardinality({t \in Tasks :
         /\ Live(t) /\ DeviceOf(t) = d
         /\ ~(upc[owner[t]] = "push" /\ utask[owner[t]] = t)})

\* A queue runs one task at a time whatever device it is for, and a busy device
\* executes the task in running_list: devices of one queue share resources
\* (power domain, iommu, grf), so two of them must not be started together.
OneTaskRuns ==
  /\ \A t, u \in qrunning : t = u
  /\ \A d \in Devices : hw[d] # None => hw[d] \in qrunning /\ DeviceOf(hw[d]) = d

\* A started task is completed either by the interrupt path or by the timeout
\* work, never by both, and by no path that did not take TASK_STATE_HANDLE.
CompletedOnce ==
  \A t \in Tasks :
    /\ Has(t, "DONE") => Has(t, "HANDLE")
    /\ ~(Has(t, "IRQ") /\ Has(t, "TIMEOUT"))
    /\ Has(t, "FINISH") => Has(t, "IRQ") /\ ~Has(t, "TIMEOUT")

\* An interrupt status, a woken irq thread and its local task all belong to the
\* task the device was started with: cur_task is neither NULL nor another task
\* when mpp_dev_irq and the isr read it, although they read it separately.  A
\* handler overtaken by the timeout work, whose task is no longer the one that
\* raised the status it reads, finds HANDLE set and never completes anything.
IrqServesItsTask ==
  \A d \in Devices :
    /\ hw[d] # None => curTask[d] = hw[d]
    /\ irq[d] # "none" \/ woken[d] =>
         /\ curTask[d] # None /\ curTask[d] \in qrunning
         /\ DeviceOf(curTask[d]) = d
    /\ woken[d] => Has(curTask[d], "HANDLE")
    /\ hpc[d] \in {"status", "handle"} =>
         /\ htask[d] # None
         /\ \/ Has(htask[d], "HANDLE")
            \/ htask[d] = curTask[d] /\ htask[d] \in qrunning
    /\ hpc[d] = "cancel" =>
         /\ htask[d] = curTask[d] /\ htask[d] \in qrunning
         /\ Has(htask[d], "HANDLE")
    /\ ipc[d] \in {"finish", "pop"} => itask[d] \in qrunning /\ Has(itask[d], "IRQ")

\* mpp_power_on and mpp_power_off balance per device: it is powered once while a
\* task it was started with is not done, else not at all.
PowerBalanced ==
  \A d \in Devices :
    powered[d] = Cardinality({t \in Tasks :
      /\ owner[t] # None /\ DeviceOf(t) = d
      /\ Has(t, "START") /\ ~Has(t, "DONE")})

\* mpp_session_deinit frees only a session nothing refers to any more: no task
\* not yet freed, no list entry, no detach request.  The timeout work, the isr
\* and mpp_free_task all follow task->session.
FreedSessionIsQuiet ==
  \A s \in Sessions : sess[s] = "freed" =>
    /\ taskCount[s] = 0 /\ spending[s] = <<>>
    /\ s \notin Listed(qdetach) /\ s # wsess
    /\ \A t \in Tasks : owner[t] = s => ~Live(t)

\* The order of pushes in mpp_process_task_default: a task in the queue is in
\* its session's list too, until its poller has seen it done or given it up.
QueuedIsInSession ==
  \A t \in Listed(qpending) \cup qrunning :
    t \in Listed(spending[owner[t]]) \/ Has(t, "DONE") \/ abort[t] > 0

\* A device is started only when nothing of an earlier task is outstanding on
\* it: no interrupt to serve, no handler that took HANDLE, no irq thread to run,
\* no reset requested by an error status and not yet done.
StartsClean ==
  [][\A d \in Devices : hw[d] = None /\ hw'[d] # None =>
       /\ irq[d] = "none" /\ hpc[d] # "cancel" /\ ~woken[d]
       /\ ipc[d] \in {"idle", "trigger"} /\ resetRequest[d] = 0]_vars

-----------------------------------------------------------------------------
(* The inductive invariant behind OneTaskRuns, CompletedOnce and             *)
(* IrqServesItsTask.                                                        *)

\* No thread but the worker has touched the task.
Fresh(t) ==
  /\ flags[t] \cap {"START", "HANDLE", "IRQ", "FINISH", "TIMEOUT", "DONE"} = {}
  /\ timer[t] = "off"

Placed(t) == owner[t] \in Sessions /\ DeviceOf(t) \in Devices

Started(t) == Placed(t) /\ t \in qrunning /\ Has(t, "START")

\* Local task pointers are set where the code uses them.
PointersSet ==
  /\ \A s \in Sessions :
       /\ upc[s] # "idle" => utask[s] \in Tasks
       /\ upc[s] \in {"push", "trigger", "put"} =>
            owner[utask[s]] = s /\ sdev[s] \in Devices
  /\ wpc \in {"prepare", "run"} => wtask \in Tasks

\* A task is in pending_list once, before anything happened to it; the worker
\* holds the only one in running_list until it is started.
ListsOK ==
  /\ \A i, j \in DOMAIN qpending : qpending[i] = qpending[j] => i = j
  /\ \A t \in Listed(qpending) : Fresh(t) /\ t \notin qrunning /\ Placed(t)
  /\ \A s \in Sessions : upc[s] = "push" =>
       Fresh(utask[s]) /\ utask[s] \notin Listed(qpending) \cup qrunning
  /\ \A t \in Tasks : owner[t] = None =>
       Fresh(t) /\ t \notin Listed(qpending) \cup qrunning
  /\ wpc = "prepare" => wtask \in Listed(qpending)
  /\ wpc = "run" => qrunning = {wtask} /\ Fresh(wtask) /\ Placed(wtask)
  /\ \A t, u \in qrunning : t = u

\* The stages a started task goes through on its device, each exclusive of the
\* later ones: executing, status raised, status read, handled by the irq, thread
\* woken, finished by the thread.  A handler whose task has HANDLE set before it
\* tests it was overtaken by the timeout work.
StagesOK ==
  \A d \in Devices :
    LET c == curTask[d]
        h == htask[d]
        quiet == ipc[d] \notin {"finish", "pop"}
    IN
    /\ hw[d] # None =>
         /\ c = hw[d] /\ Started(c) /\ DeviceOf(c) = d
         /\ ~Has(c, "IRQ") /\ ~Has(c, "DONE")
         /\ timer[c] = IF Has(c, "HANDLE") THEN "reset" ELSE "armed"
         /\ irq[d] = "none" /\ hpc[d] # "cancel" /\ ~woken[d] /\ quiet
    /\ irq[d] # "none" =>
         /\ c \in Tasks /\ Started(c) /\ DeviceOf(c) = d
         /\ ~Has(c, "IRQ") /\ ~Has(c, "DONE")
         /\ timer[c] = IF Has(c, "HANDLE") THEN "reset" ELSE "armed"
         /\ hpc[d] # "cancel" /\ ~woken[d] /\ quiet
    /\ hpc[d] \in {"status", "handle"} =>
         /\ h \in Tasks /\ ~Has(h, "IRQ")
         /\ Has(h, "HANDLE") => timer[h] = "reset" \/ Has(h, "TIMEOUT")
         /\ ~Has(h, "HANDLE") => h = c
    /\ hpc[d] = "status" /\ ~Has(h, "HANDLE") => irq[d] # "none"
    /\ hpc[d] = "handle" /\ ~Has(h, "HANDLE") =>
         /\ Started(h) /\ DeviceOf(h) = d /\ ~Has(h, "DONE")
         /\ timer[h] = "armed"
         /\ hw[d] = None /\ irq[d] = "none" /\ ~woken[d] /\ quiet
    /\ hpc[d] = "cancel" =>
         /\ h = c /\ c \in Tasks /\ Started(c) /\ DeviceOf(c) = d
         /\ Has(c, "HANDLE") /\ ~Has(c, "IRQ") /\ ~Has(c, "DONE")
         /\ timer[c] \in {"armed", "off"} /\ ~woken[d] /\ quiet
    /\ woken[d] =>
         /\ c \in Tasks /\ Started(c) /\ DeviceOf(c) = d
         /\ Has(c, "HANDLE") /\ Has(c, "IRQ") /\ ~Has(c, "DONE")
         /\ timer[c] = "off" /\ quiet
    /\ ~quiet =>
         /\ itask[d] \in Tasks /\ Started(itask[d]) /\ DeviceOf(itask[d]) = d
         /\ Has(itask[d], "HANDLE") /\ Has(itask[d], "IRQ")
         /\ timer[itask[d]] = "off"

\* The timeout work is armed or in progress only for the started task.
TimersOK ==
  \A t \in Tasks :
    /\ timer[t] # "off" => Started(t) /\ ~Has(t, "IRQ")
    /\ timer[t] \in {"armed", "reset"} => ~Has(t, "DONE")
    /\ timer[t] \in {"reset", "pop"} => Has(t, "HANDLE")
    /\ timer[t] = "pop" => Has(t, "DONE")
    /\ Has(t, "TIMEOUT") => Has(t, "DONE")

\* Strengthening of OneTaskRuns, CompletedOnce and IrqServesItsTask: the list,
\* flag, interrupt and timer a started task is in agree at every step of the
\* worker, the irq, its thread and the timeout work.
ExclusionInv ==
  TypeOK /\ PointersSet /\ ListsOK /\ StagesOK /\ TimersOK /\ CompletedOnce

-----------------------------------------------------------------------------
\* With hardware that answers before the timers expire, every submitted task is
\* done, although the works of several devices and submitters coalesce and a
\* worker run that finds the queue busy leaves the pending task to a later one.
EveryTaskCompletes ==
  \A t \in Tasks : owner[t] # None ~> Has(t, "DONE")

\* A started task is done even if the hardware never answers: whichever of the
\* interrupt and the timeout work comes first completes it, and a status read by
\* a handler the timeout work has overtaken leaves its task to that work.
StartedTaskCompletes ==
  \A t \in Tasks : Has(t, "START") ~> Has(t, "DONE") \/ Wild

\* mpp_dev_release: "wait for task all done".  A released session is freed once
\* its tasks are done.
ReleasedSessionIsFreed ==
  \A s \in Sessions : sess[s] = "released" ~> sess[s] = "freed"

\* mpp_task_worker_default: "if task timeout and aborted, remove it".
AbortedIsRemoved ==
  \A t \in Tasks : (t \in Listed(qpending) /\ abort[t] > 0) ~> t \notin Listed(qpending)

\* mpp_process_task_default: "trigger current queue to run task".  A task behind
\* an aborted one leaves the queue once the worker has been triggered.
TaskBehindAbortedRuns ==
  \A t \in Tasks :
    (/\ wpc = "get" /\ Len(qpending) > 1 /\ abort[Head(qpending)] > 0
     /\ qpending[2] = t /\ abort[t] = 0)
    ~> t \notin Listed(qpending)

\* mpp_dev_irq: after an abort request the "isr should not to response".
AbortedIsNotServedByIrq ==
  [][\A t \in Tasks : Has(t, "IRQ")' /\ ~Has(t, "IRQ") => abort[t] = 0]_vars
=============================================================================
