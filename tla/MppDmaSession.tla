---------------------------- MODULE MppDmaSession ----------------------------
(***************************************************************************)
(* The dma buffers of one MPP session on RK3588 (mpp_iommu.c) and the      *)
(* callers in mpp_common.c: ioctl threads that import file descriptors for *)
(* a new task (mpp_task_attach_fd) or for user space (TRANS_FD_TO_IOVA),   *)
(* release them (RELEASE_FD), reset or close the session, and the irq      *)
(* thread or worker that frees a finished task (mpp_task_finalize).        *)
(*                                                                         *)
(* A buffer is one of the dma_bufs of the session.  The lists are sets:    *)
(* which buffer of used_list is the oldest is left open.  list_mutex   *)
(* protects the lists; mpp_dma_import_fd takes it several times and not at *)
(* all between finding a buffer and taking a reference to it.              *)
(*                                                                         *)
(* A dmabuf is the file descriptor that names it.  A reference put when    *)
(* there is none, and any use of the session after its kfree, is undefined *)
(* behaviour: the model stops there, and where the pool has dropped two    *)
(* references to one buffer, the second of which was somebody else's, or   *)
(* an import has returned a buffer of another dmabuf.                      *)
(***************************************************************************)
EXTENDS Integers, FiniteSets

CONSTANTS
    Fds, Tasks, Buffers,
    Threads,        \* the threads of the process that use the session
    Uses,           \* the fds in the registers of each task
    MaxBuffers,     \* max_buffers
    MaxTrans,       \* bound on the references user space holds to an fd
    MayReset,       \* does the process send RESET_SESSION?
    None

ASSUME DmaAssumption ==
    /\ Uses \in [Tasks -> SUBSET Fds]
    /\ IsFiniteSet(Tasks) /\ IsFiniteSet(Fds) /\ IsFiniteSet(Buffers) /\ IsFiniteSet(Threads)
    /\ MaxBuffers \in Nat /\ MaxTrans \in Nat /\ MayReset \in BOOLEAN
    /\ None \notin Fds \cup Tasks \cup Buffers

VARIABLES
    \* struct mpp_dma_session
    used, unused,   \* used_list, unused_list
    count,          \* buffer_count
    session,        \* "live", "reset" or "closed"
    \* struct mpp_dma_buffer
    dmabuf,         \* of a mapped buffer
    ref,
    \* struct mpp_task
    task,           \* "new", "building", "running", "freeing" or "end"
    regions,        \* mem_region_list: pairs of fd and buffer
    \* ioctl threads
    pc, fd, owner, buffer,
    \* history
    outside,        \* TRANS_FD_TO_IOVA references to a buffer
    client,         \* fds user space has not released as often as translated
    dropped,        \* references to a mapped buffer put though no holder gave one up
    twice,          \* that happened twice to one buffer
    mixed,          \* an import returned a buffer of another dmabuf
    undefined

dma  == <<used, unused, count, session, dmabuf, ref>>
work == <<task, regions>>
thr  == <<pc, fd, owner, buffer>>
hist == <<outside, client, dropped, twice, mixed, undefined>>
vars == <<dma, work, thr, hist>>

Set(f, x, v) == [f EXCEPT ![x] = v]

TypeOK ==
    /\ used \subseteq Buffers /\ unused \subseteq Buffers
    /\ count \in Int
    /\ session \in {"live", "reset", "closed"}
    /\ dmabuf \in [Buffers -> Fds \cup {None}] /\ ref \in [Buffers -> Int]
    /\ task \in [Tasks -> {"new", "building", "running", "freeing", "end"}]
    /\ regions \in [Tasks -> SUBSET (Fds \X Buffers)]
    /\ pc \in [Threads -> {"idle", "next", "evict", "find", "get", "take", "map", "add", "found"}]
    /\ fd \in [Threads -> Fds \cup {None}]
    /\ owner \in [Threads -> Tasks \cup {None}]
    /\ buffer \in [Threads -> Buffers \cup {None}]
    /\ outside \in [Buffers -> Nat] /\ client \in [Fds -> Nat] /\ dropped \in [Buffers -> Nat]
    /\ twice \in BOOLEAN /\ mixed \in BOOLEAN /\ undefined \in BOOLEAN

Init ==
    /\ used = {} /\ unused = Buffers /\ count = 0 /\ session = "live"
    /\ dmabuf = [b \in Buffers |-> None] /\ ref = [b \in Buffers |-> 0]
    /\ task = [t \in Tasks |-> "new"] /\ regions = [t \in Tasks |-> {}]
    /\ pc = [p \in Threads |-> "idle"] /\ fd = [p \in Threads |-> None]
    /\ owner = [p \in Threads |-> None] /\ buffer = [p \in Threads |-> None]
    /\ outside = [b \in Buffers |-> 0] /\ client = [f \in Fds |-> 0]
    /\ dropped = [b \in Buffers |-> 0]
    /\ twice = FALSE /\ mixed = FALSE /\ undefined = FALSE

-----------------------------------------------------------------------------
(* The pool *)

\* kref_put under list_mutex with mpp_dma_release_buffer for the last one.
Put(b) ==
    /\ ref' = Set(ref, b, ref[b] - 1)
    /\ undefined' = (undefined \/ ref[b] = 0 \/ session # "live")
    /\ IF ref[b] = 1
       THEN /\ count' = count - 1
            /\ used' = used \ {b} /\ unused' = unused \cup {b}
            /\ dmabuf' = Set(dmabuf, b, None)
       ELSE UNCHANGED <<count, used, unused, dmabuf>>
    /\ UNCHANGED session

\* A reference that belongs to nobody but the pool, if to anybody, is put.
Drop(b) ==
    /\ Put(b)
    /\ dropped' = Set(dropped, b, dropped[b] + 1)
    /\ twice' = (twice \/ dropped[b] > 0)

\* mpp_dma_find_buffer_fd, without a reference.
Found(f) == {b \in used : dmabuf[b] = f}

-----------------------------------------------------------------------------
(* mpp_dma_import_fd by thread p *)

Step(p, from, to) == pc[p] = from /\ pc' = Set(pc, p, to)

\* mpp_dma_remove_extra_buffer: the oldest buffer loses a reference, and
\* stays in used_list if there are others.
Evict(p) ==
    /\ Step(p, "evict", "find")
    /\ \/ count > MaxBuffers /\ \E b \in used : Drop(b)
       \/ (count <= MaxBuffers \/ used = {}) /\ UNCHANGED <<dma, dropped, twice, undefined>>
    /\ UNCHANGED <<work, fd, owner, buffer, outside, client, mixed>>

Find(p) ==
    /\ \/ /\ Found(fd[p]) = {} /\ Step(p, "find", "take") /\ UNCHANGED buffer
       \/ /\ \E b \in Found(fd[p]) : buffer' = Set(buffer, p, b)
          /\ Step(p, "find", "get")
    /\ UNCHANGED <<dma, work, fd, owner, hist>>

\* The caller has a reference to b: it is put into the task's
\* mem_region_list or its iova given to user space.
Return(p, b) ==
    /\ IF owner[p] = None
       THEN /\ outside' = Set(outside, b, outside[b] + 1)
            /\ client' = Set(client, fd[p], client[fd[p]] + 1)
            /\ UNCHANGED regions
       ELSE /\ regions' = Set(regions, owner[p], regions[owner[p]] \cup {<<fd[p], b>>})
            /\ UNCHANGED <<outside, client>>
    /\ pc' = Set(pc, p, IF owner[p] = None THEN "idle" ELSE "next")
    /\ fd' = Set(fd, p, None) /\ buffer' = Set(buffer, p, None)
    /\ UNCHANGED <<task, owner, twice, undefined, session>>

\* Mutant: the buffer is used without a reference of its own.
OneMore_Not(n) == n

OneMore(n) == n + 1

\* kref_get_unless_zero
Get(p) ==
    LET b == buffer[p]
    IN  /\ pc[p] = "get" /\ ref[b] # 0
        /\ ref' = Set(ref, b, OneMore(ref[b]))
        /\ mixed' = (mixed \/ dmabuf[b] # fd[p])
        /\ Return(p, b)
        /\ UNCHANGED <<used, unused, count, dmabuf, dropped>>

Missing(p) ==
    /\ Step(p, "get", "take") /\ ref[buffer[p]] = 0
    /\ buffer' = Set(buffer, p, None)
    /\ UNCHANGED <<dma, work, fd, owner, hist>>

\* The import failed: the task is finalized, TRANS_FD_TO_IOVA returns.
Give(p) ==
    /\ pc' = Set(pc, p, "idle") /\ fd' = Set(fd, p, None)
    /\ buffer' = Set(buffer, p, None) /\ owner' = Set(owner, p, None)
    /\ task' = IF owner[p] = None THEN task ELSE Set(task, owner[p], "freeing")

\* Mutant: list_first_entry_or_null is not tested.
Free_Untested == unused \cup {x \in {None} : unused = {}}

Free == unused

\* The next of unused_list, or -ENOMEM.
Take(p) ==
    /\ Step(p, "take", "map")
    /\ \E b \in Free : buffer' = Set(buffer, p, b) /\ unused' = unused \ {b}
    /\ UNCHANGED <<used, count, session, dmabuf, ref, work, fd, owner, hist>>

TakeNone(p) ==
    /\ pc[p] = "take" /\ unused = {}
    /\ Give(p)
    /\ UNCHANGED <<dma, regions, hist>>

\* Mutant: only the reference of kref_init.
FirstRefs_One == 1

FirstRefs == 2

\* dma_buf_attach, dma_buf_map_attachment and kref_init.
\* "Increase the reference for used outside the buffer pool"
Map(p) ==
    /\ Step(p, "map", "add")
    /\ dmabuf' = Set(dmabuf, buffer[p], fd[p]) /\ ref' = Set(ref, buffer[p], FirstRefs)
    /\ dropped' = Set(dropped, buffer[p], 0)
    /\ UNCHANGED <<used, unused, count, session, work, fd, owner, buffer, outside, client,
                   twice, mixed, undefined>>

\* Mutant: the buffer goes to no list.
Unuse_Not(b) == UNCHANGED unused

Unuse(b) == unused' = unused \cup {b}

MapFails(p) ==
    /\ pc[p] = "map"
    /\ Unuse(buffer[p])
    /\ Give(p)
    /\ UNCHANGED <<used, count, session, dmabuf, ref, regions, hist>>

Add(p) ==
    LET b == buffer[p]
    IN  /\ pc[p] = "add"
        /\ count' = count + 1
        /\ used' = used \cup {b}
        /\ Return(p, b)
        /\ UNCHANGED <<unused, dmabuf, ref, dropped, mixed>>

-----------------------------------------------------------------------------
(* ioctls of thread p *)

\* mpp_process_task: alloc_task translates the registers.
Submit(p, t) ==
    /\ Step(p, "idle", "next") /\ task[t] = "new"
    /\ task' = Set(task, t, "building") /\ owner' = Set(owner, p, t)
    /\ UNCHANGED <<dma, regions, fd, buffer, hist>>

\* mpp_task_attach_fd: an fd the task has imported is only copied.
AttachFd(p) ==
    LET t == owner[p]
    IN  /\ Step(p, "next", "evict")
        /\ \E f \in Uses[t] \ {r[1] : r \in regions[t]} : fd' = Set(fd, p, f)
        /\ UNCHANGED <<dma, work, owner, buffer, hist>>

Queue(p) ==
    LET t == owner[p]
    IN  /\ Step(p, "next", "idle") /\ Uses[t] = {r[1] : r \in regions[t]}
        /\ task' = Set(task, t, "running") /\ owner' = Set(owner, p, None)
        /\ UNCHANGED <<dma, regions, fd, buffer, hist>>

Trans(p, f) ==
    /\ Step(p, "idle", "evict") /\ client[f] < MaxTrans
    /\ fd' = Set(fd, p, f)
    /\ UNCHANGED <<dma, work, owner, buffer, hist>>

\* mpp_dma_release_fd finds the buffer and then puts it.
ReleaseFd(p, f) ==
    /\ session = "live" /\ client[f] > 0
    /\ \/ /\ Found(f) = {} /\ pc[p] = "idle" /\ UNCHANGED <<pc, buffer>>
       \/ /\ Step(p, "idle", "found")
          /\ \E b \in Found(f) : buffer' = Set(buffer, p, b)
    /\ client' = Set(client, f, client[f] - 1)
    /\ UNCHANGED <<dma, work, fd, owner, outside, dropped, twice, mixed, undefined>>

PutFd(p) ==
    LET b == buffer[p]
    IN  /\ Step(p, "found", "idle")
        /\ IF outside[b] > 0
           THEN Put(b) /\ outside' = Set(outside, b, outside[b] - 1) /\ UNCHANGED <<dropped, twice>>
           ELSE Drop(b) /\ UNCHANGED outside
        /\ buffer' = Set(buffer, p, None)
        /\ UNCHANGED <<work, fd, owner, client, mixed>>

NoTask == \A t \in Tasks : task[t] \in {"new", "building", "end"}
Importing(p) == pc[p] \in {"evict", "find", "get", "take", "map", "add"}

\* mpp_dma_session_destroy: every buffer in used_list loses one reference,
\* then the session is freed, mapped buffers or not.
Destroy ==
    LET last == {b \in used : ref[b] = 1}
    IN  /\ ref' = [b \in Buffers |-> IF b \in used THEN ref[b] - 1 ELSE ref[b]]
        /\ used' = used \ last /\ unused' = unused \cup last
        /\ count' = count - Cardinality(last)
        /\ dmabuf' = [b \in Buffers |-> IF b \in last THEN None ELSE dmabuf[b]]

\* MPP_CMD_RESET_SESSION, iommu_info->rw_sem held for writing;
\* session->dma keeps its value.
Reset(p) ==
    /\ MayReset /\ pc[p] = "idle" /\ NoTask /\ session = "live"
    /\ \A q \in Threads : ~Importing(q)
    /\ session' = "reset"
    /\ Destroy
    /\ UNCHANGED <<work, thr, hist>>

\* The last file reference is gone: mpp_session_deinit_default.
Close ==
    /\ \A p \in Threads : pc[p] = "idle"
    /\ NoTask /\ session # "closed"
    /\ session' = "closed"
    /\ IF session = "live"
       THEN Destroy /\ UNCHANGED undefined
       ELSE undefined' = TRUE /\ UNCHANGED <<used, unused, count, dmabuf, ref>>
    /\ UNCHANGED <<work, thr, outside, client, dropped, twice, mixed>>

\* session->dma of a reset session is used.
UseAfterReset(p) ==
    /\ session = "reset" /\ (Importing(p) \/ pc[p] = "found")
    /\ undefined' = TRUE
    /\ UNCHANGED <<dma, work, thr, outside, client, dropped, twice, mixed>>

-----------------------------------------------------------------------------
(* Tasks *)

\* The last reference to a task that has run.
FreeTask(t) ==
    /\ task[t] = "running"
    /\ task' = Set(task, t, "freeing")
    /\ UNCHANGED <<dma, regions, thr, hist>>

\* Mutant: only the first import of a dmabuf is released.
Region_Kept(b) == IF ref[b] > 2 THEN UNCHANGED <<dma, undefined>> ELSE Put(b)

Region(b) == Put(b)

\* mpp_task_finalize, one mpp_dma_release for each region.
Finalize(t) ==
    /\ task[t] = "freeing"
    /\ \E r \in regions[t] :
           /\ Region(r[2])
           /\ regions' = Set(regions, t, regions[t] \ {r})
    /\ UNCHANGED <<task, thr, outside, client, dropped, twice, mixed>>

Finalized(t) ==
    /\ task[t] = "freeing" /\ regions[t] = {}
    /\ task' = Set(task, t, "end")
    /\ UNCHANGED <<dma, regions, thr, hist>>

-----------------------------------------------------------------------------
Import(p) ==
    \/ Evict(p) \/ Find(p) \/ Get(p) \/ Missing(p) \/ Take(p) \/ TakeNone(p)
    \/ Map(p) \/ MapFails(p) \/ Add(p)

Thread(p) ==
    \/ session = "live" /\ (Import(p) \/ PutFd(p))
    \/ UseAfterReset(p)
    \/ AttachFd(p) \/ Queue(p)

Request(p) ==
    \/ Reset(p)
    \/ /\ session # "closed"
       /\ \/ \E t \in Tasks : Submit(p, t)
          \/ \E f \in Fds : Trans(p, f) \/ ReleaseFd(p, f)

TaskStep(t) == FreeTask(t) \/ Finalize(t) \/ Finalized(t)

Next ==
    /\ ~undefined /\ ~twice /\ ~mixed
    /\ \/ \E p \in Threads : Thread(p) \/ Request(p)
       \/ \E t \in Tasks : TaskStep(t)
       \/ Close

Spec == Init /\ [][Next]_vars

-----------------------------------------------------------------------------
(* Properties *)

\* The regions of tasks that hold buffer b.
Held(b) == {x \in Tasks \X Fds : <<x[2], b>> \in regions[x[1]]}
Adding(b) == \E p \in Threads : pc[p] = "add" /\ buffer[p] = b

\* A mapped buffer has one reference for the pool, one for each region of a
\* task and for each translation for user space, and one for the import
\* under way, without the one that mpp_dma_remove_extra_buffer or a
\* RELEASE_FD for another buffer of the dmabuf took.  The second time it is
\* somebody else's: from then on nothing is promised.
RefsExact ==
    ~undefined /\ ~twice /\ session = "live" => \A b \in Buffers :
        dmabuf[b] # None =>
            ref[b] = 1 + Cardinality(Held(b)) + outside[b] - dropped[b]
                       + (IF Adding(b) THEN 1 ELSE 0)

\* A buffer that is in a task's mem_region_list is mapped, and of the dmabuf
\* of the fd, whoever releases or evicts it meanwhile.
HeldBuffersAreMapped ==
    ~undefined /\ ~twice /\ ~mixed /\ session = "live" =>
        \A t \in Tasks : \A r \in regions[t] :
            r[2] \notin unused /\ dmabuf[r[2]] = r[1] /\ ref[r[2]] > 0

\* A buffer is in exactly one list or being mapped by one thread, and
\* buffer_count is the length of used_list.
EachBufferInOneList ==
    ~undefined /\ ~twice /\ session = "live" =>
        /\ count = Cardinality(used)
        /\ used \cap unused = {}
        /\ \A b \in Buffers :
               b \notin used \cup unused
                   <=> \E p \in Threads : pc[p] \in {"map", "add"} /\ buffer[p] = b

\* After the session is closed only those buffers stay mapped that user
\* space translated more often than it released them.
ClosedIsUnmapped ==
    ~undefined /\ ~twice /\ session = "closed" =>
        \A b \in Buffers : dmabuf[b] # None => outside[b] > 0

\* mpp_dma_import_fd returns a buffer of the dmabuf of its fd ("here should
\* be distinguish with the dmabuf").
ImportReturnsItsDmabuf == ~mixed

=============================================================================
