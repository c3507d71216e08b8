# Verification of the frame manager, the virtual memory and the scheduling kernel

The repository holds two small x86 kernels that share their low-level code:

* the *paging kernel* (`src/Virtual Memory Management and Memory Allocation/`,
  called **V** below): contiguous frame pools, a recursive two-level page table
  with demand paging, and virtual-memory pools;
* the *threading kernel* (`src/Kernel-level Thread Scheduling and Disk Device
  Driver/`, **D** below): kernel threads, a FIFO and a round-robin scheduler,
  an interrupt-driven clock, and a disk driver that yields the CPU while the
  drive is busy.

This directory models them in TLA+, checks the models with TLC, and proves with
TLAPS, for every size, what the frame pools, the paging, the scheduler, the
interrupts, the start and the context switch, the disk and the console promise. `PROJECT.json` lists components,
runs, mutants, findings, hazards and theorems, and maps every definition to the
lines it models.

## 1. Inventory

| Component | State | Operations | Meets the others through |
|---|---|---|---|
| Contiguous frame pools (V `cont_frame_pool`) | a bitmap of Free / Used / HoS per frame, `nFreeFrames`, a list of pools | constructor, `get_frames`, `mark_inaccessible`, `release_frames` | the second pool's bitmap lies in frames of the first; page tables and pages take frames |
| Page table (V `page_table`) | page directory, page tables, CR3, registered pools | constructor, `load`, `enable_paging`, `handle_fault`, `register_pool`, `free_page` | fault handler; frames; asks the pools whether an address is legitimate |
| Virtual-memory pools (V `vm_pool`) | two arrays of regions in the first two pages of the pool | constructor, `allocate`, `release`, `is_legitimate` | its own arrays are demand-paged; `release` frees page by page |
| Threads (D `thread`, `threads_low.asm`) | current thread, zombie, stacks | constructor, `dispatch_to`, start, shutdown | scheduler |
| Scheduler (D `scheduler`) | ready queue | `resume`, `add`, `terminate`, `yield`, `lock_queue`, `unlock_queue` | threads, timer, the disk's queue |
| Nonblocking disk (D `nonblocking_disk`) | queue of waiting threads, two locks | `read`, `write`, `wait_while_busy`, `handle_interrupt` | yields to the scheduler, which takes threads from its queue |
| Simple disk (D `simple_disk`) | the drive's registers | `read`, `write`, polling | ports of the drive |
| Interrupts (`interrupts`, `irq`, `irq_low.asm`) | handler table, the two 8259 | `dispatch_interrupt`, `set_EOI`, `register_handler` | timer, disk; a handler may yield |
| Exceptions (`exceptions`, `idt`, `idt_low.asm`) | handler table | `dispatch_exception` | page-fault handler |
| Timers (`simple_timer`) | seconds, ticks, ticks of the slice | `handle_interrupt`, `current`, `wait`, `reset_ticks` | scheduler |
| Kernel heap (D `mem_pool`, `frame_pool`) | one address each | `allocate`, `get_frame`; release does nothing | list nodes, stacks |
| Console (`console`, with `utils`) | video memory, cursor, redirection | `init`, `puts`, `puti`, `putui`, `putch`, `scroll`, `int2str` | threads and handlers print through it |
| Descriptor tables (`gdt`, `idt`) | GDT, IDT | `set_gate`, `init` | dispatchers install their stubs |
| Utilities, machine, start code | the interrupt flag | assertions, copies, ports | used everywhere |
| Mains (`kernel.C`) | - | initialisation order, thread functions, memory tests | callers of all of the above |

What is hard to get right here, and hard to test (the list with lines is
`hazards` in `PROJECT.json`):

* **interleaving**: an interrupt may come between any two instructions of the
  scheduler, the driver and the handlers, and its handler calls the scheduler;
* **order of long call sequences**: free lists, bitmaps and page tables go
  through grant, split, shift, release and grant again;
* **state kept twice**: the counter of free frames and the bitmap, the page
  tables and the TLB, a thread's place and its membership of a queue;
* **boundaries**: the last page of a table, the end of a bitmap, the last entry
  of a list, the tick that ends a quantum;
* **agreement across languages**: what `setup_context` pushes in C, the two
  assembly files pop, and the dispatcher finds by the layout of a struct;
* **something must happen**: a waiting thread must run again, a tick must be
  taken, a search must end.

What makes each component correct:

* frame pools: no frame is granted twice; release frees exactly what was
  granted; bitmap frames and holes are never granted; the counter is exact; the
  search is first fit and ends;
* paging: a page keeps what was stored in it until it is released; every frame
  is free or has one user; no stale translation;
* pools: the two lists partition the pool; what a caller holds is an allocated
  region; nothing outside allocated regions is mapped;
* threads and disk: a thread that can run can be found in some queue, a deleted
  thread is forgotten, operations end, nobody starves, the locks keep the disk
  queue and the drive to one at a time; reads and writes are atomic on blocks;
* interrupts: each is ended by the code that handles it, the clock goes on, a
  slice ends;
* start and switch: from the instant interrupts are enabled each one reaches its
  stub and its handler; a thread comes back exactly as it left, on its own stack;
* console: what was printed is what the screen and the serial port show; no
  interleaving writes outside the video memory or leaves the cursor off screen.

## 2. Modules

    FrameRuns <- ContFramePool <- ContFramePoolProofs
        ^             | implements
        |             v
        |        FrameAllocator
        +---- FrameScan <- FrameScanProofs

    VMPool, PageTable <- VirtualMemory          (composition) <- VirtualMemoryProofs
    ThreadedKernel                              (scheduler + driver + threads)
        ^---- ThreadedKernelProofs
    Interrupts <- InterruptsProofs              (controllers + dispatch + timers)
    DiskTransfer <- DiskTransferProofs -- implements --> BlockStore
    ContextSwitch, DescriptorTables <- Boot     (both mains until threads switch) <- BootProofs
    Console <- ConsoleProofs -- compared with --> Terminal

`MC...` modules only give constants their values.

The two kernels carry copies of the same low-level files. A definition of
`Interrupts`, `Console`, `DescriptorTables` or `Boot` stands for both copies;
`PROJECT.json` names one of the two for each definition.

**FrameRuns** has the pure part of the frame pools: the run that hangs on a
head frame, the first fit, and how many frames a bitmap needs.

**ContFramePool** has one action per operation of the class. `state` is all
bitmaps as one function on absolute frame numbers, `nFreeFrames` the counters,
`phase` how far main has got with building a pool, `info` where a pool's bitmap
lies, and `held` what callers were granted. `GetFramesGranted`,
`GetFramesFails` and `GetFramesAborts` are the three ways out of `get_frames`;
releasing a frame that is no head, or of no pool, is an assertion
(`ReleaseAborts`). A scan that runs past the end of the bitmap is a failure
here; **FrameScan** has the search statement by statement, with the memory
behind the bitmap.

**FrameAllocator** is what the pools promise: disjoint runs of the frames of a
pool are granted and given back as a whole. It knows nothing of bitmaps.

**VMPool** has the lists of a pool and what the operations do to them,
including the shifts, the search for an unused entry and its bound, and the
rounding of sizes in machine words. **PageTable** has the directory, the tables
in frames, the fault handler, `free_page` and the TLB. **VirtualMemory** puts
them together in the order of the code: constructing a pool stores to its two
list pages, which fault; an access is retried after its fault; `release` frees
its pages one after the other and only then moves the region between the lists.
`free_page` of a page that no pool knows is an assertion; the fault handler does
not ask (its test is commented out).

**ThreadedKernel** has threads that stand at places (`pc`) and stacks of calls
of `Scheduler::yield` (`calls`), because yield is entered again from the lock it
takes and from interrupts. A step goes to the next place where something else
can come in. `queueLock` and `hwLock` are the two `DiskLock`s; `drive` is the BSY
bit, whose command it works on and what the driver's last poll read of it; after
every command it may be busy or be over with it already. `zombie` and `freed` follow
`terminate`.
`yield` unlinks the head of the ready queue with interrupts enabled, because
the locks it took before have enabled them. So each access to `head` or `tail` is
a step (`TestHead`, `TakeHead`, `CompareHead`, then `ClearHead` and `ClearTail`, or
`AdvanceHead`), and an interrupt's own `resume` and `yield` may run between any
two. `ready` is what can be reached from `head`; `readyTail` says whether `tail`
is null, the last node of it, or a node that is no longer among them, to which
`resume` then appends for nobody to find. The nodes themselves stay readable,
since `mem_pool.C` never gives memory back.
Where the code goes astray (a null node is dispatched, `thread_shutdown` returns, a
stack or the heap is overrun) the behaviour ends with the reason in `fate`.

**Interrupts** has the controllers' request and service registers, the stack of
interrupt, exception and call frames of each thread, and the interrupt flag
that each frame restores. A handler that yields leaves its frame on the stack,
and the end of interrupt that `dispatch_interrupt` sends afterwards comes when
its thread runs again. Three kernels are initial states: the paging kernel
(timer, page faults, division by zero), the FIFO one and the round-robin one
(quantum timer and disk interrupt).

**DiskTransfer** has one step per access to the drive: four bytes of the block
number, the command, the poll, and each word. **BlockStore** is the
specification: each read or write happens to one block, as a whole, at one
moment between call and return.

**DescriptorTables** has no variables: the segments and gates that `set_gate`
encodes from their arguments, the commands of `irq_remap` and the divisor of
`set_frequency`, and beside each what the hardware makes of it (`Reaches`,
`VectorOf`, `Wired`, `Frequency`).

**ContextSwitch** has memory as words, each the name of what it holds. A switch
is one step per instruction of `threads_low_switch_to` as far as an interrupt
can tell the difference: while the return address and eax are parked below the
stack pointer each instruction is a step, the pushes that only grow the stack
are one. A tick pushes the frame that the stub in `irq_low.asm`
pushes and the words of the handler below it, and returns; it is one step because
the gate clears the interrupt flag and the handler of `SimpleTimer`, the timer
that main registers, returns to the code it interrupted. `left` remembers how a
thread left the CPU; a thread struck in the window is not followed after its
return.

**Boot** executes `main` of either kernel as a list of statements on top of the
two. `Main` is their order, and each statement an action: tables, devices,
handlers, paging, the heap, stacks, threads, the queue and the dispatch of the
first thread.

**Console** has one step per access to the cursor or the video memory. A writer
is a level of nesting: the thread that runs, and a handler that comes in between
any two of its steps and prints before it returns. **Terminal** is the reader's
view: text laid out on endless paper of which the last lines are on show.

## 3. Runs

| Run | What it shows |
|---|---|
| `ContFramePool` | two pools as main builds them, one with its bitmap in the other and with a hole: the safety properties, and that they implement `FrameAllocator` |
| `FrameScan` | for every bitmap of five frames, every content of the two entries behind it and requests up to more than the pool: first fit, an exact counter, termination, and in which case the scan leaves the bitmap (section 5) |
| `VirtualMemory` | two pools under every order of allocation, fault, store, cached translation and release |
| `SelfMappedPage` | finding: the last page of a table's range is the table |
| `Cooperative` | the four threads that the kernel ships with the FIFO scheduler and any drive: where a thread can be lost, that threads off the disk stay in the ready queue once, that termination is safe; on an accommodating drive, nobody starves and operations end |
| `Preempted` | two disk users with timer and disk interrupts everywhere and any drive: the locks and the data |
| `TimerRace` | finding: a tick while `yield` unlinks a node loses a thread |
| `Interrupts` | the three kernels with interrupts and exceptions inside one another |
| `DiskTransfer` | two threads preempted between any two accesses; refinement of `BlockStore` |
| `Console` | a thread and a handler printing texts and numbers: layout, scrolls, the cursor's bounds, number formatting |
| `Boot` | both mains and three threads with timer interrupts at every instruction: interrupts served, contexts kept, stacks kept apart |
| `SwitchWindow` | finding: an interrupt in the window of the switch sends the thread elsewhere |

Deadlock is not checked: callers may stop calling, and behaviours end where
the code asserts or goes astray. What must happen is stated as liveness.

### Bounds, and why they are enough

* `ContFramePool`: pools of 4 and 7 frames, four bitmap entries per bitmap frame
  (16384 in the code), so that one bitmap needs one frame and the other two, a
  hole of two frames in the middle, requests 0 to 3. Three runs fit beside one
  another, so a release can have used, free and foreign neighbours. The
  theorems lift all of it to every size.
* `FrameScan`: five frames, base 3, two entries behind the bitmap; requests 0,
  1, 2, 3 and 6 (more than the pool). Every bitmap is an initial state.
* `VirtualMemory`: tables of 5 entries (1024), pages of 4 bytes, words of 64
  values, lists of 5 entries, 10 frames; requests of 3 and 8 bytes (one page
  rounded up, two pages exactly). The two pools begin at a table each and end
  before its last page. Main's pools of 256 MB hold 64 such last pages each; what
  main's memory tests allocate begins at the pool's start, takes a few pages and
  does not reach the first of them. The last page is `SelfMappedPage`'s subject.
  Lists fill up, regions and frames run out.
* `ThreadedKernel`: `MaxNodes` bounds the list nodes that are in the queues at one
  time, `MaxCalls` the nested calls of yield; an interrupt comes only where both
  leave room for its call and its node (`Interruptible`), and the program's own calls
  that exceed them end the behaviour. In `Cooperative`
  calls do not nest, and on an accommodating drive the nodes are not
  exhausted (the liveness properties would fail there); on one that always
  answers before the first poll they are (section 5). In `Preempted`, `MaxCalls = 2` and
  `MaxNodes = 3` let a preempted yield be preempted again. `TimerRace` has
  `MaxCalls = 3` and `MaxNodes = 4`, one call and one node more than the
  counterexample needs at a time. The program has stacks of 4 KB and a
  heap of 256 frames that nothing bounds either.
* `Interrupts`: two threads, lines 0 and 14 (one on each controller), vectors 0
  and 14, a quantum of 2 ticks, 2 ticks a second, 2 seconds, at most 2 frames a
  thread. Two is the smallest quantum in which a tick is not the end of a slice.
* `DiskTransfer`: two threads; two blocks whose numbers differ in three of the
  four registers; two words of two bytes of two values, with contents that a
  swapped byte or word would change; bytes have 2 values instead of 256.
* `Console`: a screen of 3 by 4 with tabs of 2 and numbers of 3 digits; two
  calls, so that a handler's call falls into every step of a thread's. The texts
  (`MCTexts`) wrap, tab over the margin, scroll several rows and step back; the
  numbers (`MCNumbers`) are zero, negative, and of every length.
* `Boot`: three threads, three calls of `pass_on_CPU` (each thread is switched
  in a second time) and three ticks, so that a thread can be hit while it leaves,
  while it is away and while it comes back. `StackWords = 39` is exactly what
  the frame of a switch (20), an interrupt on top of it (17) and the handler (2)
  need, and the least that `ContextSwitchAssumption` allows; in 38 an interrupt
  could run over the end. The frequency is the kernels' 100.

### Fairness

* `FrameScan`: weak fairness of the next step; the loops run on a CPU that
  executes.
* `ThreadedKernel`: weak fairness of the running thread's next step and of the
  drive's completion.
* `Interrupts`: weak fairness of the CPU's next step and of the timer's request;
  strong fairness of accepting an interrupt, since the CPU takes it at the first
  instruction with the flag set and it stays requested; and strong fairness of
  the parts of a context switch, which interrupts could disable for ever only if
  handlers took longer than a tick.
* The other specifications are checked for safety only and state none.

### Assumptions about callers and devices

Callers release what they were granted, once, or something that is no head;
they touch only pages they hold. The quantum is at least one tick.

The drive of `ThreadedKernel` is free: after each command it is busy or not, and it
finishes when it likes. No safety property assumes more. The two liveness properties
of `Cooperative` are stated for `[]Accommodating`, a drive that is busy once in an
operation and until the driver's first poll, which the code cannot make it be: a
drive that is busy twice loses the thread (`LostOnlyToTheDrive`, section 5),
and one that is ready at the first poll leaves the thread's entry in the disk
queue, after which the ready queue fills up with that thread. Liveness is
also claimed only unless the last ready thread has shut down (`Stranded`): a
comment in `thread_shutdown` asks for thread functions that do not end.

## 4. Proofs

TLAPS checks these for every value of the constants that meets the named
assumptions of the modules (`PoolAssumption`, `KernelAssumption`,
`VMPoolAssumption` and so on): any number of pools, threads, blocks, table
entries and interrupt lines. Assumptions beyond those are stated in the theorem
and explained below.

* **ContFramePool** (`ContFramePoolProofs`). `Invariance` is the inductive
  invariant `IInv`. The checked invariants are not inductive one by one: that
  what a caller holds is exactly one extent says nothing about the run behind
  it, whose missing head would let a release run on into it. `IInv` therefore
  says of *every* run that somebody relies on, granted, bitmap or hole, that it
  is the extent of a head in its own pool, that every used frame belongs to some
  head (`NoOrphan`), and that no two grants start at one frame. Distinct heads
  have disjoint extents (the lemmas about `FrameRuns`), so disjointness of grants, the
  safety of bitmaps and holes all follow. There is one lemma per operation,
  resting on two about bitmaps: marking a free run, and freeing an extent,
  change no other extent. The counter is proved by counting the frames that
  change.
* **Refinement** (theorem `Refinement`, same module): under `open`, `taken` and `held`
  read off the bitmaps, every step is a grant, a give-back, a region set aside,
  the opening of a pool, or a stutter of `FrameAllocator`.
* **FrameScan** (`FrameScanProofs`): the two loops find the first fit; a
  request for one frame, the only one the page table ever makes, never leaves
  the bitmap; the counter is exact on return. The invariant says that every
  start before the present one was examined and refused and that the frames
  counted so far are free. `ScanLeavesBehindUsedEnd` says when a larger request
  leaves the bitmap: no gap is long enough and the last frame is in use.

* **ThreadedKernel** (`ThreadedKernelProofs`), with interrupts anywhere, any
  threads on the disk and any drive.
  - `TypeOK` holds however the accesses of nested yields to the ready queue mix.
  - `QueueExclusive` follows from `LockInv`: whoever is between `lock` and
    `unlock` is the running thread, and above it on the stack there are only
    calls that have met the lock in use or have not looked yet. The CPU cannot be
    given away before it is unlocked, since no such call ever returns.
  - `OwnData` follows from `DriveInv`: the holder of `hw_lock` is alone between
    `lock` and `unlock`, and the drive's last command is its own from the moment
    it issued one.
* **ThreadedKernel as the kernel ships it** (last part of the same module), with
  any number of threads on the disk and any drive. `Cooperative`
  says that main creates no end-of-quantum timer and does not register the disk
  for interrupt 14. Then calls of yield do not nest (`Flat`), and nobody changes
  the ready queue between two steps of the yield that unlinks its head
  (`QueueShape`: `tail` is right except between `ClearHead` and `ClearTail`, and
  the node taken is still the head). The other parts of `CoopInv` say where
  threads are: one off the disk is in the ready queue, once, or runs, or is about
  to (`CpuWaits`); one on the disk that stands where it must have the CPU has it, and
  one that stands where it gave the CPU up after a `resume` can be found
  (`IoWaits`); what was deleted or is about to be has shut down (`Parked`).
  - `CpuThreadsWaitOnce` and `DeletedIsForgotten` read their properties off
    `CpuWaits` and `Parked`; the entries that an early answer of the drive leaves in
    the disk queue are of threads on the disk, which do not shut down.
  - `NobodyIsLost`: the places of the driver that are left over are its waits. It
    is the strongest statement of its kind, since `NoThreadLost` itself is false at
    those places (section 5).
* **Interrupts** (`InterruptsProofs`). `Delivery` is the invariant: a handler that
  has not reached its yield runs with interrupts disabled, or under its own
  timer interrupt, which the controller keeps everything else behind; handlers
  further down have ended theirs. `InServiceIsHandled` and `TypeOK` follow;
  `TypeOK` assumes `Hz > 1` since the bound on seconds is the model's and a clock
  of one tick a second would pass it by one. `SliceBelowQuantum` is inductive
  with the types.
* **VirtualMemory** (`VirtualMemoryProofs`), any pools, lists and tables.
  `NoEmptyRequest` excludes sizes that round to 0 pages, a hazard of
  `vm_pool.C:99` that would enter an empty region.
  - `ListsPacked`, `RegionsPartition`, `GivenIsAllocated`: a list keeps its used
    entries in front (`Packed`) and their pages apart (`Apart`), the two lists
    together hold the pool's pages (`Held`), the first two entries stay the list
    pages, and a release that is under way (`DoingInv`) still finds its region
    at its entry. Lemmas say what a split, a shift and an append do to `Held`,
    `Apart` and `Packed`.
  - `NoStaleTranslation`, `ContentsKept`, `MappedIsAllocated`,
    `FramesAccounted` and `HeldPageIsNotTable` are stated as
    `Spec /\ []ClearOfTables => []...`: no page that a caller holds, and no list
    page, is the last page of a table's range. Main's memory tests meet this
    (their few pages lie at the start of pools that begin at a table), main's pools
    of 256 MB do not forbid it; what happens otherwise is the
    finding `SelfMappedPage`. The invariant is in five parts: each table present
    has a frame of its own whose last entry maps it (`TablesInv`), pages are mapped
    to different frames, none of them a table (`MappingInv`), a cached
    translation is the table's (`TlbInv`), each used frame is a table or a page
    (`UsedInv`), and a mapped page belongs to a region, or to the part of one that
    a release has not reached yet (`BackedInv`).
* **DiskTransfer** (`DiskTransferProofs`), any threads, blocks, words and sizes of
  a byte. `Holding` says who has `hw_lock`, `Working` that a busy drive has
  somebody waiting for it, and `Progress` follows a call: which registers have
  their part of the block number, that the drive works on this command and
  block, which words are copied, and that a sector still being stored is the
  thread's buffer. `DataRequested` is part of it. The refinement of `BlockStore`
  finds the one step of the drive at which a call takes effect; that a buffer
  comes back from its words, and a block number from its four registers, are
  lemmas on division.
* **Console** (`ConsoleProofs`), any screen, texts and levels of nesting. `Height >=
  Levels` says that a scroll never moves by more rows than the screen has (25 rows;
  the levels are a thread and the handlers that print on top of it), `TabStop <=
  Width` that a tab stop is no wider than the screen (8 and 80). A writer that
  is interrupted goes on with the row or column that it has loaded, so the
  invariant counts: whoever is in the middle of a character is below the screen
  by at most one row (`Lowered`) or beyond the margin by at most one tab stop
  (`Over`), never both, and what a writer holds in a register is bounded by
  what the writers below it have done (`Loaded`). `Lower` and `Wide` being disjoint
  is what keeps a character inside the video memory: a cursor that is n rows
  down has at most `Levels - 1 - n` writers that pushed it to the right.
  `Scrolling` says that the distance of a scroll is never negative although
  `csr_y` is read twice for it, and `Wrapped` that a writer which is done with the
  column finds it on the screen whenever it runs.
* **Boot** (`BootProofs`), either kernel, any number of threads, ticks and
  switches, any stack that has room for one switch and one interrupt
  (`ContextSwitchAssumption`: 37 words and the handler's), and any frequency that
  the timer's 16-bit divisor can express and whose square is below the input
  clock (`BootAssumption`: beyond that, dividing twice need not give the
  frequency back; the kernels' is 100). `BInv` has five parts.
  - `TablesInv` reads what is in the tables, the controllers, the timer and the
    heap off the number of the statement that main has come to. The statement
    that enables interrupts has a larger number than all that prepare for them;
    this is `EveryInterruptIsServed`, with lemmas on what the ten port writes of
    `irq_remap`, a gate, a segment and a divisor come to. That no assertion fails
    (`cpu.eip`) is part of it.
  - `StacksInv` says at which address the i-th thread's stack is, so that stacks
    do not overlap; `FramesInv` that a thread that is away and was not struck
    in the window has its whole frame on its stack, each word at its place
    (`Frame`), from which `Popped` gives back what it left with
    (`EveryContextIsIntact`).
  - `RunsInv` is about the running thread: the instruction it has come to says how
    deep its stack is (`Depth`) and which words of the frame are already in place
    (`Building`). A tick writes only below the stack pointer, and outside the
    window everything the thread needs again is above it; a tick in the window
    strikes the thread, of which `Building` then says no more. The depth is never
    more than 20 words, hence `EveryThreadHasItsStack`.

Only model-checked:

* liveness (the search ends, operations finish, every thread runs, the timer
  stays alive), which is out of the prover's reach;
* Console's `ShowsTheText` and `NumbersReadBack`: they compare the code's loops over
  a text or over digits with a fold over them, which needs induction over data.

`TypeOK` of FrameScan is part of its inductive invariant; those of
ThreadedKernel and DiskTransfer are proved and belong to no run.

## 5. Findings

1. `TimerRace`: `yield` disables interrupts at its entry, but the locks of the disk
   queue enable them again, and it reads and unlinks the head of the ready queue
   with interrupts enabled, where `src/README.md:130` says they are disabled. In the
   counterexample a tick interrupts a yield of cpu1 that has read the node of cpu2
   and not yet unlinked it; the handler's yield unlinks and dispatches that node. When cpu1 runs again, its first yield
   unlinks the node that is head by then, its own, and dispatches
   cpu2 from the node it had read. cpu1 is in no queue and never runs again.
2. `SelfMappedPage`: the last entry of every page table maps the table, so the
   last page of each 4 MB range is present before it is touched.
3. `SwitchWindow`: `yield` enables interrupts before `dispatch_to`, and the switch
   then keeps the return address and eax below the stack pointer for five
   instructions. A timer interrupt there overwrites them; `ContextsIntact` shows
   that an interrupt anywhere else does no harm.

Further deviations that the models show, and that no violation run is spent on:

* `get_frames` for two or more frames scans past the bitmap of a fragmented pool
  whose last frame is in use (the inner loop at V `cont_frame_pool.C:268` has no
  bound), where `cont_frame_pool.H:94` says "If fails, returns 0.": whether it
  returns is up to the memory there. `LeavesBehindUsedEnd` shows that this is when
  it happens and that it happens at no other time; no caller in the kernel asks
  for several frames of such a pool.
* A thread that waits a second time in one operation (for the drive after the write
  command and again after the flush, or for `hw_lock` and then for the drive) has no
  node in any queue left: it yields, with `hw_lock` held, and never runs again.
  This needs no preemption and no second thread on the disk; `NoThreadLost` fails in
  `Cooperative`'s configuration too, and `LostOnlyToTheDrive` says exactly where.
  A comment in `simple_disk.H` has it that the thread "may give up the CPU and
  return to check later".
* A drive that answers before the first poll leaves the thread's entry in the disk
  queue. `yield` dispatches the thread from it although the thread has also put
  itself into the ready queue; with a drive that always does so, the ready queue
  fills up with entries of one thread until the nodes run out. `CpuOnce` shows that
  the entries never drop or duplicate a thread off the disk.
* A tick between `terminate` and `yield` in `thread_shutdown` puts the zombie into
  the ready queue, and the next thread that terminates deletes it there, where
  `src/README.md:120` says its resources "are safely freed". `FreedIsForgotten`
  is false with preemption (`TimerRace.cfg` with both threads in `Exiting` finds it
  after 17 steps); it is checked and proved without.
* A thread that is interrupted while it holds `queue_lock` never gets back to it:
  every yield, the handler's too, needs the lock, and waits for it by calling
  yield until the stack is full (`fate` is "stack overflow"). `src/README.md:170`
  says that `yield()` "never preempts a thread while it is inside a disk-critical
  section". `QueueExclusive` shows that the lock does exclude; it says nothing about
  this deadlock.
* `SimpleTimer::wait` ends as soon as the tick counter is not below its value at
  the call (`KeepsWaiting`), which is at once in most cases.
* A carriage return goes to the serial port also when output is not redirected
  (`Send`): the branch tests the address of the function `redirect_output`.
* `int2str` prints a negative number without a sign and without digits: each digit d
  becomes the character that lies d below '0', -35 is "-+" (`NumbersReadBack` states
  this).
* Comments that the code does not keep: `simple_timer.C` sends 0x34 where the
  comment says 0x36, D `frame_pool.C` never returns 0x0, and `idt.C` says 32
  entries are used where 48 are.

`TimerRace` needs the end-of-quantum timer, which main as shipped does not create and
`src/README.md` describes as Component 2; `SelfMappedPage` needs callers that use
the pools beyond what main's tests allocate; `SwitchWindow` needs nothing but a tick
at the wrong instruction of the shipped threading kernel.

## 6. Not modelled

* What runs before `main` (`start.asm`), the linker script, the makefiles; gates
  48 to 255, which stay absent.
* The frames of C functions on a thread's stack: `ContextSwitch` has the words of
  the switch, of interrupts and of a new thread, and a thread's function is one
  place. `thread_shutdown` is in `ThreadedKernel`.
* Colours and the hardware cursor; writers of the console that do not nest. Under
  the round-robin scheduler, which main does not create, a thread preempted in
  `scroll` between its two readings of `csr_y` finds the cursor back on the screen,
  the distance is then below 1, and the copy runs over the screen's end; and a
  backspace in competition can bring the column to -1. `Console` has handlers
  that return, and texts with a backspace are printed while nobody else prints,
  since no text of the kernels has one.
* `strcpy`, `deregister_handler`: never called. What `fun1` to `fun4` print.
* The direct map of the first 4 MB and control registers: `PageTable` starts
  with paging on.
* Write errors of the drive: the driver never looks at them.

## 7. Plan

Done, in this order: frame pools (checked, proved, refined); threads, scheduler
and driver; virtual memory; interrupts, exceptions and timers; disk transfer;
descriptor tables, context switch and both mains; console.

What is left to model is listed in section 6; a second page table, which no
kernel creates, and the capacity of the threading kernel's heap would be next.

Proved: frame pools and their refinement, the search, the threading kernel with
and without preemption, interrupts, virtual memory, the disk and its refinement,
the console's cursor, the start of both kernels and the context switch.

No safety property of a run is left without a theorem but the two of Console
that need induction over data. What could still be proved is the exhaustion of
the nodes in `ThreadedKernel`, once the heap's capacity is modelled.
