---------------------------- MODULE ThreadedKernel ----------------------------
(***************************************************************************)
(* The threads of the scheduling kernel, its scheduler and its nonblocking *)
(* disk together: scheduler.C, nonblocking_disk.C, the parts of            *)
(* simple_disk.C that wait, thread.C's start and shutdown, and the thread  *)
(* functions of kernel.C.                                                  *)
(*                                                                         *)
(* One CPU runs the thread "current".  Scheduler::yield may be entered     *)
(* again while an earlier call of the same thread is under way (from       *)
(* DiskLock::lock inside yield, from an interrupt), so each thread has a   *)
(* stack of calls of yield above the place pc where its own code stands.   *)
(* A step runs up to the next place where another thread, an interrupt or  *)
(* the drive can come in between: code that runs with interrupts disabled  *)
(* is one step, and interrupts are enabled between any two steps except    *)
(* before thread_start.                                                    *)
(***************************************************************************)
EXTENDS Integers, Sequences, FiniteSets, Functions

CONSTANTS
    ThreadOrder,  \* the threads in the order main adds them; it starts the first
    IOThread,     \* threads that run fun2: read, write, pass_on_CPU
    Exiting,      \* other threads, whose function may return
    Preemptive,   \* an EOQTimer forces threads off the CPU
    DiskIRQ,      \* NonBlockingDisk is registered for interrupt 14
    MaxCalls,     \* calls of yield that a thread's stack has room for
    MaxNodes,     \* list nodes that the memory pool has room for
    None          \* no thread

Thread  == Range(ThreadOrder)
Command == {"read", "write", "flush"}

ASSUME KernelAssumption ==
    /\ ThreadOrder \in Seq(Thread) /\ ThreadOrder # <<>> /\ IsInjective(ThreadOrder)
    /\ IOThread \subseteq Thread
    /\ Exiting \subseteq Thread \ IOThread
    /\ {Preemptive, DiskIRQ} \subseteq BOOLEAN
    /\ MaxCalls \in Nat \ {0} /\ MaxNodes \in Nat \ {0}
    /\ None \notin Thread

VARIABLES
    current,    \* current_thread of thread.C
    pc,         \* pc[t]: where t's own code stands
    op,         \* op[t]: the disk operation t is at
    calls,      \* calls[t]: calls of yield under way, innermost first
    ready,      \* the scheduler's ready queue: what can be reached from head
    readyTail,  \* tail: null, the last of these, or a node that is not among them
    diskQueue,  \* the disk's queue of waiting threads
    queueLock,  \* queue_lock.locked
    hwLock,     \* hw_lock.locked
    drive,      \* the drive: its last command, whose it was, BSY, and what the
                \* driver's last poll read of it
    irq,        \* interrupt 14 is pending
    zombie,     \* zombieThread
    freed,      \* threads that were deleted
    fate        \* "running", or how the machine went astray

own   == <<pc, op>>
queue == <<ready, readyTail>>
locks == <<queueLock, hwLock>>
dev   == <<drive, irq>>
ended == <<zombie, freed>>
vars  == <<current, own, calls, queue, diskQueue, locks, dev, ended, fate>>

-----------------------------------------------------------------------------
(* Places and calls                                                        *)

Own == {"start", "pass", "queue", "append", "unlock", "hwlock", "issue",
        "command", "poll", "copy", "flush", "hwunlock", "done", "gone"}
InDriver == {"issue", "command", "poll", "copy", "flush", "hwunlock"}

Call == [at : {"entry", "relock", "look", "unlock",
               "head", "take", "compare", "clear", "cleartail", "advance",
               "iolock", "iopop", "iounlock", "dispatch"},
         interrupt : BOOLEAN,       \* yield's argument
         regular : BOOLEAN,         \* serve the ready queue
         node : Thread \cup {None}]  \* the thread of the node taken

Yield(interrupt) == [at |-> "entry", interrupt |-> interrupt,
                     regular |-> FALSE, node |-> None]

At(place) == /\ fate = "running"
             /\ calls[current] = <<>>
             /\ pc[current] = place

InYield(place) == /\ fate = "running"
                  /\ calls[current] # <<>>
                  /\ calls[current][1].at = place

Top == calls[current][1]

Goto(place)  == pc' = [pc EXCEPT ![current] = place]
Proceed(c)   == calls' = [calls EXCEPT ![current] = <<c>> \o Tail(@)]
Invoke(c)    == calls' = [calls EXCEPT ![current] = <<c>> \o @]
Suspend(c)   == calls' = [calls EXCEPT ![current] = <<Yield(FALSE), c>> \o Tail(@)]
ReturnCall   == calls' = [calls EXCEPT ![current] = Tail(@)]

(* What the list nodes and the stack of the running thread have room for.  *)
(* A node beyond the pool, or a call beyond the stack, overwrites other    *)
(* memory: the model stops there.                                          *)
Capacity ==
    fate' = IF Len(ready') + Len(diskQueue') > MaxNodes THEN "out of memory"
            ELSE IF Len(calls'[current]) > MaxCalls THEN "stack overflow"
            ELSE fate

Lost(how) == /\ fate' = how
             /\ UNCHANGED <<current, own, calls, queue, diskQueue, locks, dev, ended>>

-----------------------------------------------------------------------------
(* Start: main has added all threads but the first and dispatches that.    *)

FirstPlace(t) == IF t \in IOThread THEN "queue" ELSE "pass"

Init ==
    /\ current = Head(ThreadOrder)
    /\ pc = [t \in Thread |-> "start"]
    /\ op = [t \in Thread |-> "read"]
    /\ calls = [t \in Thread |-> <<>>]
    /\ ready = Tail(ThreadOrder)
    /\ readyTail = IF ready = <<>> THEN "null" ELSE "last"
    /\ diskQueue = <<>>
    /\ queueLock = FALSE /\ hwLock = FALSE
    /\ drive = [busy |-> FALSE, seen |-> FALSE, op |-> "none", owner |-> None]
    /\ irq = FALSE
    /\ zombie = None /\ freed = {}
    /\ fate = "running"

(* thread_start enables interrupts, then the thread function begins.       *)
ThreadStart ==
    /\ At("start")
    /\ Goto(FirstPlace(current))
    /\ UNCHANGED <<current, op, calls, queue, diskQueue, locks, dev, ended, fate>>

-----------------------------------------------------------------------------
(* Scheduler::resume of the running thread, with interrupts disabled.  It  *)
(* asks tail, never head, whether the queue is empty.                      *)

ResumeFirst(t) == ready' = <<t>> \o ready /\ readyTail' = "last"

ResumeKeepingTail(t) ==
    /\ ready' = IF Len(ready) < 2 THEN Append(ready, t) ELSE <<Head(ready), t>>
    /\ readyTail' = "last"

Resume(t) ==
    /\ ready' = CASE readyTail = "null"   -> <<t>>
                  [] readyTail = "last"   -> Append(ready, t)
                  [] readyTail = "astray" -> ready
    /\ readyTail' = IF readyTail = "null" THEN "last" ELSE readyTail

(* pass_on_CPU; the call of yield is a step of its own, in which an        *)
(* interrupt may come first.                                               *)
PassOnCPU ==
    /\ At("pass")
    /\ Resume(current)
    /\ Invoke(Yield(FALSE))
    /\ Goto(FirstPlace(current))
    /\ op' = [op EXCEPT ![current] = "read"]
    /\ UNCHANGED <<current, diskQueue, locks, dev, ended>>
    /\ Capacity

(* The thread function returns into thread_shutdown, which calls           *)
(* terminate: it deletes the previous zombie and parks this one.           *)
TerminateNow(t) == freed' = freed \cup {t} /\ zombie' = None

Terminate(t) ==
    /\ freed' = IF zombie = None THEN freed ELSE freed \cup {zombie}
    /\ zombie' = t

ThreadShutdown ==
    /\ At("pass") /\ current \in Exiting
    /\ Terminate(current)
    /\ Goto("gone")
    /\ Invoke(Yield(FALSE))
    /\ UNCHANGED <<current, op, queue, diskQueue, locks, dev>>
    /\ Capacity

(* yield came back: thread_shutdown returns to whatever the stack holds.   *)
FallOffStack == At("gone") /\ Lost("returned from shutdown")

-----------------------------------------------------------------------------
(* Scheduler::yield                                                        *)

(* The first step up to DiskLock::lock's test: the status of the drive is  *)
(* read unless an interrupt asks for the disk queue.  A lock in use sends  *)
(* the thread into another yield; it is put into no queue for that.  The   *)
(* holder of queue_lock can leave the CPU only through a yield, which      *)
(* needs the lock: once the lock is met in use the calls nest until the    *)
(* stack is full, and no call gets back to "relock".                       *)
LockQueueAlways(held, waiting) == Proceed(held) /\ queueLock' = TRUE

LockQueueIn(held, waiting) ==
    IF queueLock
    THEN Suspend(waiting) /\ UNCHANGED queueLock
    ELSE Proceed(held) /\ queueLock' = TRUE

Enter ==
    /\ InYield("entry")
    /\ LET busy == ~Top.interrupt /\ drive.busy
           c    == [Top EXCEPT !.interrupt = FALSE, !.regular = busy]
       IN LockQueueIn([c EXCEPT !.at = "look"], [c EXCEPT !.at = "relock"])
    /\ UNCHANGED <<current, own, queue, diskQueue, hwLock, dev, ended>>
    /\ Capacity

(* disk_queue_empty, read under the lock, decides which queue is served.   *)
LookAt(c) == [c EXCEPT !.at = "unlock", !.regular = @ \/ diskQueue = <<>>]

Look ==
    /\ InYield("look")
    /\ Proceed(LookAt(Top))
    /\ UNCHANGED <<current, own, queue, diskQueue, locks, dev, ended, fate>>

UnlockLook ==
    /\ InYield("unlock")
    /\ queueLock' = FALSE
    /\ Proceed([Top EXCEPT !.at = IF Top.regular THEN "head" ELSE "iolock",
                           !.regular = FALSE])
    /\ UNCHANGED <<current, own, queue, diskQueue, hwLock, dev, ended, fate>>

(* The ready queue, with interrupts enabled: the locks have enabled them   *)
(* again.  Each step is an access to head or tail, and what an interrupt's *)
(* own yield does to the queue in between this one does not see.  With no  *)
(* ready thread yield returns to its caller.                               *)
TestHead ==
    /\ InYield("head")
    /\ IF ready = <<>> THEN ReturnCall ELSE Proceed([Top EXCEPT !.at = "take"])
    /\ UNCHANGED <<current, own, queue, diskQueue, locks, dev, ended, fate>>

TakeHead ==
    /\ InYield("take")
    /\ Proceed([Top EXCEPT !.at = "compare",
                           !.node = IF ready = <<>> THEN None ELSE Head(ready)])
    /\ UNCHANGED <<current, own, queue, diskQueue, locks, dev, ended, fate>>

HeadIsNextToTail == Len(ready) <= 2

HeadIsTail == IF ready = <<>> THEN readyTail = "null" ELSE readyTail = "last" /\ Len(ready) = 1

CompareHead ==
    /\ InYield("compare")
    /\ Proceed([Top EXCEPT !.at = IF HeadIsTail THEN "clear" ELSE "advance"])
    /\ UNCHANGED <<current, own, queue, diskQueue, locks, dev, ended, fate>>

Behead == readyTail' = IF readyTail = "last" THEN "astray" ELSE readyTail

ClearHead ==
    /\ InYield("clear")
    /\ ready' = <<>>
    /\ Behead
    /\ Proceed([Top EXCEPT !.at = "cleartail"])
    /\ UNCHANGED <<current, own, diskQueue, locks, dev, ended, fate>>

ClearTail ==
    /\ InYield("cleartail")
    /\ readyTail' = "null"
    /\ Proceed([Top EXCEPT !.at = "dispatch"])
    /\ UNCHANGED <<current, own, ready, diskQueue, locks, dev, ended, fate>>

(* The next of a null head is whatever lies at the bottom of memory.       *)
NextBecomesHead ==
    /\ ready' = Tail(ready)
    /\ IF Len(ready) = 1 THEN Behead ELSE UNCHANGED readyTail

AdvanceHead ==
    /\ InYield("advance")
    /\ IF ready = <<>>
       THEN Lost("null node")
       ELSE /\ NextBecomesHead
            /\ Proceed([Top EXCEPT !.at = "dispatch"])
            /\ UNCHANGED <<current, own, diskQueue, locks, dev, ended, fate>>

(* The disk queue, locked a second time: it may have become empty since it *)
(* was looked at, and then dispatch_to is called with a null node.         *)
LockForIO ==
    /\ InYield("iolock")
    /\ LockQueueIn([Top EXCEPT !.at = "iopop"], Top)
    /\ UNCHANGED <<current, own, queue, diskQueue, hwLock, dev, ended>>
    /\ Capacity

PopDiskQueue ==
    /\ InYield("iopop")
    /\ IF diskQueue = <<>>
       THEN Lost("null node")
       ELSE /\ diskQueue' = Tail(diskQueue)
            /\ Proceed([Top EXCEPT !.at = "iounlock", !.node = Head(diskQueue)])
            /\ UNCHANGED <<current, own, queue, locks, dev, ended, fate>>

UnlockForIO ==
    /\ InYield("iounlock")
    /\ queueLock' = FALSE
    /\ Proceed([Top EXCEPT !.at = "dispatch"])
    /\ UNCHANGED <<current, own, queue, diskQueue, hwLock, dev, ended, fate>>

(* threads_low_switch_to; when the thread is switched in again it only     *)
(* deletes the node and returns from yield.                                *)
Dispatch ==
    /\ InYield("dispatch")
    /\ IF Top.node = None
       THEN Lost("null node")
       ELSE /\ current' = Top.node
            /\ ReturnCall
            /\ UNCHANGED <<own, queue, diskQueue, locks, dev, ended, fate>>

YieldStep ==
    \/ Enter \/ Look \/ UnlockLook
    \/ TestHead \/ TakeHead \/ CompareHead \/ ClearHead \/ ClearTail \/ AdvanceHead
    \/ LockForIO \/ PopDiskQueue \/ UnlockForIO \/ Dispatch

-----------------------------------------------------------------------------
(* NonBlockingDisk::read and write                                         *)

(* queue_lock.lock() of the driver.                                        *)
LockQueue ==
    /\ At("queue")
    /\ IF queueLock
       THEN Invoke(Yield(FALSE)) /\ UNCHANGED <<pc, queueLock>>
       ELSE Goto("append") /\ queueLock' = TRUE /\ UNCHANGED calls
    /\ UNCHANGED <<current, op, queue, diskQueue, hwLock, dev, ended>>
    /\ Capacity

EnqueueNothing(t) == UNCHANGED diskQueue

Enqueue(t) == diskQueue' = Append(diskQueue, t)

AppendSelf ==
    /\ At("append")
    /\ Enqueue(current)
    /\ Goto("unlock")
    /\ UNCHANGED <<current, op, calls, queue, locks, dev, ended>>
    /\ Capacity

UnlockQueue ==
    /\ At("unlock")
    /\ queueLock' = FALSE
    /\ Goto("hwlock")
    /\ UNCHANGED <<current, op, calls, queue, diskQueue, hwLock, dev, ended, fate>>

(* hw_lock.lock(): a thread that finds it taken yields without having put  *)
(* itself anywhere but into the disk queue.                                *)
TakeHardware == Goto("issue") /\ hwLock' = TRUE /\ UNCHANGED calls

LockHardwareAlways ==
    /\ At("hwlock")
    /\ TakeHardware
    /\ UNCHANGED <<current, op, queue, diskQueue, queueLock, dev, ended>>
    /\ Capacity

LockHardware ==
    /\ At("hwlock")
    /\ IF hwLock
       THEN Invoke(Yield(FALSE)) /\ UNCHANGED <<pc, hwLock>>
       ELSE TakeHardware
    /\ UNCHANGED <<current, op, queue, diskQueue, queueLock, dev, ended>>
    /\ Capacity

(* wait_while_busy, in ide_ata_issue_command and in ide_polling.           *)
Waiting(place, next) ==
    /\ At(place)
    /\ drive' = [drive EXCEPT !.seen = drive.busy]
    /\ IF drive.busy
       THEN Invoke(Yield(FALSE)) /\ UNCHANGED pc
       ELSE Goto(next) /\ UNCHANGED calls
    /\ UNCHANGED <<current, op, queue, diskQueue, locks, irq, ended>>
    /\ Capacity

WaitToIssue == Waiting("issue", "command")
WaitForData == Waiting("poll", "copy")
WaitForFlush == Waiting("flush", "hwunlock")

(* A command byte is written, and the drive may be over with it at once.   *)
(* Read and flush raise the interrupt when they are.                       *)
StartCommand(c) ==
    /\ \E busy \in BOOLEAN :
          /\ drive' = [busy |-> busy, seen |-> FALSE, op |-> c, owner |-> current]
          /\ irq' = (irq \/ (DiskIRQ /\ c # "write" /\ ~busy))

IssueCommand ==
    /\ At("command")
    /\ StartCommand(op[current])
    /\ Goto("poll")
    /\ UNCHANGED <<current, op, calls, queue, diskQueue, locks, ended, fate>>

(* The words are copied; a write then starts the cache flush and waits.    *)
CopyWords ==
    /\ At("copy")
    /\ IF op[current] = "write"
       THEN StartCommand("flush") /\ Goto("flush")
       ELSE Goto("hwunlock") /\ UNCHANGED dev
    /\ UNCHANGED <<current, op, calls, queue, diskQueue, locks, ended, fate>>

UnlockHardware ==
    /\ At("hwunlock")
    /\ hwLock' = FALSE
    /\ Goto("done")
    /\ UNCHANGED <<current, op, calls, queue, diskQueue, queueLock, dev, ended, fate>>

(* The driver's resume and yield; fun2 goes on with the write, and after   *)
(* it with pass_on_CPU.                                                    *)
FinishOperation ==
    /\ At("done")
    /\ Resume(current)
    /\ Invoke(Yield(FALSE))
    /\ Goto(IF op[current] = "read" THEN "queue" ELSE "pass")
    /\ op' = [op EXCEPT ![current] = "write"]
    /\ UNCHANGED <<current, diskQueue, locks, dev, ended>>
    /\ Capacity

DriverStep ==
    \/ LockQueue \/ AppendSelf \/ UnlockQueue \/ LockHardware
    \/ WaitToIssue \/ IssueCommand \/ WaitForData \/ CopyWords \/ WaitForFlush
    \/ UnlockHardware \/ FinishOperation

-----------------------------------------------------------------------------
(* The drive and the interrupts                                            *)

Complete ==
    /\ fate = "running"
    /\ drive.busy
    /\ drive' = [drive EXCEPT !.busy = FALSE]
    /\ irq' = (irq \/ (DiskIRQ /\ drive.op # "write"))
    /\ UNCHANGED <<current, own, calls, queue, diskQueue, locks, ended, fate>>

(* Interrupts are enabled between any two steps of a thread once           *)
(* thread_start has run; the handler's resume leaves them enabled again.   *)
(* How far they nest is bounded by the room for their calls and nodes.     *)
Interruptible == /\ fate = "running"
                 /\ pc[current] # "start"
                 /\ Len(calls[current]) < MaxCalls
                 /\ Len(ready) + Len(diskQueue) < MaxNodes

Preempt(interrupt) ==
    /\ Resume(current)
    /\ Invoke(Yield(interrupt))
    /\ UNCHANGED <<current, own, diskQueue, locks, drive, ended, fate>>

(* EOQTimer::handle_interrupt at the end of the quantum.                   *)
EndOfQuantum ==
    /\ Preemptive /\ Interruptible
    /\ Preempt(FALSE)
    /\ UNCHANGED irq

(* NonBlockingDisk::handle_interrupt.                                      *)
DiskInterrupt ==
    /\ DiskIRQ /\ irq /\ Interruptible
    /\ irq' = FALSE
    /\ Preempt(TRUE)

-----------------------------------------------------------------------------
Run == ThreadStart \/ PassOnCPU \/ ThreadShutdown \/ FallOffStack
       \/ YieldStep \/ DriverStep

Next == Run \/ Complete \/ EndOfQuantum \/ DiskInterrupt

(* The CPU goes on with the current thread, and a busy drive finishes.     *)
Fairness == WF_vars(Run) /\ WF_vars(Complete)

Spec == Init /\ [][Next]_vars /\ Fairness

-----------------------------------------------------------------------------
(* Properties                                                              *)

(* Types of the state; a thread's stack has room for the calls of yield    *)
(* that are under way, and the one call that overruns it ends the run.     *)
TypeOK ==
    /\ current \in Thread
    /\ pc \in [Thread -> Own]
    /\ op \in [Thread -> {"read", "write"}]
    /\ \A t \in Thread : calls[t] \in Seq(Call) /\ Len(calls[t]) <= MaxCalls + 1
    /\ ready \in Seq(Thread) /\ diskQueue \in Seq(Thread)
    /\ readyTail \in {"null", "last", "astray"}
    /\ queueLock \in BOOLEAN /\ hwLock \in BOOLEAN
    /\ drive \in [busy : BOOLEAN, seen : BOOLEAN, op : Command \cup {"none"},
                  owner : Thread \cup {None}]
    /\ irq \in BOOLEAN
    /\ zombie \in Thread \cup {None} /\ freed \subseteq Thread


UnderWay == UNION {{t} \X DOMAIN calls[t] : t \in Thread}

InQueueSection ==
    {t \in Thread : pc[t] \in {"append", "unlock"}} \cup
    {c \in UnderWay : calls[c[1]][c[2]].at \in {"look", "unlock", "iopop", "iounlock"}}

(* queue_lock keeps the disk queue's list operations apart, whoever is     *)
(* preempted where: at most one call is between lock and unlock.           *)
QueueExclusive ==
    Cardinality(InQueueSection) = IF queueLock THEN 1 ELSE 0

(* hw_lock keeps the drive to one operation at a time, and the words that  *)
(* read copies from the data register are those of its own finished        *)
(* command: no other thread's command came in between.                     *)
OwnData ==
    /\ Cardinality({t \in Thread : pc[t] \in InDriver}) = IF hwLock THEN 1 ELSE 0
    /\ \A t \in Thread : pc[t] = "copy" =>
           ~drive.busy /\ drive.owner = t /\ drive.op = op[t]

Running(t) == t = current /\ calls[t] = <<>>
Queued(t)  == t \in Range(ready) \cup Range(diskQueue)
InHand(t)  == \E c \in UnderWay : /\ calls[c[1]][c[2]].at \in {"cleartail", "iounlock", "dispatch"}
                                  /\ calls[c[1]][c[2]].node = t

(* Every thread that has not shut down can be found: it runs, a queue      *)
(* holds it, or a yield has taken it from one and is about to dispatch it. *)
(* That is what the queues are for, and TimerRace refutes it.              *)
NoThreadLost ==
    \A t \in Thread : pc[t] # "gone" => t = current \/ Queued(t) \/ InHand(t)

(* Without preemption threads are lost in one place only, whatever the     *)
(* drive does: in the driver, by a wait for hw_lock or for the drive,      *)
(* which yields without an entry of its own into a queue.  One entry into  *)
(* the disk queue stands for all waits of an operation, and the second     *)
(* wait finds it spent.                                                    *)
LostOnlyToTheDrive ==
    \A t \in Thread : pc[t] # "gone" =>
        \/ t = current \/ Queued(t) \/ InHand(t)
        \/ pc[t] \in {"hwlock", "issue", "poll", "flush"}

(* A thread that stays off the disk is where pass_on_CPU put it: in the    *)
(* ready queue, once, unless it runs or is about to.  No wait for the      *)
(* drive, no entry that another thread left behind in the disk queue and   *)
(* no thread that shuts down drops it or dispatches it twice.              *)
CpuOnce ==
    \A t \in Thread \ IOThread : pc[t] # "gone" =>
        /\ t \notin Range(diskQueue)
        /\ \A i, j \in DOMAIN ready : ready[i] = t /\ ready[j] = t => i = j
        /\ Running(t) \/ InHand(t) <=> t \notin Range(ready)

(* A deleted thread is never dispatched and never stands in a queue.       *)
FreedIsForgotten ==
    freed \cap ({current} \cup Range(ready) \cup Range(diskQueue)) = {}

(* thread_shutdown asks for threads that do not end: when the last ready   *)
(* thread shuts down while the others wait for the drive, it has nowhere   *)
(* to go.                                                                  *)
Stranded == fate = "returned from shutdown"

(* What the liveness properties ask of the drive, which the code cannot    *)
(* make it do: it is busy once in an operation, and long enough for the    *)
(* driver's first poll to see it.  Otherwise the thread is lost            *)
(* (LostOnlyToTheDrive), or its entry stays in the disk queue, yield       *)
(* dispatches it from there, and the ready queue fills up with the entries *)
(* it makes each time.                                                     *)
Accommodating ==
    /\ drive.op = "write" => ~drive.busy
    /\ drive.op # "write" /\ (\E d \in IOThread : pc[d] \in {"poll", "flush"}) =>
           drive.busy \/ drive.seen

(* A disk operation that has entered its thread into the disk queue ends.  *)
OperationsFinish ==
    []Accommodating =>
        \A t \in IOThread : pc[t] = "append" ~> (pc[t] = "done" \/ Stranded)

(* FIFO scheduling without preemption starves nobody: every thread gets    *)
(* the CPU again and again until it shuts down.                            *)
EveryThreadRuns ==
    []Accommodating =>
        \A t \in Thread : []<>(current = t \/ pc[t] = "gone" \/ Stranded)
=============================================================================
