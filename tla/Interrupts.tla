------------------------------ MODULE Interrupts ------------------------------
(***************************************************************************)
(* How the CPU is interrupted: the two interrupt controllers, the stubs of *)
(* irq_low.asm and idt_low.asm, the dispatchers of interrupts.C and        *)
(* exceptions.C, and the handlers that the two kernels register (timers,   *)
(* disk, page fault, division by zero).                                    *)
(*                                                                         *)
(* A handler may give the CPU away: then its frame stays on the stack of   *)
(* its thread, and the end of interrupt that dispatch_interrupt always     *)
(* sends comes when that thread runs again.  The scheduler is a queue of   *)
(* threads here; ThreadedKernel has its steps.                             *)
(***************************************************************************)
EXTENDS Integers, Sequences, FiniteSets, FiniteSetsExt, Functions

CONSTANTS
    ThreadOrder,  \* the threads in the order main adds them; it starts the first
    Kernels,      \* the kernels: "paging", "fifo", "round_robin"
    Lines,        \* interrupt lines that devices raise
    Vectors,      \* exceptions that code in a thread or in main raises
    Quantum,      \* ticks in a time slice
    Hz,           \* ticks in a second
    MaxSeconds,   \* the model's clock stops here
    Waits,        \* arguments of SimpleTimer::wait
    MaxDepth,     \* frames that a stack has room for
    None          \* main: no thread is current

Thread  == Range(ThreadOrder)
Context == Thread \cup {None}

ASSUME InterruptsAssumption ==
    /\ ThreadOrder \in Seq(Thread) /\ ThreadOrder # <<>> /\ None \notin Thread
    /\ Kernels \subseteq {"paging", "fifo", "round_robin"}
    /\ Lines \subseteq 0 .. 15 /\ Vectors \subseteq 0 .. 31
    /\ {Quantum, Hz, MaxDepth} \subseteq Nat \ {0}
    /\ MaxSeconds \in Nat /\ Waits \subseteq Nat

VARIABLES
    kernel,     \* which kernel runs: what main registered
    enabled,    \* the interrupt flag
    requested,  \* lines whose interrupt is pending at the controllers
    inService,  \* lines whose interrupt has not been ended at its controller
    current,    \* current_thread
    stack,      \* stack[c]: handlers and yields under way, innermost first
    ready,      \* the scheduler's ready queue
    slice,      \* EOQTimer::ticks
    clock,      \* seconds and ticks of SimpleTimer
    waiter,     \* a call of SimpleTimer::wait
    fate        \* "running", or how the machine stopped

pic  == <<requested, inService>>
cpu  == <<enabled, current, stack>>
time == <<slice, clock, waiter>>
vars == <<kernel, cpu, pic, ready, time, fate>>

-----------------------------------------------------------------------------
(* What main registers with the two dispatchers                            *)

InterruptHandler(line) ==
    IF line = 0 THEN IF kernel = "round_robin" THEN "quantum" ELSE "clock"
    ELSE IF line = 14 /\ kernel # "paging" THEN "disk"
    ELSE "none"

ExceptionHandler(vector) ==
    IF vector = 0 THEN "spin"
    ELSE IF vector = 14 /\ kernel = "paging" THEN "fault"
    ELSE "none"

-----------------------------------------------------------------------------
(* The controllers: the second one is wired to line 2 of the first.        *)

GeneratedBySlave(line) == line > 7
Master(lines) == {l \in lines : ~GeneratedBySlave(l)}
Slave(lines)  == {l \in lines : GeneratedBySlave(l)}

(* Priority of a line, 0 the highest.                                      *)
Rank(line) == IF line <= 2 THEN line ELSE IF line > 7 THEN line - 5 ELSE line + 8

Blocked(line) ==
    IF GeneratedBySlave(line)
    THEN \/ \E l \in Master(inService) : l <= 2
         \/ \E l \in Slave(inService) : l <= line
    ELSE \E l \in Master(inService) : l <= line

Begun(line) == IF GeneratedBySlave(line) THEN {line, 2} ELSE {line}

(* An end of interrupt names no line: it ends the one with the highest     *)
(* priority of its controller.                                             *)
Ended(lines) == IF lines = {} THEN {} ELSE {Min(lines)}

EndAtMasterOnly(line) == inService' = inService \ Ended(Master(inService))

EndOfInterrupt(line) ==
    inService' = inService \
        (Ended(Master(inService)) \cup
         (IF GeneratedBySlave(line) THEN Ended(Slave(inService)) ELSE {}))

-----------------------------------------------------------------------------
(* Frames on the stacks                                                    *)

Frame == [kind : {"interrupt", "exception", "call"},
          number : 0 .. 31,
          at : {"start", "dispatch", "acknowledge", "yield", "switch", "end"},
          was : BOOLEAN]            \* the interrupt flag that iret restores

Top == stack[current][1]

Running == fate = "running"
InCode == Running /\ stack[current] = <<>>
In(kind, place) ==
    Running /\ stack[current] # <<>> /\ Top.kind = kind /\ Top.at = place

Enter(kind, number, place) ==
    /\ Len(stack[current]) < MaxDepth
    /\ stack' = [stack EXCEPT ![current] =
           <<[kind |-> kind, number |-> number, at |-> place, was |-> enabled]>> \o @]

Goto(place) == stack' = [stack EXCEPT ![current][1].at = place]
Leave       == stack' = [stack EXCEPT ![current] = Tail(@)]

Stop(how) == /\ fate' = how
             /\ UNCHANGED <<kernel, cpu, pic, ready, time>>

-----------------------------------------------------------------------------
(* main has enabled interrupts and filled the ready queue; the paging      *)
(* kernel stays in main.  The context that setup_context builds for a      *)
(* thread begins in thread_start with interrupts disabled.                 *)

ThreadStartFrame == [kind |-> "call", number |-> 0, at |-> "start", was |-> TRUE]

Init ==
    /\ kernel \in Kernels
    /\ enabled = TRUE
    /\ requested = {} /\ inService = {}
    /\ current = None
    /\ stack = [c \in Context |-> IF c = None THEN <<>> ELSE <<ThreadStartFrame>>]
    /\ ready = IF kernel = "paging" THEN <<>> ELSE Tail(ThreadOrder)
    /\ slice = 0
    /\ clock = [seconds |-> 0, ticks |-> 0]
    /\ waiter = [at |-> "idle", seconds |-> 0, ticks |-> 0, then |-> 0]
    /\ fate = "running"

(* iret restores the flag with which the thread left the CPU.              *)
SwitchTo(t) == /\ current' = t
               /\ enabled' = (Head(stack'[t]).at # "start")

StartFirst ==
    /\ InCode /\ current = None /\ kernel # "paging"
    /\ UNCHANGED <<kernel, stack, pic, ready, time, fate>>
    /\ SwitchTo(Head(ThreadOrder))

ThreadStartDisabled ==
    /\ In("call", "start")
    /\ Leave
    /\ UNCHANGED <<kernel, enabled, current, pic, ready, time, fate>>

ThreadStart ==
    /\ In("call", "start")
    /\ enabled' = TRUE
    /\ Leave
    /\ UNCHANGED <<kernel, current, pic, ready, time, fate>>

-----------------------------------------------------------------------------
(* Devices and delivery                                                    *)

(* A request that is still pending hides the next one.  Bound: the model   *)
(* of a kernel with a clock stops it after MaxSeconds.                     *)
Request(line) ==
    /\ Running
    /\ line \notin requested
    /\ InterruptHandler(line) = "clock" => clock.seconds < MaxSeconds
    /\ requested' = requested \cup {line}
    /\ UNCHANGED <<kernel, cpu, inService, ready, time, fate>>

Deliverable == {l \in requested : ~Blocked(l)}

(* The gates are interrupt gates: the flag is cleared on the way in.       *)
Accept ==
    /\ Running /\ enabled
    /\ \E line \in Deliverable :
          /\ \A l \in Deliverable : Rank(line) <= Rank(l)
          /\ requested' = requested \ {line}
          /\ inService' = inService \cup Begun(line)
          /\ Enter("interrupt", line, "dispatch")
    /\ enabled' = FALSE
    /\ UNCHANGED <<kernel, current, ready, time, fate>>

-----------------------------------------------------------------------------
(* The scheduler as handlers and threads use it                            *)

(* Scheduler::resume leaves interrupts enabled.                            *)
ResumeFirst(c) == /\ ready' = <<c>> \o ready
                  /\ enabled' = TRUE

Resume(c) == /\ ready' = Append(ready, c)
             /\ enabled' = TRUE

PassOnCPU ==
    /\ InCode /\ current # None /\ waiter.at = "idle"
    /\ Resume(current)
    /\ Enter("call", 0, "yield")
    /\ UNCHANGED <<kernel, current, pic, time, fate>>

AtYield(place) == Running /\ stack[current] # <<>> /\ Top.at = place

(* RRScheduler::yield resets the slice; Scheduler::yield wants a current   *)
(* thread.                                                                 *)
Yield ==
    /\ AtYield("yield") /\ current # None
    /\ slice' = IF kernel = "round_robin" THEN 0 ELSE slice
    /\ Goto("switch")
    /\ UNCHANGED <<kernel, enabled, current, pic, ready, clock, waiter, fate>>

YieldAborts == AtYield("yield") /\ current = None /\ Stop("no_current_thread")

Switch ==
    /\ AtYield("switch")
    /\ Goto("end")
    /\ IF ready = <<>>
       THEN UNCHANGED <<enabled, current, ready>>
       ELSE SwitchTo(Head(ready)) /\ ready' = Tail(ready)
    /\ UNCHANGED <<kernel, pic, time, fate>>

ReturnFromYield ==
    /\ In("call", "end")
    /\ Leave
    /\ UNCHANGED <<kernel, enabled, current, pic, ready, time, fate>>

-----------------------------------------------------------------------------
(* dispatch_interrupt and the handlers                                     *)

Dispatching(handler) ==
    In("interrupt", "dispatch") /\ InterruptHandler(Top.number) = handler

NoHandler ==
    /\ Dispatching("none")
    /\ Goto("end")
    /\ UNCHANGED <<kernel, enabled, current, pic, ready, time, fate>>

(* SimpleTimer::handle_interrupt                                           *)
NextTick(c) ==
    IF c.ticks + 1 >= Hz THEN [seconds |-> c.seconds + 1, ticks |-> 0]
    ELSE [c EXCEPT !.ticks = @ + 1]

ClockTick ==
    /\ Dispatching("clock")
    /\ clock' = NextTick(clock)
    /\ Goto("end")
    /\ UNCHANGED <<kernel, enabled, current, pic, ready, slice, waiter, fate>>

(* EOQTimer::handle_interrupt up to the end of resume; ticks are counted   *)
(* only when a thread runs, and the slice ends when they EQUAL the quantum.*)
SliceOver == current # None /\ slice + 1 = Quantum

CountOnly(over) == slice' = IF current = None THEN slice ELSE slice + 1

NewSlice(over) == slice' = IF over THEN 0 ELSE IF current = None THEN slice ELSE slice + 1

QuantumTick ==
    /\ Dispatching("quantum")
    /\ NewSlice(SliceOver)
    /\ IF SliceOver
       THEN Resume(current) /\ Goto("acknowledge")
       ELSE Goto("end") /\ UNCHANGED <<ready, enabled>>
    /\ UNCHANGED <<kernel, current, pic, clock, waiter, fate>>

(* set_EOI of the end-of-quantum handler, with interrupts enabled.         *)
Acknowledge ==
    /\ In("interrupt", "acknowledge")
    /\ EndOfInterrupt(Top.number)
    /\ Goto("yield")
    /\ UNCHANGED <<kernel, enabled, current, requested, ready, time, fate>>

(* NonBlockingDisk::handle_interrupt ends the interrupt first.             *)
DiskInterrupt ==
    /\ Dispatching("disk")
    /\ EndOfInterrupt(Top.number)
    /\ Resume(current)
    /\ Goto("yield")
    /\ UNCHANGED <<kernel, current, requested, time, fate>>

(* dispatch_interrupt ends the interrupt, once more after set_EOI, and     *)
(* iret returns to the interrupted code, which had interrupts enabled.     *)
ReturnFromInterrupt ==
    /\ In("interrupt", "end")
    /\ EndOfInterrupt(Top.number)
    /\ enabled' = Top.was
    /\ Leave
    /\ UNCHANGED <<kernel, current, requested, ready, time, fate>>

-----------------------------------------------------------------------------
(* Exceptions                                                              *)

(* The words that the CPU pushes for an exception, and those that the      *)
(* stubs of idt_low.asm add so that the common stub can remove two.        *)
ErrorCodes(vector) == IF vector \in {8} \cup 10 .. 14 THEN 1 ELSE 0

StubAlwaysPushesZero(vector) == 2

StubPushes(vector) == IF vector \in {8} \cup 10 .. 14 THEN 1 ELSE 2

Raise(vector) ==
    /\ InCode /\ waiter.at = "idle"
    /\ Enter("exception", vector, "dispatch")
    /\ enabled' = FALSE
    /\ UNCHANGED <<kernel, current, pic, ready, time, fate>>

HandlingException(handler) ==
    In("exception", "dispatch") /\ ExceptionHandler(Top.number) = handler

(* The page-fault handler installs the page; its own steps are in          *)
(* VirtualMemory.                                                          *)
PageFault ==
    /\ HandlingException("fault")
    /\ enabled' = Top.was
    /\ Leave
    /\ fate' = IF ErrorCodes(Top.number) + StubPushes(Top.number) = 2
               THEN fate ELSE "returned_astray"
    /\ UNCHANGED <<kernel, current, pic, ready, time>>

DivisionByZero == HandlingException("spin") /\ Stop("spinning")

Unhandled == HandlingException("none") /\ Stop("aborted")

-----------------------------------------------------------------------------
(* SimpleTimer::current and wait, called by main of the paging kernel.     *)

Waiting(place) == InCode /\ current = None /\ kernel = "paging" /\ waiter.at = place

ReadSeconds(n) ==
    /\ Waiting("idle")
    /\ clock.seconds + n < MaxSeconds   \* bound: the clock gets past the wait
    /\ waiter' = [waiter EXCEPT !.at = "ticks", !.seconds = clock.seconds,
                                !.then = clock.seconds + n]
    /\ UNCHANGED <<kernel, cpu, pic, ready, slice, clock, fate>>

ReadTicks ==
    /\ Waiting("ticks")
    /\ waiter' = [waiter EXCEPT !.at = "loop", !.ticks = clock.ticks]
    /\ UNCHANGED <<kernel, cpu, pic, ready, slice, clock, fate>>

(* The condition of the loop is looked at again and again.                 *)
KeepsWaiting == clock.seconds <= waiter.then /\ clock.ticks < waiter.ticks

EndWait ==
    /\ Waiting("loop") /\ ~KeepsWaiting
    /\ waiter' = [waiter EXCEPT !.at = "idle", !.seconds = 0, !.ticks = 0, !.then = 0]
    /\ UNCHANGED <<kernel, cpu, pic, ready, slice, clock, fate>>

-----------------------------------------------------------------------------
Cpu == \/ StartFirst \/ ThreadStart
       \/ NoHandler \/ ClockTick \/ QuantumTick \/ Acknowledge \/ DiskInterrupt
       \/ ReturnFromInterrupt
       \/ Yield \/ YieldAborts \/ Switch \/ ReturnFromYield
       \/ PageFault \/ DivisionByZero \/ Unhandled
       \/ ReadTicks \/ EndWait

Code == \/ PassOnCPU
        \/ \E v \in Vectors : Raise(v)
        \/ \E n \in Waits : ReadSeconds(n)

Next == Cpu \/ Accept \/ Code \/ \E l \in Lines : Request(l)

(* The CPU goes on with what it has begun, it takes interrupts whenever    *)
(* they are enabled, and the timer goes on ticking.  Interrupts leave the  *)
(* interrupted code some time: a handler is far shorter than a tick.       *)
Fairness ==
    /\ WF_vars(Cpu) /\ WF_vars(Request(0)) /\ SF_vars(Accept)
    /\ SF_vars(StartFirst) /\ SF_vars(Yield \/ YieldAborts) /\ SF_vars(Switch)
    /\ SF_vars(ReturnFromYield)

Spec == Init /\ [][Next]_vars /\ Fairness

-----------------------------------------------------------------------------
(* Properties                                                              *)

(* Types of the state; a handler returns to where it was called from.      *)
TypeOK ==
    /\ kernel \in Kernels
    /\ enabled \in BOOLEAN
    /\ requested \subseteq Lines
    /\ inService \subseteq Lines \cup {2}
    /\ current \in Context
    /\ \A c \in Context : stack[c] \in Seq(Frame) /\ Len(stack[c]) <= MaxDepth
    /\ ready \in Seq(Context)
    /\ slice \in Nat
    /\ clock \in [seconds : 0 .. MaxSeconds, ticks : 0 .. Hz - 1]
    /\ waiter \in [at : {"idle", "ticks", "loop"}, seconds : Nat, ticks : Nat, then : Nat]
    /\ fate \in {"running", "no_current_thread", "spinning", "aborted"}

(* An interrupt in service is the one that the running code handles: no    *)
(* thread is switched in while a controller still waits for the end of     *)
(* another thread's interrupt, and the second end of interrupt, sent when  *)
(* a preempted thread runs again, meets nobody else's.                     *)
InServiceIsHandled ==
    Running /\ inService # {} =>
        /\ stack[current] # <<>> /\ Top.kind = "interrupt"
        /\ inService = Begun(Top.number)
        /\ Top.at \in {"dispatch", "acknowledge", "end"}

(* The slice counter never gets past the quantum, wherever ticks fall      *)
(* between the handler and the next thread: the test for equality that     *)
(* ends a slice is not missed.                                             *)
SliceBelowQuantum == slice < Quantum

(* The timer never dies: a tick that is due is taken, whichever thread     *)
(* runs then and however it was switched in.                               *)
TimerAlive == (Running /\ 0 \in requested) ~> (0 \notin requested \/ ~Running)

(* Preemption: under the round-robin kernel every thread runs again and    *)
(* again although no thread need give up the CPU.                          *)
EveryThreadRuns ==
    kernel = "round_robin" => \A t \in Thread : []<>(current = t \/ ~Running)
=============================================================================
