--------------------------------- MODULE Boot ---------------------------------
(***************************************************************************)
(* From the entry of main to the threads that switch among themselves:     *)
(* main of the two kernels, statement by statement, with the timer's       *)
(* interrupts that come in as soon as main has enabled them.  The tables   *)
(* are those of DescriptorTables, the threads those of ContextSwitch.      *)
(***************************************************************************)
EXTENDS ContextSwitch, DescriptorTables

CONSTANTS
    Kernels,   \* "paging", "threads"
    Hz         \* argument of SimpleTimer: 100

ASSUME BootAssumption ==
    Kernels \subseteq {"paging", "threads"} /\ Hz \in Nat \ {0}
    /\ Hz * Hz <= InputClock /\ InputClock \div Hz < Half

VARIABLES
    kernel,
    statement,      \* the statement of main that comes next
    gdt, idt,
    exceptions,     \* ExceptionHandler::handler_table
    interrupts,     \* InterruptHandler::handler_table
    pic, pit,       \* the interrupt controllers and the timer chip
    paging          \* what has been done about paging

tables   == <<gdt, idt, exceptions, interrupts>>
devices  == <<pic, pit, paging>>
switches == <<machine, threads, int_no, history, bounds>>
vars     == <<kernel, statement, tables, devices, switches>>

-----------------------------------------------------------------------------
(* main: the statements, each with the thread it is about.                 *)

Plain(names) == [i \in DOMAIN names |-> <<names[i], None>>]

ClearedLast ==
    Plain(<<"GDT", "console", "exceptions", "IRQ", "interrupts", "IDT", "redirect", "DBZ">>)

Common ==
    Plain(<<"GDT", "console", "IDT", "exceptions", "IRQ", "interrupts", "redirect", "DBZ">>)

PagingMain ==
    Plain(<<"timer", "register_timer", "sti", "frame_pools", "register_fault_handler",
            "init_paging", "load", "enable_paging", "references", "passed">>)

ThreadsMain ==
    Plain(<<"memory_pool", "timer", "register_timer", "new_disk", "new_scheduler", "sti">>)
    \o [i \in 1 .. 2 * Len(ThreadOrder) |-> <<IF i % 2 = 1 THEN "new_stack" ELSE "new_thread",
                                              ThreadOrder[(i + 1) \div 2]>>]
    \o [i \in 1 .. Len(ThreadOrder) - 1 |-> <<"add", ThreadOrder[i + 1]>>]
    \o <<<<"dispatch", ThreadOrder[1]>>>>

Main == Common \o IF kernel = "paging" THEN PagingMain ELSE ThreadsMain

(* The boot loader starts main with interrupts disabled, on its own stack. *)
Init ==
    /\ kernel \in Kernels
    /\ statement = 1
    /\ gdt = EmptyGDT /\ idt = IDT_init
    /\ exceptions = [v \in Exception |-> "none"]
    /\ interrupts = [l \in Line |-> "none"]
    /\ pic = [c \in 1 .. 2 |-> Chip] /\ pit = [high |-> 255, low |-> 255]
    /\ paging = {}
    /\ memory = [a \in Address |-> "unknown"]
    /\ heap = 0
    /\ tcb = [t \in Thread |-> [stack |-> 0, esp |-> 0]]
    /\ current_thread = None
    /\ ready = <<>>
    /\ cpu = [eip |-> "main", esp |-> BootWords, enabled |-> FALSE]
    /\ regs = [r \in Register |-> IF r \in Segments THEN "DS" ELSE "main"]
    /\ int_no = "32"
    /\ left = [t \in Thread |-> [eip |-> "nowhere"]]
    /\ struck = {}
    /\ ticks = 0 /\ calls = 0

Execute(name, t) ==
    /\ At("main") /\ statement <= Len(Main)
    /\ Main[statement] = <<name, t>>
    /\ statement' = statement + 1
    /\ UNCHANGED kernel

Does(name) == Execute(name, None)

-----------------------------------------------------------------------------
(* Tables and devices                                                      *)

SetsUpTables ==
    /\ \/ /\ Does("GDT")
          /\ gdt' = GDT_init
          /\ UNCHANGED <<idt, exceptions, interrupts>>
       \/ /\ Does("IDT")
          /\ idt' = IDT_init
          /\ UNCHANGED <<gdt, exceptions, interrupts>>
       \/ /\ Does("exceptions")
          /\ idt' = ExceptionGates(idt)
          /\ exceptions' = [v \in Exception |-> "none"]
          /\ UNCHANGED <<gdt, interrupts>>
       \/ /\ Does("interrupts")
          /\ idt' = InterruptGates(idt)
          /\ interrupts' = [l \in Line |-> "none"]
          /\ UNCHANGED <<gdt, exceptions>>
    /\ UNCHANGED <<devices, switches>>

RegistersHandler ==
    /\ \/ /\ Does("DBZ")
          /\ exceptions' = [exceptions EXCEPT ![0] = "DBZ_Handler"]
          /\ UNCHANGED interrupts
       \/ /\ Does("register_fault_handler")
          /\ exceptions' = [exceptions EXCEPT ![14] = "PageFault_Handler"]
          /\ UNCHANGED interrupts
       \/ /\ Does("register_timer")
          /\ interrupts' = [interrupts EXCEPT ![0] = "SimpleTimer"]
          /\ UNCHANGED exceptions
    /\ UNCHANGED <<gdt, idt, devices, switches>>

SetsUpDevices ==
    /\ \/ /\ Does("IRQ")
          /\ pic' = IRQ_init(pic)
          /\ UNCHANGED pit
       \/ /\ Does("timer")
          /\ pit' = set_frequency(Hz)
          /\ UNCHANGED pic
    /\ UNCHANGED <<paging, tables, switches>>

SetsUpPaging ==
    /\ \E step \in {"init_paging", "load", "enable_paging"} :
          Does(step) /\ paging' = paging \cup {step}
    /\ UNCHANGED <<pic, pit, tables, switches>>

(* Statements that touch nothing of this: the console and the frame pools  *)
(* have modules of their own, and TestPassed does not return.              *)
Elsewhere ==
    /\ \E name \in {"console", "redirect", "frame_pools", "passed"} : Does(name)
    /\ UNCHANGED <<tables, devices, switches>>

(* Machine::enable_interrupts                                              *)
EnablesInterrupts ==
    /\ Does("sti")
    /\ cpu' = IF cpu.enabled THEN [cpu EXCEPT !.eip = "abort"]
              ELSE [cpu EXCEPT !.enabled = TRUE]
    /\ UNCHANGED <<memory, regs, threads, int_no, history, bounds, tables, devices>>

(* The first reference to a page that is not there: without a handler the  *)
(* dispatcher aborts.                                                      *)
References ==
    /\ Does("references")
    /\ cpu' = IF exceptions[14] = "none" THEN [cpu EXCEPT !.eip = "abort"] ELSE cpu
    /\ UNCHANGED <<memory, regs, threads, int_no, history, bounds, tables, devices>>

-----------------------------------------------------------------------------
(* Memory and threads                                                      *)

SetsUpThreads ==
    /\ \/ /\ Does("memory_pool")
          /\ heap' = HeapStart
          /\ UNCHANGED <<machine, tcb, current_thread, ready, int_no, history, bounds>>
       \/ /\ Does("new_disk") \/ Does("new_scheduler")
          /\ heap' = Allocated(ObjectWords)
          /\ UNCHANGED <<machine, tcb, current_thread, ready, int_no, history, bounds>>
       \/ \E t \in Thread : Execute("new_stack", t) /\ NewStack(t)
       \/ \E t \in Thread : Execute("new_thread", t) /\ NewThread(t)
       \/ \E t \in Thread : Execute("add", t) /\ Add(t)
       \/ /\ \E t \in Thread : Execute("dispatch", t) /\ DispatchTo(t, "assert")
          /\ UNCHANGED <<regs, threads, int_no, history, bounds>>
    /\ UNCHANGED <<tables, devices>>

Interrupt == Tick /\ UNCHANGED <<kernel, statement, tables, devices>>
Threads   == Run /\ UNCHANGED <<kernel, statement, tables, devices>>

Next ==
    \/ SetsUpTables \/ RegistersHandler \/ SetsUpDevices \/ SetsUpPaging \/ Elsewhere
    \/ EnablesInterrupts \/ References \/ SetsUpThreads
    \/ Interrupt \/ Threads

Spec == Init /\ [][Next]_vars

-----------------------------------------------------------------------------
(* Properties                                                              *)

(* From the instant interrupts are enabled, while main is still setting    *)
(* things up and in every thread, each line the controllers can raise has  *)
(* a vector of its own that leads to its stub through a flat code segment, *)
(* every exception likewise, the timer has its frequency and its handler,  *)
(* and so do page faults once they can happen; the dispatcher finds the    *)
(* number of the interrupt where the stub pushed it.                       *)
InterruptsAreServed ==
    /\ cpu.enabled =>
          /\ \A l \in Line : /\ VectorOf(pic, l) = IRQ_BASE + l
                             /\ Reaches(gdt, idt, VectorOf(pic, l))
          /\ \A v \in Exception : Reaches(gdt, idt, v)
          /\ IsData(gdt, DataSelector) /\ Wired(pic)
          /\ interrupts[0] = "SimpleTimer" /\ Frequency(pit) = Hz
    /\ "enable_paging" \in paging =>
          {"init_paging", "load"} \subseteq paging /\ exceptions[14] # "none"
    /\ int_no = "32" /\ cpu.eip \notin {"abort", "assert"}

(* A thread that does not run will come back exactly as it left: at its    *)
(* return address, with its stack, its interrupt flag and all of its       *)
(* registers, or, when it has not run yet, in thread_start with its        *)
(* function and thread_shutdown to follow.  This is so wherever the        *)
(* timer's interrupts came in, except in the window of the switch.         *)
Away(t) == left[t].eip # "nowhere" /\ t # current_thread

ComesBack(t) ==
    /\ Popped(tcb[t].esp) = left[t]
    /\ left[t].eip = "thread_start" =>
          \A i \in 1 .. 3 :
              memory[left[t].esp + i - 1] = <<"fun", "thread_shutdown", "0">>[i]

ContextsIntact == \A t \in Thread : Away(t) /\ t \notin struck => ComesBack(t)

(* threads_low.asm:114 "We'll return to the place where the thread was     *)
(* executing last", without the exception.                                 *)
ResumesWhereItLeft == \A t \in Thread : Away(t) => ComesBack(t)

(* A thread stays on its own stack and never needs more of it than the     *)
(* first time: in its function it stands where it began, and wherever an   *)
(* interrupt can come in there is room for its frame and its handler.      *)
Room == Len(REGS) + HandlerWords

OwnStack ==
    current_thread # None /\ ~At("load_esp") /\ ~At("astray") =>
        LET t   == current_thread
            top == tcb[t].stack + StackWords
        IN /\ cpu.esp - (IF cpu.enabled THEN Room ELSE 0) \in tcb[t].stack .. top - 2
           /\ At("fun") => cpu.esp = top - 2
           /\ \A u \in Thread \ {t} : tcb[u].stack \notin tcb[t].stack .. top - 1
=============================================================================
