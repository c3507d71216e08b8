----------------------------- MODULE ContextSwitch -----------------------------
(***************************************************************************)
(* Threads and their stacks: what Thread::setup_context writes on a new    *)
(* stack, what threads_low.asm does with the stacks of two threads,        *)
(* instruction by instruction, and where the timer's interrupt puts its    *)
(* frame when it comes in between.  Stacks and threads come from the heap  *)
(* of the threading kernel, which hands out one address after the other.   *)
(*                                                                         *)
(* Memory is counted in words of four bytes and a stack grows downwards:   *)
(* cpu.esp is the word last pushed.  A word is the name of what it holds:  *)
(* a thread, a selector, the flags, the code an address points at or the   *)
(* thread whose register it was.  cpu.eip names the next instruction.      *)
(*                                                                         *)
(* Which thread is next is the scheduler's affair, see ThreadedKernel; a   *)
(* queue without its nodes does here.                                      *)
(***************************************************************************)
EXTENDS Integers, Sequences, SequencesExt, Functions

CONSTANTS
    ThreadOrder,   \* the threads in the order main adds them; it starts the first
    StackWords,    \* size of a thread's stack
    HandlerWords,  \* what the timer's handler pushes below its frame
    MaxTicks,      \* bound: timer interrupts
    MaxCalls,      \* bound: calls of pass_on_CPU
    None           \* main: no thread is current

Thread == Range(ThreadOrder)

ASSUME ContextSwitchAssumption ==
    /\ ThreadOrder \in Seq(Thread) /\ ThreadOrder # <<>> /\ None \notin Thread
    /\ \A i, j \in DOMAIN ThreadOrder : ThreadOrder[i] = ThreadOrder[j] => i = j
    /\ {StackWords, HandlerWords, MaxTicks, MaxCalls} \subseteq Nat
    /\ StackWords >= 37 + HandlerWords

VARIABLES
    memory,
    heap,            \* MemPool::start_address
    tcb,             \* the Thread objects: stack and esp
    current_thread,
    ready,
    cpu,             \* eip, esp and the interrupt flag
    regs,            \* the other registers
    int_no,          \* the interrupt number that the dispatcher last found
    left,            \* left[t]: the registers with which t has to come back
    struck,          \* threads whose switch was interrupted in the window
    ticks, calls     \* bounded counters

machine == <<memory, cpu, regs>>
history == <<left, struck>>
bounds  == <<ticks, calls>>
threads == <<heap, tcb, current_thread, ready>>

-----------------------------------------------------------------------------
(* Registers in the order save_registers pushes them: pushad, then the     *)
(* segments; and the words of struct regs from its lowest address.         *)

SaveOrder == <<"eax", "ecx", "edx", "ebx", "esp", "ebp", "esi", "edi", "ds", "es", "fs", "gs">>

REGS == <<"gs", "fs", "es", "ds", "edi", "esi", "ebp", "esp", "ebx", "edx", "ecx", "eax",
          "int_no", "err_code", "eip", "cs", "eflags">>

(* popad skips esp.                                                        *)
Register == Range(SaveOrder) \ {"esp"}
Segments == {"ds", "es", "fs", "gs"}

Saved(r) == [i \in DOMAIN SaveOrder |-> IF SaveOrder[i] = "esp" THEN "esp" ELSE r[SaveOrder[i]]]

Field(r, name) == r - 1 + CHOOSE i \in DOMAIN REGS : REGS[i] = name

Flags(enabled) == IF enabled THEN "IF" ELSE "0"

-----------------------------------------------------------------------------
(* Memory: main's stack, then the heap.                                    *)

BootWords   == Len(REGS) + HandlerWords + 4
HeapStart   == BootWords
ThreadWords == 6    \* sizeof(Thread)
NodeWords   == 3    \* sizeof(ReadyThread)
ObjectWords == 8    \* the disk and the scheduler
Address     == 0 .. HeapStart + Len(ThreadOrder) * (StackWords + ThreadWords) + 2 * ObjectWords

Store(at, words) ==
    [a \in DOMAIN memory |-> IF a - at + 1 \in DOMAIN words THEN words[a - at + 1] ELSE memory[a]]

(* The memory after words have been pushed one by one from esp down.       *)
Pushed(esp, words) == Store(esp - Len(words), Reverse(words))

Allocated(size) == heap + size

-----------------------------------------------------------------------------
(* Thread::Thread and setup_context                                        *)

WithoutErrorCode(t) ==
    <<"0", "thread_shutdown", "fun", "0", "CS", "thread_start", "0">>
    \o <<"0", "0", "0", "0", "0", "0", "0", "0">> \o <<"DS", "DS", "0", "0">>

FreshContext(t) ==
    <<"0", "thread_shutdown", "fun", "0", "CS", "thread_start", "0", "0">>
    \o <<"0", "0", "0", "0", "0", "0", "0", "0">> \o <<"DS", "DS", "0", "0">>

NewStack(t) ==
    /\ tcb' = [tcb EXCEPT ![t].stack = heap]
    /\ heap' = Allocated(StackWords)
    /\ UNCHANGED <<machine, current_thread, ready, int_no, history, bounds>>

(* A thread starts with interrupts disabled, and behind thread_start its   *)
(* function and thread_shutdown wait on the stack.                         *)
FreshRegisters == [r \in Register |-> IF r \in {"ds", "es"} THEN "DS" ELSE "0"]

NewThread(t) ==
    LET top == tcb[t].stack + StackWords
    IN /\ heap' = Allocated(ThreadWords)
       /\ memory' = Pushed(top, FreshContext(t))
       /\ tcb' = [tcb EXCEPT ![t].esp = top - Len(FreshContext(t))]
       /\ left' = [left EXCEPT ![t] = [eip |-> "thread_start", esp |-> top - 3,
                                       enabled |-> FALSE, regs |-> FreshRegisters]]
       /\ UNCHANGED <<cpu, regs, current_thread, ready, int_no, struck, bounds>>

(* Scheduler::add is resume.                                               *)
Add(t) ==
    /\ heap' = Allocated(NodeWords)
    /\ ready' = Append(ready, t)
    /\ UNCHANGED <<machine, tcb, current_thread, int_no, history, bounds>>

-----------------------------------------------------------------------------
(* The two ends of a switch in C                                           *)

At(place) == cpu.eip = place

(* dispatch_to(t): the argument and the return address.                    *)
DispatchTo(t, back) ==
    /\ memory' = Pushed(cpu.esp, <<t, back>>)
    /\ cpu' = [cpu EXCEPT !.eip = "switch", !.esp = @ - 2]

ThreadStart ==
    /\ At("thread_start")
    /\ cpu' = [eip |-> memory[cpu.esp], esp |-> cpu.esp + 1, enabled |-> TRUE]
    /\ UNCHANGED <<memory, regs, threads, int_no, history, bounds>>

(* pass_on_CPU: the thread goes to the end of the ready queue and yields   *)
(* to the first.  What it did before left its own values in the registers. *)
Own(t) == [r \in Register |-> IF r \in Segments THEN regs[r] ELSE t]

PassOnCPU ==
    /\ At("fun") /\ calls < MaxCalls
    /\ heap' = Allocated(NodeWords)
    /\ LET queue == Append(ready, current_thread)
       IN ready' = Tail(queue) /\ DispatchTo(Head(queue), "after")
    /\ regs' = Own(current_thread)
    /\ left' = [left EXCEPT ![current_thread] =
                   [eip |-> "after", esp |-> cpu.esp - 1, enabled |-> cpu.enabled,
                    regs |-> Own(current_thread)]]
    /\ calls' = calls + 1
    /\ UNCHANGED <<tcb, current_thread, int_no, struck, ticks>>

ArgumentStays ==
    /\ At("after")
    /\ cpu' = [cpu EXCEPT !.eip = "fun"]
    /\ UNCHANGED <<memory, regs, threads, int_no, history, bounds>>

ReturnFromDispatch ==
    /\ At("after")
    /\ cpu' = [cpu EXCEPT !.eip = "fun", !.esp = @ + 1]
    /\ UNCHANGED <<memory, regs, threads, int_no, history, bounds>>

-----------------------------------------------------------------------------
(* threads_low_switch_to                                                   *)

eax == regs.eax

Instruction(place, next, esp, value, words) ==
    /\ At(place)
    /\ cpu' = [cpu EXCEPT !.eip = next, !.esp = esp]
    /\ regs' = [regs EXCEPT !["eax"] = value]
    /\ memory' = words
    /\ UNCHANGED <<int_no, history, bounds>>

Compare ==
    /\ Instruction("switch", IF current_thread = None THEN "load_only" ELSE "push_eax",
               cpu.esp, eax, memory)
    /\ UNCHANGED threads

(* The return address moves two words down, to make room for the flags and *)
(* the selector: it is written there before esp is below it.               *)
PushEax    == Instruction("push_eax", "get_return", cpu.esp - 1, eax, Pushed(cpu.esp, <<eax>>))
GetReturn  == Instruction("get_return", "move_return", cpu.esp, memory[cpu.esp + 1], memory)
MoveReturn == Instruction("move_return", "move_esp", cpu.esp, eax, Store(cpu.esp - 1, <<eax>>))
MoveEsp    == Instruction("move_esp", "push_flags", cpu.esp + 2, eax, memory)
PushFlags  == Instruction("push_flags", "restore_eax", cpu.esp - 1, eax,
                      Pushed(cpu.esp, <<Flags(cpu.enabled)>>))
RestoreEax == Instruction("restore_eax", "push_cs", cpu.esp, memory[cpu.esp - 1], memory)
PushCS     == Instruction("push_cs", "cover_return", cpu.esp - 1, eax, Pushed(cpu.esp, <<"CS">>))
CoverReturn == Instruction("cover_return", "save", cpu.esp - 1, eax, memory)

Window == {"move_esp", "push_flags", "restore_eax", "push_cs", "cover_return"}

(* The fake error code and number and save_registers: nothing of this is   *)
(* below esp, so that one step does.                                       *)
Save == LET words == <<"0", "0">> \o Saved(regs)
        IN Instruction("save", "store_esp", cpu.esp - Len(words), eax, Pushed(cpu.esp, words))

MakeFrame ==
    /\ \/ PushEax \/ GetReturn \/ MoveReturn \/ MoveEsp
       \/ PushFlags \/ RestoreEax \/ PushCS \/ CoverReturn \/ Save
    /\ UNCHANGED threads

StoreEsp ==
    /\ Instruction("store_esp", "load_next", cpu.esp, current_thread, memory)
    /\ tcb' = [tcb EXCEPT ![current_thread].esp = cpu.esp]
    /\ UNCHANGED <<heap, current_thread, ready>>

(* INTERRUPT_STATE_SIZE: the argument is behind the frame.                 *)
LoadNext ==
    /\ \/ Instruction("load_next", "set_current", cpu.esp, memory[cpu.esp + Len(REGS)], memory)
       \/ Instruction("load_only", "set_current", cpu.esp, memory[cpu.esp + 1], memory)
    /\ UNCHANGED threads

SetCurrent ==
    /\ Instruction("set_current", "load_esp", cpu.esp, eax, memory)
    /\ current_thread' = eax
    /\ UNCHANGED <<heap, tcb, ready>>

LoadEsp ==
    /\ Instruction("load_esp", "restore", tcb[eax].esp, eax, memory)
    /\ UNCHANGED threads

(* restore_registers pops what save_registers pushed, the last first, and  *)
(* skips two words; iret pops three.                                       *)
Popped(esp) ==
    LET offset(r) == Len(SaveOrder) - CHOOSE i \in DOMAIN SaveOrder : SaveOrder[i] = r
        frame     == esp + Len(SaveOrder) + 2
    IN [regs    |-> [r \in Register |-> memory[esp + offset(r)]],
        eip     |-> memory[frame],
        enabled |-> memory[frame + 2] = "IF",
        esp     |-> frame + 3]

(* What a thread does that comes back astray is not followed.              *)
Restore ==
    /\ At("restore")
    /\ LET popped == Popped(cpu.esp)
       IN /\ cpu' = [eip |-> IF current_thread \in struck THEN "astray" ELSE popped.eip,
                     esp |-> popped.esp, enabled |-> popped.enabled]
          /\ regs' = popped.regs
    /\ UNCHANGED <<memory, threads, int_no, history, bounds>>

-----------------------------------------------------------------------------
(* A tick of the timer.  The processor pushes the flags, its selector and  *)
(* eip, the stub of irq_low.asm a code, the number and the registers; the  *)
(* handler runs below with interrupts disabled, and everything is popped   *)
(* again.  The dispatcher finds the number by the layout of REGS.          *)

TickFrame == <<Flags(cpu.enabled), "CS", cpu.eip, "0", "32">> \o Saved(regs)

Tick ==
    /\ cpu.enabled /\ ticks < MaxTicks /\ ~At("astray")
    /\ memory' = Pushed(cpu.esp, TickFrame \o [i \in 1 .. HandlerWords |-> "handler"])
    /\ int_no' = memory'[Field(cpu.esp - Len(TickFrame), "int_no")]
    /\ struck' = IF cpu.eip \in Window THEN struck \cup {current_thread} ELSE struck
    /\ ticks' = ticks + 1
    /\ UNCHANGED <<cpu, regs, threads, left, calls>>

Run ==
    \/ ThreadStart \/ PassOnCPU \/ ReturnFromDispatch
    \/ Compare \/ MakeFrame \/ StoreEsp \/ LoadNext \/ SetCurrent \/ LoadEsp \/ Restore
=============================================================================
