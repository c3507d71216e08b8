------------------------------- MODULE BootProofs -------------------------------
(***************************************************************************)
(* Proofs about Boot, for any number of threads, ticks and switches, any   *)
(* size of a stack that has room for what a switch and an interrupt put    *)
(* there, and both kernels.                                                *)
(*                                                                         *)
(* Two arguments meet here.  What main has set up is read off the number   *)
(* of the statement that it has come to.  What a stack holds is read off   *)
(* the instruction that its thread has come to: an interrupt only writes   *)
(* below the stack pointer, and outside the window all that a thread will  *)
(* need again is above it.                                                 *)
(***************************************************************************)
EXTENDS Boot, SequenceTheorems, TLAPS

-----------------------------------------------------------------------------
(* The inductive invariant                                                 *)

Many == Len(ThreadOrder)

(* Statements of main by their numbers.  In the threading kernel, thread i *)
(* gets its stack with statement 13 + 2 * i and is made with the next one. *)
Ready    == IF kernel = "paging" THEN 11 ELSE 14    \* sti
Timed    == IF kernel = "paging" THEN 9 ELSE 10
Started  == kernel = "threads" /\ statement > 14 + 3 * Many
Stacked(i) == kernel = "threads" /\ statement > 13 + 2 * i
Made(i)    == kernel = "threads" /\ statement > 14 + 2 * i

Remapped == [c \in 1 .. 2 |-> [base   |-> IF c = 1 THEN 32 ELSE 40,
                               wiring |-> IF c = 1 THEN 4 ELSE 2,
                               mask   |-> 0, expects |-> "mask"]]

TablesInv ==
    /\ statement > 1 => gdt = GDT_init
    /\ statement > 4 => \A v \in Exception : idt[v] = Gate(Stub(v), 8, 142)
    /\ pic = IF statement > 5 THEN Remapped ELSE [c \in 1 .. 2 |-> Chip]
    /\ statement > 6 => \A l \in Line : idt[IRQ_BASE + l] = Gate(Stub(IRQ_BASE + l), 8, 142)
    /\ statement > Timed => pit = set_frequency(Hz)
    /\ statement > Timed + 1 => interrupts[0] = "SimpleTimer"
    /\ cpu.enabled => statement > Ready
    /\ kernel = "paging" /\ statement > 13 => exceptions[14] = "PageFault_Handler"
    /\ kernel = "paging" /\ statement > 14 => "init_paging" \in paging
    /\ kernel = "paging" /\ statement > 15 => "load" \in paging
    /\ "enable_paging" \in paging => kernel = "paging" /\ statement > 16

(* Where main puts the stacks.                                             *)
StackAt(i) == HeapStart + 2 * ObjectWords + (i - 1) * (StackWords + ThreadWords)

StacksInv ==
    /\ kernel = "threads" => /\ statement \in 10 .. 12 => heap = HeapStart
                             /\ statement = 13 => heap = HeapStart + ObjectWords
                             /\ statement = 14 => heap = StackAt(1)
    /\ \A i \in 1 .. Many :
          /\ kernel = "threads" /\ statement = 13 + 2 * i => heap = StackAt(i)
          /\ kernel = "threads" /\ statement = 14 + 2 * i => heap = StackAt(i) + StackWords
          /\ Stacked(i) => tcb[ThreadOrder[i]].stack = StackAt(i)
          /\ left[ThreadOrder[i]].eip # "nowhere" <=> Made(i)

Top(t) == tcb[t].stack + StackWords

Place(r) == CHOOSE i \in DOMAIN SaveOrder : SaveOrder[i] = r

(* The frame that a thread leaves behind, word by word.                    *)
Frame(top, l) ==
    /\ (memory[top - 4] = "IF") = l.enabled
    /\ memory[top - 6] = l.eip
    /\ \A r \in Register : memory[top - 8 - Place(r)] = l.regs[r]
    /\ l.eip = "thread_start" => /\ memory[top - 3] = "fun"
                                 /\ memory[top - 2] = "thread_shutdown"
                                 /\ memory[top - 1] = "0"

Leaves(top, l) ==
    /\ l = [eip |-> l.eip, esp |-> top - 3, enabled |-> l.enabled,
            regs |-> [r \in Register |-> l.regs[r]]]
    /\ l.eip \in {"thread_start", "after"} /\ l.enabled \in BOOLEAN

Parked(t) ==
    /\ tcb[t].esp = Top(t) - 20 /\ Leaves(Top(t), left[t])
    /\ t \notin struck => Frame(Top(t), left[t])

FramesInv ==
    /\ \A t \in Thread : Away(t) => Parked(t)
    /\ cpu.eip \in {"load_next", "set_current", "load_esp", "restore"} /\ current_thread # None
       => Parked(current_thread)

(* How far below the top of its stack the running thread stands.           *)
Depth == [fun |-> 2, thread_start |-> 3, after |-> 3,
          switch |-> 4, push_eax |-> 4, get_return |-> 5, move_return |-> 5, move_esp |-> 5,
          push_flags |-> 3, restore_eax |-> 4, push_cs |-> 4, cover_return |-> 5, save |-> 6,
          store_esp |-> 20, load_next |-> 20, set_current |-> 20, restore |-> 20]

(* What it has put there so far, unless it was interrupted in the window.  *)
Building(top, l) ==
    /\ cpu.eip \in {"switch", "push_eax", "get_return"} => memory[top - 4] = "after"
    /\ cpu.eip \in {"get_return", "move_return", "move_esp", "push_flags", "restore_eax"} =>
           memory[top - 5] = l.regs["eax"]
    /\ cpu.eip = "move_return" => regs["eax"] = "after"
    /\ cpu.eip \in {"move_esp", "push_flags", "restore_eax", "push_cs", "cover_return", "save"} =>
           memory[top - 6] = "after"
    /\ cpu.eip \in {"restore_eax", "push_cs", "cover_return", "save"} =>
           (memory[top - 4] = "IF") = l.enabled
    /\ cpu.eip \in {"switch", "push_eax", "get_return", "push_cs", "cover_return", "save"} =>
           regs["eax"] = l.regs["eax"]
    /\ cpu.eip \in {"store_esp"} => Frame(top, l)

BeforeSave == {"switch", "push_eax", "get_return", "move_return", "move_esp", "push_flags",
               "restore_eax", "push_cs", "cover_return", "save"}

BeforeLoad == BeforeSave \cup {"store_esp", "load_next"}

ThreadRuns(t) ==
    /\ cpu.eip \in DOMAIN Depth /\ cpu.esp = Top(t) - Depth[cpu.eip]
    /\ cpu.eip \in BeforeSave \cup {"store_esp"} =>
           /\ Leaves(Top(t), left[t]) /\ left[t].eip = "after"
           /\ t \notin struck => Building(Top(t), left[t])
    /\ cpu.eip \in BeforeSave =>
           /\ left[t].enabled = cpu.enabled
           /\ \A r \in Register \ {"eax"} : regs[r] = left[t].regs[r]
    /\ cpu.eip \in BeforeLoad => memory[Top(t) - 3] \in Thread
    /\ cpu.eip = "set_current" => regs["eax"] \in Thread
    /\ cpu.eip = "thread_start" => memory[Top(t) - 3] = "fun"

(* Between loading the next thread and its stack pointer the processor is  *)
(* still on the stack that it leaves, below what it has saved there.       *)
OnOldStack ==
    /\ cpu.eip = "load_esp" /\ regs["eax"] = current_thread
    /\ cpu.esp = BootWords - 2 \/ \E t \in Thread : cpu.esp = Top(t) - 20

MainRuns ==
    \/ cpu.eip = "main" /\ cpu.esp = BootWords /\ ~Started
    \/ /\ cpu.eip \in {"switch", "load_only", "set_current"} /\ cpu.esp = BootWords - 2
       /\ Started
       /\ cpu.eip # "set_current" => memory[BootWords - 1] \in Thread
       /\ cpu.eip = "set_current" => regs["eax"] \in Thread

RunsInv ==
    \/ current_thread = None /\ MainRuns
    \/ /\ current_thread \in Thread /\ Started
       /\ cpu.eip = "astray" \/ OnOldStack \/ ThreadRuns(current_thread)

Processor(c) ==
    /\ c = [eip |-> c.eip, esp |-> c.esp, enabled |-> c.enabled]
    /\ c.esp \in Int /\ c.enabled \in BOOLEAN

Typed ==
    /\ kernel \in Kernels /\ statement \in Nat \ {0}
    /\ interrupts \in [Line -> {"none", "SimpleTimer"}]
    /\ exceptions \in [Exception -> {"none", "DBZ_Handler", "PageFault_Handler"}]
    /\ DOMAIN memory = Address /\ heap \in Int
    /\ Processor(cpu)
    /\ regs = [r \in Register |-> regs[r]]
    /\ tcb \in [Thread -> [stack : Int, esp : Int]]
    /\ left = [t \in Thread |-> left[t]] /\ ready \in Seq(Thread)
    /\ int_no = "32"

BInv == Typed /\ TablesInv /\ StacksInv /\ FramesInv /\ RunsInv
-----------------------------------------------------------------------------
(* Constants                                                               *)

LEMMA Sizes ==
    /\ Many \in Nat \ {0} /\ ThreadOrder \in [1 .. Many -> Thread]
    /\ \A i, j \in 1 .. Many : ThreadOrder[i] = ThreadOrder[j] => i = j
    /\ \A t \in Thread : \E i \in 1 .. Many : t = ThreadOrder[i]
    /\ None \notin Thread
    /\ StackWords \in Nat /\ HandlerWords \in Nat /\ StackWords >= 37 + HandlerWords
    /\ BootWords = 21 + HandlerWords /\ HeapStart = 21 + HandlerWords
    /\ ThreadWords = 6 /\ NodeWords = 3 /\ ObjectWords = 8 /\ Room = 17 + HandlerWords
    /\ Address = 0 .. 37 + HandlerWords + Many * (StackWords + 6)
    /\ Kernels \subseteq {"paging", "threads"}
<1>1. /\ ThreadOrder \in Seq(Thread) /\ ThreadOrder # <<>> /\ None \notin Thread
      /\ \A i, j \in DOMAIN ThreadOrder : ThreadOrder[i] = ThreadOrder[j] => i = j
      /\ StackWords \in Nat /\ HandlerWords \in Nat /\ StackWords >= 37 + HandlerWords
    BY ContextSwitchAssumption
<1>2. Many \in Nat \ {0} /\ ThreadOrder \in [1 .. Many -> Thread] /\ DOMAIN ThreadOrder = 1 .. Many
    BY <1>1, EmptySeq, LenProperties DEF Many
<1>3. \A t \in Thread : \E i \in 1 .. Many : t = ThreadOrder[i]
    BY <1>2 DEF Thread, Range
<1>4. Len(REGS) = 17
    BY DEF REGS
<1>5. /\ BootWords = 21 + HandlerWords /\ HeapStart = 21 + HandlerWords
      /\ ThreadWords = 6 /\ NodeWords = 3 /\ ObjectWords = 8 /\ Room = 17 + HandlerWords
    BY <1>1, <1>4 DEF BootWords, HeapStart, ThreadWords, NodeWords, ObjectWords, Room
<1>6. Address = 0 .. 37 + HandlerWords + Many * (StackWords + 6)
    <2> DEFINE m == Many * (StackWords + 6)
    <2>1. m \in Int
        BY <1>1, <1>2
    <2>2. Address = 0 .. HeapStart + m + 2 * 8
        BY <1>5 DEF Address, Many
    <2> HIDE DEF m
    <2>3. HeapStart + m + 2 * 8 = 37 + HandlerWords + m
        BY <1>1, <1>5, <2>1
    <2> QED BY <2>2, <2>3 DEF m
<1> QED BY <1>1, <1>2, <1>3, <1>5, <1>6, BootAssumption

LEMMA BootStack == BootWords - 1 \in Address /\ BootWords \in Int
<1>1. StackWords \in Nat /\ Many \in Nat /\ HandlerWords \in Nat /\ BootWords = 21 + HandlerWords
    BY Sizes
<1>2. PICK m : m = Many * (StackWords + 6)
    OBVIOUS
<1>3. m \in Nat
    BY <1>1, <1>2
<1>4. Address = 0 .. 37 + HandlerWords + m
    BY <1>2, Sizes
<1> QED BY <1>1, <1>3, <1>4

(* Stacks do not overlap, and lie in memory above main's.                  *)
LEMMA StacksApart ==
    /\ \A i \in 1 .. Many : /\ StackAt(i) \in Nat /\ StackAt(i) >= BootWords
                            /\ StackAt(i) .. StackAt(i) + StackWords \subseteq Address
    /\ \A i, j \in 1 .. Many : i # j =>
           StackAt(i) + StackWords <= StackAt(j) \/ StackAt(j) + StackWords <= StackAt(i)
    /\ StackAt(1) = HeapStart + 2 * ObjectWords
    /\ \A i \in 1 .. Many : StackAt(i + 1) = StackAt(i) + StackWords + ThreadWords
<1> SUFFICES ASSUME NEW s \in Nat, s = StackWords + 6,
                    NEW A, A = [i \in Int |-> (i - 1) * s]
             PROVE  StacksApart!:
    <2>1. StackWords + 6 \in Nat
        BY Sizes
    <2> QED BY <2>1
<1>1. s > 0 /\ Many \in Nat /\ 1 \in 1 .. Many
    BY Sizes
<1>2. \A i \in Int : StackAt(i) = 37 + HandlerWords + A[i]
    BY Sizes DEF StackAt
<1>3. \A i \in 1 .. Many : A[i] \in Nat /\ A[i] + s <= Many * s /\ Many * s \in Nat
    <2> SUFFICES ASSUME NEW i \in 1 .. Many
                 PROVE  A[i] \in Nat /\ A[i] + s <= Many * s /\ Many * s \in Nat
        OBVIOUS
    <2>1. A[i] = (i - 1) * s
        BY <1>1
    <2>2. (i - 1) * s + s = i * s /\ (i - 1) * s \in Nat
        BY <1>1
    <2>3. i * s <= Many * s /\ Many * s \in Nat
        BY <1>1
    <2> QED BY <2>1, <2>2, <2>3
<1>4. \A i, j \in 1 .. Many : i < j => A[i] + s <= A[j]
    <2> SUFFICES ASSUME NEW i \in 1 .. Many, NEW j \in 1 .. Many, i < j
                 PROVE  A[i] + s <= A[j]
        OBVIOUS
    <2>1. A[i] = (i - 1) * s /\ A[j] = (j - 1) * s
        BY <1>1
    <2>2. (i - 1) * s + s = i * s
        BY <1>1
    <2>3. i * s <= (j - 1) * s
        BY <1>1
    <2> QED BY <2>1, <2>2, <2>3
<1>5. \A i \in 1 .. Many : A[i + 1] = A[i] + s
    <2> SUFFICES ASSUME NEW i \in 1 .. Many
                 PROVE  A[i + 1] = A[i] + s
        OBVIOUS
    <2>1. A[i] = (i - 1) * s /\ A[i + 1] = (i + 1 - 1) * s
        BY <1>1
    <2> QED BY <2>1, <1>1
<1>6. A[1] = 0
    BY <1>1
<1>7. \A i \in 1 .. Many : StackAt(i) \in Nat /\ StackAt(i) >= BootWords
    <2> SUFFICES ASSUME NEW i \in 1 .. Many
                 PROVE  StackAt(i) \in Nat /\ StackAt(i) >= BootWords
        OBVIOUS
    <2>1. A[i] \in Nat /\ StackAt(i) = 37 + HandlerWords + A[i]
        BY <1>2, <1>3
    <2>2. HandlerWords \in Nat /\ BootWords = 21 + HandlerWords
        BY Sizes
    <2> QED BY <2>1, <2>2
<1>8. \A i \in 1 .. Many : StackAt(i) .. StackAt(i) + StackWords \subseteq Address
    <2> SUFFICES ASSUME NEW i \in 1 .. Many
                 PROVE  StackAt(i) .. StackAt(i) + StackWords \subseteq Address
        OBVIOUS
    <2>1. Address = 0 .. 37 + HandlerWords + Many * s
        BY Sizes
    <2> DEFINE w == Many * s
    <2>2. A[i] + s <= w /\ w \in Nat /\ A[i] \in Nat
        BY <1>3
    <2>3. Address = 0 .. 37 + HandlerWords + w
        BY <2>1
    <2>4. /\ s = StackWords + 6 /\ StackAt(i) = 37 + HandlerWords + A[i]
          /\ HandlerWords \in Nat /\ StackWords \in Nat
        BY <1>2, Sizes
    <2> HIDE DEF w
    <2>5. \A a \in StackAt(i) .. StackAt(i) + StackWords : a \in Int /\ 0 <= a
        BY <2>2, <2>4
    <2>6. \A a \in StackAt(i) .. StackAt(i) + StackWords : a <= 37 + HandlerWords + w
        BY <2>2, <2>4
    <2>7. 37 + HandlerWords + w \in Int
        BY <2>2, <2>4
    <2>8. \A a \in StackAt(i) .. StackAt(i) + StackWords : a \in Address
        BY <2>3, <2>5, <2>6, <2>7
    <2> QED BY <2>8, Zenon
<1>9. \A i, j \in 1 .. Many : i # j =>
          StackAt(i) + StackWords <= StackAt(j) \/ StackAt(j) + StackWords <= StackAt(i)
    <2> SUFFICES ASSUME NEW i \in 1 .. Many, NEW j \in 1 .. Many, i < j
                 PROVE  StackAt(i) + StackWords <= StackAt(j)
        <3>1. \A i, j \in 1 .. Many : i # j => i < j \/ j < i
            BY <1>1
        <3> QED BY <3>1
    <2>1. A[i] + s <= A[j] /\ A[i] \in Nat /\ A[j] \in Nat
        BY <1>3, <1>4
    <2>2. StackAt(i) = 37 + HandlerWords + A[i] /\ StackAt(j) = 37 + HandlerWords + A[j]
        BY <1>2
    <2> QED BY <2>1, <2>2, Sizes
<1>10. StackAt(1) = HeapStart + 2 * ObjectWords
    BY <1>2, <1>6, Sizes
<1>11. \A i \in 1 .. Many : StackAt(i + 1) = StackAt(i) + StackWords + ThreadWords
    <2> SUFFICES ASSUME NEW i \in 1 .. Many
                 PROVE  StackAt(i + 1) = StackAt(i) + StackWords + ThreadWords
        OBVIOUS
    <2>1. StackAt(i) = 37 + HandlerWords + A[i] /\ StackAt(i + 1) = 37 + HandlerWords + A[i + 1]
        BY <1>1, <1>2
    <2>2. A[i + 1] = A[i] + s /\ A[i] \in Nat
        BY <1>3, <1>5
    <2> QED BY <2>1, <2>2, Sizes
<1> QED BY <1>7, <1>8, <1>9, <1>10, <1>11

-----------------------------------------------------------------------------
(* The statements of main                                                  *)

Tuple(f, n) == n \in Nat /\ f = [i \in 1 .. n |-> f[i]]

LEMMA TupleIsSeq ==
    ASSUME NEW n, NEW f, Tuple(f, n), NEW S, \A i \in 1 .. n : f[i] \in S
    PROVE  f \in Seq(S) /\ Len(f) = n /\ DOMAIN f = 1 .. n
<1>1. n \in Nat /\ f \in [1 .. n -> S] /\ DOMAIN f = 1 .. n
    BY DEF Tuple
<1> QED BY <1>1

LEMMA TupleLen ==
    ASSUME NEW n, NEW f, Tuple(f, n)
    PROVE  Len(f) = n /\ DOMAIN f = 1 .. n /\ n \in Nat
<1>1. \A i \in 1 .. n : f[i] \in {f[j] : j \in 1 .. n}
    OBVIOUS
<1> QED BY <1>1, TupleIsSeq DEF Tuple

Splits(h, f, m, g, n) ==
    /\ Tuple(h, m + n)
    /\ \A i \in 1 .. m : h[i] = f[i]
    /\ \A i \in 1 .. n : h[m + i] = g[i]

LEMMA Joined ==
    ASSUME NEW m, NEW n, NEW f, NEW g, NEW h, Tuple(f, m), Tuple(g, n), h = f \o g
    PROVE  Splits(h, f, m, g, n)
<1> DEFINE S == {f[j] : j \in 1 .. m} \cup {g[j] : j \in 1 .. n}
<1>1. f \in Seq(S) /\ Len(f) = m /\ g \in Seq(S) /\ Len(g) = n /\ m \in Nat /\ n \in Nat
    <2>1. \A i \in 1 .. m : f[i] \in S
        OBVIOUS
    <2>2. \A i \in 1 .. n : g[i] \in S
        OBVIOUS
    <2> HIDE DEF S
    <2> QED BY <2>1, <2>2, TupleIsSeq DEF Tuple
<1> HIDE DEF S
<1>2. /\ h \in Seq(S) /\ Len(h) = m + n
      /\ \A i \in 1 .. m + n : h[i] = IF i <= m THEN f[i] ELSE g[i - m]
    BY <1>1, ConcatProperties
<1>3. Tuple(h, m + n)
    BY <1>1, <1>2, LenProperties DEF Tuple
<1>4. \A i \in 1 .. m : h[i] = f[i]
    BY <1>1, <1>2
<1>5. \A i \in 1 .. n : h[m + i] = g[i]
    <2> SUFFICES ASSUME NEW i \in 1 .. n
                 PROVE  h[m + i] = g[i]
        OBVIOUS
    <2>1. PICK j : j = m + i
        OBVIOUS
    <2>2. j \in 1 .. m + n /\ ~(j <= m) /\ j - m = i
        BY <1>1, <2>1
    <2>3. h[j] = g[j - m]
        BY <1>2, <2>2
    <2> QED BY <2>1, <2>2, <2>3
<1> QED BY <1>3, <1>4, <1>5 DEF Splits

LEMMA PlainIs ==
    ASSUME NEW n, NEW names, Tuple(names, n)
    PROVE  Tuple(Plain(names), n) /\ \A i \in 1 .. n : Plain(names)[i] = <<names[i], None>>
<1>1. Plain(names) = [i \in 1 .. n |-> <<names[i], None>>]
    BY TupleLen DEF Plain
<1> QED BY <1>1 DEF Tuple

LEMMA CommonIs ==
    /\ Tuple(Common, 8)
    /\ Common[1] = <<"GDT", None>> /\ Common[2] = <<"console", None>>
    /\ Common[3] = <<"IDT", None>> /\ Common[4] = <<"exceptions", None>>
    /\ Common[5] = <<"IRQ", None>> /\ Common[6] = <<"interrupts", None>>
    /\ Common[7] = <<"redirect", None>> /\ Common[8] = <<"DBZ", None>>
<1> DEFINE names == <<"GDT", "console", "IDT", "exceptions", "IRQ", "interrupts", "redirect", "DBZ">>
<1>1. Tuple(names, 8)
    BY DEF Tuple
<1>2. names[1] = "GDT" /\ names[2] = "console" /\ names[3] = "IDT" /\ names[4] = "exceptions"
    OBVIOUS
<1>3. names[5] = "IRQ" /\ names[6] = "interrupts" /\ names[7] = "redirect" /\ names[8] = "DBZ"
    OBVIOUS
<1>4. Common = Plain(names)
    BY DEF Common
<1> HIDE DEF names
<1> QED BY <1>1, <1>2, <1>3, <1>4, PlainIs

LEMMA PagingMainIs ==
    /\ Tuple(PagingMain, 10)
    /\ PagingMain[1] = <<"timer", None>> /\ PagingMain[2] = <<"register_timer", None>>
    /\ PagingMain[3] = <<"sti", None>> /\ PagingMain[4] = <<"frame_pools", None>>
    /\ PagingMain[5] = <<"register_fault_handler", None>>
    /\ PagingMain[6] = <<"init_paging", None>> /\ PagingMain[7] = <<"load", None>>
    /\ PagingMain[8] = <<"enable_paging", None>> /\ PagingMain[9] = <<"references", None>>
    /\ PagingMain[10] = <<"passed", None>>
<1> DEFINE names == <<"timer", "register_timer", "sti", "frame_pools", "register_fault_handler",
                      "init_paging", "load", "enable_paging", "references", "passed">>
<1>1. Tuple(names, 10)
    BY DEF Tuple
<1>2. names[1] = "timer" /\ names[2] = "register_timer" /\ names[3] = "sti"
      /\ names[4] = "frame_pools" /\ names[5] = "register_fault_handler"
    OBVIOUS
<1>3. names[6] = "init_paging" /\ names[7] = "load" /\ names[8] = "enable_paging"
      /\ names[9] = "references" /\ names[10] = "passed"
    OBVIOUS
<1>4. PagingMain = Plain(names)
    BY DEF PagingMain
<1> HIDE DEF names
<1> QED BY <1>1, <1>2, <1>3, <1>4, PlainIs

LEMMA ThreadsMainIs ==
    /\ Tuple(ThreadsMain, 3 * Many + 6)
    /\ ThreadsMain[1] = <<"memory_pool", None>> /\ ThreadsMain[2] = <<"timer", None>>
    /\ ThreadsMain[3] = <<"register_timer", None>> /\ ThreadsMain[4] = <<"new_disk", None>>
    /\ ThreadsMain[5] = <<"new_scheduler", None>> /\ ThreadsMain[6] = <<"sti", None>>
    /\ \A i \in 1 .. Many : /\ ThreadsMain[5 + 2 * i] = <<"new_stack", ThreadOrder[i]>>
                            /\ ThreadsMain[6 + 2 * i] = <<"new_thread", ThreadOrder[i]>>
    /\ \A i \in 1 .. Many - 1 : ThreadsMain[6 + 2 * Many + i] = <<"add", ThreadOrder[i + 1]>>
    /\ ThreadsMain[6 + 3 * Many] = <<"dispatch", ThreadOrder[1]>>
<1> DEFINE names == <<"memory_pool", "timer", "register_timer", "new_disk", "new_scheduler", "sti">>
           p == Plain(names)
           s == [i \in 1 .. 2 * Many |-> <<IF i % 2 = 1 THEN "new_stack" ELSE "new_thread",
                                           ThreadOrder[(i + 1) \div 2]>>]
           a == [i \in 1 .. Many - 1 |-> <<"add", ThreadOrder[i + 1]>>]
           d == <<<<"dispatch", ThreadOrder[1]>>>>
<1>1. Many \in Nat \ {0}
    BY Sizes
<1> DEFINE ps == p \o s
           psa == ps \o a
<1>2. ThreadsMain = psa \o d /\ ps = p \o s /\ psa = ps \o a
    BY DEF ThreadsMain, Many
<1>3. /\ Tuple(p, 6)
      /\ p[1] = <<"memory_pool", None>> /\ p[2] = <<"timer", None>>
      /\ p[3] = <<"register_timer", None>> /\ p[4] = <<"new_disk", None>>
      /\ p[5] = <<"new_scheduler", None>> /\ p[6] = <<"sti", None>>
    <2>1. Tuple(names, 6)
        BY DEF Tuple
    <2>2. names[1] = "memory_pool" /\ names[2] = "timer" /\ names[3] = "register_timer"
          /\ names[4] = "new_disk" /\ names[5] = "new_scheduler" /\ names[6] = "sti"
        OBVIOUS
    <2> HIDE DEF names
    <2> QED BY <2>1, <2>2, PlainIs
<1>4. Tuple(s, 2 * Many) /\ Tuple(a, Many - 1)
    BY <1>1 DEF Tuple
<1>5. Tuple(d, 1) /\ d[1] = <<"dispatch", ThreadOrder[1]>>
    BY DEF Tuple
<1>6. \A i \in 1 .. Many : /\ s[2 * i - 1] = <<"new_stack", ThreadOrder[i]>>
                           /\ s[2 * i] = <<"new_thread", ThreadOrder[i]>>
    <2> SUFFICES ASSUME NEW i \in 1 .. Many
                 PROVE  /\ s[2 * i - 1] = <<"new_stack", ThreadOrder[i]>>
                        /\ s[2 * i] = <<"new_thread", ThreadOrder[i]>>
        OBVIOUS
    <2>1. 2 * i - 1 \in 1 .. 2 * Many /\ (2 * i - 1) % 2 = 1 /\ (2 * i - 1 + 1) \div 2 = i
        BY <1>1
    <2>2. 2 * i \in 1 .. 2 * Many /\ (2 * i) % 2 = 0 /\ (2 * i + 1) \div 2 = i
        BY <1>1
    <2> QED BY <2>1, <2>2
<1>7. \A i \in 1 .. Many - 1 : a[i] = <<"add", ThreadOrder[i + 1]>>
    OBVIOUS
<1> HIDE DEF p, s, a, d, ps, psa
<1>8. /\ Tuple(ps, 6 + 2 * Many)
      /\ \A i \in 1 .. 6 : ps[i] = p[i]
      /\ \A i \in 1 .. 2 * Many : ps[6 + i] = s[i]
    <2>1. Splits(ps, p, 6, s, 2 * Many)
        BY <1>2, <1>3, <1>4, Joined
    <2> QED BY <2>1 DEF Splits
<1>9. /\ Tuple(psa, 5 + 3 * Many)
      /\ \A i \in 1 .. 6 + 2 * Many : psa[i] = ps[i]
      /\ \A i \in 1 .. Many - 1 : psa[6 + 2 * Many + i] = a[i]
    <2>1. 5 + 3 * Many = (6 + 2 * Many) + (Many - 1)
        BY <1>1
    <2>2. Splits(psa, ps, 6 + 2 * Many, a, Many - 1)
        BY <1>2, <1>4, <1>8, Joined
    <2> QED BY <2>1, <2>2 DEF Splits
<1>10. /\ Tuple(ThreadsMain, 6 + 3 * Many)
       /\ \A i \in 1 .. 5 + 3 * Many : ThreadsMain[i] = psa[i]
       /\ ThreadsMain[6 + 3 * Many] = d[1]
    <2>1. 6 + 3 * Many = (5 + 3 * Many) + 1
        BY <1>1
    <2>2. 1 \in 1 .. 1
        OBVIOUS
    <2>3. Splits(ThreadsMain, psa, 5 + 3 * Many, d, 1)
        BY <1>2, <1>5, <1>9, Joined
    <2> QED BY <2>1, <2>2, <2>3 DEF Splits
<1>15. \A i \in 1 .. 6 : ThreadsMain[i] = p[i]
    BY <1>1, <1>8, <1>9, <1>10
<1>16. \A i \in 1 .. 2 * Many : ThreadsMain[6 + i] = s[i]
    <2> SUFFICES ASSUME NEW i \in 1 .. 2 * Many
                 PROVE  ThreadsMain[6 + i] = s[i]
        OBVIOUS
    <2>1. 6 + i \in 1 .. 6 + 2 * Many /\ 6 + i \in 1 .. 5 + 3 * Many
        BY <1>1
    <2> QED BY <2>1, <1>8, <1>9, <1>10
<1>17. \A i \in 1 .. Many - 1 : ThreadsMain[6 + 2 * Many + i] = a[i]
    <2> SUFFICES ASSUME NEW i \in 1 .. Many - 1
                 PROVE  ThreadsMain[6 + 2 * Many + i] = a[i]
        OBVIOUS
    <2>1. 6 + 2 * Many + i \in 1 .. 5 + 3 * Many
        BY <1>1
    <2> QED BY <2>1, <1>9, <1>10
<1>18. \A i \in 1 .. Many : /\ ThreadsMain[5 + 2 * i] = <<"new_stack", ThreadOrder[i]>>
                            /\ ThreadsMain[6 + 2 * i] = <<"new_thread", ThreadOrder[i]>>
    <2> SUFFICES ASSUME NEW i \in 1 .. Many
                 PROVE  /\ ThreadsMain[5 + 2 * i] = <<"new_stack", ThreadOrder[i]>>
                        /\ ThreadsMain[6 + 2 * i] = <<"new_thread", ThreadOrder[i]>>
        OBVIOUS
    <2>1. /\ 2 * i - 1 \in 1 .. 2 * Many /\ 2 * i \in 1 .. 2 * Many
          /\ 6 + (2 * i - 1) = 5 + 2 * i
        BY <1>1
    <2>2. ThreadsMain[6 + (2 * i - 1)] = s[2 * i - 1] /\ ThreadsMain[6 + 2 * i] = s[2 * i]
        BY <2>1, <1>16
    <2> QED BY <2>1, <2>2, <1>6
<1>19. 3 * Many + 6 = 6 + 3 * Many
    BY <1>1
<1>20. /\ ThreadsMain[1] = p[1] /\ ThreadsMain[2] = p[2] /\ ThreadsMain[3] = p[3]
       /\ ThreadsMain[4] = p[4] /\ ThreadsMain[5] = p[5] /\ ThreadsMain[6] = p[6]
    BY <1>15
<1> QED BY <1>3, <1>5, <1>7, <1>10, <1>17, <1>18, <1>19, <1>20

(* Which statements come at which number.                                  *)
Early(name) ==
    \/ statement = 1 /\ name = "GDT"
    \/ statement = 2 /\ name = "console"
    \/ statement = 3 /\ name = "IDT"
    \/ statement = 4 /\ name = "exceptions"
    \/ statement = 5 /\ name = "IRQ"
    \/ statement = 6 /\ name = "interrupts"
    \/ statement = 7 /\ name = "redirect"
    \/ statement = 8 /\ name = "DBZ"

InPaging(name) ==
    \/ statement = 9 /\ name = "timer"
    \/ statement = 10 /\ name = "register_timer"
    \/ statement = 11 /\ name = "sti"
    \/ statement = 12 /\ name = "frame_pools"
    \/ statement = 13 /\ name = "register_fault_handler"
    \/ statement = 14 /\ name = "init_paging"
    \/ statement = 15 /\ name = "load"
    \/ statement = 16 /\ name = "enable_paging"
    \/ statement = 17 /\ name = "references"
    \/ statement = 18 /\ name = "passed"

InThreads(name) ==
    \/ statement = 9 /\ name = "memory_pool"
    \/ statement = 10 /\ name = "timer"
    \/ statement = 11 /\ name = "register_timer"
    \/ statement = 12 /\ name = "new_disk"
    \/ statement = 13 /\ name = "new_scheduler"
    \/ statement = 14 /\ name = "sti"

AboutThread(name, t) ==
    \/ \E i \in 1 .. Many : /\ t = ThreadOrder[i]
                            /\ \/ statement = 13 + 2 * i /\ name = "new_stack"
                               \/ statement = 14 + 2 * i /\ name = "new_thread"
    \/ \E i \in 1 .. Many - 1 : /\ t = ThreadOrder[i + 1]
                                /\ statement = 14 + 2 * Many + i /\ name = "add"
    \/ statement = 14 + 3 * Many /\ name = "dispatch" /\ t = ThreadOrder[1]

Numbered(name, t) ==
    \/ Early(name)
    \/ kernel = "paging" /\ InPaging(name)
    \/ kernel = "threads" /\ (InThreads(name) \/ AboutThread(name, t))

LEMMA MainIs ==
    /\ kernel = "paging" => /\ Tuple(Main, 18)
                            /\ \A i \in 1 .. 8 : Main[i] = Common[i]
                            /\ \A i \in 1 .. 10 : Main[8 + i] = PagingMain[i]
    /\ kernel # "paging" => /\ Tuple(Main, 14 + 3 * Many)
                            /\ \A i \in 1 .. 8 : Main[i] = Common[i]
                            /\ \A i \in 1 .. 6 + 3 * Many : Main[8 + i] = ThreadsMain[i]
<1>1. CASE kernel = "paging"
    <2>1. Main = Common \o PagingMain /\ 18 = 8 + 10
        BY <1>1 DEF Main
    <2>2. Tuple(Common, 8) /\ Tuple(PagingMain, 10)
        BY CommonIs, PagingMainIs
    <2>3. Splits(Main, Common, 8, PagingMain, 10)
        BY <2>1, <2>2, Joined
    <2> QED BY <1>1, <2>1, <2>3 DEF Splits
<1>2. CASE kernel # "paging"
    <2>1. Main = Common \o ThreadsMain
        BY <1>2 DEF Main
    <2>2. Tuple(Common, 8) /\ Tuple(ThreadsMain, 6 + 3 * Many)
        <3>1. 3 * Many + 6 = 6 + 3 * Many
            BY Sizes
        <3> QED BY CommonIs, ThreadsMainIs, <3>1
    <2>3. 14 + 3 * Many = 8 + (6 + 3 * Many)
        BY Sizes
    <2>4. Splits(Main, Common, 8, ThreadsMain, 6 + 3 * Many)
        BY <2>1, <2>2, Joined
    <2> QED BY <1>2, <2>3, <2>4 DEF Splits
<1> QED BY <1>1, <1>2

LEMMA Order ==
    ASSUME kernel \in Kernels, statement \in Nat \ {0},
           NEW name, NEW t, statement <= Len(Main), Main[statement] = <<name, t>>
    PROVE  Numbered(name, t)
<1>1. Many \in Nat \ {0} /\ kernel \in {"paging", "threads"}
    BY Sizes
<1>2. CASE statement \in 1 .. 8
    <2>1. \A i \in 1 .. 8 : Main[i] = Common[i]
        BY MainIs
    <2>2. Common[statement] = <<name, t>>
        BY <1>2, <2>1
    <2>3. /\ statement = 1 => name = "GDT"
          /\ statement = 2 => name = "console"
          /\ statement = 3 => name = "IDT"
          /\ statement = 4 => name = "exceptions"
          /\ statement = 5 => name = "IRQ"
          /\ statement = 6 => name = "interrupts"
          /\ statement = 7 => name = "redirect"
          /\ statement = 8 => name = "DBZ"
        BY <2>2, CommonIs
    <2>4. \/ statement = 1 \/ statement = 2 \/ statement = 3 \/ statement = 4
          \/ statement = 5 \/ statement = 6 \/ statement = 7 \/ statement = 8
        BY <1>2
    <2>5. Early(name)
        BY <2>3, <2>4 DEF Early
    <2> QED BY <2>5 DEF Numbered
<1>3. CASE kernel = "paging" /\ statement > 8
    <2>2. Tuple(Main, 18) /\ \A i \in 1 .. 10 : Main[8 + i] = PagingMain[i]
        BY <1>3, MainIs
    <2>3. Len(Main) = 18
        BY <2>2, TupleLen
    <2>4. statement \in 9 .. 18
        BY <1>3, <2>3
    <2>5. statement - 8 \in 1 .. 10 /\ 8 + (statement - 8) = statement
        BY <2>4
    <2>6. PagingMain[statement - 8] = <<name, t>>
        BY <2>2, <2>5
    <2>7. /\ statement - 8 = 1 => name = "timer"
          /\ statement - 8 = 2 => name = "register_timer"
          /\ statement - 8 = 3 => name = "sti"
          /\ statement - 8 = 4 => name = "frame_pools"
          /\ statement - 8 = 5 => name = "register_fault_handler"
          /\ statement - 8 = 6 => name = "init_paging"
          /\ statement - 8 = 7 => name = "load"
          /\ statement - 8 = 8 => name = "enable_paging"
          /\ statement - 8 = 9 => name = "references"
          /\ statement - 8 = 10 => name = "passed"
        <3>1. PICK k : k = statement - 8
            OBVIOUS
        <3> QED BY <2>6, <3>1, PagingMainIs
    <2>8. \/ statement = 9 \/ statement = 10 \/ statement = 11 \/ statement = 12 \/ statement = 13
          \/ statement = 14 \/ statement = 15 \/ statement = 16 \/ statement = 17 \/ statement = 18
        BY <2>4
    <2>9. InPaging(name)
        BY <2>7, <2>8 DEF InPaging
    <2> QED BY <1>3, <2>9 DEF Numbered
<1>4. CASE kernel = "threads" /\ statement > 8
    <2>2. /\ Tuple(Main, 14 + 3 * Many)
          /\ \A i \in 1 .. 6 + 3 * Many : Main[8 + i] = ThreadsMain[i]
        BY <1>4, MainIs
    <2>3. Len(Main) = 14 + 3 * Many
        BY <2>2, TupleLen
    <2>4. statement <= 14 + 3 * Many
        BY <1>1, <2>3
    <2>5. PICK k : k = statement - 8
        OBVIOUS
    <2>6. k \in 1 .. 6 + 3 * Many /\ 8 + k = statement /\ k \in Int
        BY <1>1, <1>4, <2>4, <2>5
    <2>7. ThreadsMain[k] = <<name, t>>
        BY <2>2, <2>6
    <2>8. CASE k \in 1 .. 6
        <3>1. /\ k = 1 => name = "memory_pool"
              /\ k = 2 => name = "timer"
              /\ k = 3 => name = "register_timer"
              /\ k = 4 => name = "new_disk"
              /\ k = 5 => name = "new_scheduler"
              /\ k = 6 => name = "sti"
            BY <2>7, ThreadsMainIs
        <3>2. k = 1 \/ k = 2 \/ k = 3 \/ k = 4 \/ k = 5 \/ k = 6
            BY <2>8
        <3>3. statement = 8 + k
            BY <2>6
        <3>4. InThreads(name)
            BY <3>1, <3>2, <3>3 DEF InThreads
        <3> QED BY <1>4, <3>4 DEF Numbered
    <2>9. CASE k > 6 /\ k <= 6 + 2 * Many
        <3>1. PICK i \in 1 .. Many : k = 5 + 2 * i \/ k = 6 + 2 * i
            <4>1. (k - 5) \div 2 \in 1 .. Many
                BY <1>1, <2>6, <2>9
            <4>2. k = 5 + 2 * ((k - 5) \div 2) \/ k = 6 + 2 * ((k - 5) \div 2)
                BY <2>6
            <4> QED BY <4>1, <4>2
        <3>2. CASE k = 5 + 2 * i
            <4>1. name = "new_stack" /\ t = ThreadOrder[i]
                BY <2>7, <3>2, ThreadsMainIs
            <4>2. statement = 13 + 2 * i
                BY <2>6, <3>2
            <4> QED BY <1>4, <4>1, <4>2 DEF Numbered, AboutThread
        <3>3. CASE k = 6 + 2 * i
            <4>1. name = "new_thread" /\ t = ThreadOrder[i]
                BY <2>7, <3>3, ThreadsMainIs
            <4>2. statement = 14 + 2 * i
                BY <2>6, <3>3
            <4> QED BY <1>4, <4>1, <4>2 DEF Numbered, AboutThread
        <3> QED BY <3>1, <3>2, <3>3
    <2>10. CASE k > 6 + 2 * Many /\ k < 6 + 3 * Many
        <3>1. PICK i \in 1 .. Many - 1 : k = 6 + 2 * Many + i
            <4>1. k - (6 + 2 * Many) \in 1 .. Many - 1
                BY <1>1, <2>6, <2>10
            <4>2. k = 6 + 2 * Many + (k - (6 + 2 * Many))
                BY <1>1, <2>6
            <4> QED BY <4>1, <4>2
        <3>2. name = "add" /\ t = ThreadOrder[i + 1]
            BY <2>7, <3>1, ThreadsMainIs
        <3>3. statement = 14 + 2 * Many + i
            BY <1>1, <2>6, <3>1
        <3> QED BY <1>4, <3>2, <3>3 DEF Numbered, AboutThread
    <2>11. CASE k = 6 + 3 * Many
        <3>1. name = "dispatch" /\ t = ThreadOrder[1]
            BY <2>7, <2>11, ThreadsMainIs
        <3>2. statement = 14 + 3 * Many
            BY <1>1, <2>6, <2>11
        <3> QED BY <1>4, <3>1, <3>2 DEF Numbered, AboutThread
    <2> QED BY <1>1, <2>6, <2>8, <2>9, <2>10, <2>11
<1> QED BY <1>1, <1>2, <1>3, <1>4

-----------------------------------------------------------------------------
(* Words in memory                                                         *)

(* m is the memory after n words have been pushed from esp down.           *)
Writes(m, esp, words, n) ==
    /\ DOMAIN m = Address
    /\ \A a \in Address : a >= esp \/ a < esp - n => m[a] = memory[a]
    /\ \A i \in 1 .. n : esp - i \in Address => m[esp - i] = words[i]

LEMMA StoreIs ==
    ASSUME NEW at \in Int, NEW n, NEW words, Tuple(words, n), DOMAIN memory = Address
    PROVE  /\ DOMAIN Store(at, words) = Address
           /\ \A a \in Address : a - at + 1 \notin 1 .. n => Store(at, words)[a] = memory[a]
           /\ \A a \in Address : a - at + 1 \in 1 .. n
                  => Store(at, words)[a] = words[a - at + 1]
<1>1. DOMAIN words = 1 .. n
    BY TupleLen
<1> QED BY <1>1 DEF Store

LEMMA PushedIs ==
    ASSUME NEW n, NEW words, Tuple(words, n), NEW esp \in Int, DOMAIN memory = Address
    PROVE  Writes(Pushed(esp, words), esp, words, n)
<1> DEFINE at == esp - n
           back == Reverse(words)
           m == Store(at, back)
<1>1. n \in Nat /\ Len(words) = n
    BY TupleLen
<1>2. Tuple(back, n) /\ \A i \in 1 .. n : back[i] = words[n - i + 1]
    BY <1>1 DEF Reverse, Tuple
<1>3. Pushed(esp, words) = m
    BY <1>1 DEF Pushed
<1>4. at \in Int /\ at = esp - n
    BY <1>1
<1> HIDE DEF back, at
<1>5. /\ DOMAIN m = Address
      /\ \A a \in Address : a - at + 1 \notin 1 .. n => m[a] = memory[a]
      /\ \A a \in Address : a - at + 1 \in 1 .. n => m[a] = back[a - at + 1]
    BY <1>2, <1>4, StoreIs
<1> HIDE DEF m
<1>6. \A a \in Address : a \in Int
    BY Sizes
<1>7. \A a \in Address : a >= esp \/ a < esp - n => m[a] = memory[a]
    <2> SUFFICES ASSUME NEW a \in Address, a >= esp \/ a < esp - n
                 PROVE  m[a] = memory[a]
        OBVIOUS
    <2>1. a - at + 1 \notin 1 .. n
        BY <1>1, <1>4, <1>6
    <2> QED BY <1>5, <2>1
<1>8. \A i \in 1 .. n : esp - i \in Address => m[esp - i] = words[i]
    <2> SUFFICES ASSUME NEW i \in 1 .. n, NEW a \in Address, a = esp - i
                 PROVE  m[a] = words[i]
        OBVIOUS
    <2>1. PICK j : j = a - at + 1
        OBVIOUS
    <2>2. j = n - i + 1
        BY <1>1, <1>4, <2>1
    <2>3. j \in 1 .. n /\ n - j + 1 = i
        BY <1>1, <2>2
    <2>4. m[a] = back[j]
        BY <1>5, <2>1, <2>3
    <2>5. back[j] = words[n - j + 1]
        BY <1>2, <2>3
    <2> QED BY <2>3, <2>4, <2>5
<1> QED BY <1>3, <1>5, <1>7, <1>8 DEF Writes

(* Tuples of one and two words.                                            *)
LEMMA Few ==
    ASSUME NEW v, NEW w
    PROVE  Tuple(<<v>>, 1) /\ Tuple(<<v, w>>, 2)
    BY DEF Tuple

-----------------------------------------------------------------------------
(* Registers                                                               *)

LEMMA Registers ==
    /\ DOMAIN SaveOrder = 1 .. 12 /\ Len(SaveOrder) = 12
    /\ SaveOrder[5] = "esp" /\ SaveOrder[9] = "ds" /\ SaveOrder[10] = "es"
    /\ "eax" \in Register
    /\ \A r \in Register : /\ Place(r) \in 1 .. 12 /\ SaveOrder[Place(r)] = r
                           /\ r # "esp"
                           /\ Place(r) = 9 <=> r = "ds"
                           /\ Place(r) = 10 <=> r = "es"
<1>1. /\ DOMAIN SaveOrder = 1 .. 12 /\ Len(SaveOrder) = 12
      /\ SaveOrder[1] = "eax" /\ SaveOrder[5] = "esp"
      /\ SaveOrder[9] = "ds" /\ SaveOrder[10] = "es"
    BY DEF SaveOrder
<1>2. \A i \in 1 .. 12 : /\ i # 9 => SaveOrder[i] # "ds"
                         /\ i # 10 => SaveOrder[i] # "es"
    <2> SUFFICES ASSUME NEW i \in 1 .. 12
                 PROVE  /\ i # 9 => SaveOrder[i] # "ds"
                        /\ i # 10 => SaveOrder[i] # "es"
        OBVIOUS
    <2>1. \/ i = 1 \/ i = 2 \/ i = 3 \/ i = 4 \/ i = 5 \/ i = 6
          \/ i = 7 \/ i = 8 \/ i = 9 \/ i = 10 \/ i = 11 \/ i = 12
        OBVIOUS
    <2> QED BY <2>1 DEF SaveOrder
<1>3. Register = {SaveOrder[i] : i \in 1 .. 12} \ {"esp"}
    BY <1>1 DEF Register, Range
<1>4. "eax" \in Register
    BY <1>1, <1>3
<1>5. \A r \in Register : Place(r) \in 1 .. 12 /\ SaveOrder[Place(r)] = r
    <2> SUFFICES ASSUME NEW r \in Register
                 PROVE  Place(r) \in 1 .. 12 /\ SaveOrder[Place(r)] = r
        OBVIOUS
    <2>1. \E i \in DOMAIN SaveOrder : SaveOrder[i] = r
        BY <1>1, <1>3
    <2>2. Place(r) \in DOMAIN SaveOrder /\ SaveOrder[Place(r)] = r
        BY <2>1 DEF Place
    <2> QED BY <1>1, <2>2
<1> QED BY <1>1, <1>2, <1>3, <1>4, <1>5

LEMMA SavedIs ==
    ASSUME NEW f
    PROVE  /\ Tuple(Saved(f), 12)
           /\ \A r \in Register : Saved(f)[Place(r)] = f[r]
<1>1. Saved(f) = [i \in 1 .. 12 |-> IF SaveOrder[i] = "esp" THEN "esp" ELSE f[SaveOrder[i]]]
    BY Registers DEF Saved
<1>2. Tuple(Saved(f), 12)
    BY <1>1 DEF Tuple
<1>3. \A r \in Register : Saved(f)[Place(r)] = f[r]
    BY <1>1, Registers
<1> QED BY <1>2, <1>3

LEMMA FreshIs ==
    ASSUME NEW t
    PROVE  /\ Tuple(FreshContext(t), 20)
           /\ FreshContext(t)[1] = "0" /\ FreshContext(t)[2] = "thread_shutdown"
           /\ FreshContext(t)[3] = "fun" /\ FreshContext(t)[4] = "0"
           /\ FreshContext(t)[6] = "thread_start"
           /\ \A r \in Register : FreshContext(t)[8 + Place(r)] = FreshRegisters[r]
<1> DEFINE f == FreshContext(t)
           a == <<"0", "thread_shutdown", "fun", "0", "CS", "thread_start", "0", "0">>
           b == <<"0", "0", "0", "0", "0", "0", "0", "0">>
           c == <<"DS", "DS", "0", "0">>
           ab == a \o b
<1>1. f = ab \o c /\ ab = a \o b
    BY DEF FreshContext
<1>2. /\ Tuple(a, 8) /\ a[1] = "0" /\ a[2] = "thread_shutdown" /\ a[3] = "fun" /\ a[4] = "0"
      /\ a[6] = "thread_start"
    BY DEF Tuple
<1>3. Tuple(b, 8) /\ \A i \in 1 .. 8 : b[i] = "0"
    <2>1. Tuple(b, 8)
        BY DEF Tuple
    <2>2. \A i \in 1 .. 8 : b[i] = "0"
        <3> SUFFICES ASSUME NEW i \in 1 .. 8
                     PROVE  b[i] = "0"
            OBVIOUS
        <3>1. i = 1 \/ i = 2 \/ i = 3 \/ i = 4 \/ i = 5 \/ i = 6 \/ i = 7 \/ i = 8
            OBVIOUS
        <3> QED BY <3>1
    <2> QED BY <2>1, <2>2
<1>4. Tuple(c, 4) /\ c[1] = "DS" /\ c[2] = "DS" /\ c[3] = "0" /\ c[4] = "0"
    BY DEF Tuple
<1> HIDE DEF f, a, b, c, ab
<1>5. Splits(ab, a, 8, b, 8)
    BY <1>1, <1>2, <1>3, Joined
<1>6. /\ Tuple(ab, 16)
      /\ \A i \in 1 .. 8 : ab[i] = a[i]
      /\ \A i \in 1 .. 8 : ab[8 + i] = b[i]
    <2>1. 8 + 8 = 16
        OBVIOUS
    <2> QED BY <1>5, <2>1 DEF Splits
<1>7. Splits(f, ab, 16, c, 4)
    BY <1>1, <1>4, <1>6, Joined
<1>8. /\ Tuple(f, 20)
      /\ \A i \in 1 .. 16 : f[i] = ab[i]
      /\ \A i \in 1 .. 4 : f[16 + i] = c[i]
    <2>1. 16 + 4 = 20
        OBVIOUS
    <2> QED BY <1>7, <2>1 DEF Splits
<1>9. f[1] = "0" /\ f[2] = "thread_shutdown" /\ f[3] = "fun" /\ f[4] = "0" /\ f[6] = "thread_start"
    BY <1>2, <1>6, <1>8
<1>10. \A i \in 1 .. 12 : f[8 + i] = IF i \in {9, 10} THEN "DS" ELSE "0"
    <2> SUFFICES ASSUME NEW i \in 1 .. 12
                 PROVE  f[8 + i] = IF i \in {9, 10} THEN "DS" ELSE "0"
        OBVIOUS
    <2>1. CASE i \in 1 .. 8
        <3>1. 8 + i \in 1 .. 16
            BY <2>1
        <3>2. f[8 + i] = "0"
            BY <2>1, <3>1, <1>3, <1>6, <1>8
        <3> QED BY <2>1, <3>2
    <2>2. CASE i = 9 \/ i = 10 \/ i = 11 \/ i = 12
        <3>1. f[17] = "DS" /\ f[18] = "DS" /\ f[19] = "0" /\ f[20] = "0"
            BY <1>4, <1>8
        <3> QED BY <2>2, <3>1
    <2> QED BY <2>1, <2>2
<1>11. \A r \in Register : f[8 + Place(r)] = FreshRegisters[r]
    <2> SUFFICES ASSUME NEW r \in Register
                 PROVE  f[8 + Place(r)] = FreshRegisters[r]
        OBVIOUS
    <2>1. FreshRegisters[r] = IF r \in {"ds", "es"} THEN "DS" ELSE "0"
        BY DEF FreshRegisters
    <2>2. Place(r) \in 1 .. 12 /\ (Place(r) \in {9, 10} <=> r \in {"ds", "es"})
        BY Registers
    <2> QED BY <1>10, <2>1, <2>2
<1> QED BY <1>8, <1>9, <1>11 DEF f

(* The frame that is saved without an interrupt.                           *)
LEMMA SaveIs ==
    ASSUME NEW f, NEW words, words = <<"0", "0">> \o Saved(f)
    PROVE  Tuple(words, 14) /\ \A r \in Register : words[2 + Place(r)] = f[r]
<1>1. Splits(words, <<"0", "0">>, 2, Saved(f), 12)
    <2>1. Tuple(<<"0", "0">>, 2) /\ Tuple(Saved(f), 12)
        BY Few, SavedIs
    <2> QED BY <2>1, Joined
<1>2. Tuple(words, 14) /\ \A i \in 1 .. 12 : words[2 + i] = Saved(f)[i]
    <2>1. 2 + 12 = 14
        OBVIOUS
    <2> QED BY <1>1, <2>1 DEF Splits
<1>3. \A r \in Register : words[2 + Place(r)] = f[r]
    <2> SUFFICES ASSUME NEW r \in Register
                 PROVE  words[2 + Place(r)] = f[r]
        OBVIOUS
    <2>1. Place(r) \in 1 .. 12
        BY Registers
    <2>2. Saved(f)[Place(r)] = f[r]
        BY SavedIs
    <2> QED BY <1>2, <2>1, <2>2
<1> QED BY <1>2, <1>3

LEMMA TickFrameIs ==
    ASSUME NEW words, words = TickFrame \o [i \in 1 .. HandlerWords |-> "handler"]
    PROVE  Tuple(words, Room) /\ words[5] = "32" /\ Len(TickFrame) = 17
<1> DEFINE a == <<Flags(cpu.enabled), "CS", cpu.eip, "0", "32">>
           b == [i \in 1 .. HandlerWords |-> "handler"]
<1>1. TickFrame = a \o Saved(regs)
    BY DEF TickFrame
<1>2. Tuple(a, 5) /\ a[5] = "32"
    BY DEF Tuple
<1>3. HandlerWords \in Nat /\ Room = 17 + HandlerWords
    BY Sizes
<1>4. Tuple(b, HandlerWords)
    BY <1>3 DEF Tuple
<1>5. words = TickFrame \o b
    OBVIOUS
<1> HIDE DEF a, b
<1>6. Splits(TickFrame, a, 5, Saved(regs), 12)
    BY <1>1, <1>2, SavedIs, Joined
<1>7. Tuple(TickFrame, 17) /\ \A i \in 1 .. 5 : TickFrame[i] = a[i]
    <2>1. 5 + 12 = 17
        OBVIOUS
    <2> QED BY <1>6, <2>1 DEF Splits
<1>8. Splits(words, TickFrame, 17, b, HandlerWords)
    BY <1>4, <1>5, <1>7, Joined
<1>9. Tuple(words, Room) /\ \A i \in 1 .. 17 : words[i] = TickFrame[i]
    BY <1>3, <1>8 DEF Splits
<1>10. Len(TickFrame) = 17
    BY <1>7, TupleLen
<1>11. words[5] = "32"
    <2>1. 5 \in 1 .. 17 /\ 5 \in 1 .. 5
        OBVIOUS
    <2>2. words[5] = TickFrame[5] /\ TickFrame[5] = a[5]
        BY <1>7, <1>9, <2>1, Zenon
    <2> QED BY <1>2, <2>2, Zenon
<1> QED BY <1>9, <1>10, <1>11

LEMMA IntNo == Field(cpu.esp - 17, "int_no") = cpu.esp - 17 - 1 + 13
<1>1. DOMAIN REGS = 1 .. 17 /\ REGS[13] = "int_no"
    BY DEF REGS
<1>2. \A i \in 1 .. 17 : REGS[i] = "int_no" => i = 13
    <2> SUFFICES ASSUME NEW i \in 1 .. 17, REGS[i] = "int_no"
                 PROVE  i = 13
        OBVIOUS
    <2>1. \/ i = 1 \/ i = 2 \/ i = 3 \/ i = 4 \/ i = 5 \/ i = 6 \/ i = 7 \/ i = 8 \/ i = 9
          \/ i = 10 \/ i = 11 \/ i = 12 \/ i = 13 \/ i = 14 \/ i = 15 \/ i = 16 \/ i = 17
        OBVIOUS
    <2> QED BY <2>1 DEF REGS
<1>3. (CHOOSE i \in DOMAIN REGS : REGS[i] = "int_no") = 13
    BY <1>1, <1>2
<1> QED BY <1>3 DEF Field

LEMMA PoppedIs ==
    ASSUME NEW top \in Int
    PROVE  Popped(top - 20) = [regs    |-> [r \in Register |-> memory[top - 8 - Place(r)]],
                               eip     |-> memory[top - 6],
                               enabled |-> memory[top - 4] = "IF",
                               esp     |-> top - 3]
<1> DEFINE offset(r) == Len(SaveOrder) - CHOOSE i \in DOMAIN SaveOrder : SaveOrder[i] = r
           frame == top - 20 + Len(SaveOrder) + 2
<1>1. Popped(top - 20) = [regs    |-> [r \in Register |-> memory[top - 20 + offset(r)]],
                          eip     |-> memory[frame],
                          enabled |-> memory[frame + 2] = "IF",
                          esp     |-> frame + 3]
    BY DEF Popped
<1>2. \A r \in Register : offset(r) = 12 - Place(r) /\ Place(r) \in 1 .. 12
    BY Registers DEF Place
<1>3. frame = top - 6 /\ frame + 2 = top - 4 /\ frame + 3 = top - 3
    BY Registers
<1> HIDE DEF offset, frame
<1>4. \A r \in Register : top - 20 + offset(r) = top - 8 - Place(r)
    BY <1>2
<1>5. [r \in Register |-> memory[top - 20 + offset(r)]]
          = [r \in Register |-> memory[top - 8 - Place(r)]]
    BY <1>4
<1> QED BY <1>1, <1>3, <1>5

(* What restore_registers and iret find in a frame is what was left.       *)
LEMMA Returns ==
    ASSUME NEW top \in Int, NEW l, Leaves(top, l), Frame(top, l)
    PROVE  Popped(top - 20) = l
<1>1. \A r \in Register : memory[top - 8 - Place(r)] = l.regs[r]
    BY DEF Frame
<1>2. [r \in Register |-> memory[top - 8 - Place(r)]] = [r \in Register |-> l.regs[r]]
    BY <1>1
<1>3. memory[top - 6] = l.eip /\ (memory[top - 4] = "IF") = l.enabled
    BY DEF Frame
<1>4. l = [eip |-> l.eip, esp |-> top - 3, enabled |-> l.enabled,
           regs |-> [r \in Register |-> l.regs[r]]]
    BY DEF Leaves
<1>5. Popped(top - 20) = [regs |-> [r \in Register |-> l.regs[r]], eip |-> l.eip,
                          enabled |-> l.enabled, esp |-> top - 3]
    BY <1>2, <1>3, PoppedIs
<1> QED BY <1>4, <1>5

-----------------------------------------------------------------------------
(* Where the stacks are                                                    *)

Placed(t) ==
    /\ Top(t) \in Int /\ Top(t) - StackWords >= BootWords
    /\ \A a \in Int : Top(t) - StackWords <= a /\ a <= Top(t) => a \in Address

Apart(t, u) == Top(u) <= Top(t) - StackWords \/ Top(t) <= Top(u) - StackWords

LEMMA PlacedAt ==
    ASSUME NEW i \in 1 .. Many, NEW t, tcb[t].stack = StackAt(i)
    PROVE  Placed(t)
<1>1. Top(t) = StackAt(i) + StackWords
    BY DEF Top
<1>2. StackAt(i) \in Nat /\ StackAt(i) >= BootWords /\ StackWords \in Nat
    BY StacksApart, Sizes
<1>3. \A a \in StackAt(i) .. StackAt(i) + StackWords : a \in Address
    BY StacksApart
<1> QED BY <1>1, <1>2, <1>3 DEF Placed

LEMMA ApartAt ==
    ASSUME NEW i \in 1 .. Many, NEW j \in 1 .. Many, i # j, NEW t, NEW u,
           tcb[t].stack = StackAt(i), tcb[u].stack = StackAt(j)
    PROVE  Apart(t, u)
<1>1. Top(t) = StackAt(i) + StackWords /\ Top(u) = StackAt(j) + StackWords
    BY DEF Top
<1>2. /\ StackAt(i) \in Nat /\ StackAt(j) \in Nat /\ StackWords \in Nat
      /\ StackAt(i) + StackWords <= StackAt(j) \/ StackAt(j) + StackWords <= StackAt(i)
    BY StacksApart, Sizes
<1> QED BY <1>1, <1>2 DEF Apart

LEMMA MadeIs ==
    ASSUME Typed, StacksInv, NEW t \in Thread, left[t].eip # "nowhere"
    PROVE  \E i \in 1 .. Many : t = ThreadOrder[i] /\ Made(i) /\ tcb[t].stack = StackAt(i)
<1>1. PICK i \in 1 .. Many : t = ThreadOrder[i]
    BY Sizes
<1>2. Made(i)
    BY <1>1 DEF StacksInv
<1>3. Stacked(i)
    BY <1>2 DEF Made, Stacked, Typed
<1>4. tcb[t].stack = StackAt(i)
    BY <1>1, <1>3 DEF StacksInv
<1> QED BY <1>1, <1>2, <1>4

LEMMA Placement ==
    ASSUME Typed, StacksInv, NEW t \in Thread, left[t].eip # "nowhere"
    PROVE  Placed(t)
    BY MadeIs, PlacedAt

LEMMA Separation ==
    ASSUME Typed, StacksInv, NEW t \in Thread, left[t].eip # "nowhere",
           NEW u \in Thread, left[u].eip # "nowhere", t # u
    PROVE  Apart(t, u)
<1>1. PICK i \in 1 .. Many : t = ThreadOrder[i] /\ tcb[t].stack = StackAt(i)
    BY MadeIs
<1>2. PICK j \in 1 .. Many : u = ThreadOrder[j] /\ tcb[u].stack = StackAt(j)
    BY MadeIs
<1>3. i # j
    BY <1>1, <1>2
<1> QED BY <1>1, <1>2, <1>3, ApartAt

LEMMA AllMade ==
    ASSUME Typed, StacksInv, Started
    PROVE  \A t \in Thread : left[t].eip # "nowhere"
<1> SUFFICES ASSUME NEW t \in Thread
             PROVE  left[t].eip # "nowhere"
    OBVIOUS
<1>1. PICK i \in 1 .. Many : t = ThreadOrder[i]
    BY Sizes
<1>2. Made(i)
    <2>1. i \in Int /\ i <= Many /\ Many \in Int
        BY Sizes
    <2> QED BY <2>1 DEF Started, Made, Typed
<1> QED BY <1>1, <1>2 DEF StacksInv

(* The processor goes on elsewhere.                                        *)
Moved(c, place, e) == [c EXCEPT !.eip = place, !.esp = e]

LEMMA Proceeds ==
    ASSUME NEW c, Processor(c), NEW place, NEW e \in Int, NEW d, d = Moved(c, place, e)
    PROVE  Processor(d) /\ d.eip = place /\ d.esp = e /\ d.enabled = c.enabled
<1>1. PICK i : i = c.eip
    OBVIOUS
<1>2. PICK f : f = c.enabled
    OBVIOUS
<1>3. PICK j : j = c.esp
    OBVIOUS
<1>4. c = [eip |-> i, esp |-> j, enabled |-> f] /\ f \in BOOLEAN
    BY <1>1, <1>2, <1>3 DEF Processor
<1>5. d = [eip |-> place, esp |-> e, enabled |-> f]
    BY <1>4 DEF Moved
<1> QED BY <1>2, <1>4, <1>5 DEF Processor

-----------------------------------------------------------------------------
(* Frames stay as they are                                                 *)

LEMMA ParkedKept ==
    ASSUME NEW t, Parked(t), Placed(t), tcb'[t] = tcb[t], left'[t] = left[t],
           t \in struck => t \in struck',
           \A a \in Int : Top(t) - 20 <= a /\ a < Top(t) => memory'[a] = memory[a]
    PROVE  Parked(t)'
<1>1. PICK top : top = Top(t)
    OBVIOUS
<1>2. PICK l : l = left[t]
    OBVIOUS
<1>3. top \in Int /\ Top(t)' = top /\ left'[t] = l
    BY <1>1, <1>2 DEF Placed, Top
<1>4. tcb'[t].esp = top - 20 /\ Leaves(top, l)
    BY <1>1, <1>2 DEF Parked
<1>5. \A i \in 1 .. 20 : memory'[top - i] = memory[top - i]
    <2> SUFFICES ASSUME NEW i \in 1 .. 20
                 PROVE  memory'[top - i] = memory[top - i]
        OBVIOUS
    <2>1. top - i \in Int /\ top - 20 <= top - i /\ top - i < top
        BY <1>3
    <2> QED BY <1>1, <2>1
<1>6. ASSUME t \notin struck'
      PROVE  Frame(top, l)'
    <2>1. Frame(top, l)
        BY <1>1, <1>2, <1>6 DEF Parked
    <2>2. \A r \in Register : memory'[top - 8 - Place(r)] = memory[top - 8 - Place(r)]
        <3> SUFFICES ASSUME NEW r \in Register
                     PROVE  memory'[top - 8 - Place(r)] = memory[top - 8 - Place(r)]
            OBVIOUS
        <3>1. 8 + Place(r) \in 1 .. 20 /\ top - (8 + Place(r)) = top - 8 - Place(r)
            BY <1>3, Registers
        <3> QED BY <1>5, <3>1
    <2>3. /\ memory'[top - 1] = memory[top - 1] /\ memory'[top - 2] = memory[top - 2]
          /\ memory'[top - 3] = memory[top - 3] /\ memory'[top - 4] = memory[top - 4]
          /\ memory'[top - 6] = memory[top - 6]
        BY <1>5
    <2> QED BY <2>1, <2>2, <2>3 DEF Frame
<1>7. Leaves(top, l)'
    BY <1>4 DEF Leaves
<1> QED BY <1>3, <1>4, <1>6, <1>7 DEF Parked

-----------------------------------------------------------------------------
(* The statements of main                                                  *)

LEMMA AtMain ==
    ASSUME BInv, NEW name, NEW t, Execute(name, t)
    PROVE  /\ Numbered(name, t) /\ statement' = statement + 1 /\ kernel' = kernel
           /\ statement \in Nat \ {0} /\ kernel \in {"paging", "threads"}
           /\ cpu.eip = "main" /\ cpu.esp = BootWords /\ current_thread = None /\ ~Started
<1>1. /\ cpu.eip = "main" /\ statement <= Len(Main) /\ Main[statement] = <<name, t>>
      /\ statement' = statement + 1 /\ kernel' = kernel
    BY DEF Execute, At
<1>2. kernel \in Kernels /\ statement \in Nat \ {0}
    BY DEF BInv, Typed
<1>3. Numbered(name, t)
    BY <1>1, <1>2, Order
<1>4. kernel \in {"paging", "threads"}
    BY <1>2, Sizes
<1>5. current_thread = None /\ MainRuns
    BY <1>1 DEF BInv, RunsInv, OnOldStack, ThreadRuns, Depth
<1>6. cpu.esp = BootWords /\ ~Started
    BY <1>1, <1>5 DEF MainRuns
<1> QED BY <1>1, <1>2, <1>3, <1>4, <1>5, <1>6

(* The statements that are not about threads.                              *)
LEMMA Numbers ==
    ASSUME NEW name, NEW t, Numbered(name, t)
    PROVE  /\ name = "GDT" => statement = 1
           /\ name = "console" => statement = 2
           /\ name = "IDT" => statement = 3
           /\ name = "exceptions" => statement = 4
           /\ name = "IRQ" => statement = 5
           /\ name = "interrupts" => statement = 6
           /\ name = "redirect" => statement = 7
           /\ name = "DBZ" => statement = 8
           /\ name = "timer" => statement = Timed
           /\ name = "register_timer" => statement = Timed + 1
           /\ name = "sti" => statement = Ready
           /\ name = "frame_pools" => kernel = "paging" /\ statement = 12
           /\ name = "register_fault_handler" => kernel = "paging" /\ statement = 13
           /\ name = "init_paging" => kernel = "paging" /\ statement = 14
           /\ name = "load" => kernel = "paging" /\ statement = 15
           /\ name = "enable_paging" => kernel = "paging" /\ statement = 16
           /\ name = "references" => kernel = "paging" /\ statement = 17
           /\ name = "passed" => kernel = "paging" /\ statement = 18
           /\ name = "memory_pool" => kernel = "threads" /\ statement = 9
           /\ name = "new_disk" => kernel = "threads" /\ statement = 12
           /\ name = "new_scheduler" => kernel = "threads" /\ statement = 13
           /\ name \in {"new_stack", "new_thread", "add", "dispatch"} =>
                  kernel = "threads" /\ AboutThread(name, t)
<1>1. CASE Early(name)
    BY <1>1 DEF Early
<1>2. CASE kernel = "paging" /\ InPaging(name)
    BY <1>2 DEF InPaging, Timed, Ready
<1>3. CASE kernel = "threads" /\ InThreads(name)
    BY <1>3 DEF InThreads, Timed, Ready
<1>4. CASE kernel = "threads" /\ AboutThread(name, t)
    BY <1>4 DEF AboutThread
<1> QED BY <1>1, <1>2, <1>3, <1>4 DEF Numbered

(* As long as main runs it is not yet at the end of its list, unless it    *)
(* starts the first thread.                                                *)
LEMMA StillMain ==
    ASSUME BInv, NEW name, NEW t, Execute(name, t), name # "dispatch"
    PROVE  ~Started' /\ (cpu'.eip = "main" /\ cpu'.esp = cpu.esp
                         /\ current_thread' = current_thread => RunsInv')
<1>1. /\ Numbered(name, t) /\ statement' = statement + 1 /\ kernel' = kernel
      /\ cpu.esp = BootWords /\ current_thread = None /\ statement \in Nat
    BY AtMain
<1>2. Many \in Nat \ {0}
    BY Sizes
<1>3. kernel = "threads" => statement < 14 + 3 * Many
    <2>1. CASE Early(name)
        BY <1>2, <2>1 DEF Early
    <2>2. CASE kernel = "paging"
        BY <2>2
    <2>3. CASE InThreads(name)
        BY <1>2, <2>3 DEF InThreads
    <2>4. CASE AboutThread(name, t)
        BY <1>2, <2>4 DEF AboutThread
    <2> QED BY <1>1, <2>1, <2>2, <2>3, <2>4 DEF Numbered
<1>4. ~Started'
    BY <1>1, <1>2, <1>3 DEF Started
<1>5. ASSUME cpu'.eip = "main", cpu'.esp = cpu.esp, current_thread' = current_thread
      PROVE  RunsInv'
    <2>1. BootWords' = BootWords
        OBVIOUS
    <2>2. MainRuns'
        BY <1>1, <1>4, <1>5 DEF MainRuns
    <2> QED BY <1>1, <1>5, <2>2 DEF RunsInv
<1> QED BY <1>4, <1>5

(* The threads, their stacks and their frames are as they were.            *)
LEMMA Quiet ==
    ASSUME BInv, NEW name, Execute(name, None),
           name \notin {"memory_pool", "new_disk", "new_scheduler",
                        "new_stack", "new_thread", "add", "dispatch"},
           UNCHANGED <<memory, regs, threads, int_no, history, bounds>>,
           cpu'.eip = cpu.eip, cpu'.esp = cpu.esp
    PROVE  StacksInv' /\ FramesInv' /\ RunsInv'
<1>1. /\ Numbered(name, None) /\ statement' = statement + 1 /\ kernel' = kernel
      /\ statement \in Nat /\ cpu.eip = "main"
    BY AtMain
<1>2. /\ memory' = memory /\ regs' = regs /\ heap' = heap /\ tcb' = tcb
      /\ current_thread' = current_thread /\ left' = left /\ struck' = struck
    BY DEF threads, history
<1>3. RunsInv'
    BY <1>1, <1>2, StillMain
<1>4. FramesInv'
    BY <1>1, <1>2 DEF BInv, FramesInv, Away, Parked, Top, Leaves, Frame
<1>5. kernel = "threads" => statement \in 1 .. 8 \cup {10, 11, 14}
    <2>1. CASE Early(name)
        BY <2>1 DEF Early
    <2>2. CASE InThreads(name)
        BY <2>2 DEF InThreads
    <2>3. CASE AboutThread(name, None)
        BY <2>3 DEF AboutThread
    <2> QED BY <1>1, <2>1, <2>2, <2>3 DEF Numbered
<1>6. StacksInv'
    <2>1. kernel' = "threads" => /\ statement' \in 10 .. 12 => heap' = HeapStart
                                 /\ statement' = 13 => heap' = HeapStart + ObjectWords
                                 /\ statement' = 14 => heap' = StackAt(1)
        BY <1>1, <1>2, <1>5 DEF BInv, StacksInv
    <2>2. ASSUME NEW i \in 1 .. Many
          PROVE  /\ kernel' = "threads" /\ statement' = 13 + 2 * i => heap' = StackAt(i)
                 /\ kernel' = "threads" /\ statement' = 14 + 2 * i
                        => heap' = StackAt(i) + StackWords
                 /\ Stacked(i)' => tcb'[ThreadOrder[i]].stack = StackAt(i)
                 /\ left'[ThreadOrder[i]].eip # "nowhere" <=> Made(i)'
        <3>1. i \in Int /\ i >= 1
            BY Sizes
        <3>2. kernel = "threads" /\ statement + 1 = 13 + 2 * i => heap = StackAt(i)
            BY <1>5, <3>1 DEF BInv, StacksInv
        <3>3. ~(kernel = "threads" /\ statement + 1 = 14 + 2 * i)
            BY <1>5, <3>1
        <3>4. (Stacked(i)' <=> Stacked(i)) /\ (Made(i)' <=> Made(i))
            BY <1>1, <1>5, <3>1 DEF Stacked, Made
        <3>5. /\ Stacked(i) => tcb[ThreadOrder[i]].stack = StackAt(i)
              /\ left[ThreadOrder[i]].eip # "nowhere" <=> Made(i)
            BY <2>2 DEF BInv, StacksInv
        <3> QED BY <1>1, <1>2, <3>2, <3>3, <3>4, <3>5
    <2> QED BY <2>1, <2>2 DEF StacksInv
<1> QED BY <1>3, <1>4, <1>6

-----------------------------------------------------------------------------
(* Tables and devices                                                      *)

LEMMA TablesStep ==
    ASSUME BInv, SetsUpTables
    PROVE  BInv'
<1>1. PICK name \in {"GDT", "IDT", "exceptions", "interrupts"} : Execute(name, None)
    BY DEF SetsUpTables, Does
<1>2. /\ memory' = memory /\ regs' = regs /\ cpu' = cpu /\ heap' = heap /\ tcb' = tcb
      /\ current_thread' = current_thread /\ ready' = ready /\ left' = left /\ struck' = struck
      /\ int_no' = int_no /\ ticks' = ticks /\ calls' = calls
      /\ pic' = pic /\ pit' = pit /\ paging' = paging
    BY DEF SetsUpTables, switches, devices, machine, threads, history, bounds
<1>3. StacksInv' /\ FramesInv' /\ RunsInv'
    <2>1. UNCHANGED <<memory, regs, threads, int_no, history, bounds>>
        BY <1>2 DEF threads, history, bounds
    <2> QED BY <1>1, <1>2, <2>1, Quiet
<1>4. /\ statement' = statement + 1 /\ kernel' = kernel
      /\ statement \in Nat \ {0} /\ kernel \in {"paging", "threads"}
    BY <1>1, AtMain
<1>5. /\ interrupts' = interrupts \/ (statement = 6 /\ interrupts' = [l \in Line |-> "none"])
      /\ exceptions' = exceptions \/ (statement = 4 /\ exceptions' = [v \in Exception |-> "none"])
      /\ gdt' = gdt \/ statement = 1
      /\ statement = 1 => gdt' = GDT_init
      /\ statement = 4 => idt' = ExceptionGates(idt)
      /\ statement = 6 => idt' = InterruptGates(idt)
      /\ statement > 4 => idt' = idt \/ statement = 6
    <2>1. CASE Does("GDT") /\ gdt' = GDT_init /\ UNCHANGED <<idt, exceptions, interrupts>>
        <3>1. statement = 1
            BY <2>1, AtMain, Numbers DEF Does
        <3> QED BY <2>1, <3>1
    <2>2. CASE Does("IDT") /\ idt' = IDT_init /\ UNCHANGED <<gdt, exceptions, interrupts>>
        <3>1. statement = 3
            BY <2>2, AtMain, Numbers DEF Does
        <3> QED BY <2>2, <3>1
    <2>3. CASE /\ Does("exceptions") /\ idt' = ExceptionGates(idt)
               /\ exceptions' = [v \in Exception |-> "none"] /\ UNCHANGED <<gdt, interrupts>>
        <3>1. statement = 4
            BY <2>3, AtMain, Numbers DEF Does
        <3> QED BY <2>3, <3>1
    <2>4. CASE /\ Does("interrupts") /\ idt' = InterruptGates(idt)
               /\ interrupts' = [l \in Line |-> "none"] /\ UNCHANGED <<gdt, exceptions>>
        <3>1. statement = 6
            BY <2>4, AtMain, Numbers DEF Does
        <3> QED BY <2>4, <3>1
    <2> QED BY <2>1, <2>2, <2>3, <2>4 DEF SetsUpTables
<1>6. Typed'
    BY <1>2, <1>4, <1>5 DEF BInv, Typed
<1>7. /\ statement > 3 => \A v \in Exception : idt'[v] = Gate(Stub(v), 8, 142)
      /\ statement > 5 => \A l \in Line : idt'[IRQ_BASE + l] = Gate(Stub(IRQ_BASE + l), 8, 142)
    <2>1. Exception \subseteq Vector /\ \A l \in Line : /\ IRQ_BASE + l \in Vector
                                                        /\ IRQ_BASE + l - IRQ_BASE = l
          /\ \A v \in Exception : v - IRQ_BASE \notin Line
        BY DEF Exception, Vector, Line, IRQ_BASE
    <2>2. \A v \in Exception : /\ ExceptionGates(idt)[v] = Gate(Stub(v), 8, 142)
                               /\ InterruptGates(idt)[v] = idt[v]
        BY <2>1 DEF ExceptionGates, InterruptGates
    <2>3. \A l \in Line : InterruptGates(idt)[IRQ_BASE + l] = Gate(Stub(IRQ_BASE + l), 8, 142)
        <3> SUFFICES ASSUME NEW l \in Line
                     PROVE  InterruptGates(idt)[IRQ_BASE + l] = Gate(Stub(IRQ_BASE + l), 8, 142)
            OBVIOUS
        <3>1. PICK v : v = IRQ_BASE + l
            OBVIOUS
        <3>2. v \in Vector /\ v - IRQ_BASE \in Line
            BY <3>1 DEF Vector, Line, IRQ_BASE
        <3> QED BY <3>1, <3>2 DEF InterruptGates
    <2>4. statement = 4 => \A v \in Exception : idt'[v] = Gate(Stub(v), 8, 142)
        BY <1>5, <2>2
    <2>5. statement = 6 => \A l \in Line :
                               idt'[IRQ_BASE + l] = Gate(Stub(IRQ_BASE + l), 8, 142)
        BY <1>5, <2>3
    <2>6. statement > 4 => \A v \in Exception : idt'[v] = Gate(Stub(v), 8, 142)
        <3>1. statement > 4 => \A v \in Exception : idt[v] = Gate(Stub(v), 8, 142)
            BY DEF BInv, TablesInv
        <3>2. statement = 6 => \A v \in Exception : idt'[v] = idt[v]
            BY <1>5, <2>2
        <3> QED BY <1>5, <3>1, <3>2
    <2>7. statement > 6 => \A l \in Line :
                               idt'[IRQ_BASE + l] = Gate(Stub(IRQ_BASE + l), 8, 142)
        <3>1. statement > 6 => \A l \in Line :
                                   idt[IRQ_BASE + l] = Gate(Stub(IRQ_BASE + l), 8, 142)
            BY DEF BInv, TablesInv
        <3> QED BY <1>4, <1>5, <3>1
    <2> QED BY <1>4, <2>4, <2>5, <2>6, <2>7
<1>8. TablesInv'
    <2>1. statement' > 1 => gdt' = GDT_init
        BY <1>4, <1>5 DEF BInv, TablesInv
    <2>2. /\ statement' > 4 => \A v \in Exception : idt'[v] = Gate(Stub(v), 8, 142)
          /\ statement' > 6 => \A l \in Line :
                                   idt'[IRQ_BASE + l] = Gate(Stub(IRQ_BASE + l), 8, 142)
        BY <1>4, <1>7
    <2>3. statement \in {1, 3, 4, 6}
        BY <1>1, AtMain, Numbers
    <2>4. /\ Timed' = Timed /\ Ready' = Ready /\ Timed \in {9, 10} /\ Ready \in {11, 14}
        BY <1>4 DEF Timed, Ready
    <2>5. pic' = IF statement' > 5 THEN Remapped ELSE [c \in 1 .. 2 |-> Chip]
        BY <1>2, <1>4, <2>3 DEF BInv, TablesInv
    <2>6. ~cpu'.enabled /\ "enable_paging" \notin paging'
        BY <1>2, <2>3, <2>4 DEF BInv, TablesInv, Typed
    <2> QED BY <1>4, <2>1, <2>2, <2>3, <2>4, <2>5, <2>6 DEF TablesInv
<1> QED BY <1>3, <1>6, <1>8 DEF BInv

(* The two controllers, and one command after the other to them.           *)
Chips(x, y) == [c \in 1 .. 2 |-> IF c = 1 THEN x ELSE y]

ChipIs(b, w, m, e) == [base |-> b, wiring |-> w, mask |-> m, expects |-> e]

LEMMA Rewired ==
    ASSUME NEW x, NEW y, NEW z, NEW f, NEW g, f = Chips(x, y), g = Chips(z, y)
    PROVE  [f EXCEPT ![1] = z] = g /\ [g EXCEPT ![1] = x] = f
    BY DEF Chips

LEMMA Rewired2 ==
    ASSUME NEW x, NEW y, NEW z, NEW f, NEW g, f = Chips(x, y), g = Chips(x, z)
    PROVE  [f EXCEPT ![2] = z] = g
    BY DEF Chips

(* What a chip makes of a byte at its command port and at its data port.   *)
LEMMA CommandIs ==
    ASSUME NEW b, NEW w, NEW m, NEW e
    PROVE  Command(ChipIs(b, w, m, e), 17) = ChipIs(b, w, m, "base")
<1> SUFFICES ASSUME NEW r, r = ChipIs(b, w, m, e), NEW j, j = Command(r, 17)
             PROVE  j = ChipIs(b, w, m, "base")
    OBVIOUS
<1>1. (17 \div 16) % 2 = 1
    OBVIOUS
<1>2. j = [r EXCEPT !.expects = "base"]
    BY <1>1 DEF Command
<1> QED BY <1>2 DEF ChipIs

LEMMA DataIs ==
    ASSUME NEW b, NEW w, NEW m, NEW v, NEW j
    PROVE  /\ j = Data(ChipIs(b, w, m, "base"), v) => j = ChipIs((v \div 8) * 8, w, m, "wiring")
           /\ j = Data(ChipIs(b, w, m, "wiring"), v) => j = ChipIs(b, v, m, "mode")
           /\ j = Data(ChipIs(b, w, m, "mode"), v) => j = ChipIs(b, w, m, "mask")
           /\ j = Data(ChipIs(b, w, m, "mask"), v) => j = ChipIs(b, w, v, "mask")
<1>1. ASSUME NEW r, r = ChipIs(b, w, m, "base"), j = Data(r, v)
      PROVE  j = ChipIs((v \div 8) * 8, w, m, "wiring")
    <2>1. r.expects = "base"
        BY <1>1 DEF ChipIs
    <2>2. j = [r EXCEPT !.base = (v \div 8) * 8, !.expects = "wiring"]
        BY <1>1, <2>1 DEF Data
    <2> QED BY <1>1, <2>2 DEF ChipIs
<1>2. ASSUME NEW r, r = ChipIs(b, w, m, "wiring"), j = Data(r, v)
      PROVE  j = ChipIs(b, v, m, "mode")
    <2>1. r.expects = "wiring"
        BY <1>2 DEF ChipIs
    <2>2. j = [r EXCEPT !.wiring = v, !.expects = "mode"]
        BY <1>2, <2>1 DEF Data
    <2> QED BY <1>2, <2>2 DEF ChipIs
<1>3. ASSUME NEW r, r = ChipIs(b, w, m, "mode"), j = Data(r, v)
      PROVE  j = ChipIs(b, w, m, "mask")
    <2>1. r.expects = "mode"
        BY <1>3 DEF ChipIs
    <2>2. j = [r EXCEPT !.expects = "mask"]
        BY <1>3, <2>1 DEF Data
    <2> QED BY <1>3, <2>2 DEF ChipIs
<1>4. ASSUME NEW r, r = ChipIs(b, w, m, "mask"), j = Data(r, v)
      PROVE  j = ChipIs(b, w, v, "mask")
    <2>1. r.expects = "mask"
        BY <1>4 DEF ChipIs
    <2>2. j = [r EXCEPT !.mask = v]
        BY <1>4, <2>1 DEF Data
    <2> QED BY <1>4, <2>2 DEF ChipIs
<1> QED BY <1>1, <1>2, <1>3, <1>4

LEMMA OutIs ==
    ASSUME NEW x, NEW y, NEW v
    PROVE  /\ Out(Chips(x, y), 32, v) = Chips(Command(x, v), y)
           /\ Out(Chips(x, y), 160, v) = Chips(x, Command(y, v))
           /\ Out(Chips(x, y), 33, v) = Chips(Data(x, v), y)
           /\ Out(Chips(x, y), 161, v) = Chips(x, Data(y, v))
<1>1. Chips(x, y)[1] = x /\ Chips(x, y)[2] = y
    BY DEF Chips
<1>2. Out(Chips(x, y), 32, v) = [Chips(x, y) EXCEPT ![1] = Takes(x, 32, v)]
    BY <1>1 DEF Out
<1>3. Out(Chips(x, y), 160, v) = [Chips(x, y) EXCEPT ![2] = Takes(y, 160, v)]
    <2>1. PICK f : f = Chips(x, y)
        OBVIOUS
    <2>2. PICK n : n = IF 160 \in {32, 33} THEN 1 ELSE 2
        OBVIOUS
    <2>3. Out(f, 160, v) = [f EXCEPT ![n] = Takes(f[n], 160, v)]
        BY <2>2 DEF Out
    <2>4. n = 2
        BY <2>2
    <2> QED BY <1>1, <2>1, <2>3, <2>4
<1>4. Out(Chips(x, y), 33, v) = [Chips(x, y) EXCEPT ![1] = Takes(x, 33, v)]
    BY <1>1 DEF Out
<1>5. Out(Chips(x, y), 161, v) = [Chips(x, y) EXCEPT ![2] = Takes(y, 161, v)]
    <2>1. PICK f : f = Chips(x, y)
        OBVIOUS
    <2>2. PICK n : n = IF 161 \in {32, 33} THEN 1 ELSE 2
        OBVIOUS
    <2>3. Out(f, 161, v) = [f EXCEPT ![n] = Takes(f[n], 161, v)]
        BY <2>2 DEF Out
    <2>4. n = 2
        BY <2>2
    <2> QED BY <1>1, <2>1, <2>3, <2>4
<1>6. /\ Takes(x, 32, v) = Command(x, v) /\ Takes(y, 160, v) = Command(y, v)
      /\ Takes(x, 33, v) = Data(x, v) /\ Takes(y, 161, v) = Data(y, v)
    BY DEF Takes
<1> QED BY <1>2, <1>3, <1>4, <1>5, <1>6, Rewired, Rewired2

LEMMA Initialized == IRQ_init([c \in 1 .. 2 |-> Chip]) = Remapped
<1> DEFINE p0 == [c \in 1 .. 2 |-> Chip]
           p1 == Out(p0, 32, 17)      p2 == Out(p1, 160, 17)
           p3 == Out(p2, 33, 32)      p4 == Out(p3, 161, 40)
           p5 == Out(p4, 33, 4)       p6 == Out(p5, 161, 2)
           p7 == Out(p6, 33, 1)       p8 == Out(p7, 161, 1)
           p9 == Out(p8, 33, 0)       p10 == Out(p9, 161, 0)
           C(b, w, m, e) == ChipIs(b, w, m, e)
<1>1. IRQ_init(p0) = p10
    BY DEF IRQ_init, irq_remap
<1>2. p0 = Chips(C(8, 0, 255, "mask"), C(8, 0, 255, "mask"))
    BY DEF Chips, Chip, ChipIs
<1>3. p1 = Chips(C(8, 0, 255, "base"), C(8, 0, 255, "mask"))
    BY <1>2, OutIs, CommandIs
<1>4. p2 = Chips(C(8, 0, 255, "base"), C(8, 0, 255, "base"))
    BY <1>3, OutIs, CommandIs
<1>5. p3 = Chips(C(32, 0, 255, "wiring"), C(8, 0, 255, "base"))
    <2>1. (32 \div 8) * 8 = 32
        OBVIOUS
    <2> QED BY <1>4, <2>1, OutIs, DataIs
<1>6. p4 = Chips(C(32, 0, 255, "wiring"), C(40, 0, 255, "wiring"))
    <2>1. (40 \div 8) * 8 = 40
        OBVIOUS
    <2> QED BY <1>5, <2>1, OutIs, DataIs
<1>7. p5 = Chips(C(32, 4, 255, "mode"), C(40, 0, 255, "wiring"))
    BY <1>6, OutIs, DataIs
<1>8. p6 = Chips(C(32, 4, 255, "mode"), C(40, 2, 255, "mode"))
    BY <1>7, OutIs, DataIs
<1>9. p7 = Chips(C(32, 4, 255, "mask"), C(40, 2, 255, "mode"))
    BY <1>8, OutIs, DataIs
<1>10. p8 = Chips(C(32, 4, 255, "mask"), C(40, 2, 255, "mask"))
    BY <1>9, OutIs, DataIs
<1>11. p9 = Chips(C(32, 4, 0, "mask"), C(40, 2, 255, "mask"))
    BY <1>10, OutIs, DataIs
<1>12. p10 = Chips(C(32, 4, 0, "mask"), C(40, 2, 0, "mask"))
    BY <1>11, OutIs, DataIs
<1>13. Remapped = Chips(C(32, 4, 0, "mask"), C(40, 2, 0, "mask"))
    BY DEF Remapped, Chips, ChipIs
<1> QED BY <1>1, <1>12, <1>13

(* A statement that is neither about a table nor about a thread.           *)
LEMMA SameTables ==
    ASSUME BInv, NEW name, NEW t, Execute(name, t),
           name \notin {"GDT", "exceptions", "IRQ", "interrupts"},
           gdt' = gdt, idt' = idt, pic' = pic
    PROVE  /\ statement' = statement + 1 /\ kernel' = kernel
           /\ statement' > 1 => gdt' = GDT_init
           /\ statement' > 4 => \A v \in Exception : idt'[v] = Gate(Stub(v), 8, 142)
           /\ pic' = IF statement' > 5 THEN Remapped ELSE [c \in 1 .. 2 |-> Chip]
           /\ statement' > 6 => \A l \in Line :
                                    idt'[IRQ_BASE + l] = Gate(Stub(IRQ_BASE + l), 8, 142)
<1>1. /\ statement' = statement + 1 /\ kernel' = kernel /\ Numbered(name, t)
      /\ statement \in Nat \ {0} /\ kernel \in {"paging", "threads"}
    BY AtMain
<1>2. statement \notin {1, 4, 5, 6}
    <2>1. CASE Early(name)
        BY <2>1 DEF Early
    <2>2. CASE kernel = "paging" /\ InPaging(name)
        BY <2>2 DEF InPaging
    <2>3. CASE kernel = "threads" /\ InThreads(name)
        BY <2>3 DEF InThreads
    <2>4. CASE kernel = "threads" /\ AboutThread(name, t)
        <3>1. Many \in Nat \ {0}
            BY Sizes
        <3> QED BY <2>4, <3>1 DEF AboutThread
    <2> QED BY <1>1, <2>1, <2>2, <2>3, <2>4 DEF Numbered
<1> QED BY <1>1, <1>2 DEF BInv, TablesInv

LEMMA HandlerStep ==
    ASSUME BInv, RegistersHandler
    PROVE  BInv'
<1>1. PICK name \in {"DBZ", "register_fault_handler", "register_timer"} :
          /\ Execute(name, None)
          /\ name = "DBZ" => /\ exceptions' = [exceptions EXCEPT ![0] = "DBZ_Handler"]
                             /\ interrupts' = interrupts
          /\ name = "register_fault_handler" =>
                 /\ exceptions' = [exceptions EXCEPT ![14] = "PageFault_Handler"]
                 /\ interrupts' = interrupts
          /\ name = "register_timer" =>
                 /\ interrupts' = [interrupts EXCEPT ![0] = "SimpleTimer"]
                 /\ exceptions' = exceptions
    BY DEF RegistersHandler, Does
<1>2. /\ memory' = memory /\ regs' = regs /\ cpu' = cpu /\ heap' = heap /\ tcb' = tcb
      /\ current_thread' = current_thread /\ ready' = ready /\ left' = left /\ struck' = struck
      /\ int_no' = int_no /\ ticks' = ticks /\ calls' = calls
      /\ pic' = pic /\ pit' = pit /\ paging' = paging /\ gdt' = gdt /\ idt' = idt
    BY DEF RegistersHandler, switches, devices, machine, threads, history, bounds
<1>3. StacksInv' /\ FramesInv' /\ RunsInv'
    <2>1. UNCHANGED <<memory, regs, threads, int_no, history, bounds>>
        BY <1>2 DEF threads, history, bounds
    <2> QED BY <1>1, <1>2, <2>1, Quiet
<1>4. /\ statement' = statement + 1 /\ kernel' = kernel
      /\ statement \in Nat \ {0} /\ kernel \in {"paging", "threads"}
      /\ name = "DBZ" => statement = 8
      /\ name = "register_fault_handler" => kernel = "paging" /\ statement = 13
      /\ name = "register_timer" => statement = Timed + 1
    BY <1>1, AtMain, Numbers
<1>5. /\ exceptions \in [Exception -> {"none", "DBZ_Handler", "PageFault_Handler"}]
      /\ interrupts \in [Line -> {"none", "SimpleTimer"}]
      /\ 0 \in Line /\ 0 \in Exception /\ 14 \in Exception
    BY DEF BInv, Typed, Line, Exception
<1>6. /\ exceptions' \in [Exception -> {"none", "DBZ_Handler", "PageFault_Handler"}]
      /\ interrupts' \in [Line -> {"none", "SimpleTimer"}]
    BY <1>1, <1>5
<1>7. Typed'
    BY <1>2, <1>4, <1>6 DEF BInv, Typed
<1>8. TablesInv'
    <2>1. /\ Timed' = Timed /\ Ready' = Ready
          /\ (Timed = 9 /\ Ready = 11) \/ (Timed = 10 /\ Ready = 14)
        BY <1>4 DEF Timed, Ready
    <2>2. statement' > Timed => pit' = set_frequency(Hz)
        <3>1. statement # Timed
            BY <1>1, <1>4, <2>1
        <3> QED BY <1>2, <1>4, <2>1, <3>1 DEF BInv, TablesInv
    <2>3. statement' > Timed + 1 => interrupts'[0] = "SimpleTimer"
        <3>1. CASE name = "register_timer"
            BY <1>1, <1>5, <3>1
        <3>2. CASE name # "register_timer"
            <4>1. statement' > Timed + 1 => statement > Timed + 1
                BY <1>1, <1>4, <2>1, <3>2
            <4> QED BY <1>1, <3>2, <4>1 DEF BInv, TablesInv
        <3> QED BY <3>1, <3>2
    <2>4. kernel' = "paging" /\ statement' > 13 => exceptions'[14] = "PageFault_Handler"
        <3>1. CASE name = "register_fault_handler"
            BY <1>1, <1>5, <3>1
        <3>2. CASE name = "DBZ"
            BY <1>4, <3>2
        <3>3. CASE name = "register_timer"
            BY <1>1, <1>4, <2>1, <3>3 DEF Timed
        <3> QED BY <1>1, <3>1, <3>2, <3>3
    <2>5. /\ cpu'.enabled => statement' > Ready
          /\ kernel' = "paging" /\ statement' > 14 => "init_paging" \in paging'
          /\ kernel' = "paging" /\ statement' > 15 => "load" \in paging'
          /\ "enable_paging" \in paging' => kernel' = "paging" /\ statement' > 16
        <3>1. statement \in {8, 13, Timed + 1}
            BY <1>1, <1>4
        <3>2. /\ cpu.enabled => statement > Ready
              /\ "enable_paging" \in paging => kernel = "paging" /\ statement > 16
            BY DEF BInv, TablesInv
        <3>3. statement \in Nat /\ statement < 14
            BY <1>4, <2>1, <3>1
        <3> QED BY <1>2, <1>4, <2>1, <3>2, <3>3
    <2>6. name \notin {"GDT", "exceptions", "IRQ", "interrupts"}
        BY <1>1
    <2> QED BY <1>1, <1>2, <2>1, <2>2, <2>3, <2>4, <2>5, <2>6, SameTables DEF TablesInv
<1> QED BY <1>3, <1>7, <1>8 DEF BInv

LEMMA DeviceStep ==
    ASSUME BInv, SetsUpDevices
    PROVE  BInv'
<1>1. PICK name \in {"IRQ", "timer"} :
          /\ Execute(name, None)
          /\ name = "IRQ" => pic' = IRQ_init(pic) /\ pit' = pit
          /\ name = "timer" => pit' = set_frequency(Hz) /\ pic' = pic
    BY DEF SetsUpDevices, Does
<1>2. /\ memory' = memory /\ regs' = regs /\ cpu' = cpu /\ heap' = heap /\ tcb' = tcb
      /\ current_thread' = current_thread /\ ready' = ready /\ left' = left /\ struck' = struck
      /\ int_no' = int_no /\ ticks' = ticks /\ calls' = calls /\ paging' = paging
      /\ gdt' = gdt /\ idt' = idt /\ exceptions' = exceptions /\ interrupts' = interrupts
    BY DEF SetsUpDevices, switches, tables, machine, threads, history, bounds
<1>3. StacksInv' /\ FramesInv' /\ RunsInv'
    <2>1. UNCHANGED <<memory, regs, threads, int_no, history, bounds>>
        BY <1>2 DEF threads, history, bounds
    <2> QED BY <1>1, <1>2, <2>1, Quiet
<1>4. /\ statement' = statement + 1 /\ kernel' = kernel
      /\ statement \in Nat \ {0} /\ kernel \in {"paging", "threads"}
      /\ name = "IRQ" => statement = 5
      /\ name = "timer" => statement = Timed
    BY <1>1, AtMain, Numbers
<1>5. /\ Timed' = Timed /\ Ready' = Ready
      /\ \/ kernel = "paging" /\ Timed = 9 /\ Ready = 11
         \/ kernel = "threads" /\ Timed = 10 /\ Ready = 14
    BY <1>4 DEF Timed, Ready
<1>6. Typed'
    BY <1>2, <1>4 DEF BInv, Typed
<1>7. /\ cpu'.enabled => statement' > Ready
      /\ kernel' = "paging" /\ statement' > 13 => exceptions'[14] = "PageFault_Handler"
      /\ kernel' = "paging" /\ statement' > 14 => "init_paging" \in paging'
      /\ kernel' = "paging" /\ statement' > 15 => "load" \in paging'
      /\ "enable_paging" \in paging' => kernel' = "paging" /\ statement' > 16
      /\ statement' > Timed + 1 => interrupts'[0] = "SimpleTimer"
      /\ statement' > Timed => pit' = set_frequency(Hz)
    <2>1. /\ cpu.enabled => statement > Ready
          /\ "enable_paging" \in paging => kernel = "paging" /\ statement > 16
        BY DEF BInv, TablesInv
    <2>2. statement \in {5, Timed}
        BY <1>1, <1>4
    <2>3. statement < 11 /\ statement' <= Timed + 1
        BY <1>4, <1>5, <2>2
    <2>4. statement' > Timed => pit' = set_frequency(Hz)
        BY <1>1, <1>4, <1>5
    <2> QED BY <1>2, <1>4, <1>5, <2>1, <2>3, <2>4
<1>8. TablesInv'
    <2>1. CASE name = "IRQ"
        <3>1. statement = 5 /\ statement' = 6
            BY <1>4, <2>1
        <3>2. pic' = Remapped
            BY <1>1, <2>1, <3>1, Initialized DEF BInv, TablesInv
        <3>3. gdt' = GDT_init /\ \A v \in Exception : idt'[v] = Gate(Stub(v), 8, 142)
            BY <1>2, <3>1 DEF BInv, TablesInv
        <3> QED BY <1>5, <1>7, <3>1, <3>2, <3>3 DEF TablesInv
    <2>2. CASE name = "timer"
        BY <1>1, <1>2, <1>5, <1>7, <2>2, SameTables DEF TablesInv
    <2> QED BY <1>1, <2>1, <2>2
<1> QED BY <1>3, <1>6, <1>8 DEF BInv

LEMMA PagingStep ==
    ASSUME BInv, SetsUpPaging
    PROVE  BInv'
<1>1. PICK name \in {"init_paging", "load", "enable_paging"} :
          Execute(name, None) /\ paging' = paging \cup {name}
    BY DEF SetsUpPaging, Does
<1>2. /\ memory' = memory /\ regs' = regs /\ cpu' = cpu /\ heap' = heap /\ tcb' = tcb
      /\ current_thread' = current_thread /\ ready' = ready /\ left' = left /\ struck' = struck
      /\ int_no' = int_no /\ ticks' = ticks /\ calls' = calls /\ pic' = pic /\ pit' = pit
      /\ gdt' = gdt /\ idt' = idt /\ exceptions' = exceptions /\ interrupts' = interrupts
    BY DEF SetsUpPaging, switches, tables, machine, threads, history, bounds
<1>3. StacksInv' /\ FramesInv' /\ RunsInv'
    <2>1. UNCHANGED <<memory, regs, threads, int_no, history, bounds>>
        BY <1>2 DEF threads, history, bounds
    <2> QED BY <1>1, <1>2, <2>1, Quiet
<1>4. /\ statement' = statement + 1 /\ kernel' = kernel /\ kernel = "paging"
      /\ name = "init_paging" => statement = 14
      /\ name = "load" => statement = 15
      /\ name = "enable_paging" => statement = 16
    BY <1>1, AtMain, Numbers
<1>5. Timed' = 9 /\ Ready' = 11 /\ Timed = 9 /\ Ready = 11
    BY <1>4 DEF Timed, Ready
<1>6. Typed'
    BY <1>2, <1>4 DEF BInv, Typed
<1>7. /\ statement > 11 /\ pit = set_frequency(Hz) /\ interrupts[0] = "SimpleTimer"
      /\ exceptions[14] = "PageFault_Handler"
      /\ statement > 14 => "init_paging" \in paging
      /\ statement > 15 => "load" \in paging
      /\ "enable_paging" \in paging => statement > 16
    BY <1>1, <1>4, <1>5 DEF BInv, TablesInv
<1>8. /\ statement' > 14 => "init_paging" \in paging'
      /\ statement' > 15 => "load" \in paging'
      /\ "enable_paging" \in paging' => statement' > 16
    BY <1>1, <1>4, <1>7
<1>9. TablesInv'
    <2>1. statement' > Ready'
        BY <1>4, <1>5, <1>7, <1>1
    <2> QED BY <1>1, <1>2, <1>4, <1>5, <1>7, <1>8, <2>1, SameTables DEF TablesInv
<1> QED BY <1>3, <1>6, <1>9 DEF BInv

(* The tables and the devices stay, and so does what main has to show for  *)
(* the statements it has done.                                             *)
LEMMA NothingNew ==
    ASSUME BInv, NEW name, NEW t, Execute(name, t),
           name \notin {"GDT", "exceptions", "IRQ", "interrupts", "timer", "register_timer",
                        "register_fault_handler", "init_paging", "load"},
           UNCHANGED <<tables, devices>>, cpu'.enabled = cpu.enabled \/ name = "sti"
    PROVE  TablesInv'
<1>1. /\ statement' = statement + 1 /\ kernel' = kernel /\ Numbered(name, t)
      /\ statement \in Nat \ {0} /\ kernel \in {"paging", "threads"}
      /\ name = "sti" => statement = Ready
    BY AtMain, Numbers
<1>2. /\ gdt' = gdt /\ idt' = idt /\ exceptions' = exceptions /\ interrupts' = interrupts
      /\ pic' = pic /\ pit' = pit /\ paging' = paging
    BY DEF tables, devices
<1>3. /\ Timed' = Timed /\ Ready' = Ready
      /\ \/ kernel = "paging" /\ Timed = 9 /\ Ready = 11
         \/ kernel = "threads" /\ Timed = 10 /\ Ready = 14
    BY <1>1 DEF Timed, Ready
<1>4. /\ statement # Timed /\ statement # Timed + 1
      /\ kernel = "paging" => statement \notin {13, 14, 15}
    <2>1. CASE Early(name)
        BY <1>3, <2>1 DEF Early
    <2>2. CASE kernel = "paging" /\ InPaging(name)
        BY <1>3, <2>2 DEF InPaging
    <2>3. CASE kernel = "threads" /\ InThreads(name)
        BY <1>3, <2>3 DEF InThreads
    <2>4. CASE kernel = "threads" /\ AboutThread(name, t)
        <3>1. Many \in Nat \ {0}
            BY Sizes
        <3> QED BY <1>3, <2>4, <3>1 DEF AboutThread
    <2> QED BY <1>1, <2>1, <2>2, <2>3, <2>4 DEF Numbered
<1>5. /\ statement' > Timed => pit' = set_frequency(Hz)
      /\ statement' > Timed + 1 => interrupts'[0] = "SimpleTimer"
      /\ cpu'.enabled => statement' > Ready
      /\ kernel' = "paging" /\ statement' > 13 => exceptions'[14] = "PageFault_Handler"
      /\ kernel' = "paging" /\ statement' > 14 => "init_paging" \in paging'
      /\ kernel' = "paging" /\ statement' > 15 => "load" \in paging'
      /\ "enable_paging" \in paging' => kernel' = "paging" /\ statement' > 16
    BY <1>1, <1>2, <1>3, <1>4 DEF BInv, TablesInv
<1> QED BY <1>1, <1>2, <1>3, <1>5, SameTables DEF TablesInv

LEMMA ElsewhereStep ==
    ASSUME BInv, Elsewhere
    PROVE  BInv'
<1>1. PICK name \in {"console", "redirect", "frame_pools", "passed"} : Execute(name, None)
    BY DEF Elsewhere, Does
<1>2. UNCHANGED <<tables, devices, switches>>
    BY DEF Elsewhere
<1>3. UNCHANGED <<memory, regs, threads, int_no, history, bounds>> /\ cpu' = cpu
    BY <1>2 DEF switches, machine
<1>4. StacksInv' /\ FramesInv' /\ RunsInv'
    BY <1>1, <1>3, Quiet
<1>5. TablesInv'
    BY <1>1, <1>2, <1>3, NothingNew
<1>6. /\ statement' = statement + 1 /\ kernel' = kernel /\ statement \in Nat \ {0}
    BY <1>1, AtMain
<1>7. Typed'
    BY <1>2, <1>3, <1>6 DEF BInv, Typed, tables, threads, history
<1> QED BY <1>4, <1>5, <1>7 DEF BInv

(* Interrupts are not enabled before, so that sti does not abort.          *)
LEMMA StiStep ==
    ASSUME BInv, EnablesInterrupts
    PROVE  BInv'
<1>1. Execute("sti", None)
    BY DEF EnablesInterrupts, Does
<1>2. /\ statement' = statement + 1 /\ kernel' = kernel /\ statement \in Nat \ {0}
      /\ statement = Ready
    BY <1>1, AtMain, Numbers
<1>3. ~cpu.enabled
    <2>1. Ready \in Nat
        BY DEF Ready
    <2> QED BY <1>2, <2>1 DEF BInv, TablesInv
<1>4. /\ Processor(cpu)
      /\ cpu' = [cpu EXCEPT !.enabled = TRUE]
    BY <1>3 DEF EnablesInterrupts, BInv, Typed
<1>5. /\ cpu'.eip = cpu.eip /\ cpu'.esp = cpu.esp
      /\ Processor(cpu')
    <2>1. PICK c : c = cpu
        OBVIOUS
    <2>2. PICK d : d = cpu'
        OBVIOUS
    <2>3. d = [c EXCEPT !.enabled = TRUE] /\ Processor(c)
        BY <1>4, <2>1, <2>2
    <2>4. d = [eip |-> c.eip, esp |-> c.esp, enabled |-> TRUE] /\ c.esp \in Int
        BY <2>3 DEF Processor
    <2> QED BY <2>1, <2>2, <2>4 DEF Processor
<1>6. UNCHANGED <<tables, devices>> /\ UNCHANGED <<memory, regs, threads, int_no, history, bounds>>
    BY DEF EnablesInterrupts
<1>7. StacksInv' /\ FramesInv' /\ RunsInv'
    BY <1>1, <1>5, <1>6, Quiet
<1>8. TablesInv'
    BY <1>1, <1>6, NothingNew
<1>9. Typed'
    BY <1>2, <1>5, <1>6 DEF BInv, Typed, tables, threads, history
<1> QED BY <1>7, <1>8, <1>9 DEF BInv

(* The handler of page faults is there when the first page is missing.     *)
LEMMA ReferenceStep ==
    ASSUME BInv, References
    PROVE  BInv'
<1>1. Execute("references", None)
    BY DEF References, Does
<1>2. /\ statement' = statement + 1 /\ kernel' = kernel /\ statement \in Nat \ {0}
      /\ kernel = "paging" /\ statement = 17
    BY <1>1, AtMain, Numbers
<1>3. exceptions[14] # "none"
    BY <1>2 DEF BInv, TablesInv
<1>4. cpu' = cpu
    BY <1>3 DEF References
<1>5. UNCHANGED <<tables, devices>> /\ UNCHANGED <<memory, regs, threads, int_no, history, bounds>>
    BY DEF References
<1>6. StacksInv' /\ FramesInv' /\ RunsInv'
    BY <1>1, <1>4, <1>5, Quiet
<1>7. TablesInv'
    BY <1>1, <1>4, <1>5, NothingNew
<1>8. Typed'
    BY <1>2, <1>4, <1>5 DEF BInv, Typed, tables, threads, history
<1> QED BY <1>6, <1>7, <1>8 DEF BInv

-----------------------------------------------------------------------------
(* Memory and threads                                                      *)

(* Once all threads are made nothing is asked of the heap any more.        *)
LEMMA Late ==
    ASSUME Typed, StacksInv, kernel = "threads", statement > 14 + 2 * Many, kernel' = kernel,
           statement' \in Int, statement' >= statement,
           \A t \in Thread : /\ tcb'[t].stack = tcb[t].stack
                             /\ left[t].eip # "nowhere" => left'[t].eip # "nowhere"
    PROVE  StacksInv'
<1>1. Many \in Nat \ {0} /\ \A i \in 1 .. Many : ThreadOrder[i] \in Thread
    BY Sizes
<1>2. statement \in Nat
    BY DEF Typed
<1>3. kernel' = "threads" => /\ statement' \in 10 .. 12 => heap' = HeapStart
                             /\ statement' = 13 => heap' = HeapStart + ObjectWords
                             /\ statement' = 14 => heap' = StackAt(1)
    BY <1>1, <1>2
<1>4. ASSUME NEW i \in 1 .. Many
      PROVE  /\ kernel' = "threads" /\ statement' = 13 + 2 * i => heap' = StackAt(i)
             /\ kernel' = "threads" /\ statement' = 14 + 2 * i => heap' = StackAt(i) + StackWords
             /\ Stacked(i)' => tcb'[ThreadOrder[i]].stack = StackAt(i)
             /\ left'[ThreadOrder[i]].eip # "nowhere" <=> Made(i)'
    <2>1. statement > 14 + 2 * i /\ statement' > 14 + 2 * i /\ i \in Int
        BY <1>1, <1>2
    <2>2. Stacked(i) /\ Made(i) /\ Made(i)'
        BY <1>2, <2>1 DEF Stacked, Made
    <2>3. tcb[ThreadOrder[i]].stack = StackAt(i) /\ left[ThreadOrder[i]].eip # "nowhere"
        BY <2>2 DEF StacksInv
    <2>4. statement' # 13 + 2 * i /\ statement' # 14 + 2 * i
        BY <1>2, <2>1
    <2> QED BY <1>1, <2>2, <2>3, <2>4
<1> QED BY <1>3, <1>4 DEF StacksInv

LEMMA HeapStep ==
    ASSUME BInv, NEW name \in {"memory_pool", "new_disk", "new_scheduler"}, Execute(name, None),
           heap' = (IF name = "memory_pool" THEN HeapStart ELSE Allocated(ObjectWords)),
           UNCHANGED <<machine, tcb, current_thread, ready, int_no, history, bounds>>,
           UNCHANGED <<tables, devices>>
    PROVE  BInv'
<1>1. /\ statement' = statement + 1 /\ kernel' = kernel /\ statement \in Nat \ {0}
      /\ kernel = "threads"
      /\ name = "memory_pool" => statement = 9
      /\ name = "new_disk" => statement = 12
      /\ name = "new_scheduler" => statement = 13
    BY AtMain, Numbers
<1>2. /\ memory' = memory /\ cpu' = cpu /\ regs' = regs /\ tcb' = tcb
      /\ current_thread' = current_thread /\ ready' = ready /\ int_no' = int_no
      /\ left' = left /\ struck' = struck /\ gdt' = gdt /\ idt' = idt
      /\ exceptions' = exceptions /\ interrupts' = interrupts
      /\ pic' = pic /\ pit' = pit /\ paging' = paging
    BY DEF machine, history, tables, devices
<1>3. TablesInv'
    BY <1>2, NothingNew
<1>4. RunsInv'
    <2>1. name # "dispatch" /\ cpu.eip = "main"
        BY AtMain
    <2> QED BY <1>2, <2>1, StillMain
<1>5. FramesInv'
    BY <1>2 DEF BInv, FramesInv, Away, Parked, Top, Leaves, Frame
<1>6. heap \in Int /\ HeapStart \in Int /\ ObjectWords = 8
      /\ StackAt(1) = HeapStart + 2 * ObjectWords
    BY Sizes, StacksApart DEF BInv, Typed
<1>7. heap' = (IF name = "memory_pool" THEN HeapStart ELSE heap + ObjectWords)
    BY DEF Allocated
<1>8. Typed'
    BY <1>1, <1>2, <1>6, <1>7 DEF BInv, Typed
<1>9. StacksInv'
    <2>1. kernel' = "threads" => /\ statement' \in 10 .. 12 => heap' = HeapStart
                                 /\ statement' = 13 => heap' = HeapStart + ObjectWords
                                 /\ statement' = 14 => heap' = StackAt(1)
        <3>1. CASE name = "memory_pool"
            BY <1>1, <1>7, <3>1
        <3>2. CASE name = "new_disk"
            <4>1. heap = HeapStart
                BY <1>1, <3>2 DEF BInv, StacksInv
            <4> QED BY <1>1, <1>7, <3>2, <4>1
        <3>3. CASE name = "new_scheduler"
            <4>1. heap = HeapStart + ObjectWords
                BY <1>1, <3>3 DEF BInv, StacksInv
            <4> QED BY <1>1, <1>6, <1>7, <3>3, <4>1
        <3> QED BY <3>1, <3>2, <3>3
    <2>2. ASSUME NEW i \in 1 .. Many
          PROVE  /\ kernel' = "threads" /\ statement' = 13 + 2 * i => heap' = StackAt(i)
                 /\ kernel' = "threads" /\ statement' = 14 + 2 * i
                        => heap' = StackAt(i) + StackWords
                 /\ Stacked(i)' => tcb'[ThreadOrder[i]].stack = StackAt(i)
                 /\ left'[ThreadOrder[i]].eip # "nowhere" <=> Made(i)'
        <3>1. i \in Int /\ i >= 1
            BY Sizes
        <3>2. statement' <= 14
            BY <1>1
        <3>3. ~Made(i) /\ ~Made(i)' /\ ~Stacked(i)' /\ statement' # 13 + 2 * i
              /\ statement' # 14 + 2 * i
            BY <1>1, <3>1, <3>2 DEF Made, Stacked
        <3>4. ~(left[ThreadOrder[i]].eip # "nowhere")
            BY <3>3 DEF BInv, StacksInv
        <3> QED BY <1>2, <3>3, <3>4
    <2> QED BY <2>1, <2>2 DEF StacksInv
<1> QED BY <1>3, <1>4, <1>5, <1>8, <1>9 DEF BInv

LEMMA NewStackStep ==
    ASSUME BInv, NEW t \in Thread, Execute("new_stack", t), NewStack(t),
           UNCHANGED <<tables, devices>>
    PROVE  BInv'
<1>1. /\ statement' = statement + 1 /\ kernel' = kernel /\ statement \in Nat \ {0}
      /\ kernel = "threads" /\ AboutThread("new_stack", t) /\ cpu.eip = "main"
    BY AtMain, Numbers
<1>2. PICK i \in 1 .. Many : t = ThreadOrder[i] /\ statement = 13 + 2 * i
    BY <1>1 DEF AboutThread
<1>3. /\ memory' = memory /\ cpu' = cpu /\ regs' = regs
      /\ current_thread' = current_thread /\ ready' = ready /\ int_no' = int_no
      /\ left' = left /\ struck' = struck /\ gdt' = gdt /\ idt' = idt
      /\ exceptions' = exceptions /\ interrupts' = interrupts
      /\ pic' = pic /\ pit' = pit /\ paging' = paging
      /\ tcb' = [tcb EXCEPT ![t].stack = heap] /\ heap' = heap + StackWords
    BY DEF NewStack, Allocated, machine, history, tables, devices
<1>4. TablesInv'
    BY <1>3, NothingNew
<1>5. RunsInv'
    BY <1>1, <1>3, StillMain
<1>6. /\ tcb \in [Thread -> [stack : Int, esp : Int]] /\ heap \in Int /\ StackWords \in Int
      /\ Many \in Nat /\ i \in Int /\ 1 <= i
      /\ \A j \in 1 .. Many : ThreadOrder[j] \in Thread
      /\ \A j, k \in 1 .. Many : ThreadOrder[j] = ThreadOrder[k] => j = k
    <2>1. tcb \in [Thread -> [stack : Int, esp : Int]] /\ heap \in Int
        BY DEF BInv, Typed
    <2>2. StackWords \in Int /\ Many \in Nat /\ i \in Int /\ 1 <= i
        BY Sizes
    <2> QED BY <2>1, <2>2, Sizes
<1>7. /\ tcb'[t].stack = heap
      /\ \A u \in Thread \ {t} : tcb'[u] = tcb[u]
      /\ tcb' \in [Thread -> [stack : Int, esp : Int]]
    BY <1>3, <1>6
<1>8. heap = StackAt(i)
    BY <1>1, <1>2 DEF BInv, StacksInv
<1>9. left[t].eip = "nowhere"
    <2>1. ~Made(i)
        BY <1>2, <1>6 DEF Made
    <2> QED BY <1>2, <2>1 DEF BInv, StacksInv
<1>10. FramesInv'
    <2>1. ASSUME NEW u \in Thread, Away(u)'
          PROVE  Parked(u)'
        <3>1. Away(u) /\ u # t
            BY <1>3, <1>9, <2>1 DEF Away
        <3>2. Parked(u)
            BY <3>1 DEF BInv, FramesInv
        <3>3. tcb'[u] = tcb[u]
            BY <1>7, <3>1
        <3> QED BY <1>3, <3>2, <3>3 DEF Parked, Top, Leaves, Frame
    <2> QED BY <1>1, <1>3, <2>1 DEF FramesInv
<1>11. Typed'
    BY <1>1, <1>3, <1>6, <1>7, SMTT(30) DEF BInv, Typed
<1>12. StacksInv'
    <2>1. kernel' = "threads" => /\ statement' \in 10 .. 12 => heap' = HeapStart
                                 /\ statement' = 13 => heap' = HeapStart + ObjectWords
                                 /\ statement' = 14 => heap' = StackAt(1)
        BY <1>1, <1>2, <1>6
    <2>2. ASSUME NEW j \in 1 .. Many
          PROVE  /\ kernel' = "threads" /\ statement' = 13 + 2 * j => heap' = StackAt(j)
                 /\ kernel' = "threads" /\ statement' = 14 + 2 * j
                        => heap' = StackAt(j) + StackWords
                 /\ Stacked(j)' => tcb'[ThreadOrder[j]].stack = StackAt(j)
                 /\ left'[ThreadOrder[j]].eip # "nowhere" <=> Made(j)'
        <3>1. j \in Int /\ statement' = 14 + 2 * i
            BY <1>1, <1>2, <1>6
        <3>2. statement' # 13 + 2 * j
            BY <1>6, <3>1
        <3>3. statement' = 14 + 2 * j => heap' = StackAt(j) + StackWords
            <4>1. statement' = 14 + 2 * j => j = i
                BY <1>6, <3>1
            <4> QED BY <1>3, <1>8, <4>1
        <3>4. Stacked(j)' => tcb'[ThreadOrder[j]].stack = StackAt(j)
            <4>1. CASE j = i
                BY <1>2, <1>7, <1>8, <4>1
            <4>2. CASE j # i
                <5>1. Stacked(j)' => Stacked(j)
                    BY <1>1, <1>2, <1>6, <3>1, <4>2 DEF Stacked
                <5>2. ThreadOrder[j] \in Thread \ {t}
                    BY <1>2, <1>6, <4>2
                <5>3. Stacked(j) => tcb[ThreadOrder[j]].stack = StackAt(j)
                    BY DEF BInv, StacksInv
                <5> QED BY <1>7, <5>1, <5>2, <5>3
            <4> QED BY <4>1, <4>2
        <3>5. Made(j)' <=> Made(j)
            BY <1>1, <1>2, <1>6, <3>1 DEF Made
        <3>6. left[ThreadOrder[j]].eip # "nowhere" <=> Made(j)
            BY DEF BInv, StacksInv
        <3> QED BY <1>3, <3>2, <3>3, <3>4, <3>5, <3>6
    <2> QED BY <2>1, <2>2 DEF StacksInv
<1> QED BY <1>4, <1>5, <1>10, <1>11, <1>12 DEF BInv

(* What a thread leaves behind that has not run yet.                       *)
LEMMA NewFrame ==
    ASSUME NEW t, NEW top \in Int, NEW l,
           l = [eip |-> "thread_start", esp |-> top - 3, enabled |-> FALSE,
                regs |-> FreshRegisters],
           Writes(memory', top, FreshContext(t), 20),
           \A a \in Int : top - 20 <= a /\ a <= top => a \in Address
    PROVE  Leaves(top, l) /\ Frame(top, l)'
<1>1. /\ l.eip = "thread_start" /\ l.esp = top - 3 /\ l.enabled = FALSE
      /\ l.regs = FreshRegisters
    OBVIOUS
<1>2. FreshRegisters = [r \in Register |-> FreshRegisters[r]]
    BY DEF FreshRegisters
<1>3. Leaves(top, l)
    BY <1>1, <1>2 DEF Leaves
<1>4. \A i \in 1 .. 20 : memory'[top - i] = FreshContext(t)[i]
    <2> SUFFICES ASSUME NEW i \in 1 .. 20
                 PROVE  memory'[top - i] = FreshContext(t)[i]
        OBVIOUS
    <2>1. top - i \in Address
        OBVIOUS
    <2> QED BY <2>1 DEF Writes
<1>5. /\ memory'[top - 1] = "0" /\ memory'[top - 2] = "thread_shutdown"
      /\ memory'[top - 3] = "fun" /\ memory'[top - 4] = "0" /\ memory'[top - 6] = "thread_start"
    BY <1>4, FreshIs
<1>6. \A r \in Register : memory'[top - 8 - Place(r)] = l.regs[r]
    <2> SUFFICES ASSUME NEW r \in Register
                 PROVE  memory'[top - 8 - Place(r)] = l.regs[r]
        OBVIOUS
    <2>1. 8 + Place(r) \in 1 .. 20 /\ top - (8 + Place(r)) = top - 8 - Place(r)
        BY Registers
    <2>2. FreshContext(t)[8 + Place(r)] = FreshRegisters[r]
        BY FreshIs
    <2>3. memory'[top - (8 + Place(r))] = FreshContext(t)[8 + Place(r)]
        BY <1>4, <2>1
    <2> QED BY <1>1, <2>1, <2>2, <2>3
<1>7. Frame(top, l)'
    BY <1>1, <1>5, <1>6 DEF Frame
<1> QED BY <1>3, <1>7

LEMMA NewThreadStep ==
    ASSUME BInv, NEW t \in Thread, Execute("new_thread", t), NewThread(t),
           UNCHANGED <<tables, devices>>
    PROVE  BInv'
<1>1. /\ statement' = statement + 1 /\ kernel' = kernel /\ statement \in Nat \ {0}
      /\ kernel = "threads" /\ AboutThread("new_thread", t) /\ cpu.eip = "main"
    BY AtMain, Numbers
<1>2. PICK i \in 1 .. Many : t = ThreadOrder[i] /\ statement = 14 + 2 * i
    BY <1>1 DEF AboutThread
<1>3. PICK top : top = tcb[t].stack + StackWords
    OBVIOUS
<1>4. PICK l : l = [eip |-> "thread_start", esp |-> top - 3, enabled |-> FALSE,
                    regs |-> FreshRegisters]
    OBVIOUS
<1>5. /\ cpu' = cpu /\ regs' = regs
      /\ current_thread' = current_thread /\ ready' = ready /\ int_no' = int_no
      /\ struck' = struck /\ gdt' = gdt /\ idt' = idt
      /\ exceptions' = exceptions /\ interrupts' = interrupts
      /\ pic' = pic /\ pit' = pit /\ paging' = paging
      /\ memory' = Pushed(top, FreshContext(t))
      /\ tcb' = [tcb EXCEPT ![t].esp = top - Len(FreshContext(t))]
      /\ left' = [left EXCEPT ![t] = l] /\ heap' = heap + ThreadWords
    BY <1>3, <1>4 DEF NewThread, Allocated, tables, devices
<1>6. TablesInv'
    BY <1>5, NothingNew
<1>7. RunsInv'
    BY <1>1, <1>5, StillMain
<1>8. /\ StackWords \in Nat /\ StackWords >= 37 /\ Many \in Nat /\ i \in Int /\ 1 <= i
      /\ ThreadWords = 6
    BY Sizes
<1>9. /\ \A j \in 1 .. Many : ThreadOrder[j] \in Thread
      /\ \A j, k \in 1 .. Many : ThreadOrder[j] = ThreadOrder[k] => j = k
    BY Sizes
<1>10. /\ tcb \in [Thread -> [stack : Int, esp : Int]] /\ heap \in Int
       /\ left = [u \in Thread |-> left[u]] /\ DOMAIN memory = Address
    BY DEF BInv, Typed
<1>11. heap = StackAt(i) + StackWords /\ tcb[t].stack = StackAt(i) /\ StackAt(i) \in Nat
    <2>1. Stacked(i)
        BY <1>1, <1>2, <1>8 DEF Stacked
    <2> QED BY <1>1, <1>2, <2>1, StacksApart DEF BInv, StacksInv
<1>12. top \in Int /\ Top(t) = top /\ Placed(t)
    BY <1>3, <1>8, <1>11, PlacedAt DEF Top
<1>13. Len(FreshContext(t)) = 20
    BY FreshIs, TupleLen
<1>14. /\ tcb'[t].esp = top - 20 /\ tcb'[t].stack = tcb[t].stack
       /\ \A u \in Thread \ {t} : tcb'[u] = tcb[u]
       /\ tcb' \in [Thread -> [stack : Int, esp : Int]]
    BY <1>5, <1>10, <1>12, <1>13
<1>15. /\ left'[t] = l /\ \A u \in Thread \ {t} : left'[u] = left[u]
       /\ left' = [u \in Thread |-> left'[u]]
    BY <1>5, <1>10
<1>16. Writes(memory', top, FreshContext(t), 20)
    BY <1>5, <1>10, <1>12, FreshIs, PushedIs
<1>17. Leaves(top, l) /\ Frame(top, l)'
    <2>1. \A a \in Int : top - 20 <= a /\ a <= top => a \in Address
        BY <1>8, <1>12 DEF Placed
    <2> QED BY <1>4, <1>12, <1>16, <2>1, NewFrame
<1>18. FramesInv'
    <2>1. Parked(t)'
        <3>1. Top(t)' = top
            BY <1>3, <1>14 DEF Top
        <3>2. Leaves(top, l)'
            BY <1>17 DEF Leaves
        <3> QED BY <1>14, <1>15, <1>17, <3>1, <3>2 DEF Parked
    <2>2. ASSUME NEW u \in Thread, Away(u)', u # t
          PROVE  Parked(u)'
        <3>1. Away(u) /\ left[u].eip # "nowhere"
            BY <1>5, <1>15, <2>2 DEF Away
        <3>2. Parked(u) /\ Placed(u)
            BY <3>1, Placement DEF BInv, FramesInv
        <3>3. Apart(t, u)
            <4>1. PICK j \in 1 .. Many : u = ThreadOrder[j] /\ tcb[u].stack = StackAt(j)
                BY <3>1, MadeIs DEF BInv
            <4>2. i # j
                BY <1>2, <2>2, <4>1
            <4> QED BY <1>11, <4>1, <4>2, ApartAt
        <3>4. \A a \in Int : Top(u) - 20 <= a /\ a < Top(u) => memory'[a] = memory[a]
            <4> SUFFICES ASSUME NEW a \in Int, Top(u) - 20 <= a, a < Top(u)
                         PROVE  memory'[a] = memory[a]
                OBVIOUS
            <4>1. a \in Address
                BY <1>8, <3>2 DEF Placed
            <4>2. a >= top \/ a < top - 20
                BY <1>8, <1>12, <3>2, <3>3 DEF Apart, Placed
            <4> QED BY <1>16, <4>1, <4>2 DEF Writes
        <3>5. tcb'[u] = tcb[u] /\ left'[u] = left[u]
            BY <1>14, <1>15, <2>2
        <3> QED BY <1>5, <3>2, <3>4, <3>5, ParkedKept
    <2>3. cpu'.eip = "main"
        BY <1>1, <1>5
    <2> QED BY <2>1, <2>2, <2>3 DEF FramesInv
<1>19. Typed'
    <2>1. DOMAIN memory' = Address
        BY <1>16 DEF Writes
    <2>2. heap' \in Int
        BY <1>5, <1>8, <1>10
    <2> QED BY <1>1, <1>5, <1>14, <1>15, <2>1, <2>2, SMTT(30) DEF BInv, Typed
<1>20. StacksInv'
    <2>1. kernel' = "threads" => /\ statement' \in 10 .. 12 => heap' = HeapStart
                                 /\ statement' = 13 => heap' = HeapStart + ObjectWords
                                 /\ statement' = 14 => heap' = StackAt(1)
        BY <1>1, <1>2, <1>8
    <2>2. ASSUME NEW j \in 1 .. Many
          PROVE  /\ kernel' = "threads" /\ statement' = 13 + 2 * j => heap' = StackAt(j)
                 /\ kernel' = "threads" /\ statement' = 14 + 2 * j
                        => heap' = StackAt(j) + StackWords
                 /\ Stacked(j)' => tcb'[ThreadOrder[j]].stack = StackAt(j)
                 /\ left'[ThreadOrder[j]].eip # "nowhere" <=> Made(j)'
        <3>1. j \in Int /\ statement' = 15 + 2 * i
            BY <1>1, <1>2, <1>8
        <3>2. statement' = 13 + 2 * j => heap' = StackAt(j)
            <4>1. statement' = 13 + 2 * j => j = i + 1
                BY <1>8, <3>1
            <4>2. StackAt(i + 1) = StackAt(i) + StackWords + ThreadWords
                BY StacksApart
            <4> QED BY <1>5, <1>11, <4>1, <4>2
        <3>3. statement' # 14 + 2 * j
            BY <1>8, <3>1
        <3>4. Stacked(j)' => tcb'[ThreadOrder[j]].stack = StackAt(j)
            <4>1. Stacked(j)' => Stacked(j)
                BY <1>1, <1>2, <1>8, <3>1 DEF Stacked
            <4>2. Stacked(j) => tcb[ThreadOrder[j]].stack = StackAt(j)
                BY DEF BInv, StacksInv
            <4>3. tcb'[ThreadOrder[j]].stack = tcb[ThreadOrder[j]].stack
                BY <1>9, <1>14
            <4> QED BY <4>1, <4>2, <4>3
        <3>5. left'[ThreadOrder[j]].eip # "nowhere" <=> Made(j)'
            <4>1. CASE j = i
                <5>1. Made(j)'
                    BY <1>1, <1>8, <3>1, <4>1 DEF Made
                <5>2. left'[ThreadOrder[j]].eip = "thread_start"
                    BY <1>2, <1>4, <1>15, <4>1
                <5> QED BY <5>1, <5>2
            <4>2. CASE j # i
                <5>1. Made(j)' <=> Made(j)
                    BY <1>1, <1>2, <1>8, <3>1, <4>2 DEF Made
                <5>2. left[ThreadOrder[j]].eip # "nowhere" <=> Made(j)
                    BY DEF BInv, StacksInv
                <5>3. ThreadOrder[j] \in Thread \ {t}
                    BY <1>2, <1>9, <4>2
                <5> QED BY <1>15, <5>1, <5>2, <5>3
            <4> QED BY <4>1, <4>2
        <3> QED BY <3>2, <3>3, <3>4, <3>5
    <2> QED BY <2>1, <2>2 DEF StacksInv
<1> QED BY <1>6, <1>7, <1>18, <1>19, <1>20 DEF BInv

LEMMA AddStep ==
    ASSUME BInv, NEW t \in Thread, Execute("add", t), Add(t), UNCHANGED <<tables, devices>>
    PROVE  BInv'
<1>1. /\ statement' = statement + 1 /\ kernel' = kernel /\ statement \in Nat \ {0}
      /\ kernel = "threads" /\ AboutThread("add", t) /\ cpu.eip = "main"
    BY AtMain, Numbers
<1>2. statement > 14 + 2 * Many
    <2>1. Many \in Nat
        BY Sizes
    <2> QED BY <1>1, <2>1 DEF AboutThread
<1>3. /\ memory' = memory /\ cpu' = cpu /\ regs' = regs /\ tcb' = tcb
      /\ current_thread' = current_thread /\ int_no' = int_no /\ left' = left
      /\ struck' = struck /\ gdt' = gdt /\ idt' = idt
      /\ exceptions' = exceptions /\ interrupts' = interrupts
      /\ pic' = pic /\ pit' = pit /\ paging' = paging
      /\ heap' = heap + NodeWords /\ ready' = Append(ready, t)
    BY DEF Add, Allocated, machine, history, tables, devices
<1>4. TablesInv'
    BY <1>3, NothingNew
<1>5. RunsInv'
    BY <1>1, <1>3, StillMain
<1>6. FramesInv'
    BY <1>3 DEF BInv, FramesInv, Away, Parked, Top, Leaves, Frame
<1>7. Typed'
    <2>1. heap' \in Int
        BY <1>3, Sizes DEF BInv, Typed
    <2>2. ready' \in Seq(Thread)
        BY <1>3 DEF BInv, Typed
    <2> QED BY <1>1, <1>3, <2>1, <2>2 DEF BInv, Typed
<1>8. StacksInv'
    <2>1. statement' \in Int /\ statement' >= statement
        BY <1>1
    <2> QED BY <1>1, <1>2, <1>3, <2>1, Late DEF BInv
<1> QED BY <1>4, <1>5, <1>6, <1>7, <1>8 DEF BInv

(* main starts the first thread, from its own stack.                       *)
LEMMA DispatchStep ==
    ASSUME BInv, NEW t \in Thread, Execute("dispatch", t), DispatchTo(t, "assert"),
           UNCHANGED <<regs, threads, int_no, history, bounds>>, UNCHANGED <<tables, devices>>
    PROVE  BInv'
<1>1. /\ statement' = statement + 1 /\ kernel' = kernel /\ statement \in Nat \ {0}
      /\ kernel = "threads" /\ AboutThread("dispatch", t)
      /\ cpu.eip = "main" /\ cpu.esp = BootWords /\ current_thread = None
    BY AtMain, Numbers
<1>2. Many \in Nat \ {0} /\ statement = 14 + 3 * Many
    BY <1>1, Sizes DEF AboutThread
<1>3. /\ regs' = regs /\ tcb' = tcb /\ heap' = heap /\ ready' = ready
      /\ current_thread' = current_thread /\ int_no' = int_no /\ left' = left
      /\ struck' = struck /\ gdt' = gdt /\ idt' = idt
      /\ exceptions' = exceptions /\ interrupts' = interrupts
      /\ pic' = pic /\ pit' = pit /\ paging' = paging
      /\ memory' = Pushed(BootWords, <<t, "assert">>)
      /\ cpu' = [cpu EXCEPT !.eip = "switch", !.esp = @ - 2]
    BY <1>1 DEF DispatchTo, threads, history, tables, devices
<1>4. Processor(cpu) /\ DOMAIN memory = Address
    BY DEF BInv, Typed
<1>5. /\ cpu'.eip = "switch" /\ cpu'.esp = BootWords - 2 /\ cpu'.enabled = cpu.enabled
      /\ Processor(cpu')
    <2>1. BootWords - 2 \in Int /\ cpu' = [cpu EXCEPT !.eip = "switch", !.esp = BootWords - 2]
        <3>1. BootWords \in Int /\ cpu.esp = BootWords
            BY <1>1, BootStack
        <3> QED BY <1>3, <3>1
    <2>2. cpu' = Moved(cpu, "switch", BootWords - 2)
        BY <2>1 DEF Moved
    <2> QED BY <1>4, <2>1, <2>2, Proceeds
<1>6. BootWords \in Int /\ BootWords >= 21 /\ StackWords \in Nat /\ StackWords >= 37
    BY Sizes
<1>7. Writes(memory', BootWords, <<t, "assert">>, 2)
    BY <1>3, <1>4, <1>6, Few, PushedIs
<1>8. TablesInv'
    BY <1>3, <1>5, NothingNew
<1>9. RunsInv'
    <2>1. Started'
        BY <1>1, <1>2 DEF Started
    <2>2. BootWords - 1 \in Address
        <3>1. 0 <= BootWords - 1 /\ BootWords - 1 <= 20 + HandlerWords
            BY Sizes
        <3>2. Many * (StackWords + 6) \in Nat
            BY <1>2, <1>6
        <3>3. PICK m \in Nat : m = Many * (StackWords + 6)
            BY <3>2
        <3>4. Address = 0 .. 37 + HandlerWords + m
            BY <3>3, Sizes
        <3>5. HandlerWords \in Nat
            BY Sizes
        <3> QED BY <1>6, <3>1, <3>4, <3>5
    <2>3. memory'[BootWords - 1] = t
        <3>1. <<t, "assert">>[1] = t /\ 1 \in 1 .. 2
            OBVIOUS
        <3> QED BY <1>7, <2>2, <3>1 DEF Writes
    <2>4. MainRuns'
        BY <1>5, <2>1, <2>3 DEF MainRuns
    <2> QED BY <1>1, <1>3, <2>4 DEF RunsInv
<1>10. FramesInv'
    <2>1. ASSUME NEW u \in Thread, Away(u)'
          PROVE  Parked(u)'
        <3>1. Away(u)
            BY <1>3, <2>1 DEF Away
        <3>2. Parked(u) /\ Placed(u)
            BY <3>1, Placement DEF BInv, FramesInv, Away
        <3>3. \A a \in Int : Top(u) - 20 <= a /\ a < Top(u) => memory'[a] = memory[a]
            <4> SUFFICES ASSUME NEW a \in Int, Top(u) - 20 <= a, a < Top(u)
                         PROVE  memory'[a] = memory[a]
                OBVIOUS
            <4>1. a \in Address /\ a >= BootWords
                BY <1>6, <3>2 DEF Placed
            <4> QED BY <1>7, <4>1 DEF Writes
        <3> QED BY <1>3, <3>2, <3>3, ParkedKept
    <2>2. cpu'.eip = "switch"
        BY <1>5
    <2> QED BY <2>1, <2>2 DEF FramesInv
<1>11. Typed'
    <2>1. DOMAIN memory' = Address
        BY <1>7 DEF Writes
    <2> QED BY <1>1, <1>3, <1>5, <2>1 DEF BInv, Typed
<1>12. StacksInv'
    <2>1. statement' \in Int /\ statement' >= statement /\ statement > 14 + 2 * Many
        BY <1>1, <1>2
    <2> QED BY <1>1, <1>3, <2>1, Late DEF BInv
<1> QED BY <1>8, <1>9, <1>10, <1>11, <1>12 DEF BInv

LEMMA ThreadsStep ==
    ASSUME BInv, SetsUpThreads
    PROVE  BInv'
<1>1. UNCHANGED <<tables, devices>>
    BY DEF SetsUpThreads
<1>2. CASE /\ Does("memory_pool") /\ heap' = HeapStart
           /\ UNCHANGED <<machine, tcb, current_thread, ready, int_no, history, bounds>>
    BY <1>1, <1>2, HeapStep DEF Does
<1>3. CASE /\ Does("new_disk") \/ Does("new_scheduler")
           /\ heap' = Allocated(ObjectWords)
           /\ UNCHANGED <<machine, tcb, current_thread, ready, int_no, history, bounds>>
    BY <1>1, <1>3, HeapStep DEF Does
<1>4. CASE \E t \in Thread : Execute("new_stack", t) /\ NewStack(t)
    BY <1>1, <1>4, NewStackStep
<1>5. CASE \E t \in Thread : Execute("new_thread", t) /\ NewThread(t)
    BY <1>1, <1>5, NewThreadStep
<1>6. CASE \E t \in Thread : Execute("add", t) /\ Add(t)
    BY <1>1, <1>6, AddStep
<1>7. CASE /\ \E t \in Thread : Execute("dispatch", t) /\ DispatchTo(t, "assert")
           /\ UNCHANGED <<regs, threads, int_no, history, bounds>>
    BY <1>1, <1>7, DispatchStep
<1> QED BY <1>2, <1>3, <1>4, <1>5, <1>6, <1>7 DEF SetsUpThreads

-----------------------------------------------------------------------------
(* A tick of the timer                                                     *)

LEMMA DepthIs ==
    /\ DOMAIN Depth = {"fun", "thread_start", "after"} \cup BeforeLoad
                      \cup {"set_current", "restore"}
    /\ Depth["fun"] = 2 /\ Depth["thread_start"] = 3 /\ Depth["after"] = 3
    /\ Depth["switch"] = 4 /\ Depth["push_eax"] = 4 /\ Depth["get_return"] = 5
    /\ Depth["move_return"] = 5 /\ Depth["move_esp"] = 5 /\ Depth["push_flags"] = 3
    /\ Depth["restore_eax"] = 4 /\ Depth["push_cs"] = 4 /\ Depth["cover_return"] = 5
    /\ Depth["save"] = 6 /\ Depth["store_esp"] = 20 /\ Depth["load_next"] = 20
    /\ Depth["set_current"] = 20 /\ Depth["restore"] = 20
    /\ \A p \in DOMAIN Depth : Depth[p] \in 2 .. 20 /\ (p \in BeforeLoad => Depth[p] \in 3 .. 20)
<1>1. /\ DOMAIN Depth = {"fun", "thread_start", "after"} \cup BeforeLoad
                        \cup {"set_current", "restore"}
      /\ Depth["fun"] = 2 /\ Depth["thread_start"] = 3 /\ Depth["after"] = 3
      /\ Depth["switch"] = 4 /\ Depth["push_eax"] = 4 /\ Depth["get_return"] = 5
      /\ Depth["move_return"] = 5 /\ Depth["move_esp"] = 5 /\ Depth["push_flags"] = 3
      /\ Depth["restore_eax"] = 4 /\ Depth["push_cs"] = 4 /\ Depth["cover_return"] = 5
      /\ Depth["save"] = 6 /\ Depth["store_esp"] = 20 /\ Depth["load_next"] = 20
      /\ Depth["set_current"] = 20 /\ Depth["restore"] = 20
    BY DEF Depth, BeforeLoad, BeforeSave
<1>2. ASSUME NEW p \in DOMAIN Depth
      PROVE  Depth[p] \in 2 .. 20 /\ (p \in BeforeLoad => Depth[p] \in 3 .. 20)
    BY <1>1, <1>2 DEF BeforeLoad, BeforeSave
<1> QED BY <1>1, <1>2

(* On which stack the processor works, and how deep.                       *)
StandsOn(t) ==
    /\ left[t].eip # "nowhere" /\ cpu.esp \in Top(t) - 20 .. Top(t) - 2
    /\ t = current_thread \/ cpu.esp = Top(t) - 20
    /\ cpu.eip \in {"load_next", "set_current", "load_esp", "restore"} => cpu.esp = Top(t) - 20

LEMMA Stands ==
    ASSUME BInv, cpu.eip # "astray"
    PROVE  cpu.esp \in BootWords - 2 .. BootWords \/ \E t \in Thread : StandsOn(t)
<1>0. BootWords \in Int
    BY Sizes
<1>1. CASE current_thread = None /\ MainRuns
    BY <1>0, <1>1 DEF MainRuns
<1>2. CASE current_thread \in Thread /\ Started
    <2>1. \A t \in Thread : left[t].eip # "nowhere" /\ Top(t) \in Int
        BY <1>2, AllMade, Placement DEF BInv, Placed
    <2>2. CASE OnOldStack
        <3>1. CASE cpu.esp = BootWords - 2
            BY <1>0, <3>1
        <3>2. CASE \E t \in Thread : cpu.esp = Top(t) - 20
            <4>1. PICK t \in Thread : cpu.esp = Top(t) - 20
                BY <3>2
            <4>2. Top(t) - 20 \in Top(t) - 20 .. Top(t) - 2
                BY <2>1
            <4>3. StandsOn(t)
                BY <2>1, <4>1, <4>2 DEF StandsOn
            <4> QED BY <4>3
        <3> QED BY <2>2, <3>1, <3>2 DEF OnOldStack
    <2>3. CASE ThreadRuns(current_thread)
        <3>1. cpu.eip \in DOMAIN Depth /\ cpu.esp = Top(current_thread) - Depth[cpu.eip]
            BY <2>3 DEF ThreadRuns
        <3>2. Depth[cpu.eip] \in 2 .. 20
            BY <3>1, DepthIs
        <3>3. cpu.eip \in {"load_next", "set_current", "load_esp", "restore"}
                  => Depth[cpu.eip] = 20
            BY <3>1, DepthIs DEF BeforeLoad, BeforeSave
        <3>4. Top(current_thread) \in Int /\ left[current_thread].eip # "nowhere"
            BY <1>2, <2>1
        <3>5. cpu.esp \in Top(current_thread) - 20 .. Top(current_thread) - 2
            BY <3>1, <3>2, <3>4
        <3>6. cpu.eip \in {"load_next", "set_current", "load_esp", "restore"}
                  => cpu.esp = Top(current_thread) - 20
            BY <3>1, <3>3
        <3>7. StandsOn(current_thread)
            BY <3>4, <3>5, <3>6, Zenon DEF StandsOn
        <3> QED BY <1>2, <3>7
    <2>4. current_thread # None
        BY <1>2, Sizes
    <2> QED BY <2>2, <2>3, <2>4 DEF BInv, RunsInv
<1> QED BY <1>1, <1>2 DEF BInv, RunsInv

LEMMA TickWrites ==
    ASSUME BInv, Tick
    PROVE  /\ DOMAIN memory' = Address /\ int_no' = "32"
           /\ \A a \in Address : a >= cpu.esp \/ a < cpu.esp - Room => memory'[a] = memory[a]
<1>1. cpu.eip # "astray" /\ cpu.esp \in Int /\ DOMAIN memory = Address
    BY DEF Tick, At, BInv, Typed, Processor
<1>2. PICK words : words = TickFrame \o [i \in 1 .. HandlerWords |-> "handler"]
    OBVIOUS
<1>3. Tuple(words, Room) /\ words[5] = "32" /\ Len(TickFrame) = 17
    BY <1>2, TickFrameIs
<1>4. memory' = Pushed(cpu.esp, words)
    BY <1>2 DEF Tick
<1>5. Writes(memory', cpu.esp, words, Room)
    BY <1>1, <1>3, <1>4, PushedIs
<1>6. int_no' = memory'[cpu.esp - 5]
    <2>1. int_no' = memory'[Field(cpu.esp - 17, "int_no")]
        BY <1>3 DEF Tick
    <2>2. cpu.esp - 17 - 1 + 13 = cpu.esp - 5
        BY <1>1
    <2> QED BY <2>1, <2>2, IntNo
<1>7. cpu.esp - 5 \in Address
    <2>1. HandlerWords \in Nat /\ StackWords \in Nat /\ StackWords >= 37 + HandlerWords
          /\ BootWords = 21 + HandlerWords
        BY Sizes
    <2>2. CASE cpu.esp \in BootWords - 2 .. BootWords
        <3>1. Many * (StackWords + 6) \in Nat
            BY <2>1, Sizes
        <3>2. PICK m \in Nat : m = Many * (StackWords + 6)
            BY <3>1
        <3>3. Address = 0 .. 37 + HandlerWords + m
            BY <3>2, Sizes
        <3> QED BY <1>1, <2>1, <2>2, <3>3
    <2>3. CASE \E t \in Thread : StandsOn(t)
        <3>1. PICK t \in Thread : /\ left[t].eip # "nowhere"
                                  /\ cpu.esp \in Top(t) - 20 .. Top(t) - 2
            BY <2>3 DEF StandsOn
        <3>2. Placed(t)
            BY <3>1, Placement DEF BInv
        <3>3. Top(t) \in Int /\ cpu.esp - 5 \in Int /\ Top(t) - StackWords <= cpu.esp - 5
              /\ cpu.esp - 5 <= Top(t)
            BY <1>1, <2>1, <3>1, <3>2 DEF Placed
        <3> QED BY <3>2, <3>3 DEF Placed
    <2> QED BY <1>1, <2>2, <2>3, Stands
<1>8. 5 \in 1 .. Room
    BY Sizes
<1>9. memory'[cpu.esp - 5] = words[5]
    BY <1>5, <1>7, <1>8 DEF Writes
<1> QED BY <1>3, <1>5, <1>6, <1>9 DEF Writes

(* No tick reaches a frame that is waiting.                                *)
LEMMA TickKeeps ==
    ASSUME BInv, Tick, NEW u \in Thread, left[u].eip # "nowhere",
           \/ u # current_thread
           \/ cpu.eip \in {"load_next", "set_current", "load_esp", "restore"}
    PROVE  \A a \in Int : Top(u) - 20 <= a /\ a < Top(u) => memory'[a] = memory[a]
<1> SUFFICES ASSUME NEW a \in Int, Top(u) - 20 <= a, a < Top(u)
             PROVE  memory'[a] = memory[a]
    OBVIOUS
<1>1. cpu.eip # "astray" /\ cpu.esp \in Int
    BY DEF Tick, At, BInv, Typed, Processor
<1>2. /\ HandlerWords \in Nat /\ StackWords \in Nat /\ StackWords >= 37 + HandlerWords
      /\ Room = 17 + HandlerWords /\ BootWords \in Int
    BY Sizes
<1>3. Placed(u) /\ Top(u) \in Int
    BY Placement DEF BInv, Placed
<1>4. a \in Address /\ a >= BootWords
    BY <1>2, <1>3 DEF Placed
<1>5. a >= cpu.esp \/ a < cpu.esp - Room
    <2>1. CASE cpu.esp \in BootWords - 2 .. BootWords
        BY <1>1, <1>2, <1>4, <2>1
    <2>2. ASSUME NEW t \in Thread, StandsOn(t)
          PROVE  a >= cpu.esp \/ a < cpu.esp - Room
        <3>1. /\ left[t].eip # "nowhere" /\ cpu.esp \in Top(t) - 20 .. Top(t) - 2
              /\ t = current_thread \/ cpu.esp = Top(t) - 20
              /\ cpu.eip \in {"load_next", "set_current", "load_esp", "restore"}
                 => cpu.esp = Top(t) - 20
            BY <2>2 DEF StandsOn
        <3>4. Top(t) \in Int
            BY <3>1, Placement DEF BInv, Placed
        <3>2. CASE t = u
            BY <1>3, <3>1, <3>4, <3>2
        <3>3. CASE t # u
            <4>1. Apart(t, u)
                BY <3>1, <3>3, Separation DEF BInv
            <4> QED BY <1>1, <1>2, <1>3, <3>1, <3>4, <4>1 DEF Apart
        <3> QED BY <3>2, <3>3
    <2> QED BY <1>1, <2>1, <2>2, Stands
<1> QED BY <1>4, <1>5, TickWrites

(* What is above the stack pointer stays.                                  *)
LEMMA RunsKept ==
    ASSUME NEW t, ThreadRuns(t), Top(t) \in Int, cpu' = cpu, regs' = regs,
           tcb'[t] = tcb[t], left'[t] = left[t],
           \A a \in Int : cpu.esp <= a /\ a < Top(t) => memory'[a] = memory[a],
           cpu.eip \in Window => t \in struck',
           cpu.eip \notin Window => struck' = struck
    PROVE  ThreadRuns(t)'
<1>1. PICK top : top = Top(t)
    OBVIOUS
<1>2. PICK l : l = left[t]
    OBVIOUS
<1>3. top \in Int /\ Top(t)' = top /\ left'[t] = l
    BY <1>1, <1>2 DEF Top
<1>4. PICK d : d = Depth[cpu.eip]
    OBVIOUS
<1>5. /\ cpu.eip \in DOMAIN Depth /\ cpu.esp = top - d /\ d \in 2 .. 20
      /\ cpu.eip \in BeforeLoad \cup {"thread_start"} => d >= 3
      /\ cpu.eip \in {"switch", "push_eax"} => d >= 4
      /\ cpu.eip \in {"get_return", "move_return"} => d >= 5
      /\ cpu.eip = "save" => d >= 6
      /\ cpu.eip = "store_esp" => d = 20
    BY <1>1, <1>4, DepthIs DEF ThreadRuns
<1>6. \A i \in 1 .. 20 : i <= d => memory'[top - i] = memory[top - i]
    <2> SUFFICES ASSUME NEW i \in 1 .. 20, i <= d
                 PROVE  memory'[top - i] = memory[top - i]
        OBVIOUS
    <2>1. top - i \in Int /\ cpu.esp <= top - i /\ top - i < top
        BY <1>3, <1>5
    <2> QED BY <1>1, <2>1
<1>7. /\ d >= 3 => memory'[top - 3] = memory[top - 3]
      /\ d >= 4 => memory'[top - 4] = memory[top - 4]
      /\ d >= 5 => memory'[top - 5] = memory[top - 5]
      /\ d >= 6 => memory'[top - 6] = memory[top - 6]
      /\ d = 20 => memory'[top - 1] = memory[top - 1] /\ memory'[top - 2] = memory[top - 2]
    BY <1>5, <1>6
<1>8. d = 20 => \A r \in Register : memory'[top - 8 - Place(r)] = memory[top - 8 - Place(r)]
    <2> SUFFICES ASSUME d = 20, NEW r \in Register
                 PROVE  memory'[top - 8 - Place(r)] = memory[top - 8 - Place(r)]
        OBVIOUS
    <2>1. 8 + Place(r) \in 1 .. 20 /\ top - (8 + Place(r)) = top - 8 - Place(r)
        BY <1>3, Registers
    <2> QED BY <1>6, <2>1
<1>9. /\ cpu.eip \in BeforeSave \cup {"store_esp"} =>
             /\ Leaves(top, l) /\ l.eip = "after"
             /\ t \notin struck => Building(top, l)
      /\ cpu.eip \in BeforeSave => /\ l.enabled = cpu.enabled
                                   /\ \A r \in Register \ {"eax"} : regs[r] = l.regs[r]
      /\ cpu.eip \in BeforeLoad => memory[top - 3] \in Thread
      /\ cpu.eip = "set_current" => regs["eax"] \in Thread
      /\ cpu.eip = "thread_start" => memory[top - 3] = "fun"
    BY <1>1, <1>2 DEF ThreadRuns
<1>10. ASSUME cpu.eip \in BeforeSave \cup {"store_esp"}, t \notin struck'
       PROVE  Building(top, l)'
    <2>1. cpu.eip \notin Window /\ Building(top, l)
        BY <1>9, <1>10
    <2>2. cpu.eip \in {"switch", "push_eax", "get_return", "move_return", "save", "store_esp"}
        BY <1>10, <2>1 DEF BeforeSave, Window
    <2>3. cpu.eip \in {"switch", "push_eax", "get_return"} => memory'[top - 4] = "after"
        BY <1>5, <1>7, <2>1 DEF Building
    <2>4. cpu.eip \in {"get_return", "move_return", "move_esp", "push_flags", "restore_eax"}
              => memory'[top - 5] = l.regs["eax"]
        BY <1>5, <1>7, <2>1, <2>2 DEF Building
    <2>5. cpu.eip \in {"move_esp", "push_flags", "restore_eax", "push_cs", "cover_return", "save"}
              => memory'[top - 6] = "after"
        BY <1>5, <1>7, <2>1, <2>2 DEF Building
    <2>6. cpu.eip \in {"restore_eax", "push_cs", "cover_return", "save"}
              => (memory'[top - 4] = "IF") = l.enabled
        BY <1>5, <1>7, <2>1, <2>2 DEF Building
    <2>7. cpu.eip \in {"store_esp"} => Frame(top, l)'
        BY <1>5, <1>7, <1>8, <2>1 DEF Building, Frame
    <2>8. /\ cpu.eip = "move_return" => regs["eax"] = "after"
          /\ cpu.eip \in {"switch", "push_eax", "get_return", "push_cs", "cover_return", "save"}
                 => regs["eax"] = l.regs["eax"]
        BY <2>1 DEF Building
    <2> QED BY <2>3, <2>4, <2>5, <2>6, <2>7, <2>8 DEF Building
<1>11. cpu.eip \in BeforeSave \cup {"store_esp"} => Leaves(top, l)'
    BY <1>9 DEF Leaves
<1>12. cpu.eip \in BeforeLoad => memory'[top - 3] \in Thread
    BY <1>5, <1>7, <1>9
<1>13. cpu.eip = "thread_start" => memory'[top - 3] = "fun"
    BY <1>5, <1>7, <1>9
<1>14. cpu'.eip \in DOMAIN Depth /\ cpu'.esp = top - Depth[cpu'.eip]
    BY <1>4, <1>5
<1> QED BY <1>3, <1>9, <1>10, <1>11, <1>12, <1>13, <1>14 DEF ThreadRuns

LEMMA TickStep ==
    ASSUME BInv, Interrupt
    PROVE  BInv'
<1>1. Tick /\ UNCHANGED <<kernel, statement, tables, devices>>
    BY DEF Interrupt
<1>2. /\ cpu' = cpu /\ regs' = regs /\ heap' = heap /\ tcb' = tcb
      /\ current_thread' = current_thread /\ ready' = ready /\ left' = left
      /\ kernel' = kernel /\ statement' = statement /\ gdt' = gdt /\ idt' = idt
      /\ exceptions' = exceptions /\ interrupts' = interrupts
      /\ pic' = pic /\ pit' = pit /\ paging' = paging
      /\ struck' = (IF cpu.eip \in Window THEN struck \cup {current_thread} ELSE struck)
    BY <1>1 DEF Tick, threads, tables, devices
<1>3. /\ DOMAIN memory' = Address /\ int_no' = "32"
      /\ \A a \in Address : a >= cpu.esp \/ a < cpu.esp - Room => memory'[a] = memory[a]
    BY <1>1, TickWrites
<1>4. Typed'
    BY <1>2, <1>3 DEF BInv, Typed
<1>5. TablesInv' /\ StacksInv'
    BY <1>2 DEF BInv, TablesInv, StacksInv, Timed, Ready, Stacked, Made
<1>6. FramesInv'
    <2>1. ASSUME NEW u \in Thread, Parked(u), left[u].eip # "nowhere",
                 \/ u # current_thread
                 \/ cpu.eip \in {"load_next", "set_current", "load_esp", "restore"}
          PROVE  Parked(u)'
        <3>1. \A a \in Int : Top(u) - 20 <= a /\ a < Top(u) => memory'[a] = memory[a]
            BY <1>1, <2>1, TickKeeps
        <3>2. Placed(u)
            BY <2>1, Placement DEF BInv
        <3>3. u \in struck => u \in struck'
            BY <1>2
        <3> QED BY <1>2, <2>1, <3>1, <3>2, <3>3, ParkedKept
    <2>2. ASSUME NEW u \in Thread, Away(u)'
          PROVE  Parked(u)'
        <3>1. Away(u)
            BY <1>2, <2>2 DEF Away
        <3> QED BY <2>1, <3>1 DEF Away, BInv, FramesInv
    <2>3. ASSUME cpu.eip \in {"load_next", "set_current", "load_esp", "restore"},
                 current_thread # None
          PROVE  Parked(current_thread)'
        <3>1. current_thread \in Thread /\ Started
            BY <2>3 DEF BInv, RunsInv
        <3>2. left[current_thread].eip # "nowhere" /\ Parked(current_thread)
            BY <2>3, <3>1, AllMade DEF BInv, FramesInv
        <3>3. PICK u \in Thread : u = current_thread
            BY <3>1
        <3>4. Parked(u)'
            BY <2>1, <2>3, <3>2, <3>3
        <3> QED BY <1>2, <3>3, <3>4 DEF Parked, Top
    <2> QED BY <1>2, <2>2, <2>3 DEF FramesInv
<1>7. RunsInv'
    <2>1. CASE current_thread = None /\ MainRuns
        <3>1. BootWords - 1 \in Address /\ BootWords \in Int
            BY BootStack
        <3>2. cpu.esp = BootWords - 2 => memory'[BootWords - 1] = memory[BootWords - 1]
            BY <1>3, <3>1
        <3>3. MainRuns'
            BY <1>2, <2>1, <3>2 DEF MainRuns, Started
        <3> QED BY <1>2, <2>1, <3>3 DEF RunsInv
    <2>2. CASE current_thread \in Thread /\ Started
        <3>1. Started' /\ current_thread # None
            BY <1>2, <2>2, Sizes DEF Started
        <3>2. CASE OnOldStack
            <4>1. OnOldStack'
                BY <1>2, <3>2 DEF OnOldStack, Top
            <4> QED BY <1>2, <2>2, <3>1, <4>1 DEF RunsInv
        <3>3. CASE ThreadRuns(current_thread)
            <4>1. PICK t \in Thread : t = current_thread
                BY <2>2
            <4>2. Placed(t)
                BY <2>2, <4>1, AllMade, Placement DEF BInv
            <4>3. Top(t) \in Int /\ cpu.esp \in Int
                  /\ \A a \in Int : cpu.esp <= a /\ a < Top(t) => a \in Address
                <5>1. /\ Top(t) \in Int /\ \A a \in Int : Top(t) - StackWords <= a /\ a <= Top(t)
                                                              => a \in Address
                    BY <4>2 DEF Placed
                <5>2. cpu.eip \in DOMAIN Depth /\ cpu.esp = Top(t) - Depth[cpu.eip]
                    BY <3>3, <4>1 DEF ThreadRuns
                <5>3. Depth[cpu.eip] \in 2 .. 20 /\ StackWords \in Nat /\ StackWords >= 37
                    BY <5>2, DepthIs, Sizes
                <5> QED BY <5>1, <5>2, <5>3
            <4>4. \A a \in Int : cpu.esp <= a /\ a < Top(t) => memory'[a] = memory[a]
                BY <1>3, <4>3
            <4>5. /\ cpu.eip \in Window => t \in struck'
                  /\ cpu.eip \notin Window => struck' = struck
                BY <1>2, <4>1
            <4>6. ThreadRuns(t)'
                BY <1>2, <3>3, <4>1, <4>3, <4>4, <4>5, RunsKept
            <4>7. ThreadRuns(current_thread)'
                BY <1>2, <4>1, <4>6 DEF ThreadRuns, Top, Leaves, Building, Frame
            <4> QED BY <1>2, <2>2, <3>1, <4>7 DEF RunsInv
        <3>4. cpu.eip # "astray"
            BY <1>1 DEF Tick, At
        <3> QED BY <2>2, <3>1, <3>2, <3>3, <3>4 DEF BInv, RunsInv
    <2> QED BY <2>1, <2>2 DEF BInv, RunsInv
<1> QED BY <1>4, <1>5, <1>6, <1>7 DEF BInv

-----------------------------------------------------------------------------
(* The threads                                                             *)

(* Once the first thread is started main's tables stay, and the stacks     *)
(* stay where they are.                                                    *)
LEMMA Settled ==
    ASSUME BInv, Started, UNCHANGED <<kernel, statement, tables, devices>>,
           DOMAIN memory' = Address, heap' \in Int, Processor(cpu'),
           regs' = [r \in Register |-> regs'[r]],
           tcb' \in [Thread -> [stack : Int, esp : Int]],
           left' = [t \in Thread |-> left'[t]], ready' \in Seq(Thread), int_no' = int_no,
           \A t \in Thread : /\ tcb'[t].stack = tcb[t].stack
                             /\ left'[t].eip # "nowhere"
    PROVE  Typed' /\ TablesInv' /\ StacksInv' /\ Started'
<1>1. /\ kernel' = kernel /\ statement' = statement /\ gdt' = gdt /\ idt' = idt
      /\ exceptions' = exceptions /\ interrupts' = interrupts
      /\ pic' = pic /\ pit' = pit /\ paging' = paging
    BY DEF tables, devices
<1>2. /\ kernel = "threads" /\ statement > 14 + 3 * Many /\ statement \in Nat /\ Many \in Nat \ {0}
    BY Sizes DEF Started, BInv, Typed
<1>3. Typed'
    BY <1>1 DEF BInv, Typed
<1>4. TablesInv'
    <2>1. statement > Ready
        BY <1>2 DEF Ready
    <2> QED BY <1>1, <2>1 DEF BInv, TablesInv, Timed, Ready
<1>5. StacksInv'
    <2>1. statement > 14 + 2 * Many /\ statement' \in Int /\ statement' >= statement
        BY <1>1, <1>2
    <2> QED BY <1>1, <1>2, <2>1, Late DEF BInv
<1>6. Started'
    BY <1>1 DEF Started
<1> QED BY <1>3, <1>4, <1>5, <1>6

(* A thread that runs writes nothing but what belongs to its own frame.    *)
LEMMA OthersKept ==
    ASSUME BInv, Started, NEW c \in Thread, NEW u \in Thread, u # c, Parked(u),
           tcb'[u] = tcb[u], left'[u] = left[u], struck' = struck,
           \A a \in Address : a < Top(c) - 20 \/ a >= Top(c) => memory'[a] = memory[a]
    PROVE  Parked(u)'
<1>1. Placed(u) /\ Placed(c) /\ Apart(c, u)
    BY AllMade, Placement, Separation DEF BInv
<1>2. StackWords \in Nat /\ StackWords >= 37
    BY Sizes
<1>3. \A a \in Int : Top(u) - 20 <= a /\ a < Top(u) => memory'[a] = memory[a]
    <2> SUFFICES ASSUME NEW a \in Int, Top(u) - 20 <= a, a < Top(u)
                 PROVE  memory'[a] = memory[a]
        OBVIOUS
    <2>1. a \in Address
        BY <1>1, <1>2 DEF Placed
    <2>2. a < Top(c) - 20 \/ a >= Top(c)
        BY <1>1, <1>2 DEF Placed, Apart
    <2> QED BY <2>1, <2>2
<1> QED BY <1>1, <1>3, ParkedKept

(* The words of a frame have addresses.                                    *)
LEMMA OnStack ==
    ASSUME BInv, Started, NEW t \in Thread, NEW top, top = Top(t)
    PROVE  top \in Int /\ \A a \in Int : top - 20 <= a /\ a < top => a \in Address
<1>1. Placed(t)
    BY AllMade, Placement DEF BInv
<1>2. StackWords \in Nat /\ StackWords >= 37
    BY Sizes
<1> QED BY <1>1, <1>2 DEF Placed

(* Where the processor may be when it is not in main.                      *)
LEMMA Running ==
    ASSUME BInv, cpu.eip # "main", cpu.eip # "astray"
    PROVE  /\ Started
           /\ \/ current_thread = None /\ MainRuns
              \/ current_thread \in Thread /\ current_thread # None
                 /\ (OnOldStack \/ ThreadRuns(current_thread))
<1>1. None \notin Thread
    BY Sizes
<1> QED BY <1>1 DEF BInv, RunsInv, MainRuns

(* An instruction of the switch.                                           *)
Goes(place, next, e, value, words) ==
    /\ cpu.eip = place /\ Processor(cpu') /\ cpu'.eip = next /\ cpu'.esp = e
    /\ cpu'.enabled = cpu.enabled
    /\ regs' = [r \in Register |-> regs'[r]] /\ regs'["eax"] = value
    /\ \A r \in Register \ {"eax"} : regs'[r] = regs[r]
    /\ memory' = words
    /\ int_no' = int_no /\ left' = left /\ struck' = struck

LEMMA InstructionIs ==
    ASSUME Typed, NEW place, NEW next, NEW e \in Int, NEW value, NEW words,
           Instruction(place, next, e, value, words)
    PROVE  Goes(place, next, e, value, words)
<1>1. /\ cpu.eip = place /\ cpu' = Moved(cpu, next, e)
      /\ regs' = [regs EXCEPT !["eax"] = value] /\ memory' = words
      /\ int_no' = int_no /\ left' = left /\ struck' = struck
    BY DEF Instruction, At, Moved, history
<1>2. Processor(cpu') /\ cpu'.eip = next /\ cpu'.esp = e /\ cpu'.enabled = cpu.enabled
    BY <1>1, Proceeds DEF Typed
<1>3. "eax" \in Register /\ regs = [r \in Register |-> regs[r]]
    BY Registers DEF Typed
<1>4. /\ regs' = [r \in Register |-> regs'[r]] /\ regs'["eax"] = value
      /\ \A r \in Register \ {"eax"} : regs'[r] = regs[r]
    BY <1>1, <1>3
<1> QED BY <1>1, <1>2, <1>4 DEF Goes

(* What all instructions of the switch leave alone.                        *)
LEMMA Switching ==
    ASSUME BInv, Started, UNCHANGED <<kernel, statement, tables, devices>>,
           NEW place, NEW next, NEW e \in Int, NEW value, NEW words,
           Instruction(place, next, e, value, words), DOMAIN words = Address,
           heap' = heap, ready' = ready,
           tcb' \in [Thread -> [stack : Int, esp : Int]],
           \A t \in Thread : tcb'[t].stack = tcb[t].stack
    PROVE  Typed' /\ TablesInv' /\ StacksInv' /\ Started'
<1>1. /\ Processor(cpu') /\ regs' = [r \in Register |-> regs'[r]] /\ memory' = words
      /\ int_no' = int_no /\ left' = left
    BY InstructionIs DEF Goes, BInv
<1>2. \A t \in Thread : left[t].eip # "nowhere"
    BY AllMade DEF BInv
<1>3. heap \in Int /\ ready \in Seq(Thread) /\ left = [t \in Thread |-> left[t]]
    BY DEF BInv, Typed
<1> QED BY <1>1, <1>2, <1>3, Settled

(* One instruction of those that make the frame.                           *)
LEMMA Builds ==
    ASSUME BInv, Started, UNCHANGED <<kernel, statement, tables, devices>>, UNCHANGED threads,
           NEW t \in Thread, t = current_thread, ThreadRuns(t),
           NEW place \in BeforeSave, NEW next \in BeforeSave \cup {"store_esp"},
           NEW e \in Int, NEW value, NEW words, Instruction(place, next, e, value, words),
           NEW top, top = Top(t), e = top - Depth[next], DOMAIN words = Address,
           \A a \in Address : a < top - 20 \/ a >= top - 3 => words[a] = memory[a],
           NEW l, l = left[t], t \notin struck => Building(top, l)'
    PROVE  BInv'
<1>1. /\ cpu.eip = place /\ cpu'.eip = next /\ cpu'.esp = e /\ cpu'.enabled = cpu.enabled
      /\ \A r \in Register \ {"eax"} : regs'[r] = regs[r]
      /\ memory' = words /\ left' = left /\ struck' = struck
    <2>1. Goes(place, next, e, value, words)
        BY InstructionIs DEF BInv
    <2> QED BY <2>1 DEF Goes
<1>2. heap' = heap /\ ready' = ready /\ tcb' = tcb /\ current_thread' = current_thread
    BY DEF threads
<1>3. Typed' /\ TablesInv' /\ StacksInv' /\ Started'
    <2>1. tcb \in [Thread -> [stack : Int, esp : Int]]
        BY DEF BInv, Typed
    <2> QED BY <1>2, <2>1, Switching
<1>4. top \in Int /\ \A a \in Int : top - 20 <= a /\ a < top => a \in Address
    BY OnStack
<1>5. FramesInv'
    <2>1. ASSUME NEW u \in Thread, Away(u)'
          PROVE  Parked(u)'
        <3>1. Away(u) /\ u # t /\ Parked(u)
            BY <1>1, <1>2, <2>1 DEF Away, BInv, FramesInv
        <3>2. \A a \in Address : a < Top(t) - 20 \/ a >= Top(t) => memory'[a] = memory[a]
            <4> SUFFICES ASSUME NEW a \in Address, a < top - 20 \/ a >= top
                         PROVE  memory'[a] = memory[a]
                OBVIOUS
            <4>1. a \in Int
                BY Sizes
            <4> QED BY <1>1, <1>4, <4>1
        <3> QED BY <1>1, <1>2, <3>1, <3>2, OthersKept
    <2>2. cpu'.eip \notin {"load_next", "set_current", "load_esp", "restore"}
        BY <1>1 DEF BeforeSave
    <2> QED BY <2>1, <2>2 DEF FramesInv
<1>6. ThreadRuns(t)'
    <2>1. Top(t)' = top /\ left'[t] = l
        BY <1>1, <1>2 DEF Top
    <2>2. next \in DOMAIN Depth /\ next \in BeforeLoad /\ place \in BeforeLoad
          /\ next # "set_current" /\ next # "thread_start"
        BY DepthIs DEF BeforeLoad, BeforeSave
    <2>3. /\ Leaves(top, l) /\ l.eip = "after" /\ l.enabled = cpu.enabled
          /\ \A r \in Register \ {"eax"} : regs[r] = l.regs[r]
          /\ memory[top - 3] \in Thread
        BY <1>1, <2>2 DEF ThreadRuns
    <2>4. memory'[top - 3] = memory[top - 3]
        BY <1>1, <1>4
    <2>5. Leaves(top, l)' /\ (t \notin struck' => Building(top, l)')
        BY <1>1, <2>3 DEF Leaves
    <2> QED BY <1>1, <2>1, <2>2, <2>3, <2>4, <2>5 DEF ThreadRuns
<1>7. RunsInv'
    <2>1. ThreadRuns(current_thread)'
        BY <1>2, <1>6 DEF ThreadRuns, Top, Leaves, Building, Frame
    <2> QED BY <1>2, <1>3, <2>1 DEF RunsInv
<1> QED BY <1>3, <1>5, <1>7 DEF BInv

(* A thread on its way to the frame.                                       *)
Making(t, top, l) ==
    /\ Started /\ t = current_thread /\ ThreadRuns(t) /\ top = Top(t) /\ l = left[t]
    /\ cpu.esp = top - Depth[cpu.eip] /\ top \in Int
    /\ \A i \in 1 .. 20 : top - i \in Address
    /\ Leaves(top, l) /\ l.eip = "after" /\ l.enabled = cpu.enabled /\ cpu.enabled \in BOOLEAN
    /\ \A r \in Register \ {"eax"} : regs[r] = l.regs[r]
    /\ t \notin struck => Building(top, l)
    /\ DOMAIN memory = Address

LEMMA MakingIs ==
    ASSUME BInv, cpu.eip \in BeforeSave, cpu.eip = "switch" => current_thread # None
    PROVE  \E t \in Thread : \E top, l : Making(t, top, l)
<1>1. /\ Started /\ current_thread \in Thread /\ ThreadRuns(current_thread)
    BY Running DEF BeforeSave, MainRuns, OnOldStack
<1>2. PICK t \in Thread : t = current_thread
    BY <1>1
<1>3. PICK top : top = Top(t)
    OBVIOUS
<1>4. PICK l : l = left[t]
    OBVIOUS
<1>5. top \in Int /\ \A i \in 1 .. 20 : top - i \in Address
    <2>1. top \in Int /\ \A a \in Int : top - 20 <= a /\ a < top => a \in Address
        BY <1>1, <1>3, OnStack
    <2> SUFFICES ASSUME NEW i \in 1 .. 20
                 PROVE  top - i \in Address
        BY <2>1
    <2>2. top - i \in Int /\ top - 20 <= top - i /\ top - i < top
        BY <2>1
    <2> QED BY <2>1, <2>2
<1>6. /\ cpu.esp = top - Depth[cpu.eip]
      /\ Leaves(top, l) /\ l.eip = "after" /\ l.enabled = cpu.enabled
      /\ \A r \in Register \ {"eax"} : regs[r] = l.regs[r]
      /\ t \notin struck => Building(top, l)
    BY <1>1, <1>2, <1>3, <1>4 DEF ThreadRuns
<1>7. cpu.enabled \in BOOLEAN /\ DOMAIN memory = Address
    BY DEF BInv, Typed, Processor
<1>8. Making(t, top, l)
    BY <1>1, <1>2, <1>3, <1>4, <1>5, <1>6, <1>7 DEF Making
<1> QED BY <1>8

(* The words a step of it may write are its own.                           *)
Written(words, top, d, seq, n) ==
    /\ DOMAIN words = Address
    /\ \A a \in Address : a < top - 20 \/ a >= top - 3 => words[a] = memory[a]
    /\ \A i \in 1 .. n : words[top - d - i] = seq[i]
    /\ \A i \in 1 .. d : words[top - i] = memory[top - i]
    /\ \A i \in 1 .. 20 : i > d + n => words[top - i] = memory[top - i]

LEMMA MakingWrites ==
    ASSUME NEW t, NEW top, NEW l, Making(t, top, l), NEW d \in 3 .. 6, NEW n \in 1 .. 14,
           d + n <= 20, NEW seq, Tuple(seq, n), NEW words, words = Pushed(top - d, seq)
    PROVE  Written(words, top, d, seq, n)
<1>1. top \in Int /\ DOMAIN memory = Address /\ \A i \in 1 .. 20 : top - i \in Address
    BY DEF Making
<1>2. top - d \in Int
    BY <1>1
<1>3. Writes(words, top - d, seq, n)
    BY <1>1, <1>2, PushedIs
<1>4. \A a \in Address : a \in Int
    BY Sizes
<1>5. \A a \in Address : a >= top - d \/ a < top - d - n => words[a] = memory[a]
    BY <1>3 DEF Writes
<1>6. \A i \in 1 .. n : top - d - i \in Address
    <2> SUFFICES ASSUME NEW i \in 1 .. n
                 PROVE  top - d - i \in Address
        OBVIOUS
    <2>1. d + i \in 1 .. 20 /\ top - d - i = top - (d + i)
        BY <1>1
    <2> QED BY <1>1, <2>1
<1>7. \A a \in Address : a < top - 20 \/ a >= top - 3 => words[a] = memory[a]
    BY <1>1, <1>4, <1>5
<1>8. \A i \in 1 .. n : words[top - d - i] = seq[i]
    BY <1>3, <1>6 DEF Writes
<1>9. ASSUME NEW i \in 1 .. 20, i <= d \/ i > d + n
      PROVE  words[top - i] = memory[top - i]
    <2>1. top - i \in Address /\ (top - i >= top - d \/ top - i < top - d - n)
        BY <1>1, <1>9
    <2> QED BY <1>5, <2>1
<1>10. \A i \in 1 .. d : words[top - i] = memory[top - i]
    BY <1>9
<1> QED BY <1>3, <1>7, <1>8, <1>9, <1>10 DEF Writes, Written

LEMMA PushEaxStep ==
    ASSUME BInv, PushEax, UNCHANGED threads, UNCHANGED <<kernel, statement, tables, devices>>
    PROVE  BInv'
<1>1. cpu.eip = "push_eax" /\ "push_eax" \in BeforeSave /\ "get_return" \in BeforeSave
    BY DEF PushEax, Instruction, At, BeforeSave
<1>who. PICK t \in Thread : \E top, l : Making(t, top, l)
    BY <1>1, MakingIs DEF BeforeSave
<1>2. PICK top, l : Making(t, top, l)
    BY <1>who
<1>3. PICK e : e = cpu.esp - 1
    OBVIOUS
<1>4. PICK value : value = eax
    OBVIOUS
<1>5. PICK words : words = Pushed(cpu.esp, <<eax>>)
    OBVIOUS
<1>6. Instruction("push_eax", "get_return", e, value, words)
    BY <1>3, <1>4, <1>5 DEF PushEax, Instruction
<1>7. /\ Started /\ t = current_thread /\ ThreadRuns(t) /\ top = Top(t) /\ l = left[t]
      /\ cpu.esp = top - 4 /\ top \in Int /\ DOMAIN memory = Address
      /\ l.enabled = cpu.enabled /\ cpu.enabled \in BOOLEAN
      /\ t \notin struck => Building(top, l)
    BY <1>1, <1>2, DepthIs DEF Making
<1>8. e \in Int /\ e = top - 5 /\ Depth["get_return"] = 5
    BY <1>3, <1>7, DepthIs
<1>9. Goes("push_eax", "get_return", e, value, words)
    BY <1>6, <1>8, InstructionIs DEF BInv
<1>10. /\ DOMAIN words = Address
       /\ \A a \in Address : a < top - 20 \/ a >= top - 3 => words[a] = memory[a]
       /\ words[top - 4 - 1] = <<eax>>[1]
       /\ \A i \in 1 .. 4 : words[top - i] = memory[top - i]
       /\ \A i \in 1 .. 20 : i > 4 + 1 => words[top - i] = memory[top - i]
    <2>1. PICK seq : seq = <<eax>>
        OBVIOUS
    <2>2. Tuple(seq, 1) /\ words = Pushed(top - 4, seq)
        BY <1>5, <1>7, <2>1, Few
    <2>3. 4 \in 3 .. 6 /\ 1 \in 1 .. 14 /\ 4 + 1 <= 20 /\ 1 \in 1 .. 1
        OBVIOUS
    <2>4. Written(words, top, 4, seq, 1)
        BY <1>2, <2>2, <2>3, MakingWrites
    <2> QED BY <2>1, <2>3, <2>4 DEF Written
<1>11. ASSUME t \notin struck
       PROVE  Building(top, l)'
    <2>1. /\ memory[top - 4] = "after"
          /\ eax = l.regs["eax"]
        BY <1>1, <1>7, <1>11 DEF Building, eax
    <2>2. /\ words[top - 4] = "after"
          /\ words[top - 5] = l.regs["eax"]
          /\ value = l.regs["eax"]
        <3>1. top - 4 - 1 = top - 5 /\ <<eax>>[1] = eax
            BY <1>7
        <3>2. words[top - 4] = memory[top - 4]
            BY <1>10
        <3> QED BY <1>4, <1>10, <2>1, <3>1, <3>2
    <2>3. cpu'.eip = "get_return" /\ memory' = words /\ regs'["eax"] = value
        BY <1>9 DEF Goes
    <2> QED BY <2>2, <2>3 DEF Building
<1> QED BY <1>1, <1>6, <1>7, <1>8, <1>10, <1>11, Builds

LEMMA GetReturnStep ==
    ASSUME BInv, GetReturn, UNCHANGED threads, UNCHANGED <<kernel, statement, tables, devices>>
    PROVE  BInv'
<1>1. cpu.eip = "get_return" /\ "get_return" \in BeforeSave /\ "move_return" \in BeforeSave
    BY DEF GetReturn, Instruction, At, BeforeSave
<1>who. PICK t \in Thread : \E top, l : Making(t, top, l)
    BY <1>1, MakingIs DEF BeforeSave
<1>2. PICK top, l : Making(t, top, l)
    BY <1>who
<1>3. PICK e : e = cpu.esp
    OBVIOUS
<1>4. PICK value : value = memory[cpu.esp + 1]
    OBVIOUS
<1>5. PICK words : words = memory
    OBVIOUS
<1>6. Instruction("get_return", "move_return", e, value, words)
    BY <1>3, <1>4, <1>5 DEF GetReturn, Instruction
<1>7. /\ Started /\ t = current_thread /\ ThreadRuns(t) /\ top = Top(t) /\ l = left[t]
      /\ cpu.esp = top - 5 /\ top \in Int /\ DOMAIN memory = Address
      /\ l.enabled = cpu.enabled /\ cpu.enabled \in BOOLEAN
      /\ t \notin struck => Building(top, l)
    BY <1>1, <1>2, DepthIs DEF Making
<1>8. e \in Int /\ e = top - 5 /\ Depth["move_return"] = 5
    BY <1>3, <1>7, DepthIs
<1>9. Goes("get_return", "move_return", e, value, words)
    BY <1>6, <1>8, InstructionIs DEF BInv
<1>10. DOMAIN words = Address /\ \A a \in Address : words[a] = memory[a]
    BY <1>5, <1>7
<1>11. ASSUME t \notin struck
       PROVE  Building(top, l)'
    <2>1. /\ memory[top - 4] = "after"
          /\ memory[top - 5] = l.regs["eax"]
        BY <1>1, <1>7, <1>11 DEF Building, eax
    <2>2. /\ words[top - 5] = l.regs["eax"]
          /\ value = "after"
        <3>1. cpu.esp + 1 = top - 4
            BY <1>7
        <3> QED BY <1>4, <1>5, <2>1, <3>1
    <2>3. cpu'.eip = "move_return" /\ memory' = words /\ regs'["eax"] = value
        BY <1>9 DEF Goes
    <2> QED BY <2>2, <2>3 DEF Building
<1> QED BY <1>1, <1>6, <1>7, <1>8, <1>10, <1>11, Builds

LEMMA MoveReturnStep ==
    ASSUME BInv, MoveReturn, UNCHANGED threads, UNCHANGED <<kernel, statement, tables, devices>>
    PROVE  BInv'
<1>1. cpu.eip = "move_return" /\ "move_return" \in BeforeSave /\ "move_esp" \in BeforeSave
    BY DEF MoveReturn, Instruction, At, BeforeSave
<1>who. PICK t \in Thread : \E top, l : Making(t, top, l)
    BY <1>1, MakingIs DEF BeforeSave
<1>2. PICK top, l : Making(t, top, l)
    BY <1>who
<1>3. PICK e : e = cpu.esp
    OBVIOUS
<1>4. PICK value : value = eax
    OBVIOUS
<1>5. PICK words : words = Store(cpu.esp - 1, <<eax>>)
    OBVIOUS
<1>6. Instruction("move_return", "move_esp", e, value, words)
    BY <1>3, <1>4, <1>5 DEF MoveReturn, Instruction
<1>7. /\ Started /\ t = current_thread /\ ThreadRuns(t) /\ top = Top(t) /\ l = left[t]
      /\ cpu.esp = top - 5 /\ top \in Int /\ DOMAIN memory = Address
      /\ l.enabled = cpu.enabled /\ cpu.enabled \in BOOLEAN
      /\ t \notin struck => Building(top, l)
    BY <1>1, <1>2, DepthIs DEF Making
<1>8. e \in Int /\ e = top - 5 /\ Depth["move_esp"] = 5
    BY <1>3, <1>7, DepthIs
<1>9. Goes("move_return", "move_esp", e, value, words)
    BY <1>6, <1>8, InstructionIs DEF BInv
<1>10. /\ DOMAIN words = Address
       /\ \A a \in Address : a < top - 20 \/ a >= top - 3 => words[a] = memory[a]
       /\ words[top - 6] = eax /\ words[top - 5] = memory[top - 5]
    <2>1. Tuple(<<eax>>, 1) /\ <<eax>>[1] = eax /\ words = Store(top - 6, <<eax>>)
        <3>1. cpu.esp - 1 = top - 6
            BY <1>7
        <3> QED BY <1>5, <3>1, Few
    <2>2. top - 6 \in Int /\ top - 6 \in Address /\ top - 5 \in Address
        BY <1>2, <1>7 DEF Making
    <2>3. /\ DOMAIN words = Address
          /\ \A a \in Address : a - (top - 6) + 1 \notin 1 .. 1 => words[a] = memory[a]
          /\ \A a \in Address : a - (top - 6) + 1 \in 1 .. 1
                 => words[a] = <<eax>>[a - (top - 6) + 1]
        BY <1>7, <2>1, <2>2, StoreIs
    <2>4. \A a \in Address : a \in Int
        BY Sizes
    <2>5. \A a \in Address : a # top - 6 => words[a] = memory[a]
        BY <1>7, <2>3, <2>4
    <2>6. words[top - 6] = eax
        <3>1. (top - 6) - (top - 6) + 1 = 1
            BY <1>7
        <3> QED BY <2>1, <2>2, <2>3, <3>1
    <2> QED BY <1>7, <2>2, <2>3, <2>4, <2>5, <2>6
<1>11. ASSUME t \notin struck
       PROVE  Building(top, l)'
    <2>1. /\ memory[top - 5] = l.regs["eax"]
          /\ eax = "after"
        BY <1>1, <1>7, <1>11 DEF Building, eax
    <2>2. /\ words[top - 5] = l.regs["eax"]
          /\ words[top - 6] = "after"
        BY <1>10, <2>1
    <2>3. cpu'.eip = "move_esp" /\ memory' = words /\ regs'["eax"] = value
        BY <1>9 DEF Goes
    <2> QED BY <2>2, <2>3 DEF Building
<1> QED BY <1>1, <1>6, <1>7, <1>8, <1>10, <1>11, Builds

LEMMA MoveEspStep ==
    ASSUME BInv, MoveEsp, UNCHANGED threads, UNCHANGED <<kernel, statement, tables, devices>>
    PROVE  BInv'
<1>1. cpu.eip = "move_esp" /\ "move_esp" \in BeforeSave /\ "push_flags" \in BeforeSave
    BY DEF MoveEsp, Instruction, At, BeforeSave
<1>who. PICK t \in Thread : \E top, l : Making(t, top, l)
    BY <1>1, MakingIs DEF BeforeSave
<1>2. PICK top, l : Making(t, top, l)
    BY <1>who
<1>3. PICK e : e = cpu.esp + 2
    OBVIOUS
<1>4. PICK value : value = eax
    OBVIOUS
<1>5. PICK words : words = memory
    OBVIOUS
<1>6. Instruction("move_esp", "push_flags", e, value, words)
    BY <1>3, <1>4, <1>5 DEF MoveEsp, Instruction
<1>7. /\ Started /\ t = current_thread /\ ThreadRuns(t) /\ top = Top(t) /\ l = left[t]
      /\ cpu.esp = top - 5 /\ top \in Int /\ DOMAIN memory = Address
      /\ l.enabled = cpu.enabled /\ cpu.enabled \in BOOLEAN
      /\ t \notin struck => Building(top, l)
    BY <1>1, <1>2, DepthIs DEF Making
<1>8. e \in Int /\ e = top - 3 /\ Depth["push_flags"] = 3
    BY <1>3, <1>7, DepthIs
<1>9. Goes("move_esp", "push_flags", e, value, words)
    BY <1>6, <1>8, InstructionIs DEF BInv
<1>10. DOMAIN words = Address /\ \A a \in Address : words[a] = memory[a]
    BY <1>5, <1>7
<1>11. ASSUME t \notin struck
       PROVE  Building(top, l)'
    <2>1. /\ memory[top - 5] = l.regs["eax"]
          /\ memory[top - 6] = "after"
        BY <1>1, <1>7, <1>11 DEF Building, eax
    <2>2. /\ words[top - 5] = l.regs["eax"]
          /\ words[top - 6] = "after"
        BY <1>4, <1>5, <2>1
    <2>3. cpu'.eip = "push_flags" /\ memory' = words /\ regs'["eax"] = value
        BY <1>9 DEF Goes
    <2> QED BY <2>2, <2>3 DEF Building
<1> QED BY <1>1, <1>6, <1>7, <1>8, <1>10, <1>11, Builds

LEMMA PushFlagsStep ==
    ASSUME BInv, PushFlags, UNCHANGED threads, UNCHANGED <<kernel, statement, tables, devices>>
    PROVE  BInv'
<1>1. cpu.eip = "push_flags" /\ "push_flags" \in BeforeSave /\ "restore_eax" \in BeforeSave
    BY DEF PushFlags, Instruction, At, BeforeSave
<1>who. PICK t \in Thread : \E top, l : Making(t, top, l)
    BY <1>1, MakingIs DEF BeforeSave
<1>2. PICK top, l : Making(t, top, l)
    BY <1>who
<1>3. PICK e : e = cpu.esp - 1
    OBVIOUS
<1>4. PICK value : value = eax
    OBVIOUS
<1>5. PICK words : words = Pushed(cpu.esp, <<Flags(cpu.enabled)>>)
    OBVIOUS
<1>6. Instruction("push_flags", "restore_eax", e, value, words)
    BY <1>3, <1>4, <1>5 DEF PushFlags, Instruction
<1>7. /\ Started /\ t = current_thread /\ ThreadRuns(t) /\ top = Top(t) /\ l = left[t]
      /\ cpu.esp = top - 3 /\ top \in Int /\ DOMAIN memory = Address
      /\ l.enabled = cpu.enabled /\ cpu.enabled \in BOOLEAN
      /\ t \notin struck => Building(top, l)
    BY <1>1, <1>2, DepthIs DEF Making
<1>8. e \in Int /\ e = top - 4 /\ Depth["restore_eax"] = 4
    BY <1>3, <1>7, DepthIs
<1>9. Goes("push_flags", "restore_eax", e, value, words)
    BY <1>6, <1>8, InstructionIs DEF BInv
<1>10. /\ DOMAIN words = Address
       /\ \A a \in Address : a < top - 20 \/ a >= top - 3 => words[a] = memory[a]
       /\ words[top - 3 - 1] = <<Flags(cpu.enabled)>>[1]
       /\ \A i \in 1 .. 3 : words[top - i] = memory[top - i]
       /\ \A i \in 1 .. 20 : i > 3 + 1 => words[top - i] = memory[top - i]
    <2>1. PICK seq : seq = <<Flags(cpu.enabled)>>
        OBVIOUS
    <2>2. Tuple(seq, 1) /\ words = Pushed(top - 3, seq)
        BY <1>5, <1>7, <2>1, Few
    <2>3. 3 \in 3 .. 6 /\ 1 \in 1 .. 14 /\ 3 + 1 <= 20 /\ 1 \in 1 .. 1
        OBVIOUS
    <2>4. Written(words, top, 3, seq, 1)
        BY <1>2, <2>2, <2>3, MakingWrites
    <2> QED BY <2>1, <2>3, <2>4 DEF Written
<1>11. ASSUME t \notin struck
       PROVE  Building(top, l)'
    <2>1. /\ memory[top - 5] = l.regs["eax"]
          /\ memory[top - 6] = "after"
        BY <1>1, <1>7, <1>11 DEF Building, eax
    <2>2. /\ words[top - 5] = l.regs["eax"]
          /\ words[top - 6] = "after"
          /\ (words[top - 4] = "IF") = l.enabled
        <3>1. words[top - 4] = Flags(cpu.enabled)
            <4>1. top - 3 - 1 = top - 4 /\ <<Flags(cpu.enabled)>>[1] = Flags(cpu.enabled)
                BY <1>7
            <4> QED BY <1>10, <4>1
        <3>2. (words[top - 4] = "IF") = l.enabled
            BY <1>7, <3>1 DEF Flags
        <3>3. words[top - 5] = memory[top - 5] /\ words[top - 6] = memory[top - 6]
            BY <1>10
        <3> QED BY <2>1, <3>2, <3>3
    <2>3. cpu'.eip = "restore_eax" /\ memory' = words /\ regs'["eax"] = value
        BY <1>9 DEF Goes
    <2> QED BY <2>2, <2>3 DEF Building
<1> QED BY <1>1, <1>6, <1>7, <1>8, <1>10, <1>11, Builds

LEMMA RestoreEaxStep ==
    ASSUME BInv, RestoreEax, UNCHANGED threads, UNCHANGED <<kernel, statement, tables, devices>>
    PROVE  BInv'
<1>1. cpu.eip = "restore_eax" /\ "restore_eax" \in BeforeSave /\ "push_cs" \in BeforeSave
    BY DEF RestoreEax, Instruction, At, BeforeSave
<1>who. PICK t \in Thread : \E top, l : Making(t, top, l)
    BY <1>1, MakingIs DEF BeforeSave
<1>2. PICK top, l : Making(t, top, l)
    BY <1>who
<1>3. PICK e : e = cpu.esp
    OBVIOUS
<1>4. PICK value : value = memory[cpu.esp - 1]
    OBVIOUS
<1>5. PICK words : words = memory
    OBVIOUS
<1>6. Instruction("restore_eax", "push_cs", e, value, words)
    BY <1>3, <1>4, <1>5 DEF RestoreEax, Instruction
<1>7. /\ Started /\ t = current_thread /\ ThreadRuns(t) /\ top = Top(t) /\ l = left[t]
      /\ cpu.esp = top - 4 /\ top \in Int /\ DOMAIN memory = Address
      /\ l.enabled = cpu.enabled /\ cpu.enabled \in BOOLEAN
      /\ t \notin struck => Building(top, l)
    BY <1>1, <1>2, DepthIs DEF Making
<1>8. e \in Int /\ e = top - 4 /\ Depth["push_cs"] = 4
    BY <1>3, <1>7, DepthIs
<1>9. Goes("restore_eax", "push_cs", e, value, words)
    BY <1>6, <1>8, InstructionIs DEF BInv
<1>10. DOMAIN words = Address /\ \A a \in Address : words[a] = memory[a]
    BY <1>5, <1>7
<1>11. ASSUME t \notin struck
       PROVE  Building(top, l)'
    <2>1. /\ memory[top - 5] = l.regs["eax"]
          /\ memory[top - 6] = "after"
          /\ (memory[top - 4] = "IF") = l.enabled
        BY <1>1, <1>7, <1>11 DEF Building, eax
    <2>2. /\ value = l.regs["eax"]
          /\ words[top - 6] = "after"
          /\ (words[top - 4] = "IF") = l.enabled
        <3>1. cpu.esp - 1 = top - 5
            BY <1>7
        <3> QED BY <1>4, <1>5, <2>1, <3>1
    <2>3. cpu'.eip = "push_cs" /\ memory' = words /\ regs'["eax"] = value
        BY <1>9 DEF Goes
    <2> QED BY <2>2, <2>3 DEF Building
<1> QED BY <1>1, <1>6, <1>7, <1>8, <1>10, <1>11, Builds

LEMMA PushCSStep ==
    ASSUME BInv, PushCS, UNCHANGED threads, UNCHANGED <<kernel, statement, tables, devices>>
    PROVE  BInv'
<1>1. cpu.eip = "push_cs" /\ "push_cs" \in BeforeSave /\ "cover_return" \in BeforeSave
    BY DEF PushCS, Instruction, At, BeforeSave
<1>who. PICK t \in Thread : \E top, l : Making(t, top, l)
    BY <1>1, MakingIs DEF BeforeSave
<1>2. PICK top, l : Making(t, top, l)
    BY <1>who
<1>3. PICK e : e = cpu.esp - 1
    OBVIOUS
<1>4. PICK value : value = eax
    OBVIOUS
<1>5. PICK words : words = Pushed(cpu.esp, <<"CS">>)
    OBVIOUS
<1>6. Instruction("push_cs", "cover_return", e, value, words)
    BY <1>3, <1>4, <1>5 DEF PushCS, Instruction
<1>7. /\ Started /\ t = current_thread /\ ThreadRuns(t) /\ top = Top(t) /\ l = left[t]
      /\ cpu.esp = top - 4 /\ top \in Int /\ DOMAIN memory = Address
      /\ l.enabled = cpu.enabled /\ cpu.enabled \in BOOLEAN
      /\ t \notin struck => Building(top, l)
    BY <1>1, <1>2, DepthIs DEF Making
<1>8. e \in Int /\ e = top - 5 /\ Depth["cover_return"] = 5
    BY <1>3, <1>7, DepthIs
<1>9. Goes("push_cs", "cover_return", e, value, words)
    BY <1>6, <1>8, InstructionIs DEF BInv
<1>10. /\ DOMAIN words = Address
       /\ \A a \in Address : a < top - 20 \/ a >= top - 3 => words[a] = memory[a]
       /\ words[top - 4 - 1] = <<"CS">>[1]
       /\ \A i \in 1 .. 4 : words[top - i] = memory[top - i]
       /\ \A i \in 1 .. 20 : i > 4 + 1 => words[top - i] = memory[top - i]
    <2>1. PICK seq : seq = <<"CS">>
        OBVIOUS
    <2>2. Tuple(seq, 1) /\ words = Pushed(top - 4, seq)
        BY <1>5, <1>7, <2>1, Few
    <2>3. 4 \in 3 .. 6 /\ 1 \in 1 .. 14 /\ 4 + 1 <= 20 /\ 1 \in 1 .. 1
        OBVIOUS
    <2>4. Written(words, top, 4, seq, 1)
        BY <1>2, <2>2, <2>3, MakingWrites
    <2> QED BY <2>1, <2>3, <2>4 DEF Written
<1>11. ASSUME t \notin struck
       PROVE  Building(top, l)'
    <2>1. /\ eax = l.regs["eax"]
          /\ memory[top - 6] = "after"
          /\ (memory[top - 4] = "IF") = l.enabled
        BY <1>1, <1>7, <1>11 DEF Building, eax
    <2>2. /\ value = l.regs["eax"]
          /\ words[top - 6] = "after"
          /\ (words[top - 4] = "IF") = l.enabled
        <3>1. words[top - 4] = memory[top - 4] /\ words[top - 6] = memory[top - 6]
            BY <1>10
        <3> QED BY <1>4, <2>1, <3>1
    <2>3. cpu'.eip = "cover_return" /\ memory' = words /\ regs'["eax"] = value
        BY <1>9 DEF Goes
    <2> QED BY <2>2, <2>3 DEF Building
<1> QED BY <1>1, <1>6, <1>7, <1>8, <1>10, <1>11, Builds

LEMMA CoverReturnStep ==
    ASSUME BInv, CoverReturn, UNCHANGED threads, UNCHANGED <<kernel, statement, tables, devices>>
    PROVE  BInv'
<1>1. cpu.eip = "cover_return" /\ "cover_return" \in BeforeSave /\ "save" \in BeforeSave
    BY DEF CoverReturn, Instruction, At, BeforeSave
<1>who. PICK t \in Thread : \E top, l : Making(t, top, l)
    BY <1>1, MakingIs DEF BeforeSave
<1>2. PICK top, l : Making(t, top, l)
    BY <1>who
<1>3. PICK e : e = cpu.esp - 1
    OBVIOUS
<1>4. PICK value : value = eax
    OBVIOUS
<1>5. PICK words : words = memory
    OBVIOUS
<1>6. Instruction("cover_return", "save", e, value, words)
    BY <1>3, <1>4, <1>5 DEF CoverReturn, Instruction
<1>7. /\ Started /\ t = current_thread /\ ThreadRuns(t) /\ top = Top(t) /\ l = left[t]
      /\ cpu.esp = top - 5 /\ top \in Int /\ DOMAIN memory = Address
      /\ l.enabled = cpu.enabled /\ cpu.enabled \in BOOLEAN
      /\ t \notin struck => Building(top, l)
    BY <1>1, <1>2, DepthIs DEF Making
<1>8. e \in Int /\ e = top - 6 /\ Depth["save"] = 6
    BY <1>3, <1>7, DepthIs
<1>9. Goes("cover_return", "save", e, value, words)
    BY <1>6, <1>8, InstructionIs DEF BInv
<1>10. DOMAIN words = Address /\ \A a \in Address : words[a] = memory[a]
    BY <1>5, <1>7
<1>11. ASSUME t \notin struck
       PROVE  Building(top, l)'
    <2>1. /\ eax = l.regs["eax"]
          /\ memory[top - 6] = "after"
          /\ (memory[top - 4] = "IF") = l.enabled
        BY <1>1, <1>7, <1>11 DEF Building, eax
    <2>2. /\ value = l.regs["eax"]
          /\ words[top - 6] = "after"
          /\ (words[top - 4] = "IF") = l.enabled
        BY <1>4, <1>5, <2>1
    <2>3. cpu'.eip = "save" /\ memory' = words /\ regs'["eax"] = value
        BY <1>9 DEF Goes
    <2> QED BY <2>2, <2>3 DEF Building
<1> QED BY <1>1, <1>6, <1>7, <1>8, <1>10, <1>11, Builds

LEMMA SaveStep ==
    ASSUME BInv, Save, UNCHANGED threads, UNCHANGED <<kernel, statement, tables, devices>>
    PROVE  BInv'
<1>1. PICK seq : seq = <<"0", "0">> \o Saved(regs)
    OBVIOUS
<1>2. Tuple(seq, 14) /\ Len(seq) = 14 /\ \A r \in Register : seq[2 + Place(r)] = regs[r]
    BY <1>1, SaveIs, TupleLen
<1>3. PICK e : e = cpu.esp - 14
    OBVIOUS
<1>4. PICK value : value = eax
    OBVIOUS
<1>5. PICK words : words = Pushed(cpu.esp, seq)
    OBVIOUS
<1>6. Instruction("save", "store_esp", e, value, words)
    <2>1. Instruction("save", "store_esp", cpu.esp - Len(seq), eax, Pushed(cpu.esp, seq))
        BY <1>1 DEF Save, Instruction
    <2> QED BY <1>2, <1>3, <1>4, <1>5, <2>1 DEF Instruction
<1>7. cpu.eip = "save" /\ "save" \in BeforeSave
    BY <1>6 DEF Instruction, At, BeforeSave
<1>who. PICK t \in Thread : \E top, l : Making(t, top, l)
    BY <1>7, MakingIs DEF BeforeSave
<1>8. PICK top, l : Making(t, top, l)
    BY <1>who
<1>9. /\ Started /\ t = current_thread /\ ThreadRuns(t) /\ top = Top(t) /\ l = left[t]
      /\ cpu.esp = top - 6 /\ top \in Int /\ l.eip = "after"
      /\ \A r \in Register \ {"eax"} : regs[r] = l.regs[r]
      /\ t \notin struck => Building(top, l)
    BY <1>7, <1>8, DepthIs DEF Making
<1>10. e \in Int /\ e = top - 20 /\ Depth["store_esp"] = 20
    BY <1>3, <1>9, DepthIs
<1>11. Goes("save", "store_esp", e, value, words)
    BY <1>6, <1>10, InstructionIs DEF BInv
<1>12. Written(words, top, 6, seq, 14)
    <2>1. words = Pushed(top - 6, seq) /\ 6 \in 3 .. 6 /\ 14 \in 1 .. 14 /\ 6 + 14 <= 20
        BY <1>5, <1>9
    <2> QED BY <1>2, <1>8, <2>1, MakingWrites
<1>13. ASSUME t \notin struck
       PROVE  Building(top, l)'
    <2>1. /\ regs["eax"] = l.regs["eax"] /\ memory[top - 6] = "after"
          /\ (memory[top - 4] = "IF") = l.enabled
        BY <1>7, <1>9, <1>13 DEF Building
    <2>2. words[top - 4] = memory[top - 4] /\ words[top - 6] = memory[top - 6]
        BY <1>12 DEF Written
    <2>3. \A r \in Register : words[top - 8 - Place(r)] = l.regs[r]
        <3> SUFFICES ASSUME NEW r \in Register
                     PROVE  words[top - 8 - Place(r)] = l.regs[r]
            OBVIOUS
        <3>1. 2 + Place(r) \in 1 .. 14 /\ top - 6 - (2 + Place(r)) = top - 8 - Place(r)
            BY <1>9, Registers
        <3>2. words[top - 8 - Place(r)] = seq[2 + Place(r)]
            BY <1>12, <3>1 DEF Written
        <3> QED BY <1>2, <1>9, <2>1, <3>2
    <2>4. cpu'.eip = "store_esp" /\ memory' = words
        BY <1>11 DEF Goes
    <2>5. Frame(top, l)'
        BY <1>9, <2>1, <2>2, <2>3, <2>4 DEF Frame
    <2> QED BY <2>4, <2>5 DEF Building
<1>14. /\ DOMAIN words = Address
       /\ \A a \in Address : a < top - 20 \/ a >= top - 3 => words[a] = memory[a]
    BY <1>12 DEF Written
<1> QED BY <1>6, <1>7, <1>9, <1>10, <1>13, <1>14, Builds

LEMMA MakeFrameStep ==
    ASSUME BInv, MakeFrame, UNCHANGED <<kernel, statement, tables, devices>>
    PROVE  BInv'
    BY PushEaxStep, GetReturnStep, MoveReturnStep, MoveEspStep, PushFlagsStep, RestoreEaxStep,
       PushCSStep, CoverReturnStep, SaveStep DEF MakeFrame

(* A step that writes nothing and leaves all frames to their threads.      *)
LEMMA FramesStay ==
    ASSUME BInv, memory' = memory, tcb' = tcb, left' = left, struck' = struck,
           current_thread' = current_thread,
           cpu'.eip \in {"load_next", "set_current", "load_esp", "restore"} =>
               \/ cpu.eip \in {"load_next", "set_current", "load_esp", "restore"}
               \/ current_thread = None
    PROVE  FramesInv'
    BY DEF BInv, FramesInv, Away, Parked, Top, Leaves, Frame

LEMMA CompareStep ==
    ASSUME BInv, Compare, UNCHANGED <<kernel, statement, tables, devices>>
    PROVE  BInv'
<1>1. PICK e : e = cpu.esp
    OBVIOUS
<1>2. PICK value : value = eax
    OBVIOUS
<1>3. PICK words : words = memory
    OBVIOUS
<1>4. PICK next : next = IF current_thread = None THEN "load_only" ELSE "push_eax"
    OBVIOUS
<1>5. Instruction("switch", next, e, value, words) /\ UNCHANGED threads
    BY <1>1, <1>2, <1>3, <1>4 DEF Compare, Instruction
<1>6. e \in Int /\ DOMAIN words = Address /\ cpu.eip = "switch"
    BY <1>1, <1>3, <1>5 DEF Instruction, At, BInv, Typed, Processor
<1>7. Goes("switch", next, e, value, words)
    BY <1>5, <1>6, InstructionIs DEF BInv
<1>8. CASE current_thread = None
    <2>1. Started /\ MainRuns
        BY <1>6, <1>8, Running, Sizes
    <2>2. heap' = heap /\ ready' = ready /\ tcb' = tcb /\ current_thread' = current_thread
        BY <1>5 DEF threads
    <2>3. Typed' /\ TablesInv' /\ StacksInv' /\ Started'
        <3>1. tcb \in [Thread -> [stack : Int, esp : Int]]
            BY DEF BInv, Typed
        <3> QED BY <1>5, <1>6, <2>1, <2>2, <3>1, Switching
    <2>4. /\ cpu'.eip = "load_only" /\ cpu'.esp = cpu.esp /\ memory' = memory
          /\ left' = left /\ struck' = struck
        BY <1>1, <1>3, <1>4, <1>7, <1>8 DEF Goes
    <2>5. FramesInv'
        BY <2>2, <2>4, FramesStay
    <2>6. MainRuns'
        BY <1>6, <2>1, <2>3, <2>4 DEF MainRuns
    <2> QED BY <1>8, <2>2, <2>3, <2>5, <2>6 DEF BInv, RunsInv
<1>9. CASE current_thread # None
    <2>who. PICK t \in Thread : \E top, l : Making(t, top, l)
        <3>1. cpu.eip \in BeforeSave
            BY <1>6 DEF BeforeSave
        <3> QED BY <1>9, <3>1, MakingIs
    <2>1. PICK top, l : Making(t, top, l)
        BY <2>who
    <2>2. /\ Started /\ t = current_thread /\ ThreadRuns(t) /\ top = Top(t) /\ l = left[t]
          /\ cpu.esp = top - 4 /\ top \in Int
          /\ t \notin struck => Building(top, l)
        BY <1>6, <2>1, DepthIs DEF Making
    <2>3. e = top - Depth["push_eax"] /\ next = "push_eax"
        BY <1>1, <1>4, <1>9, <2>2, DepthIs
    <2>4. "switch" \in BeforeSave /\ "push_eax" \in BeforeSave
        BY DEF BeforeSave
    <2>5. ASSUME t \notin struck
          PROVE  Building(top, l)'
        <3>1. memory[top - 4] = "after" /\ regs["eax"] = l.regs["eax"]
            BY <1>6, <2>2, <2>5 DEF Building
        <3>2. cpu'.eip = "push_eax" /\ memory' = memory /\ regs'["eax"] = regs["eax"]
            BY <1>2, <1>3, <1>7, <2>3 DEF Goes, eax
        <3> QED BY <3>1, <3>2 DEF Building
    <2>6. \A a \in Address : words[a] = memory[a]
        BY <1>3
    <2> QED BY <1>5, <1>6, <2>2, <2>3, <2>4, <2>5, <2>6, Builds
<1> QED BY <1>8, <1>9

LEMMA StoreEspStep ==
    ASSUME BInv, StoreEsp, UNCHANGED <<kernel, statement, tables, devices>>
    PROVE  BInv'
<1>1. PICK e : e = cpu.esp
    OBVIOUS
<1>2. PICK value : value = current_thread
    OBVIOUS
<1>3. PICK words : words = memory
    OBVIOUS
<1>4. Instruction("store_esp", "load_next", e, value, words)
    BY <1>1, <1>2, <1>3 DEF StoreEsp, Instruction
<1>5. e \in Int /\ DOMAIN words = Address /\ cpu.eip = "store_esp"
    BY <1>1, <1>3, <1>4 DEF Instruction, At, BInv, Typed, Processor
<1>6. Goes("store_esp", "load_next", e, value, words)
    BY <1>4, <1>5, InstructionIs DEF BInv
<1>7. /\ cpu'.eip = "load_next" /\ cpu'.esp = cpu.esp /\ memory' = memory
      /\ left' = left /\ struck' = struck
    BY <1>1, <1>3, <1>6 DEF Goes
<1>8. Started /\ current_thread \in Thread /\ ThreadRuns(current_thread)
    BY <1>5, Running DEF MainRuns, OnOldStack
<1>9. PICK t \in Thread : t = current_thread
    BY <1>8
<1>10. PICK top : top = Top(t)
    OBVIOUS
<1>11. PICK l : l = left[t]
    OBVIOUS
<1>12. /\ cpu.esp = top - 20 /\ Leaves(top, l) /\ memory[top - 3] \in Thread
       /\ t \notin struck => Frame(top, l)
    <2>1. /\ cpu.esp = top - Depth["store_esp"] /\ Leaves(top, l) /\ memory[top - 3] \in Thread
          /\ t \notin struck => Building(top, l)
        BY <1>5, <1>8, <1>9, <1>10, <1>11 DEF ThreadRuns, BeforeLoad
    <2> QED BY <1>5, <2>1, DepthIs DEF Building
<1>13. /\ heap' = heap /\ ready' = ready /\ current_thread' = t
       /\ tcb' = [tcb EXCEPT ![t].esp = cpu.esp]
       /\ tcb \in [Thread -> [stack : Int, esp : Int]]
    BY <1>9 DEF StoreEsp, BInv, Typed
<1>14. /\ tcb'[t].esp = top - 20 /\ tcb'[t].stack = tcb[t].stack
       /\ \A u \in Thread \ {t} : tcb'[u] = tcb[u]
       /\ tcb' \in [Thread -> [stack : Int, esp : Int]]
    BY <1>1, <1>5, <1>12, <1>13
<1>15. Typed' /\ TablesInv' /\ StacksInv' /\ Started'
    BY <1>4, <1>5, <1>8, <1>13, <1>14, Switching
<1>16. Top(t)' = top /\ left'[t] = l
    BY <1>7, <1>10, <1>11, <1>14 DEF Top
<1>17. Parked(t)'
    <2>1. Leaves(top, l)' /\ (t \notin struck' => Frame(top, l)')
        BY <1>7, <1>12 DEF Leaves, Frame
    <2> QED BY <1>14, <1>16, <2>1 DEF Parked
<1>18. FramesInv'
    <2>1. ASSUME NEW u \in Thread, Away(u)'
          PROVE  Parked(u)'
        <3>1. Away(u) /\ u # t
            BY <1>7, <1>9, <1>13, <2>1 DEF Away
        <3>2. Parked(u) /\ tcb'[u] = tcb[u]
            BY <1>14, <3>1 DEF BInv, FramesInv
        <3> QED BY <1>7, <1>8, <1>9, <3>1, <3>2, OthersKept
    <2>2. Parked(current_thread)'
        BY <1>13, <1>17 DEF Parked, Top, Leaves, Frame
    <2> QED BY <2>1, <2>2 DEF FramesInv
<1>19. ThreadRuns(t)'
    <2>1. "load_next" \in DOMAIN Depth /\ Depth["load_next"] = 20
          /\ "load_next" \notin BeforeSave \cup {"store_esp"}
        BY DepthIs DEF BeforeLoad, BeforeSave
    <2> QED BY <1>7, <1>12, <1>16, <2>1 DEF ThreadRuns
<1>20. RunsInv'
    <2>1. ThreadRuns(current_thread)'
        BY <1>13, <1>19 DEF ThreadRuns, Top, Leaves, Building, Frame
    <2> QED BY <1>13, <1>15, <2>1 DEF RunsInv
<1> QED BY <1>15, <1>18, <1>20 DEF BInv

LEMMA LoadNextStep ==
    ASSUME BInv, LoadNext, UNCHANGED <<kernel, statement, tables, devices>>
    PROVE  BInv'
<1>1. PICK place \in {"load_next", "load_only"} :
          Instruction(place, "set_current", cpu.esp,
                      memory[cpu.esp + (IF place = "load_next" THEN 17 ELSE 1)], memory)
    <2>1. Len(REGS) = 17
        BY DEF REGS
    <2> QED BY <2>1 DEF LoadNext, Instruction
<1>2. PICK e : e = cpu.esp
    OBVIOUS
<1>3. PICK value : value = memory[cpu.esp + (IF place = "load_next" THEN 17 ELSE 1)]
    OBVIOUS
<1>4. PICK words : words = memory
    OBVIOUS
<1>5. Instruction(place, "set_current", e, value, words)
    BY <1>1, <1>2, <1>3, <1>4 DEF Instruction
<1>6. e \in Int /\ DOMAIN words = Address /\ cpu.eip = place
    BY <1>2, <1>4, <1>5 DEF Instruction, At, BInv, Typed, Processor
<1>7. Goes(place, "set_current", e, value, words)
    BY <1>5, <1>6, InstructionIs DEF BInv
<1>8. /\ cpu'.eip = "set_current" /\ cpu'.esp = cpu.esp /\ memory' = memory
      /\ left' = left /\ struck' = struck /\ regs'["eax"] = value
    BY <1>2, <1>4, <1>7 DEF Goes
<1>9. heap' = heap /\ ready' = ready /\ tcb' = tcb /\ current_thread' = current_thread
    BY DEF LoadNext, threads
<1>10. Started
    BY <1>6, Running
<1>11. Typed' /\ TablesInv' /\ StacksInv' /\ Started'
    <2>1. tcb \in [Thread -> [stack : Int, esp : Int]]
        BY DEF BInv, Typed
    <2> QED BY <1>5, <1>6, <1>9, <1>10, <2>1, Switching
<1>12. CASE place = "load_only"
    <2>1. current_thread = None /\ MainRuns
        <3>1. cpu.eip \notin DOMAIN Depth /\ cpu.eip \notin {"main", "astray", "load_esp"}
            BY <1>6, <1>12, DepthIs DEF BeforeLoad, BeforeSave
        <3> QED BY <3>1, Running DEF OnOldStack, ThreadRuns
    <2>2. cpu.esp = BootWords - 2 /\ memory[BootWords - 1] \in Thread
        BY <1>6, <1>12, <2>1 DEF MainRuns
    <2>3. value \in Thread
        <3>1. BootWords - 2 + 1 = BootWords - 1
            BY BootStack
        <3> QED BY <1>3, <1>12, <2>2, <3>1
    <2>4. MainRuns'
        BY <1>8, <1>11, <2>2, <2>3 DEF MainRuns
    <2>5. FramesInv'
        BY <1>8, <1>9, <2>1, FramesStay
    <2> QED BY <1>9, <1>11, <2>1, <2>4, <2>5 DEF BInv, RunsInv
<1>13. CASE place = "load_next"
    <2>1. current_thread \in Thread /\ ThreadRuns(current_thread)
        BY <1>6, <1>13, Running DEF MainRuns, OnOldStack
    <2>2. PICK t \in Thread : t = current_thread
        BY <2>1
    <2>3. PICK top : top = Top(t)
        OBVIOUS
    <2>4. cpu.esp = top - 20 /\ memory[top - 3] \in Thread /\ top \in Int
        <3>1. cpu.eip \in BeforeLoad /\ Depth["load_next"] = 20
            BY <1>6, <1>13, DepthIs DEF BeforeLoad
        <3>2. top \in Int
            BY <1>10, <2>3, OnStack
        <3> QED BY <1>6, <1>13, <2>1, <2>2, <2>3, <3>1, <3>2 DEF ThreadRuns
    <2>5. value \in Thread
        <3>1. top - 20 + 17 = top - 3
            BY <2>4
        <3> QED BY <1>3, <1>13, <2>4, <3>1
    <2>6. ThreadRuns(t)'
        <3>1. "set_current" \in DOMAIN Depth /\ Depth["set_current"] = 20
              /\ "set_current" \notin BeforeLoad \cup BeforeSave \cup {"store_esp"}
            BY DepthIs DEF BeforeLoad, BeforeSave
        <3>2. Top(t)' = top
            BY <1>9, <2>3 DEF Top
        <3> QED BY <1>8, <2>4, <2>5, <3>1, <3>2 DEF ThreadRuns
    <2>7. RunsInv'
        <3>1. ThreadRuns(current_thread)'
            BY <1>9, <2>2, <2>6 DEF ThreadRuns, Top, Leaves, Building, Frame
        <3> QED BY <1>9, <1>11, <2>1, <3>1 DEF RunsInv
    <2>8. FramesInv'
        BY <1>6, <1>8, <1>9, <1>13, FramesStay
    <2> QED BY <1>11, <2>7, <2>8 DEF BInv
<1> QED BY <1>12, <1>13

LEMMA SetCurrentStep ==
    ASSUME BInv, SetCurrent, UNCHANGED <<kernel, statement, tables, devices>>
    PROVE  BInv'
<1>1. PICK e : e = cpu.esp
    OBVIOUS
<1>2. PICK value : value = regs["eax"]
    OBVIOUS
<1>3. PICK words : words = memory
    OBVIOUS
<1>4. Instruction("set_current", "load_esp", e, value, words)
    BY <1>1, <1>2, <1>3 DEF SetCurrent, Instruction, eax
<1>5. e \in Int /\ DOMAIN words = Address /\ cpu.eip = "set_current"
    BY <1>1, <1>3, <1>4 DEF Instruction, At, BInv, Typed, Processor
<1>6. Goes("set_current", "load_esp", e, value, words)
    BY <1>4, <1>5, InstructionIs DEF BInv
<1>7. /\ cpu'.eip = "load_esp" /\ cpu'.esp = cpu.esp /\ memory' = memory
      /\ left' = left /\ struck' = struck /\ regs'["eax"] = value
    BY <1>1, <1>3, <1>6 DEF Goes
<1>8. heap' = heap /\ ready' = ready /\ tcb' = tcb /\ current_thread' = value
    BY <1>2 DEF SetCurrent, eax
<1>9. /\ Started
      /\ \/ current_thread = None /\ MainRuns
         \/ current_thread \in Thread /\ current_thread # None /\ ThreadRuns(current_thread)
    BY <1>5, Running DEF OnOldStack
<1>10. Typed' /\ TablesInv' /\ StacksInv' /\ Started'
    <2>1. tcb \in [Thread -> [stack : Int, esp : Int]]
        BY DEF BInv, Typed
    <2> QED BY <1>4, <1>5, <1>8, <1>9, <2>1, Switching
<1>11. /\ value \in Thread
       /\ cpu.esp = BootWords - 2 \/ \E t \in Thread : cpu.esp = Top(t) - 20
    <2>1. CASE MainRuns
        BY <1>2, <1>5, <2>1 DEF MainRuns
    <2>2. CASE current_thread \in Thread /\ ThreadRuns(current_thread)
        <3>1. Depth["set_current"] = 20
            BY DepthIs
        <3>2. cpu.esp = Top(current_thread) - 20 /\ regs["eax"] \in Thread
            BY <1>5, <2>2, <3>1 DEF ThreadRuns
        <3>3. \E t \in Thread : cpu.esp = Top(t) - 20
            BY <2>2, <3>2
        <3> QED BY <1>2, <3>2, <3>3
    <2> QED BY <1>9, <2>1, <2>2
<1>12. \A u \in Thread : Parked(u)
    <2> SUFFICES ASSUME NEW u \in Thread
                 PROVE  Parked(u)
        OBVIOUS
    <2>1. left[u].eip # "nowhere"
        BY <1>9, AllMade DEF BInv
    <2>2. CASE u # current_thread
        BY <2>1, <2>2 DEF Away, BInv, FramesInv
    <2>3. CASE u = current_thread
        BY <1>5, <1>9, <2>3, Sizes DEF BInv, FramesInv
    <2> QED BY <2>2, <2>3
<1>13. \A u \in Thread : Parked(u)'
    BY <1>7, <1>8, <1>12 DEF Parked, Top, Leaves, Frame
<1>14. FramesInv'
    <2>1. Parked(current_thread)'
        <3>1. PICK u \in Thread : u = value
            BY <1>11
        <3>2. Parked(u)'
            BY <1>13
        <3> QED BY <1>8, <3>1, <3>2 DEF Parked, Top, Leaves, Frame
    <2> QED BY <1>13, <2>1 DEF FramesInv
<1>15. OnOldStack'
    <2>1. \A t \in Thread : Top(t)' = Top(t)
        BY <1>8 DEF Top
    <2>2. cpu'.esp = BootWords - 2 \/ \E t \in Thread : cpu'.esp = Top(t)' - 20
        BY <1>7, <1>11, <2>1
    <2> QED BY <1>7, <1>8, <2>2 DEF OnOldStack
<1>16. RunsInv'
    BY <1>8, <1>10, <1>11, <1>15 DEF RunsInv
<1> QED BY <1>10, <1>14, <1>16 DEF BInv

LEMMA LoadEspStep ==
    ASSUME BInv, LoadEsp, UNCHANGED <<kernel, statement, tables, devices>>
    PROVE  BInv'
<1>1. /\ cpu.eip = "load_esp" /\ UNCHANGED threads
    BY DEF LoadEsp, Instruction, At
<1>2. Started /\ current_thread \in Thread /\ OnOldStack
    <2>1. cpu.eip \notin DOMAIN Depth
        BY <1>1, DepthIs DEF BeforeLoad, BeforeSave
    <2> QED BY <1>1, <2>1, Running DEF MainRuns, ThreadRuns
<1>3. PICK t \in Thread : t = current_thread
    BY <1>2
<1>4. eax = t
    BY <1>2, <1>3 DEF OnOldStack, eax
<1>5. PICK top : top = Top(t)
    OBVIOUS
<1>6. Parked(t) /\ current_thread # None
    BY <1>1, <1>2, <1>3, Sizes DEF BInv, FramesInv
<1>7. tcb[t].esp = top - 20 /\ top \in Int
    BY <1>2, <1>5, <1>6, OnStack DEF Parked
<1>8. PICK e : e = tcb[t].esp
    OBVIOUS
<1>9. PICK words : words = memory
    OBVIOUS
<1>10. Instruction("load_esp", "restore", e, t, words)
    BY <1>4, <1>8, <1>9 DEF LoadEsp, Instruction
<1>11. e \in Int /\ DOMAIN words = Address
    BY <1>7, <1>8, <1>9 DEF BInv, Typed
<1>12. Goes("load_esp", "restore", e, t, words)
    BY <1>10, <1>11, InstructionIs DEF BInv
<1>13. /\ cpu'.eip = "restore" /\ cpu'.esp = top - 20 /\ memory' = memory
       /\ left' = left /\ struck' = struck
    BY <1>7, <1>8, <1>9, <1>12 DEF Goes
<1>14. heap' = heap /\ ready' = ready /\ tcb' = tcb /\ current_thread' = current_thread
    BY <1>1 DEF threads
<1>15. Typed' /\ TablesInv' /\ StacksInv' /\ Started'
    <2>1. tcb \in [Thread -> [stack : Int, esp : Int]]
        BY DEF BInv, Typed
    <2> QED BY <1>2, <1>10, <1>11, <1>14, <2>1, Switching
<1>16. FramesInv'
    BY <1>1, <1>13, <1>14, FramesStay
<1>17. ThreadRuns(t)'
    <2>1. "restore" \in DOMAIN Depth /\ Depth["restore"] = 20
          /\ "restore" \notin BeforeLoad \cup BeforeSave \cup {"store_esp"}
        BY DepthIs DEF BeforeLoad, BeforeSave
    <2>2. Top(t)' = top
        BY <1>5, <1>14 DEF Top
    <2> QED BY <1>13, <2>1, <2>2 DEF ThreadRuns
<1>18. RunsInv'
    <2>1. ThreadRuns(current_thread)'
        BY <1>3, <1>14, <1>17 DEF ThreadRuns, Top, Leaves, Building, Frame
    <2> QED BY <1>2, <1>14, <1>15, <2>1 DEF RunsInv
<1> QED BY <1>15, <1>16, <1>18 DEF BInv

(* The processor leaves the switch or works in C, where memory stays.      *)
LEMMA Resumes ==
    ASSUME BInv, Started, current_thread \in Thread, Processor(cpu'),
           regs' = [r \in Register |-> regs'[r]], memory' = memory,
           UNCHANGED <<kernel, statement, tables, devices, threads, int_no, history>>,
           cpu'.eip \notin {"load_next", "set_current", "load_esp", "restore"},
           cpu'.eip = "astray" \/ ThreadRuns(current_thread)'
    PROVE  BInv'
<1>1. /\ heap' = heap /\ ready' = ready /\ tcb' = tcb /\ current_thread' = current_thread
      /\ left' = left /\ struck' = struck /\ int_no' = int_no
      /\ UNCHANGED <<kernel, statement, tables, devices>>
    BY DEF threads, history
<1>2. Typed' /\ TablesInv' /\ StacksInv' /\ Started'
    <2>1. /\ DOMAIN memory = Address /\ heap \in Int /\ ready \in Seq(Thread)
          /\ tcb \in [Thread -> [stack : Int, esp : Int]] /\ left = [t \in Thread |-> left[t]]
        BY DEF BInv, Typed
    <2>2. \A t \in Thread : left[t].eip # "nowhere"
        BY AllMade DEF BInv
    <2> QED BY <1>1, <2>1, <2>2, Settled
<1>3. FramesInv'
    BY <1>1, FramesStay
<1>4. RunsInv'
    BY <1>1, <1>2 DEF RunsInv
<1> QED BY <1>2, <1>3, <1>4 DEF BInv

LEMMA RestoreStep ==
    ASSUME BInv, Restore, UNCHANGED <<kernel, statement, tables, devices>>
    PROVE  BInv'
<1>1. /\ cpu.eip = "restore" /\ memory' = memory
      /\ UNCHANGED <<threads, int_no, history>>
    BY DEF Restore, At
<1>2. /\ heap' = heap /\ ready' = ready /\ tcb' = tcb /\ current_thread' = current_thread
      /\ left' = left /\ struck' = struck
    BY <1>1 DEF threads, history
<1>3. Started /\ current_thread \in Thread /\ current_thread # None /\ ThreadRuns(current_thread)
    BY <1>1, Running DEF MainRuns, OnOldStack
<1>4. PICK t \in Thread : t = current_thread
    BY <1>3
<1>5. PICK top : top = Top(t)
    OBVIOUS
<1>6. PICK l : l = left[t]
    OBVIOUS
<1>7. top \in Int /\ cpu.esp = top - 20
    <2>1. Depth["restore"] = 20
        BY DepthIs
    <2> QED BY <1>1, <1>3, <1>4, <1>5, <2>1, OnStack DEF ThreadRuns
<1>8. Leaves(top, l) /\ (t \notin struck => Frame(top, l))
    <2>1. Parked(t)
        BY <1>1, <1>3, <1>4 DEF BInv, FramesInv
    <2> QED BY <1>5, <1>6, <2>1 DEF Parked
<1>9. PICK p : p = Popped(top - 20)
    OBVIOUS
<1>10. /\ p = [regs    |-> [r \in Register |-> memory[top - 8 - Place(r)]],
               eip     |-> memory[top - 6],
               enabled |-> memory[top - 4] = "IF",
               esp     |-> top - 3]
    BY <1>7, <1>9, PoppedIs
<1>11. /\ p.enabled \in BOOLEAN /\ p.esp = top - 3 /\ p.regs = [r \in Register |-> p.regs[r]]
    BY <1>10
<1>12. PICK place : place = IF t \in struck THEN "astray" ELSE p.eip
    OBVIOUS
<1>13. cpu' = [eip |-> place, esp |-> top - 3, enabled |-> p.enabled] /\ regs' = p.regs
    <2>1. /\ cpu' = [eip |-> IF current_thread \in struck THEN "astray" ELSE p.eip,
                     esp |-> p.esp, enabled |-> p.enabled]
          /\ regs' = p.regs
        BY <1>7, <1>9 DEF Restore
    <2> QED BY <1>4, <1>11, <1>12, <2>1
<1>14. Processor(cpu') /\ cpu'.eip = place /\ cpu'.esp = top - 3
    BY <1>7, <1>11, <1>13 DEF Processor
<1>15. place = "astray" \/ ThreadRuns(t)'
    <2> SUFFICES ASSUME t \notin struck
                 PROVE  ThreadRuns(t)'
        BY <1>12
    <2>1. Frame(top, l) /\ p = l
        <3>1. Frame(top, l)
            BY <1>8
        <3> QED BY <1>7, <1>8, <1>9, <3>1, Returns
    <2>2. place = l.eip /\ l.eip \in {"thread_start", "after"}
          /\ (l.eip = "thread_start" => memory[top - 3] = "fun")
        BY <1>8, <1>12, <2>1 DEF Leaves, Frame
    <2>3. /\ "thread_start" \in DOMAIN Depth /\ Depth["thread_start"] = 3
          /\ "after" \in DOMAIN Depth /\ Depth["after"] = 3
          /\ \A q \in {"thread_start", "after"} : q \notin BeforeLoad \cup BeforeSave
                                                           \cup {"store_esp"}
        BY DepthIs DEF BeforeLoad, BeforeSave
    <2>4. Top(t)' = top
        BY <1>2, <1>5 DEF Top
    <2> QED BY <1>1, <1>14, <2>2, <2>3, <2>4 DEF ThreadRuns
<1>16. cpu'.eip = "astray" \/ ThreadRuns(current_thread)'
    BY <1>2, <1>4, <1>14, <1>15 DEF ThreadRuns, Top, Leaves, Building, Frame
<1>17. cpu'.eip \notin {"load_next", "set_current", "load_esp", "restore"}
    <2>1. t \notin struck => p.eip \in {"thread_start", "after"}
        <3> SUFFICES ASSUME t \notin struck
                     PROVE  p.eip \in {"thread_start", "after"}
            OBVIOUS
        <3>1. Frame(top, l)
            BY <1>8
        <3>2. p = l
            BY <1>7, <1>8, <1>9, <3>1, Returns
        <3> QED BY <1>8, <3>2 DEF Leaves
    <2> QED BY <1>12, <1>14, <2>1
<1> QED BY <1>1, <1>3, <1>11, <1>13, <1>14, <1>16, <1>17, Resumes

LEMMA ThreadStartStep ==
    ASSUME BInv, ThreadStart, UNCHANGED <<kernel, statement, tables, devices>>
    PROVE  BInv'
<1>1. /\ cpu.eip = "thread_start" /\ memory' = memory /\ regs' = regs
      /\ UNCHANGED <<threads, int_no, history>>
      /\ cpu' = [eip |-> memory[cpu.esp], esp |-> cpu.esp + 1, enabled |-> TRUE]
    BY DEF ThreadStart, At
<1>2. tcb' = tcb /\ current_thread' = current_thread
    BY <1>1 DEF threads
<1>3. Started /\ current_thread \in Thread /\ ThreadRuns(current_thread)
    BY <1>1, Running DEF MainRuns, OnOldStack
<1>4. PICK t \in Thread : t = current_thread
    BY <1>3
<1>5. PICK top : top = Top(t)
    OBVIOUS
<1>6. top \in Int /\ cpu.esp = top - 3 /\ memory[top - 3] = "fun"
    <2>1. Depth["thread_start"] = 3
        BY DepthIs
    <2> QED BY <1>1, <1>3, <1>4, <1>5, <2>1, OnStack DEF ThreadRuns
<1>7. cpu' = [eip |-> "fun", esp |-> top - 2, enabled |-> TRUE]
    <2>1. top - 3 + 1 = top - 2
        BY <1>6
    <2> QED BY <1>1, <1>6, <2>1
<1>8. Processor(cpu') /\ cpu'.eip = "fun" /\ cpu'.esp = top - 2
    BY <1>6, <1>7 DEF Processor
<1>9. ThreadRuns(t)'
    <2>1. /\ "fun" \in DOMAIN Depth /\ Depth["fun"] = 2
          /\ "fun" \notin BeforeLoad \cup BeforeSave \cup {"store_esp"}
        BY DepthIs DEF BeforeLoad, BeforeSave
    <2>2. Top(t)' = top
        BY <1>2, <1>5 DEF Top
    <2> QED BY <1>8, <2>1, <2>2 DEF ThreadRuns
<1>10. ThreadRuns(current_thread)'
    BY <1>2, <1>4, <1>9 DEF ThreadRuns, Top, Leaves, Building, Frame
<1>11. regs' = [r \in Register |-> regs'[r]]
    BY <1>1 DEF BInv, Typed
<1> QED BY <1>1, <1>3, <1>8, <1>10, <1>11, Resumes

LEMMA ReturnStep ==
    ASSUME BInv, ReturnFromDispatch, UNCHANGED <<kernel, statement, tables, devices>>
    PROVE  BInv'
<1>1. /\ cpu.eip = "after" /\ memory' = memory /\ regs' = regs
      /\ UNCHANGED <<threads, int_no, history>>
      /\ cpu' = [cpu EXCEPT !.eip = "fun", !.esp = @ + 1]
    BY DEF ReturnFromDispatch, At
<1>2. tcb' = tcb /\ current_thread' = current_thread
    BY <1>1 DEF threads
<1>3. Started /\ current_thread \in Thread /\ ThreadRuns(current_thread)
    BY <1>1, Running DEF MainRuns, OnOldStack
<1>4. PICK t \in Thread : t = current_thread
    BY <1>3
<1>5. PICK top : top = Top(t)
    OBVIOUS
<1>6. top \in Int /\ cpu.esp = top - 3
    <2>1. Depth["after"] = 3
        BY DepthIs
    <2> QED BY <1>1, <1>3, <1>4, <1>5, <2>1, OnStack DEF ThreadRuns
<1>7. PICK e \in Int : e = top - 2
    BY <1>6
<1>8. cpu' = Moved(cpu, "fun", e)
    <2>1. cpu.esp + 1 = e
        BY <1>6, <1>7
    <2>2. cpu' = [cpu EXCEPT !.eip = "fun", !.esp = cpu.esp + 1]
        BY <1>1
    <2> QED BY <2>1, <2>2 DEF Moved
<1>9. Processor(cpu') /\ cpu'.eip = "fun" /\ cpu'.esp = top - 2
    BY <1>7, <1>8, Proceeds DEF BInv, Typed
<1>10. ThreadRuns(t)'
    <2>1. /\ "fun" \in DOMAIN Depth /\ Depth["fun"] = 2
          /\ "fun" \notin BeforeLoad \cup BeforeSave \cup {"store_esp"}
        BY DepthIs DEF BeforeLoad, BeforeSave
    <2>2. Top(t)' = top
        BY <1>2, <1>5 DEF Top
    <2> QED BY <1>9, <2>1, <2>2 DEF ThreadRuns
<1>11. ThreadRuns(current_thread)'
    BY <1>2, <1>4, <1>10 DEF ThreadRuns, Top, Leaves, Building, Frame
<1>12. regs' = [r \in Register |-> regs'[r]]
    BY <1>1 DEF BInv, Typed
<1> QED BY <1>1, <1>3, <1>9, <1>11, <1>12, Resumes

LEMMA PassOnStep ==
    ASSUME BInv, PassOnCPU, UNCHANGED <<kernel, statement, tables, devices>>
    PROVE  BInv'
<1>1. cpu.eip = "fun" /\ tcb' = tcb /\ current_thread' = current_thread /\ int_no' = int_no
      /\ struck' = struck /\ heap' = heap + NodeWords
    BY DEF PassOnCPU, At, Allocated
<1>2. Started /\ current_thread \in Thread /\ ThreadRuns(current_thread)
    BY <1>1, Running DEF MainRuns, OnOldStack
<1>3. PICK t \in Thread : t = current_thread
    BY <1>2
<1>4. PICK top : top = Top(t)
    OBVIOUS
<1>5. top \in Int /\ cpu.esp = top - 2 /\ \A i \in 1 .. 20 : top - i \in Address
    <2>1. Depth["fun"] = 2
        BY DepthIs
    <2>2. top \in Int /\ \A a \in Int : top - 20 <= a /\ a < top => a \in Address
        BY <1>2, <1>4, OnStack
    <2>3. ASSUME NEW i \in 1 .. 20
          PROVE  top - i \in Address
        <3>1. top - i \in Int /\ top - 20 <= top - i /\ top - i < top
            BY <2>2
        <3> QED BY <2>2, <3>1
    <2> QED BY <1>1, <1>2, <1>3, <1>4, <2>1, <2>2, <2>3 DEF ThreadRuns
<1>6. PICK queue : queue = Append(ready, current_thread)
    OBVIOUS
<1>7. PICK h : h = Head(queue)
    OBVIOUS
<1>8. queue \in Seq(Thread) /\ queue # <<>> /\ h \in Thread /\ Tail(queue) \in Seq(Thread)
    <2>1. ready \in Seq(Thread)
        BY DEF BInv, Typed
    <2>2. queue \in Seq(Thread) /\ Len(queue) = Len(ready) + 1 /\ Len(ready) \in Nat
        BY <1>2, <1>6, <2>1
    <2>3. queue # <<>>
        BY <2>2
    <2> QED BY <1>7, <2>2, <2>3
<1>9. /\ ready' = Tail(queue) /\ memory' = Pushed(cpu.esp, <<h, "after">>)
      /\ cpu' = [cpu EXCEPT !.eip = "switch", !.esp = @ - 2]
    BY <1>6, <1>7 DEF PassOnCPU, DispatchTo
<1>10. PICK own : own = Own(current_thread)
    OBVIOUS
<1>11. own = [r \in Register |-> own[r]]
    BY <1>10 DEF Own
<1>12. PICK f \in BOOLEAN : f = cpu.enabled
    BY DEF BInv, Typed, Processor
<1>13. PICK l : l = [eip |-> "after", esp |-> top - 3, enabled |-> f, regs |-> own]
    OBVIOUS
<1>14. regs' = own /\ left' = [left EXCEPT ![t] = l]
    <2>1. cpu.esp - 1 = top - 3
        BY <1>5
    <2> QED BY <1>3, <1>10, <1>12, <1>13, <2>1 DEF PassOnCPU
<1>15. /\ left'[t] = l /\ \A u \in Thread \ {t} : left'[u] = left[u]
       /\ left' = [u \in Thread |-> left'[u]]
    <2>1. left = [u \in Thread |-> left[u]]
        BY DEF BInv, Typed
    <2> QED BY <1>14, <2>1
<1>16. PICK e \in Int : e = top - 4
    BY <1>5
<1>17. cpu' = Moved(cpu, "switch", e)
    <2>1. cpu.esp - 2 = e
        BY <1>5, <1>16
    <2>2. cpu' = [cpu EXCEPT !.eip = "switch", !.esp = cpu.esp - 2]
        BY <1>9
    <2> QED BY <2>1, <2>2 DEF Moved
<1>18. Processor(cpu') /\ cpu'.eip = "switch" /\ cpu'.esp = top - 4 /\ cpu'.enabled = f
    BY <1>12, <1>16, <1>17, Proceeds DEF BInv, Typed
<1>19. PICK seq : seq = <<h, "after">>
    OBVIOUS
<1>20. /\ DOMAIN memory' = Address /\ memory'[top - 3] = h /\ memory'[top - 4] = "after"
       /\ \A a \in Address : a < top - 20 \/ a >= top => memory'[a] = memory[a]
    <2>1. Tuple(seq, 2) /\ seq[1] = h /\ seq[2] = "after"
        BY <1>19, Few
    <2>2. DOMAIN memory = Address /\ top - 2 \in Int /\ memory' = Pushed(top - 2, seq)
        <3>1. DOMAIN memory = Address
            BY DEF BInv, Typed
        <3>2. memory' = Pushed(cpu.esp, seq)
            BY <1>9, <1>19
        <3>3. top - 2 \in Int /\ cpu.esp = top - 2
            BY <1>5
        <3> QED BY <3>1, <3>2, <3>3
    <2>3. Writes(memory', top - 2, seq, 2)
        BY <2>1, <2>2, PushedIs
    <2>4. \A a \in Address : a \in Int
        BY Sizes
    <2>5. /\ top - 2 - 1 = top - 3 /\ top - 2 - 2 = top - 4
          /\ top - 3 \in Address /\ top - 4 \in Address /\ 1 \in 1 .. 2 /\ 2 \in 1 .. 2
        BY <1>5
    <2>6. memory'[top - 3] = h /\ memory'[top - 4] = "after"
        BY <2>1, <2>3, <2>5 DEF Writes
    <2>7. \A a \in Address : a < top - 20 \/ a >= top => memory'[a] = memory[a]
        BY <1>5, <2>3, <2>4 DEF Writes
    <2> QED BY <2>3, <2>6, <2>7 DEF Writes
<1>21. Typed' /\ TablesInv' /\ StacksInv' /\ Started'
    <2>1. /\ heap' \in Int /\ tcb' \in [Thread -> [stack : Int, esp : Int]]
        <3>1. NodeWords \in Int /\ heap \in Int
            BY Sizes DEF BInv, Typed
        <3> QED BY <1>1, <3>1 DEF BInv, Typed
    <2>2. regs' = [r \in Register |-> regs'[r]]
        BY <1>11, <1>14
    <2>3. \A u \in Thread : left'[u].eip # "nowhere"
        <3> SUFFICES ASSUME NEW u \in Thread
                     PROVE  left'[u].eip # "nowhere"
            OBVIOUS
        <3>1. left[u].eip # "nowhere" /\ l.eip # "nowhere"
            BY <1>2, <1>13, AllMade DEF BInv
        <3> QED BY <1>15, <3>1
    <2> QED BY <1>1, <1>2, <1>8, <1>9, <1>15, <1>18, <1>20, <2>1, <2>2, <2>3, Settled
<1>22. FramesInv'
    <2>1. ASSUME NEW u \in Thread, Away(u)'
          PROVE  Parked(u)'
        <3>1. u # t /\ left'[u] = left[u] /\ Away(u)
            BY <1>1, <1>3, <1>15, <2>1 DEF Away
        <3>2. Parked(u)
            BY <3>1 DEF BInv, FramesInv
        <3>3. \A a \in Address : a < Top(t) - 20 \/ a >= Top(t) => memory'[a] = memory[a]
            BY <1>4, <1>20
        <3> QED BY <1>1, <1>2, <3>1, <3>2, <3>3, OthersKept
    <2> QED BY <1>18, <2>1 DEF FramesInv
<1>23. Top(t)' = top
    BY <1>1, <1>4 DEF Top
<1>24. Leaves(top, l)' /\ l.eip = "after" /\ l.enabled = f /\ l.regs = own
    BY <1>11, <1>13 DEF Leaves
<1>25. Building(top, l)'
    BY <1>14, <1>18, <1>20, <1>24 DEF Building
<1>26. ThreadRuns(t)'
    <2>1. "switch" \in DOMAIN Depth /\ Depth["switch"] = 4
        BY DepthIs DEF BeforeLoad, BeforeSave
    <2> QED BY <1>8, <1>14, <1>15, <1>18, <1>20, <1>23, <1>24, <1>25, <2>1 DEF ThreadRuns
<1>27. RunsInv'
    <2>1. ThreadRuns(current_thread)'
        BY <1>1, <1>3, <1>26 DEF ThreadRuns, Top, Leaves, Building, Frame
    <2> QED BY <1>1, <1>2, <1>21, <2>1 DEF RunsInv
<1> QED BY <1>21, <1>22, <1>27 DEF BInv

LEMMA RunStep ==
    ASSUME BInv, Threads
    PROVE  BInv'
    BY ThreadStartStep, PassOnStep, ReturnStep, CompareStep, MakeFrameStep, StoreEspStep,
       LoadNextStep, SetCurrentStep, LoadEspStep, RestoreStep DEF Threads, Run

-----------------------------------------------------------------------------
(* The invariant holds                                                     *)

LEMMA InitInv == Init => BInv
<1> SUFFICES ASSUME Init
             PROVE  BInv
    OBVIOUS
<1>1. /\ kernel \in Kernels /\ statement = 1
      /\ exceptions = [v \in Exception |-> "none"] /\ interrupts = [l \in Line |-> "none"]
      /\ pic = [c \in 1 .. 2 |-> Chip] /\ paging = {}
      /\ memory = [a \in Address |-> "unknown"] /\ heap = 0
      /\ tcb = [t \in Thread |-> [stack |-> 0, esp |-> 0]]
      /\ current_thread = None /\ ready = <<>>
      /\ cpu = [eip |-> "main", esp |-> BootWords, enabled |-> FALSE]
      /\ regs = [r \in Register |-> IF r \in Segments THEN "DS" ELSE "main"]
      /\ int_no = "32" /\ left = [t \in Thread |-> [eip |-> "nowhere"]]
    BY DEF Init
<1>2. Many \in Nat \ {0} /\ BootWords \in Int /\ \A i \in 1 .. Many : ThreadOrder[i] \in Thread
    BY Sizes, BootStack
<1>3. \A t \in Thread : left[t].eip = "nowhere"
    BY <1>1
<1>4. Typed
    <2>1. Processor(cpu)
        BY <1>1, <1>2 DEF Processor
    <2>2. left = [t \in Thread |-> left[t]] /\ regs = [r \in Register |-> regs[r]]
        BY <1>1
    <2> QED BY <1>1, <2>1, <2>2 DEF Typed
<1>5. TablesInv
    <2>1. Timed \in {9, 10} /\ Ready \in {11, 14}
        BY DEF Timed, Ready
    <2> QED BY <1>1, <2>1 DEF TablesInv
<1>6. StacksInv
    <2>1. ASSUME NEW i \in 1 .. Many
          PROVE  /\ ~(statement = 13 + 2 * i) /\ ~(statement = 14 + 2 * i)
                 /\ ~Stacked(i) /\ ~Made(i) /\ left[ThreadOrder[i]].eip = "nowhere"
        BY <1>1, <1>2, <1>3 DEF Stacked, Made
    <2>2. statement \notin 10 .. 12 /\ statement # 13 /\ statement # 14
        BY <1>1
    <2> QED BY <2>1, <2>2 DEF StacksInv
<1>7. FramesInv
    BY <1>1, <1>3 DEF FramesInv, Away
<1>8. RunsInv
    BY <1>1, <1>2 DEF RunsInv, MainRuns, Started
<1> QED BY <1>4, <1>5, <1>6, <1>7, <1>8 DEF BInv

LEMMA NextInv == BInv /\ [Next]_vars => BInv'
<1>1. ASSUME BInv, Next
      PROVE  BInv'
    BY <1>1, TablesStep, HandlerStep, DeviceStep, PagingStep, ElsewhereStep, StiStep,
       ReferenceStep, ThreadsStep, TickStep, RunStep DEF Next
<1>2. ASSUME BInv, UNCHANGED vars
      PROVE  BInv'
    <2>1. /\ kernel' = kernel /\ statement' = statement /\ gdt' = gdt /\ idt' = idt
          /\ exceptions' = exceptions /\ interrupts' = interrupts /\ pic' = pic /\ pit' = pit
          /\ paging' = paging /\ memory' = memory /\ cpu' = cpu /\ regs' = regs
          /\ heap' = heap /\ tcb' = tcb /\ current_thread' = current_thread /\ ready' = ready
          /\ int_no' = int_no /\ left' = left /\ struck' = struck
        BY <1>2 DEF vars, tables, devices, switches, machine, threads, history
    <2>2. Typed' /\ TablesInv'
        BY <1>2, <2>1 DEF BInv, Typed, TablesInv, Timed, Ready
    <2>3. StacksInv' /\ FramesInv'
        BY <1>2, <2>1 DEF BInv, StacksInv, Stacked, Made, FramesInv, Away, Parked, Top,
                          Leaves, Frame
    <2>4. RunsInv'
        BY <1>2, <2>1 DEF BInv, RunsInv, MainRuns, OnOldStack, ThreadRuns, Building, Started,
                          Top, Leaves, Frame
    <2> QED BY <2>2, <2>3, <2>4 DEF BInv
<1> QED BY <1>1, <1>2

(* The inductive invariant: what main has set up by the statement it has   *)
(* come to, and what the stacks hold by the instruction that the processor *)
(* has come to, of every state of the kernel.                              *)
THEOREM Invariance == Spec => []BInv
<1> QED BY InitInv, NextInv, PTL DEF Spec

-----------------------------------------------------------------------------
(* What the tables say                                                     *)

LEMMA FlatCode == IsCode(GDT_init, 8) /\ IsData(GDT_init, 16)
<1>1. /\ LowHalf(0) = 0 /\ HighHalf(0) = 0 /\ 0 % 256 = 0 /\ 0 \div 256 = 0
      /\ 65535 % 16 = 15 /\ (207 \div 16) * 16 = 192 /\ (15 + 192) % 16 = 15
    BY DEF LowHalf, HighHalf, Half
<1>2. /\ Segment(0, Whole, 154, 207) = [base_low |-> 0, base_middle |-> 0, base_high |-> 0,
             limit_low |-> 65535, granularity |-> 207, access |-> 154]
      /\ Segment(0, Whole, 146, 207) = [base_low |-> 0, base_middle |-> 0, base_high |-> 0,
             limit_low |-> 65535, granularity |-> 207, access |-> 146]
    BY <1>1 DEF Segment, Whole, Half, Byte
<1>3. /\ DOMAIN GDT_init = 0 .. 2 /\ GDT_init[1] = Segment(0, Whole, 154, 207)
      /\ GDT_init[2] = Segment(0, Whole, 146, 207)
    BY DEF GDT_init
<1>4. ASSUME NEW s, NEW a, s = [base_low |-> 0, base_middle |-> 0, base_high |-> 0,
                                limit_low |-> 65535, granularity |-> 207, access |-> a]
      PROVE  Flat(s) /\ s.access = a
    BY <1>1, <1>4 DEF Flat, Base, Limit, Half, Byte
<1>5. 8 % 8 = 0 /\ 8 \div 8 = 1 /\ 16 % 8 = 0 /\ 16 \div 8 = 2
    OBVIOUS
<1> QED BY <1>2, <1>3, <1>4, <1>5 DEF IsCode, IsData, FlatSegment

LEMMA GateIs ==
    ASSUME NEW v \in Vector, NEW g, g = Gate(Stub(v), 8, 142)
    PROVE  g.flags = 142 /\ g.sel = 8 /\ g.base_lo + Half * g.base_hi = Stub(v)
<1>1. PICK w : w = Stub(v)
    OBVIOUS
<1>2. w \in Nat /\ w < 20 * 65536
    BY <1>1 DEF Stub, Half, Vector
<1>3. (w % 65536) + 65536 * ((w \div 65536) % 65536) = w
    <2>1. w \div 65536 \in 0 .. 19
        BY <1>2
    <2>2. (w \div 65536) % 65536 = w \div 65536
        BY <2>1
    <2> QED BY <1>2, <2>2
<1>4. g = [base_lo |-> w % 65536, base_hi |-> (w \div 65536) % 65536, sel |-> 8,
           always0 |-> 0, flags |-> 142]
    BY <1>1 DEF Gate, LowHalf, HighHalf, Half
<1> QED BY <1>1, <1>3, <1>4 DEF Half

(* The divisor survives its two bytes, and dividing the clock by it gives  *)
(* the frequency back.                                                     *)
LEMMA TimerRate == Frequency(set_frequency(Hz)) = Hz
<1>1. PICK h : h = Hz
    OBVIOUS
<1>2. PICK d : d = InputClock \div h
    OBVIOUS
<1>3. h \in Nat \ {0} /\ h * h <= 1193180 /\ d = 1193180 \div h /\ d < 65536
    BY <1>1, <1>2, BootAssumption DEF InputClock, Half
<1>4. d \in Nat /\ h * d <= 1193180 /\ 1193180 < h * d + h
    BY <1>3
<1>5. h <= d
    <2> SUFFICES ASSUME d <= h - 1
                 PROVE  FALSE
        BY <1>3, <1>4
    <2>1. h * d <= h * (h - 1)
        BY <1>3, <1>4
    <2>2. h * (h - 1) = h * h - h
        BY <1>3
    <2> QED BY <1>3, <1>4, <2>1, <2>2
<1>6. (d % 256) + 256 * ((d \div 256) % 256) = d
    <2>1. d \div 256 \in 0 .. 255
        BY <1>3, <1>4
    <2>2. (d \div 256) % 256 = d \div 256
        BY <2>1
    <2> QED BY <1>4, <2>2
<1>7. 1193180 \div d = h
    <2>1. d \in Nat \ {0}
        BY <1>3, <1>4, <1>5
    <2>2. d * h <= 1193180 /\ 1193180 < d * h + d
        BY <1>3, <1>4, <1>5
    <2>3. PICK r \in Nat : r < d /\ 1193180 = d * h + r
        <3>1. d * h \in Int
            BY <1>3, <2>1
        <3>2. 1193180 - d * h \in Nat /\ 1193180 - d * h < d
            BY <2>1, <2>2, <3>1
        <3> QED BY <3>1, <3>2
    <2> QED BY <1>3, <2>1, <2>3
<1>8. set_frequency(Hz) = [low |-> d % 256, high |-> (d \div 256) % 256]
    BY <1>1, <1>2 DEF set_frequency, Byte
<1>9. Frequency(set_frequency(Hz)) = 1193180 \div ((d % 256) + 256 * ((d \div 256) % 256))
    BY <1>8 DEF Frequency, Byte, InputClock
<1> QED BY <1>1, <1>6, <1>7, <1>9

-----------------------------------------------------------------------------
(* The properties                                                          *)

LEMMA ServedInv == BInv => InterruptsAreServed
<1> SUFFICES ASSUME BInv
             PROVE  InterruptsAreServed
    OBVIOUS
<1>1. ASSUME cpu.enabled
      PROVE  /\ \A l \in Line : /\ VectorOf(pic, l) = IRQ_BASE + l
                                /\ Reaches(gdt, idt, VectorOf(pic, l))
             /\ \A v \in Exception : Reaches(gdt, idt, v)
             /\ IsData(gdt, DataSelector) /\ Wired(pic)
             /\ interrupts[0] = "SimpleTimer" /\ Frequency(pit) = Hz
    <2>1. statement \in Nat /\ statement > Ready
        BY <1>1 DEF BInv, TablesInv, Typed
    <2>2. statement > 6 /\ statement > Timed + 1
        BY <2>1 DEF Ready, Timed
    <2>3. /\ gdt = GDT_init /\ pic = Remapped /\ pit = set_frequency(Hz)
          /\ interrupts[0] = "SimpleTimer"
          /\ \A v \in Exception : idt[v] = Gate(Stub(v), 8, 142)
          /\ \A l \in Line : idt[IRQ_BASE + l] = Gate(Stub(IRQ_BASE + l), 8, 142)
        <3>1. Timed \in Int
            BY DEF Timed
        <3>2. statement > 1 /\ statement > 4 /\ statement > 5 /\ statement > Timed
            BY <2>1, <2>2, <3>1
        <3> QED BY <2>2, <3>2 DEF BInv, TablesInv
    <2>4. ASSUME NEW v \in Vector, idt[v] = Gate(Stub(v), 8, 142)
          PROVE  Reaches(gdt, idt, v)
        <3>1. idt[v].flags = 142 /\ idt[v].sel = 8
              /\ idt[v].base_lo + Half * idt[v].base_hi = Stub(v)
            BY <2>4, GateIs
        <3> QED BY <2>3, <3>1, FlatCode DEF Reaches
    <2>5. \A v \in Exception : Reaches(gdt, idt, v)
        <3>1. Exception \subseteq Vector
            BY DEF Exception, Vector
        <3> QED BY <2>3, <2>4, <3>1
    <2>6. \A l \in Line : VectorOf(pic, l) = IRQ_BASE + l /\ Reaches(gdt, idt, VectorOf(pic, l))
        <3> SUFFICES ASSUME NEW l \in Line
                     PROVE  VectorOf(pic, l) = IRQ_BASE + l
                            /\ Reaches(gdt, idt, VectorOf(pic, l))
            OBVIOUS
        <3>1. pic[1].base = 32 /\ pic[2].base = 40
            BY <2>3 DEF Remapped
        <3>2. VectorOf(pic, l) = IRQ_BASE + l
            BY <3>1 DEF VectorOf, IRQ_BASE, Line
        <3>3. PICK v \in Vector : v = IRQ_BASE + l
            BY DEF IRQ_BASE, Line, Vector
        <3> QED BY <2>3, <2>4, <3>2, <3>3
    <2>7. IsData(gdt, DataSelector) /\ Wired(pic)
        <3>1. IsData(gdt, DataSelector)
            BY <2>3, FlatCode DEF DataSelector
        <3>2. Wired(pic)
            BY <2>3 DEF Wired, Remapped
        <3> QED BY <3>1, <3>2
    <2> QED BY <2>3, <2>5, <2>6, <2>7, TimerRate
<1>2. "enable_paging" \in paging =>
          {"init_paging", "load"} \subseteq paging /\ exceptions[14] # "none"
    <2>1. statement \in Nat
        BY DEF BInv, Typed
    <2> QED BY <2>1 DEF BInv, TablesInv
<1>3. int_no = "32" /\ cpu.eip \notin {"abort", "assert"}
    <2>1. \A p \in DOMAIN Depth : p \notin {"abort", "assert"}
        BY DepthIs DEF BeforeLoad, BeforeSave
    <2> QED BY <2>1 DEF BInv, Typed, RunsInv, MainRuns, OnOldStack, ThreadRuns
<1> QED BY <1>1, <1>2, <1>3 DEF InterruptsAreServed

(* From sti on, in main and in every thread, every line and every          *)
(* exception reaches its stub, the timer has its rate and its handler, and *)
(* page faults have theirs before paging is on: gdt.C, idt.C, exceptions.C,*)
(* interrupts.C, irq.C and simple_timer.C in the order of main.            *)
THEOREM EveryInterruptIsServed == Spec => []InterruptsAreServed
<1> QED BY Invariance, ServedInv, PTL

LEMMA IntactInv == BInv => ContextsIntact
<1> SUFFICES ASSUME BInv, NEW t \in Thread, Away(t), t \notin struck
             PROVE  ComesBack(t)
    BY DEF ContextsIntact
<1>1. PICK top : top = Top(t)
    OBVIOUS
<1>2. PICK l : l = left[t]
    OBVIOUS
<1>3. tcb[t].esp = top - 20 /\ Leaves(top, l) /\ Frame(top, l)
    BY <1>1, <1>2 DEF BInv, FramesInv, Parked
<1>4. top \in Int
    BY <1>1, Placement DEF BInv, Away, Placed
<1>5. Popped(tcb[t].esp) = l
    BY <1>3, <1>4, Returns
<1>6. ASSUME l.eip = "thread_start"
      PROVE  \A i \in 1 .. 3 : memory[l.esp + i - 1] = <<"fun", "thread_shutdown", "0">>[i]
    <2>1. l.esp = top - 3
        BY <1>3 DEF Leaves
    <2>2. /\ memory[top - 3] = "fun" /\ memory[top - 2] = "thread_shutdown"
          /\ memory[top - 1] = "0"
        BY <1>3, <1>6 DEF Frame
    <2>3. /\ top - 3 + 1 - 1 = top - 3 /\ top - 3 + 2 - 1 = top - 2 /\ top - 3 + 3 - 1 = top - 1
        BY <1>4
    <2>4. ASSUME NEW i \in 1 .. 3
          PROVE  memory[top - 3 + i - 1] = <<"fun", "thread_shutdown", "0">>[i]
        <3>1. i = 1 \/ i = 2 \/ i = 3
            OBVIOUS
        <3> QED BY <2>2, <2>3, <3>1
    <2> QED BY <2>1, <2>4
<1> QED BY <1>2, <1>5, <1>6 DEF ComesBack

(* A thread that does not run comes back exactly as it left, however many  *)
(* ticks and switches there are between, unless a tick struck it in the    *)
(* window of threads_low_switch_to: the frames of setup_context and of     *)
(* threads_low.asm stay above everything that is pushed meanwhile.         *)
THEOREM EveryContextIsIntact == Spec => []ContextsIntact
<1> QED BY Invariance, IntactInv, PTL

LEMMA OwnStackInv == BInv => OwnStack
<1> SUFFICES ASSUME BInv, current_thread # None, cpu.eip # "load_esp", cpu.eip # "astray",
                    NEW t, t = current_thread
             PROVE  /\ cpu.esp - (IF cpu.enabled THEN Room ELSE 0)
                           \in tcb[t].stack .. (tcb[t].stack + StackWords) - 2
                    /\ At("fun") => cpu.esp = (tcb[t].stack + StackWords) - 2
                    /\ \A u \in Thread \ {t} :
                           tcb[u].stack \notin tcb[t].stack .. (tcb[t].stack + StackWords) - 1
    BY DEF OwnStack, At
<1>1. t \in Thread /\ Started /\ ThreadRuns(t)
    BY DEF BInv, RunsInv, OnOldStack
<1>2. PICK top : top = Top(t)
    OBVIOUS
<1>3. PICK s : s = tcb[t].stack
    OBVIOUS
<1>4. /\ StackWords \in Nat /\ HandlerWords \in Nat /\ StackWords >= 37 + HandlerWords
      /\ Room = 17 + HandlerWords
    BY Sizes
<1>5. s \in Int /\ top = s + StackWords
    BY <1>1, <1>2, <1>3 DEF Top, BInv, Typed
<1>6. PICK d \in 2 .. 20 : cpu.esp = top - d /\ (cpu.eip = "fun" => d = 2)
    BY <1>1, <1>2, DepthIs DEF ThreadRuns
<1>7. cpu.esp - (IF cpu.enabled THEN Room ELSE 0) \in s .. (s + StackWords) - 2
    BY <1>4, <1>5, <1>6
<1>8. At("fun") => cpu.esp = (s + StackWords) - 2
    BY <1>5, <1>6 DEF At
<1>9. ASSUME NEW u \in Thread \ {t}
      PROVE  tcb[u].stack \notin s .. (s + StackWords) - 1
    <2>1. Apart(t, u)
        BY <1>1, <1>9, AllMade, Separation DEF BInv
    <2>2. PICK v : v = tcb[u].stack
        OBVIOUS
    <2>3. v \in Int /\ Top(u) = v + StackWords
        BY <1>9, <2>2 DEF BInv, Typed, Top
    <2>4. v + StackWords <= s \/ s + StackWords <= v
        BY <1>2, <1>4, <1>5, <2>1, <2>3 DEF Apart
    <2> QED BY <1>4, <1>5, <2>2, <2>3, <2>4
<1> QED BY <1>3, <1>7, <1>8, <1>9

(* A thread that runs stays on its own stack, needs no more of it from one *)
(* switch to the next, and has room for an interrupt wherever one can come *)
(* in; no other stack begins within it.                                    *)
THEOREM EveryThreadHasItsStack == Spec => []OwnStack
<1> QED BY Invariance, OwnStackInv, PTL
==============================================================================
