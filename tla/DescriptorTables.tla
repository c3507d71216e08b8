---------------------------- MODULE DescriptorTables ----------------------------
(***************************************************************************)
(* What stands between an interrupt and its handler: the segment and the   *)
(* interrupt descriptors that gdt.C, idt.C, exceptions.C and interrupts.C  *)
(* encode, the commands with which irq.C and simple_timer.C program the    *)
(* controllers and the timer, and what the hardware makes of them.  A      *)
(* 32-bit limit is a pair of its halves.                                   *)
(***************************************************************************)
EXTENDS Integers

Half == 65536
Byte == 256

LowHalf(w)  == w % Half
HighHalf(w) == (w \div Half) % Half

CodeSelector == 8     \* Machine::KERNEL_CS
DataSelector == 16    \* Machine::KERNEL_DS

-----------------------------------------------------------------------------
(* Segments                                                                *)

NoSegment == [limit_low |-> 0, base_low |-> 0, base_middle |-> 0, access |-> 0,
              granularity |-> 0, base_high |-> 0]

Segment(base, limit, access, gran) ==
    [base_low    |-> LowHalf(base),
     base_middle |-> HighHalf(base) % Byte,
     base_high   |-> HighHalf(base) \div Byte,
     limit_low   |-> limit.low,
     granularity |-> (limit.high % 16) + (gran \div 16) * 16,
     access      |-> access]

EmptyGDT == [n \in 0 .. 2 |-> NoSegment]

Whole == [high |-> Half - 1, low |-> Half - 1]

(* GDT::init: a null, a code and a data segment.                           *)
GDT_init == [n \in 0 .. 2 |-> CASE n = 0 -> Segment(0, [high |-> 0, low |-> 0], 0, 0)
                                [] n = 1 -> Segment(0, Whole, 154, 207)
                                [] n = 2 -> Segment(0, Whole, 146, 207)]

(* What the processor reads.                                               *)
Base(s)  == s.base_low + Half * (s.base_middle + Byte * s.base_high)
Limit(s) == s.limit_low + Half * (s.granularity % 16)

Flat(s) == Base(s) = 0 /\ Limit(s) = 16 * Half - 1 /\ s.granularity >= 128

FlatSegment(gdt, selector, access) ==
    /\ selector % 8 = 0 /\ selector \div 8 \in DOMAIN gdt
    /\ Flat(gdt[selector \div 8]) /\ gdt[selector \div 8].access = access

IsCode(gdt, selector) == FlatSegment(gdt, selector, 154)
IsData(gdt, selector) == FlatSegment(gdt, selector, 146)

-----------------------------------------------------------------------------
(* Gates.  The stubs are code, above the first megabyte, one behind the    *)
(* other; entries from 48 on stay as IDT::init leaves them.                *)

Vector    == 0 .. 47
IRQ_BASE  == 32
Exception == 0 .. 31
Line      == 0 .. 15

Stub(v) == 16 * Half + 65500 + 10 * v

NoGate == [base_lo |-> 0, sel |-> 0, always0 |-> 0, flags |-> 0, base_hi |-> 0]

IDT_init == [v \in Vector |-> NoGate]

Gate(base, sel, flags) ==
    [base_lo |-> LowHalf(base), base_hi |-> HighHalf(base), sel |-> sel,
     always0 |-> 0, flags |-> flags]

ExceptionGates(idt) ==
    [v \in Vector |-> IF v \in Exception THEN Gate(Stub(v), 8, 142) ELSE idt[v]]

InterruptGates(idt) ==
    [v \in Vector |-> IF v - IRQ_BASE \in Line THEN Gate(Stub(v), 8, 142) ELSE idt[v]]

(* An interrupt through gate v clears the interrupt flag and runs the stub *)
(* of v: it is a present 32-bit interrupt gate into a flat code segment.   *)
Reaches(gdt, idt, v) ==
    /\ idt[v].flags = 142
    /\ idt[v].base_lo + Half * idt[v].base_hi = Stub(v)
    /\ IsCode(gdt, idt[v].sel)

-----------------------------------------------------------------------------
(* The controllers (8259).  A command with bit 4 set begins the sequence   *)
(* of vector offset, wiring and mode; after it the data port is the mask.  *)

Chip == [base |-> 8, wiring |-> 0, mask |-> 255, expects |-> "mask"]

Command(chip, data) == IF (data \div 16) % 2 = 1 THEN [chip EXCEPT !.expects = "base"] ELSE chip

Data(chip, data) ==
    CASE chip.expects = "base"   -> [chip EXCEPT !.base = (data \div 8) * 8, !.expects = "wiring"]
      [] chip.expects = "wiring" -> [chip EXCEPT !.wiring = data, !.expects = "mode"]
      [] chip.expects = "mode"   -> [chip EXCEPT !.expects = "mask"]
      [] OTHER                   -> [chip EXCEPT !.mask = data]

Takes(chip, port, data) ==
    IF port \in {32, 160} THEN Command(chip, data) ELSE Data(chip, data)

Out(pic, port, data) == [pic EXCEPT ![IF port \in {32, 33} THEN 1 ELSE 2] = Takes(@, port, data)]

irq_remap(pic) ==
    LET begun  == Out(Out(pic, 32, 17), 160, 17)
        offset == Out(Out(begun, 33, 32), 161, 40)
        wired  == Out(Out(offset, 33, 4), 161, 2)
        moded  == Out(Out(wired, 33, 1), 161, 1)
    IN Out(Out(moded, 33, 0), 161, 0)

IRQ_init(pic) == irq_remap(pic)

VectorOf(pic, line) == IF line < 8 THEN pic[1].base + line ELSE pic[2].base + line - 8

(* The second chip is wired to line 2 of the first, no line is masked.     *)
Wired(pic) == /\ pic[1].wiring = 4 /\ pic[2].wiring = 2
              /\ \A c \in 1 .. 2 : pic[c].mask = 0 /\ pic[c].expects = "mask"

-----------------------------------------------------------------------------
(* The timer chip counts InputClock down from the divisor it is sent, a    *)
(* byte at a time.                                                         *)

InputClock == 1193180

set_frequency(hz) ==
    [low  |-> (InputClock \div hz) % Byte,
     high |-> ((InputClock \div hz) \div Byte) % Byte]

Frequency(pit) == InputClock \div (pit.low + Byte * pit.high)
=============================================================================
