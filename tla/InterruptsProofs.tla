--------------------------- MODULE InterruptsProofs ---------------------------
(***************************************************************************)
(* Proofs about Interrupts, for any threads, kernels, lines, exceptions    *)
(* and lengths of the slice.                                               *)
(***************************************************************************)
EXTENDS Interrupts, SequenceTheorems, TLAPS

-----------------------------------------------------------------------------
(* Stacks of frames                                                        *)

Stacks == [Context -> Seq(Frame)]

(* Where a frame may be when another handler runs above it, or another     *)
(* thread: a handler is left only in a yield.                              *)
Settled(f) == f.at \in {"start", "yield", "switch", "end"}

AllSettled == \A c \in Context : \A k \in DOMAIN stack[c] : Settled(stack[c][k])

(* Every frame is settled but the innermost of the running thread.         *)
Quiet == \A c \in Context : \A k \in DOMAIN stack[c] :
             Settled(stack[c][k]) \/ (c = current /\ k = 1)

LEMMA Topmost ==
    ASSUME stack \in Stacks, current \in Context, stack[current] # <<>>
    PROVE  /\ Top \in Frame /\ Len(stack[current]) \in Nat \ {0}
           /\ DOMAIN stack[current] = 1 .. Len(stack[current])
           /\ 1 \in DOMAIN stack[current]
<1>1. stack[current] \in Seq(Frame)
    BY DEF Stacks
<1>2. Len(stack[current]) \in Nat \ {0} /\ DOMAIN stack[current] = 1 .. Len(stack[current])
    BY <1>1, EmptySeq, LenProperties
<1>3. Top \in Frame
    BY <1>1, <1>2, ElementOfSeq DEF Top
<1> QED BY <1>2, <1>3

LEMMA Entered ==
    ASSUME stack \in Stacks, current \in Context, NEW f \in Frame, current' = current,
           stack' = [stack EXCEPT ![current] = <<f>> \o @]
    PROVE  /\ stack' \in Stacks /\ stack'[current] # <<>> /\ Top' = f
           /\ Len(stack'[current]) = Len(stack[current]) + 1
           /\ \A c \in Context \ {current} : stack'[c] = stack[c]
           /\ AllSettled => Quiet'
<1> DEFINE s == stack[current]
           u == <<f>> \o s
<1>1. s \in Seq(Frame) /\ stack'[current] = u
    BY DEF Stacks
<1>2. <<f>> \in Seq(Frame) /\ Len(<<f>>) = 1 /\ <<f>>[1] = f
    OBVIOUS
<1>3. Len(s) \in Nat /\ DOMAIN s = 1 .. Len(s)
    BY <1>1, LenProperties
<1>4. /\ u \in Seq(Frame) /\ Len(u) = 1 + Len(s)
      /\ \A k \in 1 .. 1 + Len(s) : u[k] = IF k <= 1 THEN <<f>>[k] ELSE s[k - 1]
    BY <1>1, <1>2, ConcatProperties
<1>5. DOMAIN u = 1 .. 1 + Len(s)
    BY <1>3, <1>4, LenProperties
<1>6. u[1] = f /\ u # <<>>
    BY <1>2, <1>3, <1>4
<1>7. stack' \in Stacks /\ \A c \in Context \ {current} : stack'[c] = stack[c]
    BY <1>4 DEF Stacks
<1>8. ASSUME AllSettled PROVE Quiet'
    <2> SUFFICES ASSUME NEW c \in Context, NEW k \in DOMAIN stack'[c], ~(c = current /\ k = 1)
                 PROVE  Settled(stack'[c][k])
        BY DEF Quiet, Settled
    <2>1. CASE c = current
        <3>1. k - 1 \in DOMAIN s /\ u[k] = s[k - 1]
            BY <1>1, <1>3, <1>4, <1>5, <2>1
        <3> QED BY <1>1, <1>8, <2>1, <3>1 DEF AllSettled
    <2>2. CASE c # current
        BY <1>7, <1>8, <2>2 DEF AllSettled
    <2> QED BY <2>1, <2>2
<1> QED BY <1>1, <1>3, <1>4, <1>6, <1>7, <1>8 DEF Top

LEMMA Moved ==
    ASSUME stack \in Stacks, current \in Context, stack[current] # <<>>, Quiet,
           NEW place, [Top EXCEPT !.at = place] \in Frame, Goto(place)
    PROVE  /\ stack' \in Stacks /\ stack'[current] # <<>>
           /\ stack'[current][1] = [Top EXCEPT !.at = place]
           /\ Len(stack'[current]) = Len(stack[current])
           /\ \A c \in Context \ {current} : stack'[c] = stack[c]
           /\ current' = current => Quiet'
           /\ place \in {"start", "yield", "switch", "end"} => AllSettled'
<1> DEFINE s == stack[current]
           f == [Top EXCEPT !.at = place]
           u == [s EXCEPT ![1] = f]
<1>1. s \in Seq(Frame) /\ 1 \in DOMAIN s /\ DOMAIN s = 1 .. Len(s) /\ Len(s) \in Nat \ {0}
    BY Topmost DEF Stacks
<1>2. stack' = [stack EXCEPT ![current] = u]
    BY DEF Goto, Top
<1>3. u \in Seq(Frame) /\ Len(u) = Len(s) /\ DOMAIN u = DOMAIN s
    BY <1>1, ExceptSeq
<1>4. u[1] = f /\ \A k \in DOMAIN s : k # 1 => u[k] = s[k]
    BY <1>1
<1>5. /\ stack'[current] = u /\ stack' \in Stacks
      /\ \A c \in Context \ {current} : stack'[c] = stack[c]
    BY <1>2, <1>3 DEF Stacks
<1>6. u # <<>>
    BY <1>1, <1>3, EmptySeq
<1>7. ASSUME NEW c \in Context, NEW k \in DOMAIN stack'[c], ~(c = current /\ k = 1)
      PROVE  Settled(stack'[c][k])
    BY <1>3, <1>4, <1>5, <1>7 DEF Quiet
<1>8. current' = current => Quiet'
    BY <1>7 DEF Quiet, Settled
<1>9. f.at = place
    BY Topmost DEF Frame
<1>10. ASSUME place \in {"start", "yield", "switch", "end"} PROVE AllSettled'
    <2> SUFFICES ASSUME NEW c \in Context, NEW k \in DOMAIN stack'[c]
                 PROVE  Settled(stack'[c][k])
        BY DEF AllSettled, Settled
    <2>1. CASE c = current /\ k = 1
        BY <1>4, <1>5, <1>9, <1>10, <2>1 DEF Settled
    <2> QED BY <1>7, <2>1
<1> QED BY <1>3, <1>4, <1>5, <1>6, <1>8, <1>10

LEMMA Left ==
    ASSUME stack \in Stacks, current \in Context, stack[current] # <<>>, Quiet, Leave
    PROVE  /\ stack' \in Stacks /\ AllSettled'
           /\ Len(stack'[current]) = Len(stack[current]) - 1
           /\ \A c \in Context \ {current} : stack'[c] = stack[c]
<1> DEFINE s == stack[current]
           u == Tail(s)
<1>1. s \in Seq(Frame) /\ DOMAIN s = 1 .. Len(s) /\ Len(s) \in Nat \ {0}
    BY Topmost DEF Stacks
<1>2. /\ u \in Seq(Frame) /\ Len(u) = Len(s) - 1
      /\ \A k \in 1 .. Len(u) : u[k] = s[k + 1]
    BY <1>1, HeadTailProperties
<1>3. DOMAIN u = 1 .. Len(s) - 1
    BY <1>2, LenProperties
<1>4. /\ stack'[current] = u /\ stack' \in Stacks
      /\ \A c \in Context \ {current} : stack'[c] = stack[c]
    BY <1>2 DEF Leave, Stacks
<1>5. ASSUME NEW c \in Context, NEW k \in DOMAIN stack'[c] PROVE Settled(stack'[c][k])
    <2>1. CASE c = current
        <3>1. k \in 1 .. Len(s) - 1
            BY <1>3, <1>4, <2>1
        <3>2. k + 1 \in 1 .. Len(s) /\ k + 1 # 1
            BY <1>1, <3>1
        <3>3. Settled(s[k + 1])
            BY <1>1, <3>2 DEF Quiet
        <3>4. u[k] = s[k + 1]
            BY <1>2, <3>1
        <3> QED BY <1>4, <2>1, <3>3, <3>4
    <2>2. CASE c # current
        BY <1>4, <2>2 DEF Quiet
    <2> QED BY <2>1, <2>2
<1> QED BY <1>2, <1>4, <1>5 DEF AllSettled, Settled

-----------------------------------------------------------------------------
(* Types, and how far a stack and the clock get                            *)

Depth == \A c \in Context : Len(stack[c]) <= MaxDepth

RestOK ==
    /\ kernel \in Kernels
    /\ enabled \in BOOLEAN
    /\ requested \subseteq Lines
    /\ inService \subseteq Lines \cup {2}
    /\ current \in Context
    /\ ready \in Seq(Context)
    /\ slice \in Nat
    /\ waiter \in [at : {"idle", "ticks", "loop"}, seconds : Nat, ticks : Nat, then : Nat]
    /\ fate \in {"running", "no_current_thread", "spinning", "aborted"}

Typed == stack \in Stacks /\ Depth /\ RestOK /\ clock \in [seconds : Nat, ticks : Nat]

(* A handler that has not reached its yield runs with interrupts disabled  *)
(* or, in set_EOI of the end-of-quantum handler, while its own interrupt   *)
(* keeps all others away; the controllers serve nothing else.              *)
Delivery ==
    /\ Quiet
    /\ stack[current] # <<>> =>
           /\ Top.at = "dispatch" =>
                  ~enabled /\ (Top.kind = "interrupt" => inService = Begun(Top.number))
           /\ Top.at = "acknowledge" =>
                  Top.kind = "interrupt" /\ Top.number = 0 /\ inService = Begun(0)
    /\ inService # {} =>
           /\ stack[current] # <<>>
           /\ Top.kind = "interrupt" /\ inService = Begun(Top.number)
           /\ Top.at \in {"dispatch", "acknowledge", "end"}
           /\ Top.at = "end" => ~enabled

(* The clock of the model: a tick that was requested before its last       *)
(* second began may still come, and no other.                              *)
Ticking == /\ stack[current] # <<>>
           /\ Top.kind = "interrupt" /\ Top.at = "dispatch" /\ Top.number = 0

ClockInv ==
    /\ clock \in [seconds : 0 .. MaxSeconds, ticks : 0 .. Hz - 1]
    /\ clock.seconds = MaxSeconds /\ kernel # "round_robin" =>
           /\ ~(0 \in requested /\ Ticking)
           /\ clock.ticks # 0 => 0 \notin requested /\ ~Ticking

-----------------------------------------------------------------------------
(* Interrupts in service                                                   *)

(* The end of interrupt that a handler sends ends its own interrupt, at    *)
(* both controllers, and does nothing the second time.                     *)
LEMMA OwnEnd ==
    ASSUME NEW line \in 0 .. 15, inService \in {{}, Begun(line)}, EndOfInterrupt(line)
    PROVE  inService' = {}
<1>1. \A l \in Nat : Min({l}) = l
    BY DEF Min
<1>2. CASE inService = {}
    BY <1>2 DEF EndOfInterrupt
<1>3. CASE inService = Begun(line) /\ line > 7
    <2>1. inService = {line, 2} /\ Master(inService) = {2} /\ Slave(inService) = {line}
        BY <1>3 DEF Begun, GeneratedBySlave, Master, Slave
    <2> QED BY <1>1, <1>3, <2>1 DEF EndOfInterrupt, Ended, GeneratedBySlave
<1>4. CASE inService = Begun(line) /\ ~(line > 7)
    <2>1. inService = {line} /\ Master(inService) = {line}
        BY <1>4 DEF Begun, GeneratedBySlave, Master
    <2> QED BY <1>1, <1>4, <2>1 DEF EndOfInterrupt, Ended, GeneratedBySlave
<1> QED BY <1>2, <1>3, <1>4

(* While the timer's interrupt is in service no other line gets through.   *)
LEMMA TimerFirst ==
    ASSUME inService = Begun(0), requested \subseteq 0 .. 15
    PROVE  Deliverable = {}
<1>1. Master(inService) = {0}
    BY DEF Begun, GeneratedBySlave, Master
<1>2. ASSUME NEW line \in requested PROVE Blocked(line)
    <2>1. line \in 0 .. 15 /\ 0 \in Master(inService) /\ 0 <= 2 /\ 0 <= line
        BY <1>1
    <2> QED BY <2>1 DEF Blocked
<1> QED BY <1>2 DEF Deliverable

LEMMA LineNumbers == Lines \subseteq 0 .. 15 /\ 0 .. 15 \subseteq 0 .. 31 /\ Vectors \subseteq 0 .. 31
<1>1. Lines \subseteq 0 .. 15 /\ Vectors \subseteq 0 .. 31
    BY Zenon, InterruptsAssumption
<1>2. 0 .. 15 \subseteq 0 .. 31
    OBVIOUS
<1> QED BY <1>1, <1>2

LEMMA Numbers ==
    /\ Quantum \in Nat \ {0} /\ Hz \in Nat \ {0} /\ MaxDepth \in Nat \ {0}
    /\ MaxSeconds \in Nat /\ Waits \subseteq Nat
    BY Zenon, InterruptsAssumption

(* The steps that enter a frame: an interrupt, an exception, a call.       *)
LEMMA AcceptKeeps ==
    ASSUME Typed, Delivery, Accept
    PROVE  Typed' /\ Delivery' /\ (Ticking' => 0 \in requested /\ 0 \notin requested')
<1>1. PICK line \in Deliverable :
          /\ requested' = requested \ {line}
          /\ inService' = inService \cup Begun(line)
          /\ Enter("interrupt", line, "dispatch")
    BY DEF Accept
<1> DEFINE f == [kind |-> "interrupt", number |-> line, at |-> "dispatch", was |-> enabled]
<1>2. /\ enabled = TRUE /\ enabled' = FALSE
      /\ UNCHANGED <<kernel, current, ready, slice, clock, waiter, fate>>
    BY DEF Accept, time, Typed, RestOK
<1>3. line \in requested /\ line \in Lines /\ line \in 0 .. 15
    BY LineNumbers DEF Deliverable, Typed, RestOK
<1>4. f \in Frame
    BY <1>2, <1>3, LineNumbers DEF Frame
<1>5. stack' = [stack EXCEPT ![current] = <<f>> \o @] /\ Len(stack[current]) < MaxDepth
    BY <1>1 DEF Enter
<1>6. stack[current] # <<>> => Top.at \notin {"dispatch", "acknowledge"}
    <2>1. Top.at = "acknowledge" /\ stack[current] # <<>> => inService = Begun(0)
        BY DEF Delivery
    <2>2. inService # Begun(0)
        BY <1>3, LineNumbers, TimerFirst DEF Typed, RestOK
    <2> QED BY <1>2, <2>1, <2>2 DEF Delivery
<1>7. inService = {}
    BY <1>2, <1>6 DEF Delivery
<1>8. AllSettled
    <2> SUFFICES ASSUME NEW c \in Context, NEW k \in DOMAIN stack[c], c = current, k = 1
                 PROVE  Settled(stack[c][k])
        BY DEF Delivery, Quiet, AllSettled, Settled
    <2>1. stack[current] # <<>>
        BY LenProperties, EmptySeq
    <2>2. Top \in Frame
        BY <2>1, Topmost DEF Typed, RestOK
    <2> QED BY <2>2, <1>6, <2>1, <2>1 DEF Frame, Settled, Top
<1>9. /\ stack' \in Stacks /\ stack'[current] # <<>> /\ Top' = f
      /\ Len(stack'[current]) = Len(stack[current]) + 1
      /\ \A c \in Context \ {current} : stack'[c] = stack[c]
      /\ Quiet'
    BY <1>2, <1>4, <1>5, <1>8, Entered DEF Typed, RestOK
<1>10. inService' = Begun(line) /\ Begun(line) \subseteq Lines \cup {2}
    BY <1>1, <1>3, <1>7 DEF Begun
<1>11. Depth'
    <2>1. ASSUME NEW c \in Context PROVE Len(stack'[c]) <= MaxDepth
        <3>1. CASE c = current
            <4>1. stack[current] \in Seq(Frame)
                BY DEF Typed, RestOK, Stacks
            <4>2. Len(stack[current]) \in Nat
                BY <4>1, LenProperties
            <4> QED BY <1>5, <1>9, <3>1, <4>2, Numbers
        <3> QED BY <1>9, <3>1 DEF Typed, Depth
    <2> QED BY <2>1 DEF Depth
<1>12. Typed'
    BY <1>1, <1>2, <1>9, <1>10, <1>11 DEF Typed, RestOK
<1>13. Delivery'
    BY <1>2, <1>9, <1>10 DEF Delivery
<1>14. Ticking' => line = 0
    BY <1>9 DEF Ticking
<1> QED BY <1>1, <1>3, <1>12, <1>13, <1>14

LEMMA CodeIsQuiet ==
    ASSUME Typed, Delivery, stack[current] = <<>>
    PROVE  AllSettled /\ inService = {}
<1>1. DOMAIN stack[current] = {}
    OBVIOUS
<1> QED BY <1>1 DEF Delivery, Quiet, AllSettled

LEMMA CodeKeeps ==
    ASSUME Typed, Delivery, PassOnCPU \/ \E v \in Vectors : Raise(v)
    PROVE  Typed' /\ Delivery' /\ ~Ticking'
<1>1. PICK kind \in {"call", "exception"}, number \in 0 .. 31, place \in {"yield", "dispatch"} :
          /\ Enter(kind, number, place)
          /\ kind = "call" <=> place = "yield"
          /\ place = "dispatch" => ~enabled'
    <2>1. CASE PassOnCPU
        BY <2>1 DEF PassOnCPU
    <2>2. CASE \E v \in Vectors : Raise(v)
        BY <2>2, LineNumbers DEF Raise
    <2> QED BY <2>1, <2>2
<1>2. /\ stack[current] = <<>> /\ enabled' \in BOOLEAN
      /\ ready' = ready \/ ready' = Append(ready, current)
      /\ UNCHANGED <<kernel, current, requested, inService, slice, clock, waiter, fate>>
    BY DEF PassOnCPU, Raise, InCode, Resume, pic, time
<1> DEFINE f == [kind |-> kind, number |-> number, at |-> place, was |-> enabled]
<1>3. f \in Frame /\ current \in Context
    BY <1>1 DEF Frame, Typed, RestOK
<1>4. stack' = [stack EXCEPT ![current] = <<f>> \o @] /\ Len(stack[current]) < MaxDepth
    BY <1>1 DEF Enter
<1>5. AllSettled /\ inService = {}
    BY <1>2, CodeIsQuiet
<1>6. /\ stack' \in Stacks /\ stack'[current] # <<>> /\ Top' = f
      /\ Len(stack'[current]) = Len(stack[current]) + 1
      /\ \A c \in Context \ {current} : stack'[c] = stack[c]
      /\ Quiet'
    BY <1>2, <1>3, <1>4, <1>5, Entered DEF Typed
<1>7. Depth'
    <2>1. ASSUME NEW c \in Context PROVE Len(stack'[c]) <= MaxDepth
        <3>1. CASE c = current
            <4>1. stack[current] \in Seq(Frame)
                BY <1>3 DEF Typed, Stacks
            <4>2. Len(stack[current]) \in Nat
                BY <4>1, LenProperties
            <4> QED BY <1>4, <1>6, <3>1, <4>2, Numbers
        <3>2. CASE c # current
            BY <1>6, <3>2 DEF Typed, Depth
        <3> QED BY <3>1, <3>2
    <2> QED BY <2>1 DEF Depth
<1>8. ready' \in Seq(Context)
    <2>1. ready \in Seq(Context)
        BY DEF Typed, RestOK
    <2>2. Append(ready, current) \in Seq(Context)
        BY <1>3, <2>1, AppendProperties
    <2> QED BY <1>2, <2>1, <2>2
<1>9. Typed'
    BY <1>2, <1>6, <1>7, <1>8 DEF Typed, RestOK
<1>10. Delivery' /\ ~Ticking'
    BY <1>1, <1>2, <1>5, <1>6 DEF Delivery, Ticking
<1> QED BY <1>9, <1>10

(* A step that leaves every frame settled and no interrupt in service.     *)
LEMMA NothingServed ==
    ASSUME Typed', AllSettled', inService' = {}
    PROVE  Delivery' /\ ~Ticking'
<1>1. Quiet'
    BY DEF AllSettled, Quiet, Settled
<1>2. stack'[current'] # <<>> => Top'.at \in {"start", "yield", "switch", "end"}
    <2>1. stack'[current'] # <<>> => 1 \in DOMAIN stack'[current']
        <3>1. stack'[current'] \in Seq(Frame)
            BY DEF Typed, RestOK, Stacks
        <3> QED BY <3>1, EmptySeq, LenProperties
    <2>2. current' \in Context
        BY DEF Typed, RestOK
    <2> QED BY <2>1, <2>2 DEF AllSettled, Settled, Top
<1> QED BY <1>1, <1>2 DEF Delivery, Ticking

(* A handler goes on: it has ended its interrupt, or stays where nothing   *)
(* else is let in.                                                         *)
LEMMA PlaceKeeps ==
    ASSUME Typed, Delivery, stack[current] # <<>>,
           NEW place \in {"acknowledge", "yield", "switch", "end"}, Goto(place),
           RestOK', current' = current, clock' \in [seconds : Nat, ticks : Nat],
           \/ inService' = {} /\ place # "acknowledge"
           \/ /\ Top.kind = "interrupt" /\ inService' \in {{}, Begun(Top.number)}
              /\ place = "end" /\ ~enabled'
           \/ /\ Top.kind = "interrupt" /\ Top.number = 0
              /\ inService' = Begun(0) /\ place = "acknowledge"
    PROVE  Typed' /\ Delivery' /\ ~Ticking'
<1> DEFINE f == [Top EXCEPT !.at = place]
<1>1. Top \in Frame /\ current \in Context
    BY Topmost DEF Typed, RestOK
<1>2. f \in Frame /\ f.at = place /\ f.kind = Top.kind /\ f.number = Top.number
    BY <1>1 DEF Frame
<1>3. /\ stack' \in Stacks /\ stack'[current] # <<>>
      /\ stack'[current][1] = f
      /\ Len(stack'[current]) = Len(stack[current])
      /\ \A c \in Context \ {current} : stack'[c] = stack[c]
      /\ Quiet'
    BY <1>1, <1>2, Moved DEF Typed, Delivery
<1>4. Typed'
    BY <1>3 DEF Typed, Depth
<1>5. Top' = f /\ stack'[current'] # <<>>
    BY <1>3 DEF Top
<1>6. Delivery'
    BY <1>2, <1>3, <1>5 DEF Delivery
<1> QED BY <1>2, <1>4, <1>5, <1>6 DEF Ticking

LEMMA HandlerKeeps ==
    ASSUME Typed, Delivery,
           NoHandler \/ ClockTick \/ QuantumTick \/ Acknowledge \/ DiskInterrupt \/ Yield
    PROVE  Typed' /\ Delivery' /\ ~Ticking'
<1>1. /\ stack[current] # <<>> /\ Top \in Frame /\ current \in Context
      /\ UNCHANGED <<kernel, current, waiter, fate>>
    BY Topmost DEF NoHandler, ClockTick, QuantumTick, Acknowledge, DiskInterrupt, Yield,
       Dispatching, In, AtYield, time, Typed, RestOK
<1>2. Append(ready, current) \in Seq(Context)
    BY <1>1, AppendProperties DEF Typed, RestOK
<1>3. CASE NoHandler \/ ClockTick \/ (QuantumTick /\ ~SliceOver)
    <2>1. /\ Top.kind = "interrupt" /\ Top.at = "dispatch" /\ Goto("end")
          /\ UNCHANGED <<enabled, requested, inService, ready>>
        BY <1>3 DEF NoHandler, ClockTick, QuantumTick, Dispatching, In, pic
    <2>2. slice' \in Nat /\ clock' \in [seconds : Nat, ticks : Nat]
        <3>1. slice \in Nat /\ slice + 1 \in Nat
            BY DEF Typed, RestOK
        <3>2. slice' \in Nat
            BY <1>3, <3>1 DEF NoHandler, ClockTick, QuantumTick, NewSlice, SliceOver, time
        <3>3. NextTick(clock) \in [seconds : Nat, ticks : Nat]
            BY DEF NextTick, Typed
        <3>4. clock' \in {clock, NextTick(clock)}
            BY <1>3 DEF NoHandler, ClockTick, QuantumTick, time
        <3> QED BY <3>2, <3>3, <3>4 DEF Typed
    <2>3. ~enabled /\ inService \in {{}, Begun(Top.number)}
        BY <1>1, <2>1 DEF Delivery
    <2>4. RestOK'
        BY <1>1, <2>1, <2>2 DEF Typed, RestOK
    <2> QED BY <1>1, <2>1, <2>2, <2>3, <2>4, PlaceKeeps
<1>4. CASE QuantumTick /\ SliceOver
    <2>1. /\ Top.kind = "interrupt" /\ Top.at = "dispatch" /\ Goto("acknowledge")
          /\ ready' = Append(ready, current) /\ enabled' = TRUE /\ slice' = 0
          /\ InterruptHandler(Top.number) = "quantum"
          /\ UNCHANGED <<requested, inService, clock>>
        BY <1>4 DEF QuantumTick, Dispatching, In, Resume, NewSlice, pic
    <2>2. Top.number = 0
        BY <2>1 DEF InterruptHandler
    <2>3. inService = Begun(0)
        BY <1>1, <2>1, <2>2 DEF Delivery
    <2>4. RestOK' /\ clock' \in [seconds : Nat, ticks : Nat]
        BY <1>1, <1>2, <2>1 DEF Typed, RestOK
    <2> QED BY <1>1, <2>1, <2>2, <2>3, <2>4, PlaceKeeps
<1>5. CASE Acknowledge
    <2>1. /\ Top.at = "acknowledge" /\ Goto("yield") /\ EndOfInterrupt(Top.number)
          /\ UNCHANGED <<enabled, requested, ready, slice, clock>>
        BY <1>5 DEF Acknowledge, In, time
    <2>2. inService' = {}
        BY <1>1, <2>1, OwnEnd DEF Delivery
    <2>3. RestOK' /\ clock' \in [seconds : Nat, ticks : Nat]
        BY <1>1, <2>1, <2>2 DEF Typed, RestOK
    <2> QED BY <1>1, <2>1, <2>2, <2>3, PlaceKeeps
<1>6. CASE DiskInterrupt
    <2>1. /\ Top.kind = "interrupt" /\ Top.at = "dispatch" /\ Goto("yield")
          /\ EndOfInterrupt(Top.number) /\ InterruptHandler(Top.number) = "disk"
          /\ ready' = Append(ready, current) /\ enabled' = TRUE
          /\ UNCHANGED <<requested, slice, clock>>
        BY <1>6 DEF DiskInterrupt, Dispatching, In, Resume, time
    <2>2. Top.number = 14
        BY <2>1 DEF InterruptHandler
    <2>3. inService' = {}
        BY <1>1, <2>1, <2>2, OwnEnd DEF Delivery
    <2>4. RestOK' /\ clock' \in [seconds : Nat, ticks : Nat]
        BY <1>1, <1>2, <2>1, <2>3 DEF Typed, RestOK
    <2> QED BY <1>1, <2>1, <2>3, <2>4, PlaceKeeps
<1>7. CASE Yield
    <2>1. /\ Top.at = "yield" /\ Goto("switch") /\ slice' \in Nat
          /\ UNCHANGED <<enabled, requested, inService, ready, clock>>
        BY <1>7 DEF Yield, AtYield, pic, Typed, RestOK
    <2>2. inService = {}
        BY <2>1 DEF Delivery
    <2>3. RestOK' /\ clock' \in [seconds : Nat, ticks : Nat]
        BY <1>1, <2>1, <2>2 DEF Typed, RestOK
    <2> QED BY <1>1, <2>1, <2>2, <2>3, PlaceKeeps
<1> QED BY <1>3, <1>4, <1>5, <1>6, <1>7

LEMMA SwitchKeeps ==
    ASSUME Typed, Delivery, StartFirst \/ Switch
    PROVE  Typed' /\ Delivery' /\ ~Ticking'
<1>1. /\ current \in Context /\ ready \in Seq(Context)
      /\ UNCHANGED <<kernel, requested, inService, slice, clock, waiter, fate>>
    BY DEF StartFirst, Switch, Typed, RestOK, pic, time
<1>2. CASE StartFirst
    <2>1. stack[current] = <<>> /\ UNCHANGED <<stack, ready>> /\ SwitchTo(Head(ThreadOrder))
        BY <1>2 DEF StartFirst, InCode
    <2>2. Head(ThreadOrder) \in Thread
        BY Zenon, InterruptsAssumption, HeadTailProperties
    <2>3. AllSettled /\ inService = {}
        BY <2>1, CodeIsQuiet
    <2>4. RestOK' /\ AllSettled'
        BY <1>1, <2>1, <2>2, <2>3 DEF Typed, RestOK, SwitchTo, Context, AllSettled, Settled
    <2>5. Typed'
        BY <1>1, <2>1, <2>4 DEF Typed, Depth
    <2> QED BY <1>1, <2>3, <2>4, <2>5, NothingServed
<1>3. CASE Switch
    <2>1. stack[current] # <<>> /\ Top.at = "switch" /\ Goto("end") /\ inService = {}
        BY <1>3 DEF Switch, AtYield, Delivery
    <2>2. CASE ready = <<>>
        <3>1. UNCHANGED <<enabled, current, ready>>
            BY <1>3, <2>2 DEF Switch
        <3>2. RestOK' /\ clock' \in [seconds : Nat, ticks : Nat]
            BY <1>1, <3>1 DEF Typed, RestOK
        <3> QED BY <1>1, <2>1, <3>1, <3>2, PlaceKeeps
    <2>3. CASE ready # <<>>
        <3>1. SwitchTo(Head(ready)) /\ ready' = Tail(ready)
            BY <1>3, <2>3 DEF Switch
        <3>2. Head(ready) \in Context /\ Tail(ready) \in Seq(Context)
            BY <1>1, <2>3, HeadTailProperties
        <3>3. RestOK'
            BY <1>1, <3>1, <3>2 DEF Typed, RestOK, SwitchTo
        <3>4. Top \in Frame
            BY <1>1, <2>1, Topmost DEF Typed
        <3>5. [Top EXCEPT !.at = "end"] \in Frame
            BY <3>4 DEF Frame
        <3>6. /\ stack' \in Stacks /\ AllSettled'
              /\ Len(stack'[current]) = Len(stack[current])
              /\ \A c \in Context \ {current} : stack'[c] = stack[c]
            BY <1>1, <2>1, <3>5, Moved DEF Typed, Delivery
        <3>7. Typed'
            BY <1>1, <3>3, <3>6 DEF Typed, Depth
        <3> QED BY <1>1, <2>1, <3>6, <3>7, NothingServed
    <2> QED BY <2>2, <2>3
<1> QED BY <1>2, <1>3

LEMMA LeaveKeeps ==
    ASSUME Typed, Delivery,
           ThreadStart \/ ReturnFromYield \/ ReturnFromInterrupt \/ PageFault
    PROVE  Typed' /\ Delivery' /\ ~Ticking'
<1>1. /\ stack[current] # <<>> /\ Top \in Frame /\ current \in Context /\ Leave
      /\ UNCHANGED <<kernel, current, requested, ready, slice, clock, waiter>>
    BY Topmost DEF ThreadStart, ReturnFromYield, ReturnFromInterrupt, PageFault,
       HandlingException, In, time, pic, Typed, RestOK
<1>2. enabled' \in BOOLEAN
    BY <1>1 DEF ThreadStart, ReturnFromYield, ReturnFromInterrupt, PageFault, Typed, RestOK,
       Frame
<1>3. fate' = fate
    <2>1. CASE PageFault
        <3>1. Top.number = 14
            BY <2>1 DEF PageFault, HandlingException, ExceptionHandler
        <3>2. ErrorCodes(14) = 1 /\ StubPushes(14) = 1
            BY DEF ErrorCodes, StubPushes
        <3>3. ErrorCodes(Top.number) + StubPushes(Top.number) = 2
            BY <3>1, <3>2
        <3> QED BY <2>1, <3>3 DEF PageFault
    <2> QED BY <2>1 DEF ThreadStart, ReturnFromYield, ReturnFromInterrupt
<1>4. inService' = {}
    <2>1. CASE ReturnFromInterrupt
        <3>1. EndOfInterrupt(Top.number) /\ Top.kind = "interrupt"
            BY <2>1 DEF ReturnFromInterrupt, In
        <3>2. CASE inService = {}
            BY <3>1, <3>2 DEF EndOfInterrupt
        <3>3. CASE inService # {}
            <4>1. inService = Begun(Top.number)
                BY <3>3 DEF Delivery
            <4>2. Top.number \in 0 .. 15
                <5>1. Top.number \in inService
                    BY <4>1 DEF Begun
                <5>2. Top.number \in Lines \cup {2}
                    BY <5>1 DEF Typed, RestOK
                <5>3. 2 \in 0 .. 15 /\ Lines \subseteq 0 .. 15
                    BY LineNumbers
                <5> QED BY <5>2, <5>3
            <4> QED BY <3>1, <4>1, <4>2, OwnEnd
        <3> QED BY <3>2, <3>3
    <2>2. CASE ThreadStart \/ ReturnFromYield \/ PageFault
        <3>1. Top.kind # "interrupt" /\ inService' = inService
            BY <2>2 DEF ThreadStart, ReturnFromYield, PageFault, HandlingException, In, pic
        <3> QED BY <3>1 DEF Delivery
    <2> QED BY <2>1, <2>2
<1>5. /\ stack' \in Stacks /\ AllSettled'
      /\ Len(stack'[current]) = Len(stack[current]) - 1
      /\ \A c \in Context \ {current} : stack'[c] = stack[c]
    BY <1>1, Left DEF Typed, Delivery
<1>6. RestOK'
    BY <1>1, <1>2, <1>3, <1>4 DEF Typed, RestOK
<1>7. Depth'
    <2>1. Len(stack[current]) \in Nat /\ MaxDepth \in Nat
        BY <1>1, Topmost, Numbers DEF Typed
    <2> QED BY <1>1, <1>5, <2>1 DEF Typed, Depth
<1>8. Typed'
    BY <1>1, <1>5, <1>6, <1>7 DEF Typed
<1> QED BY <1>4, <1>5, <1>8, NothingServed

LEMMA RestKeeps ==
    ASSUME Typed, Delivery,
           \/ YieldAborts \/ DivisionByZero \/ Unhandled \/ ReadTicks \/ EndWait
           \/ \E n \in Waits : ReadSeconds(n)
           \/ \E l \in Lines : Request(l)
           \/ UNCHANGED vars
    PROVE  Typed' /\ Delivery' /\ (Ticking' <=> Ticking)
<1>1. UNCHANGED <<kernel, enabled, current, stack, inService, ready, slice, clock>>
    BY DEF YieldAborts, DivisionByZero, Unhandled, ReadTicks, EndWait, ReadSeconds, Request,
       Stop, vars, cpu, pic, time
<1>2. /\ requested' \subseteq Lines
      /\ fate' \in {"running", "no_current_thread", "spinning", "aborted"}
    BY DEF YieldAborts, DivisionByZero, Unhandled, ReadTicks, EndWait, ReadSeconds, Request,
       Stop, vars, pic, Typed, RestOK
<1>3. waiter' \in [at : {"idle", "ticks", "loop"}, seconds : Nat, ticks : Nat, then : Nat]
    <2>1. CASE \E n \in Waits : ReadSeconds(n)
        <3>1. PICK n \in Waits : ReadSeconds(n)
            BY <2>1
        <3>2. n \in Nat /\ clock.seconds \in Nat /\ clock.seconds + n \in Nat
            BY <3>1, Numbers DEF Typed
        <3> QED BY <3>1, <3>2 DEF ReadSeconds, Typed, RestOK
    <2>2. CASE ReadTicks \/ EndWait
        <3>1. clock.ticks \in Nat
            BY DEF Typed
        <3>2. \/ waiter' = [waiter EXCEPT !.at = "loop", !.ticks = clock.ticks]
              \/ waiter' = [waiter EXCEPT !.at = "idle", !.seconds = 0, !.ticks = 0, !.then = 0]
            BY <2>2 DEF ReadTicks, EndWait
        <3>3. waiter \in [at : {"idle", "ticks", "loop"},
                          seconds : Nat, ticks : Nat, then : Nat]
            BY DEF Typed, RestOK
        <3>4. CASE waiter' = [waiter EXCEPT !.at = "loop", !.ticks = clock.ticks]
            BY <3>1, <3>3, <3>4
        <3>5. CASE waiter' = [waiter EXCEPT !.at = "idle", !.seconds = 0,
                                            !.ticks = 0, !.then = 0]
            BY <3>3, <3>5
        <3> QED BY <3>2, <3>4, <3>5
    <2>3. CASE \/ YieldAborts \/ DivisionByZero \/ Unhandled
               \/ \E l \in Lines : Request(l)
               \/ UNCHANGED vars
        BY <2>3 DEF YieldAborts, DivisionByZero, Unhandled, Request, Stop, vars, time, Typed,
           RestOK
    <2> QED BY <2>1, <2>2, <2>3
<1>4. Typed'
    BY <1>1, <1>2, <1>3 DEF Typed, RestOK, Depth
<1> QED BY <1>1, <1>4 DEF Delivery, Quiet, Settled, Ticking, Top

-----------------------------------------------------------------------------
(* The clock and the slice                                                 *)

LEMMA TickNumber ==
    ASSUME Typed, ClockTick
    PROVE  Ticking /\ kernel # "round_robin"
<1>1. In("interrupt", "dispatch") /\ InterruptHandler(Top.number) = "clock"
    BY DEF ClockTick, Dispatching
<1>2. Top.number = 0 /\ kernel # "round_robin"
    BY <1>1 DEF InterruptHandler
<1> QED BY <1>1, <1>2 DEF In, Ticking

LEMMA ClockNext ==
    ASSUME Typed, Delivery, ClockInv, Hz > 1, [Next]_vars
    PROVE  ClockInv'
<1>1. /\ clock.seconds \in 0 .. MaxSeconds /\ clock.ticks \in 0 .. Hz - 1
      /\ MaxSeconds \in Nat /\ Hz \in Nat
    BY Numbers DEF ClockInv
<1>2. CASE ClockTick
    <2>1. Ticking /\ kernel # "round_robin" /\ clock' = NextTick(clock) /\ ~Ticking'
          /\ UNCHANGED requested
        BY <1>2, TickNumber, HandlerKeeps DEF ClockTick, pic
    <2>2. CASE clock.ticks + 1 >= Hz
        <3>1. clock.seconds # MaxSeconds
            BY <1>1, <2>1, <2>2 DEF ClockInv
        <3>2. clock' = [seconds |-> clock.seconds + 1, ticks |-> 0]
            BY <2>1, <2>2 DEF NextTick
        <3> QED BY <1>1, <2>1, <3>1, <3>2 DEF ClockInv
    <2>3. CASE ~(clock.ticks + 1 >= Hz)
        <3>1. clock' = [clock EXCEPT !.ticks = @ + 1]
            BY <2>1, <2>3 DEF NextTick
        <3>2. clock' \in [seconds : 0 .. MaxSeconds, ticks : 0 .. Hz - 1]
            BY <1>1, <2>3, <3>1 DEF ClockInv
        <3>3. clock'.seconds = MaxSeconds => 0 \notin requested
            BY <2>1, <3>1 DEF ClockInv
        <3> QED BY <2>1, <3>2, <3>3 DEF ClockInv
    <2> QED BY <2>2, <2>3
<1>3. CASE Accept
    <2>1. UNCHANGED <<kernel, clock>> /\ requested' \subseteq requested
        BY <1>3 DEF Accept, time
    <2>2. Ticking' => 0 \in requested /\ 0 \notin requested'
        BY <1>3, AcceptKeeps
    <2> QED BY <2>1, <2>2 DEF ClockInv
<1>4. CASE \E l \in Lines : Request(l)
    <2>1. PICK l \in Lines : Request(l)
        BY <1>4
    <2>2. /\ UNCHANGED <<kernel, clock>> /\ requested' = requested \cup {l}
          /\ Ticking' <=> Ticking
        BY <1>4, <2>1, RestKeeps DEF Request, time
    <2>3. clock.seconds = MaxSeconds /\ kernel # "round_robin" => l # 0
        BY <1>1, <2>1 DEF Request, InterruptHandler
    <2> QED BY <2>2, <2>3 DEF ClockInv
<1>5. ASSUME UNCHANGED <<kernel, requested, clock>>, Ticking' => Ticking PROVE ClockInv'
    BY <1>5 DEF ClockInv
<1>6. CASE \/ NoHandler \/ QuantumTick \/ Acknowledge \/ DiskInterrupt \/ Yield
           \/ StartFirst \/ Switch
           \/ ThreadStart \/ ReturnFromYield \/ ReturnFromInterrupt \/ PageFault
           \/ PassOnCPU \/ \E v \in Vectors : Raise(v)
    <2>1. UNCHANGED <<kernel, requested, clock>>
        BY <1>6 DEF NoHandler, QuantumTick, Acknowledge, DiskInterrupt, Yield, StartFirst,
           Switch, ThreadStart, ReturnFromYield, ReturnFromInterrupt, PageFault, PassOnCPU,
           Raise, pic, time
    <2>2. ~Ticking'
        BY <1>6, HandlerKeeps, SwitchKeeps, LeaveKeeps, CodeKeeps
    <2> QED BY <1>5, <2>1, <2>2
<1>7. CASE \/ YieldAborts \/ DivisionByZero \/ Unhandled \/ ReadTicks \/ EndWait
           \/ (\E n \in Waits : ReadSeconds(n)) \/ UNCHANGED vars
    <2>1. UNCHANGED <<kernel, requested, clock>>
        BY <1>7 DEF YieldAborts, DivisionByZero, Unhandled, ReadTicks, EndWait, ReadSeconds,
           Stop, vars, pic, time
    <2>2. Ticking' <=> Ticking
        BY <1>7, RestKeeps
    <2> QED BY <1>5, <2>1, <2>2
<1> QED BY <1>2, <1>3, <1>4, <1>6, <1>7 DEF Next, Cpu, Code

LEMMA KeptByNext == ASSUME Typed, Delivery, [Next]_vars PROVE Typed' /\ Delivery'
    BY AcceptKeeps, CodeKeeps, HandlerKeeps, SwitchKeeps, LeaveKeeps, RestKeeps
    DEF Next, Cpu, Code

LEMMA InitKept == Init => Typed /\ Delivery /\ ClockInv
<1> SUFFICES ASSUME Init PROVE Typed /\ Delivery /\ ClockInv
    OBVIOUS
<1>1. /\ kernel \in Kernels /\ enabled = TRUE /\ requested = {} /\ inService = {}
      /\ current = None /\ slice = 0 /\ clock = [seconds |-> 0, ticks |-> 0]
      /\ waiter = [at |-> "idle", seconds |-> 0, ticks |-> 0, then |-> 0]
      /\ fate = "running"
      /\ stack = [c \in Context |-> IF c = None THEN <<>> ELSE <<ThreadStartFrame>>]
    BY DEF Init
<1>2. ready \in Seq(Context)
    <2>1. Tail(ThreadOrder) \in Seq(Thread)
        BY Zenon, InterruptsAssumption, HeadTailProperties
    <2>2. Seq(Thread) \subseteq Seq(Context)
        BY DEF Context
    <2>3. CASE kernel = "paging"
        <3>1. ready = <<>>
            BY <2>3 DEF Init
        <3> QED BY <3>1
    <2>4. CASE kernel # "paging"
        <3>1. ready = Tail(ThreadOrder)
            BY <2>4 DEF Init
        <3>2. Tail(ThreadOrder) \in Seq(Context)
            BY <2>1, <2>2, Zenon
        <3> QED BY <3>1, <3>2
    <2> QED BY <2>3, <2>4
<1>3. ThreadStartFrame \in Frame /\ Settled(ThreadStartFrame)
    BY DEF ThreadStartFrame, Frame, Settled
<1>4. ASSUME NEW c \in Context
      PROVE  /\ stack[c] \in Seq(Frame) /\ Len(stack[c]) <= 1
             /\ \A k \in DOMAIN stack[c] : Settled(stack[c][k])
    <2>1. CASE c = None
        BY <1>1, <2>1
    <2>2. CASE c # None
        <3>1. stack[c] = <<ThreadStartFrame>>
            BY <1>1, <2>2
        <3> QED BY <1>3, <3>1
    <2> QED BY <2>1, <2>2
<1>5. stack \in Stacks /\ AllSettled
    BY <1>1, <1>4 DEF Stacks, AllSettled
<1>6. Depth
    <2>1. ASSUME NEW c \in Context PROVE Len(stack[c]) <= MaxDepth
        BY <1>4, Numbers, LenProperties
    <2> QED BY <2>1 DEF Depth
<1>7. RestOK
    BY <1>1, <1>2 DEF RestOK, Context
<1>8. Typed
    BY <1>1, <1>5, <1>6, <1>7 DEF Typed
<1>9. stack[current] = <<>>
    BY <1>1 DEF Context
<1>10. Delivery
    BY <1>1, <1>5, <1>9 DEF Delivery, AllSettled, Quiet
<1>11. ClockInv
    BY <1>1, Numbers DEF ClockInv
<1> QED BY <1>8, <1>10, <1>11

LEMMA KeptInvariant == Spec => [](Typed /\ Delivery)
    BY InitKept, KeptByNext, PTL DEF Spec

-----------------------------------------------------------------------------
(* What follows                                                            *)

(* The two controllers never serve an interrupt other than the one that    *)
(* the running handler was called for: a handler that gives the CPU away   *)
(* has ended its interrupt, and the end of interrupt that it sends when    *)
(* its thread runs again ends nobody else's.                               *)
THEOREM ServedIsHandled == Spec => []InServiceIsHandled
<1>1. Delivery => InServiceIsHandled
    BY DEF Delivery, InServiceIsHandled
<1> QED BY <1>1, KeptInvariant, PTL

(* Types of the state: no stack of handlers outgrows its room, a return    *)
(* from an exception leaves no word on the stack, and the clock counts to  *)
(* its frequency.  A clock that ticks once a second would get one second   *)
(* past the bound of the model.                                            *)
THEOREM TypeCorrectInterrupts == ASSUME Hz > 1 PROVE Spec => []TypeOK
<1>1. Typed /\ ClockInv => TypeOK
    BY DEF Typed, RestOK, Stacks, Depth, ClockInv, TypeOK
<1>2. Typed /\ Delivery /\ ClockInv /\ [Next]_vars => ClockInv'
    BY ClockNext
<1>3. Spec => []ClockInv
    BY <1>2, KeptInvariant, InitKept, PTL DEF Spec
<1> QED BY <1>1, <1>3, KeptInvariant, PTL

(* The end-of-quantum handler tests its counter for equality with the      *)
(* quantum, and yield resets it: the counter never gets past the quantum,  *)
(* whichever thread a tick interrupts and wherever.                        *)
THEOREM SliceIsNotMissed == Spec => []SliceBelowQuantum
<1>1. Init => SliceBelowQuantum
    BY Numbers DEF Init, SliceBelowQuantum
<1>2. ASSUME Typed, SliceBelowQuantum, [Next]_vars PROVE SliceBelowQuantum'
    <2>1. slice \in Nat /\ Quantum \in Nat \ {0}
        BY <1>2, Numbers DEF Typed, RestOK
    <2>2. CASE QuantumTick
        BY <1>2, <2>1, <2>2 DEF QuantumTick, NewSlice, SliceOver, SliceBelowQuantum
    <2>3. CASE Yield
        BY <1>2, <2>1, <2>3 DEF Yield, SliceBelowQuantum
    <2>4. CASE UNCHANGED slice
        BY <1>2, <2>4 DEF SliceBelowQuantum
    <2>5. QuantumTick \/ Yield \/ UNCHANGED slice
        BY <1>2 DEF Next, Cpu, Code, StartFirst, ThreadStart, NoHandler, ClockTick, Acknowledge,
           DiskInterrupt, ReturnFromInterrupt, YieldAborts, Switch, ReturnFromYield, PageFault,
           DivisionByZero, Unhandled, ReadTicks, EndWait, PassOnCPU, Raise, ReadSeconds,
           Accept, Request, Stop, time, vars
    <2> QED BY <2>2, <2>3, <2>4, <2>5
<1> QED BY <1>1, <1>2, KeptInvariant, PTL DEF Spec
=============================================================================
