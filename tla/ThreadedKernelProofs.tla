------------------------- MODULE ThreadedKernelProofs -------------------------
(***************************************************************************)
(* Proofs about ThreadedKernel, for any threads, interrupts and drive.     *)
(*                                                                         *)
(* A step changes the stack of calls of the running thread in one of four  *)
(* ways, and the lemmas of the first part say what each does to the calls  *)
(* that are under way.  The invariants that follow are about where those   *)
(* calls stand.                                                            *)
(***************************************************************************)
EXTENDS ThreadedKernel, SequenceTheorems, FunctionTheorems, FiniteSetTheorems, TLAPS

-----------------------------------------------------------------------------
(* Stacks of calls                                                         *)

(* A call on top of a stack moves the others down by one.                  *)
LEMMA Pushed ==
    ASSUME NEW S, NEW s \in Seq(S), NEW c \in S
    PROVE  /\ <<c>> \o s \in Seq(S)
           /\ Len(<<c>> \o s) = Len(s) + 1
           /\ DOMAIN (<<c>> \o s) = 1 .. Len(s) + 1
           /\ (<<c>> \o s)[1] = c
           /\ \A k \in 1 .. Len(s) : (<<c>> \o s)[k + 1] = s[k]
<1>1. <<c>> \in Seq(S) /\ Len(<<c>>) = 1 /\ <<c>>[1] = c
    OBVIOUS
<1>2. Len(s) \in Nat
    BY LenProperties
<1>3. /\ <<c>> \o s \in Seq(S)
      /\ Len(<<c>> \o s) = 1 + Len(s)
      /\ \A k \in 1 .. 1 + Len(s) :
             (<<c>> \o s)[k] = IF k <= 1 THEN <<c>>[k] ELSE s[k - 1]
    BY <1>1, ConcatProperties
<1>4. DOMAIN (<<c>> \o s) = 1 .. Len(s) + 1
    BY <1>2, <1>3, LenProperties
<1> QED BY <1>1, <1>2, <1>3, <1>4

(* The rest of a stack that is not empty.                                  *)
LEMMA Popped ==
    ASSUME NEW S, NEW s \in Seq(S), s # <<>>
    PROVE  /\ Len(s) \in Nat \ {0} /\ DOMAIN s = 1 .. Len(s)
           /\ s[1] \in S /\ Head(s) = s[1]
           /\ Tail(s) \in Seq(S) /\ Len(Tail(s)) = Len(s) - 1
           /\ DOMAIN Tail(s) = 1 .. Len(s) - 1
           /\ \A k \in 1 .. Len(s) - 1 : Tail(s)[k] = s[k + 1]
<1>1. Len(s) \in Nat \ {0} /\ DOMAIN s = 1 .. Len(s)
    BY EmptySeq, LenProperties
<1>2. /\ Tail(s) \in Seq(S) /\ Len(Tail(s)) = Len(s) - 1
      /\ \A k \in 1 .. Len(Tail(s)) : Tail(s)[k] = s[k + 1]
    BY HeadTailProperties
<1>3. DOMAIN Tail(s) = 1 .. Len(s) - 1
    BY <1>2, LenProperties
<1>4. s[1] \in S
    BY <1>1, ElementOfSeq
<1>5. Head(s) = s[1]
    OBVIOUS
<1> QED BY <1>1, <1>2, <1>3, <1>4, <1>5

(* The call on top is replaced.                                            *)
LEMMA Replaced ==
    ASSUME NEW S, NEW s \in Seq(S), s # <<>>, NEW c \in S
    PROVE  /\ <<c>> \o Tail(s) \in Seq(S)
           /\ Len(<<c>> \o Tail(s)) = Len(s)
           /\ DOMAIN (<<c>> \o Tail(s)) = 1 .. Len(s)
           /\ (<<c>> \o Tail(s))[1] = c
           /\ \A k \in 2 .. Len(s) : (<<c>> \o Tail(s))[k] = s[k]
<1> DEFINE u == Tail(s)
<1>1. /\ Len(s) \in Nat \ {0} /\ u \in Seq(S) /\ Len(u) = Len(s) - 1
      /\ \A k \in 1 .. Len(s) - 1 : u[k] = s[k + 1]
    BY Popped
<1>2. /\ <<c>> \o u \in Seq(S)
      /\ Len(<<c>> \o u) = Len(u) + 1
      /\ DOMAIN (<<c>> \o u) = 1 .. Len(u) + 1
      /\ (<<c>> \o u)[1] = c
      /\ \A k \in 1 .. Len(u) : (<<c>> \o u)[k + 1] = u[k]
    BY <1>1, Pushed
<1>3. ASSUME NEW k \in 2 .. Len(s) PROVE (<<c>> \o u)[k] = s[k]
    <2>1. k - 1 \in 1 .. Len(s) - 1 /\ (k - 1) + 1 = k
        BY <1>1
    <2> QED BY <1>1, <1>2, <2>1
<1> QED BY <1>1, <1>2, <1>3

(* The call on top is replaced and another one is put on top of it.        *)
LEMMA Suspended ==
    ASSUME NEW S, NEW s \in Seq(S), s # <<>>, NEW b \in S, NEW c \in S
    PROVE  /\ <<b, c>> \o Tail(s) \in Seq(S)
           /\ Len(<<b, c>> \o Tail(s)) = Len(s) + 1
           /\ DOMAIN (<<b, c>> \o Tail(s)) = 1 .. Len(s) + 1
           /\ (<<b, c>> \o Tail(s))[1] = b
           /\ (<<b, c>> \o Tail(s))[2] = c
           /\ \A k \in 2 .. Len(s) : (<<b, c>> \o Tail(s))[k + 1] = s[k]
<1> DEFINE u == Tail(s)
<1>1. /\ Len(s) \in Nat \ {0} /\ u \in Seq(S) /\ Len(u) = Len(s) - 1
      /\ \A k \in 1 .. Len(s) - 1 : u[k] = s[k + 1]
    BY Popped
<1>2. <<b, c>> \in Seq(S) /\ Len(<<b, c>>) = 2 /\ <<b, c>>[1] = b /\ <<b, c>>[2] = c
    OBVIOUS
<1>3. /\ <<b, c>> \o u \in Seq(S)
      /\ Len(<<b, c>> \o u) = 2 + Len(u)
      /\ \A k \in 1 .. 2 + Len(u) :
             (<<b, c>> \o u)[k] = IF k <= 2 THEN <<b, c>>[k] ELSE u[k - 2]
    BY <1>1, <1>2, ConcatProperties
<1>4. DOMAIN (<<b, c>> \o u) = 1 .. Len(s) + 1
    BY <1>1, <1>3, LenProperties
<1>5. ASSUME NEW k \in 2 .. Len(s) PROVE (<<b, c>> \o u)[k + 1] = s[k]
    <2>1. /\ k - 1 \in 1 .. Len(s) - 1 /\ (k - 1) + 1 = k /\ (k + 1) - 2 = k - 1
          /\ k + 1 \in 1 .. 2 + Len(u) /\ ~(k + 1 <= 2)
        BY <1>1
    <2> QED BY <1>1, <1>3, <2>1
<1> QED BY <1>1, <1>2, <1>3, <1>4, <1>5

-----------------------------------------------------------------------------
(* What a step does to the stack of the running thread.                    *)

Calls == [Thread -> Seq(Call)]

LEMMA InvokeFacts ==
    ASSUME calls \in Calls, current \in Thread, NEW c \in Call, Invoke(c)
    PROVE  /\ calls' \in Calls
           /\ Len(calls'[current]) = Len(calls[current]) + 1
           /\ DOMAIN calls'[current] = 1 .. Len(calls[current]) + 1
           /\ calls'[current][1] = c
           /\ \A k \in DOMAIN calls[current] : calls'[current][k + 1] = calls[current][k]
           /\ \A t \in Thread \ {current} : calls'[t] = calls[t]
<1>1. calls[current] \in Seq(Call)
    BY DEF Calls
<1>2. calls'[current] = <<c>> \o calls[current]
    BY DEF Invoke, Calls
<1>3. DOMAIN calls[current] = 1 .. Len(calls[current])
    BY <1>1, LenProperties
<1>4. calls'[current] \in Seq(Call)
    BY <1>1, <1>2, Pushed
<1>5. calls' \in Calls /\ \A t \in Thread \ {current} : calls'[t] = calls[t]
    BY <1>4 DEF Invoke, Calls
<1> QED BY <1>1, <1>2, <1>3, <1>5, Pushed

LEMMA ProceedFacts ==
    ASSUME calls \in Calls, current \in Thread, calls[current] # <<>>,
           NEW c \in Call, Proceed(c)
    PROVE  /\ calls' \in Calls
           /\ Len(calls'[current]) = Len(calls[current])
           /\ DOMAIN calls'[current] = DOMAIN calls[current]
           /\ calls'[current][1] = c
           /\ \A k \in DOMAIN calls[current] \ {1} : calls'[current][k] = calls[current][k]
           /\ \A t \in Thread \ {current} : calls'[t] = calls[t]
<1>1. calls[current] \in Seq(Call)
    BY DEF Calls
<1>2. calls'[current] = <<c>> \o Tail(calls[current])
    BY DEF Proceed, Calls
<1>3. DOMAIN calls[current] = 1 .. Len(calls[current]) /\ Len(calls[current]) \in Nat
    BY <1>1, LenProperties
<1>4. calls'[current] \in Seq(Call)
    BY <1>1, <1>2, Replaced
<1>5. calls' \in Calls /\ \A t \in Thread \ {current} : calls'[t] = calls[t]
    BY <1>4 DEF Proceed, Calls
<1>6. ASSUME NEW k \in DOMAIN calls[current] \ {1} PROVE k \in 2 .. Len(calls[current])
    BY <1>3
<1> QED BY <1>1, <1>2, <1>3, <1>5, <1>6, Replaced

LEMMA SuspendFacts ==
    ASSUME calls \in Calls, current \in Thread, calls[current] # <<>>,
           NEW c \in Call, Suspend(c)
    PROVE  /\ calls' \in Calls
           /\ Len(calls'[current]) = Len(calls[current]) + 1
           /\ DOMAIN calls'[current] = 1 .. Len(calls[current]) + 1
           /\ calls'[current][1] = Yield(FALSE) /\ calls'[current][2] = c
           /\ \A k \in DOMAIN calls[current] \ {1} :
                  calls'[current][k + 1] = calls[current][k]
           /\ \A t \in Thread \ {current} : calls'[t] = calls[t]
<1>1. calls[current] \in Seq(Call) /\ Yield(FALSE) \in Call
    BY DEF Calls, Yield, Call
<1>2. calls'[current] = <<Yield(FALSE), c>> \o Tail(calls[current])
    BY DEF Suspend, Calls
<1>3. DOMAIN calls[current] = 1 .. Len(calls[current]) /\ Len(calls[current]) \in Nat
    BY <1>1, LenProperties
<1>4. calls'[current] \in Seq(Call)
    <2>1. \A b \in Call : <<b, c>> \o Tail(calls[current]) \in Seq(Call)
        BY <1>1, Suspended
    <2> QED BY <1>1, <1>2, <2>1
<1>5. calls' \in Calls /\ \A t \in Thread \ {current} : calls'[t] = calls[t]
    BY <1>4 DEF Suspend, Calls
<1>6. ASSUME NEW k \in DOMAIN calls[current] \ {1} PROVE k \in 2 .. Len(calls[current])
    BY <1>3
<1> QED BY <1>1, <1>2, <1>3, <1>5, <1>6, Suspended

LEMMA ReturnFacts ==
    ASSUME calls \in Calls, current \in Thread, calls[current] # <<>>, ReturnCall
    PROVE  /\ calls' \in Calls
           /\ Len(calls'[current]) = Len(calls[current]) - 1
           /\ DOMAIN calls'[current] = 1 .. Len(calls[current]) - 1
           /\ \A k \in DOMAIN calls'[current] : /\ k + 1 \in DOMAIN calls[current]
                                                /\ calls'[current][k] = calls[current][k + 1]
           /\ \A t \in Thread \ {current} : calls'[t] = calls[t]
<1>1. calls[current] \in Seq(Call)
    BY DEF Calls
<1>2. calls'[current] = Tail(calls[current])
    BY DEF ReturnCall, Calls
<1>3. DOMAIN calls[current] = 1 .. Len(calls[current]) /\ Len(calls[current]) \in Nat
    BY <1>1, LenProperties
<1>4. calls'[current] \in Seq(Call)
    BY <1>1, <1>2, Popped
<1>5. calls' \in Calls /\ \A t \in Thread \ {current} : calls'[t] = calls[t]
    BY <1>4 DEF ReturnCall, Calls
<1>6. DOMAIN calls'[current] = 1 .. Len(calls[current]) - 1
    BY <1>1, <1>2, Popped
<1>7. ASSUME NEW k \in 1 .. Len(calls[current]) - 1 PROVE k + 1 \in DOMAIN calls[current]
    BY <1>3
<1> QED BY <1>1, <1>2, <1>5, <1>6, <1>7, Popped

-----------------------------------------------------------------------------
(* Calls as pairs of a thread and a place on its stack.                    *)

LEMMA UnderWayIs ==
    /\ \A t \in Thread : \A k \in DOMAIN calls[t] : <<t, k>> \in UnderWay
    /\ \A c \in UnderWay : \E t \in Thread : \E k \in DOMAIN calls[t] : c = <<t, k>>
<1>1. ASSUME NEW t \in Thread, NEW k \in DOMAIN calls[t]
      PROVE  <<t, k>> \in UnderWay
    <2>1. <<t, k>> \in {t} \X DOMAIN calls[t]
        OBVIOUS
    <2> QED BY <2>1 DEF UnderWay
<1>2. ASSUME NEW c \in UnderWay
      PROVE  \E t \in Thread : \E k \in DOMAIN calls[t] : c = <<t, k>>
    <2>1. PICK t \in Thread : c \in {t} \X DOMAIN calls[t]
        BY DEF UnderWay
    <2> QED BY <2>1
<1> QED BY <1>1, <1>2

-----------------------------------------------------------------------------
(* Types.  Stacks keep their room while the machine runs.                  *)

StackOK ==
    /\ calls \in Calls
    /\ \A t \in Thread : Len(calls[t]) <= MaxCalls + 1
    /\ fate = "running" => \A t \in Thread : Len(calls[t]) <= MaxCalls

Drives == [busy : BOOLEAN, seen : BOOLEAN, op : Command \cup {"none"},
           owner : Thread \cup {None}]
Tails  == {"null", "last", "astray"}

RestOK ==
    /\ current \in Thread
    /\ pc \in [Thread -> Own]
    /\ op \in [Thread -> {"read", "write"}]
    /\ ready \in Seq(Thread) /\ diskQueue \in Seq(Thread)
    /\ readyTail \in Tails
    /\ queueLock \in BOOLEAN /\ hwLock \in BOOLEAN
    /\ drive \in Drives
    /\ irq \in BOOLEAN
    /\ zombie \in Thread \cup {None} /\ freed \subseteq Thread

Typed == StackOK /\ RestOK

LEMMA TypedIsTypeOK == Typed => TypeOK
BY DEF Typed, StackOK, RestOK, TypeOK, Calls, Drives, Tails

(* A new call of yield is at its entry, wherever it comes from.            *)
LEMMA YieldIsCall ==
    ASSUME NEW b \in BOOLEAN
    PROVE  Yield(b) \in Call /\ Yield(b).at = "entry"
BY DEF Yield, Call

LEMMA CapacityFacts ==
    Capacity => /\ fate' = "running" => fate = "running"
                /\ fate' = "running" => ~(Len(calls'[current]) > MaxCalls)
BY DEF Capacity

LEMMA InvokeTyped ==
    ASSUME StackOK, current \in Thread, fate = "running",
           NEW b \in BOOLEAN, Invoke(Yield(b)),
           Capacity \/ Len(calls[current]) < MaxCalls
    PROVE  StackOK'
<1> DEFINE s == calls[current]
<1>1. /\ calls' \in Calls
      /\ Len(calls'[current]) = Len(s) + 1
      /\ DOMAIN calls'[current] = 1 .. Len(s) + 1
      /\ calls'[current][1] = Yield(b)
      /\ \A k \in DOMAIN s : calls'[current][k + 1] = s[k]
      /\ \A t \in Thread \ {current} : calls'[t] = calls[t]
    BY InvokeFacts, YieldIsCall DEF StackOK
<1>2. Len(s) \in Nat /\ DOMAIN s = 1 .. Len(s) /\ Len(s) <= MaxCalls
    BY LenProperties DEF StackOK, Calls
<1>3. \A t \in Thread : Len(calls'[t]) <= MaxCalls + 1
    BY <1>1, <1>2, KernelAssumption DEF StackOK
<1>4. fate' = "running" => \A t \in Thread : Len(calls'[t]) <= MaxCalls
    <2>1. fate' = "running" => Len(calls'[current]) <= MaxCalls
        <3>1. CASE Capacity
            BY <1>1, <1>2, <3>1, CapacityFacts, KernelAssumption
        <3>2. CASE Len(s) < MaxCalls
            BY <1>1, <1>2, <3>2, KernelAssumption
        <3> QED BY <3>1, <3>2
    <2> QED BY <1>1, <2>1 DEF StackOK
<1> QED BY <1>1, <1>3, <1>4 DEF StackOK

LEMMA ProceedTyped ==
    ASSUME StackOK, current \in Thread, calls[current] # <<>>,
           NEW c \in Call, Proceed(c),
           fate' = "running" => fate = "running"
    PROVE  StackOK'
<1> DEFINE s == calls[current]
<1>1. /\ calls' \in Calls
      /\ Len(calls'[current]) = Len(s)
      /\ DOMAIN calls'[current] = DOMAIN s
      /\ calls'[current][1] = c
      /\ \A k \in DOMAIN s \ {1} : calls'[current][k] = s[k]
      /\ \A t \in Thread \ {current} : calls'[t] = calls[t]
    BY ProceedFacts DEF StackOK
<1> QED BY <1>1 DEF StackOK

LEMMA SuspendTyped ==
    ASSUME StackOK, current \in Thread, fate = "running", calls[current] # <<>>,
           NEW c \in Call, Suspend(c), Capacity
    PROVE  StackOK'
<1> DEFINE s == calls[current]
<1>1. /\ calls' \in Calls
      /\ Len(calls'[current]) = Len(s) + 1
      /\ DOMAIN calls'[current] = 1 .. Len(s) + 1
      /\ calls'[current][1] = Yield(FALSE) /\ calls'[current][2] = c
      /\ \A k \in DOMAIN s \ {1} : calls'[current][k + 1] = s[k]
      /\ \A t \in Thread \ {current} : calls'[t] = calls[t]
    BY SuspendFacts DEF StackOK
<1>2. Len(s) \in Nat /\ DOMAIN s = 1 .. Len(s) /\ Len(s) <= MaxCalls
    BY LenProperties DEF StackOK, Calls
<1>3. \A t \in Thread : Len(calls'[t]) <= MaxCalls + 1
    BY <1>1, <1>2, KernelAssumption DEF StackOK
<1>4. fate' = "running" => \A t \in Thread : Len(calls'[t]) <= MaxCalls
    BY <1>1, <1>2, CapacityFacts, KernelAssumption DEF StackOK
<1> QED BY <1>1, <1>3, <1>4 DEF StackOK

LEMMA ReturnTyped ==
    ASSUME StackOK, current \in Thread, calls[current] # <<>>, ReturnCall,
           fate' = "running" => fate = "running"
    PROVE  StackOK'
<1> DEFINE s == calls[current]
<1>1. /\ calls' \in Calls
      /\ Len(calls'[current]) = Len(s) - 1
      /\ \A k \in DOMAIN calls'[current] : k + 1 \in DOMAIN s /\ calls'[current][k] = s[k + 1]
      /\ \A t \in Thread \ {current} : calls'[t] = calls[t]
    BY ReturnFacts DEF StackOK
<1>2. Len(s) \in Nat
    BY LenProperties DEF StackOK, Calls
<1> QED BY <1>1, <1>2, KernelAssumption DEF StackOK

LEMMA TopFacts ==
    ASSUME StackOK, current \in Thread, calls[current] # <<>>
    PROVE  1 \in DOMAIN calls[current] /\ Top \in Call
<1>1. calls[current] \in Seq(Call)
    BY DEF StackOK, Calls
<1> QED BY <1>1, Popped DEF Top

LEMMA QueueFacts ==
    ASSUME NEW q \in Seq(Thread)
    PROVE  /\ \A t \in Thread : Append(q, t) \in Seq(Thread)
           /\ q # <<>> => Tail(q) \in Seq(Thread) /\ Head(q) \in Thread
BY HeadTailProperties

LEMMA ResumeTyped ==
    ASSUME RestOK, NEW t \in Thread, Resume(t)
    PROVE  ready' \in Seq(Thread) /\ readyTail' \in Tails
<1>1. <<t>> \in Seq(Thread) /\ Append(ready, t) \in Seq(Thread)
    BY QueueFacts DEF RestOK
<1>2. CASE readyTail = "null"
    BY <1>1, <1>2 DEF Resume, Tails
<1>3. CASE readyTail = "last"
    BY <1>1, <1>3 DEF Resume, Tails
<1>4. CASE readyTail = "astray"
    BY <1>4 DEF Resume, Tails, RestOK
<1> QED BY <1>2, <1>3, <1>4 DEF RestOK, Tails

LEMMA InitTyped == Init => Typed
<1> SUFFICES ASSUME Init PROVE Typed
    OBVIOUS
<1>1. ThreadOrder \in Seq(Thread) /\ ThreadOrder # <<>>
    BY KernelAssumption
<1>2. Head(ThreadOrder) \in Thread /\ Tail(ThreadOrder) \in Seq(Thread)
    BY <1>1, QueueFacts
<1>3. calls = [t \in Thread |-> <<>>] /\ <<>> \in Seq(Call) /\ Len(<<>>) = 0
    BY DEF Init
<1>4. StackOK
    BY <1>3, KernelAssumption DEF StackOK, Calls
<1>5. pc \in [Thread -> Own] /\ op \in [Thread -> {"read", "write"}]
    BY DEF Init, Own
<1>6. drive \in Drives
    BY DEF Init, Drives
<1>7. /\ ready \in Seq(Thread) /\ diskQueue \in Seq(Thread) /\ current \in Thread
      /\ readyTail \in Tails
    BY <1>2, EmptySeq DEF Init, Tails
<1>8. /\ queueLock \in BOOLEAN /\ hwLock \in BOOLEAN /\ irq \in BOOLEAN
      /\ zombie \in Thread \cup {None} /\ freed \subseteq Thread
    BY DEF Init
<1>9. RestOK
    BY <1>5, <1>6, <1>7, <1>8 DEF RestOK
<1> QED BY <1>4, <1>9 DEF Typed

(* Scheduler::yield.                                                       *)
LEMMA YieldTyped == ASSUME Typed, YieldStep PROVE Typed'
<1> USE DEF Typed
<1>1. current \in Thread /\ StackOK /\ RestOK
    BY DEF RestOK
<1>2. fate = "running" /\ calls[current] # <<>> /\ Top \in Call
    BY <1>1, TopFacts DEF YieldStep, Enter, Look, UnlockLook, TestHead, TakeHead, CompareHead,
       ClearHead, ClearTail, AdvanceHead, LockForIO, PopDiskQueue, UnlockForIO, Dispatch, InYield
<1>3. /\ ready # <<>> => Head(ready) \in Thread /\ Tail(ready) \in Seq(Thread)
      /\ diskQueue # <<>> => Head(diskQueue) \in Thread /\ Tail(diskQueue) \in Seq(Thread)
    BY QueueFacts DEF RestOK
<1>4. CASE Enter
    <2> DEFINE busy == ~Top.interrupt /\ drive.busy
               held == [[Top EXCEPT !.interrupt = FALSE, !.regular = busy] EXCEPT !.at = "look"]
               late == [[Top EXCEPT !.interrupt = FALSE, !.regular = busy] EXCEPT !.at = "relock"]
    <2>1. held \in Call /\ late \in Call
        BY <1>1, <1>2 DEF Call, RestOK, Drives
    <2>2. LockQueueIn(held, late) /\ Capacity
        BY <1>4 DEF Enter
    <2>3. StackOK'
        BY <1>1, <1>2, <2>1, <2>2, ProceedTyped, SuspendTyped, CapacityFacts DEF LockQueueIn
    <2>4. RestOK'
        BY <1>1, <1>2, <1>4, <2>2 DEF Enter, LockQueueIn, RestOK, own, queue, dev, ended
    <2> QED BY <2>3, <2>4
<1>5. CASE Look
    <2>1. LookAt(Top) \in Call
        BY <1>1, <1>2 DEF Call, LookAt
    <2>2. StackOK'
        BY <1>1, <1>2, <1>5, <2>1, ProceedTyped DEF Look
    <2>3. RestOK'
        BY <1>1, <1>5 DEF Look, RestOK, own, queue, locks, dev, ended
    <2> QED BY <2>2, <2>3
<1>6. CASE UnlockLook
    <2> DEFINE c == [Top EXCEPT !.at = IF Top.regular THEN "head" ELSE "iolock",
                                !.regular = FALSE]
    <2>1. c \in Call
        BY <1>1, <1>2 DEF Call
    <2>2. StackOK'
        BY <1>1, <1>2, <1>6, <2>1, ProceedTyped DEF UnlockLook
    <2>3. RestOK'
        BY <1>1, <1>6 DEF UnlockLook, RestOK, own, queue, dev, ended
    <2> QED BY <2>2, <2>3
<1>7. CASE TestHead
    <2> DEFINE c == [Top EXCEPT !.at = "take"]
    <2>1. c \in Call
        BY <1>2 DEF Call
    <2>2. StackOK'
        BY <1>1, <1>2, <1>7, <2>1, ProceedTyped, ReturnTyped DEF TestHead
    <2>3. RestOK'
        BY <1>1, <1>7 DEF TestHead, RestOK, own, queue, locks, dev, ended
    <2> QED BY <2>2, <2>3
<1>8. CASE TakeHead
    <2> DEFINE c == [Top EXCEPT !.at = "compare",
                                !.node = IF ready = <<>> THEN None ELSE Head(ready)]
    <2>1. c \in Call
        BY <1>2, <1>3 DEF Call
    <2>2. StackOK'
        BY <1>1, <1>2, <1>8, <2>1, ProceedTyped DEF TakeHead
    <2>3. RestOK'
        BY <1>1, <1>8 DEF TakeHead, RestOK, own, queue, locks, dev, ended
    <2> QED BY <2>2, <2>3
<1>13. CASE CompareHead
    <2> DEFINE c == [Top EXCEPT !.at = IF HeadIsTail THEN "clear" ELSE "advance"]
    <2>1. c \in Call
        BY <1>2 DEF Call
    <2>2. StackOK'
        BY <1>1, <1>2, <1>13, <2>1, ProceedTyped DEF CompareHead
    <2>3. RestOK'
        BY <1>1, <1>13 DEF CompareHead, RestOK, own, queue, locks, dev, ended
    <2> QED BY <2>2, <2>3
<1>14. CASE ClearHead
    <2> DEFINE c == [Top EXCEPT !.at = "cleartail"]
    <2>1. c \in Call
        BY <1>2 DEF Call
    <2>2. StackOK'
        BY <1>1, <1>2, <1>14, <2>1, ProceedTyped DEF ClearHead
    <2>3. ready' \in Seq(Thread) /\ readyTail' \in Tails
        BY <1>1, <1>14, EmptySeq DEF ClearHead, Behead, RestOK, Tails
    <2>4. RestOK'
        BY <1>1, <1>14, <2>3 DEF ClearHead, RestOK, own, locks, dev, ended
    <2> QED BY <2>2, <2>4
<1>15. CASE ClearTail
    <2> DEFINE c == [Top EXCEPT !.at = "dispatch"]
    <2>1. c \in Call
        BY <1>2 DEF Call
    <2>2. StackOK'
        BY <1>1, <1>2, <1>15, <2>1, ProceedTyped DEF ClearTail
    <2>3. RestOK'
        BY <1>1, <1>15 DEF ClearTail, RestOK, Tails, own, locks, dev, ended
    <2> QED BY <2>2, <2>3
<1>16. CASE AdvanceHead
    <2> DEFINE c == [Top EXCEPT !.at = "dispatch"]
    <2>1. c \in Call
        BY <1>2 DEF Call
    <2>2. CASE ready = <<>>
        BY <1>1, <1>16, <2>2
           DEF AdvanceHead, Lost, StackOK, RestOK, own, queue, locks, dev, ended
    <2>3. CASE ready # <<>>
        <3>1. StackOK'
            BY <1>1, <1>2, <1>16, <2>1, <2>3, ProceedTyped DEF AdvanceHead
        <3>2. ready' \in Seq(Thread) /\ readyTail' \in Tails
            BY <1>1, <1>3, <1>16, <2>3 DEF AdvanceHead, NextBecomesHead, Behead, RestOK, Tails
        <3>3. RestOK'
            BY <1>1, <1>16, <2>3, <3>2 DEF AdvanceHead, RestOK, own, locks, dev, ended
        <3> QED BY <3>1, <3>3
    <2> QED BY <2>2, <2>3
<1>9. CASE LockForIO
    <2> DEFINE held == [Top EXCEPT !.at = "iopop"]
    <2>1. held \in Call
        BY <1>2 DEF Call
    <2>2. LockQueueIn(held, Top) /\ Capacity
        BY <1>9 DEF LockForIO
    <2>3. StackOK'
        BY <1>1, <1>2, <2>1, <2>2, ProceedTyped, SuspendTyped, CapacityFacts DEF LockQueueIn
    <2>4. RestOK'
        BY <1>1, <1>2, <1>9, <2>2 DEF LockForIO, LockQueueIn, RestOK, own, queue, dev, ended
    <2> QED BY <2>3, <2>4
<1>10. CASE PopDiskQueue
    <2> DEFINE c == [Top EXCEPT !.at = "iounlock", !.node = Head(diskQueue)]
    <2>1. diskQueue # <<>> => c \in Call
        BY <1>1, <1>2, <1>3 DEF Call
    <2>2. CASE diskQueue = <<>>
        BY <1>1, <1>10, <2>2
           DEF PopDiskQueue, Lost, StackOK, RestOK, own, queue, locks, dev, ended
    <2>3. CASE diskQueue # <<>>
        <3>1. StackOK'
            BY <1>1, <1>2, <1>10, <2>1, <2>3, ProceedTyped DEF PopDiskQueue
        <3>2. diskQueue' \in Seq(Thread)
            BY <1>3, <1>10, <2>3 DEF PopDiskQueue
        <3>3. RestOK'
            BY <1>1, <1>10, <2>3, <3>2 DEF PopDiskQueue, RestOK, own, queue, locks, dev, ended
        <3> QED BY <3>1, <3>3
    <2> QED BY <2>2, <2>3
<1>11. CASE UnlockForIO
    <2> DEFINE c == [Top EXCEPT !.at = "dispatch"]
    <2>1. c \in Call
        BY <1>2 DEF Call
    <2>2. StackOK'
        BY <1>1, <1>2, <1>11, <2>1, ProceedTyped DEF UnlockForIO
    <2>3. RestOK'
        BY <1>1, <1>11 DEF UnlockForIO, RestOK, own, queue, dev, ended
    <2> QED BY <2>2, <2>3
<1>12. CASE Dispatch
    <2>1. CASE Top.node = None
        BY <1>1, <1>12, <2>1 DEF Dispatch, Lost, StackOK, RestOK, own, queue, locks, dev, ended
    <2>2. CASE Top.node # None
        <3>1. current' \in Thread
            BY <1>2, <1>12, <2>2 DEF Dispatch, Call
        <3>2. StackOK'
            BY <1>1, <1>2, <1>12, <2>2, ReturnTyped DEF Dispatch
        <3>3. RestOK'
            BY <1>1, <1>12, <2>2, <3>1 DEF Dispatch, RestOK, own, queue, locks, dev, ended
        <3> QED BY <3>2, <3>3
    <2> QED BY <2>1, <2>2
<1> QED BY <1>4, <1>5, <1>6, <1>7, <1>8, <1>9, <1>10, <1>11, <1>12, <1>13, <1>14, <1>15, <1>16
        DEF YieldStep

LEMMA StackSame ==
    ASSUME StackOK, UNCHANGED calls, fate' = "running" => fate = "running"
    PROVE  StackOK'
BY DEF StackOK

(* The thread's own code outside the driver.                               *)
LEMMA ThreadTyped ==
    ASSUME Typed, ThreadStart \/ PassOnCPU \/ ThreadShutdown \/ FallOffStack
    PROVE  Typed'
<1>1. current \in Thread /\ StackOK /\ RestOK
    BY DEF Typed, RestOK
<1>2. Resume(current) => ready' \in Seq(Thread) /\ readyTail' \in Tails
    BY <1>1, ResumeTyped
<1>3. \A t \in Thread : FirstPlace(t) \in Own
    BY DEF FirstPlace, Own
<1>4. CASE ThreadStart
    <2>1. StackOK'
        BY <1>1, <1>4, StackSame DEF ThreadStart
    <2>2. RestOK'
        BY <1>1, <1>3, <1>4 DEF ThreadStart, Goto, RestOK, queue, locks, dev, ended
    <2> QED BY <2>1, <2>2 DEF Typed
<1>5. CASE PassOnCPU
    <2>1. StackOK'
        BY <1>1, <1>5, InvokeTyped DEF PassOnCPU, At
    <2>2. RestOK'
        BY <1>1, <1>2, <1>3, <1>5 DEF PassOnCPU, Goto, RestOK, locks, dev, ended
    <2> QED BY <2>1, <2>2 DEF Typed
<1>6. CASE ThreadShutdown
    <2>1. StackOK'
        BY <1>1, <1>6, InvokeTyped DEF ThreadShutdown, At
    <2>2. RestOK'
        BY <1>1, <1>6 DEF ThreadShutdown, Goto, Terminate, RestOK, queue, Own, locks, dev
    <2> QED BY <2>1, <2>2 DEF Typed
<1>7. CASE FallOffStack
    BY <1>1, <1>7
       DEF FallOffStack, Lost, Typed, StackOK, RestOK, queue, own, locks, dev, ended
<1> QED BY <1>4, <1>5, <1>6, <1>7

(* The driver.                                                             *)
LEMMA DriverTyped == ASSUME Typed, DriverStep PROVE Typed'
<1>1. current \in Thread /\ StackOK /\ RestOK
    BY DEF Typed, RestOK
<1>2. /\ Resume(current) => ready' \in Seq(Thread) /\ readyTail' \in Tails
      /\ diskQueue \in Seq(Thread) /\ Append(diskQueue, current) \in Seq(Thread)
    BY <1>1, ResumeTyped, QueueFacts DEF RestOK
<1>3. CASE LockQueue
    <2>1. StackOK'
        BY <1>1, <1>3, InvokeTyped, StackSame, CapacityFacts DEF LockQueue, At
    <2>2. RestOK'
        BY <1>1, <1>3 DEF LockQueue, Goto, RestOK, queue, Own, dev, ended
    <2> QED BY <2>1, <2>2 DEF Typed
<1>4. CASE AppendSelf
    <2>1. StackOK'
        BY <1>1, <1>4, StackSame, CapacityFacts DEF AppendSelf
    <2>2. RestOK'
        BY <1>1, <1>2, <1>4 DEF AppendSelf, Enqueue, Goto, RestOK, queue, Own, locks, dev, ended
    <2> QED BY <2>1, <2>2 DEF Typed
<1>5. CASE UnlockQueue
    <2>1. StackOK'
        BY <1>1, <1>5, StackSame DEF UnlockQueue
    <2>2. RestOK'
        BY <1>1, <1>5 DEF UnlockQueue, Goto, RestOK, queue, Own, dev, ended
    <2> QED BY <2>1, <2>2 DEF Typed
<1>6. CASE LockHardware
    <2>1. StackOK'
        BY <1>1, <1>6, InvokeTyped, StackSame, CapacityFacts DEF LockHardware, TakeHardware, At
    <2>2. RestOK'
        BY <1>1, <1>6 DEF LockHardware, TakeHardware, Goto, RestOK, queue, Own, dev, ended
    <2> QED BY <2>1, <2>2 DEF Typed
<1>7. ASSUME NEW place, NEW next \in Own, Waiting(place, next)
      PROVE  Typed'
    <2>1. StackOK'
        BY <1>1, <1>7, InvokeTyped, StackSame, CapacityFacts DEF Waiting, At
    <2>2. RestOK'
        BY <1>1, <1>7 DEF Waiting, Goto, RestOK, queue, Drives, locks, ended
    <2> QED BY <2>1, <2>2 DEF Typed
<1>8. CASE WaitToIssue \/ WaitForData \/ WaitForFlush
    BY <1>7, <1>8 DEF WaitToIssue, WaitForData, WaitForFlush, Own
<1>9. ASSUME NEW c \in Command, StartCommand(c)
      PROVE  drive' \in Drives /\ irq' \in BOOLEAN
    <2>1. PICK busy \in BOOLEAN :
              /\ drive' = [busy |-> busy, seen |-> FALSE, op |-> c, owner |-> current]
              /\ irq' = (irq \/ (DiskIRQ /\ c # "write" /\ ~busy))
        BY <1>9 DEF StartCommand
    <2> QED BY <1>1, <2>1, KernelAssumption DEF Drives, RestOK
<1>10. op[current] \in Command /\ "flush" \in Command
    BY <1>1 DEF RestOK, Command
<1>11. CASE IssueCommand
    <2>1. StackOK'
        BY <1>1, <1>11, StackSame DEF IssueCommand
    <2>2. RestOK'
        BY <1>1, <1>9, <1>10, <1>11 DEF IssueCommand, Goto, RestOK, queue, Own, locks, ended
    <2> QED BY <2>1, <2>2 DEF Typed
<1>12. CASE CopyWords
    <2>1. StackOK'
        BY <1>1, <1>12, StackSame DEF CopyWords
    <2>2. drive' \in Drives /\ irq' \in BOOLEAN
        BY <1>1, <1>9, <1>10, <1>12 DEF CopyWords, RestOK, dev
    <2>3. RestOK'
        BY <1>1, <1>12, <2>2 DEF CopyWords, Goto, RestOK, queue, Own, locks, ended
    <2> QED BY <2>1, <2>3 DEF Typed
<1>13. CASE UnlockHardware
    <2>1. StackOK'
        BY <1>1, <1>13, StackSame DEF UnlockHardware
    <2>2. RestOK'
        BY <1>1, <1>13 DEF UnlockHardware, Goto, RestOK, queue, Own, dev, ended
    <2> QED BY <2>1, <2>2 DEF Typed
<1>14. CASE FinishOperation
    <2>1. StackOK'
        BY <1>1, <1>14, InvokeTyped DEF FinishOperation, At
    <2>2. RestOK'
        BY <1>1, <1>2, <1>14 DEF FinishOperation, Goto, RestOK, Own, locks, dev, ended
    <2> QED BY <2>1, <2>2 DEF Typed
<1> QED BY <1>3, <1>4, <1>5, <1>6, <1>8, <1>11, <1>12, <1>13, <1>14 DEF DriverStep

(* The drive and the interrupts.                                           *)
LEMMA OutsideTyped ==
    ASSUME Typed, Complete \/ EndOfQuantum \/ DiskInterrupt
    PROVE  Typed'
<1>1. current \in Thread /\ StackOK /\ RestOK
    BY DEF Typed, RestOK
<1>2. Resume(current) => ready' \in Seq(Thread) /\ readyTail' \in Tails
    BY <1>1, ResumeTyped
<1>3. CASE Complete
    <2>1. StackOK'
        BY <1>1, <1>3, StackSame DEF Complete
    <2>2. drive' \in Drives /\ irq' \in BOOLEAN
        BY <1>1, <1>3, KernelAssumption DEF Complete, RestOK, queue, Drives
    <2>3. RestOK'
        BY <1>1, <1>3, <2>2 DEF Complete, RestOK, queue, own, locks, ended
    <2> QED BY <2>1, <2>3 DEF Typed
<1>4. ASSUME NEW b \in BOOLEAN, Preempt(b), Interruptible, irq' \in BOOLEAN
      PROVE  Typed'
    <2>1. StackOK'
        BY <1>1, <1>4, InvokeTyped DEF Preempt, Interruptible
    <2>2. RestOK'
        BY <1>1, <1>2, <1>4 DEF Preempt, RestOK, own, locks, ended
    <2> QED BY <2>1, <2>2 DEF Typed
<1>5. CASE EndOfQuantum
    BY <1>1, <1>4, <1>5 DEF EndOfQuantum, RestOK
<1>6. CASE DiskInterrupt
    BY <1>1, <1>4, <1>6 DEF DiskInterrupt
<1> QED BY <1>3, <1>5, <1>6

-----------------------------------------------------------------------------
(* Where the calls of a next state come from: each was under way before,   *)
(* or has just begun, or is what became of the running call.               *)

Origin(c) ==
    \A t \in Thread : \A k \in DOMAIN calls'[t] :
        \/ calls'[t][k].at = "entry"
        \/ calls'[t][k] = c
        \/ \E j \in DOMAIN calls[t] : calls'[t][k] = calls[t][j]

LEMMA InvokeOrigin ==
    ASSUME StackOK, current \in Thread, NEW b \in BOOLEAN, Invoke(Yield(b)), NEW c
    PROVE  Origin(c)
<1>1. /\ DOMAIN calls'[current] = 1 .. Len(calls[current]) + 1
      /\ calls'[current][1] = Yield(b)
      /\ \A k \in DOMAIN calls[current] : calls'[current][k + 1] = calls[current][k]
      /\ \A t \in Thread \ {current} : calls'[t] = calls[t]
    BY InvokeFacts, YieldIsCall DEF StackOK
<1>2. Len(calls[current]) \in Nat /\ DOMAIN calls[current] = 1 .. Len(calls[current])
    BY LenProperties DEF StackOK, Calls
<1>3. ASSUME NEW k \in DOMAIN calls'[current], k # 1
      PROVE  \E j \in DOMAIN calls[current] : calls'[current][k] = calls[current][j]
    <2>1. k - 1 \in DOMAIN calls[current] /\ (k - 1) + 1 = k
        BY <1>1, <1>2, <1>3
    <2> QED BY <1>1, <2>1
<1> QED BY <1>1, <1>3, YieldIsCall DEF Origin

LEMMA ProceedOrigin ==
    ASSUME StackOK, current \in Thread, calls[current] # <<>>, NEW c \in Call, Proceed(c)
    PROVE  Origin(c)
<1>1. /\ DOMAIN calls'[current] = DOMAIN calls[current]
      /\ calls'[current][1] = c
      /\ \A k \in DOMAIN calls[current] \ {1} : calls'[current][k] = calls[current][k]
      /\ \A t \in Thread \ {current} : calls'[t] = calls[t]
    BY ProceedFacts DEF StackOK
<1> QED BY <1>1 DEF Origin

LEMMA SuspendOrigin ==
    ASSUME StackOK, current \in Thread, calls[current] # <<>>, NEW c \in Call, Suspend(c)
    PROVE  Origin(c)
<1>1. /\ DOMAIN calls'[current] = 1 .. Len(calls[current]) + 1
      /\ calls'[current][1] = Yield(FALSE) /\ calls'[current][2] = c
      /\ \A k \in DOMAIN calls[current] \ {1} : calls'[current][k + 1] = calls[current][k]
      /\ \A t \in Thread \ {current} : calls'[t] = calls[t]
    BY SuspendFacts DEF StackOK
<1>2. Len(calls[current]) \in Nat /\ DOMAIN calls[current] = 1 .. Len(calls[current])
    BY LenProperties DEF StackOK, Calls
<1>3. ASSUME NEW k \in DOMAIN calls'[current], k # 1, k # 2
      PROVE  \E j \in DOMAIN calls[current] : calls'[current][k] = calls[current][j]
    <2>1. k - 1 \in DOMAIN calls[current] \ {1} /\ (k - 1) + 1 = k
        BY <1>1, <1>2, <1>3
    <2> QED BY <1>1, <2>1
<1>4. ASSUME NEW k \in DOMAIN calls'[current]
      PROVE  \/ calls'[current][k].at = "entry" \/ calls'[current][k] = c
             \/ \E j \in DOMAIN calls[current] : calls'[current][k] = calls[current][j]
    BY <1>1, <1>3, YieldIsCall
<1> QED BY <1>1, <1>4 DEF Origin

LEMMA ReturnOrigin ==
    ASSUME StackOK, current \in Thread, calls[current] # <<>>, ReturnCall, NEW c
    PROVE  Origin(c)
<1>1. /\ \A k \in DOMAIN calls'[current] : /\ k + 1 \in DOMAIN calls[current]
                                           /\ calls'[current][k] = calls[current][k + 1]
      /\ \A t \in Thread \ {current} : calls'[t] = calls[t]
    BY ReturnFacts DEF StackOK
<1>2. ASSUME NEW t \in Thread, NEW k \in DOMAIN calls'[t]
      PROVE  \E j \in DOMAIN calls[t] : calls'[t][k] = calls[t][j]
    <2>1. CASE t = current
        BY <1>1, <2>1
    <2>2. CASE t # current
        BY <1>1, <2>2
    <2> QED BY <2>1, <2>2
<1> QED BY <1>2 DEF Origin

LEMMA SameOrigin == ASSUME UNCHANGED calls, NEW c PROVE Origin(c)
BY DEF Origin

-----------------------------------------------------------------------------
LEMMA TypedInvariant == Spec => []Typed
<1>1. Typed /\ [Next]_vars => Typed'
    <2> SUFFICES ASSUME Typed, [Next]_vars PROVE Typed'
        OBVIOUS
    <2>1. CASE Next
        BY <2>1, YieldTyped, ThreadTyped, DriverTyped, OutsideTyped DEF Next, Run
    <2>2. CASE UNCHANGED vars
        BY <2>2 DEF vars, own, queue, locks, dev, ended, Typed, StackOK, RestOK
    <2> QED BY <2>1, <2>2
<1> QED BY <1>1, InitTyped, PTL DEF Spec

(* The state keeps its types, whatever the interrupts do to the ready      *)
(* queue; in particular a stack is overrun by one call of yield at most,   *)
(* and then the run is over.                                               *)
THEOREM TypeCorrectKernel == Spec => []TypeOK
BY TypedInvariant, TypedIsTypeOK, PTL

-----------------------------------------------------------------------------
(* queue_lock.  Whoever is between lock and unlock is the running thread,  *)
(* and above it on the stack are only calls that have met the lock in use  *)
(* or have not looked at it yet: the CPU cannot be given away before the   *)
(* lock is released.                                                       *)

SectionPlaces == {"look", "unlock", "iopop", "iounlock"}
OwnSection(t) == pc[t] \in {"append", "unlock"}

OwnHolder ==
    \A t \in Thread : OwnSection(t) =>
        /\ queueLock /\ t = current
        /\ \A k \in DOMAIN calls[t] : calls[t][k].at \in {"entry", "relock"}

CallHolder ==
    \A t \in Thread : \A k \in DOMAIN calls[t] : calls[t][k].at \in SectionPlaces =>
        /\ queueLock /\ t = current /\ ~OwnSection(t)
        /\ \A j \in DOMAIN calls[t] :
               /\ j < k => calls[t][j].at \in {"entry", "relock"}
               /\ j > k => calls[t][j].at # "relock"

Relocking ==
    \A t \in Thread : \A k \in DOMAIN calls[t] : calls[t][k].at = "relock" =>
        k # 1 /\ t = current /\ queueLock

Held == queueLock => \/ OwnSection(current)
                     \/ \E k \in DOMAIN calls[current] : calls[current][k].at \in SectionPlaces

LockInv == OwnHolder /\ CallHolder /\ Relocking /\ Held

SameSections == \A t \in Thread : OwnSection(t)' <=> OwnSection(t)

NoSection == /\ ~queueLock
             /\ \A t \in Thread :
                    /\ ~OwnSection(t)
                    /\ \A k \in DOMAIN calls[t] :
                           calls[t][k].at \notin SectionPlaces \cup {"relock"}

LEMMA FreeLock == NoSection => LockInv
BY DEF NoSection, LockInv, OwnHolder, CallHolder, Relocking, Held

LEMMA FreeLockNext == NoSection' => LockInv'
BY FreeLock, PTL

LEMMA Unlocked == ASSUME LockInv, ~queueLock PROVE NoSection
BY DEF NoSection, LockInv, OwnHolder, CallHolder, Relocking, Held

(* A call on top that is neither in the section nor waiting for it shows   *)
(* that nobody is in the section.                                          *)
LEMMA TopOutside ==
    ASSUME StackOK, LockInv, current \in Thread, calls[current] # <<>>,
           Top.at \notin SectionPlaces \cup {"entry", "relock"}
    PROVE  NoSection
<1>1. 1 \in DOMAIN calls[current] /\ Top = calls[current][1]
    BY TopFacts DEF Top
<1>2. ~OwnSection(current)
    BY <1>1 DEF LockInv, OwnHolder
<1>3. ASSUME NEW k \in DOMAIN calls[current], calls[current][k].at \in SectionPlaces
      PROVE  FALSE
    <2>1. DOMAIN calls[current] \subseteq Nat \ {0}
        <3>1. DOMAIN calls[current] = 1 .. Len(calls[current]) /\ Len(calls[current]) \in Nat
            BY LenProperties DEF StackOK, Calls
        <3> QED BY <3>1
    <2>2. 1 < k \/ k = 1
        BY <2>1
    <2> QED BY <1>1, <1>3, <2>2 DEF LockInv, CallHolder
<1>4. ~queueLock
    BY <1>2, <1>3 DEF LockInv, Held
<1> QED BY <1>4, Unlocked

LEMMA InvokeLock ==
    ASSUME StackOK, LockInv, current \in Thread, NEW b \in BOOLEAN, Invoke(Yield(b)),
           current' = current, queueLock' = queueLock, SameSections
    PROVE  LockInv'
<1> DEFINE s == calls[current]
           u == calls'[current]
<1>1. /\ DOMAIN u = 1 .. Len(s) + 1
      /\ u[1].at = "entry"
      /\ \A k \in DOMAIN s : u[k + 1] = s[k]
      /\ \A t \in Thread \ {current} : calls'[t] = calls[t]
    BY InvokeFacts, YieldIsCall DEF StackOK
<1>2. Len(s) \in Nat /\ DOMAIN s = 1 .. Len(s)
    BY LenProperties DEF StackOK, Calls
<1>3. ASSUME NEW k \in DOMAIN u, k # 1
      PROVE  k - 1 \in DOMAIN s /\ u[k] = s[k - 1] /\ k - 1 \in Nat /\ k \in Nat
    <2>1. k - 1 \in DOMAIN s /\ (k - 1) + 1 = k
        BY <1>1, <1>2, <1>3
    <2>2. u[(k - 1) + 1] = s[k - 1]
        BY <1>1, <2>1
    <2> QED BY <1>2, <2>1, <2>2
<1>4. OwnHolder'
    BY <1>1, <1>3 DEF LockInv, OwnHolder, SameSections
<1>5. CallHolder'
    <2> SUFFICES ASSUME NEW t \in Thread, NEW k \in DOMAIN calls'[t],
                        calls'[t][k].at \in SectionPlaces
                 PROVE  /\ queueLock' /\ t = current' /\ ~OwnSection(t)'
                        /\ \A j \in DOMAIN calls'[t] :
                               /\ j < k => calls'[t][j].at \in {"entry", "relock"}
                               /\ j > k => calls'[t][j].at # "relock"
        BY DEF CallHolder
    <2>1. t = current
        BY <1>1 DEF LockInv, CallHolder
    <2>2. k # 1
        BY <1>1, <2>1 DEF SectionPlaces
    <2>3. k - 1 \in DOMAIN s /\ u[k] = s[k - 1]
        BY <1>3, <2>1, <2>2
    <2>4. /\ queueLock /\ ~OwnSection(t)
          /\ \A j \in DOMAIN s : /\ j < k - 1 => s[j].at \in {"entry", "relock"}
                                 /\ j > k - 1 => s[j].at # "relock"
        BY <2>1, <2>3 DEF LockInv, CallHolder
    <2>5. ASSUME NEW j \in DOMAIN u
          PROVE  /\ j < k => u[j].at \in {"entry", "relock"}
                 /\ j > k => u[j].at # "relock"
        <3>1. CASE j = 1
            <4>1. u[j].at \in {"entry", "relock"} /\ u[j].at # "relock"
                BY <1>1, <3>1
            <4> HIDE DEF u
            <4> QED BY <4>1
        <3>2. CASE j # 1
            <4>1. j - 1 \in DOMAIN s /\ u[j] = s[j - 1] /\ j \in Nat /\ k \in Nat
                BY <1>3, <2>1, <3>2
            <4>2. ASSUME j < k PROVE u[j].at \in {"entry", "relock"}
                <5>1. j - 1 < k - 1
                    BY <4>1, <4>2
                <5> QED BY <2>4, <4>1, <5>1
            <4>3. ASSUME j > k PROVE u[j].at # "relock"
                <5>1. j - 1 > k - 1
                    BY <4>1, <4>3
                <5> QED BY <2>4, <4>1, <5>1
            <4> QED BY <4>2, <4>3
        <3> QED BY <3>1, <3>2
    <2> QED BY <2>1, <2>4, <2>5 DEF SameSections
<1>6. Relocking'
    <2>1. ASSUME NEW k \in DOMAIN u, u[k].at = "relock" PROVE k # 1 /\ queueLock
        BY <1>1, <1>3, <2>1 DEF LockInv, Relocking
    <2> QED BY <1>1, <2>1 DEF LockInv, Relocking
<1>7. Held'
    <2>1. ASSUME NEW k \in DOMAIN s PROVE k + 1 \in DOMAIN u /\ u[k + 1] = s[k]
        BY <1>1, <1>2
    <2> QED BY <2>1 DEF LockInv, Held, SameSections
<1> QED BY <1>4, <1>5, <1>6, <1>7 DEF LockInv

LEMMA SameLock ==
    ASSUME LockInv, UNCHANGED <<calls, current, queueLock>>, SameSections, current \in Thread
    PROVE  LockInv'
BY DEF LockInv, OwnHolder, CallHolder, Relocking, Held, SameSections

(* Entering, being in and leaving the section.                             *)
LEMMA AcquireLock ==
    ASSUME StackOK, LockInv, ~queueLock, current \in Thread, calls[current] # <<>>,
           NEW c \in Call, c.at \in SectionPlaces, Proceed(c),
           queueLock' = TRUE, UNCHANGED <<current, pc>>
    PROVE  LockInv'
<1>1. /\ DOMAIN calls'[current] = DOMAIN calls[current] /\ 1 \in DOMAIN calls[current]
      /\ calls'[current][1] = c
      /\ \A k \in DOMAIN calls[current] \ {1} : calls'[current][k] = calls[current][k]
      /\ \A t \in Thread \ {current} : calls'[t] = calls[t]
    BY ProceedFacts, TopFacts DEF StackOK
<1>2. DOMAIN calls[current] = 1 .. Len(calls[current]) /\ Len(calls[current]) \in Nat
    BY LenProperties DEF StackOK, Calls
<1>3. NoSection
    BY Unlocked
<1>4. OwnHolder' /\ Held'
    BY <1>1, <1>3 DEF NoSection, OwnHolder, Held, OwnSection
<1>5. ASSUME NEW t \in Thread, NEW k \in DOMAIN calls'[t]
      PROVE  /\ calls'[t][k].at # "relock"
             /\ calls'[t][k].at \in SectionPlaces => t = current /\ k = 1
    BY <1>1, <1>3 DEF NoSection, SectionPlaces
<1>6. Relocking'
    BY <1>5 DEF Relocking
<1>7. CallHolder'
    <2> SUFFICES ASSUME NEW t \in Thread, NEW k \in DOMAIN calls'[t],
                        calls'[t][k].at \in SectionPlaces
                 PROVE  /\ t = current' /\ ~OwnSection(t)'
                        /\ \A j \in DOMAIN calls'[t] :
                               /\ j < k => calls'[t][j].at \in {"entry", "relock"}
                               /\ j > k => calls'[t][j].at # "relock"
        BY DEF CallHolder
    <2>1. t = current /\ k = 1
        BY <1>5
    <2>2. ~OwnSection(t)'
        BY <1>3 DEF NoSection, OwnSection
    <2>3. \A j \in DOMAIN calls'[t] : ~(j < k)
        BY <1>1, <1>2, <2>1
    <2> QED BY <1>5, <2>1, <2>2, <2>3
<1> QED BY <1>4, <1>6, <1>7 DEF LockInv

LEMMA HeldTop ==
    ASSUME StackOK, LockInv, current \in Thread, calls[current] # <<>>,
           Top.at \in SectionPlaces
    PROVE  /\ queueLock /\ \A t \in Thread : ~OwnSection(t)
           /\ \A t \in Thread : \A k \in DOMAIN calls[t] :
                  /\ calls[t][k].at # "relock"
                  /\ calls[t][k].at \in SectionPlaces => t = current /\ k = 1
<1>1. /\ 1 \in DOMAIN calls[current] /\ Top = calls[current][1]
      /\ DOMAIN calls[current] = 1 .. Len(calls[current]) /\ Len(calls[current]) \in Nat
    BY TopFacts, LenProperties DEF Top, StackOK, Calls
<1>2. queueLock /\ ~OwnSection(current)
    BY <1>1 DEF LockInv, CallHolder
<1>3. \A t \in Thread : ~OwnSection(t)
    BY <1>2 DEF LockInv, OwnHolder
<1>4. ASSUME NEW t \in Thread, NEW k \in DOMAIN calls[t]
      PROVE  /\ calls[t][k].at # "relock"
             /\ calls[t][k].at \in SectionPlaces => t = current /\ k = 1
    <2>1. CASE t # current
        BY <2>1 DEF LockInv, CallHolder, Relocking
    <2>2. CASE t = current /\ k = 1
        BY <1>1, <2>2 DEF SectionPlaces
    <2>3. CASE t = current /\ k # 1
        <3>1. 1 < k /\ k > 1
            BY <1>1, <2>3
        <3>2. calls[t][k].at # "relock"
            BY <1>1, <2>3, <3>1 DEF LockInv, CallHolder
        <3>3. calls[t][k].at \notin SectionPlaces
            BY <1>1, <2>3, <3>1 DEF LockInv, CallHolder, SectionPlaces
        <3> QED BY <3>2, <3>3
    <2> QED BY <2>1, <2>2, <2>3
<1> QED BY <1>2, <1>3, <1>4

LEMMA ReleaseLock ==
    ASSUME StackOK, LockInv, current \in Thread, calls[current] # <<>>,
           Top.at \in SectionPlaces, NEW c \in Call, Proceed(c),
           c.at \notin SectionPlaces \cup {"relock"},
           queueLock' = FALSE, UNCHANGED <<current, pc>>
    PROVE  LockInv'
<1>1. /\ DOMAIN calls'[current] = DOMAIN calls[current]
      /\ calls'[current][1] = c
      /\ \A k \in DOMAIN calls[current] \ {1} : calls'[current][k] = calls[current][k]
      /\ \A t \in Thread \ {current} : calls'[t] = calls[t]
    BY ProceedFacts DEF StackOK
<1>2. ASSUME NEW t \in Thread
      PROVE  /\ ~OwnSection(t)'
             /\ \A k \in DOMAIN calls'[t] :
                    calls'[t][k].at \notin SectionPlaces \cup {"relock"}
    BY <1>1, HeldTop DEF OwnSection
<1>3. NoSection'
    BY <1>2 DEF NoSection
<1> QED BY <1>3, FreeLockNext

LEMMA StayInLock ==
    ASSUME StackOK, LockInv, current \in Thread, calls[current] # <<>>,
           Top.at \in SectionPlaces, NEW c \in Call, c.at \in SectionPlaces, Proceed(c),
           UNCHANGED <<current, pc, queueLock>>
    PROVE  LockInv'
<1>1. /\ DOMAIN calls'[current] = DOMAIN calls[current] /\ 1 \in DOMAIN calls[current]
      /\ calls'[current][1] = c
      /\ \A k \in DOMAIN calls[current] \ {1} : calls'[current][k] = calls[current][k]
      /\ \A t \in Thread \ {current} : calls'[t] = calls[t]
    BY ProceedFacts, TopFacts DEF StackOK
<1>2. Top = calls[current][1]
    BY DEF Top
<1>3. \A t \in Thread : DOMAIN calls'[t] = DOMAIN calls[t]
    BY <1>1
<1>4. \A t \in Thread : \A k \in DOMAIN calls[t] :
          calls'[t][k] = calls[t][k] \/ (t = current /\ k = 1)
    BY <1>1
<1>5. queueLock /\ \A t \in Thread : ~OwnSection(t)
    BY HeldTop
<1>6. ASSUME NEW t \in Thread, NEW k \in DOMAIN calls'[t]
      PROVE  /\ calls'[t][k].at # "relock"
             /\ calls'[t][k].at \in SectionPlaces => t = current /\ k = 1
    BY <1>1, <1>3, <1>4, HeldTop DEF SectionPlaces
<1>7. OwnHolder' /\ Held' /\ Relocking'
    BY <1>1, <1>5, <1>6 DEF OwnHolder, Held, Relocking, OwnSection
<1>8. DOMAIN calls[current] = 1 .. Len(calls[current]) /\ Len(calls[current]) \in Nat
    BY LenProperties DEF StackOK, Calls
<1>9. CallHolder'
    <2> SUFFICES ASSUME NEW t \in Thread, NEW k \in DOMAIN calls'[t],
                        calls'[t][k].at \in SectionPlaces
                 PROVE  /\ queueLock' /\ t = current' /\ ~OwnSection(t)'
                        /\ \A j \in DOMAIN calls'[t] :
                               /\ j < k => calls'[t][j].at \in {"entry", "relock"}
                               /\ j > k => calls'[t][j].at # "relock"
        BY DEF CallHolder
    <2>1. t = current /\ k = 1
        BY <1>6
    <2>2. \A j \in DOMAIN calls'[t] : ~(j < k)
        BY <1>1, <1>8, <2>1
    <2> QED BY <1>5, <1>6, <2>1, <2>2 DEF OwnSection
<1> QED BY <1>7, <1>9 DEF LockInv

(* A call that met the lock in use waits below a new call of yield.        *)
LEMMA SuspendLock ==
    ASSUME StackOK, LockInv, queueLock, current \in Thread, calls[current] # <<>>,
           Top.at = "entry", NEW c \in Call, c.at = "relock", Suspend(c),
           UNCHANGED <<current, pc, queueLock>>
    PROVE  LockInv'
<1> DEFINE s == calls[current]
           u == calls'[current]
<1>1. /\ DOMAIN u = 1 .. Len(s) + 1
      /\ u[1].at = "entry" /\ u[2] = c
      /\ \A k \in DOMAIN s \ {1} : u[k + 1] = s[k]
      /\ \A t \in Thread \ {current} : calls'[t] = calls[t]
    BY SuspendFacts, YieldIsCall DEF StackOK
<1>2. Len(s) \in Nat \ {0} /\ DOMAIN s = 1 .. Len(s) /\ s[1].at = "entry"
    BY Popped DEF StackOK, Calls, Top
<1>3. ASSUME NEW k \in DOMAIN u, k # 1, k # 2
      PROVE  /\ k - 1 \in DOMAIN s \ {1} /\ u[k] = s[k - 1]
             /\ k \in Nat /\ k - 1 \in Nat
    <2>1. k - 1 \in DOMAIN s \ {1} /\ (k - 1) + 1 = k /\ k \in Nat /\ k - 1 \in Nat
        BY <1>1, <1>2, <1>3
    <2>2. u[(k - 1) + 1] = s[k - 1]
        BY <1>1, <2>1
    <2> QED BY <2>1, <2>2
<1>4. OwnHolder'
    <2>1. ASSUME NEW k \in DOMAIN u, OwnSection(current)
          PROVE  u[k].at \in {"entry", "relock"}
        <3>1. CASE k = 1 \/ k = 2
            BY <1>1, <3>1
        <3>2. CASE k # 1 /\ k # 2
            BY <1>3, <2>1, <3>2 DEF LockInv, OwnHolder
        <3> QED BY <3>1, <3>2
    <2> QED BY <2>1 DEF LockInv, OwnHolder, OwnSection
<1>5. CallHolder'
    <2> SUFFICES ASSUME NEW t \in Thread, NEW k \in DOMAIN calls'[t],
                        calls'[t][k].at \in SectionPlaces
                 PROVE  /\ queueLock' /\ t = current' /\ ~OwnSection(t)'
                        /\ \A j \in DOMAIN calls'[t] :
                               /\ j < k => calls'[t][j].at \in {"entry", "relock"}
                               /\ j > k => calls'[t][j].at # "relock"
        BY DEF CallHolder
    <2>1. t = current
        BY <1>1 DEF LockInv, CallHolder
    <2>2. k # 1 /\ k # 2
        BY <1>1, <2>1 DEF SectionPlaces
    <2>3. k - 1 \in DOMAIN s /\ u[k] = s[k - 1] /\ k \in Nat /\ k > 2
        BY <1>1, <1>2, <1>3, <2>1, <2>2
    <2>4. /\ ~OwnSection(t)
          /\ \A j \in DOMAIN s : /\ j < k - 1 => s[j].at \in {"entry", "relock"}
                                 /\ j > k - 1 => s[j].at # "relock"
        BY <2>1, <2>3 DEF LockInv, CallHolder
    <2>5. ASSUME NEW j \in DOMAIN u
          PROVE  /\ j < k => u[j].at \in {"entry", "relock"}
                 /\ j > k => u[j].at # "relock"
        <3>1. CASE j = 1 \/ j = 2
            <4>1. u[j].at \in {"entry", "relock"}
                BY <1>1, <3>1
            <4>2. ~(j > k)
                BY <2>3, <3>1
            <4> HIDE DEF u
            <4> QED BY <4>1, <4>2
        <3>2. CASE j # 1 /\ j # 2
            <4>1. j - 1 \in DOMAIN s /\ u[j] = s[j - 1] /\ j \in Nat
                BY <1>3, <3>2
            <4>2. ASSUME j < k PROVE u[j].at \in {"entry", "relock"}
                <5>1. j - 1 < k - 1
                    BY <2>3, <4>1, <4>2
                <5> QED BY <2>4, <4>1, <5>1
            <4>3. ASSUME j > k PROVE u[j].at # "relock"
                <5>1. j - 1 > k - 1
                    BY <2>3, <4>1, <4>3
                <5> QED BY <2>4, <4>1, <5>1
            <4> QED BY <4>2, <4>3
        <3> QED BY <3>1, <3>2
    <2> QED BY <2>1, <2>4, <2>5 DEF OwnSection
<1>6. Relocking'
    <2>1. ASSUME NEW t \in Thread, NEW k \in DOMAIN calls'[t], calls'[t][k].at = "relock"
          PROVE  k # 1 /\ t = current
        BY <1>1, <2>1 DEF LockInv, Relocking
    <2> QED BY <2>1 DEF Relocking
<1>7. Held'
    <2>1. ASSUME NEW k \in DOMAIN s, s[k].at \in SectionPlaces
          PROVE  k + 1 \in DOMAIN u /\ u[k + 1] = s[k]
        <3>1. k # 1
            BY <1>2, <2>1 DEF SectionPlaces
        <3> QED BY <1>1, <1>2, <3>1
    <2> QED BY <2>1 DEF LockInv, Held, OwnSection
<1> QED BY <1>4, <1>5, <1>6, <1>7 DEF LockInv

(* A step that meets nobody in the section and brings nobody there.        *)
LEMMA OutsideLock ==
    ASSUME NoSection, NEW c, Origin(c), c.at \notin SectionPlaces \cup {"relock"},
           queueLock' = FALSE, SameSections
    PROVE  LockInv'
<1>1. ASSUME NEW t \in Thread
      PROVE  /\ ~OwnSection(t)'
             /\ \A k \in DOMAIN calls'[t] :
                    calls'[t][k].at \notin SectionPlaces \cup {"relock"}
    BY DEF Origin, NoSection, SectionPlaces, SameSections
<1>2. NoSection'
    BY <1>1 DEF NoSection
<1> QED BY <1>2, FreeLockNext

LEMMA LockYieldStep == ASSUME Typed, LockInv, YieldStep PROVE LockInv'
<1>1. /\ current \in Thread /\ StackOK /\ calls[current] # <<>> /\ Top \in Call
      /\ ready \in Seq(Thread) /\ diskQueue \in Seq(Thread)
      /\ queueLock \in BOOLEAN /\ drive.busy \in BOOLEAN
    BY TopFacts DEF Typed, RestOK, Drives, YieldStep, Enter, Look, UnlockLook, TestHead, TakeHead,
       CompareHead, ClearHead, ClearTail, AdvanceHead, LockForIO, PopDiskQueue, UnlockForIO,
       Dispatch, InYield
<1>2. CASE Enter
    <2> DEFINE c == [Top EXCEPT !.interrupt = FALSE,
                                !.regular = ~Top.interrupt /\ drive.busy]
               held == [c EXCEPT !.at = "look"]
               late == [c EXCEPT !.at = "relock"]
    <2>1. held \in Call /\ held.at = "look" /\ late \in Call /\ late.at = "relock"
        BY <1>1 DEF Call
    <2>2. LockQueueIn(held, late) /\ Top.at = "entry" /\ UNCHANGED <<current, pc>>
        BY <1>2 DEF Enter, InYield, Top, own
    <2>3. CASE queueLock
        BY <1>1, <2>1, <2>2, <2>3, SuspendLock DEF LockQueueIn
    <2>4. CASE ~queueLock
        BY <1>1, <2>1, <2>2, <2>4, AcquireLock DEF LockQueueIn, SectionPlaces
    <2> QED BY <2>3, <2>4
<1>3. CASE Look
    <2>1. LookAt(Top) \in Call /\ LookAt(Top).at = "unlock" /\ Top.at = "look"
        BY <1>1, <1>3 DEF Call, LookAt, Look, InYield, Top
    <2> QED BY <1>1, <1>3, <2>1, StayInLock DEF Look, SectionPlaces, own, locks
<1>4. CASE UnlockLook
    <2> DEFINE c == [Top EXCEPT !.at = IF Top.regular THEN "head" ELSE "iolock",
                                !.regular = FALSE]
    <2>1. c \in Call /\ c.at \in {"head", "iolock"} /\ Top.at = "unlock"
        BY <1>1, <1>4 DEF Call, UnlockLook, InYield, Top
    <2>2. c.at \notin SectionPlaces \cup {"relock"} /\ Top.at \in SectionPlaces
        BY <2>1 DEF SectionPlaces
    <2> QED BY <1>1, <1>4, <2>1, <2>2, ReleaseLock DEF UnlockLook, own
<1>5. ASSUME Top.at \in {"head", "take", "compare", "clear", "cleartail", "advance",
                        "iolock", "dispatch"}
      PROVE  NoSection
    BY <1>1, <1>5, TopOutside DEF LockInv, SectionPlaces
<1>6. SameSections
    BY DEF SameSections, OwnSection, own, Lost, YieldStep, Enter, Look, UnlockLook, TestHead, TakeHead,
       CompareHead, ClearHead, ClearTail, AdvanceHead, LockForIO, PopDiskQueue, UnlockForIO,
       Dispatch
<1>7. CASE TestHead
    <2> DEFINE c == [Top EXCEPT !.at = "take"]
    <2>1. NoSection /\ queueLock' = FALSE
        BY <1>1, <1>5, <1>7 DEF TestHead, InYield, Top, locks, NoSection
    <2>2. c.at \notin SectionPlaces \cup {"relock"} /\ c \in Call
        BY <1>1 DEF Call, SectionPlaces
    <2>3. Origin(c)
        BY <1>1, <1>7, <2>2, ReturnOrigin, ProceedOrigin DEF TestHead
    <2> QED BY <1>6, <2>1, <2>2, <2>3, OutsideLock
<1>8. CASE TakeHead
    <2> DEFINE c == [Top EXCEPT !.at = "compare",
                                !.node = IF ready = <<>> THEN None ELSE Head(ready)]
    <2>1. NoSection /\ queueLock' = FALSE
        BY <1>1, <1>5, <1>8 DEF TakeHead, InYield, Top, locks, NoSection
    <2>2. c.at \notin SectionPlaces \cup {"relock"} /\ c \in Call
        BY <1>1, QueueFacts DEF Call, SectionPlaces
    <2>3. Origin(c)
        BY <1>1, <1>8, <2>2, ProceedOrigin DEF TakeHead
    <2> QED BY <1>6, <2>1, <2>2, <2>3, OutsideLock
<1>13. CASE CompareHead
    <2> DEFINE c == [Top EXCEPT !.at = IF HeadIsTail THEN "clear" ELSE "advance"]
    <2>1. NoSection /\ queueLock' = FALSE
        BY <1>1, <1>5, <1>13 DEF CompareHead, InYield, Top, locks, NoSection
    <2>2. c.at \notin SectionPlaces \cup {"relock"} /\ c \in Call
        BY <1>1 DEF Call, SectionPlaces
    <2>3. Origin(c)
        BY <1>1, <1>13, <2>2, ProceedOrigin DEF CompareHead
    <2> QED BY <1>6, <2>1, <2>2, <2>3, OutsideLock
<1>14. CASE ClearHead
    <2> DEFINE c == [Top EXCEPT !.at = "cleartail"]
    <2>1. NoSection /\ queueLock' = FALSE
        BY <1>1, <1>5, <1>14 DEF ClearHead, InYield, Top, locks, NoSection
    <2>2. c.at \notin SectionPlaces \cup {"relock"} /\ c \in Call
        BY <1>1 DEF Call, SectionPlaces
    <2>3. Origin(c)
        BY <1>1, <1>14, <2>2, ProceedOrigin DEF ClearHead
    <2> QED BY <1>6, <2>1, <2>2, <2>3, OutsideLock
<1>15. CASE ClearTail
    <2> DEFINE c == [Top EXCEPT !.at = "dispatch"]
    <2>1. NoSection /\ queueLock' = FALSE
        BY <1>1, <1>5, <1>15 DEF ClearTail, InYield, Top, locks, NoSection
    <2>2. c.at \notin SectionPlaces \cup {"relock"} /\ c \in Call
        BY <1>1 DEF Call, SectionPlaces
    <2>3. Origin(c)
        BY <1>1, <1>15, <2>2, ProceedOrigin DEF ClearTail
    <2> QED BY <1>6, <2>1, <2>2, <2>3, OutsideLock
<1>16. CASE AdvanceHead
    <2> DEFINE c == [Top EXCEPT !.at = "dispatch"]
    <2>1. NoSection /\ queueLock' = FALSE
        BY <1>1, <1>5, <1>16 DEF AdvanceHead, InYield, Top, Lost, locks, NoSection
    <2>2. c.at \notin SectionPlaces \cup {"relock"} /\ c \in Call
        BY <1>1 DEF Call, SectionPlaces
    <2>3. Origin(c)
        BY <1>1, <1>16, <2>2, SameOrigin, ProceedOrigin DEF AdvanceHead, Lost
    <2> QED BY <1>6, <2>1, <2>2, <2>3, OutsideLock
<1>9. CASE LockForIO
    <2> DEFINE held == [Top EXCEPT !.at = "iopop"]
    <2>1. NoSection
        BY <1>1, <1>5, <1>9 DEF LockForIO, InYield, Top
    <2>2. held.at = "iopop" /\ held \in Call
        BY <1>1 DEF Call
    <2>3. Proceed(held) /\ queueLock' = TRUE /\ ~queueLock /\ UNCHANGED <<current, pc>>
        BY <1>9, <2>1 DEF LockForIO, LockQueueIn, NoSection, own
    <2> QED BY <1>1, <2>2, <2>3, AcquireLock DEF SectionPlaces
<1>10. CASE PopDiskQueue
    <2> DEFINE c == [Top EXCEPT !.at = "iounlock", !.node = Head(diskQueue)]
    <2>1. CASE diskQueue = <<>>
        BY <1>1, <1>6, <1>10, <2>1, SameLock DEF PopDiskQueue, Lost, locks
    <2>2. CASE diskQueue # <<>>
        <3>1. c \in Call /\ c.at = "iounlock" /\ Top.at = "iopop"
            BY <1>1, <1>10, <2>2, QueueFacts DEF Call, PopDiskQueue, InYield, Top
        <3> QED BY <1>1, <1>10, <2>2, <3>1, StayInLock DEF PopDiskQueue, SectionPlaces, own, locks
    <2> QED BY <2>1, <2>2
<1>11. CASE UnlockForIO
    <2> DEFINE c == [Top EXCEPT !.at = "dispatch"]
    <2>1. c \in Call /\ c.at = "dispatch" /\ Top.at = "iounlock"
        BY <1>1, <1>11 DEF Call, UnlockForIO, InYield, Top
    <2>2. c.at \notin SectionPlaces \cup {"relock"} /\ Top.at \in SectionPlaces
        BY <2>1 DEF SectionPlaces
    <2> QED BY <1>1, <1>11, <2>1, <2>2, ReleaseLock DEF UnlockForIO, own
<1>12. CASE Dispatch
    <2> DEFINE c == [Top EXCEPT !.at = "dispatch"]
    <2>1. NoSection /\ queueLock' = FALSE
        BY <1>1, <1>5, <1>12 DEF Dispatch, InYield, Top, Lost, locks, NoSection
    <2>2. c.at = "dispatch"
        BY <1>1 DEF Call
    <2>3. Origin(c)
        BY <1>1, <1>12, ReturnOrigin, SameOrigin DEF Dispatch, Lost
    <2> QED BY <1>6, <2>1, <2>2, <2>3, OutsideLock DEF SectionPlaces
<1> QED BY <1>2, <1>3, <1>4, <1>7, <1>8, <1>9, <1>10, <1>11, <1>12, <1>13,
        <1>14, <1>15, <1>16 DEF YieldStep

(* The thread's own code moves on, outside the section before and after.   *)
LEMMA GotoSections ==
    ASSUME RestOK, NEW place, Goto(place),
           pc[current] \notin {"append", "unlock"}, place \notin {"append", "unlock"}
    PROVE  SameSections
<1>1. /\ pc'[current] = place
      /\ \A t \in Thread \ {current} : pc'[t] = pc[t]
    BY DEF RestOK, Goto
<1> QED BY <1>1 DEF SameSections, OwnSection

LEMMA SamePlaces == UNCHANGED pc => SameSections
BY DEF SameSections, OwnSection

(* The steps of the driver's read and write.                               *)
LEMMA LockDriverStep == ASSUME Typed, LockInv, DriverStep PROVE LockInv'
<1>1. StackOK /\ RestOK /\ current \in Thread /\ queueLock \in BOOLEAN
    BY DEF Typed, RestOK
<1>2. current' = current
    BY DEF DriverStep, LockQueue, AppendSelf, UnlockQueue, LockHardware, Waiting,
       WaitToIssue, IssueCommand, WaitForData, CopyWords, WaitForFlush, UnlockHardware,
       FinishOperation
<1>3. CASE LockQueue
    <2>1. CASE queueLock
        BY <1>1, <1>2, <1>3, <2>1, InvokeLock, SamePlaces DEF LockQueue
    <2>2. CASE ~queueLock
        <3>1. /\ NoSection /\ Goto("append") /\ queueLock' = TRUE /\ UNCHANGED calls
              /\ calls[current] = <<>>
            BY <1>3, <2>2, Unlocked DEF LockQueue, At
        <3>2. /\ pc'[current] = "append"
              /\ \A t \in Thread \ {current} : pc'[t] = pc[t]
            BY <1>1, <3>1 DEF Goto, RestOK
        <3>3. DOMAIN calls[current] = {}
            BY <3>1
        <3>4. OwnHolder' /\ Held' /\ Relocking'
            BY <1>2, <3>1, <3>2, <3>3
               DEF OwnHolder, Held, Relocking, OwnSection, NoSection
        <3>5. CallHolder'
            BY <3>1 DEF CallHolder, NoSection
        <3> QED BY <3>4, <3>5 DEF LockInv
    <2> QED BY <1>1, <2>1, <2>2
<1>4. CASE AppendSelf
    <2>1. /\ pc[current] = "append" /\ pc' = [pc EXCEPT ![current] = "unlock"]
          /\ UNCHANGED <<calls, queueLock>>
        BY <1>4 DEF AppendSelf, At, Goto, locks
    <2>2. SameSections
        BY <1>1, <2>1 DEF RestOK, SameSections, OwnSection
    <2> QED BY <1>1, <1>2, <2>1, <2>2, SameLock
<1>5. CASE UnlockQueue
    <2>1. /\ pc[current] = "unlock" /\ Goto("hwlock") /\ queueLock' = FALSE /\ UNCHANGED calls
          /\ calls[current] = <<>>
        BY <1>5 DEF UnlockQueue, At
    <2>2. /\ pc'[current] = "hwlock"
          /\ \A t \in Thread \ {current} : pc'[t] = pc[t]
        BY <1>1, <2>1 DEF Goto, RestOK
    <2>3. \A t \in Thread : ~OwnSection(t)'
        BY <1>1, <2>2 DEF OwnSection, LockInv, OwnHolder
    <2>4. \A t \in Thread : \A k \in DOMAIN calls[t] :
              calls[t][k].at \notin SectionPlaces \cup {"relock"}
        BY <1>1, <2>1 DEF LockInv, CallHolder, Relocking
    <2>5. NoSection'
        BY <2>1, <2>3, <2>4 DEF NoSection
    <2> QED BY <2>5, FreeLockNext
<1>6. CASE LockHardware
    <2>1. CASE hwLock
        BY <1>1, <1>2, <1>6, <2>1, InvokeLock, SamePlaces DEF LockHardware
    <2>2. CASE ~hwLock
        <3>1. /\ pc[current] = "hwlock" /\ Goto("issue") /\ UNCHANGED <<calls, queueLock>>
            BY <1>6, <2>2 DEF LockHardware, TakeHardware, At
        <3>2. SameSections
            BY <1>1, <3>1, GotoSections
        <3> QED BY <1>1, <1>2, <3>1, <3>2, SameLock
    <2> QED BY <2>1, <2>2
<1>7. ASSUME NEW place \in {"issue", "poll", "flush"},
             NEW next \in {"command", "copy", "hwunlock"}, Waiting(place, next)
      PROVE  LockInv'
    <2>1. queueLock' = queueLock /\ pc[current] = place
        BY <1>7 DEF Waiting, At, locks
    <2>2. CASE drive.busy
        BY <1>1, <1>2, <1>7, <2>1, <2>2, InvokeLock, SamePlaces DEF Waiting
    <2>3. CASE ~drive.busy
        <3>1. SameSections
            BY <1>1, <1>7, <2>1, <2>3, GotoSections DEF Waiting
        <3> QED BY <1>1, <1>2, <1>7, <2>1, <2>3, <3>1, SameLock DEF Waiting
    <2> QED BY <2>2, <2>3
<1>8. CASE IssueCommand
    <2>1. SameSections
        BY <1>1, <1>8, GotoSections DEF IssueCommand, At
    <2> QED BY <1>1, <1>2, <1>8, <2>1, SameLock DEF IssueCommand, locks
<1>9. CASE CopyWords
    <2>1. SameSections
        BY <1>1, <1>9, GotoSections DEF CopyWords, At
    <2> QED BY <1>1, <1>2, <1>9, <2>1, SameLock DEF CopyWords, locks
<1>10. CASE UnlockHardware
    <2>1. SameSections
        BY <1>1, <1>10, GotoSections DEF UnlockHardware, At
    <2> QED BY <1>1, <1>2, <1>10, <2>1, SameLock DEF UnlockHardware
<1>11. CASE FinishOperation
    <2>1. SameSections
        BY <1>1, <1>11, GotoSections DEF FinishOperation, At
    <2> QED BY <1>1, <1>2, <1>11, <2>1, InvokeLock DEF FinishOperation, locks
<1> QED BY <1>3, <1>4, <1>5, <1>6, <1>7, <1>8, <1>9, <1>10, <1>11
        DEF DriverStep, WaitToIssue, WaitForData, WaitForFlush

(* The steps of the thread functions, of the drive and of the interrupts.  *)
LEMMA LockOutsideStep ==
    ASSUME Typed, LockInv, ~YieldStep, ~DriverStep, Next \/ UNCHANGED vars
    PROVE  LockInv'
<1>1. StackOK /\ RestOK /\ current \in Thread
    BY DEF Typed, RestOK
<1>2. CASE ThreadStart
    <2>1. SameSections
        BY <1>1, <1>2, GotoSections DEF ThreadStart, At, FirstPlace
    <2> QED BY <1>1, <1>2, <2>1, SameLock DEF ThreadStart, locks
<1>3. CASE PassOnCPU
    <2>1. SameSections
        BY <1>1, <1>3, GotoSections DEF PassOnCPU, At, FirstPlace
    <2> QED BY <1>1, <1>3, <2>1, InvokeLock DEF PassOnCPU, locks
<1>4. CASE ThreadShutdown
    <2>1. SameSections
        BY <1>1, <1>4, GotoSections DEF ThreadShutdown, At
    <2> QED BY <1>1, <1>4, <2>1, InvokeLock DEF ThreadShutdown, locks
<1>5. ASSUME UNCHANGED <<calls, current, queueLock, pc>> PROVE LockInv'
    BY <1>1, <1>5, SameLock, SamePlaces
<1>6. CASE FallOffStack \/ Complete \/ UNCHANGED vars
    BY <1>5, <1>6 DEF FallOffStack, Lost, Complete, vars, own, locks
<1>7. ASSUME NEW b \in BOOLEAN, Preempt(b) PROVE LockInv'
    BY <1>1, <1>7, InvokeLock, SamePlaces DEF Preempt, own, locks
<1>8. CASE EndOfQuantum \/ DiskInterrupt
    BY <1>7, <1>8 DEF EndOfQuantum, DiskInterrupt
<1> QED BY <1>2, <1>3, <1>4, <1>6, <1>8 DEF Next, Run

LEMMA LockInvariant == Spec => []LockInv
<1>1. Init => LockInv
    <2> SUFFICES ASSUME Init PROVE NoSection
        BY FreeLock
    <2> QED BY DEF Init, NoSection, OwnSection
<1>2. Typed /\ LockInv /\ [Next]_vars => LockInv'
    BY LockYieldStep, LockDriverStep, LockOutsideStep
<1> QED BY <1>1, <1>2, TypedInvariant, PTL DEF Spec

LEMMA InSectionIs ==
    InQueueSection = {t \in Thread : OwnSection(t)} \cup
                     {c \in UnderWay : calls[c[1]][c[2]].at \in SectionPlaces}
BY DEF InQueueSection, OwnSection, UnderWay, SectionPlaces

(* The one that holds the lock is the only one in the section.             *)
LEMMA LockExcludes == ASSUME Typed, LockInv PROVE QueueExclusive
<1>1. StackOK /\ current \in Thread /\ queueLock \in BOOLEAN
    BY DEF Typed, RestOK
<1>4. CASE ~queueLock
    <2>1. InQueueSection = {}
        BY <1>4, Unlocked, UnderWayIs, InSectionIs DEF NoSection
    <2> QED BY <1>4, <2>1, FS_EmptySet DEF QueueExclusive
<1>5. CASE queueLock /\ OwnSection(current)
    <2>1. \A t \in Thread : OwnSection(t) <=> t = current
        BY <1>1, <1>5 DEF LockInv, OwnHolder
    <2>2. \A c \in UnderWay : calls[c[1]][c[2]].at \notin SectionPlaces
        BY <1>5, UnderWayIs DEF LockInv, CallHolder
    <2>3. InQueueSection = {current}
        BY <1>1, <2>1, <2>2, InSectionIs
    <2> QED BY <1>5, <2>3, FS_Singleton DEF QueueExclusive
<1>6. CASE queueLock /\ ~OwnSection(current)
    <2>1. PICK k \in DOMAIN calls[current] : calls[current][k].at \in SectionPlaces
        BY <1>6 DEF LockInv, Held
    <2>2. \A t \in Thread : ~OwnSection(t)
        BY <1>1, <1>6 DEF LockInv, OwnHolder
    <2>3. DOMAIN calls[current] \subseteq Nat
        <3>1. DOMAIN calls[current] = 1 .. Len(calls[current])
            BY <1>1, LenProperties DEF StackOK, Calls
        <3> QED BY <3>1
    <2>4. ASSUME NEW t \in Thread, NEW j \in DOMAIN calls[t],
                 calls[t][j].at \in SectionPlaces
          PROVE  t = current /\ j = k
        <3>1. t = current
            BY <2>4 DEF LockInv, CallHolder
        <3>2. ~(j < k)
            BY <1>1, <2>1, <2>4, <3>1 DEF LockInv, CallHolder, SectionPlaces
        <3>3. ~(k < j)
            BY <1>1, <2>1, <2>4, <3>1 DEF LockInv, CallHolder, SectionPlaces
        <3> QED BY <2>3, <3>1, <3>2, <3>3
    <2>5. <<current, k>> \in UnderWay
        BY <1>1, UnderWayIs
    <2>6. \A c \in UnderWay : calls[c[1]][c[2]].at \in SectionPlaces => c = <<current, k>>
        BY <2>4, UnderWayIs
    <2>7. InQueueSection = {<<current, k>>}
        BY <2>1, <2>2, <2>5, <2>6, InSectionIs
    <2> QED BY <1>6, <2>7, FS_Singleton DEF QueueExclusive
<1> QED BY <1>4, <1>5, <1>6

(* queue_lock keeps the disk queue's list operations apart although lock   *)
(* and unlock are not atomic with them and every thread can be preempted   *)
(* in between: one call at most is between lock and unlock.                *)
THEOREM QueueKeptApart == Spec => []QueueExclusive
BY LockInvariant, LockExcludes, TypedInvariant, PTL

-----------------------------------------------------------------------------
(* hw_lock.  The thread between hw_lock.lock() and unlock() is alone       *)
(* there, and what the drive last did was its command from the moment it   *)
(* issues one.                                                             *)

Within(t) == pc[t] \in InDriver

OneWithin == /\ \A t \in Thread : Within(t) => hwLock
             /\ \A t, u \in Thread : Within(t) /\ Within(u) => t = u
             /\ hwLock => \E t \in Thread : Within(t)

OwnCommand == \A t \in Thread :
    /\ pc[t] \in {"poll", "copy"} => drive.owner = t /\ drive.op = op[t]
    /\ pc[t] = "copy" => ~drive.busy

DriveInv == OneWithin /\ OwnCommand

(* The drive goes on by itself; a command that is over stays over.         *)
SameCommand == /\ drive'.owner = drive.owner /\ drive'.op = drive.op
               /\ ~drive.busy => ~drive'.busy

LEMMA SeenIsSameCommand ==
    ASSUME drive \in Drives, NEW f \in BOOLEAN, drive' = [drive EXCEPT !.seen = f]
    PROVE  SameCommand
BY DEF Drives, SameCommand

LEMMA StayDrive ==
    ASSUME DriveInv, UNCHANGED <<pc, op, hwLock>>, SameCommand
    PROVE  DriveInv'
BY DEF DriveInv, OneWithin, OwnCommand, Within, SameCommand

(* A step of the thread's own code to another place.                       *)
LEMMA GotoFacts ==
    ASSUME RestOK, NEW place, Goto(place)
    PROVE  pc'[current] = place /\ \A t \in Thread \ {current} : pc'[t] = pc[t]
BY DEF RestOK, Goto

LEMMA MoveOutside ==
    ASSUME RestOK, DriveInv, NEW place, Goto(place), ~Within(current), place \notin InDriver,
           \A t \in Thread \ {current} : op'[t] = op[t], UNCHANGED <<hwLock, drive>>
    PROVE  DriveInv'
<1>1. /\ pc'[current] = place /\ \A t \in Thread \ {current} : pc'[t] = pc[t]
      /\ current \in Thread
    BY GotoFacts DEF RestOK
<1>2. \A t \in Thread : Within(t)' <=> Within(t)
    BY <1>1 DEF Within
<1>3. OneWithin'
    BY <1>2 DEF DriveInv, OneWithin
<1>4. OwnCommand'
    BY <1>1 DEF DriveInv, OwnCommand, InDriver
<1> QED BY <1>3, <1>4 DEF DriveInv

LEMMA MoveWithin ==
    ASSUME RestOK, DriveInv, NEW place \in InDriver, Goto(place), Within(current),
           UNCHANGED <<hwLock, op>>,
           place \in {"poll", "copy"} => drive'.owner = current /\ drive'.op = op[current],
           place = "copy" => ~drive'.busy
    PROVE  DriveInv'
<1>1. /\ pc'[current] = place /\ \A t \in Thread \ {current} : pc'[t] = pc[t]
      /\ current \in Thread
    BY GotoFacts DEF RestOK
<1>2. \A t \in Thread : Within(t)' <=> Within(t)
    BY <1>1 DEF Within
<1>3. OneWithin'
    BY <1>2 DEF DriveInv, OneWithin
<1>4. \A t \in Thread \ {current} : pc'[t] \notin {"poll", "copy"}
    BY <1>1 DEF DriveInv, OneWithin, Within, InDriver
<1>5. OwnCommand'
    BY <1>1, <1>4 DEF OwnCommand
<1> QED BY <1>3, <1>5 DEF DriveInv

(* The driver from hw_lock.lock() to unlock().                             *)
LEMMA DriveDriverStep == ASSUME RestOK, DriveInv, DriverStep PROVE DriveInv'
<1>1. drive \in Drives /\ current \in Thread
    BY DEF RestOK
<1>2. ASSUME UNCHANGED <<pc, op, hwLock, drive>> PROVE DriveInv'
    BY <1>2, StayDrive DEF SameCommand
<1>3. CASE LockQueue
    <2>1. CASE queueLock
        BY <1>2, <1>3, <2>1 DEF LockQueue, dev
    <2>2. CASE ~queueLock
        BY <1>3, <2>2, MoveOutside DEF LockQueue, At, Within, InDriver, dev
    <2> QED BY <2>1, <2>2
<1>4. CASE AppendSelf
    BY <1>4, MoveOutside DEF AppendSelf, At, Within, InDriver, dev, locks
<1>5. CASE UnlockQueue
    BY <1>5, MoveOutside DEF UnlockQueue, At, Within, InDriver, dev
<1>6. CASE LockHardware
    <2>1. CASE hwLock
        BY <1>2, <1>6, <2>1 DEF LockHardware, dev
    <2>2. CASE ~hwLock
        <3>1. Goto("issue") /\ hwLock' = TRUE /\ UNCHANGED <<op, drive>>
            BY <1>6, <2>2 DEF LockHardware, TakeHardware, dev
        <3>2. \A t \in Thread : Within(t)' <=> t = current
            BY <1>1, <2>2, <3>1, GotoFacts DEF DriveInv, OneWithin, Within, InDriver
        <3>3. OneWithin'
            BY <1>1, <3>1, <3>2 DEF OneWithin
        <3>4. OwnCommand'
            BY <1>1, <3>1, GotoFacts DEF DriveInv, OwnCommand
        <3> QED BY <3>3, <3>4 DEF DriveInv
    <2> QED BY <2>1, <2>2
<1>7. ASSUME NEW place \in InDriver, NEW next \in InDriver, Waiting(place, next),
             next # "poll", next = "copy" => place = "poll"
      PROVE  DriveInv'
    <2>1. UNCHANGED <<op, hwLock>> /\ pc[current] = place
        BY <1>7 DEF Waiting, At, locks
    <2>2. CASE drive.busy
        <3>1. UNCHANGED pc /\ drive' = [drive EXCEPT !.seen = drive.busy]
            BY <1>7, <2>2 DEF Waiting
        <3>2. drive.busy \in BOOLEAN
            BY <1>1 DEF Drives
        <3> QED BY <1>1, <2>1, <3>1, <3>2, SeenIsSameCommand, StayDrive
    <2>3. CASE ~drive.busy
        <3>1. /\ Goto(next) /\ drive'.owner = drive.owner /\ drive'.op = drive.op
              /\ ~drive'.busy
            BY <1>1, <1>7, <2>3 DEF Waiting, Drives
        <3>2. next = "copy" => drive'.owner = current /\ drive'.op = op[current]
            BY <1>1, <1>7, <2>1, <3>1 DEF DriveInv, OwnCommand
        <3> QED BY <1>7, <2>1, <2>3, <3>1, <3>2, MoveWithin DEF Within
    <2> QED BY <2>2, <2>3
<1>8. CASE WaitToIssue \/ WaitForData \/ WaitForFlush
    BY <1>7, <1>8 DEF WaitToIssue, WaitForData, WaitForFlush, InDriver
<1>9. CASE IssueCommand
    <2>1. /\ Goto("poll") /\ UNCHANGED <<op, hwLock>> /\ Within(current)
          /\ drive'.owner = current /\ drive'.op = op[current]
        BY <1>9 DEF IssueCommand, At, StartCommand, Within, InDriver, locks
    <2> QED BY <2>1, MoveWithin DEF InDriver
<1>10. CASE CopyWords
    <2>1. /\ UNCHANGED <<op, hwLock>> /\ Within(current)
          /\ Goto("flush") \/ Goto("hwunlock")
        BY <1>10 DEF CopyWords, At, Within, InDriver, locks
    <2> QED BY <2>1, MoveWithin DEF InDriver
<1>11. CASE UnlockHardware
    <2>1. /\ Goto("done") /\ hwLock' = FALSE /\ UNCHANGED <<op, drive>>
          /\ Within(current)
        BY <1>11 DEF UnlockHardware, At, Within, InDriver, dev
    <2>2. \A t \in Thread : ~Within(t)'
        BY <1>1, <2>1, GotoFacts DEF DriveInv, OneWithin, Within, InDriver
    <2>3. OneWithin' /\ OwnCommand'
        BY <2>1, <2>2 DEF OneWithin, OwnCommand, Within, InDriver
    <2> QED BY <2>3 DEF DriveInv
<1>12. CASE FinishOperation
    <2>1. /\ Goto(IF op[current] = "read" THEN "queue" ELSE "pass")
          /\ op' = [op EXCEPT ![current] = "write"] /\ UNCHANGED <<hwLock, drive>>
          /\ ~Within(current)
        BY <1>12 DEF FinishOperation, At, Within, InDriver, dev, locks
    <2>2. \A t \in Thread \ {current} : op'[t] = op[t]
        BY <2>1 DEF RestOK
    <2> QED BY <2>1, <2>2, MoveOutside DEF InDriver
<1> QED BY <1>3, <1>4, <1>5, <1>6, <1>8, <1>9, <1>10, <1>11, <1>12 DEF DriverStep

LEMMA DriveOtherStep ==
    ASSUME RestOK, DriveInv, Next \/ UNCHANGED vars, ~DriverStep PROVE DriveInv'
<1>1. drive \in Drives /\ current \in Thread
    BY DEF RestOK
<1>2. ASSUME UNCHANGED <<pc, op, hwLock, drive>> PROVE DriveInv'
    BY <1>2, StayDrive DEF SameCommand
<1>3. CASE ThreadStart
    BY <1>3, MoveOutside
       DEF ThreadStart, At, FirstPlace, Within, InDriver, locks, dev
<1>4. CASE PassOnCPU
    <2>1. /\ Goto(FirstPlace(current)) /\ op' = [op EXCEPT ![current] = "read"]
          /\ UNCHANGED <<hwLock, drive>> /\ ~Within(current)
        BY <1>4 DEF PassOnCPU, At, Within, InDriver, locks, dev
    <2>2. \A t \in Thread \ {current} : op'[t] = op[t]
        BY <2>1 DEF RestOK
    <2> QED BY <2>1, <2>2, MoveOutside DEF FirstPlace, InDriver
<1>5. CASE ThreadShutdown
    BY <1>5, MoveOutside DEF ThreadShutdown, At, Within, InDriver, locks, dev
<1>6. CASE YieldStep
    BY <1>2, <1>6 DEF YieldStep, Enter, Look, UnlockLook, TestHead, TakeHead, CompareHead,
       ClearHead, ClearTail, AdvanceHead, LockForIO, PopDiskQueue, UnlockForIO, Dispatch,
       Lost, own, locks, dev
<1>7. CASE Complete
    <2>1. UNCHANGED <<pc, op, hwLock>>
        BY <1>7 DEF Complete, own, locks
    <2>2. SameCommand
        BY <1>1, <1>7 DEF Complete, Drives, SameCommand
    <2> QED BY <2>1, <2>2, StayDrive
<1>8. CASE FallOffStack \/ EndOfQuantum \/ DiskInterrupt \/ UNCHANGED vars
    BY <1>2, <1>8 DEF FallOffStack, Lost, EndOfQuantum, DiskInterrupt, Preempt,
       vars, own, locks, dev
<1> QED BY <1>3, <1>4, <1>5, <1>6, <1>7, <1>8 DEF Next, Run

LEMMA DriveInvariant == Spec => []DriveInv
<1>1. Init => DriveInv
    BY DEF Init, DriveInv, OneWithin, OwnCommand, Within, InDriver
<1>2. Typed /\ DriveInv /\ [Next]_vars => DriveInv'
    BY DriveDriverStep, DriveOtherStep DEF Typed
<1> QED BY <1>1, <1>2, TypedInvariant, PTL DEF Spec

LEMMA DriveExcludes == DriveInv => OwnData
<1> SUFFICES ASSUME DriveInv PROVE OwnData
    OBVIOUS
<1>1. Cardinality({t \in Thread : pc[t] \in InDriver}) = IF hwLock THEN 1 ELSE 0
    <2>1. CASE hwLock
        <3>1. PICK t \in Thread : Within(t)
            BY <2>1 DEF DriveInv, OneWithin
        <3>2. {u \in Thread : pc[u] \in InDriver} = {t}
            BY <3>1 DEF DriveInv, OneWithin, Within
        <3> QED BY <2>1, <3>2, FS_Singleton
    <2>2. CASE ~hwLock
        <3>1. {u \in Thread : pc[u] \in InDriver} = {}
            BY <2>2 DEF DriveInv, OneWithin, Within
        <3> QED BY <2>2, <3>1, FS_EmptySet
    <2> QED BY <2>1, <2>2
<1> QED BY <1>1 DEF DriveInv, OwnCommand, OwnData

(* hw_lock keeps the drive to one operation from lock to unlock, so the    *)
(* words that read takes from the data register are those of its own       *)
(* finished command: while it polls, with the CPU given away as often as   *)
(* the drive is busy, no other thread's command comes in between.          *)
THEOREM WordsAreOwn == Spec => []OwnData
BY DriveInvariant, DriveExcludes, PTL

-----------------------------------------------------------------------------
(* The kernel as it ships, without preemption: main creates no             *)
(* end-of-quantum timer and does not register the disk for its interrupt,  *)
(* so a thread leaves the CPU only where it calls yield.                   *)

Cooperative == ~Preemptive /\ ~DiskIRQ

CPU == Thread \ IOThread

-----------------------------------------------------------------------------
(* The inductive invariant                                                 *)

(* Without preemption nobody meets the lock in use, so calls of yield do   *)
(* not nest, and only the running thread has one under way.                *)
Flat ==
    /\ \A t \in Thread \ {current} : calls[t] = <<>>
    /\ calls[current] # <<>> =>
           /\ calls[current] = <<Top>> /\ Top \in Call /\ Top.at # "relock"
           /\ pc[current] \notin {"start", "append", "unlock"}

Kinds == /\ \A t \in CPU : pc[t] \in {"start", "pass", "gone"}
         /\ \A t \in IOThread : pc[t] # "gone"

Doing(place) == calls[current] # <<>> /\ Top.at = place

(* tail is right about the ready queue except between yield's two          *)
(* assignments, and what yield has read of the head still holds.           *)
QueueShape ==
    /\ IF Doing("cleartail") THEN ready = <<>>
       ELSE readyTail = IF ready = <<>> THEN "null" ELSE "last"
    /\ Doing("take") => ready # <<>>
    /\ Doing("compare") \/ Doing("clear") \/ Doing("advance") =>
           ready # <<>> /\ Top.node = Head(ready)
    /\ Doing("clear") => Len(ready) = 1
    /\ Doing("advance") => Len(ready) # 1

(* yield has unlinked t's node and not dispatched it yet.                  *)
AtNode(t)  == /\ calls[current] # <<>> /\ Top.at \in {"cleartail", "iounlock", "dispatch"}
              /\ Top.node = t
InReady(t) == t \in Range(ready)
InDisk(t)  == t \in Range(diskQueue)

Once(q, t) == \A i, j \in DOMAIN q : q[i] = t /\ q[j] = t => i = j

(* A thread that stays off the disk stands in the ready queue, once, from  *)
(* pass_on_CPU's resume until a yield unlinks it; one that has shut down   *)
(* stands nowhere.                                                         *)
CpuWaits ==
    \A t \in CPU :
        /\ ~InDisk(t)
        /\ Once(ready, t)
        /\ InReady(t) <=> pc[t] # "gone" /\ ~Running(t) /\ ~AtNode(t)
        /\ AtNode(t) => pc[t] # "gone"

(* A thread on the disk gives up the CPU only while it waits for hw_lock   *)
(* or for the drive, and where it has put itself into the ready queue.     *)
OnCPU == {"append", "unlock", "command", "copy", "hwunlock", "done"}

Found(d) == Running(d) \/ InReady(d) \/ InDisk(d) \/ AtNode(d)

IoWaits ==
    \A d \in IOThread : /\ pc[d] \in OnCPU => Running(d)
                        /\ pc[d] \in {"start", "pass", "queue"} => Found(d)

(* Deleted threads and the zombie have shut down; the zombie is the last   *)
(* one that did, and stays until the next one comes.                       *)
Parked ==
    /\ \A t \in freed \cup {zombie} : t # None => pc[t] = "gone"
    /\ zombie \notin freed /\ current \notin freed
    /\ pc[current] = "gone" => zombie = current

CoopInv == Flat /\ Kinds /\ QueueShape /\ CpuWaits /\ IoWaits /\ Parked

-----------------------------------------------------------------------------
(* Queues                                                                  *)

LEMMA AppendedQueue ==
    ASSUME NEW q \in Seq(Thread), NEW t \in Thread
    PROVE  /\ Range(Append(q, t)) = Range(q) \cup {t}
           /\ \A u \in Thread : u # t /\ Once(q, u) => Once(Append(q, t), u)
           /\ t \notin Range(q) => Once(Append(q, t), t)
<1>1. /\ Len(q) \in Nat /\ DOMAIN q = 1 .. Len(q)
      /\ DOMAIN Append(q, t) = 1 .. Len(q) + 1
      /\ \A i \in 1 .. Len(q) : Append(q, t)[i] = q[i]
      /\ Append(q, t)[Len(q) + 1] = t
    BY AppendProperties, LenProperties
<1>2. \A i \in 1 .. Len(q) + 1 : i \in 1 .. Len(q) \/ i = Len(q) + 1
    BY <1>1
<1>3. 1 .. Len(q) \subseteq 1 .. Len(q) + 1 /\ Len(q) + 1 \in 1 .. Len(q) + 1
    BY <1>1
<1> QED BY <1>1, <1>2, <1>3 DEF Range, Once

LEMMA UnlinkedQueue ==
    ASSUME NEW q \in Seq(Thread), q # <<>>
    PROVE  /\ Range(q) = Range(Tail(q)) \cup {Head(q)}
           /\ \A u \in Thread : Once(q, u) => Once(Tail(q), u)
           /\ Once(q, Head(q)) => Head(q) \notin Range(Tail(q))
<1>1. /\ Len(q) \in Nat \ {0} /\ DOMAIN q = 1 .. Len(q) /\ Head(q) = q[1]
      /\ DOMAIN Tail(q) = 1 .. Len(q) - 1
      /\ \A i \in 1 .. Len(q) - 1 : Tail(q)[i] = q[i + 1]
    BY Popped
<1>2. \A i \in 1 .. Len(q) - 1 : i + 1 \in 1 .. Len(q) /\ i + 1 # 1 /\ i \in Nat
    BY <1>1
<1>3. \A i \in 1 .. Len(q) : i = 1 \/ (i - 1 \in 1 .. Len(q) - 1 /\ (i - 1) + 1 = i)
    BY <1>1
<1>4. 1 \in DOMAIN q
    BY <1>1
<1>5. Range(q) = Range(Tail(q)) \cup {Head(q)}
    <2>1. ASSUME NEW i \in DOMAIN q PROVE q[i] \in Range(Tail(q)) \cup {Head(q)}
        <3>1. CASE i = 1
            BY <1>1, <3>1
        <3>2. CASE i # 1
            <4>1. i - 1 \in DOMAIN Tail(q) /\ Tail(q)[i - 1] = q[(i - 1) + 1] /\ (i - 1) + 1 = i
                BY <1>1, <1>3, <3>2
            <4> QED BY <4>1 DEF Range
        <3> QED BY <3>1, <3>2
    <2>2. ASSUME NEW i \in DOMAIN Tail(q) PROVE Tail(q)[i] \in Range(q)
        BY <1>1, <1>2 DEF Range
    <2>3. Head(q) \in Range(q)
        BY <1>1, <1>4 DEF Range
    <2> QED BY <2>1, <2>2, <2>3 DEF Range
<1>6. ASSUME NEW u \in Thread, Once(q, u) PROVE Once(Tail(q), u)
    <2> SUFFICES ASSUME NEW i \in DOMAIN Tail(q), NEW j \in DOMAIN Tail(q),
                        Tail(q)[i] = u, Tail(q)[j] = u
                 PROVE  i = j
        BY DEF Once
    <2>1. /\ i + 1 \in DOMAIN q /\ j + 1 \in DOMAIN q /\ q[i + 1] = u /\ q[j + 1] = u
          /\ i \in Nat /\ j \in Nat
        BY <1>1, <1>2
    <2>2. i + 1 = j + 1
        BY <1>6, <2>1 DEF Once
    <2> QED BY <2>1, <2>2
<1>7. ASSUME Once(q, Head(q)), NEW i \in DOMAIN Tail(q), Tail(q)[i] = Head(q) PROVE FALSE
    <2>1. i + 1 \in DOMAIN q /\ q[i + 1] = Head(q) /\ i + 1 # 1
        BY <1>1, <1>2, <1>7
    <2> QED BY <1>1, <1>4, <1>7, <2>1 DEF Once
<1> QED BY <1>5, <1>6, <1>7 DEF Range

(* Where tail is right, resume puts a thread behind all others.            *)
LEMMA ResumeAppends ==
    ASSUME QueueShape, ~Doing("cleartail"), ready \in Seq(Thread), NEW t \in Thread, Resume(t)
    PROVE  ready' = Append(ready, t) /\ ready' # <<>> /\ readyTail' = "last"
<1>1. CASE ready = <<>>
    <2>1. ready' = <<t>> /\ readyTail' = "last"
        BY <1>1 DEF QueueShape, Resume
    <2>2. Append(ready, t) = <<t>>
        BY <1>1
    <2> QED BY <2>1, <2>2
<1>2. CASE ready # <<>>
    <2>1. ready' = Append(ready, t) /\ readyTail' = "last"
        BY <1>2 DEF QueueShape, Resume
    <2>2. Append(ready, t) # <<>>
        OBVIOUS
    <2> QED BY <2>1, <2>2
<1> QED BY <1>1, <1>2

LEMMA Shaped ==
    ASSUME readyTail = IF ready = <<>> THEN "null" ELSE "last",
           \/ calls[current] = <<>>
           \/ Top.at \notin {"take", "compare", "clear", "cleartail", "advance"}
    PROVE  QueueShape
BY DEF QueueShape, Doing

LEMMA ShapedNext ==
    ASSUME readyTail' = IF ready' = <<>> THEN "null" ELSE "last",
           \/ calls'[current'] = <<>>
           \/ Top'.at \notin {"take", "compare", "clear", "cleartail", "advance"}
    PROVE  QueueShape'
BY DEF QueueShape, Doing, Top

-----------------------------------------------------------------------------
(* Stacks of one call                                                      *)

LEMMA Called ==
    ASSUME StackOK, Flat, current \in Thread, NEW c \in Call, current' = current,
           \/ calls[current] = <<>> /\ Invoke(c)
           \/ calls[current] # <<>> /\ Proceed(c)
    PROVE  /\ calls'[current] = <<c>> /\ calls'[current] # <<>> /\ Top' = c
           /\ \A t \in Thread \ {current} : calls'[t] = <<>>
<1>1. calls'[current] = <<c>>
    <2>1. CASE calls[current] = <<>> /\ Invoke(c)
        <3>1. calls'[current] = <<c>> \o <<>>
            BY <2>1 DEF Invoke, StackOK, Calls
        <3> QED BY <3>1
    <2>2. CASE calls[current] # <<>> /\ Proceed(c)
        <3>1. calls'[current] = <<c>> \o Tail(<<Top>>)
            BY <2>2 DEF Proceed, StackOK, Calls, Flat
        <3> QED BY <3>1
    <2> QED BY <2>1, <2>2
<1>2. \A t \in Thread \ {current} : calls'[t] = <<>>
    BY DEF Invoke, Proceed, StackOK, Calls, Flat
<1>3. calls'[current] # <<>>
    BY <1>1
<1> QED BY <1>1, <1>2, <1>3 DEF Top

LEMMA Returned ==
    ASSUME StackOK, Flat, current \in Thread, calls[current] # <<>>, ReturnCall
    PROVE  \A t \in Thread : calls'[t] = <<>>
<1>1. calls'[current] = Tail(<<Top>>)
    BY DEF ReturnCall, StackOK, Calls, Flat
<1> QED BY <1>1 DEF ReturnCall, StackOK, Calls, Flat

(* A yield that comes to the lock finds it free.                           *)
LEMMA LockIsFree ==
    ASSUME Typed, LockInv, Flat, calls[current] # <<>>, Top.at \in {"entry", "iolock"}
    PROVE  ~queueLock
<1>1. ~OwnSection(current)
    BY DEF Flat, OwnSection
<1>2. \A k \in DOMAIN calls[current] : calls[current][k] = Top
    BY DEF Flat
<1> QED BY <1>1, <1>2 DEF LockInv, Held, SectionPlaces

-----------------------------------------------------------------------------
(* What a step has to show                                                 *)

(* A step in which no thread moves in or out of the ready queue.           *)
LEMMA KeepsWaiting ==
    ASSUME CpuWaits, IoWaits, UNCHANGED <<ready, diskQueue, pc>>,
           \A t \in Thread : /\ Running(t)' <=> Running(t)
                             /\ AtNode(t)' <=> AtNode(t)
    PROVE  CpuWaits' /\ IoWaits'
<1>1. \A t \in CPU \cup IOThread : /\ t \in Thread
                                   /\ InReady(t)' <=> InReady(t)
                                   /\ InDisk(t)' <=> InDisk(t)
    BY KernelAssumption DEF CPU, InReady, InDisk
<1>2. CpuWaits'
    BY <1>1 DEF CpuWaits, Once
<1>3. IoWaits'
    BY <1>1 DEF IoWaits, Found
<1> QED BY <1>2, <1>3

LEMMA KeepsParked ==
    ASSUME Parked, UNCHANGED <<zombie, freed, current, pc>> PROVE Parked'
BY DEF Parked

(* A step within yield: the running thread keeps its call.                 *)
LEMMA StaysInYield ==
    ASSUME Typed, CoopInv, calls[current] # <<>>, NEW c \in Call, Proceed(c),
           c.at # "relock", UNCHANGED <<current, pc, zombie, freed>>
    PROVE  /\ Flat' /\ Kinds' /\ Parked'
           /\ calls'[current] # <<>> /\ Top' = c
           /\ \A t \in Thread : Running(t)' <=> Running(t)
<1>1. /\ calls'[current] = <<c>> /\ Top' = c
      /\ \A t \in Thread \ {current} : calls'[t] = <<>>
    BY Called DEF Typed, RestOK, CoopInv
<1>2. Flat'
    BY <1>1 DEF CoopInv, Flat
<1>3. Kinds' /\ Parked'
    BY KeepsParked DEF CoopInv, Kinds
<1>4. \A t \in Thread : Running(t)' <=> Running(t)
    BY <1>1 DEF Running
<1> QED BY <1>1, <1>2, <1>3, <1>4

(* A step in which the machine goes astray, or which is not the CPU's.     *)
LEMMA NothingMoves ==
    ASSUME CoopInv, UNCHANGED <<current, pc, calls, ready, readyTail, diskQueue, zombie, freed>>
    PROVE  CoopInv'
<1>1. Flat' /\ Kinds' /\ Parked'
    BY KeepsParked DEF CoopInv, Flat, Kinds, Top
<1>2. QueueShape'
    BY DEF CoopInv, QueueShape, Doing, Top
<1>3. \A t \in Thread : (Running(t)' <=> Running(t)) /\ (AtNode(t)' <=> AtNode(t))
    BY DEF Running, AtNode, Top
<1>4. CpuWaits' /\ IoWaits'
    BY <1>3, KeepsWaiting DEF CoopInv
<1> QED BY <1>1, <1>2, <1>4 DEF CoopInv

LEMMA CoopEnter ==
    ASSUME Typed, LockInv, CoopInv, Enter \/ Look \/ UnlockLook \/ LockForIO
    PROVE  CoopInv'
<1> DEFINE busy == ~Top.interrupt /\ drive.busy
           c1 == [[Top EXCEPT !.interrupt = FALSE, !.regular = busy] EXCEPT !.at = "look"]
           c2 == LookAt(Top)
           c3 == [Top EXCEPT !.at = IF Top.regular THEN "head" ELSE "iolock",
                             !.regular = FALSE]
           c4 == [Top EXCEPT !.at = "iopop"]
<1>1. /\ calls[current] # <<>> /\ Top.at \in {"entry", "look", "unlock", "iolock"}
      /\ UNCHANGED <<current, pc, ready, readyTail, diskQueue, zombie, freed>>
    BY DEF Enter, Look, UnlockLook, LockForIO, InYield, Top, own, queue, ended
<1>2. Top \in Call
    BY <1>1 DEF CoopInv, Flat
<1>3. \A c \in {c1, c2, c3, c4} : c \in Call
    BY <1>2 DEF Call, LookAt, Typed, RestOK, Drives
<1>4. \A c \in {c1, c2, c3, c4} : c.at \in {"look", "unlock", "head", "iolock", "iopop"}
    BY <1>2 DEF Call, LookAt
<1>5. \E c \in {c1, c2, c3, c4} : Proceed(c)
    <2>1. CASE Enter
        <3>1. ~queueLock
            BY <2>1, LockIsFree DEF CoopInv, Enter, InYield, Top
        <3> QED BY <2>1, <3>1 DEF Enter, LockQueueIn
    <2>2. CASE Look
        BY <2>2 DEF Look
    <2>3. CASE UnlockLook
        BY <2>3 DEF UnlockLook
    <2>4. CASE LockForIO
        <3>1. ~queueLock
            BY <2>4, LockIsFree DEF CoopInv, LockForIO, InYield, Top
        <3> QED BY <2>4, <3>1 DEF LockForIO, LockQueueIn
    <2> QED BY <2>1, <2>2, <2>3, <2>4
<1>6. PICK c \in Call : Proceed(c) /\ c.at \in {"look", "unlock", "head", "iolock", "iopop"}
    BY <1>3, <1>4, <1>5
<1>7. /\ Flat' /\ Kinds' /\ Parked' /\ Top' = c
      /\ \A t \in Thread : Running(t)' <=> Running(t)
    BY <1>1, <1>6, StaysInYield
<1>8. \A t \in Thread : ~AtNode(t)' /\ ~AtNode(t)
    BY <1>1, <1>6, <1>7 DEF AtNode
<1>9. CpuWaits' /\ IoWaits'
    BY <1>1, <1>7, <1>8, KeepsWaiting DEF CoopInv
<1>10. QueueShape'
    <2>1. readyTail = IF ready = <<>> THEN "null" ELSE "last"
        BY <1>1 DEF CoopInv, QueueShape, Doing
    <2> QED BY <1>1, <1>6, <1>7, <2>1, ShapedNext
<1> QED BY <1>7, <1>9, <1>10 DEF CoopInv

(* The ready queue.  With no ready thread yield returns.                   *)
LEMMA CoopTest == ASSUME Typed, CoopInv, TestHead PROVE CoopInv'
<1>1. /\ calls[current] # <<>> /\ Top.at = "head" /\ Top \in Call
      /\ UNCHANGED <<current, pc, ready, readyTail, diskQueue, zombie, freed>>
      /\ StackOK /\ current \in Thread
    BY DEF TestHead, InYield, Top, own, queue, ended, CoopInv, Flat, Typed, RestOK
<1>2. \A t \in Thread : ~AtNode(t) /\ ~Running(t)
    BY <1>1 DEF AtNode, Running
<1>3. readyTail = IF ready = <<>> THEN "null" ELSE "last"
    BY <1>1 DEF CoopInv, QueueShape, Doing
<1>4. CASE ready = <<>>
    <2>1. \A t \in Thread : calls'[t] = <<>>
        BY <1>1, <1>4, Returned DEF TestHead, CoopInv
    <2>2. \A t \in Thread : ~InReady(t) /\ ~InReady(t)'
        BY <1>1, <1>4 DEF InReady, Range
    <2>3. \A t \in CPU : pc[t] = "gone"
        BY <1>2, <2>2 DEF CoopInv, CpuWaits, CPU
    <2>4. \A t \in Thread : ~AtNode(t)' /\ (Running(t)' <=> t = current)
        BY <1>1, <2>1 DEF AtNode, Running
    <2>5. CpuWaits'
        BY <1>1, <2>2, <2>3, <2>4 DEF CoopInv, CpuWaits, InDisk, Once, CPU
    <2>6. IoWaits'
        BY <1>1, <1>2, <2>2, <2>4, KernelAssumption DEF CoopInv, IoWaits, Found, InDisk
    <2>7. QueueShape'
        BY <1>1, <1>3, <2>1, ShapedNext
    <2>8. Flat' /\ Kinds' /\ Parked'
        BY <1>1, <2>1, KeepsParked DEF CoopInv, Flat, Kinds
    <2> QED BY <2>5, <2>6, <2>7, <2>8 DEF CoopInv
<1>5. CASE ready # <<>>
    <2> DEFINE c == [Top EXCEPT !.at = "take"]
    <2>1. c \in Call /\ c.at = "take" /\ Proceed(c)
        BY <1>1, <1>5 DEF Call, TestHead
    <2>2. /\ Flat' /\ Kinds' /\ Parked' /\ Top' = c
          /\ \A t \in Thread : Running(t)' <=> Running(t)
        BY <1>1, <2>1, StaysInYield
    <2>3. \A t \in Thread : ~AtNode(t)'
        BY <2>1, <2>2 DEF AtNode
    <2>4. CpuWaits' /\ IoWaits'
        BY <1>1, <1>2, <2>2, <2>3, KeepsWaiting DEF CoopInv
    <2>5. QueueShape'
        BY <1>1, <1>3, <1>5, <2>1, <2>2 DEF QueueShape, Doing
    <2> QED BY <2>2, <2>4, <2>5 DEF CoopInv
<1> QED BY <1>4, <1>5

LEMMA CoopRead == ASSUME Typed, CoopInv, TakeHead \/ CompareHead PROVE CoopInv'
<1> DEFINE c1 == [Top EXCEPT !.at = "compare",
                             !.node = IF ready = <<>> THEN None ELSE Head(ready)]
           c2 == [Top EXCEPT !.at = IF HeadIsTail THEN "clear" ELSE "advance"]
<1>1. /\ calls[current] # <<>> /\ Top.at \in {"take", "compare"} /\ Top \in Call
      /\ UNCHANGED <<current, pc, ready, readyTail, diskQueue, zombie, freed>>
      /\ StackOK /\ current \in Thread /\ ready \in Seq(Thread)
    BY DEF TakeHead, CompareHead, InYield, Top, own, queue, ended, CoopInv, Flat, Typed, RestOK
<1>2. \A t \in Thread : ~AtNode(t)
    BY <1>1 DEF AtNode
<1>3. ready # <<>> /\ readyTail = "last"
    BY <1>1 DEF CoopInv, QueueShape, Doing
<1>4. ASSUME NEW c \in Call, Proceed(c), c.at \in {"compare", "clear", "advance"},
             c.node = Head(ready),
             c.at = "clear" => Len(ready) = 1, c.at = "advance" => Len(ready) # 1
      PROVE  CoopInv'
    <2>1. /\ Flat' /\ Kinds' /\ Parked' /\ Top' = c
          /\ \A t \in Thread : Running(t)' <=> Running(t)
        BY <1>1, <1>4, StaysInYield
    <2>2. \A t \in Thread : ~AtNode(t)'
        BY <1>4, <2>1 DEF AtNode
    <2>3. CpuWaits' /\ IoWaits'
        BY <1>1, <1>2, <2>1, <2>2, KeepsWaiting DEF CoopInv
    <2>4. QueueShape'
        BY <1>1, <1>3, <1>4, <2>1 DEF QueueShape, Doing
    <2> QED BY <2>1, <2>3, <2>4 DEF CoopInv
<1>5. CASE TakeHead
    <2>1. c1 \in Call /\ c1.at = "compare" /\ c1.node = Head(ready) /\ Proceed(c1)
        BY <1>1, <1>3, <1>5, QueueFacts DEF Call, TakeHead
    <2> QED BY <1>4, <2>1
<1>6. CASE CompareHead
    <2>1. Top.at = "compare" /\ Top.node = Head(ready)
        BY <1>1, <1>6 DEF CompareHead, InYield, Top, CoopInv, QueueShape, Doing
    <2>2. HeadIsTail <=> Len(ready) = 1
        BY <1>3 DEF HeadIsTail
    <2>3. /\ c2 \in Call /\ c2.node = Head(ready) /\ Proceed(c2)
          /\ c2.at = IF Len(ready) = 1 THEN "clear" ELSE "advance"
        BY <1>1, <1>6, <2>1, <2>2 DEF Call, CompareHead
    <2>4. /\ c2.at \in {"compare", "clear", "advance"}
          /\ c2.at = "clear" => Len(ready) = 1
          /\ c2.at = "advance" => Len(ready) # 1
        BY <2>3
    <2> HIDE DEF c2
    <2> QED BY <1>4, <2>3, <2>4
<1> QED BY <1>5, <1>6

(* The head is unlinked: its thread leaves the queue for yield's hand.     *)
LEMMA CoopUnlink == ASSUME Typed, CoopInv, ClearHead \/ AdvanceHead PROVE CoopInv'
<1> DEFINE n == Top.node
<1>1. /\ calls[current] # <<>> /\ Top.at \in {"clear", "advance"} /\ Top \in Call
      /\ StackOK /\ current \in Thread /\ ready \in Seq(Thread)
    BY DEF ClearHead, AdvanceHead, InYield, Top, CoopInv, Flat, Typed, RestOK
<1>2. /\ ready # <<>> /\ readyTail = "last" /\ Head(ready) = n
      /\ Len(ready) \in Nat \ {0} /\ Len(Tail(ready)) = Len(ready) - 1
      /\ Tail(ready) \in Seq(Thread)
    BY <1>1, Popped DEF CoopInv, QueueShape, Doing
<1>3. PICK c \in Call : /\ Proceed(c) /\ c.node = n /\ c.at \in {"cleartail", "dispatch"}
                        /\ ready' = Tail(ready)
                        /\ c.at = "cleartail" => ready' = <<>>
                        /\ c.at = "dispatch" => ready' # <<>> /\ readyTail' = "last"
                        /\ UNCHANGED <<current, pc, diskQueue, zombie, freed>>
    <2>1. CASE ClearHead
        <3> DEFINE c1 == [Top EXCEPT !.at = "cleartail"]
        <3>1. c1 \in Call /\ c1.node = n /\ c1.at = "cleartail" /\ Proceed(c1)
            BY <1>1, <2>1 DEF Call, ClearHead
        <3>2. ready' = <<>> /\ UNCHANGED <<current, pc, diskQueue, zombie, freed>>
            BY <2>1 DEF ClearHead, own, ended
        <3>3. Len(ready) = 1
            BY <2>1 DEF ClearHead, InYield, Top, CoopInv, QueueShape, Doing
        <3>4. Tail(ready) = <<>>
            <4> DEFINE q == Tail(ready)
            <4>1. q \in Seq(Thread) /\ Len(q) = 0
                BY <1>2, <3>3
            <4> HIDE DEF q
            <4>2. q = <<>>
                BY <4>1, EmptySeq
            <4> QED BY <4>2 DEF q
        <3> QED BY <3>1, <3>2, <3>4
    <2>2. CASE AdvanceHead
        <3> DEFINE c1 == [Top EXCEPT !.at = "dispatch"]
        <3>1. c1 \in Call /\ c1.node = n /\ c1.at = "dispatch" /\ Proceed(c1)
            BY <1>1, <1>2, <2>2 DEF Call, AdvanceHead
        <3>2. Len(ready) # 1
            BY <2>2 DEF AdvanceHead, InYield, Top, CoopInv, QueueShape, Doing
        <3>3. /\ ready' = Tail(ready) /\ readyTail' = "last"
              /\ UNCHANGED <<current, pc, diskQueue, zombie, freed>>
            BY <1>2, <2>2, <3>2 DEF AdvanceHead, NextBecomesHead, own, ended
        <3>4. Tail(ready) # <<>>
            BY <1>2, <3>2
        <3> QED BY <3>1, <3>3, <3>4
    <2> QED BY <2>1, <2>2
<1>4. /\ Flat' /\ Kinds' /\ Parked' /\ Top' = c /\ calls'[current] # <<>>
      /\ \A t \in Thread : Running(t)' <=> Running(t)
    BY <1>1, <1>3, StaysInYield
<1>5. QueueShape'
    BY <1>3, <1>4 DEF QueueShape, Doing
<1>6. \A t \in Thread : /\ ~AtNode(t) /\ ~Running(t)
                        /\ AtNode(t)' <=> t = n
    BY <1>1, <1>3, <1>4 DEF AtNode, Running
<1>7. /\ Range(ready) = Range(ready') \cup {n}
      /\ \A u \in Thread : Once(ready, u) => Once(ready', u)
      /\ Once(ready, n) => n \notin Range(ready')
    BY <1>2, <1>1, <1>3, UnlinkedQueue
<1>8. ASSUME NEW t \in CPU
      PROVE  /\ ~InDisk(t)' /\ Once(ready, t)'
             /\ InReady(t)' <=> pc'[t] # "gone" /\ ~Running(t)' /\ ~AtNode(t)'
             /\ AtNode(t)' => pc'[t] # "gone"
    <2>1. t \in Thread /\ (Running(t)' <=> Running(t)) /\ pc'[t] = pc[t]
        BY <1>3, <1>4 DEF CPU
    <2>2. ~InDisk(t)' /\ Once(ready, t)' /\ Once(ready, t)
        BY <1>3, <1>7, <2>1 DEF CoopInv, CpuWaits, InDisk, Once
    <2>3. InReady(t) <=> pc[t] # "gone"
        BY <1>6, <2>1 DEF CoopInv, CpuWaits
    <2>4. CASE t = n
        BY <1>6, <1>7, <2>1, <2>2, <2>3, <2>4 DEF InReady
    <2>5. CASE t # n
        BY <1>6, <1>7, <2>1, <2>2, <2>3, <2>5 DEF InReady
    <2> QED BY <2>2, <2>4, <2>5
<1>9. CpuWaits'
    BY <1>8 DEF CpuWaits
<1>10. ASSUME NEW d \in IOThread
       PROVE  /\ pc'[d] \notin OnCPU
              /\ Found(d) => Found(d)'
    <2>1. d \in Thread
        BY KernelAssumption
    <2>2. pc'[d] \notin OnCPU
        BY <1>3, <1>6, <2>1 DEF CoopInv, IoWaits
    <2>3. InReady(d) => InReady(d)' \/ AtNode(d)'
        BY <1>6, <1>7, <2>1 DEF InReady
    <2> QED BY <1>3, <1>6, <2>1, <2>2, <2>3 DEF Found, InDisk
<1>11. IoWaits'
    BY <1>3, <1>10 DEF CoopInv, IoWaits
<1> QED BY <1>4, <1>5, <1>9, <1>11 DEF CoopInv

LEMMA CoopReady ==
    ASSUME Typed, CoopInv,
           TestHead \/ TakeHead \/ CompareHead \/ ClearHead \/ ClearTail \/ AdvanceHead
    PROVE  CoopInv'
<1>1. CASE ClearTail
    <2> DEFINE c == [Top EXCEPT !.at = "dispatch"]
    <2>1. /\ calls[current] # <<>> /\ Top.at = "cleartail" /\ Top \in Call
          /\ UNCHANGED <<current, pc, ready, diskQueue, zombie, freed>>
          /\ readyTail' = "null" /\ ready = <<>>
        BY <1>1 DEF ClearTail, InYield, Top, own, ended, CoopInv, Flat, QueueShape, Doing
    <2>2. c \in Call /\ c.at = "dispatch" /\ c.node = Top.node /\ Proceed(c)
        BY <1>1, <2>1 DEF Call, ClearTail
    <2>3. /\ Flat' /\ Kinds' /\ Parked' /\ Top' = c /\ calls'[current] # <<>>
          /\ \A t \in Thread : Running(t)' <=> Running(t)
        BY <2>1, <2>2, StaysInYield
    <2>4. \A t \in Thread : AtNode(t)' <=> AtNode(t)
        BY <2>1, <2>2, <2>3 DEF AtNode
    <2>5. CpuWaits' /\ IoWaits'
        BY <2>1, <2>3, <2>4, KeepsWaiting DEF CoopInv
    <2>6. QueueShape'
        BY <2>1, <2>2, <2>3, ShapedNext
    <2> QED BY <2>3, <2>5, <2>6 DEF CoopInv
<1> QED BY <1>1, CoopTest, CoopRead, CoopUnlink

LEMMA CoopDisk ==
    ASSUME Typed, CoopInv, PopDiskQueue \/ UnlockForIO
    PROVE  CoopInv'
<1>1. /\ calls[current] # <<>> /\ Top.at \in {"iopop", "iounlock"} /\ Top \in Call
      /\ UNCHANGED <<current, pc, ready, readyTail, zombie, freed>>
      /\ StackOK /\ current \in Thread /\ diskQueue \in Seq(Thread)
    BY DEF PopDiskQueue, UnlockForIO, InYield, Top, Lost, own, queue, ended, CoopInv, Flat,
           Typed, RestOK
<1>2. readyTail = IF ready = <<>> THEN "null" ELSE "last"
    BY <1>1 DEF CoopInv, QueueShape, Doing
<1>3. CASE PopDiskQueue /\ diskQueue = <<>>
    BY <1>3, NothingMoves DEF PopDiskQueue, Lost, own, queue, ended
<1>4. CASE PopDiskQueue /\ diskQueue # <<>>
    <2> DEFINE n == Head(diskQueue)
               c == [Top EXCEPT !.at = "iounlock", !.node = n]
    <2>1. /\ c \in Call /\ c.at = "iounlock" /\ c.node = n /\ Proceed(c)
          /\ diskQueue' = Tail(diskQueue) /\ Top.at = "iopop"
        BY <1>1, <1>4, QueueFacts DEF Call, PopDiskQueue, InYield, Top
    <2>2. /\ Flat' /\ Kinds' /\ Parked' /\ Top' = c /\ calls'[current] # <<>>
          /\ \A t \in Thread : Running(t)' <=> Running(t)
        BY <1>1, <2>1, StaysInYield
    <2>3. Range(diskQueue) = Range(diskQueue') \cup {n}
        BY <1>1, <1>4, <2>1, UnlinkedQueue
    <2>4. \A t \in CPU : t # n /\ ~InDisk(t)'
        BY <2>3 DEF CoopInv, CpuWaits, InDisk
    <2>5. \A t \in Thread : ~AtNode(t) /\ (AtNode(t)' <=> t = n) /\ ~Running(t)
        BY <1>1, <2>1, <2>2 DEF AtNode, Running
    <2>6. CpuWaits'
        BY <1>1, <2>2, <2>4, <2>5 DEF CoopInv, CpuWaits, InReady, Once, CPU
    <2>7. ASSUME NEW d \in IOThread
          PROVE  pc'[d] \notin OnCPU /\ (Found(d) => Found(d)')
        <3>1. d \in Thread
            BY KernelAssumption
        <3>2. pc'[d] \notin OnCPU
            BY <1>1, <2>5, <3>1 DEF CoopInv, IoWaits
        <3>3. InDisk(d) => InDisk(d)' \/ AtNode(d)'
            BY <2>3, <2>5, <3>1 DEF InDisk
        <3> QED BY <1>1, <2>5, <3>1, <3>2, <3>3 DEF Found, InReady
    <2>8. IoWaits'
        BY <1>1, <2>7 DEF CoopInv, IoWaits
    <2>9. QueueShape'
        BY <1>1, <1>2, <2>1, <2>2, ShapedNext
    <2> QED BY <2>2, <2>6, <2>8, <2>9 DEF CoopInv
<1>5. CASE UnlockForIO
    <2> DEFINE c == [Top EXCEPT !.at = "dispatch"]
    <2>1. /\ c \in Call /\ c.at = "dispatch" /\ c.node = Top.node /\ Proceed(c)
          /\ UNCHANGED diskQueue /\ Top.at = "iounlock"
        BY <1>1, <1>5 DEF Call, UnlockForIO, InYield, Top
    <2>2. /\ Flat' /\ Kinds' /\ Parked' /\ Top' = c /\ calls'[current] # <<>>
          /\ \A t \in Thread : Running(t)' <=> Running(t)
        BY <1>1, <2>1, StaysInYield
    <2>3. \A t \in Thread : AtNode(t)' <=> AtNode(t)
        BY <1>1, <2>1, <2>2 DEF AtNode
    <2>4. CpuWaits' /\ IoWaits'
        BY <1>1, <2>1, <2>2, <2>3, KeepsWaiting DEF CoopInv
    <2>5. QueueShape'
        BY <1>1, <1>2, <2>1, <2>2, ShapedNext
    <2> QED BY <2>2, <2>4, <2>5 DEF CoopInv
<1> QED BY <1>3, <1>4, <1>5

(* The thread in yield's hand gets the CPU.                                *)
LEMMA CoopDispatch == ASSUME Typed, CoopInv, Dispatch PROVE CoopInv'
<1> DEFINE n == Top.node
<1>1. CASE n = None
    BY <1>1, NothingMoves DEF Dispatch, Lost, own, queue, ended
<1>2. CASE n # None
    <2>1. /\ calls[current] # <<>> /\ Top.at = "dispatch" /\ current' = n /\ ReturnCall
          /\ UNCHANGED <<pc, ready, readyTail, diskQueue, zombie, freed>>
          /\ StackOK /\ current \in Thread
        BY <1>2 DEF Dispatch, InYield, Top, own, queue, ended, Typed, RestOK
    <2>2. \A t \in Thread : calls'[t] = <<>>
        BY <2>1, Returned DEF CoopInv
    <2>3. n \in Thread
        BY <1>2, <2>1, TopFacts DEF Call
    <2>4. \A t \in Thread : AtNode(t) <=> t = n
        BY <2>1 DEF AtNode
    <2>5. pc[n] # "gone"
        BY <2>3, <2>4 DEF CoopInv, CpuWaits, Kinds, CPU
    <2>6. Flat' /\ Kinds'
        BY <2>1, <2>2, <2>3 DEF CoopInv, Flat, Kinds
    <2>7. Parked'
        <3>1. n \notin freed
            BY <2>3, <2>5, KernelAssumption DEF CoopInv, Parked
        <3> QED BY <2>1, <2>5, <3>1 DEF CoopInv, Parked
    <2>8. ASSUME NEW t \in Thread
          PROVE  ~AtNode(t)' /\ (Running(t)' <=> t = n) /\ ~Running(t)
        <3>1. calls'[t] = <<>> /\ calls'[current'] = <<>>
            BY <2>1, <2>2, <2>3
        <3> QED BY <2>1, <3>1 DEF AtNode, Running
    <2>9. CpuWaits'
        BY <2>1, <2>4, <2>5, <2>8 DEF CoopInv, CpuWaits, InReady, InDisk, Once, CPU
    <2>10. ASSUME NEW d \in IOThread
           PROVE  pc'[d] \notin OnCPU /\ (Found(d) => Found(d)')
        <3>1. d \in Thread
            BY KernelAssumption
        <3>2. pc'[d] \notin OnCPU
            BY <2>1, <2>8, <3>1 DEF CoopInv, IoWaits
        <3> QED BY <2>1, <2>4, <2>8, <3>1, <3>2 DEF Found, InReady, InDisk
    <2>11. IoWaits'
        BY <2>1, <2>10 DEF CoopInv, IoWaits
    <2>12. QueueShape'
        <3>1. readyTail = IF ready = <<>> THEN "null" ELSE "last"
            BY <2>1 DEF CoopInv, QueueShape, Doing
        <3>2. calls'[current'] = <<>>
            BY <2>1, <2>2, <2>3
        <3> QED BY <2>1, <3>1, <3>2, ShapedNext
    <2> QED BY <2>6, <2>7, <2>9, <2>11, <2>12 DEF CoopInv
<1> QED BY <1>1, <1>2

(* The driver: the running thread is none of those that stay off the disk. *)
LEMMA CoopDriver ==
    ASSUME Typed, LockInv, CoopInv, DriverStep PROVE CoopInv'
<1>1. /\ calls[current] = <<>> /\ UNCHANGED <<current, zombie, freed>>
      /\ StackOK /\ current \in Thread /\ diskQueue \in Seq(Thread) /\ ready \in Seq(Thread)
      /\ pc[current] \in {"queue", "append", "unlock", "hwlock", "issue", "command", "poll",
                          "copy", "flush", "hwunlock", "done"}
    BY DEF DriverStep, LockQueue, AppendSelf, UnlockQueue, LockHardware, Waiting,
       WaitToIssue, IssueCommand, WaitForData, CopyWords, WaitForFlush, UnlockHardware,
       FinishOperation, At, ended, Typed, RestOK
<1>2. current \in IOThread /\ current \notin CPU
    BY <1>1 DEF CoopInv, Kinds, CPU
<1>3. /\ \A t \in Thread \ {current} : pc'[t] = pc[t]
      /\ pc'[current] # "gone"
    <2>1. UNCHANGED pc \/ \E place \in Own \ {"gone"} : Goto(place)
        BY DEF DriverStep, LockQueue, AppendSelf, UnlockQueue, LockHardware, TakeHardware,
           Waiting, WaitToIssue, IssueCommand, WaitForData, CopyWords, WaitForFlush,
           UnlockHardware, FinishOperation, Own
    <2> QED BY <1>1, <2>1, GotoFacts DEF Typed
<1>4. \/ UNCHANGED calls
      \/ /\ Invoke(Yield(FALSE))
         /\ \/ pc'[current] \in {"hwlock", "issue", "poll", "flush"}
            \/ pc'[current] \in {"queue", "pass"} /\ Resume(current)
    <2>1. CASE LockQueue
        <3>1. pc[current] = "queue" /\ DOMAIN calls[current] = {}
            BY <1>1, <2>1 DEF LockQueue, At
        <3>2. ~queueLock
            BY <3>1 DEF LockInv, Held, OwnSection
        <3> QED BY <2>1, <3>2 DEF LockQueue
    <2>2. CASE AppendSelf \/ UnlockQueue \/ IssueCommand \/ CopyWords \/ UnlockHardware
        BY <2>2 DEF AppendSelf, UnlockQueue, IssueCommand, CopyWords, UnlockHardware
    <2>3. CASE LockHardware
        <3>1. CASE hwLock
            BY <2>3, <3>1 DEF LockHardware, At
        <3>2. CASE ~hwLock
            BY <2>3, <3>2 DEF LockHardware, TakeHardware
        <3> QED BY <3>1, <3>2
    <2>4. ASSUME NEW place \in {"issue", "poll", "flush"}, NEW next, Waiting(place, next)
          PROVE  \/ UNCHANGED calls
                 \/ Invoke(Yield(FALSE)) /\ pc'[current] \in {"issue", "poll", "flush"}
        <3>1. CASE drive.busy
            BY <2>4, <3>1 DEF Waiting, At
        <3>2. CASE ~drive.busy
            BY <2>4, <3>2 DEF Waiting
        <3> QED BY <3>1, <3>2
    <2>5. CASE FinishOperation
        <3>1. /\ \E place \in {"queue", "pass"} : Goto(place)
              /\ Invoke(Yield(FALSE)) /\ Resume(current)
            BY <2>5 DEF FinishOperation
        <3>2. pc'[current] \in {"queue", "pass"}
            BY <3>1, GotoFacts DEF Typed
        <3> QED BY <3>1, <3>2
    <2> QED BY <2>1, <2>2, <2>3, <2>4, <2>5
            DEF DriverStep, WaitToIssue, WaitForData, WaitForFlush
<1>5. \/ UNCHANGED calls
      \/ /\ calls'[current] = <<Yield(FALSE)>> /\ Top' = Yield(FALSE)
         /\ pc'[current] \notin {"start", "append", "unlock"}
         /\ \A t \in Thread \ {current} : calls'[t] = <<>>
    BY <1>1, <1>4, YieldIsCall, Called DEF CoopInv
<1>6. Flat'
    <2>1. CASE UNCHANGED calls
        BY <1>1, <2>1 DEF CoopInv, Flat
    <2>2. CASE ~UNCHANGED calls
        BY <1>1, <1>5, <2>2, YieldIsCall DEF Flat
    <2> QED BY <2>1, <2>2
<1>7. Kinds'
    <2>1. \A t \in CPU : pc'[t] = pc[t]
        BY <1>2, <1>3 DEF CPU
    <2>2. \A t \in IOThread : t # current => pc'[t] = pc[t]
        BY <1>3, KernelAssumption
    <2> QED BY <1>3, <2>1, <2>2 DEF CoopInv, Kinds
<1>8. Parked'
    BY <1>1, <1>2, <1>3, KernelAssumption DEF CoopInv, Kinds, Parked, Typed, RestOK
<1>9. ASSUME NEW t \in Thread
      PROVE  /\ ~AtNode(t) /\ ~AtNode(t)'
             /\ t # current => pc'[t] = pc[t] /\ ~Running(t) /\ ~Running(t)'
    <2>1. ~AtNode(t)'
        BY <1>1, <1>5, YieldIsCall DEF AtNode
    <2> QED BY <1>1, <1>3, <2>1 DEF AtNode, Running
<1>10. /\ ~Doing("cleartail")
       /\ readyTail = IF ready = <<>> THEN "null" ELSE "last"
    BY <1>1 DEF CoopInv, QueueShape, Doing
<1>11. \/ UNCHANGED <<ready, readyTail>>
       \/ ready' = Append(ready, current) /\ ready' # <<>> /\ readyTail' = "last"
    <2>1. UNCHANGED <<ready, readyTail>> \/ Resume(current)
        BY DEF DriverStep, LockQueue, AppendSelf, UnlockQueue, LockHardware, TakeHardware,
           Waiting, WaitToIssue, IssueCommand, WaitForData, CopyWords, WaitForFlush,
           UnlockHardware, FinishOperation, queue
    <2> QED BY <1>1, <1>10, <2>1, ResumeAppends DEF CoopInv
<1>12. \/ UNCHANGED diskQueue
       \/ diskQueue' = Append(diskQueue, current)
    BY DEF DriverStep, LockQueue, AppendSelf, UnlockQueue, LockHardware, TakeHardware,
       Waiting, WaitToIssue, IssueCommand, WaitForData, CopyWords, WaitForFlush,
       UnlockHardware, FinishOperation, Enqueue
<1>13. /\ Range(Append(ready, current)) = Range(ready) \cup {current}
       /\ Range(Append(diskQueue, current)) = Range(diskQueue) \cup {current}
       /\ \A u \in Thread :
              u # current /\ Once(ready, u) => Once(Append(ready, current), u)
    BY <1>1, AppendedQueue
<1>14. \A t \in Thread : /\ InReady(t) => InReady(t)'
                         /\ InDisk(t) => InDisk(t)'
                         /\ t # current => /\ InReady(t)' <=> InReady(t)
                                           /\ InDisk(t)' <=> InDisk(t)
    <2>1. Range(ready') = Range(ready) \/ Range(ready') = Range(ready) \cup {current}
        BY <1>11, <1>13
    <2>2. \/ Range(diskQueue') = Range(diskQueue)
          \/ Range(diskQueue') = Range(diskQueue) \cup {current}
        BY <1>12, <1>13
    <2> QED BY <2>1, <2>2 DEF InReady, InDisk
<1>15. \A t \in CPU : t \in Thread /\ t # current /\ (Once(ready, t) => Once(ready', t))
    BY <1>2, <1>11, <1>13 DEF CPU
<1>16. CpuWaits'
    BY <1>9, <1>14, <1>15 DEF CoopInv, CpuWaits
<1>17. QueueShape'
    <2>1. readyTail' = IF ready' = <<>> THEN "null" ELSE "last"
        BY <1>10, <1>11
    <2>2. calls'[current'] = <<>> \/ Top'.at = "entry"
        BY <1>1, <1>5, YieldIsCall
    <2> QED BY <2>1, <2>2, ShapedNext
<1>18. ASSUME NEW d \in IOThread, d # current
       PROVE  /\ pc'[d] \notin OnCPU
              /\ pc'[d] \in {"start", "pass", "queue"} => Found(d)'
    <2>1. d \in Thread
        BY KernelAssumption
    <2> QED BY <1>9, <1>14, <1>18, <2>1 DEF CoopInv, IoWaits, Found
<1>19. /\ pc'[current] \in OnCPU => Running(current)'
       /\ pc'[current] \in {"start", "pass", "queue"} => Found(current)'
    <2>1. CASE UNCHANGED calls
        BY <1>1, <2>1 DEF Running, Found
    <2>2. CASE ~UNCHANGED calls
        <3>1. \/ pc'[current] \in {"hwlock", "issue", "poll", "flush"}
              \/ pc'[current] \in {"queue", "pass"} /\ Resume(current)
            BY <1>4, <2>2
        <3>2. Resume(current) => InReady(current)'
            <4>1. Resume(current) => ready' = Append(ready, current)
                BY <1>1, <1>10, ResumeAppends DEF CoopInv
            <4>2. Resume(current) => Range(ready') = Range(ready) \cup {current}
                BY <1>13, <4>1
            <4> QED BY <1>1, <4>2 DEF InReady
        <3> QED BY <3>1, <3>2 DEF OnCPU, Found
    <2> QED BY <2>1, <2>2
<1>20. IoWaits'
    <2>1. ASSUME NEW d \in IOThread
          PROVE  /\ pc'[d] \in OnCPU => Running(d)'
                 /\ pc'[d] \in {"start", "pass", "queue"} => Found(d)'
        <3>1. CASE d = current
            BY <1>1, <1>19, <3>1
        <3>2. CASE d # current
            BY <1>18, <3>2
        <3> QED BY <3>1, <3>2
    <2> QED BY <2>1 DEF IoWaits
<1> QED BY <1>6, <1>7, <1>8, <1>16, <1>17, <1>20 DEF CoopInv

LEMMA MovesOn ==
    ASSUME Kinds, NEW place, pc'[current] = place,
           \A t \in Thread \ {current} : pc'[t] = pc[t],
           \/ current \in IOThread /\ place = "queue"
           \/ current \notin IOThread /\ place \in {"pass", "gone"}
    PROVE  Kinds'
<1>1. \A t \in CPU : pc'[t] \in {"start", "pass", "gone"}
    BY DEF Kinds, CPU
<1>2. \A t \in IOThread : pc'[t] # "gone"
    BY KernelAssumption DEF Kinds
<1> QED BY <1>1, <1>2 DEF Kinds

LEMMA CoopThread ==
    ASSUME Typed, CoopInv, ThreadStart \/ PassOnCPU \/ ThreadShutdown
    PROVE  CoopInv'
<1>1. /\ calls[current] = <<>> /\ UNCHANGED <<current, diskQueue>>
      /\ StackOK /\ RestOK /\ current \in Thread /\ ready \in Seq(Thread)
      /\ pc[current] \in {"start", "pass"}
    BY DEF ThreadStart, PassOnCPU, ThreadShutdown, At, Typed, RestOK
<1>2. \A t \in Thread : ~AtNode(t) /\ (Running(t) <=> t = current)
    BY <1>1 DEF AtNode, Running
<1>3. /\ ~Doing("cleartail")
      /\ readyTail = IF ready = <<>> THEN "null" ELSE "last"
    BY <1>1 DEF CoopInv, QueueShape, Doing
<1>4. CASE ThreadStart
    <2>1. /\ Goto(FirstPlace(current))
          /\ UNCHANGED <<calls, ready, readyTail, zombie, freed>>
        BY <1>4 DEF ThreadStart, queue, ended
    <2>2. /\ pc'[current] = FirstPlace(current)
          /\ \A t \in Thread \ {current} : pc'[t] = pc[t]
        BY <1>1, <2>1, GotoFacts
    <2>3. Flat' /\ Kinds'
        BY <1>1, <2>1, <2>2, MovesOn DEF CoopInv, Flat, FirstPlace
    <2>4. \A t \in Thread : pc'[t] = "gone" <=> pc[t] = "gone"
        BY <1>1, <2>2 DEF FirstPlace
    <2>5. Parked'
        BY <1>1, <2>1, <2>4, KernelAssumption DEF CoopInv, Parked, RestOK
    <2>6. \A t \in Thread : ~AtNode(t)' /\ (Running(t)' <=> t = current)
        BY <1>1, <2>1 DEF AtNode, Running
    <2>7. CpuWaits'
        BY <1>1, <1>2, <2>1, <2>4, <2>6 DEF CoopInv, CpuWaits, InReady, InDisk, Once, CPU
    <2>8. ASSUME NEW d \in IOThread
          PROVE  /\ pc'[d] \in OnCPU => Running(d)'
                 /\ pc'[d] \in {"start", "pass", "queue"} => Found(d)'
        <3>1. d \in Thread
            BY KernelAssumption
        <3>2. CASE d = current
            BY <2>6, <3>1, <3>2 DEF Found
        <3>3. CASE d # current
            <4>1. pc'[d] = pc[d]
                BY <2>2, <3>1, <3>3
            <4> QED BY <1>1, <1>2, <2>1, <3>1, <3>3, <4>1
                    DEF CoopInv, IoWaits, Found, InReady, InDisk
        <3> QED BY <3>2, <3>3
    <2>9. IoWaits'
        BY <2>8 DEF IoWaits
    <2>10. QueueShape'
        BY <1>1, <1>3, <2>1, ShapedNext
    <2> QED BY <2>3, <2>5, <2>7, <2>9, <2>10 DEF CoopInv
<1>5. ASSUME Invoke(Yield(FALSE))
      PROVE  /\ calls'[current] = <<Yield(FALSE)>> /\ Top' = Yield(FALSE)
             /\ \A t \in Thread \ {current} : calls'[t] = <<>>
             /\ \A t \in Thread : ~Running(t)' /\ ~AtNode(t)'
             /\ pc'[current] \in {"pass", "queue", "gone"} => Flat'
             /\ readyTail' = (IF ready' = <<>> THEN "null" ELSE "last") => QueueShape'
    <2>1. /\ calls'[current] = <<Yield(FALSE)>> /\ Top' = Yield(FALSE)
          /\ \A t \in Thread \ {current} : calls'[t] = <<>>
        BY <1>1, <1>5, YieldIsCall, Called DEF CoopInv
    <2>2. calls'[current] # <<>> /\ (Top').at = "entry" /\ current' = current
        <3>1. Yield(FALSE).at = "entry"
            BY DEF Yield
        <3>2. (Top').at = "entry"
            BY <2>1, <3>1
        <3>3. calls'[current] # <<>>
            BY <2>1
        <3> QED BY <1>1, <3>2, <3>3
    <2>3. \A t \in Thread : ~Running(t)' /\ ~AtNode(t)'
        BY <2>2 DEF Running, AtNode
    <2>4. pc'[current] \in {"pass", "queue", "gone"} => Flat'
        BY <1>1, <2>1, YieldIsCall DEF Flat
    <2>5. readyTail' = (IF ready' = <<>> THEN "null" ELSE "last") => QueueShape'
        BY <2>2, ShapedNext
    <2> QED BY <2>1, <2>3, <2>4, <2>5
(* The other threads on the disk are found where they were.                *)
<1>6. ASSUME \A t \in Thread \ {current} : pc'[t] = pc[t],
             \A t \in Thread : InReady(t) => InReady(t)',
             Invoke(Yield(FALSE)), NEW d \in IOThread, d # current
      PROVE  /\ pc'[d] \notin OnCPU
             /\ pc'[d] \in {"start", "pass", "queue"} => Found(d)'
    <2>1. d \in Thread /\ pc'[d] = pc[d]
        BY <1>6, KernelAssumption
    <2>2. ~Running(d) /\ ~AtNode(d)
        BY <1>2, <1>6, <2>1
    <2>3. InDisk(d) <=> InDisk(d)'
        BY <1>1 DEF InDisk
    <2> QED BY <1>6, <2>1, <2>2, <2>3 DEF CoopInv, IoWaits, Found
<1>7. CASE PassOnCPU
    <2>1. /\ Goto(FirstPlace(current)) /\ Invoke(Yield(FALSE)) /\ UNCHANGED <<zombie, freed>>
          /\ Resume(current)
        BY <1>7 DEF PassOnCPU, ended
    <2>2. ready' = Append(ready, current) /\ ready' # <<>> /\ readyTail' = "last"
        BY <1>1, <1>3, <2>1, ResumeAppends DEF CoopInv
    <2>3. /\ pc'[current] = FirstPlace(current)
          /\ \A t \in Thread \ {current} : pc'[t] = pc[t]
        BY <1>1, <2>1, GotoFacts
    <2>4. Flat' /\ Kinds' /\ QueueShape'
        BY <1>1, <1>5, <2>1, <2>2, <2>3, MovesOn DEF CoopInv, FirstPlace
    <2>5. \A t \in Thread : pc'[t] = "gone" <=> pc[t] = "gone"
        BY <1>1, <2>3 DEF FirstPlace
    <2>6. Parked'
        BY <1>1, <2>1, <2>5, KernelAssumption DEF CoopInv, Parked, RestOK
    <2>7. /\ Range(ready') = Range(ready) \cup {current}
          /\ \A u \in Thread : u # current /\ Once(ready, u) => Once(ready', u)
          /\ current \notin Range(ready) => Once(ready', current)
        BY <1>1, <2>2, AppendedQueue
    <2>8. ASSUME NEW t \in CPU
          PROVE  /\ ~InDisk(t)' /\ Once(ready, t)'
                 /\ InReady(t)' <=> pc'[t] # "gone"
        <3>1. t \in Thread /\ ~InDisk(t)'
            BY <1>1 DEF CoopInv, CpuWaits, CPU, InDisk
        <3>2. CASE t = current
            BY <1>1, <1>2, <2>5, <2>7, <3>1, <3>2 DEF CoopInv, CpuWaits, InReady, Once
        <3>3. CASE t # current
            BY <1>1, <1>2, <2>5, <2>7, <3>1, <3>3 DEF CoopInv, CpuWaits, InReady, Once
        <3> QED BY <3>1, <3>2, <3>3
    <2>9. CpuWaits'
        BY <1>5, <2>1, <2>8 DEF CpuWaits, CPU
    <2>10. (\A t \in Thread : InReady(t) => InReady(t)') /\ InReady(current)'
        BY <1>1, <2>7 DEF InReady
    <2>11. /\ pc'[current] \notin OnCPU
           /\ Found(current)'
        BY <1>1, <2>3, <2>10 DEF FirstPlace, OnCPU, Found
    <2>12. IoWaits'
        <3>1. ASSUME NEW d \in IOThread
              PROVE  /\ pc'[d] \in OnCPU => Running(d)'
                     /\ pc'[d] \in {"start", "pass", "queue"} => Found(d)'
            <4>1. CASE d = current
                BY <1>1, <2>11, <4>1
            <4>2. CASE d # current
                BY <1>6, <2>1, <2>3, <2>10, <4>2
            <4> QED BY <4>1, <4>2
        <3> QED BY <3>1 DEF IoWaits
    <2> QED BY <2>4, <2>6, <2>9, <2>12 DEF CoopInv
<1>8. CASE ThreadShutdown
    <2>1. /\ Goto("gone") /\ Invoke(Yield(FALSE)) /\ UNCHANGED <<ready, readyTail>>
          /\ current \in Exiting /\ pc[current] = "pass" /\ zombie' = current
          /\ freed' = IF zombie = None THEN freed ELSE freed \cup {zombie}
        BY <1>8 DEF ThreadShutdown, At, Terminate, queue
    <2>2. /\ pc'[current] = "gone"
          /\ \A t \in Thread \ {current} : pc'[t] = pc[t]
        BY <1>1, <2>1, GotoFacts
    <2>3. current \in CPU /\ current \notin IOThread
        BY <2>1, KernelAssumption DEF CPU
    <2>4. Flat' /\ Kinds' /\ QueueShape'
        BY <1>1, <1>3, <1>5, <2>1, <2>2, <2>3, MovesOn DEF CoopInv
    <2>5. current \notin freed' /\ zombie # current
        <3>1. zombie # current
            BY <1>1, <2>1, KernelAssumption DEF CoopInv, Parked
        <3> QED BY <2>1, <3>1 DEF CoopInv, Parked
    <2>6. \A t \in freed' \cup {zombie'} : t # None => pc'[t] = "gone"
        BY <1>1, <2>1, <2>2 DEF CoopInv, Parked, RestOK
    <2>7. Parked'
        BY <1>1, <2>1, <2>5, <2>6 DEF Parked
    <2>8. CpuWaits'
        BY <1>1, <1>2, <1>5, <2>1, <2>2 DEF CoopInv, CpuWaits, InReady, InDisk, Once, CPU
    <2>9. \A t \in Thread : InReady(t) => InReady(t)'
        BY <2>1 DEF InReady
    <2>10. IoWaits'
        BY <1>6, <2>1, <2>2, <2>3, <2>9 DEF IoWaits
    <2> QED BY <2>4, <2>7, <2>8, <2>10 DEF CoopInv
<1> QED BY <1>4, <1>7, <1>8

LEMMA CoopNext ==
    ASSUME Cooperative, Typed, LockInv, CoopInv, [Next]_vars
    PROVE  CoopInv'
<1>1. CASE YieldStep
    BY <1>1, CoopEnter, CoopReady, CoopDisk, CoopDispatch DEF YieldStep
<1>2. CASE DriverStep
    BY <1>2, CoopDriver
<1>3. CASE ThreadStart \/ PassOnCPU \/ ThreadShutdown
    BY <1>3, CoopThread
<1>4. CASE FallOffStack \/ Complete \/ UNCHANGED vars
    BY <1>4, NothingMoves DEF FallOffStack, Lost, Complete, vars, own, queue, ended
<1>5. ~EndOfQuantum /\ ~DiskInterrupt
    BY DEF Cooperative, EndOfQuantum, DiskInterrupt
<1> QED BY <1>1, <1>2, <1>3, <1>4, <1>5 DEF Next, Run

LEMMA CoopInit == Init => CoopInv
<1> SUFFICES ASSUME Init PROVE CoopInv
    OBVIOUS
<1> DEFINE q == ThreadOrder
<1>1. /\ q \in Seq(Thread) /\ q # <<>> /\ IsInjective(q)
      /\ current = Head(q) /\ ready = Tail(q) /\ diskQueue = <<>>
      /\ pc = [t \in Thread |-> "start"] /\ calls = [t \in Thread |-> <<>>]
      /\ zombie = None /\ freed = {}
    BY KernelAssumption DEF Init
<1>2. current \in Thread
    BY <1>1, QueueFacts
<1>3. Flat /\ Kinds /\ Parked
    BY <1>1, <1>2, KernelAssumption DEF Flat, Kinds, Parked, CPU
<1>4. \A t \in Thread : Once(q, t)
    BY <1>1 DEF IsInjective, Once
<1>5. /\ Range(q) = Range(Tail(q)) \cup {Head(q)}
      /\ \A u \in Thread : Once(q, u) => Once(Tail(q), u)
      /\ Once(q, Head(q)) => Head(q) \notin Range(Tail(q))
    BY <1>1, UnlinkedQueue
<1>6. Thread = Range(q)
    BY DEF Thread
<1>7. ASSUME NEW t \in CPU
      PROVE  /\ ~InDisk(t) /\ Once(ready, t) /\ ~AtNode(t)
             /\ Running(t) <=> t = current
             /\ InReady(t) <=> t # current
    <2>1. t \in Thread
        BY DEF CPU
    <2>2. Range(diskQueue) = {}
        BY <1>1 DEF Range
    <2> QED BY <1>1, <1>2, <1>4, <1>5, <1>6, <2>1, <2>2
            DEF InDisk, AtNode, Running, InReady
<1>8. CpuWaits
    BY <1>1, <1>7 DEF CpuWaits, CPU
<1>9. QueueShape
    BY <1>1, <1>2, Shaped DEF Init
<1>10. ASSUME NEW d \in IOThread PROVE pc[d] \notin OnCPU /\ Found(d)
    <2>1. d \in Thread
        BY KernelAssumption
    <2>2. Running(d) \/ InReady(d)
        BY <1>1, <1>5, <1>6, <2>1 DEF Running, InReady
    <2> QED BY <1>1, <2>1, <2>2 DEF OnCPU, Found
<1>11. IoWaits
    BY <1>10 DEF IoWaits
<1> QED BY <1>3, <1>8, <1>9, <1>11 DEF CoopInv

LEMMA CoopInvariant == ASSUME Cooperative PROVE Spec => []CoopInv
<1>1. Typed /\ LockInv /\ CoopInv /\ [Next]_vars => CoopInv'
    BY CoopNext
<1> QED BY <1>1, CoopInit, TypedInvariant, LockInvariant, PTL DEF Spec

-----------------------------------------------------------------------------
(* What follows                                                            *)

LEMMA InHandIs ==
    ASSUME Flat, current \in Thread, NEW t \in Thread
    PROVE  InHand(t) <=> AtNode(t)
<1>1. ASSUME AtNode(t) PROVE InHand(t)
    <2>1. /\ calls[current] = <<Top>>
          /\ Top.at \in {"cleartail", "iounlock", "dispatch"} /\ Top.node = t
        BY <1>1 DEF AtNode, Flat
    <2>2. 1 \in DOMAIN calls[current] /\ calls[current][1] = Top
        BY <2>1
    <2>3. <<current, 1>> \in UnderWay
        BY <2>2, UnderWayIs
    <2> QED BY <2>1, <2>2, <2>3 DEF InHand
<1>2. ASSUME InHand(t) PROVE AtNode(t)
    <2>1. PICK c \in UnderWay :
              /\ calls[c[1]][c[2]].at \in {"cleartail", "iounlock", "dispatch"}
              /\ calls[c[1]][c[2]].node = t
        BY <1>2 DEF InHand
    <2>2. PICK u \in Thread : \E k \in DOMAIN calls[u] : c = <<u, k>>
        BY UnderWayIs
    <2>3. PICK k \in DOMAIN calls[u] : c = <<u, k>>
        BY <2>2
    <2>4. calls[u] # <<>>
        BY <2>3
    <2>5. u = current
        BY <2>4 DEF Flat
    <2>6. calls[current] = <<Top>> /\ calls[u][k] = Top
        BY <2>4, <2>5, <2>3 DEF Flat
    <2> QED BY <2>1, <2>4, <2>5, <2>6, <2>3 DEF AtNode
<1> QED BY <1>1, <1>2

(* thread_shutdown deletes the thread that shut down before this one.  It  *)
(* is then neither on the CPU nor in a queue, however many threads there   *)
(* are, whichever of them use the disk, and whatever the drive does.       *)
THEOREM DeletedIsForgotten == ASSUME Cooperative PROVE Spec => []FreedIsForgotten
<1>1. Typed /\ CoopInv => FreedIsForgotten
    <2> SUFFICES ASSUME Typed, CoopInv, NEW t \in freed
                 PROVE  t # current /\ ~InReady(t) /\ ~InDisk(t)
        BY DEF FreedIsForgotten, InReady, InDisk
    <2>1. t \in Thread /\ pc[t] = "gone" /\ t # current
        BY KernelAssumption DEF Typed, RestOK, CoopInv, Parked
    <2>2. t \in CPU
        BY <2>1 DEF CoopInv, Kinds, CPU
    <2> QED BY <2>1, <2>2 DEF CoopInv, CpuWaits
<1> QED BY <1>1, CoopInvariant, TypedInvariant, PTL

(* A thread that stays off the disk is found where pass_on_CPU put it: in  *)
(* the ready queue, once, or it runs or is about to be dispatched; it is   *)
(* never in the disk's queue.  resume, the FIFO and terminate keep this,   *)
(* whatever the threads on the disk and the drive do.                      *)
THEOREM CpuThreadsWaitOnce == ASSUME Cooperative PROVE Spec => []CpuOnce
<1>1. Typed /\ CoopInv => CpuOnce
    <2> SUFFICES ASSUME Typed, CoopInv, NEW t \in CPU, pc[t] # "gone"
                 PROVE  /\ ~InDisk(t) /\ Once(ready, t)
                        /\ Running(t) \/ InHand(t) <=> ~InReady(t)
        BY DEF CpuOnce, CPU, InDisk, InReady, Once
    <2>1. InHand(t) <=> AtNode(t)
        BY InHandIs DEF Typed, RestOK, CoopInv, CPU
    <2> QED BY <2>1 DEF CoopInv, CpuWaits
<1> QED BY <1>1, CoopInvariant, TypedInvariant, PTL

(* No thread is lost but to the drive, for any number of threads on the    *)
(* disk and whatever the drive does: a thread that runs, that has put      *)
(* itself into a queue or that a yield has in hand is found again.  Only a *)
(* wait for hw_lock or for the drive may give up the CPU with no entry     *)
(* left in a queue.                                                        *)
THEOREM NobodyIsLost == ASSUME Cooperative PROVE Spec => []LostOnlyToTheDrive
<1>1. Typed /\ CoopInv => LostOnlyToTheDrive
    <2> SUFFICES ASSUME Typed, CoopInv, NEW t \in Thread, pc[t] # "gone", t # current,
                        pc[t] \notin {"hwlock", "issue", "poll", "flush"}
                 PROVE  Queued(t) \/ InHand(t)
        BY DEF LostOnlyToTheDrive
    <2>1. InHand(t) <=> AtNode(t)
        BY InHandIs DEF Typed, RestOK, CoopInv
    <2>2. ~Running(t)
        BY DEF Running
    <2>3. CASE t \in IOThread
        <3>1. pc[t] \in Own
            BY DEF Typed, RestOK
        <3>2. pc[t] \in {"start", "pass", "queue"}
            BY <2>2, <2>3, <3>1 DEF CoopInv, IoWaits, Own, OnCPU
        <3>3. Found(t)
            BY <2>3, <3>2 DEF CoopInv, IoWaits
        <3> QED BY <2>1, <2>2, <3>3 DEF Found, Queued, InReady, InDisk
    <2>4. CASE t \in CPU
        BY <2>1, <2>2, <2>4 DEF CoopInv, CpuWaits, Queued, InReady
    <2> QED BY <2>3, <2>4 DEF CPU
<1> QED BY <1>1, CoopInvariant, TypedInvariant, PTL
=============================================================================
