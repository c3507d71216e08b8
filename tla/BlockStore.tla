------------------------------ MODULE BlockStore ------------------------------
(***************************************************************************)
(* What a disk promises its callers: each call of read or write takes      *)
(* effect on one block, as a whole, at one moment between the call and the *)
(* return.                                                                 *)
(***************************************************************************)
CONSTANTS
    Thread,   \* callers
    Block,    \* block numbers
    Buffer    \* contents of a block

VARIABLES
    store,    \* store[b]: contents of block b
    call      \* call[t]: the call that t is in

Call == [state : {"idle"}]
        \cup [state : {"called"}, kind : {"read"}, block : Block]
        \cup [state : {"called"}, kind : {"write"}, block : Block, data : Buffer]
        \cup [state : {"performed"}, kind : {"read", "write"}, data : Buffer]

Idle == [state |-> "idle"]
Reading(b)    == [state |-> "called", kind |-> "read", block |-> b]
Writing(b, d) == [state |-> "called", kind |-> "write", block |-> b, data |-> d]
Performed(k, d) == [state |-> "performed", kind |-> k, data |-> d]

Init == /\ store \in [Block -> Buffer]
        /\ call = [t \in Thread |-> Idle]

Invoke(t) ==
    /\ call[t] = Idle
    /\ \E b \in Block : \E c \in {Reading(b)} \cup {Writing(b, d) : d \in Buffer} :
           call' = [call EXCEPT ![t] = c]
    /\ UNCHANGED store

Read(t) ==
    /\ \E b \in Block :
          /\ call[t] = Reading(b)
          /\ call' = [call EXCEPT ![t] = Performed("read", store[b])]
    /\ UNCHANGED store

Write(t) ==
    \E b \in Block, d \in Buffer :
       /\ call[t] = Writing(b, d)
       /\ store' = [store EXCEPT ![b] = d]
       /\ call' = [call EXCEPT ![t] = Performed("write", d)]

Respond(t) ==
    /\ call[t].state = "performed"
    /\ call' = [call EXCEPT ![t] = Idle]
    /\ UNCHANGED store

Next == \E t \in Thread : Invoke(t) \/ Read(t) \/ Write(t) \/ Respond(t)

Spec == Init /\ [][Next]_<<store, call>>
=============================================================================
