----------------------------- MODULE DiskTransfer -----------------------------
(***************************************************************************)
(* How a block travels between a thread's buffer and the drive: hw_lock of *)
(* nonblocking_disk.C around SimpleDisk::read and write, which give the    *)
(* block number to the drive's registers byte by byte, poll the status,    *)
(* and move the data through one register, word by word.  The threads are  *)
(* preempted between any two accesses to a register; how they wait is in   *)
(* ThreadedKernel.                                                         *)
(***************************************************************************)
EXTENDS Integers, Functions

CONSTANTS
    Thread,    \* threads that use the disk
    Block,     \* block numbers
    Words,     \* words in a block (256)
    Base,      \* values of a byte (256)
    TopBase,   \* values of the highest part of a block number (16)
    Written,   \* what threads write, and what the disk holds at first
    ReadFails, \* the drive may report an error for a read
    NoThread

Byte   == 0 .. Base - 1
Index  == 0 .. Words - 1
Buffer == [0 .. 2 * Words - 1 -> Byte]

ASSUME DiskAssumption ==
    /\ {Words, Base, TopBase} \subseteq Nat \ {0}
    /\ Block # {} /\ Block \subseteq 0 .. Base * Base * Base * TopBase - 1
    /\ Written \subseteq Buffer /\ Written # {}
    /\ ReadFails \in BOOLEAN
    /\ NoThread \notin Thread

VARIABLES
    pc,       \* where each thread stands
    op,       \* the kind and the block of its call
    buf,      \* its buffer
    i,        \* words it has moved
    hwLock,   \* hw_lock: who holds it
    regs,     \* the drive's registers 0x1F3 .. 0x1F6
    drive,    \* the drive's status, its command, and the block it works on
    sector,   \* the drive's buffer, in words
    medium,   \* the blocks, in words
    fate      \* "running", or "aborted" by an assertion

thread == <<pc, op, buf, i, hwLock>>
device == <<regs, drive, sector, medium>>
vars == <<thread, device, fate>>

-----------------------------------------------------------------------------
(* Bytes, words and block numbers                                          *)

WordSwapped(b, n) == b[2 * n + 1] + Base * b[2 * n]

Word(b, n) == b[2 * n] + Base * b[2 * n + 1]

Sector == [Index -> 0 .. Base * Base - 1]

ToSector(b) == [n \in Index |-> Word(b, n)]

Store(b, n, w) == [b EXCEPT ![2 * n] = w % Base, ![2 * n + 1] = (w \div Base) % Base]

ToBuffer(s) == [k \in 0 .. 2 * Words - 1 |->
                   IF k % 2 = 0 THEN s[k \div 2] % Base ELSE s[k \div 2] \div Base]

Part(block, n) ==
    CASE n = 0 -> block % Base
      [] n = 1 -> (block \div Base) % Base
      [] n = 2 -> (block \div (Base * Base)) % Base
      [] n = 3 -> (block \div (Base * Base * Base)) % TopBase

Addressed == regs[0] + Base * (regs[1] + Base * (regs[2] + Base * regs[3]))

-----------------------------------------------------------------------------
Init ==
    /\ pc = [t \in Thread |-> "idle"]
    /\ op = [t \in Thread |-> [kind |-> "read", block |-> CHOOSE b \in Block : TRUE]]
    /\ buf = [t \in Thread |-> CHOOSE d \in Written : TRUE]
    /\ i = [t \in Thread |-> 0]
    /\ hwLock = NoThread
    /\ regs = [n \in 0 .. 3 |-> 0]
    /\ drive = [busy |-> FALSE, drq |-> FALSE, err |-> FALSE,
                command |-> "none", block |-> CHOOSE b \in Block : TRUE]
    /\ sector = [n \in Index |-> 0]
    /\ \E first \in [Block -> Written] : medium = [b \in Block |-> ToSector(first[b])]
    /\ fate = "running"

At(t, place) == fate = "running" /\ pc[t] = place
Goto(t, place) == pc' = [pc EXCEPT ![t] = place]

(* The call of NonBlockingDisk::read or write.                             *)
Call(t) ==
    /\ At(t, "idle")
    /\ \E b \in Block :
          \/ /\ op' = [op EXCEPT ![t] = [kind |-> "read", block |-> b]]
             /\ UNCHANGED buf
          \/ /\ op' = [op EXCEPT ![t] = [kind |-> "write", block |-> b]]
             /\ \E d \in Written : buf' = [buf EXCEPT ![t] = d]
    /\ i' = [i EXCEPT ![t] = 0]
    /\ Goto(t, "lock")
    /\ UNCHANGED <<hwLock, device, fate>>

(* hw_lock.lock()                                                          *)
LockAnyway(t) ==
    /\ At(t, "lock")
    /\ hwLock' = t
    /\ Goto(t, "issue")
    /\ UNCHANGED <<op, buf, i, device, fate>>

Lock(t) ==
    /\ At(t, "lock")
    /\ hwLock = NoThread
    /\ hwLock' = t
    /\ Goto(t, "issue")
    /\ UNCHANGED <<op, buf, i, device, fate>>

(* wait_while_busy at the beginning of ide_ata_issue_command.              *)
WaitToIssue(t) ==
    /\ At(t, "issue") /\ ~drive.busy
    /\ Goto(t, "address")
    /\ UNCHANGED <<op, buf, i, hwLock, device, fate>>

(* One byte of the block number; i counts them too.                        *)
OutAddress(t) ==
    /\ At(t, "address")
    /\ regs' = [regs EXCEPT ![i[t]] = Part(op[t].block, i[t])]
    /\ IF i[t] < 3
       THEN i' = [i EXCEPT ![t] = @ + 1] /\ UNCHANGED pc
       ELSE i' = [i EXCEPT ![t] = 0] /\ Goto(t, "command")
    /\ UNCHANGED <<op, buf, hwLock, drive, sector, medium, fate>>

(* The command register: a busy drive ignores it, and a block that the     *)
(* drive does not have is an error.                                        *)
Command(c, b) ==
    drive' = IF drive.busy THEN drive
             ELSE IF b \notin Block THEN [drive EXCEPT !.drq = FALSE, !.err = TRUE]
             ELSE [busy |-> TRUE, drq |-> FALSE, err |-> FALSE, command |-> c, block |-> b]

OutCommand(t) ==
    /\ At(t, "command")
    /\ Command(op[t].kind, Addressed)
    /\ Goto(t, "poll")
    /\ UNCHANGED <<op, buf, i, hwLock, regs, sector, medium, fate>>

(* ide_polling looks at the errors only for a read.                        *)
PollWithoutWait(t) ==
    /\ At(t, "poll")
    /\ Goto(t, "copy")
    /\ UNCHANGED <<op, buf, i, hwLock, device, fate>>

Poll(t) ==
    /\ At(t, "poll") /\ ~drive.busy
    /\ IF op[t].kind = "read" /\ (drive.err \/ ~drive.drq)
       THEN fate' = "aborted" /\ UNCHANGED pc
       ELSE Goto(t, "copy") /\ UNCHANGED fate
    /\ UNCHANGED <<op, buf, i, hwLock, device>>

(* The next word; after the last one the drive takes its request back, and *)
(* after a write it begins to store the sector.                            *)
NextWord(t, after) ==
    IF i[t] + 1 < Words
    THEN i' = [i EXCEPT ![t] = @ + 1] /\ UNCHANGED <<pc, drive>>
    ELSE /\ i' = [i EXCEPT ![t] = 0]
         /\ Goto(t, after)
         /\ drive' = IF op[t].kind = "read" THEN [drive EXCEPT !.drq = FALSE]
                     ELSE [drive EXCEPT !.drq = FALSE, !.busy = TRUE, !.command = "store"]

InWord(t) ==
    /\ At(t, "copy") /\ op[t].kind = "read"
    /\ buf' = [buf EXCEPT ![t] = Store(@, i[t], sector[i[t]])]
    /\ NextWord(t, "unlock")
    /\ UNCHANGED <<op, hwLock, regs, sector, medium, fate>>

OutWord(t) ==
    /\ At(t, "copy") /\ op[t].kind = "write"
    /\ sector' = [sector EXCEPT ![i[t]] = Word(buf[t], i[t])]
    /\ NextWord(t, "flush")
    /\ UNCHANGED <<op, buf, hwLock, regs, medium, fate>>

(* The cache flush is written at once after the last word, when the drive  *)
(* may still store the sector.                                             *)
OutFlush(t) ==
    /\ At(t, "flush")
    /\ Command("flush", drive.block)
    /\ Goto(t, "flushed")
    /\ UNCHANGED <<op, buf, i, hwLock, regs, sector, medium, fate>>

PollFlush(t) ==
    /\ At(t, "flushed") /\ ~drive.busy
    /\ Goto(t, "unlock")
    /\ UNCHANGED <<op, buf, i, hwLock, device, fate>>

Unlock(t) ==
    /\ At(t, "unlock")
    /\ hwLock' = NoThread
    /\ Goto(t, "done")
    /\ UNCHANGED <<op, buf, i, device, fate>>

Return(t) ==
    /\ At(t, "done")
    /\ Goto(t, "idle")
    /\ UNCHANGED <<op, buf, i, hwLock, device, fate>>

(* The drive finishes what it is busy with.                                *)
Finish ==
    /\ fate = "running" /\ drive.busy
    /\ CASE drive.command = "read" ->
              /\ \/ /\ sector' = medium[drive.block]
                    /\ drive' = [drive EXCEPT !.busy = FALSE, !.drq = TRUE]
                 \/ /\ ReadFails
                    /\ drive' = [drive EXCEPT !.busy = FALSE, !.err = TRUE]
                    /\ UNCHANGED sector
              /\ UNCHANGED medium
         [] drive.command = "write" ->
              /\ drive' = [drive EXCEPT !.busy = FALSE, !.drq = TRUE]
              /\ UNCHANGED <<sector, medium>>
         [] drive.command = "store" ->
              /\ medium' = [medium EXCEPT ![drive.block] = sector]
              /\ drive' = [drive EXCEPT !.busy = FALSE]
              /\ UNCHANGED sector
         [] drive.command = "flush" ->
              /\ drive' = [drive EXCEPT !.busy = FALSE]
              /\ UNCHANGED <<sector, medium>>
    /\ UNCHANGED <<thread, regs, fate>>

Step(t) ==
    \/ Call(t) \/ Lock(t) \/ WaitToIssue(t) \/ OutAddress(t) \/ OutCommand(t)
    \/ Poll(t) \/ InWord(t) \/ OutWord(t) \/ OutFlush(t) \/ PollFlush(t)
    \/ Unlock(t) \/ Return(t)

Next == Finish \/ \E t \in Thread : Step(t)

Spec == Init /\ [][Next]_vars

-----------------------------------------------------------------------------
(* Properties                                                              *)

(* Types of the state; i stays within the block.                           *)
TypeOK ==
    /\ pc \in [Thread -> {"idle", "lock", "issue", "address", "command", "poll",
                          "copy", "flush", "flushed", "unlock", "done"}]
    /\ op \in [Thread -> [kind : {"read", "write"}, block : Block]]
    /\ buf \in [Thread -> Buffer]
    /\ i \in [Thread -> Nat]
    /\ hwLock \in Thread \cup {NoThread}
    /\ regs \in [0 .. 3 -> Byte \cup 0 .. TopBase - 1]
    /\ drive \in [busy : BOOLEAN, drq : BOOLEAN, err : BOOLEAN,
                  command : {"none", "read", "write", "store", "flush"}, block : Block]
    /\ sector \in Sector
    /\ medium \in [Block -> Sector]
    /\ fate \in {"running", "aborted"}

(* The data register is used only while the drive asks for data, and for   *)
(* the block of the thread that uses it, whoever is preempted where.       *)
DataRequested ==
    \A t \in Thread : pc[t] = "copy" =>
        /\ drive.drq /\ ~drive.busy
        /\ drive.command = op[t].kind /\ drive.block = op[t].block

(* A thread's call has had its effect once the drive has loaded or stored  *)
(* the sector; until a read has copied it the drive's buffer holds it.     *)
Loaded(t) == /\ op[t].kind = "read"
             /\ \/ pc[t] \in {"copy", "unlock", "done"}
                \/ pc[t] = "poll" /\ drive.drq

Stored(t) == /\ op[t].kind = "write"
             /\ \/ pc[t] \in {"unlock", "done"}
                \/ pc[t] \in {"flush", "flushed"} /\ ~(drive.busy /\ drive.command = "store")

CallOf(t) ==
    IF pc[t] = "idle" THEN [state |-> "idle"]
    ELSE IF Loaded(t)
    THEN [state |-> "performed", kind |-> "read",
          data |-> IF pc[t] \in {"poll", "copy"} THEN ToBuffer(sector) ELSE buf[t]]
    ELSE IF Stored(t)
    THEN [state |-> "performed", kind |-> "write", data |-> buf[t]]
    ELSE IF op[t].kind = "read"
    THEN [state |-> "called", kind |-> "read", block |-> op[t].block]
    ELSE [state |-> "called", kind |-> "write", block |-> op[t].block, data |-> buf[t]]

Disk == INSTANCE BlockStore WITH
    store <- [b \in Block |-> ToBuffer(medium[b])],
    call  <- [t \in Thread |-> CallOf(t)]

(* The bytes that a read returns are those of the last write of that block *)
(* that took effect, never a mixture of two operations: read and write are *)
(* atomic to the threads.                                                  *)
ImplementsBlockStore == Disk!Spec
=============================================================================
