-------------------------- MODULE DiskTransferProofs --------------------------
(***************************************************************************)
(* Proofs about DiskTransfer, for any number of threads, blocks and words. *)
(*                                                                         *)
(* hw_lock makes a thread alone with the drive; the invariant follows its  *)
(* call through the registers, the poll and the words, and the refinement  *)
(* then finds the one step of the drive at which a call takes effect.      *)
(***************************************************************************)
EXTENDS DiskTransfer, TLAPS

-----------------------------------------------------------------------------
(* Numbers                                                                 *)

LEMMA Constants ==
    /\ Words \in Nat \ {0} /\ Base \in Nat \ {0} /\ TopBase \in Nat \ {0}
    /\ Block # {} /\ Block \subseteq 0 .. Base * Base * Base * TopBase - 1
    /\ Written \subseteq Buffer /\ Written # {} /\ NoThread \notin Thread
    /\ Byte = 0 .. Base - 1 /\ Index = 0 .. Words - 1
    BY DiskAssumption DEF Byte, Index

LEMMA DivMod ==
    ASSUME NEW a \in Nat, NEW n \in Nat \ {0}
    PROVE  a \div n \in Nat /\ a % n \in 0 .. n - 1 /\ a = (a \div n) * n + (a % n)
    OBVIOUS

LEMMA DivUnique ==
    ASSUME NEW n \in Nat \ {0}, NEW q \in Nat, NEW r \in 0 .. n - 1
    PROVE  (q * n + r) \div n = q /\ (q * n + r) % n = r
    OBVIOUS

LEMMA DivDiv ==
    ASSUME NEW a \in Nat, NEW m \in Nat \ {0}, NEW n \in Nat \ {0}
    PROVE  a \div (m * n) = (a \div m) \div n
<1> DEFINE q1 == a \div m
           r1 == a % m
           q2 == q1 \div n
           r2 == q1 % n
<1>1. q1 \in Nat /\ r1 \in 0 .. m - 1 /\ a = q1 * m + r1
    BY DivMod
<1>2. q2 \in Nat /\ r2 \in 0 .. n - 1 /\ q1 = q2 * n + r2
    BY <1>1, DivMod
<1> HIDE DEF q1, r1, q2, r2
<1>3. m * n \in Nat \ {0} /\ r2 * m + r1 \in Nat
    BY <1>1, <1>2
<1>4. r2 * m + r1 < m * n
    <2>1. r2 * m <= (n - 1) * m
        BY <1>2
    <2>2. (n - 1) * m = m * n - m
        OBVIOUS
    <2> QED BY <1>1, <1>2, <1>3, <2>1, <2>2
<1>5. a = q2 * (m * n) + (r2 * m + r1)
    BY <1>1, <1>2
<1>6. a \div (m * n) = q2
    BY <1>2, <1>3, <1>4, <1>5, DivUnique
<1> QED BY <1>6 DEF q2, q1

LEMMA ByteOfWord ==
    ASSUME NEW x \in Byte, NEW y \in Byte
    PROVE  /\ x + Base * y \in 0 .. Base * Base - 1
           /\ (x + Base * y) % Base = x /\ (x + Base * y) \div Base = y
<1>1. x + Base * y = y * Base + x
    BY Constants
<1>2. (y * Base + x) % Base = x /\ (y * Base + x) \div Base = y
    BY Constants, DivUnique
<1>3. y * Base <= (Base - 1) * Base
    BY Constants
<1>4. x + Base * y \in 0 .. Base * Base - 1
    BY <1>1, <1>3, Constants
<1> QED BY <1>1, <1>2, <1>4

LEMMA WordOfByte ==
    ASSUME NEW w \in 0 .. Base * Base - 1
    PROVE  w % Base \in Byte /\ w \div Base \in Byte /\ (w \div Base) % Base = w \div Base
<1>1. /\ w \in Nat /\ w \div Base \in Nat /\ w % Base \in 0 .. Base - 1
      /\ w = (w \div Base) * Base + (w % Base)
    <2>1. w \in Nat /\ Base \in Nat \ {0}
        BY Constants
    <2> QED BY <2>1, DivMod, Zenon
<1>2. w \div Base < Base
    <2> DEFINE q == w \div Base
               r == w % Base
    <2>1. q \in Nat /\ r \in Nat /\ w = q * Base + r /\ w < Base * Base /\ Base \in Nat
        BY <1>1, Constants
    <2> HIDE DEF q, r
    <2>2. q < Base
        BY <2>1
    <2> QED BY <2>2 DEF q
<1>3. w \div Base \in 0 .. Base - 1
    BY <1>1, <1>2, Constants
<1>4. (0 * Base + w \div Base) % Base = w \div Base
    BY <1>3, Constants, DivUnique
<1> QED BY <1>1, <1>3, <1>4, Constants

(* The four parts that ide_ata_issue_command writes are the block number.  *)
LEMMA AddressIs ==
    ASSUME NEW b \in Block
    PROVE  Part(b, 0) + Base * (Part(b, 1) + Base * (Part(b, 2) + Base * Part(b, 3))) = b
<1> DEFINE q1 == b \div Base
           q2 == q1 \div Base
           q3 == q2 \div Base
<1>1. b \in Nat /\ b < Base * Base * Base * TopBase /\ Base \in Nat \ {0} /\ TopBase \in Nat \ {0}
    BY Constants
<1>2. q1 \in Nat /\ b % Base \in 0 .. Base - 1 /\ b = q1 * Base + (b % Base)
    BY <1>1, DivMod, Zenon
<1>3. q2 \in Nat /\ q1 % Base \in 0 .. Base - 1 /\ q1 = q2 * Base + (q1 % Base)
    BY <1>1, <1>2, DivMod, Zenon
<1>4. q3 \in Nat /\ q2 % Base \in 0 .. Base - 1 /\ q2 = q3 * Base + (q2 % Base)
    BY <1>1, <1>3, DivMod, Zenon
<1>5. b \div (Base * Base) = q2
    BY <1>1, DivDiv
<1>6. b \div (Base * Base * Base) = q3
    <2>1. Base * Base \in Nat \ {0}
        BY <1>1
    <2>2. b \div ((Base * Base) * Base) = (b \div (Base * Base)) \div Base
        BY <1>1, <2>1, DivDiv
    <2> QED BY <1>5, <2>2
<1>7. q3 < TopBase
    <2> DEFINE C == Base * Base * Base
               d == b \div C
               r == b % C
    <2>1. C \in Nat \ {0}
        BY <1>1
    <2> HIDE DEF C
    <2>2. d \in Nat /\ r \in 0 .. C - 1 /\ b = d * C + r
        BY <1>1, <2>1, DivMod, Zenon
    <2>3. b < C * TopBase
        BY <1>1 DEF C
    <2> HIDE DEF d, r
    <2>4. d < TopBase
        BY <1>1, <2>1, <2>2, <2>3
    <2> QED BY <1>6, <2>4 DEF d, C
<1>8. q3 % TopBase = q3
    <2>1. q3 \in 0 .. TopBase - 1
        BY <1>1, <1>4, <1>7
    <2> HIDE DEF q3
    <2>2. (0 * TopBase + q3) % TopBase = q3
        <3>1. 0 \in Nat
            OBVIOUS
        <3> QED BY <1>1, <2>1, <3>1, DivUnique, Zenon
    <2> QED BY <1>1, <2>1, <2>2
<1>9. Part(b, 0) = b % Base /\ Part(b, 1) = q1 % Base
    BY DEF Part
<1>10. Part(b, 2) = q2 % Base
    BY <1>5 DEF Part
<1>11. Part(b, 3) = q3
    BY <1>6, <1>8 DEF Part
<1> HIDE DEF q1, q2, q3
<1> QED BY <1>1, <1>2, <1>3, <1>4, <1>9, <1>10, <1>11

LEMMA PartIs ==
    ASSUME NEW b \in Block, NEW n \in 0 .. 3
    PROVE  Part(b, n) \in Byte \cup 0 .. TopBase - 1
<1>1. b \in Nat /\ Base \in Nat \ {0} /\ TopBase \in Nat \ {0} /\ Byte = 0 .. Base - 1
    BY Constants
<1>2. Base * Base \in Nat \ {0} /\ Base * Base * Base \in Nat \ {0}
    BY <1>1
<1>3. /\ b \div Base \in Nat /\ b \div (Base * Base) \in Nat
      /\ b \div (Base * Base * Base) \in Nat
    BY <1>1, <1>2, DivMod
<1>4. CASE n = 0
    BY <1>1, <1>4, DivMod DEF Part
<1>5. CASE n = 1
    BY <1>1, <1>3, <1>5, DivMod DEF Part
<1>6. CASE n = 2
    BY <1>1, <1>3, <1>6, DivMod DEF Part
<1>7. CASE n = 3
    BY <1>1, <1>3, <1>7, DivMod DEF Part
<1> QED BY <1>4, <1>5, <1>6, <1>7

-----------------------------------------------------------------------------
(* Blocks in bytes and in words                                            *)

LEMMA Halves ==
    ASSUME NEW k \in 0 .. 2 * Words - 1
    PROVE  /\ k \div 2 \in Index
           /\ k % 2 = 0 => k = 2 * (k \div 2)
           /\ k % 2 # 0 => k = 2 * (k \div 2) + 1
    BY Constants

LEMMA Doubles ==
    ASSUME NEW n \in Index
    PROVE  /\ 2 * n \in 0 .. 2 * Words - 1 /\ 2 * n + 1 \in 0 .. 2 * Words - 1
           /\ (2 * n) % 2 = 0 /\ (2 * n) \div 2 = n
           /\ (2 * n + 1) % 2 = 1 /\ (2 * n + 1) \div 2 = n
    BY Constants

LEMMA BufferIs ==
    ASSUME NEW b \in Buffer, NEW n \in Index
    PROVE  /\ Word(b, n) \in 0 .. Base * Base - 1
           /\ Word(b, n) % Base = b[2 * n] /\ Word(b, n) \div Base = b[2 * n + 1]
<1>1. b[2 * n] \in Byte /\ b[2 * n + 1] \in Byte
    BY Doubles DEF Buffer
<1> QED BY <1>1, ByteOfWord DEF Word

LEMMA SectorIs ==
    /\ \A b \in Buffer : ToSector(b) \in Sector
    /\ \A s \in Sector : ToBuffer(s) \in Buffer
<1>1. \A b \in Buffer : ToSector(b) \in Sector
    BY BufferIs DEF ToSector, Sector
<1>2. ASSUME NEW s \in Sector, NEW k \in 0 .. 2 * Words - 1
      PROVE  (IF k % 2 = 0 THEN s[k \div 2] % Base ELSE s[k \div 2] \div Base) \in Byte
    <2>1. s[k \div 2] \in 0 .. Base * Base - 1
        BY Halves DEF Sector
    <2> QED BY <2>1, WordOfByte
<1>3. \A s \in Sector : ToBuffer(s) \in Buffer
    BY <1>2 DEF ToBuffer, Buffer
<1> QED BY <1>1, <1>3

LEMMA SameFunction ==
    ASSUME NEW S, NEW T, NEW f \in [S -> T], NEW g \in [S -> T], \A x \in S : f[x] = g[x]
    PROVE  f = g
    OBVIOUS

LEMMA SameBuffer ==
    ASSUME NEW b \in Buffer, NEW c \in Buffer,
           \A k \in 0 .. 2 * Words - 1 : b[k] = c[k]
    PROVE  b = c
<1> DEFINE D == 0 .. 2 * Words - 1
<1>1. b \in [D -> Byte] /\ c \in [D -> Byte] /\ \A k \in D : b[k] = c[k]
    BY DEF Buffer
<1> HIDE DEF D
<1> QED BY <1>1, SameFunction

LEMMA BackAndForth == ASSUME NEW b \in Buffer PROVE ToBuffer(ToSector(b)) = b
<1>1. ASSUME NEW k \in 0 .. 2 * Words - 1 PROVE ToBuffer(ToSector(b))[k] = b[k]
    <2>1. ToSector(b)[k \div 2] = Word(b, k \div 2)
        BY Halves DEF ToSector
    <2>2. CASE k % 2 = 0
        <3>1. ToBuffer(ToSector(b))[k] = Word(b, k \div 2) % Base
            BY <2>1, <2>2 DEF ToBuffer
        <3>2. Word(b, k \div 2) % Base = b[2 * (k \div 2)]
            BY Halves, BufferIs
        <3> QED BY <2>2, <3>1, <3>2, Halves
    <2>3. CASE k % 2 # 0
        <3>1. ToBuffer(ToSector(b))[k] = Word(b, k \div 2) \div Base
            BY <2>1, <2>3 DEF ToBuffer
        <3>2. Word(b, k \div 2) \div Base = b[2 * (k \div 2) + 1]
            BY Halves, BufferIs
        <3> QED BY <2>3, <3>1, <3>2, Halves
    <2> QED BY <2>2, <2>3
<1>2. ToBuffer(ToSector(b)) \in Buffer
    BY SectorIs
<1> QED BY <1>1, <1>2, SameBuffer, Zenon

(* One word from the data register is two bytes of the buffer.             *)
LEMMA StoredWord ==
    ASSUME NEW b \in Buffer, NEW n \in Index, NEW s \in Sector
    PROVE  /\ Store(b, n, s[n]) \in Buffer
           /\ \A k \in 0 .. 2 * Words - 1 :
                  Store(b, n, s[n])[k] = IF k \div 2 = n THEN ToBuffer(s)[k] ELSE b[k]
<1> DEFINE w == s[n]
           c == Store(b, n, w)
<1>1. /\ w \in 0 .. Base * Base - 1
      /\ w % Base \in Byte /\ w \div Base \in Byte /\ (w \div Base) % Base = w \div Base
    <2>1. w \in 0 .. Base * Base - 1
        BY DEF Sector
    <2> HIDE DEF w
    <2> QED BY <2>1, WordOfByte
<1>2. 2 * n \in 0 .. 2 * Words - 1 /\ 2 * n + 1 \in 0 .. 2 * Words - 1
    BY Doubles
<1>3. c = [b EXCEPT ![2 * n] = w % Base, ![2 * n + 1] = w \div Base]
    BY <1>1 DEF Store
<1> HIDE DEF w, c
<1>4. /\ c \in Buffer /\ c[2 * n] = w % Base /\ c[2 * n + 1] = w \div Base
      /\ \A k \in 0 .. 2 * Words - 1 : k # 2 * n /\ k # 2 * n + 1 => c[k] = b[k]
    <2> DEFINE x == w % Base
               y == w \div Base
               D == 0 .. 2 * Words - 1
    <2>1. x \in Byte /\ y \in Byte /\ 2 * n \in D /\ 2 * n + 1 \in D /\ b \in [D -> Byte]
        BY <1>1, <1>2 DEF Buffer
    <2>2. c = [b EXCEPT ![2 * n] = x, ![2 * n + 1] = y] /\ 2 * n # 2 * n + 1
        BY <1>3, Constants
    <2>3. c \in Buffer <=> c \in [D -> Byte]
        BY DEF Buffer
    <2> HIDE DEF x, y, D
    <2>4. /\ c \in [D -> Byte] /\ c[2 * n] = x /\ c[2 * n + 1] = y
          /\ \A k \in D : k # 2 * n /\ k # 2 * n + 1 => c[k] = b[k]
        BY <2>1, <2>2
    <2> QED BY <2>3, <2>4 DEF x, y, D
<1>5. ASSUME NEW k \in 0 .. 2 * Words - 1
      PROVE  c[k] = IF k \div 2 = n THEN ToBuffer(s)[k] ELSE b[k]
    <2>1. CASE k \div 2 = n /\ k % 2 = 0
        <3>1. k = 2 * n /\ ToBuffer(s)[k] = w % Base
            BY <2>1, Halves DEF ToBuffer, w
        <3> QED BY <1>4, <2>1, <3>1
    <2>2. CASE k \div 2 = n /\ k % 2 # 0
        <3>1. k = 2 * n + 1 /\ ToBuffer(s)[k] = w \div Base
            BY <2>2, Halves DEF ToBuffer, w
        <3> QED BY <1>4, <2>2, <3>1
    <2>3. CASE k \div 2 # n
        <3>1. k # 2 * n /\ k # 2 * n + 1
            BY <2>3, Doubles
        <3> QED BY <1>4, <2>3, <3>1
    <2> QED BY <2>1, <2>2, <2>3
<1> QED BY <1>4, <1>5 DEF c, w
-----------------------------------------------------------------------------
(* The inductive invariant                                                 *)

Locked == {"issue", "address", "command", "poll", "copy", "flush", "flushed", "unlock"}
Waits  == {"poll", "flush", "flushed"}

Holding == \A t \in Thread : pc[t] \in Locked <=> hwLock = t

(* The drive works only for a thread that is going to wait for it.         *)
Working == drive.busy => \E t \in Thread : pc[t] \in Waits

Counting(t) ==
    /\ pc[t] = "address" => i[t] <= 3
    /\ pc[t] = "copy" => i[t] < Words
    /\ pc[t] \notin {"address", "copy"} => i[t] = 0

Addressing(t) ==
    /\ pc[t] = "address" => \A n \in 0 .. 3 : n < i[t] => regs[n] = Part(op[t].block, n)
    /\ pc[t] = "command" => \A n \in 0 .. 3 : regs[n] = Part(op[t].block, n)

(* The command that the drive has, or had last, is the one of the thread.  *)
Waiting(t) ==
    pc[t] = "poll" =>
        /\ drive.command = op[t].kind /\ drive.block = op[t].block
        /\ drive.busy => ~drive.drq
        /\ ~drive.busy /\ op[t].kind = "write" => drive.drq

Copying(t) ==
    pc[t] = "copy" =>
        /\ ~drive.busy /\ drive.drq
        /\ drive.command = op[t].kind /\ drive.block = op[t].block
        /\ op[t].kind = "read" =>
               \A k \in 0 .. 2 * Words - 1 : k \div 2 < i[t] => buf[t][k] = ToBuffer(sector)[k]
        /\ op[t].kind = "write" =>
               \A n \in Index : n < i[t] => sector[n] = Word(buf[t], n)

(* While it still stores the sector, the sector is the thread's buffer.    *)
Storing(t) ==
    pc[t] \in {"flush", "flushed"} =>
        /\ op[t].kind = "write" /\ drive.block = op[t].block
        /\ drive.command = "store" \/ (pc[t] = "flushed" /\ drive.command = "flush")
        /\ drive.busy /\ drive.command = "store" => sector = ToSector(buf[t])

Progress(t) == Counting(t) /\ Addressing(t) /\ Waiting(t) /\ Copying(t) /\ Storing(t)

Inv == TypeOK /\ Holding /\ Working /\ \A t \in Thread : Progress(t)

-----------------------------------------------------------------------------
(* One thread at a time                                                    *)

LEMMA Alone ==
    ASSUME Holding, NEW t \in Thread, NEW u \in Thread, pc[t] \in Locked, pc[u] \in Locked
    PROVE  t = u
    BY DEF Holding

(* A step of t leaves the other threads where they are.                    *)
OthersStay(t) ==
    \A u \in Thread : u # t =>
        pc'[u] = pc[u] /\ op'[u] = op[u] /\ buf'[u] = buf[u] /\ i'[u] = i[u]

LEMMA OthersProgress ==
    ASSUME Holding, NEW t \in Thread, NEW u \in Thread, u # t, OthersStay(t), Progress(u),
           pc[t] \in Locked \/ UNCHANGED device
    PROVE  Progress(u)'
<1>1. pc'[u] = pc[u] /\ op'[u] = op[u] /\ buf'[u] = buf[u] /\ i'[u] = i[u]
    BY DEF OthersStay
<1>2. CASE UNCHANGED device
    BY <1>1, <1>2 DEF Progress, Counting, Addressing, Waiting, Copying, Storing, device
<1>3. CASE pc[t] \in Locked
    <2>1. pc[u] \notin Locked
        BY <1>3, Alone
    <2> QED BY <1>1, <2>1
            DEF Progress, Counting, Addressing, Waiting, Copying, Storing, Locked
<1> QED BY <1>2, <1>3

LEMMA Moves ==
    ASSUME Inv, NEW t \in Thread, TypeOK', OthersStay(t),
           pc[t] \in Locked \/ UNCHANGED device,
           \/ hwLock' = hwLock /\ (pc[t] \in Locked <=> pc'[t] \in Locked)
           \/ hwLock = NoThread /\ hwLock' = t /\ pc'[t] \in Locked
           \/ pc[t] \in Locked /\ hwLock' = NoThread /\ pc'[t] \notin Locked,
           drive'.busy => pc'[t] \in Waits \/ (drive.busy /\ pc[t] \notin Waits),
           Progress(t)'
    PROVE  Inv'
<1>1. ASSUME NEW u \in Thread, u # t PROVE Progress(u)'
    BY <1>1, OthersProgress DEF Inv
<1>2. Working'
    <2> SUFFICES ASSUME drive'.busy PROVE \E u \in Thread : pc'[u] \in Waits
        BY DEF Working
    <2>1. CASE pc'[t] \in Waits
        BY <2>1
    <2>2. CASE drive.busy /\ pc[t] \notin Waits
        <3>1. PICK u \in Thread : pc[u] \in Waits
            BY <2>2 DEF Inv, Working
        <3>2. pc'[u] = pc[u]
            BY <2>2, <3>1 DEF OthersStay
        <3> QED BY <3>1, <3>2
    <2> QED BY <2>1, <2>2
<1>3. Holding'
    <2> SUFFICES ASSUME NEW u \in Thread PROVE pc'[u] \in Locked <=> hwLock' = u
        BY DEF Holding
    <2>1. NoThread \notin Thread
        BY Constants
    <2>2. pc[u] \in Locked <=> hwLock = u
        BY DEF Inv, Holding
    <2>3. pc[t] \in Locked <=> hwLock = t
        BY DEF Inv, Holding
    <2>4. u # t => pc'[u] = pc[u]
        BY DEF OthersStay
    <2> QED BY <2>1, <2>2, <2>3, <2>4
<1> QED BY <1>1, <1>2, <1>3 DEF Inv

-----------------------------------------------------------------------------
(* The steps of a thread                                                   *)

Places == {"idle", "lock", "issue", "address", "command", "poll",
           "copy", "flush", "flushed", "unlock", "done"}
Ops    == [kind : {"read", "write"}, block : Block]
Drives == [busy : BOOLEAN, drq : BOOLEAN, err : BOOLEAN,
           command : {"none", "read", "write", "store", "flush"}, block : Block]

LEMMA Types ==
    TypeOK <=> /\ pc \in [Thread -> Places] /\ op \in [Thread -> Ops]
               /\ buf \in [Thread -> Buffer] /\ i \in [Thread -> Nat]
               /\ hwLock \in Thread \cup {NoThread}
               /\ regs \in [0 .. 3 -> Byte \cup 0 .. TopBase - 1]
               /\ drive \in Drives /\ sector \in Sector /\ medium \in [Block -> Sector]
               /\ fate \in {"running", "aborted"}
    BY DEF TypeOK, Places, Ops, Drives

LEMMA CallStep == ASSUME Inv, NEW t \in Thread, Call(t) PROVE Inv'
<1>1. PICK b \in Block, k \in {"read", "write"}, d \in Buffer :
          op' = [op EXCEPT ![t] = [kind |-> k, block |-> b]] /\ buf' = [buf EXCEPT ![t] = d]
    <2>1. buf = [buf EXCEPT ![t] = buf[t]] /\ buf[t] \in Buffer /\ Written \subseteq Buffer
        BY Constants DEF Inv, TypeOK
    <2> QED BY <2>1 DEF Call
<1>2. TypeOK'
    BY <1>1 DEF Inv, TypeOK, Call, Goto, device
<1>3. OthersStay(t)
    BY <1>1 DEF Inv, TypeOK, Call, Goto, OthersStay
<1>4. pc[t] = "idle" /\ pc'[t] = "lock" /\ i'[t] = 0 /\ hwLock' = hwLock /\ UNCHANGED device
    BY DEF Inv, TypeOK, Call, Goto, At
<1>5. Progress(t)'
    BY <1>4 DEF Progress, Counting, Addressing, Waiting, Copying, Storing
<1> QED BY <1>2, <1>3, <1>4, <1>5, Moves DEF Locked, Waits, device

LEMMA LockStep == ASSUME Inv, NEW t \in Thread, Lock(t) PROVE Inv'
<1>1. TypeOK'
    BY DEF Inv, TypeOK, Lock, Goto, device
<1>2. OthersStay(t)
    BY DEF Inv, TypeOK, Lock, Goto, OthersStay
<1>3. /\ pc[t] = "lock" /\ pc'[t] = "issue" /\ i'[t] = i[t] /\ UNCHANGED device
      /\ hwLock = NoThread /\ hwLock' = t
    BY DEF Inv, TypeOK, Lock, Goto, At
<1>4. Progress(t)'
    BY <1>3 DEF Inv, Progress, Counting, Addressing, Waiting, Copying, Storing
<1> QED BY <1>1, <1>2, <1>3, <1>4, Moves DEF Locked, Waits, device

LEMMA IssueStep == ASSUME Inv, NEW t \in Thread, WaitToIssue(t) PROVE Inv'
<1>1. TypeOK'
    BY DEF Inv, TypeOK, WaitToIssue, Goto, device
<1>2. OthersStay(t)
    BY DEF Inv, TypeOK, WaitToIssue, Goto, OthersStay
<1>3. /\ pc[t] = "issue" /\ pc'[t] = "address" /\ i'[t] = i[t] /\ UNCHANGED device
      /\ hwLock' = hwLock
    BY DEF Inv, TypeOK, WaitToIssue, Goto, At
<1>4. Progress(t)'
    BY <1>3 DEF Inv, Progress, Counting, Addressing, Waiting, Copying, Storing
<1> QED BY <1>1, <1>2, <1>3, <1>4, Moves DEF Locked, Waits, device

LEMMA AddressStep == ASSUME Inv, NEW t \in Thread, OutAddress(t) PROVE Inv'
<1> DEFINE p == Part(op[t].block, i[t])
<1>1. /\ pc[t] = "address" /\ i[t] \in 0 .. 3 /\ op[t].block \in Block
      /\ regs' = [regs EXCEPT ![i[t]] = p] /\ op' = op /\ hwLock' = hwLock /\ drive' = drive
    BY DEF Inv, TypeOK, Progress, Counting, OutAddress, At
<1>2. p \in Byte \cup 0 .. TopBase - 1
    BY <1>1, PartIs
<1>3. \/ i[t] < 3 /\ i' = [i EXCEPT ![t] = @ + 1] /\ pc' = pc
      \/ i[t] = 3 /\ i' = [i EXCEPT ![t] = 0] /\ pc' = [pc EXCEPT ![t] = "command"]
    BY <1>1 DEF OutAddress, Goto
<1>4. \A n \in 0 .. 3 : n < i[t] + 1 => regs'[n] = Part(op[t].block, n)
    <2>1. \A n \in 0 .. 3 : n < i[t] => regs[n] = Part(op[t].block, n)
        BY <1>1 DEF Inv, Progress, Addressing
    <2>2. regs \in [0 .. 3 -> Byte \cup 0 .. TopBase - 1]
        BY DEF Inv, TypeOK
    <2> HIDE DEF p
    <2>3. regs'[i[t]] = p /\ \A n \in 0 .. 3 : n # i[t] => regs'[n] = regs[n]
        BY <1>1, <2>2
    <2> QED BY <1>1, <2>1, <2>3 DEF p
<1> HIDE DEF p
<1>5. TypeOK'
    <2>1. regs' \in [0 .. 3 -> Byte \cup 0 .. TopBase - 1]
        BY <1>1, <1>2 DEF Inv, TypeOK
    <2>2. i' \in [Thread -> Nat]
        BY <1>3 DEF Inv, TypeOK
    <2>3. pc' \in [Thread -> Places]
        BY <1>3, Types DEF Inv, Places
    <2> QED BY <2>1, <2>2, <2>3, Types DEF Inv, TypeOK, OutAddress, Places
<1>6. OthersStay(t)
    BY <1>3 DEF Inv, TypeOK, OutAddress, OthersStay
<1>7. \/ pc'[t] = "address" /\ i'[t] = i[t] + 1 /\ i[t] < 3
      \/ pc'[t] = "command" /\ i'[t] = 0 /\ i[t] = 3
    BY <1>1, <1>3 DEF Inv, TypeOK
<1>8. Progress(t)'
    BY <1>1, <1>4, <1>7 DEF Progress, Counting, Addressing, Waiting, Copying, Storing
<1> QED BY <1>1, <1>5, <1>6, <1>7, <1>8, Moves DEF Locked, Waits

LEMMA CommandStep == ASSUME Inv, NEW t \in Thread, OutCommand(t) PROVE Inv'
<1>1. pc[t] = "command" /\ op[t] \in Ops
    BY Types DEF Inv, OutCommand, At
<1>2. Addressed = op[t].block
    <2>1. /\ regs[0] = Part(op[t].block, 0) /\ regs[1] = Part(op[t].block, 1)
          /\ regs[2] = Part(op[t].block, 2) /\ regs[3] = Part(op[t].block, 3)
        BY <1>1 DEF Inv, Progress, Addressing
    <2>2. op[t].block \in Block
        BY <1>1 DEF Ops
    <2> QED BY <2>1, <2>2, AddressIs DEF Addressed
<1>3. ~drive.busy
    <2>1. ASSUME NEW u \in Thread, pc[u] \in Waits PROVE FALSE
        BY <1>1, <2>1, Alone DEF Inv, Locked, Waits
    <2> QED BY <2>1 DEF Inv, Working
<1>4. drive' = [busy |-> TRUE, drq |-> FALSE, err |-> FALSE,
                command |-> op[t].kind, block |-> op[t].block]
    BY <1>1, <1>2, <1>3 DEF OutCommand, Command, Ops
<1>5. TypeOK'
    <2>1. drive' \in Drives
        BY <1>1, <1>4 DEF Drives, Ops
    <2>2. pc' \in [Thread -> Places]
        BY Types DEF Inv, OutCommand, Goto, Places
    <2> QED BY <2>1, <2>2, Types DEF Inv, TypeOK, OutCommand, Drives, Places
<1>6. OthersStay(t)
    BY DEF Inv, TypeOK, OutCommand, Goto, OthersStay
<1>7. pc'[t] = "poll" /\ i'[t] = i[t] /\ op' = op /\ hwLock' = hwLock
    BY DEF Inv, TypeOK, OutCommand, Goto
<1>8. Progress(t)'
    BY <1>1, <1>4, <1>7 DEF Inv, Progress, Counting, Addressing, Waiting, Copying, Storing
<1> QED BY <1>1, <1>5, <1>6, <1>7, <1>8, Moves DEF Locked, Waits

LEMMA PollStep == ASSUME Inv, NEW t \in Thread, Poll(t) PROVE Inv'
<1>1. /\ pc[t] = "poll" /\ ~drive.busy /\ op[t] \in Ops /\ i[t] = 0
      /\ UNCHANGED <<op, buf, i, hwLock, device>>
    BY Types DEF Inv, Poll, At, Progress, Counting
<1>2. \/ pc' = pc /\ fate' = "aborted"
      \/ /\ ~(op[t].kind = "read" /\ (drive.err \/ ~drive.drq))
         /\ pc' = [pc EXCEPT ![t] = "copy"] /\ fate' = fate
    BY DEF Poll, Goto
<1>3. TypeOK'
    BY <1>1, <1>2 DEF Inv, TypeOK, device
<1>4. OthersStay(t)
    BY <1>1, <1>2 DEF Inv, TypeOK, OthersStay
<1>5. pc'[t] = pc[t] \/ (pc'[t] = "copy" /\ (op[t].kind = "read" => drive.drq))
    BY <1>2 DEF Inv, TypeOK
<1>6. Progress(t)'
    <2>1. CASE pc'[t] = pc[t]
        BY <1>1, <2>1 DEF Inv, Progress, Counting, Addressing, Waiting, Copying, Storing, device
    <2>2. CASE pc'[t] = "copy" /\ (op[t].kind = "read" => drive.drq)
        <3>1. drive.drq /\ drive.command = op[t].kind /\ drive.block = op[t].block
            BY <1>1, <2>2 DEF Inv, Progress, Waiting, Ops
        <3>2. Words \in Nat \ {0} /\ (\A k \in 0 .. 2 * Words - 1 : ~(k \div 2 < 0))
            BY Constants
        <3>3. \A n \in Index : ~(n < 0)
            BY DEF Index
        <3> QED BY <1>1, <2>2, <3>1, <3>2, <3>3
                DEF Progress, Counting, Addressing, Waiting, Copying, Storing, device
    <2> QED BY <1>5, <2>1, <2>2
<1> QED BY <1>1, <1>3, <1>4, <1>5, <1>6, Moves DEF Locked, Waits, device

(* What a word more means: NextWord goes on, or it ends the copy.          *)
LEMMA WordStep ==
    ASSUME Inv, NEW t \in Thread, NEW after, pc[t] = "copy", NextWord(t, after)
    PROVE  /\ i[t] \in Index /\ ~drive.busy
           /\ \/ /\ i[t] + 1 < Words /\ i'[t] = i[t] + 1
                 /\ pc' = pc /\ drive' = drive
              \/ /\ i[t] + 1 = Words /\ i'[t] = 0
                 /\ pc' = [pc EXCEPT ![t] = after]
                 /\ drive' = IF op[t].kind = "read" THEN [drive EXCEPT !.drq = FALSE]
                             ELSE [drive EXCEPT !.drq = FALSE, !.busy = TRUE,
                                                !.command = "store"]
           /\ i' \in [Thread -> Nat] /\ drive' \in Drives
           /\ \A u \in Thread : u # t => i'[u] = i[u]
<1>1. i[t] \in Nat /\ i[t] < Words /\ Words \in Nat \ {0} /\ Index = 0 .. Words - 1
    BY Constants DEF Inv, TypeOK, Progress, Counting
<1>2. i[t] \in Index /\ ~drive.busy
    BY <1>1 DEF Inv, Progress, Copying
<1>3. i \in [Thread -> Nat] /\ drive \in Drives
    BY Types DEF Inv
<1>4. [drive EXCEPT !.drq = FALSE] \in Drives
    BY <1>3 DEF Drives
<1>5. [drive EXCEPT !.drq = FALSE, !.busy = TRUE, !.command = "store"] \in Drives
    BY <1>3 DEF Drives
<1>6. CASE i[t] + 1 < Words
    BY <1>1, <1>2, <1>3, <1>6 DEF NextWord
<1>7. CASE ~(i[t] + 1 < Words)
    <2>1. i[t] + 1 = Words
        BY <1>1, <1>7
    <2>2. i' = [i EXCEPT ![t] = 0] /\ pc' = [pc EXCEPT ![t] = after]
        BY <1>7 DEF NextWord, Goto
    <2>3. drive' = IF op[t].kind = "read" THEN [drive EXCEPT !.drq = FALSE]
                   ELSE [drive EXCEPT !.drq = FALSE, !.busy = TRUE, !.command = "store"]
        BY <1>7 DEF NextWord
    <2> QED BY <1>2, <1>3, <1>4, <1>5, <2>1, <2>2, <2>3
<1> QED BY <1>6, <1>7

(* The bytes read so far, one word later.                                  *)
LEMMA ReadSoFar ==
    ASSUME Inv, NEW t \in Thread, InWord(t)
    PROVE  /\ buf' \in [Thread -> Buffer] /\ \A u \in Thread : u # t => buf'[u] = buf[u]
           /\ \A k \in 0 .. 2 * Words - 1 :
                  k \div 2 < i[t] + 1 => buf'[t][k] = ToBuffer(sector)[k]
           /\ i[t] + 1 = Words => buf'[t] = ToBuffer(sector)
<1>1. pc[t] = "copy" /\ op[t].kind = "read" /\ buf \in [Thread -> Buffer] /\ sector \in Sector
    BY DEF Inv, TypeOK, InWord, At
<1>2. i[t] \in Index
    BY <1>1, WordStep DEF InWord
<1>3. \A k \in 0 .. 2 * Words - 1 : k \div 2 < i[t] => buf[t][k] = ToBuffer(sector)[k]
    BY <1>1 DEF Inv, Progress, Copying
<1> DEFINE c == Store(buf[t], i[t], sector[i[t]])
<1>4. /\ c \in Buffer
      /\ \A k \in 0 .. 2 * Words - 1 :
             c[k] = IF k \div 2 = i[t] THEN ToBuffer(sector)[k] ELSE buf[t][k]
    <2>1. buf[t] \in Buffer
        BY <1>1
    <2> QED BY <1>1, <1>2, <2>1, StoredWord
<1>5. buf' = [buf EXCEPT ![t] = c]
    BY DEF InWord
<1> HIDE DEF c
<1>6. /\ buf' \in [Thread -> Buffer] /\ buf'[t] = c
      /\ \A u \in Thread : u # t => buf'[u] = buf[u]
    BY <1>1, <1>4, <1>5
<1>7. ASSUME NEW k \in 0 .. 2 * Words - 1, k \div 2 < i[t] + 1
      PROVE  c[k] = ToBuffer(sector)[k]
    <2> DEFINE h == k \div 2
    <2>1. h \in Int /\ i[t] \in Int /\ h < i[t] + 1
        BY <1>2, <1>7, Halves DEF Index
    <2> HIDE DEF h
    <2>2. h = i[t] \/ h < i[t]
        BY <2>1
    <2> USE DEF h
    <2> QED BY <1>3, <1>4, <2>2
<1>8. i[t] + 1 = Words => c = ToBuffer(sector)
    <2>1. ASSUME i[t] + 1 = Words, NEW k \in 0 .. 2 * Words - 1 PROVE k \div 2 < i[t] + 1
        <3>1. k \div 2 \in 0 .. Words - 1 /\ Words \in Nat
            BY Halves, Constants
        <3> QED BY <2>1, <3>1
    <2>2. ToBuffer(sector) \in Buffer
        BY <1>1, SectorIs
    <2> QED BY <1>4, <1>7, <2>1, <2>2, SameBuffer
<1> QED BY <1>6, <1>7, <1>8

LEMMA InStep == ASSUME Inv, NEW t \in Thread, InWord(t) PROVE Inv'
<1>1. /\ pc[t] = "copy" /\ op[t].kind = "read" /\ pc \in [Thread -> Places]
      /\ UNCHANGED <<op, hwLock, regs, sector, medium, fate>> /\ NextWord(t, "unlock")
    BY Types DEF Inv, InWord, At
<1>2. /\ i[t] \in Index /\ ~drive.busy
      /\ i' \in [Thread -> Nat] /\ drive' \in Drives /\ \A u \in Thread : u # t => i'[u] = i[u]
      /\ \/ i[t] + 1 < Words /\ i'[t] = i[t] + 1 /\ pc' = pc /\ drive' = drive
         \/ /\ i[t] + 1 = Words /\ i'[t] = 0 /\ pc' = [pc EXCEPT ![t] = "unlock"]
            /\ drive' = [drive EXCEPT !.drq = FALSE]
    BY <1>1, WordStep
<1>3. TypeOK'
    <2>1. pc' \in [Thread -> Places]
        BY <1>1, <1>2 DEF Places
    <2> QED BY <1>1, <1>2, <2>1, ReadSoFar, Types DEF Inv, TypeOK, Drives, Places
<1>4. OthersStay(t)
    BY <1>1, <1>2, ReadSoFar DEF OthersStay
<1>5. \/ i[t] + 1 < Words /\ i'[t] = i[t] + 1 /\ pc'[t] = "copy" /\ drive' = drive
      \/ i'[t] = 0 /\ pc'[t] = "unlock" /\ ~drive'.busy
    <2>1. drive \in Drives
        BY Types DEF Inv
    <2> QED BY <1>1, <1>2, <2>1 DEF Drives
<1>6. Progress(t)'
    <2>1. CASE i[t] + 1 < Words /\ i'[t] = i[t] + 1 /\ pc'[t] = "copy" /\ drive' = drive
        <3>1. drive.drq /\ drive.command = op[t].kind /\ drive.block = op[t].block
            BY <1>1 DEF Inv, Progress, Copying
        <3>2. \A k \in 0 .. 2 * Words - 1 : k \div 2 < i'[t] => buf'[t][k] = ToBuffer(sector)[k]
            BY <2>1, ReadSoFar
        <3> QED BY <1>1, <1>2, <2>1, <3>1, <3>2
                DEF Progress, Counting, Addressing, Waiting, Copying, Storing
    <2>2. CASE i'[t] = 0 /\ pc'[t] = "unlock"
        BY <2>2 DEF Progress, Counting, Addressing, Waiting, Copying, Storing
    <2> QED BY <1>5, <2>1, <2>2
<1> QED BY <1>1, <1>2, <1>3, <1>4, <1>5, <1>6, Moves DEF Locked, Waits

(* The words written so far, one word later.                               *)
LEMMA WrittenSoFar ==
    ASSUME Inv, NEW t \in Thread, OutWord(t)
    PROVE  /\ sector' \in Sector
           /\ \A n \in Index : n < i[t] + 1 => sector'[n] = Word(buf[t], n)
           /\ i[t] + 1 = Words => sector' = ToSector(buf[t])
<1>1. pc[t] = "copy" /\ op[t].kind = "write" /\ buf[t] \in Buffer /\ sector \in Sector
    BY DEF Inv, TypeOK, OutWord, At
<1>2. i[t] \in Index
    BY <1>1, WordStep DEF OutWord
<1>3. \A n \in Index : n < i[t] => sector[n] = Word(buf[t], n)
    BY <1>1 DEF Inv, Progress, Copying
<1> DEFINE w == Word(buf[t], i[t])
<1>4. sector' = [sector EXCEPT ![i[t]] = w] /\ w \in 0 .. Base * Base - 1
    BY <1>1, <1>2, BufferIs DEF OutWord
<1> HIDE DEF w
<1>5. sector' \in Sector /\ sector'[i[t]] = w /\ \A n \in Index : n # i[t] => sector'[n] = sector[n]
    BY <1>1, <1>2, <1>4 DEF Sector
<1>6. ASSUME NEW n \in Index, n < i[t] + 1 PROVE sector'[n] = Word(buf[t], n)
    <2>1. n = i[t] \/ n < i[t]
        BY <1>2, <1>6 DEF Index
    <2> QED BY <1>3, <1>5, <2>1, <1>2 DEF w, Index
<1>7. i[t] + 1 = Words => sector' = ToSector(buf[t])
    <2>1. ASSUME i[t] + 1 = Words, NEW n \in Index PROVE sector'[n] = ToSector(buf[t])[n]
        <3>1. n < i[t] + 1
            BY <2>1, Constants
        <3> QED BY <1>6, <3>1 DEF ToSector
    <2>2. ToSector(buf[t]) \in Sector
        BY <1>1, SectorIs
    <2> QED BY <1>5, <2>1, <2>2, SameFunction DEF Sector
<1> QED BY <1>5, <1>6, <1>7

LEMMA OutStep == ASSUME Inv, NEW t \in Thread, OutWord(t) PROVE Inv'
<1>1. /\ pc[t] = "copy" /\ op[t].kind = "write" /\ pc \in [Thread -> Places]
      /\ UNCHANGED <<op, buf, hwLock, regs, medium, fate>> /\ NextWord(t, "flush")
    BY Types DEF Inv, OutWord, At
<1>2. /\ i[t] \in Index /\ ~drive.busy
      /\ i' \in [Thread -> Nat] /\ drive' \in Drives /\ \A u \in Thread : u # t => i'[u] = i[u]
      /\ \/ i[t] + 1 < Words /\ i'[t] = i[t] + 1 /\ pc' = pc /\ drive' = drive
         \/ /\ i[t] + 1 = Words /\ i'[t] = 0 /\ pc' = [pc EXCEPT ![t] = "flush"]
            /\ drive' = [drive EXCEPT !.drq = FALSE, !.busy = TRUE, !.command = "store"]
    BY <1>1, WordStep
<1>3. TypeOK'
    <2>1. pc' \in [Thread -> Places]
        BY <1>1, <1>2 DEF Places
    <2> QED BY <1>1, <1>2, <2>1, WrittenSoFar, Types DEF Inv, TypeOK, Drives, Places
<1>4. OthersStay(t)
    BY <1>1, <1>2 DEF OthersStay
<1>5. drive.drq /\ drive.command = op[t].kind /\ drive.block = op[t].block
    BY <1>1 DEF Inv, Progress, Copying
<1>6. \/ i[t] + 1 < Words /\ i'[t] = i[t] + 1 /\ pc'[t] = "copy" /\ drive' = drive
      \/ /\ i[t] + 1 = Words /\ i'[t] = 0 /\ pc'[t] = "flush"
         /\ drive'.command = "store" /\ drive'.block = op[t].block
    <2>1. drive \in Drives
        BY Types DEF Inv
    <2> QED BY <1>1, <1>2, <1>5, <2>1 DEF Drives
<1>7. Progress(t)'
    <2>1. CASE i[t] + 1 < Words /\ i'[t] = i[t] + 1 /\ pc'[t] = "copy" /\ drive' = drive
        <3>1. \A n \in Index : n < i'[t] => sector'[n] = Word(buf[t], n)
            BY <2>1, WrittenSoFar
        <3> QED BY <1>1, <1>2, <1>5, <2>1, <3>1
                DEF Progress, Counting, Addressing, Waiting, Copying, Storing
    <2>2. CASE /\ i[t] + 1 = Words /\ i'[t] = 0 /\ pc'[t] = "flush"
               /\ drive'.command = "store" /\ drive'.block = op[t].block
        <3>1. sector' = ToSector(buf'[t])
            BY <1>1, <2>2, WrittenSoFar
        <3> QED BY <1>1, <2>2, <3>1
                DEF Progress, Counting, Addressing, Waiting, Copying, Storing
    <2> QED BY <1>6, <2>1, <2>2
<1> QED BY <1>1, <1>2, <1>3, <1>4, <1>6, <1>7, Moves DEF Locked, Waits
LEMMA FlushStep == ASSUME Inv, NEW t \in Thread, OutFlush(t) PROVE Inv'
<1>1. /\ pc[t] = "flush" /\ op[t] \in Ops /\ drive \in Drives /\ i[t] = 0
      /\ UNCHANGED <<op, buf, i, hwLock, regs, sector, medium, fate>>
    BY Types DEF Inv, OutFlush, At, Progress, Counting
<1>2. /\ op[t].kind = "write" /\ drive.block = op[t].block /\ drive.command = "store"
      /\ drive.busy => sector = ToSector(buf[t])
    BY <1>1 DEF Inv, Progress, Storing
<1>3. \/ drive.busy /\ drive' = drive
      \/ drive' = [busy |-> TRUE, drq |-> FALSE, err |-> FALSE,
                   command |-> "flush", block |-> drive.block]
    BY <1>1 DEF OutFlush, Command, Drives
<1>4. TypeOK'
    <2>1. drive' \in Drives
        <3>1. drive.block \in Block
            BY <1>1 DEF Drives
        <3>2. CASE drive' = drive
            BY <1>1, <3>2
        <3>3. CASE drive' = [busy |-> TRUE, drq |-> FALSE, err |-> FALSE,
                             command |-> "flush", block |-> drive.block]
            BY <3>1, <3>3 DEF Drives
        <3> QED BY <1>3, <3>2, <3>3
    <2>2. pc' \in [Thread -> Places]
        BY Types DEF Inv, OutFlush, Goto, Places
    <2> QED BY <1>1, <2>1, <2>2, Types DEF Inv, TypeOK, Drives, Places
<1>5. OthersStay(t)
    BY DEF Inv, TypeOK, OutFlush, Goto, OthersStay
<1>6. pc'[t] = "flushed"
    BY DEF Inv, TypeOK, OutFlush, Goto
<1>7. Progress(t)'
    BY <1>1, <1>2, <1>3, <1>6 DEF Progress, Counting, Addressing, Waiting, Copying, Storing
<1> QED BY <1>1, <1>4, <1>5, <1>6, <1>7, Moves DEF Locked, Waits

LEMMA FlushedStep == ASSUME Inv, NEW t \in Thread, PollFlush(t) PROVE Inv'
<1>1. TypeOK'
    BY DEF Inv, TypeOK, PollFlush, Goto, device
<1>2. OthersStay(t)
    BY DEF Inv, TypeOK, PollFlush, Goto, OthersStay
<1>3. /\ pc[t] = "flushed" /\ pc'[t] = "unlock" /\ i'[t] = i[t] /\ UNCHANGED device
      /\ hwLock' = hwLock /\ ~drive.busy
    BY DEF Inv, TypeOK, PollFlush, Goto, At
<1>4. Progress(t)'
    BY <1>3 DEF Inv, Progress, Counting, Addressing, Waiting, Copying, Storing
<1> QED BY <1>1, <1>2, <1>3, <1>4, Moves DEF Locked, Waits, device

LEMMA UnlockStep == ASSUME Inv, NEW t \in Thread, Unlock(t) PROVE Inv'
<1>1. TypeOK'
    BY DEF Inv, TypeOK, Unlock, Goto, device
<1>2. OthersStay(t)
    BY DEF Inv, TypeOK, Unlock, Goto, OthersStay
<1>3. /\ pc[t] = "unlock" /\ pc'[t] = "done" /\ i'[t] = i[t] /\ UNCHANGED device
      /\ hwLock' = NoThread
    BY DEF Inv, TypeOK, Unlock, Goto, At
<1>4. Progress(t)'
    BY <1>3 DEF Inv, Progress, Counting, Addressing, Waiting, Copying, Storing
<1> QED BY <1>1, <1>2, <1>3, <1>4, Moves DEF Locked, Waits, device

LEMMA ReturnStep == ASSUME Inv, NEW t \in Thread, Return(t) PROVE Inv'
<1>1. TypeOK'
    BY DEF Inv, TypeOK, Return, Goto, device
<1>2. OthersStay(t)
    BY DEF Inv, TypeOK, Return, Goto, OthersStay
<1>3. /\ pc[t] = "done" /\ pc'[t] = "idle" /\ i'[t] = i[t] /\ UNCHANGED device
      /\ hwLock' = hwLock
    BY DEF Inv, TypeOK, Return, Goto, At
<1>4. Progress(t)'
    BY <1>3 DEF Inv, Progress, Counting, Addressing, Waiting, Copying, Storing
<1> QED BY <1>1, <1>2, <1>3, <1>4, Moves DEF Locked, Waits, device

-----------------------------------------------------------------------------
(* The step of the drive                                                   *)

(* What the drive finishes is what the thread that waits for it asked.     *)
LEMMA Finishes ==
    ASSUME Inv, Finish, NEW t \in Thread, pc[t] \in Waits
    PROVE  \/ /\ pc[t] = "poll" /\ op[t].kind = "read" /\ drive.command = "read"
              /\ sector' = medium[op[t].block] /\ medium' = medium
              /\ drive' = [drive EXCEPT !.busy = FALSE, !.drq = TRUE]
           \/ /\ pc[t] = "poll" /\ op[t].kind = "read" /\ drive.command = "read"
              /\ drive' = [drive EXCEPT !.busy = FALSE, !.err = TRUE]
              /\ UNCHANGED <<sector, medium>>
           \/ /\ pc[t] = "poll" /\ op[t].kind = "write" /\ drive.command = "write"
              /\ drive' = [drive EXCEPT !.busy = FALSE, !.drq = TRUE]
              /\ UNCHANGED <<sector, medium>>
           \/ /\ pc[t] \in {"flush", "flushed"} /\ op[t].kind = "write"
              /\ drive.command = "store" /\ sector = ToSector(buf[t])
              /\ medium' = [medium EXCEPT ![op[t].block] = sector]
              /\ drive' = [drive EXCEPT !.busy = FALSE] /\ sector' = sector
           \/ /\ pc[t] = "flushed" /\ op[t].kind = "write" /\ drive.command = "flush"
              /\ drive' = [drive EXCEPT !.busy = FALSE]
              /\ UNCHANGED <<sector, medium>>
<1>1. op[t].kind \in {"read", "write"} /\ drive.busy
    BY DEF Inv, TypeOK, Finish
<1>2. CASE pc[t] = "poll"
    <2>1. drive.command = op[t].kind /\ drive.block = op[t].block
        BY <1>2 DEF Inv, Progress, Waiting
    <2>2. CASE op[t].kind = "read"
        BY <1>2, <2>1, <2>2 DEF Finish
    <2>3. CASE op[t].kind = "write"
        BY <1>2, <2>1, <2>3 DEF Finish
    <2> QED BY <1>1, <2>2, <2>3
<1>3. CASE pc[t] \in {"flush", "flushed"}
    <2>1. /\ op[t].kind = "write" /\ drive.block = op[t].block
          /\ drive.command = "store" \/ (pc[t] = "flushed" /\ drive.command = "flush")
          /\ drive.command = "store" => sector = ToSector(buf[t])
        BY <1>1, <1>3 DEF Inv, Progress, Storing
    <2>2. CASE drive.command = "store"
        BY <1>3, <2>1, <2>2 DEF Finish
    <2>3. CASE pc[t] = "flushed" /\ drive.command = "flush"
        BY <1>3, <2>1, <2>3 DEF Finish
    <2> QED BY <2>1, <2>2, <2>3
<1> QED BY <1>2, <1>3 DEF Waits

LEMMA FinishStep == ASSUME Inv, Finish PROVE Inv'
<1>1. PICK t \in Thread : pc[t] \in Waits
    BY DEF Inv, Working, Finish
<1>2. UNCHANGED <<thread, regs, fate>> /\ drive.busy
    BY DEF Finish
<1>3. /\ op[t].block \in Block /\ drive \in Drives /\ medium \in [Block -> Sector]
      /\ sector \in Sector
    BY Types DEF Inv, TypeOK
<1>4. drive' \in Drives /\ sector' \in Sector /\ medium' \in [Block -> Sector]
    <2>1. drive' \in Drives
        BY <1>1, <1>3, Finishes DEF Drives
    <2>2. sector' \in Sector /\ medium' \in [Block -> Sector]
        BY <1>1, <1>3, Finishes
    <2> QED BY <2>1, <2>2
<1>5. TypeOK'
    BY <1>2, <1>4 DEF Inv, TypeOK, Drives, thread
<1>6. /\ drive'.busy = FALSE /\ drive'.command = drive.command /\ drive'.block = drive.block
      /\ pc[t] = "poll" /\ op[t].kind = "write" => drive'.drq
    BY <1>1, <1>3, Finishes DEF Drives
<1>7. ASSUME NEW u \in Thread PROVE Progress(u)'
    <2>1. UNCHANGED <<pc, op, buf, i, hwLock, regs>> /\ Progress(u)
        BY <1>2 DEF Inv, thread
    <2>2. CASE u = t
        <3>1. pc[u] # "copy"
            BY <1>1, <2>2 DEF Waits
        <3> QED BY <1>6, <2>1, <2>2, <3>1
                DEF Progress, Counting, Addressing, Waiting, Copying, Storing
    <2>3. CASE u # t
        <3>1. pc[u] \notin Locked
            BY <1>1, <2>3, Alone DEF Inv, Locked, Waits
        <3> QED BY <2>1, <3>1
                DEF Progress, Counting, Addressing, Waiting, Copying, Storing, Locked
    <2> QED BY <2>2, <2>3
<1>8. Holding' /\ Working'
    BY <1>2, <1>6 DEF Inv, Holding, Working, thread
<1> QED BY <1>5, <1>7, <1>8 DEF Inv

-----------------------------------------------------------------------------
(* The invariant holds                                                     *)

LEMMA InitInv == Init => Inv
<1> SUFFICES ASSUME Init PROVE Inv
    OBVIOUS
<1>1. (CHOOSE b \in Block : TRUE) \in Block /\ (CHOOSE d \in Written : TRUE) \in Buffer
    BY Constants
<1>2. \A c \in Buffer : ToSector(c) \in Sector
    BY SectorIs
<1>3. medium \in [Block -> Sector]
    BY <1>2, Constants DEF Init
<1>4. regs \in [0 .. 3 -> Byte \cup 0 .. TopBase - 1] /\ sector \in Sector
    <2>1. 0 \in Byte /\ 0 \in 0 .. Base * Base - 1
        BY Constants
    <2> QED BY <2>1 DEF Init, Sector
<1>5. TypeOK
    BY <1>1, <1>3, <1>4 DEF Init, TypeOK
<1>6. \A t \in Thread : Progress(t)
    BY DEF Init, Progress, Counting, Addressing, Waiting, Copying, Storing
<1>7. Holding /\ Working
    BY Constants DEF Init, Holding, Working, Locked
<1> QED BY <1>5, <1>6, <1>7 DEF Inv

LEMMA NextInv == Inv /\ [Next]_vars => Inv'
<1> SUFFICES ASSUME Inv, [Next]_vars PROVE Inv'
    OBVIOUS
<1>1. CASE Finish
    BY <1>1, FinishStep
<1>2. ASSUME NEW t \in Thread, Step(t) PROVE Inv'
    BY <1>2, CallStep, LockStep, IssueStep, AddressStep, CommandStep, PollStep, InStep, OutStep,
       FlushStep, FlushedStep, UnlockStep, ReturnStep DEF Step
<1>3. CASE UNCHANGED vars
    BY <1>3 DEF vars, thread, device, Inv, TypeOK, Holding, Working, Progress,
                Counting, Addressing, Waiting, Copying, Storing
<1> QED BY <1>1, <1>2, <1>3 DEF Next

LEMMA Invariance == Spec => []Inv
    BY InitInv, NextInv, PTL DEF Spec

(* The data register is used only while the drive asks for data, and for   *)
(* the block of the thread that uses it: hw_lock in nonblocking_disk.C     *)
(* keeps every other thread away from the registers from the block number  *)
(* to the last word, however long simple_disk.C waits in between.          *)
THEOREM DataIsRequested == Spec => []DataRequested
<1>1. Inv => DataRequested
    BY DEF Inv, Progress, Copying, DataRequested
<1> QED BY <1>1, Invariance, PTL
(* Every variable of the threads, the drive and the blocks keeps its type. *)
THEOREM TypeCorrectDisk == Spec => []TypeOK
<1>1. Inv => TypeOK
    BY DEF Inv
<1> QED BY <1>1, Invariance, PTL

-----------------------------------------------------------------------------
(* The refinement                                                          *)

StoreNow == [b \in Block |-> ToBuffer(medium[b])]
CallsNow == [t \in Thread |-> CallOf(t)]

(* Only the thread that holds hw_lock is in a call that the drive's state  *)
(* says something about.                                                   *)
LEMMA OthersCall ==
    ASSUME Inv, NEW t \in Thread, NEW u \in Thread, u # t, OthersStay(t),
           pc[t] \in Locked \/ UNCHANGED device
    PROVE  CallOf(u)' = CallOf(u)
<1>1. pc'[u] = pc[u] /\ op'[u] = op[u] /\ buf'[u] = buf[u]
    BY DEF OthersStay
<1>2. CASE UNCHANGED device
    BY <1>1, <1>2 DEF CallOf, Loaded, Stored, device
<1>3. CASE pc[t] \in Locked
    <2>1. pc[u] \notin Locked
        BY <1>3, Alone DEF Inv
    <2> QED BY <1>1, <2>1 DEF CallOf, Loaded, Stored, Locked
<1> QED BY <1>2, <1>3

LEMMA CallMoves ==
    ASSUME Inv, NEW t \in Thread, OthersStay(t), pc[t] \in Locked \/ UNCHANGED device
    PROVE  /\ CallsNow[t] = CallOf(t)
           /\ CallsNow' = [CallsNow EXCEPT ![t] = CallOf(t)']
<1>1. ASSUME NEW u \in Thread, u # t PROVE CallOf(u)' = CallOf(u)
    BY <1>1, OthersCall
<1> DEFINE c == CallOf(t)'
<1>2. \A u \in Thread : CallOf(u)' = IF u = t THEN c ELSE CallOf(u)
    BY <1>1
<1> HIDE DEF c
<1>3. CallsNow' = [CallsNow EXCEPT ![t] = c]
    BY <1>2 DEF CallsNow
<1> QED BY <1>3 DEF CallsNow, c

(* A step that leaves the blocks and the call of its thread alone.         *)
LEMMA Stutters ==
    ASSUME Inv, NEW t \in Thread, OthersStay(t), pc[t] \in Locked \/ UNCHANGED device,
           medium' = medium, CallOf(t)' = CallOf(t)
    PROVE  StoreNow' = StoreNow /\ CallsNow' = CallsNow
<1>1. \A u \in Thread : CallOf(u)' = CallOf(u)
    BY OthersCall
<1> QED BY <1>1 DEF StoreNow, CallsNow

LEMMA CallIsInvoke == ASSUME Inv, NEW t \in Thread, Call(t) PROVE Disk!Invoke(t)
<1>1. pc[t] = "idle" /\ pc'[t] = "lock" /\ UNCHANGED device
    BY DEF Inv, TypeOK, Call, Goto, At
<1>2. OthersStay(t)
    BY DEF Inv, TypeOK, Call, Goto, OthersStay
<1>3. CallsNow[t] = Disk!Idle /\ CallsNow' = [CallsNow EXCEPT ![t] = CallOf(t)']
    BY <1>1, <1>2, CallMoves DEF CallOf, Disk!Idle
<1>4. \E b \in Block : \/ CallOf(t)' = Disk!Reading(b)
                       \/ \E d \in Buffer : CallOf(t)' = Disk!Writing(b, d)
    <2>1. PICK b \in Block :
              \/ op' = [op EXCEPT ![t] = [kind |-> "read", block |-> b]]
              \/ /\ op' = [op EXCEPT ![t] = [kind |-> "write", block |-> b]]
                 /\ \E d \in Written : buf' = [buf EXCEPT ![t] = d]
        BY DEF Call
    <2>2. CASE op' = [op EXCEPT ![t] = [kind |-> "read", block |-> b]]
        <3>1. op'[t].kind = "read" /\ op'[t].block = b
            BY <2>2 DEF Inv, TypeOK
        <3> QED BY <1>1, <3>1 DEF CallOf, Loaded, Stored, Disk!Reading
    <2>3. CASE /\ op' = [op EXCEPT ![t] = [kind |-> "write", block |-> b]]
               /\ \E d \in Written : buf' = [buf EXCEPT ![t] = d]
        <3>1. op'[t].kind = "write" /\ op'[t].block = b /\ buf'[t] \in Buffer
            BY <2>3, Constants DEF Inv, TypeOK
        <3> QED BY <1>1, <3>1 DEF CallOf, Loaded, Stored, Disk!Writing
    <2> QED BY <2>1, <2>2, <2>3
<1>5. StoreNow' = StoreNow
    BY <1>1 DEF StoreNow, device
<1> QED BY <1>3, <1>4, <1>5 DEF Disk!Invoke, StoreNow, CallsNow

LEMMA ReturnIsRespond == ASSUME Inv, NEW t \in Thread, Return(t) PROVE Disk!Respond(t)
<1>1. pc[t] = "done" /\ pc'[t] = "idle" /\ UNCHANGED device /\ op[t].kind \in {"read", "write"}
    BY DEF Inv, TypeOK, Return, Goto, At
<1>2. OthersStay(t)
    BY DEF Inv, TypeOK, Return, Goto, OthersStay
<1>3. CallOf(t)' = Disk!Idle
    BY <1>1 DEF CallOf, Disk!Idle
<1>4. CallsNow[t].state = "performed" /\ CallsNow' = [CallsNow EXCEPT ![t] = Disk!Idle]
    <2>1. CallOf(t).state = "performed"
        BY <1>1 DEF CallOf, Loaded, Stored
    <2> QED BY <1>1, <1>2, <1>3, <2>1, CallMoves
<1>5. StoreNow' = StoreNow
    BY <1>1 DEF StoreNow, device
<1> QED BY <1>4, <1>5 DEF Disk!Respond, StoreNow, CallsNow

(* The steps at which no call takes effect.                                *)
LEMMA QuietSteps ==
    ASSUME Inv, NEW t \in Thread,
           \/ Lock(t) \/ WaitToIssue(t) \/ OutAddress(t) \/ OutCommand(t) \/ Poll(t)
           \/ InWord(t) \/ OutWord(t) \/ OutFlush(t) \/ PollFlush(t) \/ Unlock(t)
    PROVE  StoreNow' = StoreNow /\ CallsNow' = CallsNow
<1>1. op[t].kind \in {"read", "write"} /\ pc \in [Thread -> Places] /\ drive \in Drives
    BY Types DEF Inv, TypeOK
<1>2. CASE Lock(t) \/ WaitToIssue(t) \/ Unlock(t)
    <2>1. \/ pc[t] = "lock" /\ pc'[t] = "issue"
          \/ pc[t] = "issue" /\ pc'[t] = "address"
          \/ pc[t] = "unlock" /\ pc'[t] = "done"
        BY <1>1, <1>2 DEF Lock, WaitToIssue, Unlock, Goto, At
    <2>2. OthersStay(t)
        BY <1>1, <1>2 DEF Lock, WaitToIssue, Unlock, Goto, OthersStay
    <2>3. UNCHANGED <<op, buf, device>>
        BY <1>2 DEF Lock, WaitToIssue, Unlock
    <2>4. CallOf(t)' = CallOf(t)
        BY <1>1, <2>1, <2>3 DEF CallOf, Loaded, Stored
    <2> QED BY <2>2, <2>3, <2>4, Stutters DEF device
<1>3. CASE OutAddress(t)
    <2>1. pc[t] = "address" /\ pc'[t] \in {"address", "command"}
        BY <1>1, <1>3 DEF OutAddress, Goto, At
    <2>2. OthersStay(t)
        BY <1>1, <1>3 DEF Inv, TypeOK, OutAddress, Goto, OthersStay
    <2>3. UNCHANGED <<op, buf, medium>>
        BY <1>3 DEF OutAddress
    <2>4. CallOf(t)' = CallOf(t)
        BY <1>1, <2>1, <2>3 DEF CallOf, Loaded, Stored
    <2> QED BY <2>1, <2>2, <2>3, <2>4, Stutters DEF Locked
<1>4. CASE OutCommand(t)
    <2>1. pc[t] = "command" /\ pc'[t] = "poll" /\ UNCHANGED <<op, buf, medium, sector>>
        BY <1>1, <1>4 DEF OutCommand, Goto, At
    <2>2. OthersStay(t)
        BY <1>1, <1>4 DEF Inv, TypeOK, OutCommand, Goto, OthersStay
    <2>3. ~drive'.drq
        <3>1. Progress(t)' /\ TypeOK'
            BY <1>4, CommandStep DEF Inv
        <3>2. ~drive.busy
            <4>1. ASSUME NEW u \in Thread, pc[u] \in Waits PROVE FALSE
                BY <2>1, <4>1, Alone DEF Inv, Locked, Waits
            <4> QED BY <4>1 DEF Inv, Working
        <3>3. CASE Addressed \notin Block
            BY <1>1, <1>4, <3>2, <3>3 DEF OutCommand, Command, Drives
        <3>4. CASE Addressed \in Block
            BY <1>4, <3>2, <3>4 DEF OutCommand, Command
        <3> QED BY <3>3, <3>4
    <2>4. CallOf(t)' = CallOf(t)
        BY <1>1, <2>1, <2>3 DEF CallOf, Loaded, Stored
    <2> QED BY <2>1, <2>2, <2>4, Stutters DEF Locked
<1>5. CASE Poll(t)
    <2>1. /\ pc[t] = "poll" /\ UNCHANGED <<op, buf, device>>
          /\ \/ pc' = pc
             \/ pc' = [pc EXCEPT ![t] = "copy"] /\ (op[t].kind = "read" => drive.drq)
        BY <1>5 DEF Poll, Goto, At
    <2>2. OthersStay(t)
        BY <1>1, <1>5 DEF Poll, Goto, OthersStay
    <2>3. \/ pc'[t] = pc[t]
          \/ pc'[t] = "copy" /\ (op[t].kind = "read" => drive.drq)
        BY <1>1, <2>1
    <2>4. CallOf(t)' = CallOf(t)
        BY <1>1, <2>1, <2>3 DEF CallOf, Loaded, Stored, device
    <2> QED BY <2>1, <2>2, <2>4, Stutters DEF device
<1>6. CASE InWord(t)
    <2>1. /\ pc[t] = "copy" /\ op[t].kind = "read"
          /\ UNCHANGED <<op, sector, medium>> /\ NextWord(t, "unlock")
        BY <1>6 DEF InWord, At
    <2>2. /\ \A u \in Thread : u # t => i'[u] = i[u]
          /\ pc' = pc \/ (i[t] + 1 = Words /\ pc' = [pc EXCEPT ![t] = "unlock"])
        BY <2>1, WordStep
    <2>3. OthersStay(t)
        BY <1>1, <1>6, <2>1, <2>2, ReadSoFar DEF OthersStay
    <2>4. pc'[t] = "copy" \/ (pc'[t] = "unlock" /\ buf'[t] = ToBuffer(sector))
        BY <1>1, <1>6, <2>1, <2>2, ReadSoFar
    <2>5. CallOf(t)' = CallOf(t)
        BY <2>1, <2>4 DEF CallOf, Loaded, Stored
    <2> QED BY <2>1, <2>3, <2>5, Stutters DEF Locked
<1>7. CASE OutWord(t)
    <2>1. /\ pc[t] = "copy" /\ op[t].kind = "write"
          /\ UNCHANGED <<op, buf, medium>> /\ NextWord(t, "flush")
        BY <1>7 DEF OutWord, At
    <2>2. /\ \A u \in Thread : u # t => i'[u] = i[u]
          /\ \/ pc' = pc
             \/ /\ pc' = [pc EXCEPT ![t] = "flush"]
                /\ drive' = [drive EXCEPT !.drq = FALSE, !.busy = TRUE, !.command = "store"]
        BY <2>1, WordStep
    <2>3. OthersStay(t)
        BY <1>1, <2>1, <2>2 DEF OthersStay
    <2>4. pc'[t] = "copy" \/ (pc'[t] = "flush" /\ drive'.busy /\ drive'.command = "store")
        BY <1>1, <2>1, <2>2 DEF Drives
    <2>5. CallOf(t)' = CallOf(t)
        BY <2>1, <2>4 DEF CallOf, Loaded, Stored
    <2> QED BY <2>1, <2>3, <2>5, Stutters DEF Locked
<1>8. CASE OutFlush(t)
    <2>1. pc[t] = "flush" /\ pc'[t] = "flushed" /\ UNCHANGED <<op, buf, medium, sector>>
        BY <1>1, <1>8 DEF OutFlush, Goto, At
    <2>2. OthersStay(t)
        BY <1>1, <1>8 DEF OutFlush, Goto, OthersStay
    <2>3. (drive'.busy /\ drive'.command = "store") <=> (drive.busy /\ drive.command = "store")
        <3>1. drive.block \in Block
            BY <1>1 DEF Drives
        <3>2. CASE drive.busy
            BY <1>8, <3>2 DEF OutFlush, Command
        <3>3. CASE ~drive.busy
            BY <1>8, <3>1, <3>3 DEF OutFlush, Command
        <3> QED BY <3>2, <3>3
    <2>4. op[t].kind = "write"
        BY <2>1 DEF Inv, Progress, Storing
    <2>5. CallOf(t)' = CallOf(t)
        BY <2>1, <2>3, <2>4 DEF CallOf, Loaded, Stored
    <2> QED BY <2>1, <2>2, <2>5, Stutters DEF Locked
<1>9. CASE PollFlush(t)
    <2>1. /\ pc[t] = "flushed" /\ pc'[t] = "unlock" /\ ~drive.busy
          /\ UNCHANGED <<op, buf, device>>
        BY <1>1, <1>9 DEF PollFlush, Goto, At
    <2>2. OthersStay(t)
        BY <1>1, <1>9 DEF PollFlush, Goto, OthersStay
    <2>3. op[t].kind = "write"
        BY <2>1 DEF Inv, Progress, Storing
    <2>4. CallOf(t)' = CallOf(t)
        BY <2>1, <2>3 DEF CallOf, Loaded, Stored, device
    <2> QED BY <2>1, <2>2, <2>4, Stutters DEF device
<1> QED BY <1>2, <1>3, <1>4, <1>5, <1>6, <1>7, <1>8, <1>9

(* The one moment of a call: the drive has loaded the sector, or stored it. *)
LEMMA FinishIsEffect ==
    ASSUME Inv, Finish
    PROVE  \/ StoreNow' = StoreNow /\ CallsNow' = CallsNow
           \/ \E t \in Thread : Disk!Read(t) \/ Disk!Write(t)
<1>1. PICK t \in Thread : pc[t] \in Waits
    BY DEF Inv, Working, Finish
<1>2. UNCHANGED <<pc, op, buf, i, hwLock>> /\ drive.busy /\ pc[t] \in Locked
    BY <1>1 DEF Finish, thread, Waits, Locked
<1>3. OthersStay(t)
    BY <1>2 DEF OthersStay
<1>4. /\ op[t].block \in Block /\ buf[t] \in Buffer /\ drive \in Drives
      /\ medium \in [Block -> Sector]
    BY Types DEF Inv, TypeOK
<1>5. CallsNow[t] = CallOf(t) /\ CallsNow' = [CallsNow EXCEPT ![t] = CallOf(t)']
    BY <1>2, <1>3, CallMoves
<1>6. pc[t] = "poll" => ~drive.drq
    BY <1>2 DEF Inv, Progress, Waiting
<1>7. CASE /\ pc[t] = "poll" /\ op[t].kind = "read"
           /\ sector' = medium[op[t].block] /\ medium' = medium
           /\ drive' = [drive EXCEPT !.busy = FALSE, !.drq = TRUE]
    <2>1. CallOf(t) = Disk!Reading(op[t].block)
        BY <1>6, <1>7 DEF CallOf, Loaded, Stored, Disk!Reading
    <2>2. drive'.drq
        BY <1>4, <1>7 DEF Drives
    <2>3. StoreNow' = StoreNow /\ StoreNow[op[t].block] = ToBuffer(sector')
        BY <1>4, <1>7 DEF StoreNow
    <2>4. CallOf(t)' = Disk!Performed("read", StoreNow[op[t].block])
        BY <1>2, <1>7, <2>2, <2>3 DEF CallOf, Loaded, Disk!Performed
    <2>5. Disk!Read(t)
        BY <1>4, <1>5, <2>1, <2>3, <2>4 DEF Disk!Read, StoreNow, CallsNow
    <2> QED BY <2>5
<1>8. CASE /\ pc[t] = "poll" /\ op[t].kind = "read"
           /\ drive' = [drive EXCEPT !.busy = FALSE, !.err = TRUE]
           /\ UNCHANGED <<sector, medium>>
    <2>1. drive'.drq = drive.drq
        BY <1>4, <1>8 DEF Drives
    <2>2. CallOf(t)' = CallOf(t)
        BY <1>2, <1>8, <2>1 DEF CallOf, Loaded, Stored
    <2> QED BY <1>2, <1>3, <1>8, <2>2, Stutters
<1>9. CASE /\ pc[t] = "poll" /\ op[t].kind = "write"
           /\ drive' = [drive EXCEPT !.busy = FALSE, !.drq = TRUE]
           /\ UNCHANGED <<sector, medium>>
    <2>1. CallOf(t)' = CallOf(t)
        BY <1>2, <1>9 DEF CallOf, Loaded, Stored
    <2> QED BY <1>2, <1>3, <1>9, <2>1, Stutters
<1>10. CASE /\ pc[t] \in {"flush", "flushed"} /\ op[t].kind = "write"
            /\ drive.command = "store" /\ sector = ToSector(buf[t])
            /\ medium' = [medium EXCEPT ![op[t].block] = sector]
            /\ drive' = [drive EXCEPT !.busy = FALSE] /\ sector' = sector
    <2>1. CallOf(t) = Disk!Writing(op[t].block, buf[t])
        BY <1>2, <1>10 DEF CallOf, Loaded, Stored, Disk!Writing
    <2>2. ~drive'.busy
        BY <1>4, <1>10 DEF Drives
    <2>3. CallOf(t)' = Disk!Performed("write", buf[t])
        BY <1>2, <1>10, <2>2 DEF CallOf, Loaded, Stored, Disk!Performed
    <2>4. StoreNow' = [StoreNow EXCEPT ![op[t].block] = buf[t]]
        <3>1. ToBuffer(sector) = buf[t]
            BY <1>4, <1>10, BackAndForth
        <3>2. \A b \in Block : medium'[b] = IF b = op[t].block THEN sector ELSE medium[b]
            BY <1>4, <1>10
        <3>3. \A b \in Block : ToBuffer(medium'[b])
                               = IF b = op[t].block THEN buf[t] ELSE ToBuffer(medium[b])
            BY <3>1, <3>2
        <3> QED BY <3>3 DEF StoreNow
    <2>5. Disk!Write(t)
        BY <1>4, <1>5, <2>1, <2>3, <2>4 DEF Disk!Write, StoreNow, CallsNow
    <2> QED BY <2>5
<1>11. CASE /\ pc[t] = "flushed" /\ op[t].kind = "write" /\ drive.command = "flush"
            /\ drive' = [drive EXCEPT !.busy = FALSE]
            /\ UNCHANGED <<sector, medium>>
    <2>1. ~drive'.busy
        BY <1>4, <1>11 DEF Drives
    <2>2. CallOf(t)' = CallOf(t)
        BY <1>2, <1>11, <2>1 DEF CallOf, Loaded, Stored
    <2> QED BY <1>2, <1>3, <1>11, <2>2, Stutters
<1> QED BY <1>1, <1>7, <1>8, <1>9, <1>10, <1>11, Finishes

LEMMA DiskInit == Init => Disk!Init
<1> SUFFICES ASSUME Init PROVE Disk!Init
    OBVIOUS
<1>1. medium \in [Block -> Sector]
    BY InitInv, Types DEF Inv
<1>2. StoreNow \in [Block -> Buffer]
    BY <1>1, SectorIs DEF StoreNow
<1>3. CallsNow = [t \in Thread |-> Disk!Idle]
    BY DEF Init, CallsNow, CallOf, Disk!Idle
<1> QED BY <1>2, <1>3 DEF Disk!Init, StoreNow, CallsNow

LEMMA DiskNext == Inv /\ [Next]_vars => [Disk!Next]_<<StoreNow, CallsNow>>
<1> SUFFICES ASSUME Inv, [Next]_vars
             PROVE  \/ StoreNow' = StoreNow /\ CallsNow' = CallsNow
                    \/ \E t \in Thread :
                           Disk!Invoke(t) \/ Disk!Read(t) \/ Disk!Write(t) \/ Disk!Respond(t)
    BY DEF Disk!Next
<1>1. CASE Finish
    BY <1>1, FinishIsEffect
<1>2. ASSUME NEW t \in Thread, Step(t)
      PROVE  \/ StoreNow' = StoreNow /\ CallsNow' = CallsNow
             \/ Disk!Invoke(t) \/ Disk!Respond(t)
    <2>1. CASE Call(t)
        BY <2>1, CallIsInvoke
    <2>2. CASE Return(t)
        BY <2>2, ReturnIsRespond
    <2>3. CASE \/ Lock(t) \/ WaitToIssue(t) \/ OutAddress(t) \/ OutCommand(t) \/ Poll(t)
               \/ InWord(t) \/ OutWord(t) \/ OutFlush(t) \/ PollFlush(t) \/ Unlock(t)
        BY <2>3, QuietSteps
    <2> QED BY <1>2, <2>1, <2>2, <2>3 DEF Step
<1>3. CASE UNCHANGED vars
    BY <1>3 DEF vars, thread, device, StoreNow, CallsNow, CallOf, Loaded, Stored
<1> QED BY <1>1, <1>2, <1>3 DEF Next

(* What a read returns is what the last write that took effect gave, never *)
(* a mixture of two operations: NonBlockingDisk::read and write, with the  *)
(* accesses to the drive's registers interleaved in any way that hw_lock   *)
(* allows, implement one atomic effect per call.                           *)
THEOREM DiskIsAtomic == Spec => ImplementsBlockStore
<1>1. Spec => [][Disk!Next]_<<StoreNow, CallsNow>>
    BY Invariance, DiskNext, PTL DEF Spec
<1>2. Spec => Disk!Init
    BY DiskInit DEF Spec
<1> QED BY <1>1, <1>2, PTL DEF ImplementsBlockStore, Disk!Spec, StoreNow, CallsNow
=============================================================================
