----------------------------- MODULE ConsoleProofs -----------------------------
(***************************************************************************)
(* Proofs about Console, for any screen, any texts and any number of       *)
(* levels of nesting.                                                      *)
(*                                                                         *)
(* A writer that is interrupted goes on with what it has loaded before.    *)
(* Since every writer brings the cursor back before it is done with a      *)
(* character, what a row too many or a column too many can come from is    *)
(* the writers that are in the middle of one: each of them is either below *)
(* the screen by one row or beyond the margin by one tab stop, never both. *)
(***************************************************************************)
EXTENDS Console, FiniteSetTheorems, WellFoundedInduction, TLAPS

-----------------------------------------------------------------------------
(* The inductive invariant                                                 *)

Places == {"idle", "putch", "where", "cell", "column", "column_store", "send", "wrap", "margin",
           "row", "row_store", "scroll", "distance", "copy", "last_row"}

(* The codes of characters: those of the texts and those of digits.        *)
Code == Int \cup {Temp(n)[i] : n \in Numbers, i \in 1 .. Digits}

Job == [at : Places, text : Seq(Code), reg : Int, row : Nat, wrapped : BOOLEAN]

Typed ==
    /\ csr_x \in Nat /\ csr_y \in Nat
    /\ job \in [Writer -> Job]
    /\ \A w \in Inside : job[w].text # <<>>

(* A writer whose character may have put the cursor one row down, and has  *)
(* not scrolled yet.                                                       *)
Lowered(w) ==
    \/ job[w].at \in {"scroll", "distance", "copy", "last_row"}
    \/ job[w].at \in {"send", "wrap"} /\ Char(w) = T!Newline

(* A writer whose character may have put it beyond the margin.             *)
Over(w) ==
    \/ job[w].at = "margin"
    \/ job[w].at \in {"send", "wrap"} /\ Char(w) # T!Newline

Lower == {v \in Writer : Lowered(v)}
Wide  == {v \in Writer : Over(v)}

Below(S, w) == {v \in S : v < w}

RowsBounded    == csr_y <= Height - 1 + Cardinality(Lower)
ColumnsBounded == csr_x <= Width - 1 + TabStop * Cardinality(Wide)

(* What a writer has loaded, and which characters come to which place.     *)
Loaded(w) ==
    /\ job[w].at = "where" => job[w].reg \in 0 .. Height - 1 + Cardinality(Below(Lower, w))
    /\ job[w].at = "cell" => job[w].reg \in Cell
    /\ job[w].at = "column_store" =>
           job[w].reg \in 0 .. Width - 1 + TabStop * (Cardinality(Below(Wide, w)) + 1)
    /\ job[w].at = "row_store" => job[w].reg \in 0 .. Height + Cardinality(Below(Lower, w))
    /\ job[w].at = "copy" => job[w].reg \in 0 .. Height
    /\ job[w].at \in {"where", "cell", "column", "column_store"} => Char(w) # T!Newline
    /\ job[w].at \in {"where", "cell"} => Char(w) # T!Backspace
    /\ job[w].at \in {"row", "row_store"} /\ ~job[w].wrapped => Char(w) = T!Newline

(* While a writer works out how far to scroll, the others end on the last  *)
(* row or below.                                                           *)
Scrolling ==
    \A u \in Writer : job[u].at = "distance" =>
        /\ csr_y >= Height - 1
        /\ \A v \in Writer : v > u /\ job[v].at = "row_store" => job[v].reg >= Height

(* A writer that is done with the column finds it on the screen whenever   *)
(* it runs, whoever has printed meanwhile.                                 *)
Wrapped ==
    \A w \in Writer : Runs(w) /\ (job[w].at \in {"row", "row_store"} \/ Lowered(w))
                      => csr_x < Width

Backspaces ==
    \A w \in Inside :
        /\ T!Backspace \in Range(job[w].text) => Inside = {w}
        /\ job[w].at = "column" /\ Char(w) = T!Backspace => csr_x >= 1

Inv ==
    /\ Typed /\ RowsBounded /\ ColumnsBounded
    /\ \A w \in Writer : Loaded(w)
    /\ Scrolling /\ Wrapped /\ Backspaces
-----------------------------------------------------------------------------
(* Numbers                                                                 *)

LEMMA Sizes ==
    /\ Width \in Nat \ {0} /\ TabStop \in Nat \ {0} /\ TabStop <= Width
    /\ Height \in Nat /\ Levels \in Nat \ {0} /\ Height >= Levels
    /\ Digits \in Nat \ {0} /\ Texts \subseteq Seq(Int)
    /\ Writer = 0 .. Levels - 1 /\ Rows = Height + Levels
    BY ConsoleAssumption DEF Writer, Rows

LEMMA Codes ==
    /\ T!Backspace = 8 /\ T!Tab = 9 /\ T!Newline = 10 /\ T!Return = 13 /\ T!Space = 32
    BY DEF T!Backspace, T!Tab, T!Newline, T!Return, T!Space

(* Members of a set, and those of them that are below its largest.         *)
LEMMA OneMore ==
    ASSUME NEW w \in Writer, NEW S \in SUBSET Writer, \A v \in S : v <= w
    PROVE  /\ IsFiniteSet(S) /\ IsFiniteSet(Below(S, w))
           /\ Cardinality(S) \in Nat /\ Cardinality(Below(S, w)) \in Nat
           /\ w \in S => Cardinality(S) = Cardinality(Below(S, w)) + 1
           /\ w \notin S => Cardinality(S) = Cardinality(Below(S, w))
<1>1. IsFiniteSet(Writer)
    BY Sizes, FS_Interval
<1>2. IsFiniteSet(S) /\ Cardinality(S) \in Nat
    BY <1>1, FS_Subset, FS_CardinalityType
<1>3. Below(S, w) \subseteq S /\ w \notin Below(S, w)
    BY Sizes DEF Below
<1>4. IsFiniteSet(Below(S, w)) /\ Cardinality(Below(S, w)) \in Nat
    BY <1>2, <1>3, FS_Subset, FS_CardinalityType
<1>5. \A v \in S : v = w \/ v \in Below(S, w)
    <2>1. \A v \in S : v \in Int /\ w \in Int
        BY Sizes
    <2> QED BY <2>1 DEF Below
<1>6. CASE w \in S
    <2>1. S = Below(S, w) \cup {w}
        BY <1>3, <1>5, <1>6
    <2>2. Cardinality(Below(S, w) \cup {w}) = Cardinality(Below(S, w)) + 1
        BY <1>3, <1>4, FS_AddElement
    <2> QED BY <1>2, <1>4, <1>6, <2>1, <2>2
<1>7. CASE w \notin S
    <2>1. S = Below(S, w)
        BY <1>3, <1>5, <1>7
    <2> QED BY <1>2, <1>4, <1>7, <2>1
<1> QED BY <1>6, <1>7

(* Two such sets that are disjoint.                                        *)
LEMMA RoomBelow ==
    ASSUME NEW w \in Writer, NEW S \in SUBSET Writer, NEW Q \in SUBSET Writer, S \cap Q = {}
    PROVE  Cardinality(Below(S, w)) + Cardinality(Below(Q, w)) <= Levels - 1
<1> DEFINE A == Below(S, w)
           B == Below(Q, w)
           D == 0 .. w - 1
<1>1. A \subseteq D /\ B \subseteq D /\ A \cap B = {} /\ w \in Nat /\ w <= Levels - 1
    <2>1. w \in Nat /\ w <= Levels - 1 /\ \A v \in Writer : v \in Nat
        BY Sizes
    <2>2. ASSUME NEW v \in Writer, v < w PROVE v \in D
        BY <2>1, <2>2
    <2>3. A \subseteq D /\ B \subseteq D
        BY <2>2 DEF Below
    <2>4. A \cap B = {}
        BY DEF Below
    <2> QED BY <2>1, <2>3, <2>4
<1>2. IsFiniteSet(D) /\ Cardinality(D) = w
    <2>1. 0 \in Int /\ w - 1 \in Int /\ ~(0 > w) /\ (0 > w - 1 => w = 0) /\ (w - 1) - 0 + 1 = w
        BY <1>1
    <2>2. IsFiniteSet(0 .. w - 1)
          /\ Cardinality(0 .. w - 1) = IF 0 > w - 1 THEN 0 ELSE (w - 1) - 0 + 1
        BY <2>1, FS_Interval
    <2> QED BY <2>1, <2>2
<1> HIDE DEF A, B, D
<1>3. IsFiniteSet(A) /\ IsFiniteSet(B) /\ Cardinality(A) \in Nat /\ Cardinality(B) \in Nat
    BY <1>1, <1>2, FS_Subset, FS_CardinalityType
<1>4. Cardinality(A \cup B) = Cardinality(A) + Cardinality(B)
    <2>1. Cardinality(A \cup B) = Cardinality(A) + Cardinality(B) - Cardinality(A \cap B)
        BY <1>3, FS_Union
    <2>2. Cardinality(A \cap B) = 0
        BY <1>1, FS_EmptySet
    <2> QED BY <1>3, <2>1, <2>2
<1>5. Cardinality(A \cup B) <= w
    <2>1. A \cup B \subseteq D
        BY <1>1
    <2> QED BY <1>2, <2>1, FS_Subset
<1>6. Cardinality(A) + Cardinality(B) <= Levels - 1
    BY <1>1, <1>3, <1>4, <1>5, Sizes
<1> QED BY <1>6 DEF A, B

-----------------------------------------------------------------------------
(* The writer that runs                                                    *)

Kept(w) == \A u \in Writer : u # w => job'[u] = job[u]

LEMMA IdleAbove ==
    ASSUME NEW w \in Writer, Runs(w), NEW u \in Writer, u > w
    PROVE  job[u].at = "idle"
<1>1. ~(u <= w)
    BY Sizes
<1> QED BY <1>1 DEF Runs, Inside

(* What the bounds say while w runs: n rows and k columns are the doing of *)
(* the writers that it has interrupted.                                    *)
Figures(w, n, k) ==
    /\ n <= Levels - 1 /\ k <= Width * (Levels - 1 - n)
    /\ Cardinality(Below(Lower, w)) = n /\ Cardinality(Below(Lower, w))' = n
    /\ TabStop * (Cardinality(Below(Wide, w)) + 1) = k + TabStop
    /\ TabStop * (Cardinality(Below(Wide, w))' + 1) = k + TabStop
    /\ RowsBounded => csr_y <= Height + n
    /\ RowsBounded /\ ~Lowered(w) => csr_y <= Height - 1 + n
    /\ csr_y' <= Height - 1 + n \/ (Lowered(w)' /\ csr_y' <= Height + n) => RowsBounded'
    /\ ColumnsBounded => csr_x <= Width - 1 + k + TabStop
    /\ ColumnsBounded /\ ~Over(w) => csr_x <= Width - 1 + k
    /\ csr_x' <= Width - 1 + k \/ (Over(w)' /\ csr_x' <= Width - 1 + k + TabStop)
       => ColumnsBounded'

LEMMA FiguresExist ==
    ASSUME Typed, csr_x' \in Nat, csr_y' \in Nat, NEW w \in Writer, Runs(w), Kept(w)
    PROVE  \E n, k \in Nat : Figures(w, n, k)
<1> DEFINE n == Cardinality(Below(Lower, w))
           m == Cardinality(Below(Wide, w))
<1>1. \A u \in Writer : u > w => job[u].at = "idle" /\ job'[u].at = "idle"
    BY IdleAbove, Sizes DEF Kept
<1>2. /\ Lower \in SUBSET Writer /\ Lower' \in SUBSET Writer
      /\ Wide \in SUBSET Writer /\ Wide' \in SUBSET Writer
    BY DEF Lower, Wide
<1>3. \A v \in Lower \cup Lower' \cup Wide \cup Wide' : v <= w
    <2>1. ASSUME NEW v \in Lower \cup Lower' \cup Wide \cup Wide' PROVE ~(v > w)
        BY <1>1, <2>1 DEF Lower, Wide, Lowered, Over
    <2> QED BY <1>2, <2>1, Sizes
<1>4. \A v \in Writer : v < w => (v \in Lower' <=> v \in Lower) /\ (v \in Wide' <=> v \in Wide)
    BY Sizes DEF Kept, Lower, Wide, Lowered, Over, Char
<1>5. Below(Lower, w)' = Below(Lower, w) /\ Below(Wide, w)' = Below(Wide, w)
    BY <1>2, <1>4 DEF Below
<1>6. Lower \cap Wide = {}
    BY DEF Lower, Wide, Lowered, Over
<1>7. n \in Nat /\ m \in Nat /\ n + m <= Levels - 1
    BY <1>2, <1>3, <1>6, OneMore, RoomBelow
<1>8. /\ Lowered(w) => Cardinality(Lower) = n + 1
      /\ ~Lowered(w) => Cardinality(Lower) = n
      /\ Over(w) => Cardinality(Wide) = m + 1
      /\ ~Over(w) => Cardinality(Wide) = m
    <2>1. (w \in Lower <=> Lowered(w)) /\ (w \in Wide <=> Over(w))
        BY DEF Lower, Wide
    <2> QED BY <1>2, <1>3, <2>1, OneMore
<1>9. /\ Lowered(w)' => Cardinality(Lower)' = n + 1
      /\ ~Lowered(w)' => Cardinality(Lower)' = n
      /\ Over(w)' => Cardinality(Wide)' = m + 1
      /\ ~Over(w)' => Cardinality(Wide)' = m
    <2>1. (w \in Lower' <=> Lowered(w)') /\ (w \in Wide' <=> Over(w)')
        BY DEF Lower, Wide
    <2>2. /\ w \in Lower' => Cardinality(Lower') = Cardinality(Below(Lower', w)) + 1
          /\ w \notin Lower' => Cardinality(Lower') = Cardinality(Below(Lower', w))
        BY <1>2, <1>3, OneMore
    <2>3. /\ w \in Wide' => Cardinality(Wide') = Cardinality(Below(Wide', w)) + 1
          /\ w \notin Wide' => Cardinality(Wide') = Cardinality(Below(Wide', w))
        BY <1>2, <1>3, OneMore
    <2> QED BY <1>5, <2>1, <2>2, <2>3
<1>10. Cardinality(Below(Lower, w))' = n /\ Cardinality(Below(Wide, w))' = m
    BY <1>5
<1> DEFINE k == TabStop * m
<1>11. /\ k \in Nat /\ TabStop * (m + 1) = k + TabStop
       /\ k <= Width * (Levels - 1 - n)
    <2> HIDE DEF n, m
    <2>1. k \in Nat /\ TabStop * (m + 1) = k + TabStop
        BY <1>7, Sizes
    <2>2. TabStop * m <= Width * m
        BY <1>7, Sizes
    <2>3. Width * m <= Width * (Levels - 1 - n)
        BY <1>7, Sizes
    <2>4. Width * m \in Nat /\ Width * (Levels - 1 - n) \in Int
        BY <1>7, Sizes
    <2> QED BY <2>1, <2>2, <2>3, <2>4
<1>12. n <= Levels - 1
    BY <1>7, Sizes
<1>13. /\ RowsBounded => csr_y <= Height + n
       /\ RowsBounded /\ ~Lowered(w) => csr_y <= Height - 1 + n
       /\ csr_y' <= Height - 1 + n \/ (Lowered(w)' /\ csr_y' <= Height + n) => RowsBounded'
    <2> HIDE DEF n, m
    <2>1. n \in Nat /\ Height \in Nat /\ csr_y \in Int /\ csr_y' \in Nat
        BY <1>7, Sizes DEF Typed
    <2>2. /\ RowsBounded => csr_y <= Height + n
          /\ RowsBounded /\ ~Lowered(w) => csr_y <= Height - 1 + n
        BY <1>8, <2>1 DEF RowsBounded
    <2>3. csr_y' <= Height - 1 + n \/ (Lowered(w)' /\ csr_y' <= Height + n) => RowsBounded'
        BY <1>9, <2>1 DEF RowsBounded
    <2> QED BY <2>2, <2>3
<1>14. /\ ColumnsBounded => csr_x <= Width - 1 + k + TabStop
       /\ ColumnsBounded /\ ~Over(w) => csr_x <= Width - 1 + k
       /\ csr_x' <= Width - 1 + k \/ (Over(w)' /\ csr_x' <= Width - 1 + k + TabStop)
          => ColumnsBounded'
    <2> HIDE DEF n, m
    <2>1. TabStop * m = k
        OBVIOUS
    <2> HIDE DEF k
    <2>2. /\ Over(w) => TabStop * Cardinality(Wide) = k + TabStop
          /\ ~Over(w) => TabStop * Cardinality(Wide) = k
        BY <1>8, <1>11, <2>1
    <2>3. /\ Over(w)' => TabStop * Cardinality(Wide)' = k + TabStop
          /\ ~Over(w)' => TabStop * Cardinality(Wide)' = k
        BY <1>9, <1>11, <2>1
    <2>4. (TabStop * Cardinality(Wide))' = TabStop * Cardinality(Wide)'
        OBVIOUS
    <2>5. k \in Nat /\ TabStop \in Nat /\ Width \in Nat /\ csr_x \in Int /\ csr_x' \in Nat
        BY <1>11, Sizes DEF Typed
    <2>6. /\ ColumnsBounded => csr_x <= Width - 1 + k + TabStop
          /\ ColumnsBounded /\ ~Over(w) => csr_x <= Width - 1 + k
        BY <2>2, <2>5 DEF ColumnsBounded
    <2>7. csr_x' <= Width - 1 + k \/ (Over(w)' /\ csr_x' <= Width - 1 + k + TabStop)
          => ColumnsBounded'
        BY <2>3, <2>4, <2>5 DEF ColumnsBounded
    <2> QED BY <2>6, <2>7
<1> QED BY <1>7, <1>10, <1>11, <1>12, <1>13, <1>14 DEF Figures

-----------------------------------------------------------------------------
(* A step of the writer that runs                                          *)

LEMMA Moves ==
    ASSUME Inv, NEW w \in Writer, Runs(w), Kept(w), Typed',
           RowsBounded', ColumnsBounded', Loaded(w)', Backspaces',
           \A u \in Writer : u < w /\ job[u].at = "distance" =>
               /\ csr_y' >= Height - 1
               /\ job'[w].at = "row_store" => job'[w].reg >= Height,
           job'[w].at = "distance" => csr_y' >= Height - 1,
           \/ job'[w].at \in {"idle", "row", "row_store"}
           \/ Lowered(w)'
           => csr_x' < Width
    PROVE  Inv'
<1>1. \A u \in Writer : u > w => job[u].at = "idle" /\ job'[u].at = "idle"
    BY IdleAbove, Sizes DEF Kept
<1>2. ASSUME NEW u \in Writer, u < w
      PROVE  /\ job'[u] = job[u]
             /\ Below(Lower, u)' = Below(Lower, u) /\ Below(Wide, u)' = Below(Wide, u)
    <2>1. \A v \in Writer : v < u => job'[v] = job[v]
        BY <1>2, Sizes DEF Kept
    <2>2. Below(Lower, u)' = Below(Lower, u)
        BY <2>1 DEF Below, Lower, Lowered, Char
    <2>3. Below(Wide, u)' = Below(Wide, u)
        BY <2>1 DEF Below, Wide, Over, Char
    <2> QED BY <1>2, <2>2, <2>3, Sizes DEF Kept
<1>3. ASSUME NEW u \in Writer PROVE Loaded(u)'
    <2>1. CASE u = w
        BY <2>1
    <2>2. CASE u < w
        BY <1>2, <2>2 DEF Inv, Loaded, Char
    <2>3. CASE u > w
        BY <1>1, <2>3 DEF Loaded
    <2> QED BY <2>1, <2>2, <2>3, Sizes
<1>4. Scrolling'
    <2> SUFFICES ASSUME NEW u \in Writer, job'[u].at = "distance"
                 PROVE  /\ csr_y' >= Height - 1
                        /\ \A v \in Writer : v > u /\ job'[v].at = "row_store"
                                             => job'[v].reg >= Height
        BY DEF Scrolling
    <2>1. CASE u = w
        BY <1>1, <2>1
    <2>2. CASE u < w
        <3>1. job[u].at = "distance"
            BY <1>2, <2>2
        <3>2. ASSUME NEW v \in Writer, v > u, job'[v].at = "row_store"
              PROVE  job'[v].reg >= Height
            <4>1. CASE v = w
                BY <2>2, <3>1, <3>2, <4>1
            <4>2. CASE v < w
                BY <1>2, <3>1, <3>2, <4>2 DEF Inv, Scrolling
            <4>3. CASE v > w
                BY <1>1, <3>2, <4>3
            <4> QED BY <4>1, <4>2, <4>3, Sizes
        <3> QED BY <2>2, <3>1, <3>2
    <2>3. CASE u > w
        BY <1>1, <2>3
    <2> QED BY <2>1, <2>2, <2>3, Sizes
<1>5. Wrapped'
    <2> SUFFICES ASSUME NEW u \in Writer, Runs(u)',
                        job'[u].at \in {"row", "row_store"} \/ Lowered(u)'
                 PROVE  csr_x' < Width
        BY DEF Wrapped
    <2>1. CASE u = w
        BY <2>1
    <2>2. CASE u > w
        BY <1>1, <2>2 DEF Lowered
    <2>3. CASE u < w
        <3>1. job'[w].at = "idle"
            <4>1. ~(w <= u)
                BY <2>3, Sizes
            <4> QED BY <4>1 DEF Runs, Inside
        <3> QED BY <3>1
    <2> QED BY <2>1, <2>2, <2>3, Sizes
<1> QED BY <1>3, <1>4, <1>5 DEF Inv
-----------------------------------------------------------------------------
(* What a step does to the job of its writer                               *)

LEMMA CharIs ==
    ASSUME Typed, NEW w \in Writer, job[w].at # "idle"
    PROVE  /\ w \in Inside /\ job[w] \in Job /\ job[w].text \in Seq(Code) /\ job[w].text # <<>>
           /\ Char(w) \in Range(job[w].text)
<1>1. w \in Inside /\ job[w] \in Job
    BY DEF Typed, Inside
<1>2. job[w].text \in Seq(Code) /\ job[w].text # <<>>
    BY <1>1 DEF Typed, Job
<1>3. Char(w) = job[w].text[1] /\ 1 \in DOMAIN job[w].text
    BY <1>2 DEF Char
<1> QED BY <1>1, <1>2, <1>3 DEF Range

(* The next place of the same character.                                   *)
SameChar(w) ==
    /\ Kept(w) /\ job' \in [Writer -> Job]
    /\ job'[w].text = job[w].text

LEMMA GotoIs ==
    ASSUME Typed, NEW w \in Writer, NEW place \in Places, Goto(w, place)
    PROVE  /\ SameChar(w) /\ job'[w].at = place
           /\ job'[w].reg = job[w].reg /\ job'[w].wrapped = job[w].wrapped
<1>1. job \in [Writer -> Job] /\ job[w] \in Job
    BY DEF Typed
<1>2. job' = [job EXCEPT ![w] = [job[w] EXCEPT !.at = place]]
    BY DEF Goto
<1>3. [job[w] EXCEPT !.at = place] \in Job
    BY <1>1 DEF Job
<1>4. job'[w] = [job[w] EXCEPT !.at = place]
    BY <1>1, <1>2
<1>5. /\ job'[w].at = place /\ job'[w].text = job[w].text
      /\ job'[w].reg = job[w].reg /\ job'[w].wrapped = job[w].wrapped
    BY <1>1, <1>4 DEF Job
<1> QED BY <1>1, <1>2, <1>3, <1>5 DEF SameChar, Kept

LEMMA LoadIs ==
    ASSUME Typed, NEW w \in Writer, NEW value \in Int, NEW place \in Places,
           Load(w, value, place)
    PROVE  /\ SameChar(w) /\ job'[w].at = place
           /\ job'[w].reg = value /\ job'[w].wrapped = job[w].wrapped
<1>1. job \in [Writer -> Job] /\ job[w] \in Job
    BY DEF Typed
<1>2. job' = [job EXCEPT ![w] = [job[w] EXCEPT !.reg = value, !.at = place]]
    <2>1. job' = [[job EXCEPT ![w] = [job[w] EXCEPT !.reg = value]]
                  EXCEPT ![w] = [[job EXCEPT ![w] = [job[w] EXCEPT !.reg = value]][w]
                                 EXCEPT !.at = place]]
        BY DEF Load
    <2> QED BY <1>1, <2>1
<1>3. [job[w] EXCEPT !.reg = value, !.at = place] \in Job
    BY <1>1 DEF Job
<1>4. job'[w] = [job[w] EXCEPT !.reg = value, !.at = place]
    BY <1>1, <1>2
<1>5. /\ job'[w].at = place /\ job'[w].text = job[w].text
      /\ job'[w].reg = value /\ job'[w].wrapped = job[w].wrapped
    BY <1>1, <1>4 DEF Job
<1> QED BY <1>1, <1>2, <1>3, <1>5 DEF SameChar, Kept

(* Nobody else prints while a text with a backspace is printed.            *)
LEMMA BackspacesKept ==
    ASSUME Inv, NEW w \in Writer, job[w].at # "idle", Kept(w),
           Range(job'[w].text) \subseteq Range(job[w].text),
           job'[w].at = "column" /\ Char(w)' = T!Backspace => csr_x' >= 1
    PROVE  Backspaces'
<1>1. w \in Inside /\ Typed
    BY CharIs DEF Inv
<1>2. ASSUME NEW u \in Inside', u # w
      PROVE  /\ T!Backspace \notin Range(job'[u].text)
             /\ Char(u)' # T!Backspace
    <2>1. u \in Writer /\ u \in Inside /\ job'[u] = job[u] /\ job[u].at # "idle"
        BY <1>2 DEF Inside, Kept
    <2>2. T!Backspace \notin Range(job[u].text)
        BY <1>1, <1>2, <2>1 DEF Inv, Backspaces
    <2>3. Char(u)' = Char(u) /\ Char(u) \in Range(job[u].text)
        BY <1>1, <2>1, CharIs DEF Char
    <2> QED BY <2>1, <2>2, <2>3
<1>3. ASSUME w \in Inside', T!Backspace \in Range(job'[w].text) PROVE Inside' = {w}
    <2>1. Inside = {w}
        BY <1>1, <1>3 DEF Inv, Backspaces
    <2> QED BY <1>3, <2>1 DEF Inside, Kept
<1> QED BY <1>2, <1>3 DEF Backspaces

LEMMA SameCharStep ==
    ASSUME Inv, NEW w \in Writer, Runs(w), job[w].at # "idle", SameChar(w),
           csr_x' \in Nat, csr_y' \in Nat, job'[w].at # "idle",
           RowsBounded', ColumnsBounded', Loaded(w)',
           job'[w].at = "column" /\ Char(w) = T!Backspace => csr_x' >= 1,
           \A u \in Writer : u < w /\ job[u].at = "distance" =>
               /\ csr_y' >= Height - 1
               /\ job'[w].at = "row_store" => job'[w].reg >= Height,
           job'[w].at = "distance" => csr_y' >= Height - 1,
           job'[w].at \in {"row", "row_store"} \/ Lowered(w)' => csr_x' < Width
    PROVE  Inv'
<1>1. Kept(w) /\ Char(w)' = Char(w) /\ job' \in [Writer -> Job]
    BY DEF SameChar, Char
<1>2. Typed'
    <2>1. ASSUME NEW u \in Inside' PROVE job'[u].text # <<>>
        <3>1. CASE u = w
            BY <3>1, CharIs DEF Inv, SameChar
        <3>2. CASE u # w
            <4>1. job'[u] = job[u] /\ u \in Inside
                BY <1>1, <2>1, <3>2 DEF Kept, Inside
            <4> QED BY <4>1 DEF Inv, Typed
        <3> QED BY <3>1, <3>2
    <2> QED BY <1>1, <2>1 DEF Typed
<1>3. Backspaces'
    BY <1>1, BackspacesKept DEF SameChar
<1> QED BY <1>1, <1>2, <1>3, Moves

-----------------------------------------------------------------------------
(* putch                                                                   *)

LEMMA BeginStep == ASSUME Inv, NEW w \in Writer, Begin(w) PROVE Inv'
<1>1. Typed /\ Runs(w) /\ job[w].at = "putch" /\ csr_y' = csr_y /\ csr_x \in Nat /\ csr_y \in Nat
    BY DEF Inv, Typed, Begin, At
<1>2. /\ ~Lowered(w) /\ ~Over(w)
      /\ \A u \in Writer : u < w /\ job[u].at = "distance" => csr_y >= Height - 1
    BY <1>1 DEF Lowered, Over, Inv, Scrolling
<1>3. CASE /\ Char(w) = T!Backspace /\ csr_x # 0
           /\ Goto(w, "column") /\ csr_x' = csr_x
    <2>1. SameChar(w) /\ job'[w].at = "column"
        BY <1>1, <1>3, GotoIs DEF Places
    <2>2. PICK n, k \in Nat : Figures(w, n, k)
        BY <1>1, <1>3, <2>1, FiguresExist DEF SameChar
    <2>3. RowsBounded' /\ ColumnsBounded'
        BY <1>1, <1>2, <1>3, <2>2 DEF Inv, Figures
    <2>4. Loaded(w)' /\ ~Lowered(w)'
        BY <1>3, <2>1, Codes DEF Loaded, Lowered, SameChar, Char
    <2>5. csr_x >= 1
        BY <1>1, <1>3
    <2> QED BY <1>1, <1>2, <1>3, <2>1, <2>3, <2>4, <2>5, SameCharStep
<1>4. CASE /\ Char(w) = T!Tab
           /\ Goto(w, "column") /\ csr_x' = csr_x
    <2>1. SameChar(w) /\ job'[w].at = "column"
        BY <1>1, <1>4, GotoIs DEF Places
    <2>2. PICK n, k \in Nat : Figures(w, n, k)
        BY <1>1, <1>4, <2>1, FiguresExist DEF SameChar
    <2>3. RowsBounded' /\ ColumnsBounded'
        BY <1>1, <1>2, <1>4, <2>2 DEF Inv, Figures
    <2>4. Loaded(w)' /\ ~Lowered(w)'
        BY <1>4, <2>1, Codes DEF Loaded, Lowered, SameChar, Char
    <2> QED BY <1>1, <1>2, <1>4, <2>1, <2>3, <2>4, Codes, SameCharStep
<1>5. CASE /\ \/ Char(w) = T!Return /\ csr_x' = 0 /\ Goto(w, "send")
              \/ Char(w) # T!Newline /\ csr_x' = csr_x /\ Goto(w, "wrap")
    <2>1. SameChar(w) /\ job'[w].at \in {"send", "wrap"}
        BY <1>1, <1>5, GotoIs DEF Places
    <2>2. csr_x' \in Nat /\ csr_x' <= csr_x /\ Char(w) # T!Newline
        BY <1>1, <1>5, Codes
    <2>3. PICK n, k \in Nat : Figures(w, n, k)
        BY <1>1, <2>1, <2>2, FiguresExist DEF SameChar
    <2>4. RowsBounded' /\ ColumnsBounded'
        <3>1. Width - 1 + k \in Int
            BY Sizes
        <3> QED BY <1>1, <1>2, <2>2, <2>3, <3>1 DEF Inv, Figures
    <2>5. Loaded(w)' /\ ~Lowered(w)'
        BY <2>1, <2>2 DEF Loaded, Lowered, SameChar, Char
    <2> QED BY <1>1, <1>2, <2>1, <2>2, <2>4, <2>5, SameCharStep
<1>6. CASE Char(w) = T!Newline /\ csr_x' = 0 /\ Goto(w, "row")
    <2>1. SameChar(w) /\ job'[w].at = "row"
        BY <1>1, <1>6, GotoIs DEF Places
    <2>2. PICK n, k \in Nat : Figures(w, n, k)
        BY <1>1, <1>6, <2>1, FiguresExist DEF SameChar
    <2>3. RowsBounded' /\ ColumnsBounded'
        BY <1>1, <1>2, <1>6, <2>2, Sizes DEF Inv, Figures
    <2>4. Loaded(w)'
        BY <1>6, <2>1 DEF Loaded, SameChar, Char
    <2> QED BY <1>1, <1>2, <1>6, <2>1, <2>3, <2>4, Sizes, SameCharStep
<1>7. CASE /\ Char(w) >= T!Space /\ Char(w) \notin {T!Backspace, T!Newline}
           /\ Load(w, csr_y, "where") /\ csr_x' = csr_x
    <2>1. SameChar(w) /\ job'[w].at = "where" /\ job'[w].reg = csr_y
        BY <1>1, <1>7, LoadIs DEF Places
    <2>2. PICK n, k \in Nat : Figures(w, n, k)
        BY <1>1, <1>7, <2>1, FiguresExist DEF SameChar
    <2>3. RowsBounded' /\ ColumnsBounded'
        BY <1>1, <1>2, <1>7, <2>2 DEF Inv, Figures
    <2>4. csr_y <= Height - 1 + n /\ Cardinality(Below(Lower, w))' = n
        BY <1>2, <2>2 DEF Inv, Figures
    <2>5. Loaded(w)' /\ ~Lowered(w)'
        BY <1>1, <1>7, <2>1, <2>4, Sizes DEF Loaded, Lowered, SameChar, Char
    <2> QED BY <1>1, <1>2, <1>7, <2>1, <2>3, <2>5, SameCharStep
<1> QED BY <1>1, <1>3, <1>4, <1>5, <1>6, <1>7, Codes DEF Begin

LEMMA WhereStep == ASSUME Inv, NEW w \in Writer, Where(w) PROVE Inv'
<1> DEFINE r == job[w].reg
           p == r * Width + csr_x
<1>1. /\ Typed /\ Runs(w) /\ job[w].at = "where" /\ csr_x \in Nat /\ csr_y \in Nat
      /\ csr_x' = csr_x /\ csr_y' = csr_y /\ Load(w, p, "cell")
    <2>1. At(w, "where") /\ Load(w, p, "cell") /\ csr_x' = csr_x /\ csr_y' = csr_y
        BY DEF Where, cursor
    <2> QED BY <2>1 DEF Inv, Typed, At
<1>2. /\ ~Lowered(w) /\ ~Over(w) /\ Char(w) \notin {T!Backspace, T!Newline}
      /\ \A u \in Writer : u < w /\ job[u].at = "distance" => csr_y >= Height - 1
    BY <1>1 DEF Lowered, Over, Inv, Loaded, Scrolling
<1>3. r \in Int
    BY <1>1, CharIs DEF Job
<1>4. p \in Int
    BY <1>1, <1>3, Sizes
<1> HIDE DEF p
<1>5. SameChar(w) /\ job'[w].at = "cell" /\ job'[w].reg = p
    BY <1>1, <1>4, LoadIs DEF Places
<1>6. PICK n, k \in Nat : Figures(w, n, k)
    BY <1>1, <1>5, FiguresExist DEF SameChar
<1>7. RowsBounded' /\ ColumnsBounded'
    BY <1>1, <1>2, <1>6 DEF Inv, Figures
<1>8. p \in Cell
    <2>1. r \in 0 .. Height - 1 + n
        BY <1>1, <1>6 DEF Inv, Loaded, Figures
    <2>2. csr_x <= Width - 1 + k /\ k <= Width * (Levels - 1 - n) /\ n <= Levels - 1
        BY <1>2, <1>6 DEF Inv, Figures
    <2> HIDE DEF r
    <2>3. 0 <= r * Width /\ r * Width <= (Height - 1 + n) * Width
        BY <2>1, Sizes
    <2>4. (Height - 1 + n) * Width + (Width - 1) + Width * (Levels - 1 - n)
          = (Height + Levels) * Width - Width - 1
        BY Sizes
    <2>5. (Height + Levels) * Width \in Int /\ Width \in Nat
        BY Sizes
    <2>6. r * Width \in Int /\ (Height - 1 + n) * Width \in Int /\ Width * (Levels - 1 - n) \in Int
        BY <2>1, Sizes
    <2>7. 0 <= r * Width + csr_x /\ r * Width + csr_x <= (Height + Levels) * Width - 1
        BY <1>1, <2>2, <2>3, <2>4, <2>5, <2>6
    <2> QED BY <1>4, <2>7, Sizes DEF Cell, p
<1>9. Loaded(w)' /\ ~Lowered(w)'
    BY <1>2, <1>5, <1>8 DEF Loaded, Lowered, SameChar, Char, Cell
<1> QED BY <1>1, <1>2, <1>5, <1>7, <1>9, SameCharStep
LEMMA StoreCellStep == ASSUME Inv, NEW w \in Writer, StoreCell(w) PROVE Inv'
<1>1. At(w, "cell") /\ Goto(w, "column") /\ csr_x' = csr_x /\ csr_y' = csr_y
    BY DEF StoreCell, cursor
<1>2. Typed /\ Runs(w) /\ job[w].at = "cell" /\ csr_x \in Nat /\ csr_y \in Nat
    BY <1>1 DEF Inv, Typed, At
<1>3. SameChar(w) /\ job'[w].at = "column"
    BY <1>1, <1>2, GotoIs DEF Places
<1>4. /\ ~Lowered(w) /\ ~Over(w) /\ Char(w) \notin {T!Backspace, T!Newline}
      /\ \A u \in Writer : u < w /\ job[u].at = "distance" => csr_y >= Height - 1
    BY <1>2 DEF Lowered, Over, Inv, Loaded, Scrolling
<1>5. PICK n, k \in Nat : Figures(w, n, k)
    BY <1>1, <1>2, <1>3, FiguresExist DEF SameChar
<1>6. RowsBounded' /\ ColumnsBounded'
    BY <1>1, <1>4, <1>5 DEF Inv, Figures
<1>7. Loaded(w)' /\ ~Lowered(w)'
    BY <1>3, <1>4 DEF Loaded, Lowered, SameChar, Char
<1> QED BY <1>1, <1>2, <1>3, <1>4, <1>6, <1>7, SameCharStep

LEMMA NextColumnIs ==
    ASSUME NEW x \in Nat
    PROVE  NextColumn(x) \in Int /\ 0 <= NextColumn(x) /\ NextColumn(x) <= x + TabStop
<1> DEFINE y == x + TabStop
<1>1. y \in Nat /\ TabStop \in Nat /\ TabStop > 0
    BY Sizes
<1> HIDE DEF y
<1>2. y % TabStop \in 0 .. TabStop - 1
    BY <1>1
<1>3. y >= TabStop
    BY Sizes DEF y
<1>4. y - (y % TabStop) \in Int /\ 0 <= y - (y % TabStop) /\ y - (y % TabStop) <= y
    BY <1>1, <1>2, <1>3
<1> QED BY <1>4 DEF y, NextColumn

LEMMA LoadColumnStep == ASSUME Inv, NEW w \in Writer, LoadColumn(w) PROVE Inv'
<1> DEFINE r == CASE Char(w) = T!Backspace -> csr_x - 1
                  [] Char(w) = T!Tab       -> NextColumn(csr_x)
                  [] OTHER                 -> csr_x + 1
<1>1. At(w, "column") /\ Load(w, r, "column_store") /\ csr_x' = csr_x /\ csr_y' = csr_y
    BY DEF LoadColumn, cursor
<1>2. Typed /\ Runs(w) /\ job[w].at = "column" /\ csr_x \in Nat /\ csr_y \in Nat
    BY <1>1 DEF Inv, Typed, At
<1>3. r \in Int /\ 0 <= r /\ r <= csr_x + TabStop
    <2>1. CASE Char(w) = T!Backspace
        <3>1. w \in Inside
            BY <1>2, CharIs
        <3>2. csr_x >= 1
            BY <1>2, <2>1, <3>1 DEF Inv, Backspaces
        <3>3. r = csr_x - 1
            BY <2>1, Codes
        <3> QED BY <1>2, <3>2, <3>3, Sizes
    <2>2. CASE Char(w) = T!Tab
        <3>1. r = NextColumn(csr_x)
            BY <2>2, Codes
        <3> QED BY <1>2, <3>1, NextColumnIs
    <2>3. CASE Char(w) # T!Backspace /\ Char(w) # T!Tab
        <3>1. r = csr_x + 1
            BY <2>3
        <3> QED BY <1>2, <3>1, Sizes
    <2> QED BY <2>1, <2>2, <2>3
<1> HIDE DEF r
<1>4. SameChar(w) /\ job'[w].at = "column_store" /\ job'[w].reg = r
    BY <1>1, <1>2, <1>3, LoadIs DEF Places
<1>5. /\ ~Lowered(w) /\ ~Over(w) /\ Char(w) # T!Newline
      /\ \A u \in Writer : u < w /\ job[u].at = "distance" => csr_y >= Height - 1
    BY <1>2 DEF Lowered, Over, Inv, Loaded, Scrolling
<1>6. PICK n, k \in Nat : Figures(w, n, k)
    BY <1>1, <1>2, <1>4, FiguresExist DEF SameChar
<1>7. RowsBounded' /\ ColumnsBounded'
    BY <1>1, <1>5, <1>6 DEF Inv, Figures
<1>8. Loaded(w)' /\ ~Lowered(w)'
    <2>1. csr_x <= Width - 1 + k
        BY <1>5, <1>6 DEF Inv, Figures
    <2>2. r <= Width - 1 + (k + TabStop)
        BY <1>2, <1>3, <2>1, Sizes
    <2>3. r \in 0 .. Width - 1 + (k + TabStop)
        BY <1>3, <2>2, Sizes
    <2>4. TabStop * (Cardinality(Below(Wide, w))' + 1) = k + TabStop
        BY <1>6 DEF Figures
    <2> QED BY <1>4, <1>5, <2>3, <2>4 DEF Loaded, Lowered, SameChar, Char
<1> QED BY <1>1, <1>2, <1>4, <1>5, <1>7, <1>8, SameCharStep

LEMMA StoreColumnStep == ASSUME Inv, NEW w \in Writer, StoreColumn(w) PROVE Inv'
<1> DEFINE place == IF Char(w) >= T!Space THEN "send" ELSE "wrap"
<1>1. At(w, "column_store") /\ Goto(w, place) /\ csr_x' = job[w].reg /\ csr_y' = csr_y
    BY DEF StoreColumn
<1>2. Typed /\ Runs(w) /\ job[w].at = "column_store" /\ csr_y \in Nat
    BY <1>1 DEF Inv, Typed, At
<1>3. place \in {"send", "wrap"}
    OBVIOUS
<1> HIDE DEF place
<1>4. SameChar(w) /\ job'[w].at \in {"send", "wrap"}
    BY <1>1, <1>2, <1>3, GotoIs DEF Places
<1>5. /\ ~Lowered(w) /\ ~Over(w) /\ Char(w) # T!Newline
      /\ \A u \in Writer : u < w /\ job[u].at = "distance" => csr_y >= Height - 1
      /\ job[w].reg \in 0 .. Width - 1 + TabStop * (Cardinality(Below(Wide, w)) + 1)
    BY <1>2 DEF Lowered, Over, Inv, Loaded, Scrolling
<1>6. csr_x' \in Nat
    BY <1>1, <1>5
<1>7. PICK n, k \in Nat : Figures(w, n, k)
    BY <1>1, <1>2, <1>4, <1>6, FiguresExist DEF SameChar
<1>8. Over(w)' /\ ~Lowered(w)' /\ Loaded(w)'
    BY <1>4, <1>5 DEF Over, Loaded, Lowered, SameChar, Char
<1>9. RowsBounded' /\ ColumnsBounded'
    <2>1. TabStop * (Cardinality(Below(Wide, w)) + 1) = k + TabStop
        BY <1>7 DEF Figures
    <2>2. csr_x' \in 0 .. Width - 1 + (k + TabStop)
        BY <1>1, <1>5, <2>1
    <2>3. csr_x' <= Width - 1 + k + TabStop
        BY <2>2, <1>6, Sizes
    <2> QED BY <1>1, <1>5, <1>7, <1>8, <2>3 DEF Inv, Figures
<1> QED BY <1>1, <1>2, <1>4, <1>5, <1>6, <1>8, <1>9, SameCharStep
LEMMA SendStep == ASSUME Inv, NEW w \in Writer, Send(w) PROVE Inv'
<1>1. At(w, "send") /\ Goto(w, "wrap") /\ csr_x' = csr_x /\ csr_y' = csr_y
    BY DEF Send, cursor
<1>2. Typed /\ Runs(w) /\ job[w].at = "send" /\ csr_x \in Nat /\ csr_y \in Nat
    BY <1>1 DEF Inv, Typed, At
<1>3. SameChar(w) /\ job'[w].at = "wrap"
    BY <1>1, <1>2, GotoIs DEF Places
<1>4. /\ Lowered(w)' <=> Lowered(w)
      /\ Over(w)' <=> Over(w)
      /\ Loaded(w)'
    BY <1>2, <1>3 DEF Lowered, Over, Loaded, SameChar, Char
<1>5. /\ Lowered(w) => csr_x < Width
      /\ \A u \in Writer : u < w /\ job[u].at = "distance" => csr_y >= Height - 1
    BY <1>2 DEF Inv, Scrolling, Wrapped
<1>6. PICK n, k \in Nat : Figures(w, n, k)
    BY <1>1, <1>2, <1>3, FiguresExist DEF SameChar
<1>7. RowsBounded' /\ ColumnsBounded'
    BY <1>1, <1>4, <1>6 DEF Inv, Figures
<1> QED BY <1>1, <1>2, <1>3, <1>4, <1>5, <1>7, SameCharStep

LEMMA WrapTestStep == ASSUME Inv, NEW w \in Writer, WrapTest(w) PROVE Inv'
<1> DEFINE place == IF csr_x >= Width THEN "margin" ELSE "scroll"
<1>1. At(w, "wrap") /\ Goto(w, place) /\ csr_x' = csr_x /\ csr_y' = csr_y
    BY DEF WrapTest, cursor
<1>2. Typed /\ Runs(w) /\ job[w].at = "wrap" /\ csr_x \in Nat /\ csr_y \in Nat
    BY <1>1 DEF Inv, Typed, At
<1>3. SameChar(w) /\ job'[w].at = place
    BY <1>1, <1>2, GotoIs DEF Places
<1>4. /\ Lowered(w) <=> Char(w) = T!Newline
      /\ Over(w) <=> Char(w) # T!Newline
    BY <1>2 DEF Lowered, Over
<1>5. /\ Lowered(w) => csr_x < Width
      /\ \A u \in Writer : u < w /\ job[u].at = "distance" => csr_y >= Height - 1
    BY <1>2 DEF Inv, Scrolling, Wrapped
<1>6. PICK n, k \in Nat : Figures(w, n, k)
    BY <1>1, <1>2, <1>3, FiguresExist DEF SameChar
<1>7. CASE csr_x >= Width
    <2>1. job'[w].at = "margin" /\ ~Lowered(w)
        BY <1>2, <1>3, <1>5, <1>7, Sizes
    <2>2. Over(w)' /\ ~Lowered(w)' /\ Loaded(w)'
        BY <2>1 DEF Over, Lowered, Loaded
    <2>3. RowsBounded' /\ ColumnsBounded'
        BY <1>1, <1>6, <2>1, <2>2 DEF Inv, Figures
    <2> QED BY <1>1, <1>2, <1>3, <1>5, <2>1, <2>2, <2>3, SameCharStep
<1>8. CASE csr_x < Width
    <2>1. job'[w].at = "scroll"
        BY <1>2, <1>3, <1>8, Sizes
    <2>2. Lowered(w)' /\ Loaded(w)'
        BY <2>1 DEF Lowered, Loaded
    <2>3. RowsBounded'
        BY <1>1, <1>6, <2>2 DEF Inv, Figures
    <2>4. ColumnsBounded'
        <3>1. csr_x <= Width - 1 + k
            BY <1>2, <1>8, Sizes
        <3> QED BY <1>1, <1>6, <3>1 DEF Figures
    <2> QED BY <1>1, <1>2, <1>3, <1>5, <1>8, <2>1, <2>2, <2>3, <2>4, SameCharStep
<1> QED BY <1>2, <1>7, <1>8, Sizes

LEMMA WrapToMarginStep == ASSUME Inv, NEW w \in Writer, WrapToMargin(w) PROVE Inv'
<1>1. At(w, "margin") /\ csr_x' = 0 /\ csr_y' = csr_y
    BY DEF WrapToMargin
<1>2. Typed /\ Runs(w) /\ job[w].at = "margin" /\ csr_y \in Nat /\ job[w] \in Job
    BY <1>1, CharIs DEF Inv, Typed, At
<1>3. job' = [job EXCEPT ![w] = [job[w] EXCEPT !.at = "row", !.wrapped = TRUE]]
    <2>1. job' = [job EXCEPT ![w].at = "row", ![w].wrapped = TRUE]
        BY DEF WrapToMargin
    <2>2. job' = [[job EXCEPT ![w] = [job[w] EXCEPT !.at = "row"]]
                  EXCEPT ![w] = [[job EXCEPT ![w] = [job[w] EXCEPT !.at = "row"]][w]
                                 EXCEPT !.wrapped = TRUE]]
        BY <2>1
    <2> QED BY <1>2, <2>2 DEF Typed
<1>4. SameChar(w) /\ job'[w].at = "row" /\ job'[w].wrapped
    <2>1. [job[w] EXCEPT !.at = "row", !.wrapped = TRUE] \in Job
        BY <1>2 DEF Job, Places
    <2>2. job'[w] = [job[w] EXCEPT !.at = "row", !.wrapped = TRUE]
        BY <1>2, <1>3 DEF Typed
    <2>3. job'[w].at = "row" /\ job'[w].wrapped /\ job'[w].text = job[w].text
        BY <1>2, <2>2 DEF Job
    <2> QED BY <1>2, <1>3, <2>1, <2>3 DEF SameChar, Kept, Typed
<1>5. ~Lowered(w) /\ ~Lowered(w)' /\ Loaded(w)'
    BY <1>2, <1>4 DEF Lowered, Loaded
<1>6. \A u \in Writer : u < w /\ job[u].at = "distance" => csr_y >= Height - 1
    BY <1>2 DEF Inv, Scrolling
<1>7. PICK n, k \in Nat : Figures(w, n, k)
    BY <1>1, <1>2, <1>4, FiguresExist DEF SameChar
<1>8. RowsBounded' /\ ColumnsBounded'
    <2>1. 0 <= Width - 1 + k
        BY Sizes
    <2> QED BY <1>1, <1>5, <1>7, <2>1 DEF Inv, Figures
<1> QED BY <1>1, <1>2, <1>4, <1>5, <1>6, <1>8, Sizes, SameCharStep

LEMMA LoadRowStep == ASSUME Inv, NEW w \in Writer, LoadRow(w) PROVE Inv'
<1>1. At(w, "row") /\ Load(w, csr_y + 1, "row_store") /\ csr_x' = csr_x /\ csr_y' = csr_y
    BY DEF LoadRow, cursor
<1>2. Typed /\ Runs(w) /\ job[w].at = "row" /\ csr_x \in Nat /\ csr_y \in Nat
    BY <1>1 DEF Inv, Typed, At
<1>3. /\ SameChar(w) /\ job'[w].at = "row_store" /\ job'[w].reg = csr_y + 1
      /\ job'[w].wrapped = job[w].wrapped
    <2>1. csr_y + 1 \in Int
        BY <1>2
    <2> QED BY <1>1, <1>2, <2>1, LoadIs DEF Places
<1>4. /\ ~Lowered(w) /\ ~Lowered(w)' /\ ~Over(w) /\ csr_x < Width
      /\ ~job[w].wrapped => Char(w) = T!Newline
      /\ \A u \in Writer : u < w /\ job[u].at = "distance" => csr_y >= Height - 1
    BY <1>2, <1>3 DEF Lowered, Over, Inv, Loaded, Scrolling, Wrapped
<1>5. PICK n, k \in Nat : Figures(w, n, k)
    BY <1>1, <1>2, <1>3, FiguresExist DEF SameChar
<1>6. RowsBounded' /\ ColumnsBounded'
    BY <1>1, <1>4, <1>5 DEF Inv, Figures
<1>7. Loaded(w)'
    <2>1. csr_y <= Height - 1 + n /\ Cardinality(Below(Lower, w))' = n
        BY <1>4, <1>5 DEF Inv, Figures
    <2>2. csr_y + 1 \in 0 .. Height + n
        BY <1>2, <2>1, Sizes
    <2> QED BY <1>3, <1>4, <2>1, <2>2 DEF Loaded, SameChar, Char
<1>8. \A u \in Writer : u < w /\ job[u].at = "distance" => job'[w].reg >= Height
    BY <1>2, <1>3, <1>4, Sizes
<1> QED BY <1>1, <1>2, <1>3, <1>4, <1>6, <1>7, <1>8, SameCharStep

LEMMA StoreRowStep == ASSUME Inv, NEW w \in Writer, StoreRow(w) PROVE Inv'
<1> DEFINE place == IF job[w].wrapped THEN "scroll" ELSE "send"
<1>1. At(w, "row_store") /\ Goto(w, place) /\ csr_x' = csr_x /\ csr_y' = job[w].reg
    BY DEF StoreRow
<1>2. Typed /\ Runs(w) /\ job[w].at = "row_store" /\ csr_x \in Nat /\ csr_y \in Nat
    BY <1>1 DEF Inv, Typed, At
<1>3. SameChar(w) /\ job'[w].at = place
    BY <1>1, <1>2, GotoIs DEF Places
<1>4. /\ ~Over(w) /\ csr_x < Width
      /\ ~job[w].wrapped => Char(w) = T!Newline
      /\ job[w].reg \in 0 .. Height + Cardinality(Below(Lower, w))
    BY <1>2 DEF Over, Inv, Loaded, Wrapped
<1>5. Lowered(w)' /\ Loaded(w)' /\ job'[w].at # "idle"
    BY <1>3, <1>4 DEF Lowered, Loaded, SameChar, Char
<1>6. \A u \in Writer : u < w /\ job[u].at = "distance" => csr_y' >= Height - 1
    <2>1. ASSUME NEW u \in Writer, u < w, job[u].at = "distance" PROVE job[w].reg >= Height
        <3>1. w > u
            BY <2>1, Sizes
        <3> QED BY <1>2, <2>1, <3>1 DEF Inv, Scrolling
    <2>2. job[w].reg \in Int
        BY <1>4
    <2> QED BY <1>1, <2>1, <2>2, Sizes
<1>7. csr_y' \in Nat
    BY <1>1, <1>4
<1>8. PICK n, k \in Nat : Figures(w, n, k)
    BY <1>1, <1>2, <1>3, <1>7, FiguresExist DEF SameChar
<1>9. RowsBounded' /\ ColumnsBounded'
    <2>1. csr_y' <= Height + n
        BY <1>1, <1>4, <1>8 DEF Figures
    <2> QED BY <1>1, <1>4, <1>5, <1>8, <2>1 DEF Inv, Figures
<1> QED BY <1>1, <1>2, <1>3, <1>4, <1>5, <1>6, <1>7, <1>9, SameCharStep
LEMMA ScrollDistanceStep == ASSUME Inv, NEW w \in Writer, ScrollDistance(w) PROVE Inv'
<1> DEFINE r == csr_y - Height + 1
<1>1. At(w, "distance") /\ Load(w, r, "copy") /\ csr_x' = csr_x /\ csr_y' = csr_y
    BY DEF ScrollDistance, cursor
<1>2. Typed /\ Runs(w) /\ job[w].at = "distance" /\ csr_x \in Nat /\ csr_y \in Nat
    BY <1>1 DEF Inv, Typed, At
<1>3. SameChar(w) /\ job'[w].at = "copy" /\ job'[w].reg = r
    <2>1. r \in Int
        BY <1>2, Sizes
    <2> QED BY <1>1, <1>2, <2>1, LoadIs DEF Places
<1>4. /\ Lowered(w) /\ Lowered(w)' /\ csr_x < Width /\ csr_y >= Height - 1
      /\ \A u \in Writer : u < w /\ job[u].at = "distance" => csr_y >= Height - 1
    BY <1>2, <1>3 DEF Lowered, Inv, Scrolling, Wrapped
<1>5. PICK n, k \in Nat : Figures(w, n, k)
    BY <1>1, <1>2, <1>3, FiguresExist DEF SameChar
<1>6. csr_y <= Height + n /\ n <= Levels - 1 /\ RowsBounded'
    BY <1>1, <1>4, <1>5 DEF Inv, Figures
<1>7. ColumnsBounded'
    <2>1. csr_x <= Width - 1 + k
        BY <1>2, <1>4, Sizes
    <2> QED BY <1>1, <1>5, <2>1 DEF Figures
<1>8. Loaded(w)'
    <2>1. r \in 0 .. Height
        BY <1>2, <1>4, <1>6, Sizes
    <2> QED BY <1>3, <2>1 DEF Loaded
<1> QED BY <1>1, <1>2, <1>3, <1>4, <1>6, <1>7, <1>8, SameCharStep

(* What is left of a step that only copies or blanks a row.                *)
LEMMA ScrollStep ==
    ASSUME Inv, NEW w \in Writer, Runs(w), job[w].at \in {"scroll", "copy"}, SameChar(w),
           csr_x' = csr_x, csr_y' = csr_y,
           \/ job'[w].at = "distance" /\ csr_y >= Height
           \/ job'[w].at = "copy" /\ job'[w].reg = job[w].reg /\ job[w].at = "copy"
           \/ job'[w].at = "last_row"
    PROVE  Inv'
<1>1. Typed /\ csr_x \in Nat /\ csr_y \in Nat
    BY DEF Inv, Typed
<1>2. /\ Lowered(w) /\ Lowered(w)' /\ Loaded(w)' /\ csr_x < Width
      /\ \A u \in Writer : u < w /\ job[u].at = "distance" => csr_y >= Height - 1
    BY DEF Inv, Lowered, Loaded, Scrolling, Wrapped
<1>3. PICK n, k \in Nat : Figures(w, n, k)
    BY <1>1, FiguresExist DEF SameChar
<1>4. RowsBounded'
    BY <1>2, <1>3 DEF Inv, Figures
<1>5. ColumnsBounded'
    <2>1. csr_x <= Width - 1 + k
        BY <1>1, <1>2, Sizes
    <2> QED BY <1>3, <2>1 DEF Figures
<1>6. job'[w].at = "distance" => csr_y' >= Height - 1
    BY <1>1, Sizes
<1> QED BY <1>1, <1>2, <1>4, <1>5, <1>6, SameCharStep

LEMMA CopyRowStep == ASSUME Inv, NEW w \in Writer, CopyRow(w) PROVE Inv'
<1>1. At(w, "copy") /\ csr_x' = csr_x /\ csr_y' = csr_y
    BY DEF CopyRow, cursor
<1>2. Typed /\ Runs(w) /\ job[w].at = "copy" /\ job[w] \in Job
    BY <1>1, CharIs DEF Inv, At
<1>3. job' = [job EXCEPT ![w] = [job[w] EXCEPT !.row = job[w].row + 1]]
    BY <1>2 DEF CopyRow, Typed
<1>4. [job[w] EXCEPT !.row = job[w].row + 1] \in Job
    BY <1>2 DEF Job
<1>5. job'[w] = [job[w] EXCEPT !.row = job[w].row + 1]
    BY <1>2, <1>3 DEF Typed
<1>6. job'[w].at = job[w].at /\ job'[w].reg = job[w].reg /\ job'[w].text = job[w].text
    BY <1>2, <1>5 DEF Job
<1>7. SameChar(w)
    BY <1>2, <1>3, <1>4, <1>6 DEF SameChar, Kept, Typed
<1> QED BY <1>1, <1>2, <1>6, <1>7, ScrollStep

LEMMA BlankRowStep == ASSUME Inv, NEW w \in Writer, BlankRow(w) PROVE Inv'
<1>1. At(w, "copy") /\ Goto(w, "last_row") /\ csr_x' = csr_x /\ csr_y' = csr_y
    BY DEF BlankRow, cursor
<1>2. Typed /\ Runs(w) /\ job[w].at = "copy"
    BY <1>1 DEF Inv, At
<1>3. SameChar(w) /\ job'[w].at = "last_row"
    BY <1>1, <1>2, GotoIs DEF Places
<1> QED BY <1>1, <1>2, <1>3, ScrollStep

(* The end of a character.                                                 *)
LEMMA FinishStep ==
    ASSUME Inv, NEW w \in Writer, Runs(w), job[w].at \in {"scroll", "last_row"}, Finish(w),
           csr_x' = csr_x, csr_y' \in Nat, csr_y' <= Height - 1,
           \A u \in Writer : u < w /\ job[u].at = "distance" => csr_y' >= Height - 1
    PROVE  Inv'
<1>1. Typed /\ csr_x \in Nat /\ job[w] \in Job /\ job[w].text \in Seq(Code)
      /\ job[w].text # <<>>
    BY CharIs DEF Inv, Typed
<1> DEFINE tail == Tail(job[w].text)
           next == IF Len(job[w].text) = 1 THEN Idle
                   ELSE [Idle EXCEPT !.at = "putch", !.text = tail]
<1>2. job' = [job EXCEPT ![w] = next]
    BY <1>1 DEF Finish, Typed
<1>3. /\ tail \in Seq(Code) /\ Range(tail) \subseteq Range(job[w].text)
      /\ Len(job[w].text) # 1 => tail # <<>>
    <2>1. Len(job[w].text) \in Nat /\ Len(job[w].text) # 0
        BY <1>1
    <2>2. tail \in Seq(Code) /\ Len(tail) = Len(job[w].text) - 1
          /\ \A i \in 1 .. Len(tail) : tail[i] = job[w].text[i + 1]
        BY <1>1
    <2>3. DOMAIN tail = 1 .. Len(tail) /\ DOMAIN job[w].text = 1 .. Len(job[w].text)
        BY <1>1, <2>2
    <2>4. \A i \in DOMAIN tail : i + 1 \in DOMAIN job[w].text /\ tail[i] = job[w].text[i + 1]
        BY <2>1, <2>2, <2>3
    <2> HIDE DEF tail
    <2>5. Len(job[w].text) # 1 => tail # <<>>
        <3>1. Len(<<>>) = 0
            OBVIOUS
        <3>2. ASSUME tail = <<>> PROVE Len(job[w].text) = 1
            <4>1. Len(tail) = 0
                BY <3>1, <3>2
            <4> QED BY <2>1, <2>2, <4>1
        <3> QED BY <3>2
    <2>6. Range(tail) \subseteq Range(job[w].text)
        BY <2>4 DEF Range
    <2> QED BY <2>2, <2>5, <2>6
<1> HIDE DEF tail
<1>4. /\ next \in Job /\ Range(next.text) \subseteq Range(job[w].text)
      /\ next.at = "idle" \/ (next.at = "putch" /\ next.text # <<>>)
    <2>1. CASE Len(job[w].text) = 1
        <3>1. next = [at |-> "idle", text |-> <<>>, reg |-> 0, row |-> 0, wrapped |-> FALSE]
            BY <2>1 DEF Idle
        <3>2. <<>> \in Seq(Code) /\ Range(<<>>) = {}
            BY DEF Range
        <3> HIDE DEF next
        <3> QED BY <3>1, <3>2 DEF Job, Places
    <2>2. CASE Len(job[w].text) # 1
        <3>1. next = [at |-> "putch", text |-> tail, reg |-> 0, row |-> 0, wrapped |-> FALSE]
            BY <2>2 DEF Idle
        <3> HIDE DEF next
        <3> QED BY <1>3, <2>2, <3>1 DEF Job, Places
    <2> QED BY <2>1, <2>2
<1> HIDE DEF next
<1>5. job'[w] = next /\ Kept(w) /\ job' \in [Writer -> Job]
    BY <1>1, <1>2, <1>4 DEF Kept, Typed
<1>6. Typed'
    <2>1. ASSUME NEW u \in Inside' PROVE job'[u].text # <<>>
        <3>1. CASE u = w
            BY <1>4, <1>5, <2>1, <3>1 DEF Inside
        <3>2. CASE u # w
            <4>1. job'[u] = job[u] /\ u \in Inside
                BY <1>5, <2>1, <3>2 DEF Kept, Inside
            <4> QED BY <1>1, <4>1 DEF Typed
        <3> QED BY <3>1, <3>2
    <2> QED BY <1>1, <1>5, <2>1 DEF Typed
<1>7. Loaded(w)' /\ csr_x < Width
    BY <1>4, <1>5 DEF Loaded, Lowered, Inv, Wrapped
<1>8. Backspaces'
    BY <1>4, <1>5, BackspacesKept
<1>9. PICK n, k \in Nat : Figures(w, n, k)
    BY <1>1, <1>5, FiguresExist
<1>10. RowsBounded' /\ ColumnsBounded'
    <2>1. csr_y' <= Height - 1 + n /\ csr_x' <= Width - 1 + k
        BY <1>1, <1>7, Sizes
    <2> QED BY <1>9, <2>1 DEF Figures
<1> QED BY <1>4, <1>5, <1>6, <1>7, <1>8, <1>10, Moves

LEMMA ScrollTestStep == ASSUME Inv, NEW w \in Writer, ScrollTest(w) PROVE Inv'
<1>1. /\ At(w, "scroll") /\ csr_x' = csr_x /\ csr_y' = csr_y
      /\ \/ csr_y >= Height /\ Goto(w, "distance")
         \/ ~(csr_y >= Height) /\ Finish(w)
    BY DEF ScrollTest, PastLastRow, cursor
<1>2. Typed /\ Runs(w) /\ job[w].at = "scroll" /\ csr_x \in Nat /\ csr_y \in Nat
    BY <1>1 DEF Inv, Typed, At
<1>3. CASE csr_y >= Height /\ Goto(w, "distance")
    <2>1. SameChar(w) /\ job'[w].at = "distance"
        BY <1>2, <1>3, GotoIs DEF Places
    <2> QED BY <1>1, <1>2, <1>3, <2>1, ScrollStep
<1>4. CASE ~(csr_y >= Height) /\ Finish(w)
    <2>1. csr_y' \in Nat /\ csr_y' <= Height - 1
        BY <1>1, <1>2, <1>4, Sizes
    <2>2. \A u \in Writer : u < w /\ job[u].at = "distance" => csr_y' >= Height - 1
        BY <1>1 DEF Inv, Scrolling
    <2> QED BY <1>1, <1>2, <1>4, <2>1, <2>2, FinishStep
<1> QED BY <1>1, <1>3, <1>4

LEMMA LastRowStep == ASSUME Inv, NEW w \in Writer, LastRow(w) PROVE Inv'
<1>1. At(w, "last_row") /\ csr_x' = csr_x /\ csr_y' = Height - 1 /\ Finish(w)
    BY DEF LastRow
<1>2. Runs(w) /\ job[w].at = "last_row"
    BY <1>1 DEF At
<1>3. csr_y' \in Nat /\ csr_y' <= Height - 1 /\ csr_y' >= Height - 1
    BY <1>1, Sizes
<1> QED BY <1>1, <1>2, <1>3, FinishStep
-----------------------------------------------------------------------------
(* puts, puti and putui                                                    *)

LEMMA LargestOf ==
    ASSUME NEW S, NEW b \in Nat, S \subseteq 0 .. b, S # {}
    PROVE  Max(S) \in S
<1> DEFINE D == {d \in Nat : b - d \in S}
<1>1. D # {}
    <2>1. PICK x \in S : TRUE
        OBVIOUS
    <2>2. b - x \in Nat /\ b - (b - x) = x
        BY <2>1
    <2> QED BY <2>1, <2>2
<1>2. PICK d \in D : \A e \in D : ~ (<<e, d>> \in OpToRel(<, Nat))
    <2>1. \E d \in D : \A e \in D : ~ (<<e, d>> \in OpToRel(<, Nat))
        BY <1>1, NatLessThanWellFounded, WFMin
    <2> QED BY <2>1
<1>3. ASSUME NEW e \in Nat, e < d PROVE <<e, d>> \in OpToRel(<, Nat)
    BY <1>2, <1>3 DEF OpToRel
<1>4. ASSUME NEW y \in S PROVE b - d >= y
    <2>1. b - y \in D
        <3>1. b - y \in Nat /\ b - (b - y) = y
            BY <1>4
        <3> QED BY <1>4, <3>1
    <2>2. ~(b - y < d)
        BY <1>2, <1>3, <2>1, Zenon
    <2>3. y \in Int /\ d \in Nat
        BY <1>4
    <2> QED BY <2>2, <2>3
<1>5. b - d \in S
    BY <1>2
<1> HIDE DEF D
<1>6. \E x \in S : \A y \in S : x >= y
    BY <1>4, <1>5
<1> QED BY <1>6 DEF Max

(* What puti and putui print consists of places of temp.                   *)
LEMMA NumberPrinted == ASSUME NEW n \in Numbers PROVE int2str(n) \in Seq(Code)
<1> DEFINE S == {1} \cup {i \in 1 .. Digits : Temp(n)[i] # Zero}
           m == LeadingPlace(Temp(n))
<1>1. m \in 1 .. Digits
    <2>1. S \subseteq 0 .. Digits /\ S # {} /\ S \subseteq 1 .. Digits
        BY Sizes
    <2>2. Max(S) \in S
        BY <2>1, Sizes, LargestOf
    <2> QED BY <2>1, <2>2 DEF LeadingPlace
<1> HIDE DEF m, S
<1>2. ASSUME NEW i \in 1 .. m PROVE Temp(n)[m + 1 - i] \in Code
    <2>1. m + 1 - i \in 1 .. Digits
        BY <1>1, <1>2, Sizes
    <2> QED BY <2>1 DEF Code
<1>3. int2str(n) = [i \in 1 .. m |-> Temp(n)[m + 1 - i]]
    BY DEF int2str, m
<1> QED
    <2>1. m \in Nat
        BY <1>1, Sizes
    <2>2. [i \in 1 .. m |-> Temp(n)[m + 1 - i]] \in [1 .. m -> Code]
        BY <1>2
    <2> QED BY <1>3, <2>1, <2>2

LEMMA FreshJob ==
    ASSUME NEW s
    PROVE  [Idle EXCEPT !.at = "putch", !.text = s]
           = [at |-> "putch", text |-> s, reg |-> 0, row |-> 0, wrapped |-> FALSE]
<1>1. ASSUME NEW fresh, fresh = [Idle EXCEPT !.at = "putch", !.text = s]
      PROVE  fresh = [at |-> "putch", text |-> s, reg |-> 0, row |-> 0, wrapped |-> FALSE]
    BY <1>1 DEF Idle
<1> QED BY <1>1

LEMMA NothingMoves ==
    ASSUME Inv, csr_x' = csr_x, csr_y' = csr_y, job' = job
    PROVE  Inv'
<1>1. /\ Inside' = Inside
      /\ \A w \in Writer : /\ Char(w)' = Char(w) /\ (Runs(w)' <=> Runs(w))
                           /\ (Lowered(w)' <=> Lowered(w)) /\ (Over(w)' <=> Over(w))
    BY DEF Inside, Char, Runs, Lowered, Over
<1>2. Lower' = Lower /\ Wide' = Wide
    BY <1>1 DEF Lower, Wide
<1>3. Typed' /\ RowsBounded' /\ ColumnsBounded'
    BY <1>1, <1>2 DEF Inv, Typed, RowsBounded, ColumnsBounded
<1>4. ASSUME NEW w \in Writer PROVE Loaded(w)'
    <2>1. Below(Lower, w)' = Below(Lower, w) /\ Below(Wide, w)' = Below(Wide, w)
        BY <1>2 DEF Below
    <2> QED BY <1>1, <2>1 DEF Inv, Loaded
<1>5. Scrolling' /\ Wrapped'
    BY <1>1 DEF Inv, Scrolling, Wrapped
<1>6. Backspaces'
    <2>1. \A w \in Inside : w \in Writer
        BY DEF Inside
    <2> QED BY <1>1, <2>1 DEF Inv, Backspaces
<1> QED BY <1>3, <1>4, <1>5, <1>6 DEF Inv

LEMMA CallStep ==
    ASSUME Inv, NEW w \in Writer, NEW s \in Seq(Code), Call(w, s)
    PROVE  Inv'
<1>1. /\ Runs(w) /\ job[w].at = "idle" /\ csr_x' = csr_x /\ csr_y' = csr_y
      /\ Inside = {} \/ (~Alone(s) /\ \A v \in Inside : ~Alone(job[v].text))
      /\ \/ job' = job
         \/ s # <<>> /\ job' = [job EXCEPT ![w] = [Idle EXCEPT !.at = "putch", !.text = s]]
    BY DEF Call, cursor, history
<1>2. Typed /\ csr_x \in Nat /\ csr_y \in Nat
    BY DEF Inv, Typed
<1>3. CASE job' = job
    BY <1>1, <1>3, NothingMoves
<1>4. CASE s # <<>> /\ job' = [job EXCEPT ![w] = [Idle EXCEPT !.at = "putch", !.text = s]]
    <2> DEFINE next == [at |-> "putch", text |-> s, reg |-> 0, row |-> 0, wrapped |-> FALSE]
    <2>1. next \in Job
        BY DEF Job, Places
    <2>2. job' = [job EXCEPT ![w] = next]
        BY <1>4, FreshJob DEF next
    <2>3. job'[w] = next /\ Kept(w) /\ job' \in [Writer -> Job]
        BY <1>2, <2>1, <2>2 DEF Kept, Typed
    <2>4. job'[w].at = "putch" /\ job'[w].text = s
        BY <2>3
    <2> HIDE DEF next
    <2>5. Inside' = Inside \cup {w} /\ w \notin Inside
        BY <1>1, <2>3, <2>4 DEF Inside, Kept
    <2>6. Typed'
        BY <1>1, <1>2, <1>4, <2>3, <2>4, <2>5 DEF Typed, Kept, Inside
    <2>7. Loaded(w)' /\ ~Lowered(w)' /\ ~Lowered(w) /\ ~Over(w)
        BY <1>1, <2>4 DEF Loaded, Lowered, Over
    <2>8. Backspaces'
        <3>1. ASSUME NEW u \in Inside', u # w
              PROVE  /\ T!Backspace \notin Range(job'[u].text)
                     /\ Char(u)' # T!Backspace
            <4>1. u \in Inside /\ u \in Writer /\ job'[u] = job[u] /\ job[u].at # "idle"
                BY <2>3, <2>5, <3>1 DEF Kept, Inside
            <4>2. ~Alone(job[u].text)
                BY <1>1, <4>1
            <4>3. Char(u)' = Char(u) /\ Char(u) \in Range(job[u].text)
                BY <1>2, <4>1, CharIs DEF Char
            <4> QED BY <4>1, <4>2, <4>3 DEF Alone
        <3>2. T!Backspace \in Range(job'[w].text) => Inside' = {w}
            BY <1>1, <2>4, <2>5 DEF Alone
        <3> QED BY <2>4, <3>1, <3>2 DEF Backspaces
    <2>9. PICK n, k \in Nat : Figures(w, n, k)
        BY <1>1, <1>2, <2>3, FiguresExist
    <2>10. RowsBounded' /\ ColumnsBounded'
        BY <1>1, <2>7, <2>9 DEF Inv, Figures
    <2>11. \A u \in Writer : u < w /\ job[u].at = "distance" => csr_y' >= Height - 1
        BY <1>1 DEF Inv, Scrolling
    <2> QED BY <1>1, <2>3, <2>4, <2>6, <2>7, <2>8, <2>10, <2>11, Moves
<1> QED BY <1>1, <1>3, <1>4

LEMMA PrintStep ==
    ASSUME Inv, NEW w \in Writer, puts(w) \/ puti(w) \/ putui(w)
    PROVE  Inv'
<1>1. \A s \in Texts : s \in Seq(Code)
    <2>1. \A s \in Seq(Int) : s \in Seq(Code)
        BY DEF Code
    <2> QED BY <2>1, Sizes
<1>2. ASSUME NEW n \in Numbers PROVE <<60>> \o uint2str(n) \o <<62>> \in Seq(Code)
    <2>1. <<60>> \in Seq(Code) /\ <<62>> \in Seq(Code)
        BY DEF Code
    <2>2. uint2str(n) \in Seq(Code)
        BY NumberPrinted DEF uint2str
    <2> QED BY <2>1, <2>2
<1>3. CASE puts(w)
    BY <1>1, <1>3, CallStep DEF puts
<1>4. CASE puti(w)
    BY <1>4, CallStep, NumberPrinted DEF puti
<1>5. CASE putui(w)
    BY <1>2, <1>5, CallStep DEF putui
<1> QED BY <1>3, <1>4, <1>5

-----------------------------------------------------------------------------
(* The whole specification                                                 *)

LEMMA InitInv == ASSUME Init PROVE Inv
<1>1. csr_x = 0 /\ csr_y = 0 /\ job = [w \in Writer |-> Idle]
    BY DEF Init, cls
<1>2. Idle \in Job /\ Idle.at = "idle"
    <2>1. <<>> \in Seq(Code)
        OBVIOUS
    <2>2. [at |-> "idle", text |-> <<>>, reg |-> 0, row |-> 0, wrapped |-> FALSE] \in Job
        BY <2>1 DEF Job, Places
    <2> QED BY <2>2 DEF Idle
<1>3. \A w \in Writer : job[w].at = "idle"
    BY <1>1, <1>2
<1>4. Inside = {} /\ Lower = {} /\ Wide = {}
    BY <1>3 DEF Inside, Lower, Wide, Lowered, Over
<1>5. Typed
    BY <1>1, <1>2, <1>4 DEF Typed
<1>6. RowsBounded /\ ColumnsBounded
    <2>1. Cardinality(Lower) = 0 /\ Cardinality(Wide) = 0
        BY <1>4, FS_EmptySet
    <2> QED BY <1>1, <2>1, Sizes DEF RowsBounded, ColumnsBounded
<1>7. (\A w \in Writer : Loaded(w)) /\ Scrolling /\ Wrapped /\ Backspaces
    BY <1>3, <1>4 DEF Loaded, Scrolling, Wrapped, Lowered, Backspaces
<1> QED BY <1>5, <1>6, <1>7 DEF Inv

LEMMA NextInv == ASSUME Inv, [Next]_vars PROVE Inv'
<1>1. CASE csr_x' = csr_x /\ csr_y' = csr_y /\ job' = job
    BY <1>1, NothingMoves
<1>2. CASE \E w \in Writer : puts(w) \/ puti(w) \/ putui(w)
    BY <1>2, PrintStep
<1>3. ASSUME NEW w \in Writer, putch(w) PROVE Inv'
    BY <1>3, BeginStep, WhereStep, StoreCellStep, LoadColumnStep, StoreColumnStep, SendStep,
       WrapTestStep, WrapToMarginStep, LoadRowStep, StoreRowStep, ScrollTestStep,
       ScrollDistanceStep, CopyRowStep, BlankRowStep, LastRowStep DEF putch
<1>4. CASE redirect_output \/ UNCHANGED vars
    BY <1>1, <1>4 DEF redirect_output, vars, cursor
<1> QED BY <1>2, <1>3, <1>4 DEF Next

(* However many handlers come in between the accesses of putch (console.C) *)
(* to the cursor, and wherever they do: a cursor past the screen is the    *)
(* doing of calls that are still inside putch, at most one row each; no    *)
(* character is stored outside the video memory, no scroll copies rows     *)
(* from in front of the screen, and the cursor stands on the screen again  *)
(* once everybody is done.  There are at least as many rows as levels of   *)
(* nesting, and a tab stop is no wider than the screen.                    *)
THEOREM CursorStaysBounded == Spec => []CursorBounded
<1>1. Inv => CursorBounded
    <2> SUFFICES ASSUME Inv PROVE CursorBounded
        OBVIOUS
    <2>1. IsFiniteSet(Writer)
        BY Sizes, FS_Interval
    <2>2. /\ Lower \subseteq Inside /\ Wide \subseteq Inside /\ Inside \subseteq Writer
        BY DEF Lower, Wide, Lowered, Over, Inside
    <2>3. /\ IsFiniteSet(Inside) /\ Cardinality(Inside) \in Nat
          /\ Cardinality(Lower) \in Nat /\ Cardinality(Lower) <= Cardinality(Inside)
        BY <2>1, <2>2, FS_Subset, FS_CardinalityType
    <2>4. csr_y \in 0 .. Height - 1 + Cardinality(Inside)
        BY <2>3, Sizes DEF Inv, Typed, RowsBounded
    <2>5. ASSUME Inside = {} PROVE csr_x \in 0 .. Width - 1
        <3>1. Cardinality(Wide) = 0
            BY <2>2, <2>5, FS_EmptySet
        <3> QED BY <3>1, Sizes DEF Inv, Typed, ColumnsBounded
    <2>6. \A w \in Inside : /\ job[w].at = "cell" => job[w].reg \in Cell
                            /\ job[w].at = "copy" => job[w].reg \in 0 .. Height
        BY <2>2 DEF Inv, Loaded
    <2> QED BY <2>4, <2>5, <2>6 DEF CursorBounded
<1> QED BY <1>1, InitInv, NextInv, PTL DEF Spec
=============================================================================
