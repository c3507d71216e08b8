------------------------------- MODULE Console --------------------------------
(***************************************************************************)
(* The console of both kernels (console.C, with the copies of utils.C that *)
(* it uses): text goes to the video memory and, once main has redirected   *)
(* output, to the serial port.                                             *)
(*                                                                         *)
(* Nothing protects the cursor, and threads and the timer's handler print. *)
(* A writer is a level of nesting: 0 is the thread that runs, 1 a handler  *)
(* that interrupts it and returns, 2 a handler that interrupts that one.   *)
(* A step is one access to the cursor or to the memory, so that a handler  *)
(* can come in between any two.  Copying a row of the screen is one step.  *)
(***************************************************************************)
EXTENDS Integers, Sequences, FiniteSets, FiniteSetsExt, SequencesExt

CONSTANTS
    Width, Height,  \* of the screen: 80 and 25
    TabStop,        \* 8
    Digits,         \* decimal digits of a number: 10
    Levels,         \* of nesting
    Texts, Numbers, \* what they print
    MaxCalls        \* bound: calls of puts, puti and putui altogether

ASSUME ConsoleAssumption ==
    /\ Width \in Nat \ {0} /\ TabStop \in 1 .. Width
    /\ Digits \in Nat \ {0} /\ MaxCalls \in Nat /\ Texts \subseteq Seq(Int)
    /\ Height \in Nat /\ Levels \in Nat \ {0} /\ Height >= Levels

VARIABLES
    video,       \* the text memory from textmemptr on
    csr_x, csr_y,
    output_redirected,
    serial,      \* what the serial port was sent
    job,         \* job[w]: how far w's call of puts, puti or putui has got
    text,        \* the characters printed while nobody came in between
    disturbed,   \* two writers have been inside putch at once
    called       \* calls so far

cursor  == <<csr_x, csr_y>>
history == <<text, disturbed>>
vars    == <<video, cursor, output_redirected, serial, job, history, called>>

Writer == 0 .. Levels - 1

T == INSTANCE Terminal

-----------------------------------------------------------------------------
(* Numbers: int2str and uint2str fill temp from its end and copy it from   *)
(* the first digit that is not zero.  The remainder of a negative number   *)
(* is negative.                                                            *)

Zero == 48

Rem(n, d)  == IF n < 0 THEN -((-n) % d) ELSE n % d
Quot(n, d) == IF n < 0 THEN -((-n) \div d) ELSE n \div d

Temp(n) == [i \in 1 .. Digits |-> Zero + Rem(Quot(n, 10 ^ (i - 1)), 10)]

OnePlaceLower(temp) == Max({1} \cup {i \in 1 .. Digits - 1 : temp[i] # Zero})

LeadingPlace(temp) == Max({1} \cup {i \in 1 .. Digits : temp[i] # Zero})

int2str(n) == [k \in 1 .. LeadingPlace(Temp(n)) |->
                  Temp(n)[LeadingPlace(Temp(n)) + 1 - k]]

uint2str(n) == int2str(n)

-----------------------------------------------------------------------------
(* The screen.  The rows behind it are video memory too and hold what was  *)
(* there before the kernel started.                                        *)

Unknown == -1
Rows    == Height + Levels
Cell    == 0 .. Rows * Width - 1

Blank == T!Space

memsetw(memory, start, count) ==
    [c \in Cell |-> IF c \in start .. start + count - 1 THEN Blank ELSE memory[c]]

memcpy(memory, to, from, count) ==
    [c \in Cell |-> IF c \in to .. to + count - 1 THEN memory[c - to + from] ELSE memory[c]]

Idle == [at |-> "idle", text |-> <<>>, reg |-> 0, row |-> 0, wrapped |-> FALSE]

cls(memory) ==
    /\ video = memsetw(memory, 0, Height * Width)
    /\ csr_x = 0 /\ csr_y = 0

(* Console::init                                                           *)
Init ==
    /\ cls([c \in Cell |-> Unknown])
    /\ output_redirected = FALSE
    /\ serial = <<>>
    /\ job = [w \in Writer |-> Idle]
    /\ text = <<>> /\ disturbed = FALSE
    /\ called = 0

Inside  == {w \in Writer : job[w].at # "idle"}
Runs(w) == \A v \in Inside : v <= w

redirect_output ==
    /\ Inside = {} /\ called = 0 /\ ~output_redirected
    /\ output_redirected' = TRUE
    /\ UNCHANGED <<video, cursor, serial, job, history, called>>

-----------------------------------------------------------------------------
(* puts, puti and putui.  No text of the kernels has a backspace in it; a  *)
(* text that has is printed while nobody else prints.                      *)

Alone(s) == T!Backspace \in Range(s)

Call(w, s) ==
    /\ Runs(w) /\ job[w].at = "idle" /\ called < MaxCalls
    /\ \/ Inside = {}
       \/ ~Alone(s) /\ \A v \in Inside : ~Alone(job[v].text)
    /\ called' = called + 1
    /\ IF s = <<>> THEN UNCHANGED <<job, history>>
       ELSE /\ job' = [job EXCEPT ![w] = [Idle EXCEPT !.at = "putch", !.text = s]]
            /\ disturbed' = (disturbed \/ Inside # {})
            /\ text' = IF disturbed' THEN <<>> ELSE text
    /\ UNCHANGED <<video, cursor, output_redirected, serial>>

puts(w)  == \E s \in Texts : Call(w, s)
puti(w)  == \E n \in Numbers : Call(w, int2str(n))
putui(w) == \E n \in Numbers : n >= 0 /\ Call(w, <<60>> \o uint2str(n) \o <<62>>)

-----------------------------------------------------------------------------
(* putch                                                                   *)

At(w, place) == Runs(w) /\ job[w].at = place
Char(w)      == Head(job[w].text)
Goto(w, place)      == job' = [job EXCEPT ![w].at = place]
Load(w, value, then) == job' = [job EXCEPT ![w].reg = value, ![w].at = then]

(* The first access of each branch.                                        *)
Begin(w) ==
    /\ At(w, "putch")
    /\ \/ /\ Char(w) = T!Backspace
          /\ Goto(w, IF csr_x # 0 THEN "column" ELSE "wrap")
          /\ UNCHANGED csr_x
       \/ /\ Char(w) = T!Tab
          /\ Goto(w, "column")
          /\ UNCHANGED csr_x
       \/ /\ Char(w) = T!Return
          /\ csr_x' = 0
          /\ Goto(w, "send")
       \/ /\ Char(w) = T!Newline
          /\ csr_x' = 0
          /\ Goto(w, "row")
       \/ /\ Char(w) >= T!Space
          /\ Load(w, csr_y, "where")
          /\ UNCHANGED csr_x
       \/ /\ Char(w) < T!Space
          /\ Char(w) \notin {T!Backspace, T!Tab, T!Newline, T!Return}
          /\ Goto(w, "wrap")
          /\ UNCHANGED csr_x
    /\ UNCHANGED <<video, csr_y, output_redirected, serial, history, called>>

(* A printable character: where it goes is worked out before it is stored. *)
Where(w) ==
    /\ At(w, "where")
    /\ Load(w, job[w].reg * Width + csr_x, "cell")
    /\ UNCHANGED <<video, cursor, output_redirected, serial, history, called>>

StoreCell(w) ==
    /\ At(w, "cell")
    /\ video' = [video EXCEPT ![job[w].reg] = Char(w)]
    /\ Goto(w, "column")
    /\ UNCHANGED <<cursor, output_redirected, serial, history, called>>

(* The column is loaded, changed and stored back.                          *)
TabFromHere(x) == x + TabStop

NextColumn(x) == (x + TabStop) - ((x + TabStop) % TabStop)

LoadColumn(w) ==
    /\ At(w, "column")
    /\ Load(w, CASE Char(w) = T!Backspace -> csr_x - 1
                 [] Char(w) = T!Tab       -> NextColumn(csr_x)
                 [] OTHER                 -> csr_x + 1, "column_store")
    /\ UNCHANGED <<video, cursor, output_redirected, serial, history, called>>

StoreColumn(w) ==
    /\ At(w, "column_store")
    /\ csr_x' = job[w].reg
    /\ Goto(w, IF Char(w) >= T!Space THEN "send" ELSE "wrap")
    /\ UNCHANGED <<video, csr_y, output_redirected, serial, history, called>>

(* The branch of a carriage return tests the function redirect_output,     *)
(* which is never null.                                                    *)
Send(w) ==
    /\ At(w, "send")
    /\ serial' = IF output_redirected \/ Char(w) = T!Return
                 THEN Append(serial, Char(w)) ELSE serial
    /\ Goto(w, "wrap")
    /\ UNCHANGED <<video, cursor, output_redirected, history, called>>

WrapTest(w) ==
    /\ At(w, "wrap")
    /\ Goto(w, IF csr_x >= Width THEN "margin" ELSE "scroll")
    /\ UNCHANGED <<video, cursor, output_redirected, serial, history, called>>

WrapToMargin(w) ==
    /\ At(w, "margin")
    /\ csr_x' = 0
    /\ job' = [job EXCEPT ![w].at = "row", ![w].wrapped = TRUE]
    /\ UNCHANGED <<video, csr_y, output_redirected, serial, history, called>>

(* The row likewise, for a newline and at the edge of the screen.          *)
LoadRow(w) ==
    /\ At(w, "row")
    /\ Load(w, csr_y + 1, "row_store")
    /\ UNCHANGED <<video, cursor, output_redirected, serial, history, called>>

StoreRow(w) ==
    /\ At(w, "row_store")
    /\ csr_y' = job[w].reg
    /\ Goto(w, IF job[w].wrapped THEN "scroll" ELSE "send")
    /\ UNCHANGED <<video, csr_x, output_redirected, serial, history, called>>

-----------------------------------------------------------------------------
(* scroll and move_cursor.  move_cursor only selects two registers of the  *)
(* VGA controller: the writes of the position are commented out.           *)

Finish(w) ==
    /\ job' = [job EXCEPT ![w] = IF Len(@.text) = 1 THEN Idle
                                 ELSE [Idle EXCEPT !.at = "putch", !.text = Tail(job[w].text)]]
    /\ text' = IF disturbed THEN text ELSE Append(text, Char(w))
    /\ UNCHANGED disturbed

BeyondOneRow(row) == row > Height

PastLastRow(row) == row >= Height

ScrollTest(w) ==
    /\ At(w, "scroll")
    /\ IF PastLastRow(csr_y) THEN Goto(w, "distance") /\ UNCHANGED history ELSE Finish(w)
    /\ UNCHANGED <<video, cursor, output_redirected, serial, called>>

(* The distance is worked out from csr_y read a second time.               *)
ScrollDistance(w) ==
    /\ At(w, "distance")
    /\ Load(w, csr_y - Height + 1, "copy")
    /\ UNCHANGED <<video, cursor, output_redirected, serial, history, called>>

CopyRow(w) ==
    /\ At(w, "copy") /\ job[w].row < Height - job[w].reg
    /\ video' = memcpy(video, job[w].row * Width, (job[w].row + job[w].reg) * Width, Width)
    /\ job' = [job EXCEPT ![w].row = @ + 1]
    /\ UNCHANGED <<cursor, output_redirected, serial, history, called>>

BlankRow(w) ==
    /\ At(w, "copy") /\ job[w].row = Height - job[w].reg
    /\ video' = memsetw(video, job[w].row * Width, Width)
    /\ Goto(w, "last_row")
    /\ UNCHANGED <<cursor, output_redirected, serial, history, called>>

LastRow(w) ==
    /\ At(w, "last_row")
    /\ csr_y' = Height - 1
    /\ Finish(w)
    /\ UNCHANGED <<video, csr_x, output_redirected, serial, called>>

putch(w) ==
    \/ Begin(w) \/ Where(w) \/ StoreCell(w) \/ LoadColumn(w) \/ StoreColumn(w)
    \/ Send(w) \/ WrapTest(w) \/ WrapToMargin(w) \/ LoadRow(w) \/ StoreRow(w)
    \/ ScrollTest(w) \/ ScrollDistance(w) \/ CopyRow(w) \/ BlankRow(w) \/ LastRow(w)

Next ==
    \/ redirect_output
    \/ \E w \in Writer : puts(w) \/ puti(w) \/ putui(w) \/ putch(w)

Spec == Init /\ [][Next]_vars

-----------------------------------------------------------------------------
(* Properties                                                              *)

(* As long as nobody printed in the middle of somebody else's character,   *)
(* the screen shows the last lines of the text and the cursor stands       *)
(* behind it, through every wrap and scroll; the serial port, once output  *)
(* is redirected, got the same text without tabs and backspaces.           *)
Sent(c) == c \in {T!Return, T!Newline} \/ c >= T!Space

ShowsTheText ==
    ~disturbed /\ Inside = {} =>
        LET paper == T!Layout(text)
        IN /\ \A r \in 0 .. Height - 1, c \in 0 .. Width - 1 :
                  video[r * Width + c] = T!Shown(paper, r)[c]
           /\ <<csr_x, csr_y>> = <<paper.column, T!CursorRow(paper)>>
           /\ output_redirected => serial = SelectSeq(text, Sent)

(* Wherever a handler comes in, a cursor past the screen is the doing of   *)
(* calls that are still inside putch and will bring it back: at most one   *)
(* row each, so that no character and no scroll leaves the video memory,   *)
(* and none once everybody is done.                                        *)
CursorBounded ==
    /\ csr_y \in 0 .. Height - 1 + Cardinality(Inside)
    /\ Inside = {} => csr_x \in 0 .. Width - 1
    /\ \A w \in Inside : /\ job[w].at = "cell" => job[w].reg \in Cell
                         /\ job[w].at = "copy" => job[w].reg \in 0 .. Height

(* A number about to be printed reads back as itself, without leading      *)
(* zeros.  A negative one has no sign: each of its digits d is the         *)
(* character '0' - d instead, so that -35 is printed as "-+".              *)
ValueOf(s) == FoldLeft(LAMBDA v, c : 10 * v + c - Zero, 0, s)
Mirror(s)  == [k \in DOMAIN s |-> 2 * Zero - s[k]]

NumbersReadBack ==
    \A w \in Inside, n \in Numbers :
        job[w].text = int2str(n) =>
            LET digits == IF n < 0 THEN Mirror(job[w].text) ELSE job[w].text
            IN  /\ \A k \in DOMAIN digits : digits[k] \in Zero .. Zero + 9
                /\ ValueOf(digits) = IF n < 0 THEN -n ELSE n
                /\ digits[1] = Zero => n = 0
=============================================================================
