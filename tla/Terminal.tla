------------------------------- MODULE Terminal -------------------------------
(***************************************************************************)
(* What a reader of the console expects to see: text laid out in lines of  *)
(* Width cells on endless paper, the last Height lines of it on show.      *)
(* There is no video memory here, no scrolling and no step in which a      *)
(* character is half printed.  Characters are their codes.                 *)
(***************************************************************************)
EXTENDS Integers, Sequences, SequencesExt

CONSTANTS Width, Height, TabStop

Backspace == 8
Tab       == 9
Newline   == 10
Return    == 13
Space     == 32

BlankLine == [column \in 0 .. Width - 1 |-> Space]
Paper     == [lines |-> <<BlankLine>>, column |-> 0]

NextTab(column) == (column \div TabStop + 1) * TabStop

NewLine(paper) == [lines |-> Append(paper.lines, BlankLine), column |-> 0]

Typed(paper, c) ==
    CASE c = Backspace -> [paper EXCEPT !.column = IF @ = 0 THEN 0 ELSE @ - 1]
      [] c = Tab       -> [paper EXCEPT !.column = NextTab(@)]
      [] c = Return    -> [paper EXCEPT !.column = 0]
      [] c = Newline   -> NewLine(paper)
      [] c >= Space    -> [lines  |-> [paper.lines EXCEPT
                                         ![Len(paper.lines)][paper.column] = c],
                           column |-> paper.column + 1]
      [] OTHER         -> paper

Wrapped(paper) == IF paper.column >= Width THEN NewLine(paper) ELSE paper

Layout(text) == FoldLeft(LAMBDA paper, c : Wrapped(Typed(paper, c)), Paper, text)

(* The line that row r of the screen shows.                                *)
Shown(paper, r) ==
    LET above == IF Len(paper.lines) > Height THEN Len(paper.lines) - Height ELSE 0
    IN IF r + above + 1 <= Len(paper.lines) THEN paper.lines[r + above + 1] ELSE BlankLine

CursorRow(paper) == IF Len(paper.lines) > Height THEN Height - 1 ELSE Len(paper.lines) - 1
=============================================================================
