------------------------------ MODULE MCConsole -------------------------------
(***************************************************************************)
(* Two writers and what they print: letters, a full line, newlines to      *)
(* reach the last row, each of the special characters; numbers of one, two *)
(* and all digits, and a negative one.                                     *)
(***************************************************************************)
EXTENDS Console

Letters  == <<97, 98>>
FullLine == <<97, 98, 99, 10>>
Lines    == <<10, 10, 10>>
Special  == <<97, 9, 8, 100, 13, 1>>

MCNumbers == {-35, 0, 7, 10, 999}

MCTexts == {Letters, FullLine, Lines, Special}
=============================================================================
