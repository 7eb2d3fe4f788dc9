------------------------------- MODULE RowMirror -------------------------------
(***************************************************************************)
(* What the write-behind of token states promises: the row of a pass shows *)
(* what some prefix of the gate's events made of it, the prefix only       *)
(* grows, and in the end it is all of them.                                *)
(***************************************************************************)
EXTENDS Integers, Sequences

CONSTANT Token

VARIABLES
    log,       \* every event the gate answered with, in order
    applied,   \* how many of them the rows show
    row        \* row[t]: the status Postgres has for t

mirrorVars == <<log, applied, row>>

\* The status of t after the first n events of s.
StatusAfter(s, n, t) ==
    LET about == {i \in 1 .. n : s[i].tok = t}
    IN  IF about = {} THEN "pending" ELSE s[CHOOSE i \in about : \A j \in about : j <= i].to

MirrorInit ==
    /\ log = <<>>
    /\ applied = 0
    /\ row = [t \in Token |-> "pending"]

\* The gate answers.
Happen ==
    /\ \E t \in Token, to \in {"checked_in", "checked_out"} : log' = Append(log, [tok |-> t, to |-> to])
    /\ UNCHANGED <<applied, row>>

\* The rows move on to a longer prefix.
Show ==
    /\ applied' \in applied + 1 .. Len(log)
    /\ row' = [t \in Token |-> StatusAfter(log, applied', t)]
    /\ UNCHANGED log

MirrorNext == Happen \/ Show

\* What no step may break, and with it that all answers are shown at last.
MirrorSafety == MirrorInit /\ [][MirrorNext]_mirrorVars

MirrorSpec == MirrorSafety /\ WF_mirrorVars(Show)
=============================================================================
