----------------------------- MODULE MCDeadlines ----------------------------
(* Small instances of Deadlines for TLC. *)
EXTENDS Deadlines, TLC

(* The first reminder one tick before the due time, the next at it. *)
MCOffset == [r \in 1..NReminders |-> r - 2]
=============================================================================
