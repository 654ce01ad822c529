----------------------------- MODULE MCReminders -----------------------------
(* Reminders for TLC: all the recipients are of one company, the other has *)
(* its day to claim, in a database of its own or in the same.              *)
EXTENDS Reminders

CONSTANTS c1, c2
MCHome == [u \in Users |-> c1]
OwnDatabases == [c \in Companies |-> c]
OneDatabase == [c \in Companies |-> c1]
=============================================================================
