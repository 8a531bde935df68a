------------------------- MODULE MCTicketController -------------------------
(* TicketController for TLC: Runs 1 and 2 are about one issue, 3 is about    *)
(* another.  An operator who gives one command at a time has two Runs, of one *)
(* issue or of two, and a fault, so that the process id of a Run that crashed *)
(* goes to the other; one whose commands overlap has one Run and two faults.  *)
EXTENDS TicketController

CONSTANTS c1, c2

MCIssueOf == [r \in Runs |-> IF r = 3 THEN "other" ELSE "issue"]

Serial ==
  [runs |-> {1, 2}, commands |-> {c1}, overlap |-> FALSE, faults |-> 1]
Overlapping ==
  [runs |-> {1}, commands |-> {c1, c2}, overlap |-> TRUE, faults |-> 2]

Reused == [Serial EXCEPT !.runs = {1, 3}]

All    == {Serial, Reused, Overlapping}
OneRun == {[Serial EXCEPT !.runs = {1}]}
=============================================================================
