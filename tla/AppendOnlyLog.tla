---------------------------- MODULE AppendOnlyLog ----------------------------
(* What RunEventStore and ProcessOutputStore promise their readers: the k-th *)
(* entry has the number k, entries are added at the end, and none is changed *)
(* or taken away.                                                            *)
EXTENDS Naturals, Sequences

VARIABLE log   \* the numbers of the entries that a reader is shown

Init == log = <<>>
Add  == log' = Append(log, Len(log) + 1)
Spec == Init /\ [][Add]_log
=============================================================================
