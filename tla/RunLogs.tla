------------------------------- MODULE RunLogs -------------------------------
(***************************************************************************)
(* events.jsonl of services/run_events.py and the process output of        *)
(* services/process_output.py: two line files of one Run, to which the     *)
(* threads of the service append, each file under a lock of the process.   *)
(*                                                                         *)
(* The number of an entry is one more than what a read of the file finds.  *)
(* The events are read strictly: a line that is not entry k at place k     *)
(* makes every reader raise.  The output is read leniently: such a line is *)
(* skipped.  A line lacks its newline when the process or the disk gave up *)
(* within the write: torn in the middle of its JSON, unended after it, and *)
(* broken in the middle of a character, which no reader of the file can    *)
(* decode.  splitlines cuts a line in two when its text has a line         *)
(* separator that JSON does not escape (U+0085, U+2028, U+2029).           *)
(***************************************************************************)
EXTENDS Naturals, Sequences, FiniteSets

CONSTANTS
  Writers,   \* appends, each by a thread of the service
  MaxStops   \* bound: restarts of the service and writes cut short

ASSUME LogAssumption == "nobody" \notin Writers /\ MaxStops \in Nat

VARIABLES
  lines,     \* lines[s]: the lines of file s
  holder,    \* holder[s]: who has the lock of s
  writer,    \* where each append is
  goal,      \* the file it writes to
  number,    \* the number it has drawn
  stops

logVars == <<lines, holder, writer, goal, number, stops>>

-----------------------------------------------------------------------------
Stores == {"events", "output"}
Line(n, text) == [n |-> n, text |-> text]
Good(line)  == line.text \in {"whole", "unended"}
Finished(line) == line.text = "whole"
Ends == {"torn", "unended", "broken"}    \* of a file whose last newline is missing

LogInit ==
  /\ lines = [s \in Stores |-> <<>>]
  /\ holder = [s \in Stores |-> "nobody"]
  /\ writer = [w \in Writers |-> "new"]
  /\ goal \in [Writers -> Stores]
  /\ number = [w \in Writers |-> 0]
  /\ stops = 0

GoodAt(file) == {j \in DOMAIN file : Good(file[j])}
DoneAt(file) == {j \in DOMAIN file : Finished(file[j])}
Rank(D, j)   == Cardinality({i \in D : i <= j})
\* The numbers of the entries that are finished, in the order of the file.
Kept(file) == LET D == DoneAt(file) IN
                [k \in 1..Cardinality(D) |-> file[CHOOSE j \in D : Rank(D, j) = k].n]
Malformed(file) == \E k \in DOMAIN file : ~Good(file[k]) \/ file[k].n # k
Undecodable(file) == \E k \in DOMAIN file : file[k].text = "broken"
Raises(s) == Undecodable(lines[s]) \/ (s = "events" /\ Malformed(lines[s]))

-----------------------------------------------------------------------------
Lock(w) ==
  /\ writer[w] = "new" /\ holder[goal[w]] = "nobody"
  /\ holder' = [holder EXCEPT ![goal[w]] = w]
  /\ writer' = [writer EXCEPT ![w] = "read"]
  /\ UNCHANGED <<lines, goal, number, stops>>

Unlock(w, l) == holder' = [holder EXCEPT ![goal[w]] = "nobody"] /\ writer' = [writer EXCEPT ![w] = l]

\* Slip: the lines of the file are counted, whether they parse or not.
DrawLines(w) ==
  /\ writer[w] = "read" /\ ~Raises(goal[w])
  /\ number' = [number EXCEPT ![w] = Len(lines[goal[w]]) + 1]
  /\ writer' = [writer EXCEPT ![w] = "write"]
  /\ UNCHANGED <<lines, holder, goal, stops>>
Draw(w) ==
  /\ writer[w] = "read" /\ ~Raises(goal[w])
  /\ number' = [number EXCEPT ![w] = Cardinality(GoodAt(lines[goal[w]])) + 1]
  /\ writer' = [writer EXCEPT ![w] = "write"]
  /\ UNCHANGED <<lines, holder, goal, stops>>

DrawRaises(w) ==
  /\ writer[w] = "read" /\ Raises(goal[w])
  /\ Unlock(w, "error")
  /\ UNCHANGED <<lines, goal, number, stops>>

\* A last line without its end is continued by what is written next, and has its
\* end only if that has one.
Continue(file, new) ==
  LET last == file[Len(file)].text
      text == IF "broken" \in {last, new.text} THEN "broken"
              ELSE IF new.text \in Ends THEN "torn" ELSE "spoiled"
  IN IF file # <<>> /\ last \in Ends
       THEN [file EXCEPT ![Len(file)] = [new EXCEPT !.text = text]]
       ELSE Append(file, new)
\* The part of a line before its separator.
Halved(file, n) == Continue(file, Line(n, "spoiled"))

Written(file, n) == {Continue(file, Line(n, "whole")),
                     Continue(Halved(file, n), Line(n, "spoiled"))}
CutShort(file, n) == {Continue(file, Line(n, text)) : text \in Ends}
                     \cup {Continue(Halved(file, n), Line(n, text)) : text \in {"torn", "broken"}}

WriteLine(w) ==
  /\ writer[w] = "write"
  /\ \E file \in Written(lines[goal[w]], number[w]) : lines' = [lines EXCEPT ![goal[w]] = file]
  /\ Unlock(w, "done")
  /\ UNCHANGED <<goal, number, stops>>

\* The disk is full in the middle of the line.
WriteCut(w) ==
  /\ writer[w] = "write" /\ stops < MaxStops
  /\ stops' = stops + 1
  /\ \E file \in CutShort(lines[goal[w]], number[w]) : lines' = [lines EXCEPT ![goal[w]] = file]
  /\ Unlock(w, "error")
  /\ UNCHANGED <<goal, number>>

\* The service stops, perhaps in the middle of lines, and is started again.
Left(s) == {lines[s]} \cup UNION {CutShort(lines[s], number[w]) :
             w \in {v \in Writers : writer[v] = "write" /\ goal[v] = s}}
ServiceStops ==
  /\ stops < MaxStops
  /\ stops' = stops + 1
  /\ \E e \in Left("events"), o \in Left("output") :
       lines' = [s \in Stores |-> IF s = "events" THEN e ELSE o]
  /\ holder' = [s \in Stores |-> "nobody"]
  /\ writer' = [w \in Writers |-> IF writer[w] \in {"read", "write"} THEN "error" ELSE writer[w]]
  /\ UNCHANGED <<goal, number>>

LogNext ==
  \/ \E w \in Writers : Lock(w) \/ Draw(w) \/ DrawRaises(w) \/ WriteLine(w) \/ WriteCut(w)
  \/ ServiceStops

LogSpec == LogInit /\ [][LogNext]_logVars

-----------------------------------------------------------------------------
LogTypeOK ==
  /\ lines \in [Stores -> Seq([n : Nat, text : Ends \cup {"whole", "spoiled"}])]
  /\ holder \in [Stores -> Writers \cup {"nobody"}]
  /\ writer \in [Writers -> {"new", "read", "write", "done", "error"}]
  /\ goal \in [Writers -> Stores]
  /\ number \in [Writers -> Nat]
  /\ stops \in 0 .. MaxStops

\* Concurrent appends alone never make the events unreadable: it takes a line
\* that was cut short or cut in two.
EventsReadable ==
  Raises("events") => \E k \in DOMAIN lines["events"] : ~Good(lines["events"][k])

\* Nothing is added to a file that its readers refuse.
RefusedIsLeft == [][\A s \in Stores : Raises(s) => lines'[s] = lines[s]]_logVars

Events == INSTANCE AppendOnlyLog WITH log <- Kept(lines["events"])
Output == INSTANCE AppendOnlyLog WITH log <- Kept(lines["output"])

\* The entries of either file that are finished are an append-only log numbered
\* from one, whatever is cut short, more than once, cut in two or raised.  One
\* can read the events unless something was cut, and a file that its readers
\* refuse, for a character cut in two for instance, stays as it is.
LogsRefine == /\ Events!Spec /\ Output!Spec
              /\ [](LogTypeOK /\ EventsReadable)
              /\ RefusedIsLeft
=============================================================================
