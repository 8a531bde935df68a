---------------------------- MODULE AgentSessions ----------------------------
(***************************************************************************)
(* The developer and QA callbacks that _default_web_loop of web.py gives   *)
(* the loop, with the session ledger of services/agent_sessions.py: which  *)
(* session of the agent program an attempt opens, resumes or does without. *)
(*                                                                         *)
(* The developer keeps one session per Run, QA never has one.  Workers of  *)
(* one Run follow each other, or overlap where WebAgentLoop shows how; all *)
(* of them rewrite the ledger through one temporary name.                  *)
(*                                                                         *)
(* Abstracted: the prompt and the Diff; the checker between the two; the   *)
(* entry that QA adds to the ledger, which nothing reads.                  *)
(***************************************************************************)
EXTENDS Naturals

CONSTANTS
  Workers,      \* worker threads of one Run
  MaxAttempts,  \* bound: attempts of a worker
  MaxSessions   \* bound: ids of sessions

ASSUME SessionAssumption == MaxAttempts \in Nat \ {0} /\ MaxSessions \in Nat \ {0}

VARIABLES
  codex,      \* the provider is Codex, which names its sessions itself
  ledger,     \* the developer's entry in the ledger file
  tmp,        \* the same in the file with the temporary name
  named,      \* ids that the ledger has held so far
  issued,     \* ids handed out so far
  agent,      \* where each worker is
  then,       \* where it goes on after the ledger
  held,       \* the entry it has read, or will write
  fd,         \* the file it is writing: tmp, ledger, or lost
  attempts,   \* attempts that each worker has begun
  overlapped  \* two workers have been at work at the same time

sesVars == <<codex, ledger, tmp, named, issued, agent, then, held, fd, attempts, overlapped>>
files   == <<ledger, tmp, named, fd>>

-----------------------------------------------------------------------------
NoId == 0
Ids  == 1 .. MaxSessions
Session == [mode : {"new", "degraded"}, id : Ids \cup {NoId}]
No(what) == [mode |-> what, id |-> NoId]
Absent   == No("absent")    \* no ledger, or no entry in it
Degraded == No("degraded")
Unreadable == {No("empty"), No("broken")}

At(w, l) == agent' = [agent EXCEPT ![w] = l]

SesInit ==
  /\ codex \in BOOLEAN
  /\ ledger = Absent
  /\ tmp = No("none")
  /\ named = {}
  /\ issued = 0
  /\ agent = [w \in Workers |-> "idle"]
  /\ then = [w \in Workers |-> "idle"]
  /\ held = [w \in Workers |-> Absent]
  /\ fd = [w \in Workers |-> "lost"]
  /\ attempts = [w \in Workers |-> 0]
  /\ overlapped = FALSE

-----------------------------------------------------------------------------
(* SessionLedger. *)

\* load: a file that is not JSON counts as an empty ledger.
Loaded == IF ledger \in Unreadable THEN Absent ELSE ledger

Named(entry) == IF entry.id = NoId THEN named ELSE named \cup {entry.id}

\* record writes the temporary file and renames it; l is where it returns to.
Record(w, entry, l) ==
  /\ held' = [held EXCEPT ![w] = entry]
  /\ then' = [then EXCEPT ![w] = l]
  /\ At(w, "write")

OpenTemporary(w) ==
  /\ agent[w] = "write"
  /\ tmp' = No("empty")
  /\ fd' = [fd EXCEPT ![w] = "tmp"]
  /\ At(w, "fill")
  /\ UNCHANGED <<codex, ledger, named, issued, then, held, attempts, overlapped>>

\* The text of another writer, if longer, shows behind this one's.
Filled(text, entry) ==
  IF text = No("empty") THEN {entry} ELSE {entry, No("broken")}

Fill(w) ==
  /\ agent[w] = "fill"
  /\ CASE fd[w] = "tmp"    -> tmp' \in Filled(tmp, held[w]) /\ UNCHANGED <<ledger, named>>
       [] fd[w] = "ledger" -> ledger' \in Filled(ledger, held[w]) /\ named' = Named(ledger')
                              /\ UNCHANGED tmp
       [] OTHER            -> UNCHANGED <<ledger, tmp, named>>
  /\ At(w, "replace")
  /\ UNCHANGED <<codex, issued, then, held, fd, attempts, overlapped>>

\* The rename takes the file along: whoever has it open writes the ledger.
Replace(w) ==
  /\ agent[w] = "replace" /\ tmp # No("none")
  /\ ledger' = tmp
  /\ named' = Named(tmp)
  /\ tmp' = No("none")
  /\ fd' = [v \in Workers |-> IF fd[v] = "tmp" THEN "ledger" ELSE "lost"]
  /\ At(w, then[w])
  /\ UNCHANGED <<codex, issued, then, held, attempts, overlapped>>

\* The disk is full, or another worker has renamed the file: the callback
\* raises, and the worker is over.
RecordFails(w) ==
  /\ \/ agent[w] \in {"write", "fill"}
     \/ agent[w] = "replace" /\ tmp = No("none")
  /\ At(w, "idle")
  /\ UNCHANGED <<codex, files, issued, then, held, attempts, overlapped>>

-----------------------------------------------------------------------------
(* The developer. *)

\* An entry without an id is a recorded degradation.
NextCall ==
  CASE Loaded = Absent -> IF codex THEN "open" ELSE "note"
    [] Loaded # Absent /\ Loaded.id = NoId -> "fresh"
    [] OTHER -> "resume"

Attempt(w) ==
  /\ agent[w] = "idle" /\ attempts[w] < MaxAttempts
  /\ attempts' = [attempts EXCEPT ![w] = @ + 1]
  /\ overlapped' = (overlapped \/ \E v \in Workers \ {w} : agent[v] # "idle")
  /\ At(w, NextCall)
  /\ held' = [held EXCEPT ![w] = Loaded]
  /\ UNCHANGED <<codex, files, issued, then>>

\* Codex: the call opens a session and names it, unless the answer does not
\* say; a call that raises leaves no entry.
OpenSession(w) ==
  /\ agent[w] = "open" /\ issued < MaxSessions
  /\ issued' = issued + 1
  /\ \/ \E id \in {NoId, issued + 1} : Record(w, [mode |-> "new", id |-> id], "qa")
     \/ At(w, "idle") /\ UNCHANGED <<then, held>>
  /\ UNCHANGED <<codex, files, attempts, overlapped>>

\* The others: the id is made up and recorded before the call.
NoteNew(w) ==
  /\ agent[w] = "note" /\ issued < MaxSessions
  /\ issued' = issued + 1
  /\ Record(w, [mode |-> "new", id |-> issued + 1], "new")
  /\ UNCHANGED <<codex, files, attempts, overlapped>>

\* Slip: what cannot be resumed is recorded after the fresh call.
ResumeFirst(w) ==
  /\ agent[w] = "resume"
  /\ At(w, "qa") \/ At(w, "fresh")
  /\ UNCHANGED <<codex, files, issued, then, held, attempts, overlapped>>
\* A session that cannot be resumed is recorded as lost; the id may be wrong,
\* or the program have forgotten it.
Resume(w) ==
  /\ agent[w] = "resume"
  /\ \/ At(w, "qa") /\ UNCHANGED <<then, held>>
     \/ Record(w, Degraded, "fresh")
  /\ UNCHANGED <<codex, files, issued, attempts, overlapped>>

\* A call with the new session, or with none: it answers or raises.
CallAgent(w) ==
  /\ agent[w] \in {"new", "fresh"}
  /\ \E l \in {"qa", "idle"} : At(w, l)
  /\ UNCHANGED <<codex, files, issued, then, held, attempts, overlapped>>

-----------------------------------------------------------------------------
(* QA: its record reads the ledger, adds its entry and writes the rest back. *)

\* Slip: the entry of QA is written alone.
QaRecordAlone(w) ==
  /\ agent[w] = "qa"
  /\ Record(w, Absent, "qaCall")
  /\ UNCHANGED <<codex, files, issued, attempts, overlapped>>
QaRecord(w) ==
  /\ agent[w] = "qa"
  /\ Record(w, Loaded, "qaCall")
  /\ UNCHANGED <<codex, files, issued, attempts, overlapped>>

QaCall(w) ==
  /\ agent[w] = "qaCall"
  /\ At(w, "idle")
  /\ UNCHANGED <<codex, files, issued, then, held, attempts, overlapped>>

SesNext == \E w \in Workers :
  \/ Attempt(w) \/ OpenSession(w) \/ NoteNew(w) \/ Resume(w) \/ CallAgent(w) \/ QaRecord(w) \/ QaCall(w)
  \/ OpenTemporary(w) \/ Fill(w) \/ Replace(w) \/ RecordFails(w)

SesSpec == SesInit /\ [][SesNext]_sesVars

-----------------------------------------------------------------------------
SesTypeOK ==
  /\ ledger \in Session \cup {Absent} \cup Unreadable
  /\ tmp \in Session \cup {Absent, No("none")} \cup Unreadable
  /\ held \in [Workers -> Session \cup {Absent}]
  /\ named \subseteq Ids /\ issued \in 0 .. MaxSessions
  /\ agent \in [Workers -> {"idle", "open", "note", "new", "fresh", "resume", "qa", "qaCall",
                            "write", "fill", "replace"}]

\* "Degradation to a fresh session is always recorded, never silent": of
\* workers that follow each other, each attempt with its own exceptions, none
\* opens a session when the Run has had one, and none calls the agent without
\* a session unless the ledger says so.
DegradationRecorded ==
  /\ SesTypeOK
  /\ ~overlapped =>
       \A w \in Workers :
         /\ agent[w] \in {"open", "note"} => named = {}
         /\ agent[w] = "fresh" => ledger.mode \in {"new", "degraded"} /\ ledger.id = NoId
=============================================================================
