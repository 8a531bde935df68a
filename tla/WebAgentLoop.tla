---------------------------- MODULE WebAgentLoop ----------------------------
(***************************************************************************)
(* The Developer -> checks -> QA loop of services/web_agent_loop.py,       *)
(* together with the RunRecord writes of services/run_manager.py that it   *)
(* makes.  A thread is one HTTP request and, for a start or a retry, the   *)
(* daemon worker thread that the request spawns: the request ends where    *)
(* the worker begins, so one program counter serves both.                  *)
(*                                                                         *)
(* Every file write is a step of its own.  What a thread has loaded (mem)  *)
(* is distinct from what is on disk (snap), because the code loads the     *)
(* snapshot once and writes it back whole.                                 *)
(*                                                                         *)
(* Abstracted: the "state" field of the snapshot (the stage a worker is    *)
(* in, which pc shows), findings, process identities and hashes, and the   *)
(* progress events no decision reads.                                      *)
(***************************************************************************)
EXTENDS Naturals, Sequences, FiniteSets

CONSTANTS
  Starters,       \* requests POST run: each may create the Run it names
  Retriers,       \* requests POST retry
  Stoppers,       \* requests POST stop
  Owners,         \* requests POST owner-action
  Mixes,          \* bound: sets of requests that may arrive together
  Issues,         \* Plane issue keys
  MaxQaAttempts,  \* MAX_QA_ATTEMPTS, 5 in the code
  MaxFaults,      \* bound: exceptions out of file writes or event appends
  MaxCrashes,     \* bound: restarts of the service
  Free            \* the holder of a lock nobody holds

Runs    == Starters
Threads == Starters \cup Retriers \cup Stoppers \cup Owners

ASSUME ThreadAssumption ==
  /\ Free \notin Threads
  /\ Starters \cap Retriers = {}
  /\ Starters \cap Stoppers = {}
  /\ Starters \cap Owners = {}
  /\ Retriers \cap Stoppers = {}
  /\ Retriers \cap Owners = {}
  /\ Stoppers \cap Owners = {}
ASSUME BoundAssumption ==
  /\ Mixes \subseteq SUBSET Threads
  /\ MaxQaAttempts \in Nat \ {0}
  /\ MaxFaults \in Nat
  /\ MaxCrashes \in Nat

VARIABLES
  record,       \* record[r]: RunRecord.state in <run>/state.json
  snap,         \* snap[r]: <run>/web-agent-loop-state-v1.json
  verdictFiles, \* verdictFiles[r][n]: <run>/qa-verdict-NN.json
  announced,    \* announced[r]: final statuses that events.jsonl reports
  audit,        \* audit[r]: owner actions that events.jsonl reports
  content,      \* content[r]: version of the files in the Run's worktree
  commits,      \* commits[r]: versions committed on the Run's branch
  approved,     \* history: versions that a valid QA PASS is about
  lock,         \* holder of the class-level WebAgentLoop._lock
  context,      \* context[r]: _prompts holds the Run's prompts
  stopFlag,     \* stopFlag[r]: _stop_events[r] is set
  registered,   \* registered[r]: _process_groups[r] is known
  pc,           \* pc[t]: where thread t is
  mem,          \* mem[t]: the snapshot that t has loaded
  reviewed,     \* reviewed[t]: the version whose diff t's checker returned
  outer,        \* outer[t]: t is in the outermost except clause of _run
  issueOf,      \* issueOf[r]: the issue a start request names
  target,       \* target[t]: the Run a request names
  faults, crashes

files   == <<record, snap, verdictFiles, announced, audit>>
git     == <<content, commits, approved>>
memory  == <<lock, context, stopFlag, registered>>
threads == <<pc, mem, reviewed, outer>>
params  == <<issueOf, target>>
budget  == <<faults, crashes>>
vars    == <<files, git, memory, threads, params, budget>>

-----------------------------------------------------------------------------
(* Statuses and the snapshot file. *)

\* Slip: any Run that is not running may be retried.
RetryableWhenIdle == {"HARD_BREAK", "BLOCKED", "QA_EXHAUSTED", "PASS"}
Retryable == {"HARD_BREAK", "BLOCKED", "QA_EXHAUSTED"}
Final     == Retryable \cup {"PASS", "STOPPED"}
Verdicts  == {"PASS", "FAIL", "BLOCKED"}
Attempts  == 1..MaxQaAttempts

RecordStates == {"NONE", "CREATED", "ACTIVE"} \cup Final

QaRecord == [attempt : Attempts, verdict : Verdicts]
Snapshot == [status   : {"NONE", "ACTIVE"} \cup Final,
             attempt  : 0..MaxQaAttempts,
             verdicts : Seq(QaRecord),
             commit   : BOOLEAN,
             owners   : SUBSET Owners]

NoSnapshot == [status |-> "NONE", attempt |-> 0, verdicts |-> <<>>,
               commit |-> FALSE, owners |-> {}]
InitialState == [NoSnapshot EXCEPT !.status = "ACTIVE"]

\* Slip: everything but a FAIL goes on to the commit.
AcceptsUnlessFail(v) == v # "FAIL"
Accepts(v) == v = "PASS"

\* Slip: a retry writes a fresh snapshot instead of updating the old one.
ReactivatedFresh(s) == InitialState
Reactivated(s) == [s EXCEPT !.status = "ACTIVE"]

LastVerdict(s) == IF s.verdicts = <<>> THEN "NONE"
                  ELSE s.verdicts[Len(s.verdicts)].verdict

HandlerPcs == {"activate", "snapshot", "spawn", "retrySave", "retryRecord",
               "retrySpawn", "stopKill", "stopSave", "stopRecord",
               "stopEvent", "ownerSave", "ownerEvent"}
BodyPcs    == {"first", "top", "saveDev", "develop", "saveVer", "check",
               "saveQa", "qa", "recordVerdict", "commit", "saveFail"}
FinishPcs  == {"finSave", "finRecord", "finEvent"}
EndPcs     == {"done", "dead"}
LockPcs    == {"activate", "snapshot", "spawn", "retrySave", "retryRecord",
               "retrySpawn"}
Pcs        == {"new", "load"} \cup HandlerPcs \cup BodyPcs \cup FinishPcs
                \cup EndPcs

-----------------------------------------------------------------------------
(* Helpers of the handlers and of the worker. *)

Goto(t, label) == pc' = [pc EXCEPT ![t] = label]

\* A thread that ends takes its locals with it.
End(t, label) == /\ Goto(t, label)
                 /\ mem' = [mem EXCEPT ![t] = NoSnapshot]
                 /\ reviewed' = [reviewed EXCEPT ![t] = 0]
                 /\ outer' = [outer EXCEPT ![t] = FALSE]

\* _save: the whole of what t holds replaces the file.
Save(t) == snap' = [snap EXCEPT ![target[t]] = mem[t]]

\* update_state: the RunRecord is reloaded, its state replaced and written.
UpdateState(r, s) == record' = [record EXCEPT ![r] = s]

\* state.update(...) with a final status; the writes follow, one by one.
Finish(t, s) == /\ mem' = [mem EXCEPT ![t].status = s]
                /\ Goto(t, "finSave")

\* _active_for: another Run of the issue has an ACTIVE RunRecord.
ActiveFor(i) == \E r \in Runs : issueOf[r] = i /\ record[r] = "ACTIVE"

\* Slip: lock.acquire() without a with-block, and no release.
KeepLock(t) == lock' = lock
Release(t) == lock' = IF lock = t THEN Free ELSE lock

-----------------------------------------------------------------------------
(* The steps that handlers and workers share: a thread at one place does   *)
(* one thing and is at the next.                                           *)

\* Nothing is left to do: an early return.
Leave(t, from) ==
  /\ pc[t] = from
  /\ End(t, "done")
  /\ UNCHANGED <<files, git, memory, params, budget>>

\* The thread's copy of the snapshot is (re)placed.
LoadStep(t, from, to, s) ==
  /\ pc[t] = from
  /\ mem' = [mem EXCEPT ![t] = s]
  /\ Goto(t, to)
  /\ UNCHANGED <<files, git, memory, reviewed, outer, params, budget>>

SaveStep(t, from, to) ==
  /\ pc[t] = from
  /\ Save(t)
  /\ Goto(t, to)
  /\ UNCHANGED <<record, verdictFiles, announced, audit, git, memory, mem,
                 reviewed, outer, params, budget>>

RecordStep(t, from, to, s) ==
  /\ pc[t] = from
  /\ UpdateState(target[t], s)
  /\ Goto(t, to)
  /\ UNCHANGED <<snap, verdictFiles, announced, audit, git, memory, mem,
                 reviewed, outer, params, budget>>

\* The event of a final status, the last thing its thread does.
EventStep(t, from, s) ==
  /\ pc[t] = from
  /\ announced' = [announced EXCEPT ![target[t]] = @ \cup {s}]
  /\ End(t, "done")
  /\ UNCHANGED <<record, snap, verdictFiles, audit, git, memory, params,
                 budget>>

\* Nothing but the decision for a final status.
FinishStep(w, from, s) ==
  /\ pc[w] = from
  /\ Finish(w, s)
  /\ UNCHANGED <<files, git, memory, reviewed, outer, params, budget>>

-----------------------------------------------------------------------------
Init ==
  /\ record = [r \in Runs |-> "NONE"]
  /\ snap = [r \in Runs |-> NoSnapshot]
  /\ verdictFiles = [r \in Runs |-> [n \in Attempts |-> "NONE"]]
  /\ announced = [r \in Runs |-> {}]
  /\ audit = [r \in Runs |-> {}]
  /\ content = [r \in Runs |-> 0]
  /\ commits = [r \in Runs |-> {}]
  /\ approved = [r \in Runs |-> {}]
  /\ lock = Free
  /\ context = [r \in Runs |-> FALSE]
  /\ stopFlag = [r \in Runs |-> FALSE]
  /\ registered = [r \in Runs |-> FALSE]
  /\ \E m \in Mixes : pc = [t \in Threads |-> IF t \in m THEN "new" ELSE "done"]
  /\ mem = [t \in Threads |-> NoSnapshot]
  /\ reviewed = [t \in Threads |-> 0]
  /\ outer = [t \in Threads |-> FALSE]
  /\ issueOf \in [Runs -> Issues]
  /\ target \in {f \in [Threads -> Runs] : \A r \in Runs : f[r] = r}
  /\ faults = 0
  /\ crashes = 0

-----------------------------------------------------------------------------
(* start: everything happens under the lock. *)

StartRefused(q) == lock = Free /\ ActiveFor(issueOf[q]) /\ Leave(q, "new")

\* Slip: check, create and activate without the lock.
StartCreateUnlocked(q) ==
  /\ pc[q] = "new"
  /\ ~ActiveFor(issueOf[q])
  /\ UpdateState(q, "CREATED")
  /\ Goto(q, "activate")
  /\ UNCHANGED <<snap, verdictFiles, announced, audit, git, memory, mem,
                 reviewed, outer, params, budget>>

\* The check and create_run: artifact directory, worktree, CREATED RunRecord.
StartCreate(q) ==
  /\ pc[q] = "new"
  /\ lock = Free
  /\ ~ActiveFor(issueOf[q])
  /\ lock' = q
  /\ UpdateState(q, "CREATED")
  /\ Goto(q, "activate")
  /\ UNCHANGED <<snap, verdictFiles, announced, audit, git, context, stopFlag,
                 registered, mem, reviewed, outer, params, budget>>

StartActivate(q) ==
  /\ pc[q] = "activate"
  /\ UpdateState(q, "ACTIVE")
  /\ context' = [context EXCEPT ![q] = TRUE]
  /\ stopFlag' = [stopFlag EXCEPT ![q] = FALSE]
  /\ mem' = [mem EXCEPT ![q] = InitialState]
  /\ Goto(q, "snapshot")
  /\ UNCHANGED <<snap, verdictFiles, announced, audit, git, lock, registered,
                 reviewed, outer, params, budget>>

StartSnapshot(q) == SaveStep(q, "snapshot", "spawn")

\* Two progress events, thread.start(), and the with-block ends.
StartSpawn(q) ==
  /\ pc[q] = "spawn"
  /\ Release(q)
  /\ mem' = [mem EXCEPT ![q] = NoSnapshot]
  /\ Goto(q, "load")
  /\ UNCHANGED <<files, git, context, stopFlag, registered, reviewed, outer,
                 params, budget>>

-----------------------------------------------------------------------------
(* retry_current_stage: also under the lock, but the worker and the        *)
(* unlocked handlers still write the same files.                           *)

\* Slip: eligible while the Run is still ACTIVE.
RetryEligibleActive(q) ==
  /\ snap[target[q]].status \in Retryable \cup {"ACTIVE"}
  /\ context[target[q]]
RetryEligible(q) == /\ snap[target[q]].status \in Retryable
                    /\ context[target[q]]

RetryRefused(q) == lock = Free /\ ~RetryEligible(q) /\ Leave(q, "new")

RetryLoad(q) ==
  /\ pc[q] = "new"
  /\ lock = Free
  /\ RetryEligible(q)
  /\ lock' = q
  /\ mem' = [mem EXCEPT ![q] = Reactivated(snap[target[q]])]
  /\ Goto(q, "retrySave")
  /\ UNCHANGED <<files, git, context, stopFlag, registered, reviewed, outer,
                 params, budget>>

RetrySave(q) == SaveStep(q, "retrySave", "retryRecord")
RetryRecord(q) == RecordStep(q, "retryRecord", "retrySpawn", "ACTIVE")

\* The retry_requested event, a fresh stop event, a fresh worker thread.
RetrySpawn(q) ==
  /\ pc[q] = "retrySpawn"
  /\ stopFlag' = [stopFlag EXCEPT ![target[q]] = FALSE]
  /\ Release(q)
  /\ mem' = [mem EXCEPT ![q] = NoSnapshot]
  /\ Goto(q, "load")
  /\ UNCHANGED <<files, git, context, registered, reviewed, outer,
                 params, budget>>

-----------------------------------------------------------------------------
(* stop: takes no lock. *)

StopRefused(q) == snap[target[q]].status # "ACTIVE" /\ Leave(q, "new")
StopLoad(q) == /\ snap[target[q]].status = "ACTIVE"
               /\ LoadStep(q, "new", "stopKill", snap[target[q]])

\* No verified owned process group, or killpg raises OSError: one event that
\* changes no status, and the request ends.
StopRejected(q) == Leave(q, "stopKill")

StopKill(q) ==
  /\ pc[q] = "stopKill"
  /\ registered[target[q]]
  /\ stopFlag' = [stopFlag EXCEPT ![target[q]] = TRUE]
  /\ mem' = [mem EXCEPT ![q].status = "STOPPED"]
  /\ Goto(q, "stopSave")
  /\ UNCHANGED <<files, git, lock, context, registered, reviewed, outer,
                 params, budget>>

StopSave(q) == SaveStep(q, "stopSave", "stopRecord")
StopRecord(q) == RecordStep(q, "stopRecord", "stopEvent", "STOPPED")
StopEvent(q) == EventStep(q, "stopEvent", "STOPPED")

\* register_owned_process_group, called by whoever launches a child process;
\* only a stop request reads what it leaves.
RegisterOwnedProcessGroup(r) ==
  /\ Stoppers # {}
  /\ record[r] # "NONE"
  /\ ~registered[r]
  /\ registered' = [registered EXCEPT ![r] = TRUE]
  /\ UNCHANGED <<files, git, lock, context, stopFlag, threads, params, budget>>

-----------------------------------------------------------------------------
(* record_owner_action: takes no lock. *)

OwnerRefused(q) == snap[target[q]].status = "NONE" /\ Leave(q, "new")
OwnerLoad(q) ==
  /\ snap[target[q]].status # "NONE"
  /\ LoadStep(q, "new", "ownerSave",
              [snap[target[q]] EXCEPT !.owners = @ \cup {q}])

OwnerSave(q) == SaveStep(q, "ownerSave", "ownerEvent")

OwnerEvent(q) ==
  /\ pc[q] = "ownerEvent"
  /\ audit' = [audit EXCEPT ![target[q]] = @ \cup {q}]
  /\ End(q, "done")
  /\ UNCHANGED <<record, snap, verdictFiles, announced, git, memory, params,
                 budget>>

-----------------------------------------------------------------------------
(* _run: the worker thread. *)

Load(w) == LoadStep(w, "load", "first", snap[target[w]])

\* max(1, qa_attempt) for the first round of a worker, the next one after.
NextAttempt(w) ==
  IF pc[w] = "top" THEN mem[w].attempt + 1
  ELSE IF mem[w].attempt = 0 THEN 1 ELSE mem[w].attempt

\* The only place where a worker looks at its stop event.
LeaveStopped(w) ==
  stopFlag[target[w]] /\ \E from \in {"first", "top"} : Leave(w, from)

BeginAttempt(w) ==
  /\ ~stopFlag[target[w]]
  /\ NextAttempt(w) <= MaxQaAttempts
  /\ \E from \in {"first", "top"} :
       LoadStep(w, from, "saveDev", [mem[w] EXCEPT !.attempt = NextAttempt(w)])

\* The Developer may or may not touch the worktree, and may fail either way.
Develop(w) ==
  /\ pc[w] = "develop"
  /\ \E edits \in 0..1 :
       content' = [content EXCEPT ![target[w]] = @ + edits]
  /\ \/ Goto(w, "saveVer") /\ UNCHANGED mem
     \/ Finish(w, "HARD_BREAK")
  /\ UNCHANGED <<files, commits, approved, memory, reviewed, outer, params,
                 budget>>

\* Evidence is eligible, the paths are safe and the Diff against base is not
\* empty; the Diff that QA will read is the one of this moment.
CheckPassed(w) ==
  /\ pc[w] = "check"
  /\ content[target[w]] # 0
  /\ reviewed' = [reviewed EXCEPT ![w] = content[target[w]]]
  /\ Goto(w, "saveQa")
  /\ UNCHANGED <<files, git, memory, mem, outer, params, budget>>

\* Slip: the canonical reason is stored as the status.
CheckFailedCanonical(w) == FinishStep(w, "check", "DIFF_SPLIT_REQUIRED")
CheckFailed(w) == \E s \in {"HARD_BREAK", "BLOCKED"} : FinishStep(w, "check", s)

\* The QA process raises, or its verdict is malformed or about another attempt.
QaFailed(w) == FinishStep(w, "qa", "HARD_BREAK")

\* A schema-valid verdict of this Run and attempt; a PASS carries complete
\* passing acceptance evidence.
QaVerdict(w) ==
  /\ pc[w] = "qa"
  /\ \E v \in Verdicts :
       /\ mem' = [mem EXCEPT ![w].verdicts =
                    Append(@, [attempt |-> mem[w].attempt, verdict |-> v])]
       /\ approved' = IF v = "PASS"
                      THEN [approved EXCEPT ![target[w]] = @ \cup {reviewed[w]}]
                      ELSE approved
  /\ Goto(w, "recordVerdict")
  /\ UNCHANGED <<files, content, commits, memory, reviewed, outer, params,
                 budget>>

\* Slip: a PASS goes to the commit without a verdict file.
WriteVerdictUnlessPass(w) ==
  verdictFiles' = IF Accepts(LastVerdict(mem[w])) THEN verdictFiles
                  ELSE [verdictFiles EXCEPT
                          ![target[w]][mem[w].attempt] = LastVerdict(mem[w])]
\* qa-verdict-NN.json of the attempt is (over)written.
WriteVerdict(w) ==
  verdictFiles' = [verdictFiles EXCEPT
                     ![target[w]][mem[w].attempt] = LastVerdict(mem[w])]

\* The verdict file is written, then the verdict decides.
RecordVerdict(w) ==
  /\ pc[w] = "recordVerdict"
  /\ WriteVerdict(w)
  /\ \/ /\ LastVerdict(mem[w]) = "BLOCKED"
        /\ Finish(w, "BLOCKED")
     \/ /\ Accepts(LastVerdict(mem[w]))
        /\ Goto(w, "commit")
        /\ UNCHANGED mem
     \/ /\ LastVerdict(mem[w]) = "FAIL"
        /\ mem[w].attempt = MaxQaAttempts
        /\ Finish(w, "QA_EXHAUSTED")
     \/ /\ LastVerdict(mem[w]) = "FAIL"
        /\ mem[w].attempt # MaxQaAttempts
        /\ Goto(w, "saveFail")
        /\ UNCHANGED mem
  /\ UNCHANGED <<record, snap, announced, audit, git, memory, reviewed, outer,
                 params, budget>>

-----------------------------------------------------------------------------
(* _commit: git add, the staged-set comparison, git commit, rev-parse. *)

\* Slip: the error text that _commit returns is taken for a commit.
CommitErrorIgnored(w) == FinishStep(w, "commit", "PASS")

\* git add or git commit fails, or the staged files are not the changed files.
CommitRefused(w) == FinishStep(w, "commit", "BLOCKED")

\* What is committed is the worktree of now; committed files stage nothing.
GitCommit(r) ==
  /\ content[r] \notin commits[r]
  /\ commits' = [commits EXCEPT ![r] = @ \cup {content[r]}]
  /\ UNCHANGED <<content, approved>>

CommitRecorded(w) ==
  /\ pc[w] = "commit"
  /\ GitCommit(target[w])
  /\ mem' = [mem EXCEPT ![w].commit = TRUE, ![w].status = "PASS"]
  /\ Goto(w, "finSave")
  /\ UNCHANGED <<files, memory, reviewed, outer, params, budget>>

\* The commit is made, but its SHA cannot be read.
CommitUnrecorded(w) ==
  /\ pc[w] = "commit"
  /\ GitCommit(target[w])
  /\ Finish(w, "BLOCKED")
  /\ UNCHANGED <<files, memory, reviewed, outer, params, budget>>

-----------------------------------------------------------------------------
(* The last writes of a worker, the same three for every final status. *)

FinSave(w) == SaveStep(w, "finSave", "finRecord")

\* Slip: the snapshot gets the final status, the RunRecord does not.
FinRecordForgotten(w) ==
  /\ pc[w] = "finRecord"
  /\ Goto(w, "finEvent")
  /\ UNCHANGED <<files, git, memory, mem, reviewed, outer, params, budget>>
FinRecord(w) == RecordStep(w, "finRecord", "finEvent", mem[w].status)

FinEvent(w) == EventStep(w, "finEvent", mem[w].status)

-----------------------------------------------------------------------------
(* What can go wrong around the code. *)

\* A write or an event append raises inside _run: the outermost except clause
\* writes HARD_BREAK from what the worker holds; a second exception, or one
\* before the try, ends the thread.
WorkerFault(w) ==
  /\ pc[w] \in {"load"} \cup BodyPcs \cup FinishPcs
  /\ faults < MaxFaults
  /\ faults' = faults + 1
  /\ \/ /\ pc[w] = "load" \/ outer[w]
        /\ End(w, "dead")
     \/ /\ pc[w] # "load" /\ ~outer[w]
        /\ Finish(w, "HARD_BREAK")
        /\ outer' = [outer EXCEPT ![w] = TRUE]
        /\ UNCHANGED reviewed
  /\ UNCHANGED <<files, git, memory, params, crashes>>

\* The same in a handler: the request answers 500, the with-block is left.
HandlerFault(q) ==
  /\ pc[q] \in HandlerPcs
  /\ faults < MaxFaults
  /\ faults' = faults + 1
  /\ Release(q)
  /\ End(q, "dead")
  /\ UNCHANGED <<files, git, context, stopFlag, registered, params, crashes>>

\* The service process ends and is started again: daemon threads, requests in
\* flight and everything in memory are gone, the files stay.
Crash ==
  /\ crashes < MaxCrashes
  /\ crashes' = crashes + 1
  /\ pc' = [t \in Threads |-> IF pc[t] \in {"new"} \cup EndPcs
                              THEN pc[t] ELSE "dead"]
  /\ lock' = Free
  /\ context' = [r \in Runs |-> FALSE]
  /\ stopFlag' = [r \in Runs |-> FALSE]
  /\ registered' = [r \in Runs |-> FALSE]
  /\ mem' = [t \in Threads |-> NoSnapshot]
  /\ reviewed' = [t \in Threads |-> 0]
  /\ outer' = [t \in Threads |-> FALSE]
  /\ UNCHANGED <<files, git, params, faults>>

\* Every request was answered and every worker has ended.
Quiescent ==
  /\ \A t \in Threads : pc[t] \in EndPcs
  /\ UNCHANGED vars

-----------------------------------------------------------------------------
Start(q) == \/ StartRefused(q) \/ StartCreate(q) \/ StartActivate(q)
            \/ StartSnapshot(q) \/ StartSpawn(q)
Retry(q) == \/ RetryRefused(q) \/ RetryLoad(q) \/ RetrySave(q)
            \/ RetryRecord(q) \/ RetrySpawn(q)
Stop(q)  == \/ StopRefused(q) \/ StopLoad(q) \/ StopRejected(q) \/ StopKill(q)
            \/ StopSave(q) \/ StopRecord(q) \/ StopEvent(q)
Owner(q) == OwnerRefused(q) \/ OwnerLoad(q) \/ OwnerSave(q) \/ OwnerEvent(q)

\* The saves in the loop only move the "state" field, but write all of mem[w].
Worker(w) ==
  \/ Load(w) \/ LeaveStopped(w) \/ BeginAttempt(w)
  \/ SaveStep(w, "saveDev", "develop") \/ Develop(w)
  \/ SaveStep(w, "saveVer", "check") \/ CheckPassed(w) \/ CheckFailed(w)
  \/ SaveStep(w, "saveQa", "qa") \/ QaFailed(w) \/ QaVerdict(w)
  \/ RecordVerdict(w) \/ SaveStep(w, "saveFail", "top")
  \/ CommitRefused(w) \/ CommitRecorded(w) \/ CommitUnrecorded(w)
  \/ FinSave(w) \/ FinRecord(w) \/ FinEvent(w)

Handler == \/ \E q \in Starters : Start(q)
           \/ \E q \in Retriers : Retry(q)
           \/ \E q \in Stoppers : Stop(q)
           \/ \E q \in Owners : Owner(q)

Next == \/ Handler
        \/ \E w \in Starters \cup Retriers : Worker(w)
        \/ \E r \in Runs : RegisterOwnedProcessGroup(r)
        \/ \E t \in Threads : WorkerFault(t) \/ HandlerFault(t)
        \/ Crash
        \/ Quiescent

Spec == Init /\ [][Next]_vars

\* The operating system schedules every thread, and every agent call returns:
\* the drivers run their children under a timeout.
FairSpec ==
  /\ Spec
  /\ \A w \in Starters \cup Retriers : WF_vars(Worker(w))
  /\ \A q \in Starters : WF_vars(Start(q))
  /\ \A q \in Retriers : WF_vars(Retry(q))
  /\ \A q \in Stoppers : WF_vars(Stop(q))
  /\ \A q \in Owners : WF_vars(Owner(q))

-----------------------------------------------------------------------------
(* Properties. *)

\* Every file, every thread and every counter holds a value the code can write.
TypeOK ==
  /\ record \in [Runs -> RecordStates]
  /\ snap \in [Runs -> Snapshot]
  /\ verdictFiles \in [Runs -> [Attempts -> Verdicts \cup {"NONE"}]]
  /\ announced \in [Runs -> SUBSET Final]
  /\ audit \in [Runs -> SUBSET Owners]
  /\ content \in [Runs -> Nat]
  /\ commits \in [Runs -> SUBSET Nat]
  /\ approved \in [Runs -> SUBSET Nat]
  /\ lock \in Threads \cup {Free}
  /\ context \in [Runs -> BOOLEAN]
  /\ stopFlag \in [Runs -> BOOLEAN]
  /\ registered \in [Runs -> BOOLEAN]
  /\ pc \in [Threads -> Pcs]
  /\ mem \in [Threads -> Snapshot]
  /\ reviewed \in [Threads -> Nat]
  /\ outer \in [Threads -> BOOLEAN]
  /\ issueOf \in [Runs -> Issues]
  /\ target \in [Threads -> Runs]
  /\ \A r \in Runs : target[r] = r
  /\ faults \in 0..MaxFaults
  /\ crashes \in 0..MaxCrashes

\* A snapshot that says PASS records a commit and a QA attempt that passed.
PassEvidence(s) ==
  s.status = "PASS" => /\ s.commit
                       /\ \E i \in DOMAIN s.verdicts :
                            s.verdicts[i].verdict = "PASS"

\* The success a user sees (RunRecord, snapshot or timeline says PASS) always
\* has a Git commit on the Run's branch behind it, and the snapshot holds the
\* verdict that allowed it, whatever stale snapshot a stop, an owner action, a
\* retry, an exception or a restart wrote back in between.
DeliveredIsCommitted ==
  \A r \in Runs :
    /\ PassEvidence(snap[r])
    /\ \/ record[r] = "PASS"
       \/ snap[r].status = "PASS"
       \/ "PASS" \in announced[r]
       => commits[r] # {}

\* Nothing is committed on a Run's branch before QA passed some version of it.
CommitAfterPass == \A r \in Runs : commits[r] # {} => approved[r] # {}

\* What is committed is what QA read: the worktree did not move between the
\* Diff that the checker handed to QA and git add.
CommitsReviewed == \A r \in Runs : commits[r] \subseteq approved[r]

\* A worktree has one worker: no retry starts a second Developer -> QA loop
\* beside one that is still going to use the files.
OneWorkerPerRun ==
  \A v, w \in Starters \cup Retriers :
    /\ target[v] = target[w]
    /\ pc[v] \in BodyPcs \cup {"load"}
    /\ pc[w] \in BodyPcs \cup {"load"}
    => v = w

\* A Run becomes ACTIVE at its start only if no other Run of its issue is
\* ACTIVE at that moment: the check in _active_for still holds two writes later.
StartIsExclusive ==
  [][\A r \in Runs : record[r] = "CREATED" /\ record'[r] = "ACTIVE" =>
       \A o \in Runs \ {r} : issueOf[o] = issueOf[r] => record'[o] # "ACTIVE"
    ]_vars

\* The QA attempts that the snapshot retains are never dropped or rewritten.
QaHistoryKept ==
  [][\A r \in Runs :
       /\ Len(snap[r].verdicts) <= Len(snap'[r].verdicts)
       /\ SubSeq(snap'[r].verdicts, 1, Len(snap[r].verdicts))
            = snap[r].verdicts
    ]_vars

\* Without a failing write, the evidence file of every retained QA attempt is
\* there, and the one of the attempt that a PASS rests on says PASS, although
\* retries repeat attempt numbers and write the same file again.
VerdictFiled ==
  \A r \in Runs :
    /\ snap[r].status = "PASS" => verdictFiles[r][snap[r].attempt] = "PASS"
    /\ \A i \in DOMAIN snap[r].verdicts :
         verdictFiles[r][snap[r].verdicts[i].attempt] # "NONE"

\* Once the snapshot says PASS nothing takes it back: no other worker of the
\* Run is left that could still write its own idea of the Run.
PassIsFinal ==
  [][\A r \in Runs : snap[r].status = "PASS" => snap'[r].status = "PASS"]_vars

\* The branch only ever receives versions that QA accepted while they were
\* the current ones.
Gate == INSTANCE DeliveryGate
          WITH content <- content, approved <- approved, commits <- commits
GateSpec == Gate!Spec

\* An ACTIVE Run comes to an end: attempts are bounded, and each way out of
\* _run writes a final status or leaves the writing to a stop request.
ActiveRunEnds == \A r \in Runs : record[r] = "ACTIVE" ~> record[r] # "ACTIVE"

\* Every request is answered, and the lock that a start or a retry takes never
\* keeps another one out for good.
RequestsAnswered == \A q \in Threads : <>(pc[q] \notin {"new"} \cup HandlerPcs)

-----------------------------------------------------------------------------
(* What the documents say and the code does not do. *)

\* "One repository has at most one active Run" (docs/closed-loop-workflow.md),
\* already for the Runs of one issue: retry does not ask _active_for.
OneActiveRunPerIssue ==
  \A r, o \in Runs : /\ record[r] = "ACTIVE"
                     /\ record[o] = "ACTIVE"
                     /\ issueOf[r] = issueOf[o]
                     => r = o

=============================================================================
