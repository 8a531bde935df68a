# Ticket Autopilot: verification

TLA+ models of Ticket Autopilot (`src/src/ticket_autopilot`), the program that takes a
Plane ticket, lets a Developer agent work on it in a Git worktree of its own, verifies
the result, asks an independent QA agent, repairs at most a few times, and delivers a
commit or a Draft PR. TLC checks the models on small instances; TLAPS proves the safety
properties for every instance. Paths below are relative to
`src/src/ticket_autopilot/` unless they start with `docs/`, `specs/` or `README.md`.

## 1. The system

| Component | State it keeps | Operations | Hard behaviour | What makes it correct |
| --- | --- | --- | --- | --- |
| Web agent loop, `services/web_agent_loop.py` | per Run: RunRecord `state.json`, snapshot `web-agent-loop-state-v1.json`, `qa-verdict-NN.json`, `events.jsonl`; in memory: one class-wide lock, prompts, stop events, process groups | `start`, `retry_current_stage`, `stop`, `record_owner_action`, the worker thread `_run` | HTTP threads and worker threads write whole snapshots that others have overtaken; only `start` and `retry` take the lock; any write may raise; a restart loses the memory and keeps the files | a PASS has a commit and a QA verdict behind it; one worker per worktree; the QA history survives; a Run ends |
| Run manager, `services/run_manager.py`, `services/git_worktree.py` | RunRecord, worktree, branch | `create_run`, `update_state`, `cleanup`, `append_event`, push | several Git commands and file writes per operation, each may fail | cleanup removes only what is disposable |
| Ticket pipeline, `services/ticket_pipeline.py` | ledger `ticket-pipeline-state-v1.json` | `run_existing` | a second call continues from the ledger after a crash between any two writes; GitHub and Plane may act and lose the answer | nothing is published without QA; a retained result is true and final |
| Development verifier, `services/development_verifier.py` | `development-evidence-v1.json` | `verify` | evidence is cached by file name; concurrent verifiers | evidence is about the commits it is used for |
| Ticket controller and CLI, `services/ticket_controller.py`, `cli.py` | lifecycle `controller-lifecycle-v1.json` beside the RunRecord | `run`, `cancel`, `cleanup`, `status` as separate processes | check and act are steps apart in different processes; `state.json` is written in place; process ids are given again; crash | one ACTIVE Run per issue; a cancelled Run stays so; cleanup spares live and merged work |
| Prompt resolver, `services/prompt_resolver.py`, `services/planner_adapter.py` | `prompt-metadata.json` and Prompt copies per request; `tasks/*-prompt.md` | `has_active_run`, `prepare`, `_materialize_generated` | concurrent requests, orphans of a dead service, non-atomic metadata, the user's editor | user files survive, all-or-nothing, an orphan locks nobody |
| Ticket board, `web.py` (`TicketBoard`) | operation `state.json`, the map of loops | `start_run`, `_execute_operation`, `prepare`, `run`, `retry`, `stop_run` | background thread per operation; restart while PREPARING | every operation ends with the truth about its Run |
| Service manager and settings, `web.py` (`ServiceManager`, `LocalConfig`) | pid record, health endpoint; settings file | `start`, `stop`, `status`; `load`, `save` | two `start` commands; reused process id; read-merge-write by concurrent requests | one service, and the record knows it; a stop that reports success is true; only the user stores a role that may write too much |
| Workflow engine, `engine/engine.py`, `engine/store.py` | result store, queue, edge counters | `run`, `_fire_edges`, `_run_node` | cycles, bounded loops, joins | a workflow ends; a node runs on results of its own round |
| Drivers and guardrails, `engine/drivers.py`, `engine/guardrails.py` | none | `cli_call`, `check_*` | timeouts, process groups | a tool call outside the worktree is refused |
| Connectors, `connectors/plane.py`, `github.py`, `qa.py` | rate-limit window | requests with retries, PR, merge, `run_qa` | retry of a call that was executed | a comment is posted once; merge only with authority |
| Run events, process output | append-only files | `append`, `read` | a last line without its end, more than once, or cut in a character | the timeline is never rewritten |
| Agent sessions, `services/agent_sessions.py`, callbacks of `web.py` | ledger `agent-sessions-v1.json` per Run | developer and QA calls | two workers of one Run rewrite the ledger through one temporary name; a program may refuse to resume | one session per Run; its loss is recorded, never silent |
| Agent catalog, `services/agent_catalog.py` | a probe per program, for a TTL | `validate_profile`, `build_agent` | the probe is stale, the file was edited by hand | planner and QA stay read-only |
| Ticket contract, `services/ticket_contract.py` | none | `preflight_plane_issue` | strict and relaxed intake, defaults | what a Run must show is what the ticket asks for |
| Delivery policy | none | pure functions | - | decisions follow evidence |

How they interact: the Web page calls the ticket board; its `run` operation asks the
prompt resolver for Prompts and starts a Run in a web agent loop, which creates the
worktree through the run manager and calls the drivers. The CLI goes another way: the
controller process creates the Run through the same run manager and drives the ticket
pipeline, which calls the verifier, QA and the connectors. All of them meet in the
files under `.ticket-autopilot/` and in Git; none of these files is locked across
processes.

## 2. The modules

| Module | Models | Proofs |
| --- | --- | --- |
| `WebAgentLoop` | the web agent loop with the RunRecord writes of the run manager | `WebAgentLoop_proofs` (types, delivery), `WebAgentLoop_workers` (threads that exclude each other, refinement) |
| `DeliveryGate` | abstract specification of `WebAgentLoop`: only the version that QA passed, while it is current, is committed | implemented: `WebAgentLoop_workers` |
| `TicketController` | `run`, `cancel`, `cleanup` as processes, with `create_run`, `cleanup` of the run manager and Git | `TicketController_proofs` |
| `TicketPipeline` | `run_existing` with its ledger, the evidence cache, GitHub and Plane as external calls | `TicketPipeline_proofs` |
| `TicketContract` | `preflight_plane_issue` as operators over the sections of an issue | `DevelopmentEvidence_proofs` |
| `DevelopmentEvidence` | `verify` by several processes, the files it persists, fed by `TicketContract` | `DevelopmentEvidence_proofs` |
| `AgentCall` | guardrails, the checks of the drivers, and QA's judgement, as operators | `WorkflowEngine_proofs` |
| `PlaneClient` | `set_ticket_state`, `close_ticket` and `_request` against a Plane that loses answers | `WorkflowEngine_proofs` |
| `WorkflowEngine` | the interpreter over `ticket-pipeline.yaml`; composes `AgentCall` and `PlaneClient` | `WorkflowEngine_proofs` |
| `PromptResolver` | `prepare`, `has_active_run`, `_materialize_generated` | `PromptResolver_proofs` |
| `TicketBoard` | the ticket endpoints, operations and their threads, the map of loops | `WebService_proofs` |
| `ServiceManager` | `start`, `stop`, `restart`, `foreground` as processes, servers, record file and port | `WebService_proofs` |
| `Settings` | `LocalConfig` and the agent catalog with its cached probe | `WebService_proofs` |
| `AgentSessions` | the developer and QA callbacks with the session ledger | `WebService_proofs` |
| `RunLogs` | `events.jsonl` and the process output, with torn and cut lines | `WebService_proofs` |
| `AppendOnlyLog` | abstract specification of either file of `RunLogs` as its readers see it | implemented: `WebService_proofs` |
| `MC*` | model values, choices of instances and symmetry for TLC | |

`*Slip*` comments mark operators that nothing uses: each is a wrong variant of the
definition below it, of the kind a change to the code could introduce. Substituting one
must break the property it was written for, which is how we know that a property is
about the code.

### WebAgentLoop and DeliveryGate

A thread is an HTTP request and, for a start or a retry, the daemon worker it spawns; the
request ends where the worker begins, so one program counter `pc[t]` serves both. What a
thread has loaded is `mem[t]`; what is on disk is `snap[r]`. The code loads a snapshot
once and writes it back whole, so that difference is where its races live. Every file
write is one action (`FinSave`, `FinRecord`, `FinEvent`, ...), named in `PROJECT.json`
with the lines it stands for. `lock` is `WebAgentLoop._lock`; `context` is `_prompts`;
`content`, `commits` and `approved` (history) are versions of the worktree, versions on
the branch and versions that a valid QA PASS is about. Environment actions: the agent
edits or fails, QA answers anything or fails, Git refuses, `WorkerFault`/`HandlerFault`
(an exception out of any write), `Crash` (restart of the service).

Abstractions: stage names (`pc` shows them), findings, hashes, process identities.
`update_state` rewrites `state.json` in place and is one step here: a reader of a truncated
RunRecord skips it, which this model leaves out and `TicketController` has. Each request of
the Web page gets a loop object of its own; the lock is a class attribute, so one lock is
right. `RegisterOwnedProcessGroup` is in the model because the code offers it; in the
repository only tests call it, so a stop of the real service always ends in `StopRejected`.

`DeliveryGate` has three actions over `content`, `approved`, `commits`. `GateSpec` (an
`INSTANCE` with the identity mapping on these variables) says that the detailed loop
implements it. It is checked where no exception and no owner action happens;
`CommitsReviewed` shows why the restriction is needed (section 4).

### TicketController

Run `r` is the one that the r-th `run` command makes. `state` and `life` are its two
files, `tree` and `branch` its Git resources, `pid` the process that develops it. A
`cancel` or `cleanup` is a record `cmd[c]` with its own program counter. `scenario` is
chosen at the start and never changes: which Runs and commands there are, whether the
operator starts a command while another one is busy, how many exceptions and crashes may
happen.

`_write_json` opens `state.json`, which empties it, and fills it: two steps (`OpenState`,
`FillState`) with EMPTY between them, and TORN when two writers overlap. Neither is a
record that `load_run` can read: the search for ACTIVE Runs passes over it (`Records`), and
a `cancel` or the end of a `run` that meets it raises (`CancelUnreadable`,
`FinishUnreadable`). The lifecycle is replaced in one step, as `os.replace` does it. A
process id is free again when its process has ended, and `cancel` ends whoever has the id
that it read (`Owners`).

### TicketPipeline

One call of `run_existing` at a time; `ledger` is the file, `mem` the copy in memory, every
save and every external call is a step, `Crash` may come between any two and `Call` may come
again. `bundle` is the evidence file, which `Verify` returns whatever `head` is now, unless
it raises, before or after the file is there. `CreatePr`, `ToReview`, `ToBlocked` come in
the variants "done", "done and the answer lost" and "not done". `outer` says that the call
is already in the outermost except clause, where a second exception leaves it. The
`qa-verdict` files are left out: no code reads them back.

### TicketContract and DevelopmentEvidence

An issue is what the parsers find in it: which sections are there, empty or doubled, the
criteria and verification entries, the risk tier. `TicketContract` says what the strict
intake of the command line and the relaxed one of the page refuse, and which commands the
contract then has. In `DevelopmentEvidence` verifiers choose an issue, look for the
evidence file, judge the Git facts, run the commands and persist the report. A file is an
inode with names: `os.link` makes two of them, and a writer that has the temporary file
open writes to it under whatever name it has by then. `earned` is what an ideal observer
would say of a report.

### WorkflowEngine, AgentCall and PlaneClient

`engine` is the locals of `Engine.run`: ready nodes, results, edge counters, steps. The
nodes are those of `ticket-pipeline.yaml` (execute, verify, close, with the edge back);
`setup` is the agent record, its fallback, the Run's branch and the guardrail policy. An
execution is a number, so "the QA that passed" and "what is posted" can be compared over
rounds and runs. `AgentCall` decides what is spawned and what QA's output is worth. The
close node is a call of `PlaneClient`, whose requests are tried three times; an attempt
fails before or after Plane has executed it, and the client cannot tell which.

### PromptResolver

A request reads the records of the others one by one (`ReadFinished`, `ReadPreparing`,
`ReadOrphan`), claims its own, asks the planner, copies Prompts and links them. Writing
`prompt-metadata.json` is two steps (`Truncate`, `WriteMeta`), because the code writes in
place and a reader that meets a truncated file ignores it. The process id of the service
is the number of its restarts, and `PidReused` gives a dead id to somebody else. The user
writes Prompts of his own under free names (`UserWrites`) and changes those that a request
has just put into `tasks/` (`UserEdits`, remembered in `edited`); `Rollback` unlinks by
name, whatever the file holds by then. That the user deletes a Prompt is left out. The
state files of Runs, which `has_active_run` reads first, are a free choice
(`RefusedForRun`).

### TicketBoard

A request of `start_run` and the operation thread it spawns have a program counter each.
`op` and `run` are the files of the operation and of its Run, `boards`, `loops` and
workers live in memory and go with a restart. The calls of the loop and of the prompt
resolver are single steps: their insides are the modules above.

### ServiceManager, Settings, AgentSessions, RunLogs

`ServiceManager` has commands, servers that crash or end slowly, process ids that pass to
a stranger, and one port. `_terminate_if_owned` is two steps, `Match` and `Signal`: what
matched may have gone by the time of the signal, and its id may be a stranger's. A launch
may fail (`SpawnFails`), and the id of a child is free only when its parent has ended.
`Settings` keeps what a save has read apart from what it writes and lets the user's editor
(`edited` remembers it) and the installed program change in between; `BuildAgent` changes
only the probe.

`AgentSessions` follows what each attempt opens or resumes. `SessionLedger.record` is a
read (`Loaded`), and then an open of the shared temporary name, a fill and a rename
(`OpenTemporary`, `Fill`, `Replace`): a worker that has the file open when another renames
it writes into the ledger itself. The workers are those of one Run, since each Run has a
ledger of its own.

`RunLogs` appends under the lock of each file. A write may be cut within its JSON (`torn`),
before its newline (`unended`) or within a character (`broken`), by a stop or by a full
disk, and the next append continues that line, which has an end only when a write with an
end reaches it. A text may hold a line separator that JSON does not escape. Events are read
strictly, output leniently, and a broken character makes both readers raise
(`read_text`). Both files refine `AppendOnlyLog` with the entries that are finished as its
`log`.

### Compositions

`TicketBoard`, `ServiceManager`, `Settings`, `RunLogs` and `AgentSessions` are instances
of one run (`MCWebService`), `TicketPipeline`, `WorkflowEngine` and `DevelopmentEvidence`
of another (`MCDelivery`). They share no state in these abstractions, so interleaving
them would only multiply states: `part` says which of them a behaviour is about, and the
others rest in an initial state. Where parts do share state the module itself composes
them: `WorkflowEngine` extends `AgentCall` and `PlaneClient`, `DevelopmentEvidence`
extends `TicketContract`, `WebAgentLoop` and `TicketController` contain the run manager's
operations.

## 3. What the passing runs show

| Run | Instance | Shows |
| --- | --- | --- |
| `races` | two retries of one Run, or two starts of one issue and a retry; one QA attempt, one restart | `OneWorkerPerRun`, `VerdictFiled`, `QaHistoryKept`, `PassIsFinal`, `StartIsExclusive`, and `GateSpec` (refinement) |
| `faults` | a start, a retry and an owner action; two QA attempts, one exception anywhere, one restart | `TypeOK`, `DeliveredIsCommitted`, `CommitAfterPass` |
| `live` | a start, a retry and a stop under `FairSpec` | `ActiveRunEnds`, `RequestsAnswered` |
| `controller` | `Serial`: two Runs of one issue, one command at a time, one fault; `Reused`: the same with Runs of two issues; `Overlapping`: one Run, two commands at once, two faults; two process ids; under `FairSpec` | `OneActivePerIssue`, `SparesWorkers`, `CleanedIsGone`, `MergedIsKept`, `CancelledIsFinal`, `ActiveEnds` |
| `prompts` | two Prepare requests for one issue, the user's editor, one exception, one restart, a reused process id, under `FairSpec` | `PromptsWhole`, `UserWorkKept`, `BreakIsFinal`, `RefusedOnlyWhileBusy`, `PrepareReturns` |
| `service` | two requests, commands or workers of each part, three appends; board: one exception, one restart; manager: two mishaps; logs: two stops | board: `OnePreparation`, `OperationTruth`, `RunsAreReachable`, `OperationEnds`; manager: `ServerIsRecorded`, `StopIsTrue`; `SettingsKept`, `ReadOnlyKept`; `DegradationRecorded`; `LogsRefine` (refinement) |
| `delivery` | pipeline: two repairs, two exceptions, two crashes; workflow: two runs with one repair, six steps, five kinds of agent; evidence: two verifiers, three calls, one kill, one wrong fact, every ticket that differs in one thing from a good one | pipeline: `PublishNeedsPass`, `LedgerIsTrue`, `ResultIsFinal`, `CallReturns`; workflow: `ClosedIsPassed`, `CallsStayBounded`, `PlaneTruth`; evidence: `VerifiedIsEarned` |

The comment over each property says what it claims; `PROJECT.json` says for each hazard of
the code which properties would catch it.

Bounds, and why they are enough. The races of the loop need two threads that write one
Run's files, or two Runs of one issue with a third request that interferes; `Mixes` lists
exactly these sets. Five QA attempts repeat the same steps, so one (`races`, `live`)
shows every status and two (`faults`) show a repair followed by each status; `NextAttempt`
differs only at the first attempt, the next one and the last one. One exception and one
restart in any place reach every except clause and every intermediate file state; the
pipeline gets two crashes so that a continued call can be cut short again, and two
exceptions because its except clauses write the ledger too. The controller's check needs
two Runs of one issue to be wrong, its races need two commands about one Run, and a reused
process id needs a Run that crashed and one that lives; `Scenarios` keeps the three apart.
Two mishaps of the service manager are a server that lingers and another that crashes, or
a failed write and what follows it. A second workflow run shows a ticket closed or
commented on by the first; `MaxSteps = 6` lets the step limit cut a repair short. Three
verifications by two verifiers let one find the file, one race for it and one come after a
kill. Three appends with two stops cut one line twice and put
another after it. Everything that
TLAPS proves (section 5) does not depend on the bounds at all.

Where the restrictions matter, they are part of the claim. `OneWorkerPerRun`,
`PassIsFinal` and `GateSpec` hold with `MaxFaults = 0` and no owner action; with an owner
action they fail (section 4), and with an exception a worker can end between snapshot
and RunRecord. `VerdictFiled` needs `MaxFaults = 0` too: when the write of the verdict
file raises, the attempt is already in the snapshot that the except clause saves.
`PassIsFinal` and `QaHistoryKept` are also about Runs that nobody stops: a stop writes the
snapshot that it loaded, over whatever the worker saved since.
`OneActivePerIssue`, `MergedIsKept` and `SparesWorkers` say "while commands do not overlap"
themselves, `ServerIsRecorded` and `StopIsTrue` that commands come one at a time and no
health answer was late, `SettingsKept` that requests are apart, `DegradationRecorded` that
the workers of the Run follow each other; each fails otherwise, since check and action, or
open and rename, are steps apart. `ReadOnlyKept` holds for any overlap and excepts the
user's editor, which nothing validates before `build_agent`. `OneActivePerIssue` is about
Runs that both files call ACTIVE: one whose `state.json` is unreadable is passed over by
the search, and the theorem says that it never becomes ACTIVE again. `ActiveEnds` excepts a
Run whose `state.json` can never be read again (section 4). `OperationTruth` says of
RUNNING and BLOCKED without condition what the Run is; of HARD_BREAK only if nothing was
raised, because `loop.start` may raise after the Run began. `RunsAreReachable` excepts such
a Run, a restart, and a second board. `OperationEnds` excepts an exception out of the
steps that no clause protects, and a restart.

`CHECK_DEADLOCK FALSE` is set where everything may legitimately be over: a retained
result, all commands done, all requests answered.

### Fairness

Fairness is weak fairness of each thread's or process's own steps: `Worker`, `Start`,
`Retry`, `Stop`, `Owner` of the loop, `Step` of the pipeline and of the prompt resolver,
`RunStep` and `CommandStep` of the controller, `StartStep` and `OperationStep` of the
board. The operating system schedules threads; every agent, planner, check or HTTP call
that a step stands for has a timeout in the code (`engine/drivers.py:263` and `:310`,
`connectors/plane.py:188`, `web.py:841`), and local Git commands, most of which have none,
are taken to return; so a step that is enabled is eventually taken. Nothing is assumed of
crashes, exceptions, the user, or of new requests. In `controller_crash` the operator is
assumed diligent (`DiligentSpec`: strong fairness of `cancel` and `cleanup` on every Run);
the counterexample is stronger for it: even asking for ever does not help.

## 4. Where documents and code disagree

| Run | Property | What happens |
| --- | --- | --- |
| `loop_two_active` | `OneActiveRunPerIssue` | `retry_current_stage` never asks `_active_for`; a broken Run is reactivated beside the new Run of its issue |
| `loop_reviewed` | `CommitsReviewed` | an owner action loaded before a retry writes HARD_BREAK back after it; a second retry starts a second worker in the worktree, and what is committed is not what QA read |
| `pipeline_reviewed` | `PrIsReviewed` | `verify` returns the evidence of the first attempt after a repair, QA reads the old Diff, the PR has commits QA never saw |
| `evidence_replaced` | `EvidenceStays` | two verifiers share one temporary name, which after `os.link` is the evidence itself; the second one's `write_text` changes what the first has handed out |
| `controller_crash` | `CrashIsCleanable` | a crash of the controller, or of `cancel` after its kill, leaves the lifecycle ACTIVE without a process: cleanup refuses because it is ACTIVE, cancel because nothing lives |

Seen while modelling and not stated by a run:

* The worker of a stopped Run writes HARD_BREAK, BLOCKED or PASS over STOPPED
  (`services/web_agent_loop.py:317`; `docs/closed-loop-workflow.md:52` calls them distinct).
* QA_EXHAUSTED is retryable, so the Developer runs after the fifth FAIL
  (`docs/closed-loop-workflow.md:34`).
* A restart leaves Runs ACTIVE and operations PREPARING that nobody finishes; they block
  their issue, or every later start of the board.
* Overlapping `run` commands give one issue two ACTIVE Runs; a Run that starts has no
  lifecycle yet, so an overlapping cleanup takes its worktree.
* If the system gives a process id again, `cancel` ends the process of another Run: the
  lifecycle of a crashed Run keeps the id and `_owns_live_process` asks only whether a
  process with it leads its group (`services/ticket_controller.py:144`). The other Run's
  lifecycle then says ACTIVE with nobody at work, the same as after a crash.
* A crash, or the SIGTERM of `cancel`, between the emptying and the filling of `state.json`
  (`services/run_manager.py:292`) leaves a Run that no command can load: `cancel` raises in
  its own `update_state`, the lifecycle stays ACTIVE, and neither `cancel` nor `cleanup`
  finds the Run again.
* While a Run's last `state.json` is empty, or for ever after a crash there,
  `_records_for_issue` skips it and another `run` of the issue is admitted although its
  lifecycle says ACTIVE. The first Run has left its pipeline by then, which is why
  `OneActivePerIssue` holds.
* Two workers of one Run that write the session ledger at once can lose the record of a
  degradation or leave a ledger that is no JSON, which counts as an empty one
  (`services/agent_sessions.py:77`): `DegradationRecorded` fails without `~overlapped`.
* A server that crashes between the check and the signal of a stop, and whose process id
  is given again at once, leaves the signal to a stranger (`web.py:485`).
* A Prompt that the user has edited right after it was linked goes with the rollback of
  the request that generated it (`services/prompt_resolver.py:260`).
* A branch without commits counts as merged and is never cleaned.
* The pipeline writes Plane again after a crash between the write and the ledger.
* A health answer later than 0.4 s makes `start` drop the record of the live server, and
  `stop` say that it has stopped.
* A verifier that dies between the chmod to 0444 and the unlink leaves a temporary file
  that no later `write_text` can open: every later verification raises.
* Two Prepare requests can both pass `has_active_run`, and a reused process id keeps
  Prepare locked beyond the 30 minutes that
  `specs/prompt-preparing-orphan-recovery-draft.md` gives as an upper bound.

## 5. What is proved

Every safety property of the passing runs, invariant, action property or refinement, is a
theorem about the specification of its module, for all values of the constants; where it
needs a hypothesis, the theorem states it. The other assumptions are the named ASSUMEs of
the modules, which TLC evaluates in every run: bounds are numbers, names that the code
keeps apart are different (a server is no command, no writer is called "nobody"), and an
issue has the form that the parsers give it (`IsTicket`).

| Module | Theorem | Property |
| --- | --- | --- |
| `WebAgentLoop_proofs` | `TypeCorrect` | `TypeOK` |
| | `CommitNeedsPass`, `DeliveryCorrect` | `CommitAfterPass`, `DeliveredIsCommitted` |
| `WebAgentLoop_workers` | `StartCorrect` | `StartIsExclusive` |
| | `OneWorker`, `VerdictsFiled`, `GateImplemented` (if `Calm`) | `OneWorkerPerRun`, `VerdictFiled`, `GateSpec` |
| | `PassStays`, `HistoryStays` (if `Calm` and `Stoppers = {}`) | `PassIsFinal`, `QaHistoryKept` |
| `TicketController_proofs` | `SparesCorrect`, `ActiveCorrect`, `CleanedCorrect`, `CancelCorrect`, `MergedCorrect` | `SparesWorkers`, `OneActivePerIssue`, `CleanedIsGone`, `CancelledIsFinal`, `MergedIsKept` |
| `TicketPipeline_proofs` | `PublishCorrect`, `LedgerCorrect`, `ResultCorrect` | `PublishNeedsPass`, `LedgerIsTrue`, `ResultIsFinal` |
| `WorkflowEngine_proofs` | `CallsCorrect`, `ClosedCorrect`, `PlaneCorrect` | `CallsStayBounded`, `ClosedIsPassed`, `PlaneTruth` |
| `DevelopmentEvidence_proofs` | `ReadyEarned` | (about the operators of `TicketContract`) |
| | `EvidenceCorrect` | `VerifiedIsEarned` |
| `PromptResolver_proofs` | `PromptsCorrect`, `UserWorkStays`, `BreaksStay`, `RefusedWhileBusy` | `PromptsWhole`, `UserWorkKept`, `BreakIsFinal`, `RefusedOnlyWhileBusy` |
| `WebService_proofs` | `PreparationCorrect`, `OperationCorrect`, `ReachableCorrect` | `OnePreparation`, `OperationTruth`, `RunsAreReachable` |
| | `ServerCorrect`, `StopCorrect` | `ServerIsRecorded`, `StopIsTrue` |
| | `SettingsCorrect`, `ReadOnlyCorrect` | `SettingsKept`, `ReadOnlyKept` |
| | `LogsCorrect` | `LogsRefine` |
| | `SessionsCorrect` | `DegradationRecorded` |

### Hypotheses

`Calm` is `MaxFaults = 0 /\ Owners = {}`: no exception out of a write, no owner action.
Both are needed, and the code is the reason. An owner action that was loaded while the Run
was retryable writes that status back over the retry, and a second retry then starts a
second worker (`loop_reviewed` is a run of it). An exception out of the last writes of a
worker lets the except clause save the old snapshot, or leaves it between snapshot and
RunRecord. The theorems allow stops, restarts and any number of starts and retries under
it. `Stoppers = {}`, for a PASS to be final and for the QA history, excludes the stop that
writes back the snapshot it loaded before the worker's last save. `CommitNeedsPass`,
`DeliveryCorrect` and `StartCorrect` need none of these.

### Inductive invariants

Almost none of these properties is inductive as it stands. What each proof adds:

* Loop, types: a worker that records a verdict needs an attempt in range and one that
  makes its last writes needs a final status (`StageKnown`). Commit: a worker is at the
  commit, or about to go there with a PASS, only when some version of its Run was approved
  (`GateInv`). Delivery: a stop, a retry, an owner action or an except clause may write an
  old snapshot back at any time, so `DeliveryInv` speaks about every thread's `mem` as
  well as about the files: whoever holds PASS holds the commit and the verdict with it,
  and the Run's branch has the commit, which never goes away. The lemmas `HandlerStep` and
  `WorkerStep` say once which parts of the state a request and a worker can touch.
* Loop, threads: `StartInv` (a start or retry holds the lock; while a start is between
  `_active_for` and its write no Run of its issue is ACTIVE; a Run that is not started has
  neither snapshot nor thread). `OccInv` is the argument for one worker: the threads that
  occupy a Run, from the check of a retry under the lock to the last save of its worker,
  are alone, because an occupied Run's snapshot says ACTIVE or STOPPED and neither can be
  retried, and a retry occupies it before it lets go of the lock. `ReviewInv` (from the
  checker to the commit the worktree is what QA reads) gives the refinement step by step:
  a worker's edit, a PASS and a commit are the three actions of `DeliveryGate`, all else
  stutters. `FiledInv` excepts the worker between the save of a verdict and its file.
  `HistInv`: whoever occupies a Run and has loaded its snapshot has every verdict of it.
* Controller: `Processes` (processes that live have different ids, and the lifecycle of a
  Run that lives has its id; of one that is dead nothing is said), `Progress` (how far the
  files of a Run are, by where its process or the cancel that ended it is: until the
  lifecycle is ACTIVE the Run alone writes its `state.json`), `Cleaning` (what a cleanup
  has removed is not made again) and, for an operator who waits, `Serial` (one Run is being
  started, none of its issue is ACTIVE in both files, and a cleanup works on a Run that has
  ended and is not merged). An unreadable Run cannot become ACTIVE again because the one
  step that writes ACTIVE is the Run's own, before its lifecycle.
* Pipeline: `Statuses` (what the ledger and its copy can say at each step), `Gate` (a call
  past QA has the PASS and the verified bundle), `World` (PR and Plane follow the ledger)
  and `Accounted` (every executor call is paid for by the first one, a repair, a crash or
  an exception).
* Workflow: `Order` (nodes become stale one after the other, and close is stale alone,
  about an output that has passed), `Posted` (every comment, and the request under way, is
  about such an output), `FreshInv` (until its close begins, Plane has heard nothing of an
  execution) and `PlaneInv` (copies are counted against the attempts made so far).
* Evidence: `ReadyMeans` and `ReadyEarned` turn the sequence of gates of
  `preflight_plane_issue` into what an admitted issue is known to have; `EvInv` says whose
  inode each verifier has open, and `SoundInv` carries "VERIFIED is earned" from the
  judgement through every inode, also one that two verifiers write.
* Prompts: `RecordInv` (who owns a record, and that a record is finalised by another
  request only when its owner is dead), and `WholeInv`: `Linking` (what is in `tasks/` of
  a request is what it remembers having linked, never a file that was there before),
  `Outcome` (what the last write may report) and `Reported` (what it has reported).
  `EditedInv`: an edited Prompt is still one that a request generated, and by
  `OnlyRollbackRemoves` and `Linking` only that request's rollback can take it.
* Board: `Exclusion` (the lock of a board is held by one request from the scan to the
  launch, and an operation says PREPARING as long as its thread lives), `Outcome` (where
  in the thread its Run begins, and what it will write of it from there) and `Known` (a Run
  is in the loops of the board that started it, is about to be, or was lost to an
  exception that the operation reports as HARD_BREAK).
* Service manager: `PortInv` (who listens), `OwnInv` (a command knows what it launched or is
  about to signal) and, while commands come one at a time, `OrderInv`: a server at work is
  recorded, unless the command that launched it is about to save it or to end it; one that
  does not listen yet is watched by that command; and the record is given up only when its
  server is at work no more.
* Settings: `Undisturbed` (until requests overlap, what a request has read is what the
  file holds) and `Vetted` (unless the user edited, the file, what each waiting request has
  read and what a validated one brings are all read-only where they must be).
* Sessions: `Serially` (of workers that follow each other, who writes the ledger has the
  temporary file to itself, the ledger is readable, and it has an entry as soon as the Run
  has had a session).
* Logs: `DrawnInv` (the number drawn under the lock is still right, and the file still
  readable, at the write) and `FilesInv` (only the last line can lack its end, the k-th
  finished entry has number k). `LinesStep` shows for each way a line can end up in the file
  that finished entries stay where they are and at most one is added; `KeptStep` makes a
  step of `AppendOnlyLog` of it.

Each proof has one step per action of the module, and the same shape: the initial states
satisfy the invariant, every step keeps it, it implies the property; PTL joins these.

How definitions are written serves the proofs where it makes no difference to the model:
which lines of a file are entries (`RunLogs`), how often a comment is there
(`PlaneClient`) and which gate decides (`TicketContract`) are sets of places and their
cardinality or minimum rather than a filter over a sequence, whose value only an induction
over data could establish.

### Only model-checked

The liveness properties `ActiveRunEnds`, `RequestsAnswered`, `ActiveEnds`, `CallReturns`,
`PrepareReturns` and `OperationEnds`, since fairness and ENABLED are outside what TLAPS can
do; and the five properties of section 4, which are false.

## 6. Not modelled

* `delivery_policy.py`: pure decisions; nothing in the repository that changes state calls
  it, and `require_user_authorization` is a plain guard.
* `connectors/github.py` apart from the PR that the pipeline creates, and the listing of
  issues in `connectors/plane.py`: requests without a state of their own.
* The planner adapter, command construction and the streamed output of the drivers, the
  parsing of help texts by the agent catalog (what a program offers is a free choice).
* Markdown and YAML parsing, JSON schemas, HTTP routing, status codes and the page.
* Templates and `vars` of the engine; `ticket-pipeline-hermes.yaml`, which differs in its
  agents, is covered by the agents that `setup` may have.
* Commands that only read, as `status`; `push`; the ownership checks of
  a RunRecord made by hand; prompt records without `owner_pid`.
* Waits and rate limits: the model's steps have no duration.
* `tooling/`, the reference proof of concept, `docs/`, `specs/`: not part of the program.

Left of the plan: a refinement of `TicketPipeline` and of `WorkflowEngine` to one
specification of what both promise (a ticket is closed or published only on QA's word), and
the listing and paging of issues.

## 7. Running it

```
tlc -workers 2 -config MCWebAgentLoop_races.cfg MCWebAgentLoop
tlc -workers 2 -config MCDelivery.cfg MCDelivery
tlapm WebAgentLoop_workers.tla
tlapm WebService_proofs.tla
```

Every run, with its configuration and expected outcome, is listed in `PROJECT.json`,
with the lines each definition stands for, the hazards of the code and the properties
that cover them. Every run ends within a few minutes.
