-------------------------- MODULE TicketController --------------------------
(***************************************************************************)
(* services/ticket_controller.py with the parts of run_manager.py and      *)
(* git_worktree.py that it calls: `run` makes one Run and develops it in   *)
(* its own process, `cancel` and `cleanup` are further processes.  A Run   *)
(* has two files that nothing updates together, state.json and the         *)
(* lifecycle, beside a worktree and a branch.  state.json is emptied and   *)
(* then filled; a lifecycle replaces the one before it.                    *)
(*                                                                         *)
(* Abstracted: TicketPipeline is commits and a result.  Run r is the one   *)
(* that the r-th `run` command makes.  --run-id reaches every Run, so the  *)
(* choice that _select_run makes without it is not modelled.               *)
(***************************************************************************)
EXTENDS Integers

CONSTANTS
  Runs,        \* `run` commands, and the Run each of them makes
  IssueOf,     \* the issue that each command names
  Commands,    \* processes that execute `cancel` and `cleanup`
  Pids,        \* process ids; a process group has the id of its leader
  Scenarios    \* bound: which of them a behaviour has, whether the operator
               \* starts a command while another one is busy, and how many
               \* exceptions and crashes there are

ASSUME ControllerAssumption ==
  /\ Pids \subseteq Nat \ {0}
  /\ Scenarios \subseteq [runs : SUBSET Runs, commands : SUBSET Commands,
                          overlap : BOOLEAN, faults : Nat]

VARIABLES
  state,     \* RunRecord.state in state.json; NONE without the file, EMPTY when
             \* it is opened and not filled, TORN when it is no JSON
  life,      \* controller-lifecycle-v1.json
  tree,      \* the disposable worktree exists
  branch,    \* the Run's branch against its base branch
  pc, pid,   \* where the process of `run` is, and its id while it lives
  result,    \* the result that the process has in memory
  cmd,       \* `cancel` and `cleanup` processes
  faults,
  scenario   \* constant of a behaviour, one of Scenarios

files == <<state, life>>
git   == <<tree, branch>>
procs == <<pc, pid, result>>
vars  == <<files, git, procs, cmd, faults>>

-----------------------------------------------------------------------------
Results == {"COMPLETED", "BLOCKED", "STALLED", "CANCELLED"}
Starting == {"create", "record", "recordFill", "activate", "activateFill", "lifecycle"}
Ending  == {"finishState", "finishFill", "finishLog", "finishLife"}
RunPcs  == {"none", "pipeline", "exit", "ended"} \cup Starting \cup Ending
CancelPcs  == {"kill", "cancelState", "cancelFill", "cancelLog", "cancelLife"}
CleanupPcs == {"target", "tree", "branch", "cleaned", "cleanedFill"}

NoLife == [status |-> "NONE", pid |-> 0]
NoCmd  == [pc |-> "idle", run |-> 0, pid |-> 0]

\* load_run raises for every other Run.
Records == {r \in Runs : state[r] \notin {"NONE", "EMPTY", "TORN"}}
Live(r) == pid[r] # 0
\* The processes of the group: `run` makes a group of its own.
Owners(p) == {s \in Runs : pid[s] = p}
SameIssue(r) == {s \in Runs : IssueOf[s] = IssueOf[r]}

\* What the operator has started and not seen the end of; the pipeline of a
\* Run is in the background.
Busy == {r \in Runs : pc[r] \in Starting} \cup {c \in Commands : cmd[c].pc # "idle"}
OperatorFree == scenario.overlap \/ Busy = {}

Goto(r, l) == pc' = [pc EXCEPT ![r] = l]
Dies(R) == /\ pc' = [r \in Runs |-> IF r \in R THEN "ended" ELSE pc[r]]
           /\ pid' = [r \in Runs |-> IF r \in R THEN 0 ELSE pid[r]]
           /\ result' = [r \in Runs |-> IF r \in R THEN "NONE" ELSE result[r]]

\* _write_json: write_text opens the file, which empties it, and fills it.  What
\* is written over the text of another writer may keep the end of that.
OpenState(r) == state' = [state EXCEPT ![r] = "EMPTY"]
FillState(r, s) ==
  \E t \in {s} \cup (IF state[r] = "EMPTY" THEN {} ELSE {"TORN"}) :
    state' = [state EXCEPT ![r] = t]
WriteLifecycle(r, s, p) == life' = [life EXCEPT ![r] = [status |-> s, pid |-> p]]

Step(c, l) == cmd' = [cmd EXCEPT ![c].pc = l]
Done(c)    == cmd' = [cmd EXCEPT ![c] = NoCmd]

Init ==
  /\ state = [r \in Runs |-> "NONE"]
  /\ life = [r \in Runs |-> NoLife]
  /\ tree = [r \in Runs |-> FALSE]
  /\ branch = [r \in Runs |-> "none"]
  /\ pc = [r \in Runs |-> "none"]
  /\ pid = [r \in Runs |-> 0]
  /\ result = [r \in Runs |-> "NONE"]
  /\ cmd = [c \in Commands |-> NoCmd]
  /\ faults = 0
  /\ scenario \in Scenarios

-----------------------------------------------------------------------------
(* run. *)

\* Slip: a Run whose process is gone does not count.
LiveRuns(r) == {s \in SameIssue(r) \cap Records : Live(s)}
\* _active_run_for_issue
ActiveRuns(r) == {s \in SameIssue(r) \cap Records : life[s].status = "ACTIVE"}

\* A command that finds an ACTIVE Run returns; the same r may be tried later.
RunCheck(r) ==
  /\ pc[r] = "none"
  /\ OperatorFree
  /\ ActiveRuns(r) = {}
  /\ \E p \in Pids :      \* an id is free again when its process has ended
       /\ Owners(p) = {}
       /\ pid' = [pid EXCEPT ![r] = p]
  /\ Goto(r, "create")
  /\ UNCHANGED <<files, git, result, cmd, faults>>

\* A `run` command writes state.json in two steps, or the lifecycle file in one.
OpenStep(r, from, to) ==
  /\ pc[r] = from
  /\ OpenState(r)
  /\ Goto(r, to)
  /\ UNCHANGED <<life, git, pid, result, cmd, faults>>
FillStep(r, from, to, s) ==
  /\ pc[r] = from
  /\ FillState(r, s)
  /\ Goto(r, to)
  /\ UNCHANGED <<life, git, pid, result, cmd, faults>>
\* load_run raises and no clause of `run` catches it.
Unreadable(r, at) ==
  /\ pc[r] = at
  /\ r \notin Records
  /\ Dies({r})
  /\ UNCHANGED <<files, git, cmd, faults>>
LifecycleStep(r, from, to, s, p) ==
  /\ pc[r] = from
  /\ WriteLifecycle(r, s, p)
  /\ Goto(r, to)
  /\ UNCHANGED <<state, git, pid, result, cmd, faults>>

\* create_run up to git worktree add.
CreateTree(r) ==
  /\ pc[r] = "create"
  /\ tree' = [tree EXCEPT ![r] = TRUE]
  /\ branch' = [branch EXCEPT ![r] = "base"]
  /\ Goto(r, "record")
  /\ UNCHANGED <<files, pid, result, cmd, faults>>

\* The state.json of create_run.
OpenRecord(r) == OpenStep(r, "record", "recordFill")
CreateRecord(r) == FillStep(r, "recordFill", "activate", "CREATED")

\* update_state loads the record, and nobody else writes it this early.
OpenActive(r) == OpenStep(r, "activate", "activateFill")
Activate(r) == FillStep(r, "activateFill", "lifecycle", "ACTIVE")

ActiveLifecycle(r) == LifecycleStep(r, "lifecycle", "pipeline", "ACTIVE", pid[r])

\* The Developer agent commits in the worktree.
Commit(r) ==
  /\ pc[r] = "pipeline"
  /\ tree[r] /\ branch[r] = "base"
  /\ branch' = [branch EXCEPT ![r] = "ahead"]
  /\ UNCHANGED <<files, tree, procs, cmd, faults>>

\* run_existing returns or raises.  COMPLETED stands for IN_REVIEW, which
\* TicketPipeline reaches only with commits.
PipelineEnds(r) ==
  /\ pc[r] = "pipeline"
  /\ \E s \in Results :
       /\ s = "COMPLETED" => branch[r] # "base"
       /\ result' = [result EXCEPT ![r] = s]
  /\ Goto(r, "finishState")
  /\ UNCHANGED <<files, git, pid, cmd, faults>>

\* update_state loads the record before it writes, and append_event after; a
\* cleanup that overlaps may be writing it.
OpenFinish(r) == r \in Records /\ OpenStep(r, "finishState", "finishFill")
FinishState(r) == FillStep(r, "finishFill", "finishLog", result[r])
FinishLogged(r) ==
  /\ pc[r] = "finishLog"
  /\ r \in Records
  /\ Goto(r, "finishLife")
  /\ UNCHANGED <<files, git, pid, result, cmd, faults>>
FinishUnreadable(r) == Unreadable(r, "finishState") \/ Unreadable(r, "finishLog")

\* Slip: the last lifecycle write is forgotten.
FinishUnrecorded(r) ==
  /\ pc[r] = "finishLife"
  /\ Goto(r, "exit")
  /\ UNCHANGED <<files, git, pid, result, cmd, faults>>
FinishLifecycle(r) == LifecycleStep(r, "finishLife", "exit", result[r], 0)

Exit(r) ==
  /\ pc[r] = "exit"
  /\ Dies({r})
  /\ UNCHANGED <<files, git, cmd, faults>>

\* A crash, or an exception that no clause of `run` catches.
RunFault(r) ==
  /\ Live(r)
  /\ faults < scenario.faults
  /\ faults' = faults + 1
  /\ Dies({r})
  /\ UNCHANGED <<files, git, cmd>>

\* The owner merges the PR and pulls it.
OwnerMerges(r) ==
  /\ OperatorFree
  /\ branch[r] = "ahead"
  /\ branch' = [branch EXCEPT ![r] = "merged"]
  /\ UNCHANGED <<files, tree, procs, cmd, faults>>

-----------------------------------------------------------------------------
(* Both commands look up the Run's record first. *)

Begin(c, r, l, p) ==
  /\ cmd[c].pc = "idle"
  /\ OperatorFree
  /\ r \in Records
  /\ cmd' = [cmd EXCEPT ![c] = [pc |-> l, run |-> r, pid |-> p]]
  /\ UNCHANGED <<files, git, procs, faults>>

-----------------------------------------------------------------------------
(* cancel. *)

CancelBegin(c, r) ==
  /\ life[r].status = "ACTIVE"
  /\ Owners(life[r].pid) # {}     \* _owns_live_process
  /\ Begin(c, r, "kill", life[r].pid)

\* Slip: the signal is not sent.
CancelSpares(c) ==
  /\ cmd[c].pc = "kill"
  /\ Step(c, "cancelState")
  /\ UNCHANGED <<files, git, procs, faults>>
\* _terminate_group, whoever has the id by now; the agents are in the group of
\* the controller.
CancelKill(c) ==
  /\ cmd[c].pc = "kill"
  /\ Owners(cmd[c].pid) # {}
  /\ Dies(Owners(cmd[c].pid))
  /\ Step(c, "cancelState")
  /\ UNCHANGED <<files, git, faults>>

CancelTooLate(c) ==
  /\ cmd[c].pc = "kill"
  /\ Owners(cmd[c].pid) = {}
  /\ Done(c)
  /\ UNCHANGED <<files, git, procs, faults>>

\* update_state, which loads the record before it writes and after.
CancelOpens(c) ==
  /\ cmd[c].pc = "cancelState"
  /\ cmd[c].run \in Records
  /\ OpenState(cmd[c].run)
  /\ Step(c, "cancelFill")
  /\ UNCHANGED <<life, git, procs, faults>>

CancelState(c) ==
  /\ cmd[c].pc = "cancelFill"
  /\ FillState(cmd[c].run, "CANCELLED")
  /\ Step(c, "cancelLog")
  /\ UNCHANGED <<life, git, procs, faults>>

CancelLogged(c) ==
  /\ cmd[c].pc = "cancelLog"
  /\ cmd[c].run \in Records
  /\ Step(c, "cancelLife")
  /\ UNCHANGED <<files, git, procs, faults>>

CancelUnreadable(c) ==
  /\ cmd[c].pc \in {"cancelState", "cancelLog"}
  /\ cmd[c].run \notin Records
  /\ Done(c)
  /\ UNCHANGED <<files, git, procs, faults>>

CancelLifecycle(c) ==
  /\ cmd[c].pc = "cancelLife"
  /\ WriteLifecycle(cmd[c].run, "CANCELLED", 0)
  /\ Done(c)
  /\ UNCHANGED <<state, git, procs, faults>>

-----------------------------------------------------------------------------
(* cleanup, with RunManager.cleanup. *)

\* Slip: the lifecycle is not asked.
CleanupAnyway(c, r) == Begin(c, r, "target", 0)
CleanupBegin(c, r) == life[r].status # "ACTIVE" /\ Begin(c, r, "target", 0)

\* Slip: the branch is taken for unmerged whatever Git says.
CleanableUnchecked(r) == tree[r] /\ branch[r] # "none"
\* is_branch_merged: a branch without commits is an ancestor of its base.
Merged(r) == branch[r] \in {"base", "merged"}
\* _assert_cleanup_target, then the question to Git.
Cleanable(r) == tree[r] /\ branch[r] # "none" /\ ~Merged(r)

CleanupTarget(c) ==
  /\ cmd[c].pc = "target"
  /\ IF Cleanable(cmd[c].run) THEN Step(c, "tree") ELSE Done(c)
  /\ UNCHANGED <<files, git, procs, faults>>

\* git worktree remove --force; BLOCKED when Git refuses.
RemoveTree(c) ==
  /\ cmd[c].pc = "tree"
  /\ \/ /\ tree[cmd[c].run]
        /\ tree' = [tree EXCEPT ![cmd[c].run] = FALSE]
        /\ Step(c, "branch")
     \/ /\ ~tree[cmd[c].run]
        /\ Done(c)
        /\ UNCHANGED tree
  /\ UNCHANGED <<files, branch, procs, faults>>

\* git branch -D
DeleteBranch(c) ==
  /\ cmd[c].pc = "branch"
  /\ IF branch[cmd[c].run] # "none"
       THEN /\ branch' = [branch EXCEPT ![cmd[c].run] = "none"]
            /\ Step(c, "cleaned")
       ELSE Done(c) /\ UNCHANGED branch
  /\ UNCHANGED <<files, tree, procs, faults>>

\* Slip: a command that Git refused reports CLEANED all the same.
CleanedEarly(c) ==
  /\ cmd[c].pc \in {"branch", "cleanedFill"}
  /\ FillState(cmd[c].run, "CLEANED")
  /\ Done(c)
  /\ UNCHANGED <<life, git, procs, faults>>
\* state.json only: the lifecycle keeps what it says.
CleanedOpens(c) ==
  /\ cmd[c].pc = "cleaned"
  /\ OpenState(cmd[c].run)
  /\ Step(c, "cleanedFill")
  /\ UNCHANGED <<life, git, procs, faults>>

Cleaned(c) ==
  /\ cmd[c].pc = "cleanedFill"
  /\ FillState(cmd[c].run, "CLEANED")
  /\ Done(c)
  /\ UNCHANGED <<life, git, procs, faults>>

\* A crash of the command, or an OSError of one of its calls.
CommandFault(c) ==
  /\ cmd[c].pc # "idle"
  /\ faults < scenario.faults
  /\ faults' = faults + 1
  /\ Done(c)
  /\ UNCHANGED <<files, git, procs>>

-----------------------------------------------------------------------------
RunStep(r) == \/ CreateTree(r) \/ OpenRecord(r) \/ CreateRecord(r)
              \/ OpenActive(r) \/ Activate(r) \/ ActiveLifecycle(r)
              \/ Commit(r) \/ PipelineEnds(r)
              \/ OpenFinish(r) \/ FinishState(r) \/ FinishLogged(r)
              \/ FinishUnreadable(r) \/ FinishLifecycle(r) \/ Exit(r)

CommandStep(c) == \/ CancelKill(c) \/ CancelTooLate(c) \/ CancelOpens(c)
                  \/ CancelState(c) \/ CancelLogged(c) \/ CancelUnreadable(c)
                  \/ CancelLifecycle(c) \/ CleanupTarget(c) \/ RemoveTree(c)
                  \/ DeleteBranch(c) \/ CleanedOpens(c) \/ Cleaned(c)

Next ==
  /\ UNCHANGED scenario
  /\ \/ \E r \in scenario.runs : RunCheck(r) \/ RunStep(r) \/ RunFault(r) \/ OwnerMerges(r)
     \/ \E c \in scenario.commands :
          \/ CommandStep(c) \/ CommandFault(c)
          \/ \E r \in scenario.runs : CancelBegin(c, r) \/ CleanupBegin(c, r)

Spec == Init /\ [][Next]_<<vars, scenario>>

\* A process that runs takes its next step: the agents run under a timeout.
FairSpec == /\ Spec
            /\ \A r \in Runs : WF_vars(RunStep(r))
            /\ \A c \in Commands : WF_vars(CommandStep(c))

\* The operator repeats cancel and cleanup of every Run until they are taken.
DiligentSpec ==
  /\ FairSpec
  /\ \A c \in Commands, r \in Runs :
       SF_vars(CancelBegin(c, r)) /\ SF_vars(CleanupBegin(c, r))

-----------------------------------------------------------------------------
(* Properties. *)

\* Files, Git and processes hold what the code can write.
TypeOK ==
  /\ state \in [Runs -> {"NONE", "EMPTY", "TORN", "CREATED", "ACTIVE", "CLEANED"} \cup Results]
  /\ life \in [Runs -> [status : {"NONE", "ACTIVE"} \cup Results, pid : Pids \cup {0}]]
  /\ tree \in [Runs -> BOOLEAN]
  /\ branch \in [Runs -> {"none", "base", "ahead", "merged"}]
  /\ pc \in [Runs -> RunPcs] /\ pid \in [Runs -> Pids \cup {0}]
  /\ result \in [Runs -> {"NONE"} \cup Results]
  /\ \A c \in Commands :
       /\ cmd[c].pc \in {"idle"} \cup CancelPcs \cup CleanupPcs
       /\ cmd[c].run \in Runs \cup {0} /\ cmd[c].pid \in Pids \cup {0}
  /\ faults \in 0..scenario.faults

\* An operator who gives one command at a time has one Run of an issue that both
\* files call ACTIVE, whatever crashes and whatever is torn: the search passes
\* over a Run whose state.json it cannot read, and none of those is in its
\* pipeline or can be ACTIVE again.
Working(r) == state[r] = "ACTIVE" /\ life[r].status = "ACTIVE"
OneActivePerIssue ==
  ~scenario.overlap =>
    \A r, s \in Runs : Working(r) /\ Working(s) /\ IssueOf[r] = IssueOf[s] => r = s

\* One command at a time, cleanup takes no worktree from under agents that still
\* write in it, and the files keep their types.
SparesWorkers ==
  TypeOK /\ (~scenario.overlap => \A r \in Runs : pc[r] = "pipeline" => tree[r])

\* Commits that the base branch has are not a branch that a single cleanup
\* deletes.
MergedIsKept ==
  [][~scenario.overlap =>
       \A r \in Runs : branch[r] = "merged" => branch'[r] = "merged"]_vars

\* CLEANED in state.json is true of Git, and nothing writes it too early.
CleanedIsGone ==
  \A r \in Runs : state[r] = "CLEANED" => ~tree[r] /\ branch[r] = "none"

\* What cancel reports stays: no process of the Run is left that could write
\* another result over CANCELLED, and no second command does.
CancelledIsFinal ==
  [][\A r \in Runs : life[r].status = "CANCELLED" => life'[r].status = "CANCELLED"]_vars

\* Unless something crashed, an ACTIVE Run comes to an end in the lifecycle, but
\* for one whose worktree an overlapping cleanup took, and one that cancel killed
\* in the middle of its last write: no command can read that state.json again.
ActiveEnds ==
  \A r \in Runs :
    life[r].status = "ACTIVE"
      ~> life[r].status # "ACTIVE" \/ faults > 0 \/ ~tree[r] \/ [](r \notin Records)

-----------------------------------------------------------------------------
(* What the documents say and the code does not do. *)

\* "Controller crash: ... 2. Cleanup": the worktree of a crashed Run that has
\* commits goes away when the operator keeps asking.
CrashIsCleanable ==
  \A r \in Runs : pc[r] = "ended" /\ branch[r] = "ahead" /\ tree[r]
                 ~> ~tree[r] \/ branch[r] = "merged"

=============================================================================
