----------------------- MODULE TicketController_proofs -----------------------
(***************************************************************************)
(* Proofs about TicketController, for every number of Runs, commands and   *)
(* process ids and every scenario, with process ids that are given again.  *)
(* What needs one command at a time is in Serial.                          *)
(***************************************************************************)
EXTENDS TicketController, TLAPS

-----------------------------------------------------------------------------
Cmds == [pc : {"idle"} \cup CancelPcs \cup CleanupPcs, run : Runs \cup {0}, pid : Pids \cup {0}]

Types ==
  /\ TypeOK
  /\ cmd \in [Commands -> Cmds]
  /\ \A c \in Commands : cmd[c].pc # "idle" => cmd[c].run \in Runs
  /\ scenario \in Scenarios

\* Processes that live have different ids; the lifecycle of a Run that lives has
\* its id, and so has a cancel of it.
Processes ==
  /\ \A r \in Runs : Live(r) <=> pc[r] \notin {"none", "ended"}
  /\ \A r, s \in Runs : Live(r) /\ pid[r] = pid[s] => r = s
  /\ \A r \in Runs : life[r].status = "ACTIVE" =>
       life[r].pid # 0 /\ (Live(r) => life[r].pid = pid[r])
  /\ \A c \in Commands : cmd[c].pc = "kill" =>
       cmd[c].pid # 0 /\ (Live(cmd[c].run) => cmd[c].pid = pid[cmd[c].run])

\* How far a Run and the commands about it are.  Until its lifecycle is ACTIVE
\* the Run alone writes its state.json.
Progress ==
  /\ \A r \in Runs : pc[r] \in {"pipeline"} \cup Ending => life[r].status = "ACTIVE"
  /\ \A r \in Runs : pc[r] \in Starting \cup {"none"} => life[r].status = "NONE"
  /\ \A r \in Runs : pc[r] \in {"none", "create", "record"} => state[r] = "NONE"
  /\ \A r \in Runs : pc[r] \in {"recordFill", "activateFill"} => state[r] = "EMPTY"
  /\ \A r \in Runs : pc[r] = "activate" => state[r] = "CREATED"
  /\ \A r \in Runs : pc[r] = "lifecycle" => state[r] = "ACTIVE"
  /\ \A r \in Runs : pc[r] \in Starting \cup {"none"} => branch[r] \in {"none", "base"}
  /\ \A r \in Runs : pc[r] \in Ending => result[r] \in Results
  /\ \A r \in Runs : life[r].status = "CANCELLED" => pc[r] \in {"exit", "ended"}
  /\ \A c \in Commands : cmd[c].pc # "idle" =>
       pc[cmd[c].run] \notin {"none", "create", "record", "recordFill"}
  /\ \A c \in Commands : cmd[c].pc \in CleanupPcs \ {"target"} => pc[cmd[c].run] \notin Starting
  /\ \A c \in Commands : cmd[c].pc \in CancelPcs => pc[cmd[c].run] \notin Starting
  /\ \A c \in Commands : cmd[c].pc \in CancelPcs \ {"kill"} => pc[cmd[c].run] = "ended"

\* How much of a Run a cleanup has removed; nothing makes it again.
Cleaning ==
  /\ \A r \in Runs : tree[r] \/ branch[r] # "none" => pc[r] \notin {"none", "create"}
  /\ \A c \in Commands : cmd[c].pc \in {"branch", "cleaned", "cleanedFill"} => ~tree[cmd[c].run]
  /\ \A c \in Commands : cmd[c].pc \in {"cleaned", "cleanedFill"} => branch[cmd[c].run] = "none"
  /\ CleanedIsGone

\* One command at a time: one Run is being started, none of its issue is
\* ACTIVE in both files, and a cleanup works on a Run that has ended and is not
\* merged.
Serial ==
  ~scenario.overlap =>
    /\ \A r, s \in Runs : pc[r] \in Starting /\ pc[s] \in Starting => r = s
    /\ \A r, s \in Runs : pc[r] \in Starting /\ IssueOf[r] = IssueOf[s] => ~Working(s)
    /\ \A r, s \in Runs : Working(r) /\ Working(s) /\ IssueOf[r] = IssueOf[s] => r = s
    /\ \A r \in Runs : pc[r] \in (Starting \ {"create"}) \cup {"pipeline"} => tree[r]
    /\ \A c \in Commands : cmd[c].pc \in CleanupPcs => pc[cmd[c].run] \in {"exit", "ended"}
    /\ \A c \in Commands : cmd[c].pc \in {"tree", "branch"} => branch[cmd[c].run] # "merged"

Inv == Types /\ Processes /\ Progress /\ Cleaning /\ Serial

-----------------------------------------------------------------------------
\* Files, Git, processes and commands keep their types.
LEMMA TypeStep ==
  ASSUME Types, [Next]_<<vars, scenario>>
  PROVE  Types'
<1> USE ControllerAssumption DEF Types, TypeOK, Cmds, Results, Starting, Ending, RunPcs,
    CancelPcs, CleanupPcs, Goto, files, git, procs
<1>1. ASSUME NEW r \in Runs, RunCheck(r), UNCHANGED scenario PROVE Types'
  BY <1>1 DEF RunCheck, ActiveRuns, SameIssue, Records, OperatorFree, Busy, Owners
<1>2. ASSUME NEW r \in Runs, CreateTree(r), UNCHANGED scenario PROVE Types'
  BY <1>2 DEF CreateTree
<1>3. ASSUME NEW r \in Runs, OpenRecord(r), UNCHANGED scenario PROVE Types'
  BY <1>3 DEF OpenRecord, OpenStep, OpenState
<1>4. ASSUME NEW r \in Runs, CreateRecord(r), UNCHANGED scenario PROVE Types'
  BY <1>4 DEF CreateRecord, FillStep, FillState
<1>5. ASSUME NEW r \in Runs, OpenActive(r), UNCHANGED scenario PROVE Types'
  BY <1>5 DEF OpenActive, OpenStep, OpenState
<1>6. ASSUME NEW r \in Runs, Activate(r), UNCHANGED scenario PROVE Types'
  BY <1>6 DEF Activate, FillStep, FillState
<1>7. ASSUME NEW r \in Runs, ActiveLifecycle(r), UNCHANGED scenario PROVE Types'
  BY <1>7 DEF ActiveLifecycle, LifecycleStep, WriteLifecycle
<1>8. ASSUME NEW r \in Runs, Commit(r), UNCHANGED scenario PROVE Types'
  BY <1>8 DEF Commit
<1>9. ASSUME NEW r \in Runs, PipelineEnds(r), UNCHANGED scenario PROVE Types'
  BY <1>9 DEF PipelineEnds
<1>10. ASSUME NEW r \in Runs, OpenFinish(r), UNCHANGED scenario PROVE Types'
  BY <1>10 DEF OpenFinish, OpenStep, OpenState
<1>11. ASSUME NEW r \in Runs, FinishState(r), UNCHANGED scenario PROVE Types'
  BY <1>11 DEF FinishState, FillStep, FillState
<1>12. ASSUME NEW r \in Runs, FinishLogged(r), UNCHANGED scenario PROVE Types'
  BY <1>12 DEF FinishLogged
<1>13. ASSUME NEW r \in Runs, FinishUnreadable(r), UNCHANGED scenario PROVE Types'
  BY <1>13 DEF FinishUnreadable, Unreadable, Dies
<1>14. ASSUME NEW r \in Runs, FinishLifecycle(r), UNCHANGED scenario PROVE Types'
  BY <1>14 DEF FinishLifecycle, LifecycleStep, WriteLifecycle
<1>15. ASSUME NEW r \in Runs, Exit(r), UNCHANGED scenario PROVE Types'
  BY <1>15 DEF Exit, Dies
<1>16. ASSUME NEW r \in Runs, RunFault(r), UNCHANGED scenario PROVE Types'
  BY <1>16 DEF RunFault, Dies
<1>17. ASSUME NEW r \in Runs, OwnerMerges(r), UNCHANGED scenario PROVE Types'
  BY <1>17 DEF OwnerMerges, OperatorFree, Busy
<1>18. ASSUME NEW c \in Commands, CancelKill(c), UNCHANGED scenario PROVE Types'
  BY <1>18 DEF CancelKill, Owners, Dies, Step
<1>19. ASSUME NEW c \in Commands, CancelTooLate(c), UNCHANGED scenario PROVE Types'
  BY <1>19 DEF CancelTooLate, Done, NoCmd
<1>20. ASSUME NEW c \in Commands, CancelOpens(c), UNCHANGED scenario PROVE Types'
  BY <1>20 DEF CancelOpens, OpenState, Step
<1>21. ASSUME NEW c \in Commands, CancelState(c), UNCHANGED scenario PROVE Types'
  BY <1>21 DEF CancelState, FillState, Step
<1>22. ASSUME NEW c \in Commands, CancelLogged(c), UNCHANGED scenario PROVE Types'
  BY <1>22 DEF CancelLogged, Step
<1>23. ASSUME NEW c \in Commands, CancelUnreadable(c), UNCHANGED scenario PROVE Types'
  BY <1>23 DEF CancelUnreadable, Done, NoCmd
<1>24. ASSUME NEW c \in Commands, CancelLifecycle(c), UNCHANGED scenario PROVE Types'
  BY <1>24 DEF CancelLifecycle, WriteLifecycle, Done, NoCmd
<1>25. ASSUME NEW c \in Commands, CleanupTarget(c), UNCHANGED scenario PROVE Types'
  <2>1. cmd[c].pc = "target" /\ UNCHANGED <<files, git, procs, faults>>
    BY <1>25 DEF CleanupTarget
  <2>2. CASE Step(c, "tree") /\ Cleanable(cmd[c].run)
    BY <1>25, <2>1, <2>2 DEF Step, Cleanable, Merged
  <2>3. CASE Done(c)
    BY <1>25, <2>1, <2>3 DEF Done, NoCmd
  <2>4. QED
    BY <1>25, <2>2, <2>3 DEF CleanupTarget
<1>26. ASSUME NEW c \in Commands, RemoveTree(c), UNCHANGED scenario PROVE Types'
  <2>1. cmd[c].pc = "tree" /\ UNCHANGED <<files, branch, procs, faults>>
    BY <1>26 DEF RemoveTree
  <2>2. CASE tree' = [tree EXCEPT ![cmd[c].run] = FALSE] /\ Step(c, "branch")
    BY <1>26, <2>1, <2>2 DEF Step
  <2>3. CASE tree' = tree /\ Done(c)
    BY <1>26, <2>1, <2>3 DEF Done, NoCmd
  <2>4. QED
    BY <1>26, <2>2, <2>3 DEF RemoveTree
<1>27. ASSUME NEW c \in Commands, DeleteBranch(c), UNCHANGED scenario PROVE Types'
  <2>1. cmd[c].pc = "branch" /\ UNCHANGED <<files, tree, procs, faults>>
    BY <1>27 DEF DeleteBranch
  <2>2. CASE branch' = [branch EXCEPT ![cmd[c].run] = "none"] /\ Step(c, "cleaned")
    BY <1>27, <2>1, <2>2 DEF Step
  <2>3. CASE branch' = branch /\ Done(c)
    BY <1>27, <2>1, <2>3 DEF Done, NoCmd
  <2>4. QED
    BY <1>27, <2>2, <2>3 DEF DeleteBranch
<1>28. ASSUME NEW c \in Commands, CleanedOpens(c), UNCHANGED scenario PROVE Types'
  BY <1>28 DEF CleanedOpens, OpenState, Step
<1>29. ASSUME NEW c \in Commands, Cleaned(c), UNCHANGED scenario PROVE Types'
  BY <1>29 DEF Cleaned, FillState, Done, NoCmd
<1>30. ASSUME NEW c \in Commands, CommandFault(c), UNCHANGED scenario PROVE Types'
  BY <1>30 DEF CommandFault, Done, NoCmd
<1>31. ASSUME NEW c \in Commands, NEW r \in Runs, CancelBegin(c, r), UNCHANGED scenario
      PROVE Types'
  BY <1>31 DEF CancelBegin, Begin, Records, Owners, OperatorFree, Busy
<1>32. ASSUME NEW c \in Commands, NEW r \in Runs, CleanupBegin(c, r), UNCHANGED scenario
      PROVE Types'
  BY <1>32 DEF CleanupBegin, Begin, Records, OperatorFree, Busy
<1>33. CASE UNCHANGED <<vars, scenario>>
  BY <1>33 DEF vars
<1>34. scenario.runs \subseteq Runs /\ scenario.commands \subseteq Commands
  BY ControllerAssumption DEF Types
<1>35. QED
  BY <1>1, <1>2, <1>3, <1>4, <1>5, <1>6, <1>7, <1>8, <1>9, <1>10, <1>11, <1>12,
     <1>13, <1>14, <1>15, <1>16, <1>17, <1>18, <1>19, <1>20, <1>21, <1>22, <1>23, <1>24,
     <1>25, <1>26, <1>27, <1>28, <1>29, <1>30, <1>31, <1>32, <1>33, <1>34
     DEF Next, RunStep, CommandStep

\* A process id that is given out belongs to no other process that lives.
LEMMA ProcessStep ==
  ASSUME Types, Processes, Progress, [Next]_<<vars, scenario>>
  PROVE  Processes'
<1> USE ControllerAssumption DEF Processes, Progress, Live, Results, Starting, Ending,
    CancelPcs, CleanupPcs, Types, TypeOK, Cmds, Goto, files, git, procs
<1>1. ASSUME NEW r \in Runs, RunCheck(r), UNCHANGED scenario PROVE Processes'
  BY <1>1 DEF RunCheck, ActiveRuns, SameIssue, Records, OperatorFree, Busy, Owners
<1>2. ASSUME NEW r \in Runs, CreateTree(r), UNCHANGED scenario PROVE Processes'
  BY <1>2 DEF CreateTree
<1>3. ASSUME NEW r \in Runs, OpenRecord(r), UNCHANGED scenario PROVE Processes'
  BY <1>3 DEF OpenRecord, OpenStep, OpenState
<1>4. ASSUME NEW r \in Runs, CreateRecord(r), UNCHANGED scenario PROVE Processes'
  BY <1>4 DEF CreateRecord, FillStep, FillState
<1>5. ASSUME NEW r \in Runs, OpenActive(r), UNCHANGED scenario PROVE Processes'
  BY <1>5 DEF OpenActive, OpenStep, OpenState
<1>6. ASSUME NEW r \in Runs, Activate(r), UNCHANGED scenario PROVE Processes'
  BY <1>6 DEF Activate, FillStep, FillState
<1>7. ASSUME NEW r \in Runs, ActiveLifecycle(r), UNCHANGED scenario PROVE Processes'
  BY <1>7 DEF ActiveLifecycle, LifecycleStep, WriteLifecycle
<1>8. ASSUME NEW r \in Runs, Commit(r), UNCHANGED scenario PROVE Processes'
  BY <1>8 DEF Commit
<1>9. ASSUME NEW r \in Runs, PipelineEnds(r), UNCHANGED scenario PROVE Processes'
  BY <1>9 DEF PipelineEnds
<1>10. ASSUME NEW r \in Runs, OpenFinish(r), UNCHANGED scenario PROVE Processes'
  BY <1>10 DEF OpenFinish, OpenStep, OpenState
<1>11. ASSUME NEW r \in Runs, FinishState(r), UNCHANGED scenario PROVE Processes'
  BY <1>11 DEF FinishState, FillStep, FillState
<1>12. ASSUME NEW r \in Runs, FinishLogged(r), UNCHANGED scenario PROVE Processes'
  BY <1>12 DEF FinishLogged
<1>13. ASSUME NEW r \in Runs, FinishUnreadable(r), UNCHANGED scenario PROVE Processes'
  BY <1>13 DEF FinishUnreadable, Unreadable, Dies
<1>14. ASSUME NEW r \in Runs, FinishLifecycle(r), UNCHANGED scenario PROVE Processes'
  BY <1>14 DEF FinishLifecycle, LifecycleStep, WriteLifecycle
<1>15. ASSUME NEW r \in Runs, Exit(r), UNCHANGED scenario PROVE Processes'
  BY <1>15 DEF Exit, Dies
<1>16. ASSUME NEW r \in Runs, RunFault(r), UNCHANGED scenario PROVE Processes'
  BY <1>16 DEF RunFault, Dies
<1>17. ASSUME NEW r \in Runs, OwnerMerges(r), UNCHANGED scenario PROVE Processes'
  BY <1>17 DEF OwnerMerges, OperatorFree, Busy
<1>18. ASSUME NEW c \in Commands, CancelKill(c), UNCHANGED scenario PROVE Processes'
  BY <1>18 DEF CancelKill, Owners, Dies, Step
<1>19. ASSUME NEW c \in Commands, CancelTooLate(c), UNCHANGED scenario PROVE Processes'
  BY <1>19 DEF CancelTooLate, Done, NoCmd
<1>20. ASSUME NEW c \in Commands, CancelOpens(c), UNCHANGED scenario PROVE Processes'
  BY <1>20 DEF CancelOpens, OpenState, Step
<1>21. ASSUME NEW c \in Commands, CancelState(c), UNCHANGED scenario PROVE Processes'
  BY <1>21 DEF CancelState, FillState, Step
<1>22. ASSUME NEW c \in Commands, CancelLogged(c), UNCHANGED scenario PROVE Processes'
  BY <1>22 DEF CancelLogged, Step
<1>23. ASSUME NEW c \in Commands, CancelUnreadable(c), UNCHANGED scenario PROVE Processes'
  BY <1>23 DEF CancelUnreadable, Done, NoCmd
<1>24. ASSUME NEW c \in Commands, CancelLifecycle(c), UNCHANGED scenario PROVE Processes'
  BY <1>24 DEF CancelLifecycle, WriteLifecycle, Done, NoCmd
<1>25. ASSUME NEW c \in Commands, CleanupTarget(c), UNCHANGED scenario PROVE Processes'
  <2>1. cmd[c].pc = "target" /\ UNCHANGED <<files, git, procs, faults>>
    BY <1>25 DEF CleanupTarget
  <2>2. CASE Step(c, "tree") /\ Cleanable(cmd[c].run)
    BY <1>25, <2>1, <2>2 DEF Step, Cleanable, Merged
  <2>3. CASE Done(c)
    BY <1>25, <2>1, <2>3 DEF Done, NoCmd
  <2>4. QED
    BY <1>25, <2>2, <2>3 DEF CleanupTarget
<1>26. ASSUME NEW c \in Commands, RemoveTree(c), UNCHANGED scenario PROVE Processes'
  <2>1. cmd[c].pc = "tree" /\ UNCHANGED <<files, branch, procs, faults>>
    BY <1>26 DEF RemoveTree
  <2>2. CASE tree' = [tree EXCEPT ![cmd[c].run] = FALSE] /\ Step(c, "branch")
    BY <1>26, <2>1, <2>2 DEF Step
  <2>3. CASE tree' = tree /\ Done(c)
    BY <1>26, <2>1, <2>3 DEF Done, NoCmd
  <2>4. QED
    BY <1>26, <2>2, <2>3 DEF RemoveTree
<1>27. ASSUME NEW c \in Commands, DeleteBranch(c), UNCHANGED scenario PROVE Processes'
  <2>1. cmd[c].pc = "branch" /\ UNCHANGED <<files, tree, procs, faults>>
    BY <1>27 DEF DeleteBranch
  <2>2. CASE branch' = [branch EXCEPT ![cmd[c].run] = "none"] /\ Step(c, "cleaned")
    BY <1>27, <2>1, <2>2 DEF Step
  <2>3. CASE branch' = branch /\ Done(c)
    BY <1>27, <2>1, <2>3 DEF Done, NoCmd
  <2>4. QED
    BY <1>27, <2>2, <2>3 DEF DeleteBranch
<1>28. ASSUME NEW c \in Commands, CleanedOpens(c), UNCHANGED scenario PROVE Processes'
  BY <1>28 DEF CleanedOpens, OpenState, Step
<1>29. ASSUME NEW c \in Commands, Cleaned(c), UNCHANGED scenario PROVE Processes'
  BY <1>29 DEF Cleaned, FillState, Done, NoCmd
<1>30. ASSUME NEW c \in Commands, CommandFault(c), UNCHANGED scenario PROVE Processes'
  BY <1>30 DEF CommandFault, Done, NoCmd
<1>31. ASSUME NEW c \in Commands, NEW r \in Runs, CancelBegin(c, r), UNCHANGED scenario
      PROVE Processes'
  BY <1>31 DEF CancelBegin, Begin, Records, Owners, OperatorFree, Busy
<1>32. ASSUME NEW c \in Commands, NEW r \in Runs, CleanupBegin(c, r), UNCHANGED scenario
      PROVE Processes'
  BY <1>32 DEF CleanupBegin, Begin, Records, OperatorFree, Busy
<1>33. CASE UNCHANGED <<vars, scenario>>
  BY <1>33 DEF vars
<1>34. scenario.runs \subseteq Runs /\ scenario.commands \subseteq Commands
  BY ControllerAssumption DEF Types
<1>35. QED
  BY <1>1, <1>2, <1>3, <1>4, <1>5, <1>6, <1>7, <1>8, <1>9, <1>10, <1>11, <1>12,
     <1>13, <1>14, <1>15, <1>16, <1>17, <1>18, <1>19, <1>20, <1>21, <1>22, <1>23, <1>24,
     <1>25, <1>26, <1>27, <1>28, <1>29, <1>30, <1>31, <1>32, <1>33, <1>34
     DEF Next, RunStep, CommandStep

\* The files follow the process, or the cancel that ended it.
LEMMA ProgressStep ==
  ASSUME Types, Processes, Progress, [Next]_<<vars, scenario>>
  PROVE  Progress'
<1> USE ControllerAssumption DEF Progress, Processes, Live, Results, Starting, Ending,
    CancelPcs, CleanupPcs, Types, TypeOK, Cmds, Goto, files, git, procs
<1>1. ASSUME NEW r \in Runs, RunCheck(r), UNCHANGED scenario PROVE Progress'
  BY <1>1 DEF RunCheck, ActiveRuns, SameIssue, Records, OperatorFree, Busy, Owners
<1>2. ASSUME NEW r \in Runs, CreateTree(r), UNCHANGED scenario PROVE Progress'
  BY <1>2 DEF CreateTree
<1>3. ASSUME NEW r \in Runs, OpenRecord(r), UNCHANGED scenario PROVE Progress'
  BY <1>3 DEF OpenRecord, OpenStep, OpenState
<1>4. ASSUME NEW r \in Runs, CreateRecord(r), UNCHANGED scenario PROVE Progress'
  BY <1>4 DEF CreateRecord, FillStep, FillState
<1>5. ASSUME NEW r \in Runs, OpenActive(r), UNCHANGED scenario PROVE Progress'
  BY <1>5 DEF OpenActive, OpenStep, OpenState
<1>6. ASSUME NEW r \in Runs, Activate(r), UNCHANGED scenario PROVE Progress'
  BY <1>6 DEF Activate, FillStep, FillState
<1>7. ASSUME NEW r \in Runs, ActiveLifecycle(r), UNCHANGED scenario PROVE Progress'
  BY <1>7 DEF ActiveLifecycle, LifecycleStep, WriteLifecycle
<1>8. ASSUME NEW r \in Runs, Commit(r), UNCHANGED scenario PROVE Progress'
  BY <1>8 DEF Commit
<1>9. ASSUME NEW r \in Runs, PipelineEnds(r), UNCHANGED scenario PROVE Progress'
  BY <1>9 DEF PipelineEnds
<1>10. ASSUME NEW r \in Runs, OpenFinish(r), UNCHANGED scenario PROVE Progress'
  BY <1>10 DEF OpenFinish, OpenStep, OpenState
<1>11. ASSUME NEW r \in Runs, FinishState(r), UNCHANGED scenario PROVE Progress'
  BY <1>11 DEF FinishState, FillStep, FillState
<1>12. ASSUME NEW r \in Runs, FinishLogged(r), UNCHANGED scenario PROVE Progress'
  BY <1>12 DEF FinishLogged
<1>13. ASSUME NEW r \in Runs, FinishUnreadable(r), UNCHANGED scenario PROVE Progress'
  BY <1>13 DEF FinishUnreadable, Unreadable, Dies
<1>14. ASSUME NEW r \in Runs, FinishLifecycle(r), UNCHANGED scenario PROVE Progress'
  BY <1>14 DEF FinishLifecycle, LifecycleStep, WriteLifecycle
<1>15. ASSUME NEW r \in Runs, Exit(r), UNCHANGED scenario PROVE Progress'
  BY <1>15 DEF Exit, Dies
<1>16. ASSUME NEW r \in Runs, RunFault(r), UNCHANGED scenario PROVE Progress'
  BY <1>16 DEF RunFault, Dies
<1>17. ASSUME NEW r \in Runs, OwnerMerges(r), UNCHANGED scenario PROVE Progress'
  BY <1>17 DEF OwnerMerges, OperatorFree, Busy
<1>18. ASSUME NEW c \in Commands, CancelKill(c), UNCHANGED scenario PROVE Progress'
  BY <1>18 DEF CancelKill, Owners, Dies, Step
<1>19. ASSUME NEW c \in Commands, CancelTooLate(c), UNCHANGED scenario PROVE Progress'
  BY <1>19 DEF CancelTooLate, Done, NoCmd
<1>20. ASSUME NEW c \in Commands, CancelOpens(c), UNCHANGED scenario PROVE Progress'
  BY <1>20 DEF CancelOpens, OpenState, Step
<1>21. ASSUME NEW c \in Commands, CancelState(c), UNCHANGED scenario PROVE Progress'
  BY <1>21 DEF CancelState, FillState, Step
<1>22. ASSUME NEW c \in Commands, CancelLogged(c), UNCHANGED scenario PROVE Progress'
  BY <1>22 DEF CancelLogged, Step
<1>23. ASSUME NEW c \in Commands, CancelUnreadable(c), UNCHANGED scenario PROVE Progress'
  BY <1>23 DEF CancelUnreadable, Done, NoCmd
<1>24. ASSUME NEW c \in Commands, CancelLifecycle(c), UNCHANGED scenario PROVE Progress'
  BY <1>24 DEF CancelLifecycle, WriteLifecycle, Done, NoCmd
<1>25. ASSUME NEW c \in Commands, CleanupTarget(c), UNCHANGED scenario PROVE Progress'
  <2>1. cmd[c].pc = "target" /\ UNCHANGED <<files, git, procs, faults>>
    BY <1>25 DEF CleanupTarget
  <2>2. CASE Step(c, "tree") /\ Cleanable(cmd[c].run)
    BY <1>25, <2>1, <2>2 DEF Step, Cleanable, Merged
  <2>3. CASE Done(c)
    BY <1>25, <2>1, <2>3 DEF Done, NoCmd
  <2>4. QED
    BY <1>25, <2>2, <2>3 DEF CleanupTarget
<1>26. ASSUME NEW c \in Commands, RemoveTree(c), UNCHANGED scenario PROVE Progress'
  <2>1. cmd[c].pc = "tree" /\ UNCHANGED <<files, branch, procs, faults>>
    BY <1>26 DEF RemoveTree
  <2>2. CASE tree' = [tree EXCEPT ![cmd[c].run] = FALSE] /\ Step(c, "branch")
    BY <1>26, <2>1, <2>2 DEF Step
  <2>3. CASE tree' = tree /\ Done(c)
    BY <1>26, <2>1, <2>3 DEF Done, NoCmd
  <2>4. QED
    BY <1>26, <2>2, <2>3 DEF RemoveTree
<1>27. ASSUME NEW c \in Commands, DeleteBranch(c), UNCHANGED scenario PROVE Progress'
  <2>1. cmd[c].pc = "branch" /\ UNCHANGED <<files, tree, procs, faults>>
    BY <1>27 DEF DeleteBranch
  <2>2. CASE branch' = [branch EXCEPT ![cmd[c].run] = "none"] /\ Step(c, "cleaned")
    BY <1>27, <2>1, <2>2 DEF Step
  <2>3. CASE branch' = branch /\ Done(c)
    BY <1>27, <2>1, <2>3 DEF Done, NoCmd
  <2>4. QED
    BY <1>27, <2>2, <2>3 DEF DeleteBranch
<1>28. ASSUME NEW c \in Commands, CleanedOpens(c), UNCHANGED scenario PROVE Progress'
  BY <1>28 DEF CleanedOpens, OpenState, Step
<1>29. ASSUME NEW c \in Commands, Cleaned(c), UNCHANGED scenario PROVE Progress'
  BY <1>29 DEF Cleaned, FillState, Done, NoCmd
<1>30. ASSUME NEW c \in Commands, CommandFault(c), UNCHANGED scenario PROVE Progress'
  BY <1>30 DEF CommandFault, Done, NoCmd
<1>31. ASSUME NEW c \in Commands, NEW r \in Runs, CancelBegin(c, r), UNCHANGED scenario
      PROVE Progress'
  BY <1>31 DEF CancelBegin, Begin, Records, Owners, OperatorFree, Busy
<1>32. ASSUME NEW c \in Commands, NEW r \in Runs, CleanupBegin(c, r), UNCHANGED scenario
      PROVE Progress'
  BY <1>32 DEF CleanupBegin, Begin, Records, OperatorFree, Busy
<1>33. CASE UNCHANGED <<vars, scenario>>
  BY <1>33 DEF vars
<1>34. scenario.runs \subseteq Runs /\ scenario.commands \subseteq Commands
  BY ControllerAssumption DEF Types
<1>35. QED
  BY <1>1, <1>2, <1>3, <1>4, <1>5, <1>6, <1>7, <1>8, <1>9, <1>10, <1>11, <1>12,
     <1>13, <1>14, <1>15, <1>16, <1>17, <1>18, <1>19, <1>20, <1>21, <1>22, <1>23, <1>24,
     <1>25, <1>26, <1>27, <1>28, <1>29, <1>30, <1>31, <1>32, <1>33, <1>34
     DEF Next, RunStep, CommandStep

\* Only a Run in the making gets a worktree and a branch.
LEMMA CleaningStep ==
  ASSUME Types, Progress, Cleaning, [Next]_<<vars, scenario>>
  PROVE  Cleaning'
<1> USE DEF Cleaning, CleanedIsGone, Results, Starting, Ending, Progress, Types, TypeOK,
    Cmds, Goto, files, git, procs
<1>1. ASSUME NEW r \in Runs, RunCheck(r), UNCHANGED scenario PROVE Cleaning'
  BY <1>1 DEF RunCheck, ActiveRuns, SameIssue, Records, OperatorFree, Busy, Owners
<1>2. ASSUME NEW r \in Runs, CreateTree(r), UNCHANGED scenario PROVE Cleaning'
  BY <1>2 DEF CreateTree
<1>3. ASSUME NEW r \in Runs, OpenRecord(r), UNCHANGED scenario PROVE Cleaning'
  BY <1>3 DEF OpenRecord, OpenStep, OpenState
<1>4. ASSUME NEW r \in Runs, CreateRecord(r), UNCHANGED scenario PROVE Cleaning'
  BY <1>4 DEF CreateRecord, FillStep, FillState
<1>5. ASSUME NEW r \in Runs, OpenActive(r), UNCHANGED scenario PROVE Cleaning'
  BY <1>5 DEF OpenActive, OpenStep, OpenState
<1>6. ASSUME NEW r \in Runs, Activate(r), UNCHANGED scenario PROVE Cleaning'
  BY <1>6 DEF Activate, FillStep, FillState
<1>7. ASSUME NEW r \in Runs, ActiveLifecycle(r), UNCHANGED scenario PROVE Cleaning'
  BY <1>7 DEF ActiveLifecycle, LifecycleStep, WriteLifecycle
<1>8. ASSUME NEW r \in Runs, Commit(r), UNCHANGED scenario PROVE Cleaning'
  BY <1>8 DEF Commit
<1>9. ASSUME NEW r \in Runs, PipelineEnds(r), UNCHANGED scenario PROVE Cleaning'
  BY <1>9 DEF PipelineEnds
<1>10. ASSUME NEW r \in Runs, OpenFinish(r), UNCHANGED scenario PROVE Cleaning'
  BY <1>10 DEF OpenFinish, OpenStep, OpenState
<1>11. ASSUME NEW r \in Runs, FinishState(r), UNCHANGED scenario PROVE Cleaning'
  BY <1>11 DEF FinishState, FillStep, FillState
<1>12. ASSUME NEW r \in Runs, FinishLogged(r), UNCHANGED scenario PROVE Cleaning'
  BY <1>12 DEF FinishLogged
<1>13. ASSUME NEW r \in Runs, FinishUnreadable(r), UNCHANGED scenario PROVE Cleaning'
  BY <1>13 DEF FinishUnreadable, Unreadable, Dies
<1>14. ASSUME NEW r \in Runs, FinishLifecycle(r), UNCHANGED scenario PROVE Cleaning'
  BY <1>14 DEF FinishLifecycle, LifecycleStep, WriteLifecycle
<1>15. ASSUME NEW r \in Runs, Exit(r), UNCHANGED scenario PROVE Cleaning'
  BY <1>15 DEF Exit, Dies
<1>16. ASSUME NEW r \in Runs, RunFault(r), UNCHANGED scenario PROVE Cleaning'
  BY <1>16 DEF RunFault, Dies
<1>17. ASSUME NEW r \in Runs, OwnerMerges(r), UNCHANGED scenario PROVE Cleaning'
  BY <1>17 DEF OwnerMerges, OperatorFree, Busy
<1>18. ASSUME NEW c \in Commands, CancelKill(c), UNCHANGED scenario PROVE Cleaning'
  BY <1>18 DEF CancelKill, Owners, Dies, Step
<1>19. ASSUME NEW c \in Commands, CancelTooLate(c), UNCHANGED scenario PROVE Cleaning'
  BY <1>19 DEF CancelTooLate, Done, NoCmd
<1>20. ASSUME NEW c \in Commands, CancelOpens(c), UNCHANGED scenario PROVE Cleaning'
  BY <1>20 DEF CancelOpens, OpenState, Step
<1>21. ASSUME NEW c \in Commands, CancelState(c), UNCHANGED scenario PROVE Cleaning'
  BY <1>21 DEF CancelState, FillState, Step
<1>22. ASSUME NEW c \in Commands, CancelLogged(c), UNCHANGED scenario PROVE Cleaning'
  BY <1>22 DEF CancelLogged, Step
<1>23. ASSUME NEW c \in Commands, CancelUnreadable(c), UNCHANGED scenario PROVE Cleaning'
  BY <1>23 DEF CancelUnreadable, Done, NoCmd
<1>24. ASSUME NEW c \in Commands, CancelLifecycle(c), UNCHANGED scenario PROVE Cleaning'
  BY <1>24 DEF CancelLifecycle, WriteLifecycle, Done, NoCmd
<1>25. ASSUME NEW c \in Commands, CleanupTarget(c), UNCHANGED scenario PROVE Cleaning'
  <2>1. cmd[c].pc = "target" /\ UNCHANGED <<files, git, procs, faults>>
    BY <1>25 DEF CleanupTarget
  <2>2. CASE Step(c, "tree") /\ Cleanable(cmd[c].run)
    BY <1>25, <2>1, <2>2 DEF Step, Cleanable, Merged
  <2>3. CASE Done(c)
    BY <1>25, <2>1, <2>3 DEF Done, NoCmd
  <2>4. QED
    BY <1>25, <2>2, <2>3 DEF CleanupTarget
<1>26. ASSUME NEW c \in Commands, RemoveTree(c), UNCHANGED scenario PROVE Cleaning'
  <2>1. cmd[c].pc = "tree" /\ UNCHANGED <<files, branch, procs, faults>>
    BY <1>26 DEF RemoveTree
  <2>2. CASE tree' = [tree EXCEPT ![cmd[c].run] = FALSE] /\ Step(c, "branch")
    BY <1>26, <2>1, <2>2 DEF Step
  <2>3. CASE tree' = tree /\ Done(c)
    BY <1>26, <2>1, <2>3 DEF Done, NoCmd
  <2>4. QED
    BY <1>26, <2>2, <2>3 DEF RemoveTree
<1>27. ASSUME NEW c \in Commands, DeleteBranch(c), UNCHANGED scenario PROVE Cleaning'
  <2>1. cmd[c].pc = "branch" /\ UNCHANGED <<files, tree, procs, faults>>
    BY <1>27 DEF DeleteBranch
  <2>2. CASE branch' = [branch EXCEPT ![cmd[c].run] = "none"] /\ Step(c, "cleaned")
    BY <1>27, <2>1, <2>2 DEF Step
  <2>3. CASE branch' = branch /\ Done(c)
    BY <1>27, <2>1, <2>3 DEF Done, NoCmd
  <2>4. QED
    BY <1>27, <2>2, <2>3 DEF DeleteBranch
<1>28. ASSUME NEW c \in Commands, CleanedOpens(c), UNCHANGED scenario PROVE Cleaning'
  BY <1>28 DEF CleanedOpens, OpenState, Step
<1>29. ASSUME NEW c \in Commands, Cleaned(c), UNCHANGED scenario PROVE Cleaning'
  BY <1>29 DEF Cleaned, FillState, Done, NoCmd
<1>30. ASSUME NEW c \in Commands, CommandFault(c), UNCHANGED scenario PROVE Cleaning'
  BY <1>30 DEF CommandFault, Done, NoCmd
<1>31. ASSUME NEW c \in Commands, NEW r \in Runs, CancelBegin(c, r), UNCHANGED scenario
      PROVE Cleaning'
  BY <1>31 DEF CancelBegin, Begin, Records, Owners, OperatorFree, Busy
<1>32. ASSUME NEW c \in Commands, NEW r \in Runs, CleanupBegin(c, r), UNCHANGED scenario
      PROVE Cleaning'
  BY <1>32 DEF CleanupBegin, Begin, Records, OperatorFree, Busy
<1>33. CASE UNCHANGED <<vars, scenario>>
  BY <1>33 DEF vars
<1>34. scenario.runs \subseteq Runs /\ scenario.commands \subseteq Commands
  BY ControllerAssumption DEF Types
<1>35. QED
  BY <1>1, <1>2, <1>3, <1>4, <1>5, <1>6, <1>7, <1>8, <1>9, <1>10, <1>11, <1>12,
     <1>13, <1>14, <1>15, <1>16, <1>17, <1>18, <1>19, <1>20, <1>21, <1>22, <1>23, <1>24,
     <1>25, <1>26, <1>27, <1>28, <1>29, <1>30, <1>31, <1>32, <1>33, <1>34
     DEF Next, RunStep, CommandStep

\* A command that waits for the others sees what they left.
LEMMA SerialStep ==
  ASSUME Types, Processes, Progress, Cleaning, Serial, [Next]_<<vars, scenario>>
  PROVE  Serial'
<1> USE DEF Serial, Working, Processes, Progress, Cleaning, Starting, Ending, CleanupPcs,
    CancelPcs, Results, Types, TypeOK, Cmds, Goto, files, git, procs
<1>1. ASSUME NEW r \in Runs, RunCheck(r), UNCHANGED scenario PROVE Serial'
  <2>1. ActiveRuns(r) = {} /\ pc' = [pc EXCEPT ![r] = "create"] /\ UNCHANGED <<files, git, cmd, faults>>
    BY <1>1 DEF RunCheck
  <2>2. \A s \in Runs : IssueOf[r] = IssueOf[s] => ~Working(s)
    BY <2>1 DEF ActiveRuns, SameIssue, Records
  <2>3. ~scenario.overlap => \A s \in Runs : pc[s] \notin Starting
    BY <1>1 DEF RunCheck, OperatorFree, Busy
  <2>4. pc[r] = "none"
    BY <1>1 DEF RunCheck
  <2>5. QED
    BY <1>1, <2>1, <2>2, <2>3, <2>4
<1>2. ASSUME NEW r \in Runs, CreateTree(r), UNCHANGED scenario PROVE Serial'
  BY <1>2 DEF CreateTree
<1>3. ASSUME NEW r \in Runs, OpenRecord(r), UNCHANGED scenario PROVE Serial'
  BY <1>3 DEF OpenRecord, OpenStep, OpenState
<1>4. ASSUME NEW r \in Runs, CreateRecord(r), UNCHANGED scenario PROVE Serial'
  BY <1>4 DEF CreateRecord, FillStep, FillState
<1>5. ASSUME NEW r \in Runs, OpenActive(r), UNCHANGED scenario PROVE Serial'
  BY <1>5 DEF OpenActive, OpenStep, OpenState
<1>6. ASSUME NEW r \in Runs, Activate(r), UNCHANGED scenario PROVE Serial'
  BY <1>6 DEF Activate, FillStep, FillState
<1>7. ASSUME NEW r \in Runs, ActiveLifecycle(r), UNCHANGED scenario PROVE Serial'
  BY <1>7 DEF ActiveLifecycle, LifecycleStep, WriteLifecycle
<1>8. ASSUME NEW r \in Runs, Commit(r), UNCHANGED scenario PROVE Serial'
  BY <1>8 DEF Commit
<1>9. ASSUME NEW r \in Runs, PipelineEnds(r), UNCHANGED scenario PROVE Serial'
  BY <1>9 DEF PipelineEnds
<1>10. ASSUME NEW r \in Runs, OpenFinish(r), UNCHANGED scenario PROVE Serial'
  BY <1>10 DEF OpenFinish, OpenStep, OpenState
<1>11. ASSUME NEW r \in Runs, FinishState(r), UNCHANGED scenario PROVE Serial'
  BY <1>11 DEF FinishState, FillStep, FillState
<1>12. ASSUME NEW r \in Runs, FinishLogged(r), UNCHANGED scenario PROVE Serial'
  BY <1>12 DEF FinishLogged
<1>13. ASSUME NEW r \in Runs, FinishUnreadable(r), UNCHANGED scenario PROVE Serial'
  BY <1>13 DEF FinishUnreadable, Unreadable, Dies
<1>14. ASSUME NEW r \in Runs, FinishLifecycle(r), UNCHANGED scenario PROVE Serial'
  BY <1>14 DEF FinishLifecycle, LifecycleStep, WriteLifecycle
<1>15. ASSUME NEW r \in Runs, Exit(r), UNCHANGED scenario PROVE Serial'
  BY <1>15 DEF Exit, Dies
<1>16. ASSUME NEW r \in Runs, RunFault(r), UNCHANGED scenario PROVE Serial'
  BY <1>16 DEF RunFault, Dies
<1>17. ASSUME NEW r \in Runs, OwnerMerges(r), UNCHANGED scenario PROVE Serial'
  BY <1>17 DEF OwnerMerges, OperatorFree, Busy
<1>18. ASSUME NEW c \in Commands, CancelKill(c), UNCHANGED scenario PROVE Serial'
  BY <1>18 DEF CancelKill, Owners, Dies, Step
<1>19. ASSUME NEW c \in Commands, CancelTooLate(c), UNCHANGED scenario PROVE Serial'
  BY <1>19 DEF CancelTooLate, Done, NoCmd
<1>20. ASSUME NEW c \in Commands, CancelOpens(c), UNCHANGED scenario PROVE Serial'
  BY <1>20 DEF CancelOpens, OpenState, Step
<1>21. ASSUME NEW c \in Commands, CancelState(c), UNCHANGED scenario PROVE Serial'
  BY <1>21 DEF CancelState, FillState, Step
<1>22. ASSUME NEW c \in Commands, CancelLogged(c), UNCHANGED scenario PROVE Serial'
  BY <1>22 DEF CancelLogged, Step
<1>23. ASSUME NEW c \in Commands, CancelUnreadable(c), UNCHANGED scenario PROVE Serial'
  BY <1>23 DEF CancelUnreadable, Done, NoCmd
<1>24. ASSUME NEW c \in Commands, CancelLifecycle(c), UNCHANGED scenario PROVE Serial'
  BY <1>24 DEF CancelLifecycle, WriteLifecycle, Done, NoCmd
<1>25. ASSUME NEW c \in Commands, CleanupTarget(c), UNCHANGED scenario PROVE Serial'
  <2>1. cmd[c].pc = "target" /\ UNCHANGED <<files, git, procs, faults>>
    BY <1>25 DEF CleanupTarget
  <2>2. CASE Step(c, "tree") /\ Cleanable(cmd[c].run)
    BY <1>25, <2>1, <2>2 DEF Step, Cleanable, Merged
  <2>3. CASE Done(c)
    BY <1>25, <2>1, <2>3 DEF Done, NoCmd
  <2>4. QED
    BY <1>25, <2>2, <2>3 DEF CleanupTarget
<1>26. ASSUME NEW c \in Commands, RemoveTree(c), UNCHANGED scenario PROVE Serial'
  <2>1. cmd[c].pc = "tree" /\ UNCHANGED <<files, branch, procs, faults>>
    BY <1>26 DEF RemoveTree
  <2>2. CASE tree' = [tree EXCEPT ![cmd[c].run] = FALSE] /\ Step(c, "branch")
    BY <1>26, <2>1, <2>2 DEF Step
  <2>3. CASE tree' = tree /\ Done(c)
    BY <1>26, <2>1, <2>3 DEF Done, NoCmd
  <2>4. QED
    BY <1>26, <2>2, <2>3 DEF RemoveTree
<1>27. ASSUME NEW c \in Commands, DeleteBranch(c), UNCHANGED scenario PROVE Serial'
  <2>1. cmd[c].pc = "branch" /\ UNCHANGED <<files, tree, procs, faults>>
    BY <1>27 DEF DeleteBranch
  <2>2. CASE branch' = [branch EXCEPT ![cmd[c].run] = "none"] /\ Step(c, "cleaned")
    BY <1>27, <2>1, <2>2 DEF Step
  <2>3. CASE branch' = branch /\ Done(c)
    BY <1>27, <2>1, <2>3 DEF Done, NoCmd
  <2>4. QED
    BY <1>27, <2>2, <2>3 DEF DeleteBranch
<1>28. ASSUME NEW c \in Commands, CleanedOpens(c), UNCHANGED scenario PROVE Serial'
  BY <1>28 DEF CleanedOpens, OpenState, Step
<1>29. ASSUME NEW c \in Commands, Cleaned(c), UNCHANGED scenario PROVE Serial'
  BY <1>29 DEF Cleaned, FillState, Done, NoCmd
<1>30. ASSUME NEW c \in Commands, CommandFault(c), UNCHANGED scenario PROVE Serial'
  BY <1>30 DEF CommandFault, Done, NoCmd
<1>31. ASSUME NEW c \in Commands, NEW r \in Runs, CancelBegin(c, r), UNCHANGED scenario
      PROVE Serial'
  BY <1>31 DEF CancelBegin, Begin, Records, Owners, OperatorFree, Busy
<1>32. ASSUME NEW c \in Commands, NEW r \in Runs, CleanupBegin(c, r), UNCHANGED scenario
      PROVE Serial'
  <2>1. r \in Records /\ life[r].status # "ACTIVE"
    BY <1>32 DEF CleanupBegin, Begin
  <2>2. /\ cmd' = [cmd EXCEPT ![c] = [pc |-> "target", run |-> r, pid |-> 0]]
        /\ UNCHANGED <<files, git, procs, faults, scenario>>
    BY <1>32 DEF CleanupBegin, Begin
  <2>3. ~scenario.overlap => pc[r] \notin Starting
    BY <1>32 DEF CleanupBegin, Begin, OperatorFree, Busy
  <2>4. pc[r] \notin {"none", "pipeline"} \cup Ending
    BY <2>1 DEF Records
  <2>5. pc[r] \in RunPcs
    OBVIOUS
  <2>6. ~scenario.overlap => pc[r] \in {"exit", "ended"}
    BY <2>3, <2>4, <2>5 DEF RunPcs, Ending
  <2>7. /\ \A d \in Commands : d # c => cmd'[d] = cmd[d]
        /\ cmd'[c].pc = "target" /\ cmd'[c].run = r
        /\ UNCHANGED <<state, life, pc, tree, branch, scenario>>
    BY <2>2
  <2>8. ASSUME ~scenario.overlap
        PROVE  /\ \A d \in Commands : cmd'[d].pc \in CleanupPcs => pc'[cmd'[d].run] \in {"exit", "ended"}
               /\ \A d \in Commands : cmd'[d].pc \in {"tree", "branch"} => branch'[cmd'[d].run] # "merged"
    <3>1. ASSUME NEW d \in Commands, d = c
          PROVE  /\ pc'[cmd'[d].run] \in {"exit", "ended"}
                 /\ cmd'[d].pc \notin {"tree", "branch"}
      BY <2>6, <2>7, <2>8, <3>1
    <3>2. ASSUME NEW d \in Commands, d # c
          PROVE  /\ cmd'[d].pc \in CleanupPcs => pc'[cmd'[d].run] \in {"exit", "ended"}
                 /\ cmd'[d].pc \in {"tree", "branch"} => branch'[cmd'[d].run] # "merged"
      <4>1. cmd'[d] = cmd[d] /\ pc' = pc /\ branch' = branch
        BY <2>7, <3>2
      <4>2. QED
        BY <2>8, <4>1
    <3>3. QED
      BY <3>1, <3>2
  <2>9. QED
    BY <2>7, <2>8
<1>33. CASE UNCHANGED <<vars, scenario>>
  BY <1>33 DEF vars
<1>34. scenario.runs \subseteq Runs /\ scenario.commands \subseteq Commands
  BY ControllerAssumption DEF Types
<1>35. QED
  BY <1>1, <1>2, <1>3, <1>4, <1>5, <1>6, <1>7, <1>8, <1>9, <1>10, <1>11, <1>12,
     <1>13, <1>14, <1>15, <1>16, <1>17, <1>18, <1>19, <1>20, <1>21, <1>22, <1>23, <1>24,
     <1>25, <1>26, <1>27, <1>28, <1>29, <1>30, <1>31, <1>32, <1>33, <1>34
     DEF Next, RunStep, CommandStep

LEMMA InitInv == Init => Inv
<1> SUFFICES ASSUME Init PROVE Inv
  OBVIOUS
<1> USE ControllerAssumption DEF Init, NoLife, NoCmd
<1>1. TypeOK
  <2>1. life \in [Runs -> [status : {"NONE", "ACTIVE"} \cup Results, pid : Pids \cup {0}]]
    OBVIOUS
  <2>2. faults \in 0..scenario.faults
    <3>1. scenario.faults \in Nat /\ faults = 0
      OBVIOUS
    <3>2. QED
      BY <3>1
  <2>3. QED
    BY <2>1, <2>2 DEF TypeOK, RunPcs
<1>2. Types
  BY <1>1 DEF Types, Cmds
<1>3. Processes /\ Progress
  BY DEF Processes, Progress, Live, Starting, Ending, CancelPcs, CleanupPcs
<1>4. Cleaning
  BY DEF Cleaning, CleanedIsGone
<1>5. Serial
  BY DEF Serial, Working, Starting, CleanupPcs
<1>6. QED
  BY <1>2, <1>3, <1>4, <1>5 DEF Inv

LEMMA Invariance == Spec => []Inv
<1>1. Inv /\ [Next]_<<vars, scenario>> => Inv'
  BY TypeStep, ProcessStep, ProgressStep, CleaningStep, SerialStep DEF Inv
<1>2. QED
  BY InitInv, <1>1, PTL DEF Spec

-----------------------------------------------------------------------------
\* One command at a time, cleanup takes no worktree from under agents.
THEOREM SparesCorrect == Spec => []SparesWorkers
<1>1. Inv => SparesWorkers
  BY DEF Inv, Types, Serial, SparesWorkers
<1>2. QED
  BY <1>1, Invariance, PTL

\* One command at a time never gives an issue two Runs that both files call
\* ACTIVE, whatever crashes between the two steps of a write.
THEOREM ActiveCorrect == Spec => []OneActivePerIssue
<1>1. Inv => OneActivePerIssue
  BY DEF Inv, Serial, OneActivePerIssue
<1>2. QED
  BY <1>1, Invariance, PTL

\* CLEANED is true of Git, whatever overlaps or crashes.
THEOREM CleanedCorrect == Spec => []CleanedIsGone
<1>1. Inv => CleanedIsGone
  BY DEF Inv, Cleaning
<1>2. QED
  BY <1>1, Invariance, PTL

\* Nothing is written over a CANCELLED lifecycle, whatever overlaps or crashes.
THEOREM CancelCorrect == Spec => CancelledIsFinal
<1> DEFINE Final == \A r \in Runs : life[r].status = "CANCELLED" => life'[r].status = "CANCELLED"
<1>1. Inv /\ [Next]_<<vars, scenario>> => [Final]_vars
  <2> SUFFICES ASSUME Inv, Next, NEW r \in Runs, life[r].status = "CANCELLED"
               PROVE  life'[r].status = "CANCELLED"
    BY DEF vars
  <2>1. pc[r] \in {"exit", "ended"} /\ life \in [Runs -> [status : {"NONE", "ACTIVE"} \cup Results,
                                                        pid : Pids \cup {0}]]
    BY DEF Inv, Types, TypeOK, Progress
  <2>2. ASSUME NEW s \in Runs, ActiveLifecycle(s) \/ FinishLifecycle(s)
        PROVE  life'[r].status = "CANCELLED"
    BY <2>1, <2>2 DEF ActiveLifecycle, FinishLifecycle, LifecycleStep, WriteLifecycle
  <2>3. ASSUME NEW c \in Commands, CancelLifecycle(c)
        PROVE  life'[r].status = "CANCELLED"
    BY <2>1, <2>3 DEF CancelLifecycle, WriteLifecycle
  <2>4. CASE life' = life
    BY <2>4
  <2>5. scenario.runs \subseteq Runs /\ scenario.commands \subseteq Commands
    BY ControllerAssumption DEF Inv, Types
  <2>6. QED
    BY <2>2, <2>3, <2>4, <2>5
       DEF Next, RunStep, CommandStep, RunCheck, RunFault, OwnerMerges, CreateTree,
           OpenRecord, CreateRecord, OpenActive, Activate, OpenStep, FillStep, Commit,
           PipelineEnds, OpenFinish, FinishState, FinishLogged, FinishUnreadable,
           Unreadable, Exit, CancelKill, CancelTooLate, CancelOpens, CancelState,
           CancelLogged, CancelUnreadable, CleanupTarget, RemoveTree, DeleteBranch,
           CleanedOpens, Cleaned, CommandFault, CancelBegin, CleanupBegin, Begin, files
<1>2. QED
  BY Invariance, <1>1, PTL DEF Spec, CancelledIsFinal

\* One command at a time: a branch that the owner merged is not deleted.
THEOREM MergedCorrect == Spec => MergedIsKept
<1> DEFINE Kept == ~scenario.overlap =>
                     \A r \in Runs : branch[r] = "merged" => branch'[r] = "merged"
<1>1. Inv /\ [Next]_<<vars, scenario>> => [Kept]_vars
  <2> SUFFICES ASSUME Inv, Next, ~scenario.overlap, NEW r \in Runs, branch[r] = "merged"
               PROVE  branch'[r] = "merged"
    BY DEF vars
  <2>1. branch \in [Runs -> {"none", "base", "ahead", "merged"}] /\ pc[r] \notin {"none", "create"}
    BY DEF Inv, Types, TypeOK, Cleaning
  <2>2. ASSUME NEW s \in Runs, CreateTree(s) \/ Commit(s) \/ OwnerMerges(s)
        PROVE  branch'[r] = "merged"
    BY <2>1, <2>2 DEF CreateTree, Commit, OwnerMerges
  <2>3. ASSUME NEW c \in Commands, DeleteBranch(c)
        PROVE  branch'[r] = "merged"
    BY <2>1, <2>3 DEF DeleteBranch, Inv, Serial
  <2>4. CASE branch' = branch
    BY <2>4
  <2>5. scenario.runs \subseteq Runs /\ scenario.commands \subseteq Commands
    BY ControllerAssumption DEF Inv, Types
  <2>6. QED
    BY <2>2, <2>3, <2>4, <2>5
       DEF Next, RunStep, CommandStep, RunCheck, RunFault, OpenRecord, CreateRecord,
           OpenActive, Activate, OpenStep, FillStep, ActiveLifecycle, FinishLifecycle,
           LifecycleStep, PipelineEnds, OpenFinish, FinishState, FinishLogged,
           FinishUnreadable, Unreadable, Exit, CancelKill, CancelTooLate, CancelOpens,
           CancelState, CancelLogged, CancelUnreadable, CancelLifecycle, CleanupTarget,
           RemoveTree, CleanedOpens, Cleaned, CommandFault, CancelBegin, CleanupBegin,
           Begin, git
<1>2. QED
  BY Invariance, <1>1, PTL DEF Spec, MergedIsKept
=============================================================================
