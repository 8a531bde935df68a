-------------------------- MODULE WebService_proofs -------------------------
(***************************************************************************)
(* Proofs about the parts of the Web service that MCWebService checks side *)
(* by side.  Each holds for every number of requests, commands, servers,   *)
(* writers or workers, and however often its bounded mishaps happen.       *)
(***************************************************************************)
EXTENDS TicketBoard, ServiceManager, Settings, RunLogs, AgentSessions,
        FiniteSetTheorems, TLAPS

-----------------------------------------------------------------------------
(* TicketBoard. *)

Early == {"new", "make", "call", "scan", "claim", "launch"}
Locked == {"scan", "claim", "launch"}

\* The lock of a board is held from the scan to the launch, by one request,
\* and the board has no live operation once the scan found none: the state.json
\* of an operation says PREPARING as long as its thread lives.
Exclusion ==
  /\ \A q \in Starts : pc[q] \in Locked => boardOf[q] \in Boards /\ lock[boardOf[q]] = q
  /\ \A q \in Starts : pc[q] = "call" => boardOf[q] \in Boards
  /\ \A q \in Starts : pc[q] \in Early => th[q] = "none"
  /\ \A q \in Starts : pc[q] = "launch" => op[q] = "PREPARING"
  /\ \A o \in Starts : Live(o) => op[o] = "PREPARING"
  /\ \A q, o \in Starts : pc[q] \in {"claim", "launch"} /\ Live(o) => boardOf[o] # boardOf[q]
  /\ OnePreparation

\* A Run begins at one place of the thread, and what the thread will write of
\* it is settled there.
Outcome ==
  \A o \in Starts :
    /\ th[o] \in {"none", "queued", "fetch", "prompts", "plan", "start"} => run[o] = "NONE"
    /\ th[o] \in {"register", "copy"} => run[o] # "NONE"
    /\ o \in worker => run[o] # "NONE"
    /\ th[o] = "save" =>
         /\ res[o] \in Ended
         /\ res[o] = "RUNNING" => run[o] # "NONE"
         /\ res[o] = "BLOCKED" => run[o] = "NONE"
         /\ res[o] = "HARD_BREAK" /\ faults = 0 => run[o] = "NONE"
    /\ op[o] \in Ended => th[o] = "gone"
    /\ op[o] = "RUNNING" => run[o] # "NONE"
    /\ op[o] = "BLOCKED" => run[o] = "NONE"
    /\ op[o] = "HARD_BREAK" /\ faults = 0 => run[o] = "NONE"

\* The loop of a Run is in the map of the board that started it, or is about
\* to be put there, or the operation ends by an exception.
Known ==
  \A o \in Starts : run[o] # "NONE" /\ boardOf[o] \in Boards =>
    \/ th[o] = "register"
    \/ o \in loops[boardOf[o]]
    \/ /\ faults > 0 /\ th[o] \in {"save", "gone"} /\ res[o] = "HARD_BREAK"
       /\ op[o] \in {"PREPARING", "HARD_BREAK"}

BoardInv == TypeOK /\ Exclusion /\ Outcome /\ Known

-----------------------------------------------------------------------------
\* Files, locks and threads keep their types.
LEMMA BoardTypeStep ==
  ASSUME TypeOK, [Next]_vars
  PROVE  TypeOK'
<1> USE BoardAssumption DEF TypeOK, Boards, Stages, Ended, disk, boards, threads, limits
<1>1. ASSUME NEW q \in Starts, FindBoard(q) PROVE TypeOK'
  BY <1>1 DEF FindBoard, Goto
<1>2. ASSUME NEW q \in Starts, FindNoBoard(q) PROVE TypeOK'
  BY <1>2 DEF FindNoBoard, Goto
<1>3. ASSUME NEW q \in Starts, MakeBoard(q) PROVE TypeOK'
  BY <1>3 DEF MakeBoard, Boards, Goto
<1>4. ASSUME NEW q \in Starts, Acquire(q) PROVE TypeOK'
  BY <1>4 DEF Acquire, LockFree, Goto
<1>5. ASSUME NEW q \in Starts, Refuse(q) PROVE TypeOK'
  BY <1>5 DEF Refuse, Release, Goto
<1>6. ASSUME NEW q \in Starts, Admit(q) PROVE TypeOK'
  BY <1>6 DEF Admit, Underway, Goto
<1>7. ASSUME NEW q \in Starts, Claim(q) PROVE TypeOK'
  BY <1>7 DEF Claim, Goto
<1>8. ASSUME NEW q \in Starts, Launch(q) PROVE TypeOK'
  BY <1>8 DEF Launch, Release, Stage, Goto
<1>9. ASSUME NEW q \in Starts, StartRunFault(q) PROVE TypeOK'
  <2>1. faults' \in 0 .. MaxFaults
    BY <1>9 DEF StartRunFault
  <2>2. pc' = [pc EXCEPT ![q] = "error"] /\ lock' = [lock EXCEPT ![boardOf[q]] = "none"]
    BY <1>9 DEF StartRunFault, Release, Goto
  <2>3. UNCHANGED <<disk, served, boardOf, loops, worker, threads, restarts>>
    BY <1>9 DEF StartRunFault
  <2>4. pc' \in [Starts -> {"new", "make", "call", "scan", "claim", "launch", "done",
                          "refused", "error", "dead"}]
    BY <2>2
  <2>5. lock' \in [Boards -> Starts \cup {"none"}]
    BY <2>2
  <2>6. QED
    BY <2>1, <2>3, <2>4, <2>5
<1>10. ASSUME NEW q \in Starts, Begin(q) PROVE TypeOK'
  BY <1>10 DEF Begin, Stage
<1>11. ASSUME NEW q \in Starts, Fetch(q) PROVE TypeOK'
  BY <1>11 DEF Fetch, Result, Stage
<1>12. ASSUME NEW q \in Starts, ReadPrompts(q) PROVE TypeOK'
  BY <1>12 DEF ReadPrompts, Stage
<1>13. ASSUME NEW q \in Starts, Plan(q) PROVE TypeOK'
  BY <1>13 DEF Plan, Result, Stage
<1>14. ASSUME NEW q \in Starts, Unconfigured(q) PROVE TypeOK'
  BY <1>14 DEF Unconfigured, Result, Stage
<1>15. ASSUME NEW q \in Starts, StartLoop(q) PROVE TypeOK'
  BY <1>15 DEF StartLoop, Stage
<1>16. ASSUME NEW q \in Starts, Register(q) PROVE TypeOK'
  BY <1>16 DEF Register, Stage
<1>17. ASSUME NEW q \in Starts, CopyOutput(q) PROVE TypeOK'
  BY <1>17 DEF CopyOutput, Result, Stage
<1>18. ASSUME NEW q \in Starts, ThreadEnds(q) PROVE TypeOK'
  BY <1>18 DEF ThreadEnds, Stage
<1>19. ASSUME NEW q \in Starts, ThreadDies(q) PROVE TypeOK'
  BY <1>19 DEF ThreadDies, Stage
<1>20. ASSUME NEW q \in Starts, RunFault(q) PROVE TypeOK'
  BY <1>20 DEF RunFault, Result, Stage
<1>21. ASSUME NEW q \in Starts, WorkerEnds(q) PROVE TypeOK'
  BY <1>21 DEF WorkerEnds
<1>22. ASSUME NEW q \in Starts, Retry(q) PROVE TypeOK'
  BY <1>22 DEF Retry, Page
<1>23. ASSUME NEW q \in Starts, Prepare(q) PROVE TypeOK'
  BY <1>23 DEF Prepare, Page
<1>24. CASE Visit
  BY <1>24 DEF Visit, Page
<1>25. CASE Restart
  BY <1>25 DEF Restart
<1>26. CASE UNCHANGED vars
  BY <1>26 DEF vars
<1>27. QED
    BY <1>1, <1>2, <1>3, <1>4, <1>5, <1>6, <1>7, <1>8, <1>9, <1>10, <1>11,
     <1>12, <1>13, <1>14, <1>15, <1>16, <1>17, <1>18, <1>19, <1>20, <1>21,
     <1>22, <1>23, <1>24, <1>25, <1>26
     DEF Next, StartStep, OperationStep

\* The lock covers what the scan found until the thread is live.
LEMMA ExclusionStep ==
  ASSUME TypeOK, Exclusion, [Next]_vars
  PROVE  Exclusion'
<1> USE BoardAssumption DEF Exclusion, OnePreparation, Live, TypeOK, Early,
      Locked, Stages, Ended, disk, boards, threads, limits
<1>1. ASSUME NEW q \in Starts, FindBoard(q) PROVE Exclusion'
  BY <1>1 DEF FindBoard, Goto
<1>2. ASSUME NEW q \in Starts, FindNoBoard(q) PROVE Exclusion'
  BY <1>2 DEF FindNoBoard, Goto
<1>3. ASSUME NEW q \in Starts, MakeBoard(q) PROVE Exclusion'
  BY <1>3 DEF MakeBoard, Boards, Goto
<1>4. ASSUME NEW q \in Starts, Acquire(q) PROVE Exclusion'
  BY <1>4 DEF Acquire, LockFree, Goto
<1>5. ASSUME NEW q \in Starts, Refuse(q) PROVE Exclusion'
  BY <1>5 DEF Refuse, Release, Goto
<1>6. ASSUME NEW q \in Starts, Admit(q) PROVE Exclusion'
  BY <1>6 DEF Admit, Underway, Goto
<1>7. ASSUME NEW q \in Starts, Claim(q) PROVE Exclusion'
  BY <1>7 DEF Claim, Goto
<1>8. ASSUME NEW q \in Starts, Launch(q) PROVE Exclusion'
  BY <1>8 DEF Launch, Release, Stage, Goto
<1>9. ASSUME NEW q \in Starts, StartRunFault(q) PROVE Exclusion'
  BY <1>9 DEF StartRunFault, Release, Goto
<1>10. ASSUME NEW q \in Starts, Begin(q) PROVE Exclusion'
  BY <1>10 DEF Begin, Stage
<1>11. ASSUME NEW q \in Starts, Fetch(q) PROVE Exclusion'
  BY <1>11 DEF Fetch, Result, Stage
<1>12. ASSUME NEW q \in Starts, ReadPrompts(q) PROVE Exclusion'
  BY <1>12 DEF ReadPrompts, Stage
<1>13. ASSUME NEW q \in Starts, Plan(q) PROVE Exclusion'
  BY <1>13 DEF Plan, Result, Stage
<1>14. ASSUME NEW q \in Starts, Unconfigured(q) PROVE Exclusion'
  BY <1>14 DEF Unconfigured, Result, Stage
<1>15. ASSUME NEW q \in Starts, StartLoop(q) PROVE Exclusion'
  BY <1>15 DEF StartLoop, Stage
<1>16. ASSUME NEW q \in Starts, Register(q) PROVE Exclusion'
  BY <1>16 DEF Register, Stage
<1>17. ASSUME NEW q \in Starts, CopyOutput(q) PROVE Exclusion'
  BY <1>17 DEF CopyOutput, Result, Stage
<1>18. ASSUME NEW q \in Starts, ThreadEnds(q) PROVE Exclusion'
  BY <1>18 DEF ThreadEnds, Stage
<1>19. ASSUME NEW q \in Starts, ThreadDies(q) PROVE Exclusion'
  BY <1>19 DEF ThreadDies, Stage
<1>20. ASSUME NEW q \in Starts, RunFault(q) PROVE Exclusion'
  BY <1>20 DEF RunFault, Result, Stage
<1>21. ASSUME NEW q \in Starts, WorkerEnds(q) PROVE Exclusion'
  BY <1>21 DEF WorkerEnds
<1>22. ASSUME NEW q \in Starts, Retry(q) PROVE Exclusion'
  BY <1>22 DEF Retry, Page
<1>23. ASSUME NEW q \in Starts, Prepare(q) PROVE Exclusion'
  BY <1>23 DEF Prepare, Page
<1>24. CASE Visit
  BY <1>24 DEF Visit, Page
<1>25. CASE Restart
  BY <1>25 DEF Restart
<1>26. CASE UNCHANGED vars
  BY <1>26 DEF vars
<1>27. QED
    BY <1>1, <1>2, <1>3, <1>4, <1>5, <1>6, <1>7, <1>8, <1>9, <1>10, <1>11,
     <1>12, <1>13, <1>14, <1>15, <1>16, <1>17, <1>18, <1>19, <1>20, <1>21,
     <1>22, <1>23, <1>24, <1>25, <1>26
     DEF Next, StartStep, OperationStep

\* Nothing but the thread of an operation starts its Run.
LEMMA OutcomeStep ==
  ASSUME TypeOK, Exclusion, Outcome, [Next]_vars
  PROVE  Outcome'
<1> USE DEF Exclusion, Outcome, TypeOK, Early, Ended, Live, Stages, disk,
      boards, threads, limits
<1>1. ASSUME NEW q \in Starts, FindBoard(q) PROVE Outcome'
  BY <1>1 DEF FindBoard, Goto
<1>2. ASSUME NEW q \in Starts, FindNoBoard(q) PROVE Outcome'
  BY <1>2 DEF FindNoBoard, Goto
<1>3. ASSUME NEW q \in Starts, MakeBoard(q) PROVE Outcome'
  BY <1>3 DEF MakeBoard, Boards, Goto
<1>4. ASSUME NEW q \in Starts, Acquire(q) PROVE Outcome'
  BY <1>4 DEF Acquire, LockFree, Goto
<1>5. ASSUME NEW q \in Starts, Refuse(q) PROVE Outcome'
  BY <1>5 DEF Refuse, Release, Goto
<1>6. ASSUME NEW q \in Starts, Admit(q) PROVE Outcome'
  BY <1>6 DEF Admit, Underway, Goto
<1>7. ASSUME NEW q \in Starts, Claim(q) PROVE Outcome'
  BY <1>7 DEF Claim, Goto
<1>8. ASSUME NEW q \in Starts, Launch(q) PROVE Outcome'
  BY <1>8 DEF Launch, Release, Stage, Goto
<1>9. ASSUME NEW q \in Starts, StartRunFault(q) PROVE Outcome'
  BY <1>9 DEF StartRunFault, Release, Goto
<1>10. ASSUME NEW q \in Starts, Begin(q) PROVE Outcome'
  BY <1>10 DEF Begin, Stage
<1>11. ASSUME NEW q \in Starts, Fetch(q) PROVE Outcome'
  BY <1>11 DEF Fetch, Result, Stage
<1>12. ASSUME NEW q \in Starts, ReadPrompts(q) PROVE Outcome'
  BY <1>12 DEF ReadPrompts, Stage
<1>13. ASSUME NEW q \in Starts, Plan(q) PROVE Outcome'
  BY <1>13 DEF Plan, Result, Stage
<1>14. ASSUME NEW q \in Starts, Unconfigured(q) PROVE Outcome'
  BY <1>14 DEF Unconfigured, Result, Stage
<1>15. ASSUME NEW q \in Starts, StartLoop(q) PROVE Outcome'
  BY <1>15 DEF StartLoop, Stage
<1>16. ASSUME NEW q \in Starts, Register(q) PROVE Outcome'
  BY <1>16 DEF Register, Stage
<1>17. ASSUME NEW q \in Starts, CopyOutput(q) PROVE Outcome'
  BY <1>17 DEF CopyOutput, Result, Stage
<1>18. ASSUME NEW q \in Starts, ThreadEnds(q) PROVE Outcome'
  BY <1>18 DEF ThreadEnds, Stage
<1>19. ASSUME NEW q \in Starts, ThreadDies(q) PROVE Outcome'
  BY <1>19 DEF ThreadDies, Stage
<1>20. ASSUME NEW q \in Starts, RunFault(q) PROVE Outcome'
  BY <1>20 DEF RunFault, Result, Stage
<1>21. ASSUME NEW q \in Starts, WorkerEnds(q) PROVE Outcome'
  BY <1>21 DEF WorkerEnds
<1>22. ASSUME NEW q \in Starts, Retry(q) PROVE Outcome'
  BY <1>22 DEF Retry, Page
<1>23. ASSUME NEW q \in Starts, Prepare(q) PROVE Outcome'
  BY <1>23 DEF Prepare, Page
<1>24. CASE Visit
  BY <1>24 DEF Visit, Page
<1>25. CASE Restart
  BY <1>25 DEF Restart
<1>26. CASE UNCHANGED vars
  BY <1>26 DEF vars
<1>27. QED
    BY <1>1, <1>2, <1>3, <1>4, <1>5, <1>6, <1>7, <1>8, <1>9, <1>10, <1>11,
     <1>12, <1>13, <1>14, <1>15, <1>16, <1>17, <1>18, <1>19, <1>20, <1>21,
     <1>22, <1>23, <1>24, <1>25, <1>26
     DEF Next, StartStep, OperationStep

\* The map loses a Run only with its board, and the thread puts it there first.
LEMMA KnownStep ==
  ASSUME TypeOK, Exclusion, Outcome, Known, [Next]_vars
  PROVE  Known'
<1> USE BoardAssumption DEF Exclusion, Outcome, Known, Boards, TypeOK, Early, Ended, Live, Stages, disk,
      boards, threads, limits
<1>1. ASSUME NEW q \in Starts, FindBoard(q) PROVE Known'
  BY <1>1 DEF FindBoard, Goto
<1>2. ASSUME NEW q \in Starts, FindNoBoard(q) PROVE Known'
  BY <1>2 DEF FindNoBoard, Goto
<1>3. ASSUME NEW q \in Starts, MakeBoard(q) PROVE Known'
  BY <1>3 DEF MakeBoard, Boards, Goto
<1>4. ASSUME NEW q \in Starts, Acquire(q) PROVE Known'
  BY <1>4 DEF Acquire, LockFree, Goto
<1>5. ASSUME NEW q \in Starts, Refuse(q) PROVE Known'
  BY <1>5 DEF Refuse, Release, Goto
<1>6. ASSUME NEW q \in Starts, Admit(q) PROVE Known'
  BY <1>6 DEF Admit, Underway, Goto
<1>7. ASSUME NEW q \in Starts, Claim(q) PROVE Known'
  BY <1>7 DEF Claim, Goto
<1>8. ASSUME NEW q \in Starts, Launch(q) PROVE Known'
  BY <1>8 DEF Launch, Release, Stage, Goto
<1>9. ASSUME NEW q \in Starts, StartRunFault(q) PROVE Known'
  BY <1>9 DEF StartRunFault, Release, Goto
<1>10. ASSUME NEW q \in Starts, Begin(q) PROVE Known'
  BY <1>10 DEF Begin, Stage
<1>11. ASSUME NEW q \in Starts, Fetch(q) PROVE Known'
  BY <1>11 DEF Fetch, Result, Stage
<1>12. ASSUME NEW q \in Starts, ReadPrompts(q) PROVE Known'
  BY <1>12 DEF ReadPrompts, Stage
<1>13. ASSUME NEW q \in Starts, Plan(q) PROVE Known'
  BY <1>13 DEF Plan, Result, Stage
<1>14. ASSUME NEW q \in Starts, Unconfigured(q) PROVE Known'
  BY <1>14 DEF Unconfigured, Result, Stage
<1>15. ASSUME NEW q \in Starts, StartLoop(q) PROVE Known'
  BY <1>15 DEF StartLoop, Stage
<1>16. ASSUME NEW q \in Starts, Register(q) PROVE Known'
  BY <1>16 DEF Register, Stage
<1>17. ASSUME NEW q \in Starts, CopyOutput(q) PROVE Known'
  BY <1>17 DEF CopyOutput, Result, Stage
<1>18. ASSUME NEW q \in Starts, ThreadEnds(q) PROVE Known'
  BY <1>18 DEF ThreadEnds, Stage
<1>19. ASSUME NEW q \in Starts, ThreadDies(q) PROVE Known'
  BY <1>19 DEF ThreadDies, Stage
<1>20. ASSUME NEW q \in Starts, RunFault(q) PROVE Known'
  BY <1>20 DEF RunFault, Result, Stage
<1>21. ASSUME NEW q \in Starts, WorkerEnds(q) PROVE Known'
  BY <1>21 DEF WorkerEnds
<1>22. ASSUME NEW q \in Starts, Retry(q) PROVE Known'
  BY <1>22 DEF Retry, Page
<1>23. ASSUME NEW q \in Starts, Prepare(q) PROVE Known'
  BY <1>23 DEF Prepare, Page
<1>24. CASE Visit
  BY <1>24 DEF Visit, Page
<1>25. CASE Restart
  BY <1>25 DEF Restart
<1>26. CASE UNCHANGED vars
  BY <1>26 DEF vars
<1>27. QED
    BY <1>1, <1>2, <1>3, <1>4, <1>5, <1>6, <1>7, <1>8, <1>9, <1>10, <1>11,
     <1>12, <1>13, <1>14, <1>15, <1>16, <1>17, <1>18, <1>19, <1>20, <1>21,
     <1>22, <1>23, <1>24, <1>25, <1>26
     DEF Next, StartStep, OperationStep

LEMMA BoardInit == Init => BoardInv
<1> SUFFICES ASSUME Init PROVE BoardInv
  OBVIOUS
<1> USE BoardAssumption DEF Init
<1>1. TypeOK
  BY DEF TypeOK, Boards, Stages, Ended
<1>2. Exclusion
  BY DEF Exclusion, OnePreparation, Live, Stages, Locked
<1>3. Outcome
  BY DEF Outcome, Ended
<1>4. Known
  BY DEF Known
<1>5. QED
  BY <1>1, <1>2, <1>3, <1>4 DEF BoardInv

LEMMA BoardInvariance == Spec => []BoardInv
<1>1. BoardInv /\ [Next]_vars => BoardInv'
  BY BoardTypeStep, ExclusionStep, OutcomeStep, KnownStep DEF BoardInv
<1>2. QED
  BY BoardInit, <1>1, PTL DEF Spec

-----------------------------------------------------------------------------
\* However many requests arrive at once, whoever dies or raises: one board has
\* one operation whose thread is at work.
THEOREM PreparationCorrect == Spec => []OnePreparation
<1>1. BoardInv => OnePreparation
  BY DEF BoardInv, Exclusion
<1>2. QED
  BY <1>1, BoardInvariance, PTL

\* What an operation that is over says about its Run is true: RUNNING and
\* BLOCKED whoever dies or raises, HARD_BREAK unless an exception was raised.
THEOREM OperationCorrect == Spec => []OperationTruth
<1>1. BoardInv => OperationTruth
  BY DEF BoardInv, Outcome, OperationTruth
<1>2. QED
  BY <1>1, BoardInvariance, PTL

\* The board that started a Run and still serves the page has its loop, so that
\* the Run can be retried.
THEOREM ReachableCorrect == Spec => []RunsAreReachable
<1>1. BoardInv => RunsAreReachable
  <2> SUFFICES ASSUME BoardInv, NEW o \in Starts, run[o] # "NONE", th[o] = "gone",
                      boardOf[o] # "none", boardOf[o] = served,
                      faults = 0 \/ op[o] = "RUNNING"
               PROVE  o \in loops[served]
    BY DEF RunsAreReachable, HasContext
  <2>1. boardOf[o] \in Boards
    BY DEF BoardInv, TypeOK
  <2>2. QED
    BY <2>1 DEF BoardInv, TypeOK, Known
<1>2. QED
  BY <1>1, BoardInvariance, PTL

-----------------------------------------------------------------------------
(* ServiceManager. *)

Working == {"starting", "up"}
Unsaved == {"save", "drop", "dropSignal"}
Unproved == Unsaved \cup {"wait", "undo", "undoSignal"}
Aimed == {"match", "signal"}

\* Who listens is one of the processes, and a server that is up listens.
PortInv ==
  /\ port \in Servers => proc[port] \in {"up", "dying"}
  /\ \A s \in Servers : proc[s] = "up" => port = s

\* The command that has launched a server knows it, and so does one that is
\* about to stop it; a stop is nothing but a stop until it is over.
OwnInv ==
  /\ \A c \in Commands : at[c] \in Unproved \cup {"forget"} =>
       own[c] \in Servers /\ proc[own[c]] # "none"
  /\ \A c \in Commands : at[c] \in Aimed => seen[c] \in Servers /\ proc[seen[c]] # "none"
  /\ record \in Servers => proc[record] # "none"
  /\ \A c \in Commands : Stops(c) =>
       at[c] \in {"idle", "kill", "killed", "ok", "failed"} \cup Aimed

\* One command at a time: what it has read is what the record file holds; a
\* server that is up is in the record, unless the command that launched it is
\* about to save it or to end it; one that has not bound the port yet is
\* watched; and a record is given up only when its server is at work no more.
OrderInv ==
  orderly =>
    /\ \A c, d \in Commands : Busy(c) /\ Busy(d) => c = d
    /\ \A c \in Commands : at[c] \in {"check", "remove", "kill"} \cup Aimed => seen[c] = record
    /\ \A c \in Commands : at[c] \in {"wait", "undo", "undoSignal", "forget"} => own[c] = record
    /\ \A s \in Servers : proc[s] \in Working =>
         record = s \/ \E c \in Commands : own[c] = s /\ at[c] \in Unsaved
    /\ \A s \in Servers : proc[s] = "starting" =>
         \E c \in Commands : own[c] = s /\ at[c] \in Unproved
    /\ \A c \in Commands :
         at[c] \in {"remove", "port", "spawn", "forget", "killed"} \cup Unsaved /\ record \in Servers
           => proc[record] \notin Working

SvcInv == SvcTypeOK /\ PortInv /\ OwnInv /\ OrderInv

LEMMA SvcTypeStep ==
  ASSUME SvcTypeOK, OwnInv, [SvcNext]_svcVars
  PROVE  SvcTypeOK'
<1> USE ServiceAssumption DEF SvcTypeOK, MatchesProcess, OwnedRunning, Healthy, LiveProc,
                              To, StopDone, Stops, Kinds, AtWork
<1>1. ASSUME NEW c \in Commands, ReadRecord(c) PROVE SvcTypeOK'
  BY <1>1 DEF ReadRecord
<1>2. ASSUME NEW c \in Commands, AlreadyStopped(c) PROVE SvcTypeOK'
  BY <1>2 DEF AlreadyStopped
<1>3. ASSUME NEW c \in Commands, CheckOwned(c) PROVE SvcTypeOK'
  BY <1>3 DEF CheckOwned
<1>4. ASSUME NEW c \in Commands, LateAnswer(c) PROVE SvcTypeOK'
  <2>1. mishaps' \in 0 .. MaxMishaps /\ orderly' = FALSE
    BY <1>4 DEF LateAnswer
  <2>2. at' = [at EXCEPT ![c] = "remove"] \/ at' = [at EXCEPT ![c] = "killed"]
    BY <1>4 DEF LateAnswer
  <2>3. UNCHANGED <<record, proc, port, kind, seen, own>>
    BY <1>4 DEF LateAnswer
  <2>4. QED
    BY <2>1, <2>2, <2>3
<1>5. ASSUME NEW c \in Commands, RemoveStale(c) PROVE SvcTypeOK'
  BY <1>5 DEF RemoveStale
<1>6. ASSUME NEW c \in Commands, CheckPort(c) PROVE SvcTypeOK'
  BY <1>6 DEF CheckPort
<1>7. ASSUME NEW c \in Commands, ForegroundBinds(c) PROVE SvcTypeOK'
  BY <1>7 DEF ForegroundBinds
<1>8. ASSUME NEW c \in Commands, ForegroundEnds(c) PROVE SvcTypeOK'
  BY <1>8 DEF ForegroundEnds
<1>9. ASSUME NEW c \in Commands, Spawn(c) PROVE SvcTypeOK'
  BY <1>9 DEF Spawn
<1>10. ASSUME NEW c \in Commands, SpawnFails(c) PROVE SvcTypeOK'
  BY <1>10 DEF SpawnFails
<1>11. ASSUME NEW c \in Commands, SaveRecord(c) PROVE SvcTypeOK'
  BY <1>11 DEF SaveRecord
<1>12. ASSUME NEW c \in Commands, SaveFails(c) PROVE SvcTypeOK'
  BY <1>12 DEF SaveFails
<1>13. ASSUME NEW c \in Commands, HealthCheck(c) PROVE SvcTypeOK'
  BY <1>13 DEF HealthCheck
<1>14. ASSUME NEW c \in Commands, HealthTimeout(c) PROVE SvcTypeOK'
  BY <1>14 DEF HealthTimeout
<1>15. ASSUME NEW c \in Commands, Match(c) PROVE SvcTypeOK'
  BY <1>15 DEF Match, Target, Over, Armed
<1>16. ASSUME NEW c \in Commands, Signal(c) PROVE SvcTypeOK'
  <2>1. /\ \E l \in AtWork \cup {"failed"} : at' = [at EXCEPT ![c] = l]
        /\ UNCHANGED <<record, kind, seen, own, orderly>>
    BY <1>16 DEF Signal, Over
  <2>2. \/ UNCHANGED <<proc, port, mishaps>>
        \/ /\ \E v \in {"gone", "dying"} : proc' = [proc EXCEPT ![Target(c)] = v]
           /\ port' = "free" \/ port' = port
           /\ mishaps' = mishaps \/ (mishaps < MaxMishaps /\ mishaps' = mishaps + 1)
    BY <1>16 DEF Signal, Obeys, Lingers, Stays
  <2>3. QED
    BY <2>1, <2>2
<1>17. ASSUME NEW c \in Commands, ForgetStart(c) PROVE SvcTypeOK'
  BY <1>17 DEF ForgetStart
<1>18. ASSUME NEW c \in Commands, StopCheck(c) PROVE SvcTypeOK'
  BY <1>18 DEF StopCheck
<1>19. ASSUME NEW c \in Commands, StopForget(c) PROVE SvcTypeOK'
  BY <1>19 DEF StopForget
<1>20. ASSUME NEW c \in Commands, CommandKilled(c) PROVE SvcTypeOK'
  <2>1. mishaps' \in 0 .. MaxMishaps /\ orderly' = FALSE
    BY <1>20 DEF CommandKilled
  <2>2. at' = [at EXCEPT ![c] = "failed"] /\ (port' = "free" \/ port' = port)
    BY <1>20 DEF CommandKilled
  <2>3. UNCHANGED <<record, proc, kind, seen, own>>
    BY <1>20 DEF CommandKilled
  <2>4. QED
    BY <2>1, <2>2, <2>3
<1>21. ASSUME NEW s \in Servers, Bind(s) PROVE SvcTypeOK'
  BY <1>21 DEF Bind
<1>22. ASSUME NEW s \in Servers, Dies(s) PROVE SvcTypeOK'
  BY <1>22 DEF Dies
<1>23. ASSUME NEW s \in Servers, ServerCrash(s) PROVE SvcTypeOK'
  BY <1>23 DEF ServerCrash
<1>24. ASSUME NEW s \in Servers, PidTaken(s) PROVE SvcTypeOK'
  BY <1>24 DEF PidTaken
<1>25. CASE PortTaken
  BY <1>25 DEF PortTaken
<1>26. CASE UNCHANGED svcVars
  BY <1>26 DEF svcVars
<1>27. QED
  BY <1>1, <1>2, <1>3, <1>4, <1>5, <1>6, <1>7, <1>8, <1>9, <1>10, <1>11, <1>12, <1>13,
     <1>14, <1>15, <1>16, <1>17, <1>18, <1>19, <1>20, <1>21, <1>22, <1>23, <1>24,
     <1>25, <1>26
     DEF SvcNext, CommandStep

LEMMA PortStep ==
  ASSUME SvcTypeOK, OwnInv, PortInv, [SvcNext]_svcVars
  PROVE  PortInv'
<1> USE ServiceAssumption DEF PortInv, SvcTypeOK, MatchesProcess, OwnedRunning, Healthy, LiveProc,
                              To, StopDone, Stops, Kinds, AtWork
<1>1. ASSUME NEW c \in Commands, ReadRecord(c) PROVE PortInv'
  BY <1>1 DEF ReadRecord
<1>2. ASSUME NEW c \in Commands, AlreadyStopped(c) PROVE PortInv'
  BY <1>2 DEF AlreadyStopped
<1>3. ASSUME NEW c \in Commands, CheckOwned(c) PROVE PortInv'
  BY <1>3 DEF CheckOwned
<1>4. ASSUME NEW c \in Commands, LateAnswer(c) PROVE PortInv'
  BY <1>4 DEF LateAnswer
<1>5. ASSUME NEW c \in Commands, RemoveStale(c) PROVE PortInv'
  BY <1>5 DEF RemoveStale
<1>6. ASSUME NEW c \in Commands, CheckPort(c) PROVE PortInv'
  BY <1>6 DEF CheckPort
<1>7. ASSUME NEW c \in Commands, ForegroundBinds(c) PROVE PortInv'
  BY <1>7 DEF ForegroundBinds
<1>8. ASSUME NEW c \in Commands, ForegroundEnds(c) PROVE PortInv'
  BY <1>8 DEF ForegroundEnds
<1>9. ASSUME NEW c \in Commands, Spawn(c) PROVE PortInv'
  BY <1>9 DEF Spawn
<1>10. ASSUME NEW c \in Commands, SpawnFails(c) PROVE PortInv'
  BY <1>10 DEF SpawnFails
<1>11. ASSUME NEW c \in Commands, SaveRecord(c) PROVE PortInv'
  BY <1>11 DEF SaveRecord
<1>12. ASSUME NEW c \in Commands, SaveFails(c) PROVE PortInv'
  BY <1>12 DEF SaveFails
<1>13. ASSUME NEW c \in Commands, HealthCheck(c) PROVE PortInv'
  BY <1>13 DEF HealthCheck
<1>14. ASSUME NEW c \in Commands, HealthTimeout(c) PROVE PortInv'
  BY <1>14 DEF HealthTimeout
<1>15. ASSUME NEW c \in Commands, Match(c) PROVE PortInv'
  BY <1>15 DEF Match, Target, Over, Armed
<1>16. ASSUME NEW c \in Commands, Signal(c) PROVE PortInv'
  BY <1>16 DEF Signal, Target, Over, Obeys, Lingers, Stays
<1>17. ASSUME NEW c \in Commands, ForgetStart(c) PROVE PortInv'
  BY <1>17 DEF ForgetStart
<1>18. ASSUME NEW c \in Commands, StopCheck(c) PROVE PortInv'
  BY <1>18 DEF StopCheck
<1>19. ASSUME NEW c \in Commands, StopForget(c) PROVE PortInv'
  BY <1>19 DEF StopForget
<1>20. ASSUME NEW c \in Commands, CommandKilled(c) PROVE PortInv'
  BY <1>20 DEF CommandKilled
<1>21. ASSUME NEW s \in Servers, Bind(s) PROVE PortInv'
  BY <1>21 DEF Bind
<1>22. ASSUME NEW s \in Servers, Dies(s) PROVE PortInv'
  BY <1>22 DEF Dies
<1>23. ASSUME NEW s \in Servers, ServerCrash(s) PROVE PortInv'
  BY <1>23 DEF ServerCrash
<1>24. ASSUME NEW s \in Servers, PidTaken(s) PROVE PortInv'
  BY <1>24 DEF PidTaken
<1>25. CASE PortTaken
  BY <1>25 DEF PortTaken
<1>26. CASE UNCHANGED svcVars
  BY <1>26 DEF svcVars
<1>27. QED
  BY <1>1, <1>2, <1>3, <1>4, <1>5, <1>6, <1>7, <1>8, <1>9, <1>10, <1>11, <1>12, <1>13,
     <1>14, <1>15, <1>16, <1>17, <1>18, <1>19, <1>20, <1>21, <1>22, <1>23, <1>24,
     <1>25, <1>26
     DEF SvcNext, CommandStep

LEMMA OwnStep ==
  ASSUME SvcTypeOK, OwnInv, [SvcNext]_svcVars
  PROVE  OwnInv'
<1> USE ServiceAssumption DEF OwnInv, Aimed, Unsaved, Unproved, SvcTypeOK, MatchesProcess, OwnedRunning, Healthy, LiveProc,
                              To, StopDone, Stops, Kinds, AtWork
<1>1. ASSUME NEW c \in Commands, ReadRecord(c) PROVE OwnInv'
  BY <1>1 DEF ReadRecord
<1>2. ASSUME NEW c \in Commands, AlreadyStopped(c) PROVE OwnInv'
  BY <1>2 DEF AlreadyStopped
<1>3. ASSUME NEW c \in Commands, CheckOwned(c) PROVE OwnInv'
  BY <1>3 DEF CheckOwned
<1>4. ASSUME NEW c \in Commands, LateAnswer(c) PROVE OwnInv'
  BY <1>4 DEF LateAnswer
<1>5. ASSUME NEW c \in Commands, RemoveStale(c) PROVE OwnInv'
  BY <1>5 DEF RemoveStale
<1>6. ASSUME NEW c \in Commands, CheckPort(c) PROVE OwnInv'
  BY <1>6 DEF CheckPort
<1>7. ASSUME NEW c \in Commands, ForegroundBinds(c) PROVE OwnInv'
  BY <1>7 DEF ForegroundBinds
<1>8. ASSUME NEW c \in Commands, ForegroundEnds(c) PROVE OwnInv'
  BY <1>8 DEF ForegroundEnds
<1>9. ASSUME NEW c \in Commands, Spawn(c) PROVE OwnInv'
  BY <1>9 DEF Spawn
<1>10. ASSUME NEW c \in Commands, SpawnFails(c) PROVE OwnInv'
  BY <1>10 DEF SpawnFails
<1>11. ASSUME NEW c \in Commands, SaveRecord(c) PROVE OwnInv'
  BY <1>11 DEF SaveRecord
<1>12. ASSUME NEW c \in Commands, SaveFails(c) PROVE OwnInv'
  BY <1>12 DEF SaveFails
<1>13. ASSUME NEW c \in Commands, HealthCheck(c) PROVE OwnInv'
  BY <1>13 DEF HealthCheck
<1>14. ASSUME NEW c \in Commands, HealthTimeout(c) PROVE OwnInv'
  BY <1>14 DEF HealthTimeout
<1>15. ASSUME NEW c \in Commands, Match(c) PROVE OwnInv'
  BY <1>15 DEF Match, Target, Over, Armed
<1>16. ASSUME NEW c \in Commands, Signal(c) PROVE OwnInv'
  BY <1>16 DEF Signal, Target, Over, Obeys, Lingers, Stays
<1>17. ASSUME NEW c \in Commands, ForgetStart(c) PROVE OwnInv'
  BY <1>17 DEF ForgetStart
<1>18. ASSUME NEW c \in Commands, StopCheck(c) PROVE OwnInv'
  BY <1>18 DEF StopCheck
<1>19. ASSUME NEW c \in Commands, StopForget(c) PROVE OwnInv'
  BY <1>19 DEF StopForget
<1>20. ASSUME NEW c \in Commands, CommandKilled(c) PROVE OwnInv'
  BY <1>20 DEF CommandKilled
<1>21. ASSUME NEW s \in Servers, Bind(s) PROVE OwnInv'
  BY <1>21 DEF Bind
<1>22. ASSUME NEW s \in Servers, Dies(s) PROVE OwnInv'
  BY <1>22 DEF Dies
<1>23. ASSUME NEW s \in Servers, ServerCrash(s) PROVE OwnInv'
  BY <1>23 DEF ServerCrash
<1>24. ASSUME NEW s \in Servers, PidTaken(s) PROVE OwnInv'
  BY <1>24 DEF PidTaken
<1>25. CASE PortTaken
  BY <1>25 DEF PortTaken
<1>26. CASE UNCHANGED svcVars
  BY <1>26 DEF svcVars
<1>27. QED
  BY <1>1, <1>2, <1>3, <1>4, <1>5, <1>6, <1>7, <1>8, <1>9, <1>10, <1>11, <1>12, <1>13,
     <1>14, <1>15, <1>16, <1>17, <1>18, <1>19, <1>20, <1>21, <1>22, <1>23, <1>24,
     <1>25, <1>26
     DEF SvcNext, CommandStep

LEMMA OrderStep ==
  ASSUME SvcTypeOK, PortInv, OwnInv, OrderInv, [SvcNext]_svcVars
  PROVE  OrderInv'
<1> USE ServiceAssumption DEF PortInv, OwnInv, OrderInv, Working, Unsaved,
                              Unproved, Aimed, Busy, SvcTypeOK, MatchesProcess, OwnedRunning, Healthy, LiveProc,
                              To, StopDone, Stops, Kinds, AtWork
<1>1. ASSUME NEW c \in Commands, ReadRecord(c) PROVE OrderInv'
  <2> SUFFICES ASSUME orderly' PROVE OrderInv'
    OBVIOUS
  <2>1. orderly /\ \A d \in Commands \ {c} : at[d] \notin AtWork
    BY <1>1 DEF ReadRecord
  <2>2. /\ at[c] \in {"idle", "again"} /\ at'[c] \in {"kill", "check"} /\ seen'[c] = record
        /\ \A d \in Commands \ {c} : at'[d] = at[d] /\ seen'[d] = seen[d]
        /\ UNCHANGED <<record, proc, port, own>>
    BY <1>1 DEF ReadRecord
  <2>3. \A d \in Commands : at'[d] \in AtWork => d = c
    BY <2>1, <2>2
  <2>4. QED
    BY <2>1, <2>2, <2>3
<1>2. ASSUME NEW c \in Commands, AlreadyStopped(c) PROVE OrderInv'
  <2> SUFFICES ASSUME orderly' PROVE OrderInv'
    OBVIOUS
  <2>1. orderly /\ \A d \in Commands \ {c} : at[d] \notin AtWork
    BY <1>2 DEF AlreadyStopped
  <2>2. /\ at[c] = "idle" /\ at'[c] \in {"ok", "again"}
        /\ \A d \in Commands \ {c} : at'[d] = at[d]
        /\ UNCHANGED <<record, proc, port, seen, own>>
    BY <1>2 DEF AlreadyStopped
  <2>3. \A d \in Commands : at'[d] \in AtWork => d = c
    BY <2>1, <2>2
  <2>4. QED
    BY <2>1, <2>2, <2>3
<1>3. ASSUME NEW c \in Commands, CheckOwned(c) PROVE OrderInv'
  BY <1>3 DEF CheckOwned
<1>4. ASSUME NEW c \in Commands, LateAnswer(c) PROVE OrderInv'
  BY <1>4 DEF LateAnswer
<1>5. ASSUME NEW c \in Commands, RemoveStale(c) PROVE OrderInv'
  BY <1>5 DEF RemoveStale
<1>6. ASSUME NEW c \in Commands, CheckPort(c) PROVE OrderInv'
  BY <1>6 DEF CheckPort
<1>7. ASSUME NEW c \in Commands, ForegroundBinds(c) PROVE OrderInv'
  BY <1>7 DEF ForegroundBinds
<1>8. ASSUME NEW c \in Commands, ForegroundEnds(c) PROVE OrderInv'
  BY <1>8 DEF ForegroundEnds
<1>9. ASSUME NEW c \in Commands, Spawn(c) PROVE OrderInv'
  BY <1>9 DEF Spawn
<1>10. ASSUME NEW c \in Commands, SpawnFails(c) PROVE OrderInv'
  BY <1>10 DEF SpawnFails
<1>11. ASSUME NEW c \in Commands, SaveRecord(c) PROVE OrderInv'
  BY <1>11 DEF SaveRecord
<1>12. ASSUME NEW c \in Commands, SaveFails(c) PROVE OrderInv'
  BY <1>12 DEF SaveFails
<1>13. ASSUME NEW c \in Commands, HealthCheck(c) PROVE OrderInv'
  BY <1>13 DEF HealthCheck
<1>14. ASSUME NEW c \in Commands, HealthTimeout(c) PROVE OrderInv'
  BY <1>14 DEF HealthTimeout
<1>15. ASSUME NEW c \in Commands, Match(c) PROVE OrderInv'
  BY <1>15 DEF Match, Target, Over, Armed
<1>16. ASSUME NEW c \in Commands, Signal(c) PROVE OrderInv'
  BY <1>16 DEF Signal, Target, Over, Obeys, Lingers, Stays
<1>17. ASSUME NEW c \in Commands, ForgetStart(c) PROVE OrderInv'
  BY <1>17 DEF ForgetStart
<1>18. ASSUME NEW c \in Commands, StopCheck(c) PROVE OrderInv'
  BY <1>18 DEF StopCheck
<1>19. ASSUME NEW c \in Commands, StopForget(c) PROVE OrderInv'
  BY <1>19 DEF StopForget
<1>20. ASSUME NEW c \in Commands, CommandKilled(c) PROVE OrderInv'
  BY <1>20 DEF CommandKilled
<1>21. ASSUME NEW s \in Servers, Bind(s) PROVE OrderInv'
  BY <1>21 DEF Bind
<1>22. ASSUME NEW s \in Servers, Dies(s) PROVE OrderInv'
  BY <1>22 DEF Dies
<1>23. ASSUME NEW s \in Servers, ServerCrash(s) PROVE OrderInv'
  BY <1>23 DEF ServerCrash
<1>24. ASSUME NEW s \in Servers, PidTaken(s) PROVE OrderInv'
  BY <1>24 DEF PidTaken
<1>25. CASE PortTaken
  BY <1>25 DEF PortTaken
<1>26. CASE UNCHANGED svcVars
  BY <1>26 DEF svcVars
<1>27. QED
  BY <1>1, <1>2, <1>3, <1>4, <1>5, <1>6, <1>7, <1>8, <1>9, <1>10, <1>11, <1>12, <1>13,
     <1>14, <1>15, <1>16, <1>17, <1>18, <1>19, <1>20, <1>21, <1>22, <1>23, <1>24,
     <1>25, <1>26
     DEF SvcNext, CommandStep

LEMMA SvcInitInv == SvcInit => SvcInv
<1> SUFFICES ASSUME SvcInit PROVE SvcInv
  OBVIOUS
<1> USE ServiceAssumption DEF SvcInit
<1>1. SvcTypeOK
  BY DEF SvcTypeOK, Kinds, AtWork
<1>2. PortInv /\ OwnInv
  BY DEF PortInv, OwnInv, Unsaved, Unproved, Aimed
<1>3. OrderInv
  BY DEF OrderInv, Busy, AtWork, Working, Unsaved, Aimed
<1>4. QED
  BY <1>1, <1>2, <1>3 DEF SvcInv

LEMMA SvcInvariance == SvcSpec => []SvcInv
<1>1. SvcInv /\ [SvcNext]_svcVars => SvcInv'
  BY SvcTypeStep, PortStep, OwnStep, OrderStep DEF SvcInv
<1>2. QED
  BY SvcInitInv, <1>1, PTL DEF SvcSpec

\* Commands that do not overlap lose no server: whatever crashes, is slow to
\* end or cannot be written, the record leads to the one that listens.
THEOREM ServerCorrect == SvcSpec => []ServerIsRecorded
<1>1. SvcInv => ServerIsRecorded
  BY DEF SvcInv, ServerIsRecorded, PortInv, OrderInv, Working, Unsaved, Busy, AtWork
<1>2. QED
  BY <1>1, SvcInvariance, PTL

\* A stop that reports success, however many commands came before it one at a
\* time, leaves no detached server at work.
THEOREM StopCorrect == SvcSpec => StopIsTrue
<1> DEFINE Quiet == orderly' => \A c \in Commands :
      Stops(c) /\ at[c] \notin {"ok", "again"} /\ at'[c] \in {"ok", "again"} =>
        \A s \in Servers : proc'[s] \notin {"starting", "up"}
<1>1. SvcInv /\ [SvcNext]_svcVars => Quiet
  <2> SUFFICES ASSUME SvcInv, [SvcNext]_svcVars, orderly', NEW c \in Commands, Stops(c),
                      at[c] \notin {"ok", "again"}, at'[c] \in {"ok", "again"}
               PROVE  \A s \in Servers : proc'[s] \notin {"starting", "up"}
    OBVIOUS
  <2> USE DEF SvcInv, SvcTypeOK
  <2>1. AlreadyStopped(c) \/ StopForget(c)
    <3>1. at[c] \in {"idle", "kill", "match", "signal", "killed", "failed"}
      BY DEF OwnInv, Aimed
    <3>2. PICK d \in Commands : CommandStep(d) \/ CommandKilled(d)
      BY DEF SvcNext, svcVars, Bind, Dies, ServerCrash, PidTaken, PortTaken
    <3>3. d = c
      BY <3>2 DEF To, StopDone, CommandStep, CommandKilled, ReadRecord, AlreadyStopped, CheckOwned,
        LateAnswer, RemoveStale, CheckPort, ForegroundBinds, ForegroundEnds, Spawn, SpawnFails,
        SaveRecord, SaveFails, HealthCheck, HealthTimeout, Match, Signal, ForgetStart, StopCheck,
        StopForget
    <3>4. QED
      BY <3>1, <3>2, <3>3 DEF To, CommandStep, CommandKilled, ReadRecord, CheckOwned,
        LateAnswer, RemoveStale, CheckPort, ForegroundBinds, ForegroundEnds, Spawn, SpawnFails,
        SaveRecord, SaveFails, HealthCheck, HealthTimeout, Match, Signal, Over, Armed, ForgetStart,
        StopCheck
  <2>2. CASE AlreadyStopped(c)
    <3>1. record = "none" /\ proc' = proc /\ orderly
      BY <2>2 DEF AlreadyStopped
    <3>2. \A d \in Commands : at[d] \notin Unsaved
      BY <2>2 DEF AlreadyStopped, Busy, AtWork, Unsaved
    <3>3. QED
      BY <3>1, <3>2, ServiceAssumption DEF OrderInv, Working
  <2>3. CASE StopForget(c)
    <3>1. at[c] = "killed" /\ proc' = proc /\ orderly
      BY <2>3 DEF StopForget
    <3>2. \A d \in Commands : at[d] \notin Unsaved
      BY <3>1 DEF OrderInv, Busy, AtWork, Unsaved
    <3>3. QED
      BY <3>1, <3>2 DEF OrderInv, Working
  <2>4. QED
    BY <2>1, <2>2, <2>3
<1>2. QED
  BY <1>1, SvcInvariance, PTL DEF SvcSpec, StopIsTrue

-----------------------------------------------------------------------------
(* Settings. *)

Configs == [key : Keys \cup {""}, agents : [AgentRoles -> Profiles]]

Waiting == {"validate", "write"}

\* Until requests overlap, what a request has read is what the file still
\* holds and what the acknowledged requests made of it.
Undisturbed ==
  /\ apart => file = last
  /\ apart => \A c \in Savers : saver[c] \in Waiting => base[c] = file
  /\ apart => \A c, d \in Savers : saver[c] \in Waiting /\ saver[d] \in Waiting => c = d

SetTypes ==
  /\ SetTypeOK
  /\ last \in Configs
  /\ saver \in [Savers -> {"new", "validate", "write", "saved", "refused"}]
  /\ incoming \in [Savers -> Requests]
  /\ base \in [Savers -> Configs]

\* Until the editor is used, what is stored, what has been read and what has
\* passed the validation is safe for the roles that must not write.
Safe(config) == \A role \in AgentRoles \ {"developer"} : config.agents[role] \in ReadOnlySafe
Vetted ==
  ~edited =>
    /\ Safe(file)
    /\ \A c \in Savers : saver[c] \in Waiting => Safe(base[c])
    /\ \A c \in Savers : saver[c] = "write" /\ incoming[c].role # "developer" =>
         incoming[c].profile \in ReadOnlySafe

SetInv == SetTypes /\ Undisturbed /\ Vetted

-----------------------------------------------------------------------------
\* What is merged is a configuration; in particular its key is no mask.
LEMMA Merging ==
  ASSUME NEW old \in Configs, NEW in \in Requests
  PROVE  Merge(old, in) \in Configs
<1>1. MergeKey(old.key, in.key) \in Keys \cup {""}
  BY DEF MergeKey, Configs, Requests
<1>2. [old.agents EXCEPT ![in.role] = in.profile] \in [AgentRoles -> Profiles]
  BY DEF Configs, Requests
<1>3. QED
  BY <1>1, <1>2 DEF Merge, Configs

LEMMA Defaults == DefaultConfig \in Configs /\ NoRequest \in Requests
BY DEF DefaultConfig, NoRequest, Configs, Requests, AgentRoles, Profiles, NoProfile

LEMMA SetInitInv == SetInit => SetInv
<1> SUFFICES ASSUME SetInit PROVE SetInv
  OBVIOUS
<1> USE Defaults DEF SetInit
<1>1. SetTypes
  BY DEF SetTypes, SetTypeOK, Configs
<1>2. Undisturbed /\ Vetted
  BY DEF Undisturbed, Vetted, Waiting, Safe, DefaultConfig, NoProfile, ReadOnlySafe
<1>3. QED
  BY <1>1, <1>2 DEF SetInv

-----------------------------------------------------------------------------
LEMMA SetTypeStep ==
  ASSUME SetTypes, [SetNext]_setVars
  PROVE  SetTypes'
<1> file \in Configs
  BY DEF SetTypes, SetTypeOK, Configs
<1> SetTypes /\ SetTypeOK
  BY DEF SetTypes
<1> USE Defaults DEF SetTypes, SetTypeOK, Forget, world
<1>1. ASSUME NEW c \in Savers, Load(c) PROVE SetTypes'
  BY <1>1 DEF Load, Configs
<1>2. ASSUME NEW c \in Savers, Validate(c) PROVE SetTypes'
  BY <1>2 DEF Validate, Probe, Entry
<1>3. ASSUME NEW c \in Savers, Write(c) PROVE SetTypes'
  <2>1. Merge(base[c], incoming[c]) \in Configs /\ Merge(last, incoming[c]) \in Configs
    BY Merging
  <2>2. QED
    BY <1>3, <2>1 DEF Write, Configs
<1>4. CASE BuildAgent
  BY <1>4 DEF BuildAgent, Probe, Entry
<1>5. CASE Refresh \/ Expire \/ Upgrade
  BY <1>5 DEF Refresh, Expire, Upgrade
<1>6. CASE EditFile
  <2>1. PICK role \in AgentRoles, p \in Profiles :
          /\ file' = [file EXCEPT !.agents[role] = p]
          /\ last' = [last EXCEPT !.agents[role] = p]
    BY <1>6 DEF EditFile
  <2>2. ASSUME NEW c \in Configs
        PROVE  [c EXCEPT !.agents[role] = p] \in Configs
    <3>1. [c.agents EXCEPT ![role] = p] \in [AgentRoles -> Profiles]
      BY DEF Configs
    <3>2. QED
      BY <3>1 DEF Configs
  <2>3. file' \in Configs /\ last' \in Configs
    BY <2>1, <2>2
  <2>4. UNCHANGED <<offers, cache, saver, incoming, base>> /\ edited' = TRUE
    BY <1>6 DEF EditFile
  <2>5. QED
    BY <2>3, <2>4 DEF Configs
<1>7. CASE UNCHANGED setVars
  BY <1>7 DEF setVars
<1>8. QED
  BY <1>1, <1>2, <1>3, <1>4, <1>5, <1>6, <1>7 DEF SetNext

LEMMA UndisturbedStep ==
  ASSUME SetTypes, Undisturbed, [SetNext]_setVars
  PROVE  Undisturbed'
<1> USE DEF SetTypes, Undisturbed, Waiting, Forget, world
<1>1. ASSUME NEW c \in Savers, Load(c) PROVE Undisturbed'
  BY <1>1 DEF Load
<1>2. ASSUME NEW c \in Savers, Validate(c) PROVE Undisturbed'
  BY <1>2 DEF Validate
<1>3. ASSUME NEW c \in Savers, Write(c) PROVE Undisturbed'
  BY <1>3 DEF Write
<1>4. CASE BuildAgent
  BY <1>4 DEF BuildAgent
<1>5. CASE Refresh \/ Expire \/ Upgrade
  BY <1>5 DEF Refresh, Expire, Upgrade
<1>6. CASE EditFile
  BY <1>6 DEF EditFile
<1>7. CASE UNCHANGED setVars
  BY <1>7 DEF setVars
<1>8. QED
  BY <1>1, <1>2, <1>3, <1>4, <1>5, <1>6, <1>7 DEF SetNext

\* What a request writes is what it has read, but for the profile that has
\* been validated for its role.
LEMMA VettedStep ==
  ASSUME SetTypes, Vetted, [SetNext]_setVars
  PROVE  Vetted'
<1> USE DEF SetTypes, SetTypeOK, Vetted, Waiting, world
<1>1. ASSUME NEW c \in Savers, Load(c) PROVE Vetted'
  BY <1>1 DEF Load, Safe
<1>2. ASSUME NEW c \in Savers, Validate(c) PROVE Vetted'
  <2>1. \A d \in Savers : saver'[d] \in Waiting => incoming'[d] = incoming[d] /\ base'[d] = base[d]
    BY <1>2 DEF Validate, Forget
  <2>2. saver'[c] = "write" => Valid(incoming[c].role, incoming[c].profile)
    BY <1>2 DEF Validate
  <2>3. /\ saver[c] \in Waiting /\ UNCHANGED <<file, edited>>
        /\ \A d \in Savers \ {c} : saver'[d] = saver[d]
    BY <1>2 DEF Validate
  <2>4. QED
    BY <2>1, <2>2, <2>3 DEF Valid, Safe
<1>3. ASSUME NEW c \in Savers, Write(c) PROVE Vetted'
  <2>1. /\ saver[c] = "write" /\ file' = Merge(base[c], incoming[c]) /\ edited' = edited
        /\ saver'[c] \notin Waiting
        /\ \A d \in Savers \ {c} : saver'[d] = saver[d] /\ incoming'[d] = incoming[d] /\ base'[d] = base[d]
    BY <1>3 DEF Write, Forget
  <2>2. ASSUME ~edited, NEW role \in AgentRoles \ {"developer"}
        PROVE  file'.agents[role] \in ReadOnlySafe
    <3>1. /\ base[c].agents[role] \in ReadOnlySafe
          /\ incoming[c].role # "developer" => incoming[c].profile \in ReadOnlySafe
      BY <2>1, <2>2 DEF Safe
    <3>2. file'.agents = [base[c].agents EXCEPT ![incoming[c].role] = incoming[c].profile]
      BY <2>1 DEF Merge
    <3>3. base[c].agents \in [AgentRoles -> Profiles]
      BY DEF Configs
    <3>4. role \in AgentRoles /\ role # "developer"
      OBVIOUS
    <3>5. CASE incoming[c].role = role
      BY <3>1, <3>2, <3>3, <3>4, <3>5
    <3>6. CASE incoming[c].role # role
      <4>1. file'.agents[role] = base[c].agents[role]
        BY <3>2, <3>3, <3>4, <3>6
      <4>2. QED
        BY <3>1, <4>1
    <3>7. QED
      BY <3>5, <3>6
  <2>3. QED
    BY <2>1, <2>2 DEF Safe
<1>4. CASE BuildAgent \/ Refresh \/ Expire \/ Upgrade
  BY <1>4 DEF BuildAgent, Refresh, Expire, Upgrade, Safe
<1>5. CASE EditFile
  BY <1>5 DEF EditFile
<1>6. CASE UNCHANGED setVars
  BY <1>6 DEF setVars, Safe
<1>7. QED
  BY <1>1, <1>2, <1>3, <1>4, <1>5, <1>6 DEF SetNext

LEMMA SetInvariance == SetSpec => []SetInv
<1>1. SetInv /\ [SetNext]_setVars => SetInv'
  BY SetTypeStep, UndisturbedStep, VettedStep DEF SetInv
<1>2. QED
  BY SetInitInv, <1>1, PTL DEF SetSpec

-----------------------------------------------------------------------------
\* Requests and edits that do not overlap lose nothing, and the mask of the
\* page is never stored as the key.
THEOREM SettingsCorrect == SetSpec => []SettingsKept
<1>1. SetInv => SettingsKept
  BY SettingsAssumption DEF SetInv, SetTypes, SetTypeOK, Undisturbed, SettingsKept
<1>2. QED
  BY <1>1, SetInvariance, PTL

\* However many requests of the page overlap, none brings a mode that writes
\* to a role that must not.
THEOREM ReadOnlyCorrect == SetSpec => []ReadOnlyKept
<1>1. SetInv => ReadOnlyKept
  BY DEF SetInv, Vetted, Safe, ReadOnlyKept
<1>2. QED
  BY <1>1, SetInvariance, PTL

-----------------------------------------------------------------------------
(* RunLogs. *)

Lines == [n : Nat, text : Ends \cup {"whole", "spoiled"}]

\* Only the last line of a file can lack its end.
CutLast(f) == \A j \in DOMAIN f : f[j].text \in Ends => j = Len(f)

\* The k-th finished entry has the number k.
Ordered(f) ==
  /\ \A j \in DoneAt(f) : f[j].n = Rank(DoneAt(f), j)
  /\ \A k \in 1..Cardinality(DoneAt(f)) : \E j \in DoneAt(f) : Rank(DoneAt(f), j) = k

\* As long as every line parses, entry k is line k.
Plain(f) == (\A j \in DOMAIN f : Good(f[j])) => \A j \in DOMAIN f : f[j].n = j

\* Who reads and then writes has the lock of its file, which it could read, and
\* the number that it has drawn is still one more than the entries of the file.
DrawnInv ==
  /\ \A w \in Writers : writer[w] \in {"read", "write"} => holder[goal[w]] = w
  /\ \A w \in Writers : writer[w] = "write" =>
       number[w] = Cardinality(GoodAt(lines[goal[w]])) + 1 /\ ~Raises(goal[w])

FileOK(f, s) == f \in Seq(Lines) /\ CutLast(f) /\ Ordered(f) /\ (s = "events" => Plain(f))
FilesInv == \A s \in Stores : FileOK(lines[s], s)

LogInv == LogTypeOK /\ DrawnInv /\ FilesInv

LEMMA PlacesFinite ==
  ASSUME NEW f \in Seq(Lines)
  PROVE  /\ DoneAt(f) \subseteq 1..Len(f) /\ IsFiniteSet(DoneAt(f))
         /\ GoodAt(f) \subseteq 1..Len(f) /\ IsFiniteSet(GoodAt(f))
         /\ Cardinality(DoneAt(f)) \in Nat /\ Cardinality(GoodAt(f)) \in Nat
<1>1. DoneAt(f) \subseteq 1..Len(f) /\ GoodAt(f) \subseteq 1..Len(f)
  BY DEF DoneAt, GoodAt
<1>2. IsFiniteSet(1..Len(f))
  BY FS_Interval
<1>3. IsFiniteSet(DoneAt(f)) /\ IsFiniteSet(GoodAt(f))
  BY <1>1, <1>2, FS_Subset
<1>4. QED
  BY <1>1, <1>3, FS_CardinalityType

\* Lines that are cut or spoiled finish nothing and change nothing finished.
LEMMA SameEntries ==
  ASSUME NEW f, NEW g, DoneAt(g) = DoneAt(f), \A j \in DoneAt(f) : g[j] = f[j], Ordered(f)
  PROVE  Ordered(g)
BY DEF Ordered

\* A write that continues a last line without its end spoils that line only.
LEMMA MergedLine ==
  ASSUME NEW f \in Seq(Lines), NEW new \in Lines, CutLast(f), Ordered(f),
         f # <<>>, f[Len(f)].text \in Ends
  PROVE  /\ Continue(f, new) \in Seq(Lines) /\ CutLast(Continue(f, new))
         /\ Ordered(Continue(f, new)) /\ DoneAt(Continue(f, new)) = DoneAt(f)
         /\ Plain(Continue(f, new))
<1> DEFINE g == Continue(f, new)
<1>1. PICK text \in {"broken", "torn", "spoiled"} :
        g = [f EXCEPT ![Len(f)] = [new EXCEPT !.text = text]]
  BY DEF Continue
<1> DEFINE x == [new EXCEPT !.text = text]
<1>2. x \in Lines /\ x.text = text /\ ~Finished(x) /\ ~Good(x)
  BY DEF Lines, Ends, Finished, Good
<1>3. g = [f EXCEPT ![Len(f)] = x] /\ Len(f) \in DOMAIN f
  BY <1>1
<1> HIDE DEF x, g
<1>4. /\ g \in Seq(Lines) /\ Len(g) = Len(f) /\ DOMAIN g = DOMAIN f
      /\ g[Len(f)] = x /\ \A j \in DOMAIN f \ {Len(f)} : g[j] = f[j]
  BY <1>2, <1>3
<1>5. DoneAt(g) = DoneAt(f) /\ \A j \in DoneAt(f) : g[j] = f[j]
  BY <1>2, <1>4 DEF DoneAt, Finished, Ends
<1>6. CutLast(g)
  BY <1>4 DEF CutLast
<1>7. Plain(g)
  BY <1>2, <1>3, <1>4 DEF Plain
<1>8. QED
  BY <1>4, <1>5, <1>6, <1>7, SameEntries DEF g

LEMMA UnfinishedLine ==
  ASSUME NEW f \in Seq(Lines), NEW new \in Lines, new.text # "whole", CutLast(f), Ordered(f)
  PROVE  /\ Continue(f, new) \in Seq(Lines) /\ CutLast(Continue(f, new))
         /\ Ordered(Continue(f, new)) /\ DoneAt(Continue(f, new)) = DoneAt(f)
         /\ (~Good(new) => Plain(Continue(f, new)))
<1> DEFINE g == Continue(f, new)
<1>1. CASE f # <<>> /\ f[Len(f)].text \in Ends
  BY <1>1, MergedLine
<1>2. CASE ~ (f # <<>> /\ f[Len(f)].text \in Ends)
  <2>1. g = Append(f, new)
    BY <1>2 DEF Continue
  <2> HIDE DEF g
  <2>2. /\ g \in Seq(Lines) /\ Len(g) = Len(f) + 1 /\ g[Len(g)] = new /\ Len(g) \in DOMAIN g
        /\ \A j \in DOMAIN f : j \in DOMAIN g /\ g[j] = f[j]
        /\ \A j \in DOMAIN g : j \in DOMAIN f \/ j = Len(g)
    BY <2>1
  <2>3. DoneAt(g) = DoneAt(f) /\ \A j \in DoneAt(f) : g[j] = f[j]
    BY <2>2 DEF DoneAt, Finished
  <2>4. CutLast(g)
    <3>1. \A j \in DOMAIN f : f[j].text \notin Ends
      BY <1>2 DEF CutLast
    <3>2. QED
      BY <2>2, <3>1 DEF CutLast
  <2>5. ~Good(new) => Plain(g)
    BY <2>2 DEF Plain
  <2>6. QED
    BY <2>2, <2>3, <2>4, <2>5, SameEntries DEF g
<1>3. QED
  BY <1>1, <1>2

LEMMA FinishedLine ==
  ASSUME NEW f \in Seq(Lines), NEW new \in Lines, new.text = "whole", CutLast(f), Ordered(f),
         new.n = Cardinality(GoodAt(f)) + 1
  PROVE  /\ Continue(f, new) \in Seq(Lines) /\ CutLast(Continue(f, new))
         /\ Ordered(Continue(f, new))
         /\ Cardinality(DoneAt(Continue(f, new))) \in {Cardinality(DoneAt(f)),
                                                    Cardinality(DoneAt(f)) + 1}
<1>1. CASE f # <<>> /\ f[Len(f)].text \in Ends
  <2>1. DoneAt(Continue(f, new)) = DoneAt(f)
    BY <1>1, MergedLine
  <2>2. QED
    BY <1>1, <2>1, MergedLine
<1>2. CASE ~ (f # <<>> /\ f[Len(f)].text \in Ends)
  <2> DEFINE g == Append(f, new)
             D == DoneAt(f)
             e == Len(f) + 1
  <2>1. Continue(f, new) = g
    BY <1>2 DEF Continue
  <2>2. /\ g \in Seq(Lines) /\ Len(g) = e /\ g[e] = new /\ e \in DOMAIN g
        /\ \A j \in DOMAIN f : j \in DOMAIN g /\ g[j] = f[j]
        /\ \A j \in DOMAIN g : j \in DOMAIN f \/ j = e
    OBVIOUS
  <2>3. \A j \in DOMAIN f : f[j].text \notin Ends
    BY <1>2 DEF CutLast
  <2>4. CutLast(g)
    BY <2>2, <2>3 DEF CutLast, Ends
  <2>5. GoodAt(f) = D
    BY <2>3 DEF GoodAt, DoneAt, Good, Finished, Ends
  <2>6. /\ D \subseteq 1..Len(f) /\ IsFiniteSet(D) /\ Cardinality(D) \in Nat
        /\ e \in Nat /\ e \notin D
    BY PlacesFinite
  <2> HIDE DEF g
  <2>7. DoneAt(g) = D \cup {e}
    BY <2>2 DEF DoneAt, Finished
  <2>8. Cardinality(DoneAt(g)) = Cardinality(D) + 1
    BY <2>6, <2>7, FS_AddElement
  <2>9. \A j \in D : Rank(DoneAt(g), j) = Rank(D, j) /\ g[j] = f[j]
    <3> SUFFICES ASSUME NEW j \in D PROVE Rank(DoneAt(g), j) = Rank(D, j) /\ g[j] = f[j]
      OBVIOUS
    <3>1. {i \in D \cup {e} : i <= j} = {i \in D : i <= j}
      BY <2>6
    <3>2. j \in DOMAIN f
      BY DEF DoneAt
    <3>3. QED
      BY <2>2, <2>7, <3>1, <3>2 DEF Rank
  <2>10. Rank(DoneAt(g), e) = Cardinality(D) + 1
    <3>1. {i \in D \cup {e} : i <= e} = D \cup {e}
      BY <2>6
    <3>2. QED
      BY <2>7, <2>8, <3>1 DEF Rank
  <2>11. Ordered(g)
    <3> HIDE DEF D, e
    <3>1. \A j \in DoneAt(g) : g[j].n = Rank(DoneAt(g), j)
      BY <2>2, <2>5, <2>7, <2>9, <2>10 DEF Ordered, D
    <3>2. ASSUME NEW k \in 1..Cardinality(DoneAt(g))
          PROVE  \E j \in DoneAt(g) : Rank(DoneAt(g), j) = k
      <4>1. k \in 1..Cardinality(D) \/ k = Cardinality(D) + 1
        BY <2>6, <2>8
      <4>2. CASE k \in 1..Cardinality(D)
        BY <2>7, <2>9, <4>2 DEF Ordered, D
      <4>3. CASE k = Cardinality(D) + 1
        BY <2>7, <2>10, <4>3
      <4>4. QED
        BY <4>1, <4>2, <4>3
    <3>3. QED
      BY <3>1, <3>2 DEF Ordered
  <2>12. QED
    BY <2>1, <2>2, <2>4, <2>8, <2>11
<1>3. QED
  BY <1>1, <1>2

LEMMA PlainLine ==
  ASSUME NEW f \in Seq(Lines), NEW new \in Lines, CutLast(f), Ordered(f), Plain(f),
         new.n = Cardinality(GoodAt(f)) + 1
  PROVE  Plain(Continue(f, new))
<1> DEFINE g == Continue(f, new)
<1>1. CASE f # <<>> /\ f[Len(f)].text \in Ends
  BY <1>1, MergedLine
<1>2. CASE ~ (f # <<>> /\ f[Len(f)].text \in Ends)
  <2>1. g = Append(f, new)
    BY <1>2 DEF Continue
  <2> HIDE DEF g
  <2>2. /\ Len(f) \in Nat /\ DOMAIN f = 1..Len(f) /\ DOMAIN g = 1..(Len(f) + 1)
        /\ g[Len(f) + 1] = new /\ \A j \in DOMAIN f : j \in DOMAIN g /\ g[j] = f[j]
    BY <2>1
  <2> SUFFICES ASSUME \A j \in DOMAIN g : Good(g[j]), NEW j \in DOMAIN g
               PROVE  g[j].n = j
    BY DEF Plain, g
  <2>3. \A i \in DOMAIN f : Good(f[i])
    BY <2>2
  <2>4. GoodAt(f) = 1..Len(f)
    BY <2>2, <2>3 DEF GoodAt
  <2>5. Cardinality(1..Len(f)) = Len(f)
    <3> DEFINE n == Len(f)
    <3>1. n \in Int /\ 1 \in Int /\ n >= 0
      BY <2>2
    <3> HIDE DEF n
    <3>2. Cardinality(1..n) = IF 1 > n THEN 0 ELSE n - 1 + 1
      BY <3>1, FS_Interval
    <3>3. Cardinality(1..n) = n
      BY <3>1, <3>2
    <3>4. QED
      BY <3>3 DEF n
  <2>6. CASE j = Len(f) + 1
    BY <2>2, <2>4, <2>5, <2>6
  <2>7. CASE j \in DOMAIN f
    BY <2>2, <2>3, <2>7 DEF Plain
  <2>8. QED
    BY <2>2, <2>6, <2>7
<1>3. QED
  BY <1>1, <1>2

\* What the readers are shown of a file in order.
LEMMA KeptInOrder ==
  ASSUME NEW f \in Seq(Lines), Ordered(f)
  PROVE  Kept(f) = [k \in 1..Cardinality(DoneAt(f)) |-> k]
<1> DEFINE D == DoneAt(f)
<1>1. ASSUME NEW k \in 1..Cardinality(D)
      PROVE  f[CHOOSE j \in D : Rank(D, j) = k].n = k
  <2>1. \E j \in D : Rank(D, j) = k
    BY DEF Ordered
  <2>2. /\ (CHOOSE j \in D : Rank(D, j) = k) \in D
        /\ Rank(D, CHOOSE j \in D : Rank(D, j) = k) = k
    BY <2>1
  <2>3. QED
    BY <2>2 DEF Ordered
<1>2. QED
  BY <1>1 DEF Kept

\* File f of store s is left as it is, or grows by one finished entry.
Grows(f, g, s) ==
  /\ FileOK(g, s)
  /\ Cardinality(DoneAt(g)) \in {Cardinality(DoneAt(f)), Cardinality(DoneAt(f)) + 1}
Grown(s) == Grows(lines[s], lines'[s], s)

LEMMA NewLine ==
  ASSUME NEW s \in Stores, NEW f, FileOK(f, s), NEW n \in Nat,
         n = Cardinality(GoodAt(f)) + 1, NEW text \in Ends \cup {"whole"}
  PROVE  Grows(f, Continue(f, Line(n, text)), s)
<1> DEFINE x == Line(n, text)
<1>1. x \in Lines /\ x.n = n /\ x.text = text
  BY DEF Line, Lines
<1>2. f \in Seq(Lines) /\ CutLast(f) /\ Ordered(f) /\ (s = "events" => Plain(f))
  BY DEF FileOK
<1> HIDE DEF x
<1>3. s = "events" => Plain(Continue(f, x))
  BY <1>1, <1>2, PlainLine
<1>4. CASE text = "whole"
  BY <1>1, <1>2, <1>3, <1>4, FinishedLine DEF Grows, FileOK, x
<1>5. CASE text # "whole"
  BY <1>1, <1>2, <1>3, <1>5, UnfinishedLine DEF Grows, FileOK, x
<1>6. QED
  BY <1>4, <1>5

LEMMA SplitLine ==
  ASSUME NEW s \in Stores, NEW f, FileOK(f, s), NEW n \in Nat,
         NEW text \in {"spoiled", "torn", "broken"}
  PROVE  Grows(f, Continue(Halved(f, n), Line(n, text)), s)
<1> DEFINE x == Line(n, "spoiled")
           y == Line(n, text)
           h == Halved(f, n)
<1>1. /\ x \in Lines /\ x.text # "whole" /\ ~Good(x)
      /\ y \in Lines /\ y.text # "whole" /\ ~Good(y)
  BY DEF Line, Lines, Ends, Good
<1>2. f \in Seq(Lines) /\ CutLast(f) /\ Ordered(f)
  BY DEF FileOK
<1>3. h = Continue(f, x)
  BY DEF Halved
<1> HIDE DEF x, y, h
<1>4. h \in Seq(Lines) /\ CutLast(h) /\ Ordered(h) /\ DoneAt(h) = DoneAt(f)
  BY <1>1, <1>2, <1>3, UnfinishedLine
<1>5. /\ Continue(h, y) \in Seq(Lines) /\ CutLast(Continue(h, y)) /\ Ordered(Continue(h, y))
      /\ DoneAt(Continue(h, y)) = DoneAt(h) /\ Plain(Continue(h, y))
  BY <1>1, <1>4, UnfinishedLine
<1>6. QED
  BY <1>4, <1>5 DEF Grows, FileOK, h, y

LEMMA AnyLine ==
  ASSUME NEW s \in Stores, NEW f, FileOK(f, s), NEW n \in Nat,
         n = Cardinality(GoodAt(f)) + 1, NEW g \in Written(f, n) \cup CutShort(f, n)
  PROVE  Grows(f, g, s)
<1>1. \/ \E text \in Ends \cup {"whole"} : g = Continue(f, Line(n, text))
      \/ \E text \in {"spoiled", "torn", "broken"} : g = Continue(Halved(f, n), Line(n, text))
  BY DEF Written, CutShort
<1>2. QED
  BY <1>1, NewLine, SplitLine

LEMMA LinesStep ==
  ASSUME LogInv, [LogNext]_logVars
  PROVE  \A s \in Stores : Grown(s)
<1>1. /\ goal \in [Writers -> Stores] /\ number \in [Writers -> Nat] /\ DOMAIN lines = Stores
      /\ \A s \in Stores : FileOK(lines[s], s)
  BY DEF LogInv, LogTypeOK, FilesInv
<1>2. \A w \in Writers : writer[w] = "write" =>
        number[w] = Cardinality(GoodAt(lines[goal[w]])) + 1
  BY DEF LogInv, DrawnInv
<1>3. ASSUME NEW s \in Stores, lines'[s] = lines[s] PROVE Grown(s)
  BY <1>1, <1>3 DEF Grown, Grows
<1>4. ASSUME NEW w \in Writers, WriteLine(w) \/ WriteCut(w) PROVE \A s \in Stores : Grown(s)
  <2>1. PICK after \in Written(lines[goal[w]], number[w]) \cup CutShort(lines[goal[w]], number[w]) :
          lines' = [lines EXCEPT ![goal[w]] = after]
    BY <1>4 DEF WriteLine, WriteCut
  <2>2. number[w] \in Nat /\ goal[w] \in Stores
        /\ number[w] = Cardinality(GoodAt(lines[goal[w]])) + 1
    BY <1>1, <1>2, <1>4 DEF WriteLine, WriteCut
  <2>3. Grown(goal[w])
    BY <1>1, <2>1, <2>2, AnyLine DEF Grown
  <2>4. \A s \in Stores \ {goal[w]} : lines'[s] = lines[s]
    BY <1>1, <2>1
  <2>5. QED
    BY <1>3, <2>3, <2>4
<1>5. ASSUME ServiceStops, NEW s \in Stores PROVE Grown(s)
  <2>1. lines'[s] \in Left(s)
    BY <1>5 DEF ServiceStops, Stores
  <2>2. CASE lines'[s] = lines[s]
    BY <1>3, <2>2
  <2>3. CASE \E w \in Writers : /\ writer[w] = "write" /\ goal[w] = s
                                /\ lines'[s] \in CutShort(lines[s], number[w])
    BY <1>1, <1>2, <2>3, AnyLine DEF Grown
  <2>4. QED
    BY <2>1, <2>2, <2>3 DEF Left
<1>6. CASE lines' = lines
  BY <1>3, <1>6
<1>7. QED
  BY <1>4, <1>5, <1>6 DEF LogNext, Lock, Draw, DrawRaises, logVars

LEMMA LogTypeStep ==
  ASSUME LogInv, [LogNext]_logVars
  PROVE  LogTypeOK'
<1>1. lines' \in [Stores -> Seq(Lines)]
  <2>1. lines' = [s \in Stores |-> lines'[s]]
    BY
    DEF LogInv, LogTypeOK, LogNext, Lock, Draw, DrawRaises, WriteLine, WriteCut,
        ServiceStops,
           logVars
  <2>2. \A s \in Stores : lines'[s] \in Seq(Lines)
    BY LinesStep DEF Grown, Grows, FileOK
  <2>3. QED
    BY <2>1, <2>2
<1>2. /\ holder' \in [Stores -> Writers \cup {"nobody"}]
      /\ writer' \in [Writers -> {"new", "read", "write", "done", "error"}]
      /\ goal' = goal /\ stops' \in 0 .. MaxStops
  <2> USE LogAssumption DEF LogInv, LogTypeOK
  <2>1. CASE \E w \in Writers : Lock(w) \/ Draw(w) \/ DrawRaises(w)
    <3>1. PICK w \in Writers : Lock(w) \/ Draw(w) \/ DrawRaises(w)
      BY <2>1
    <3>2. /\ \E v \in Writers \cup {"nobody"} :
                holder' = holder \/ holder' = [holder EXCEPT ![goal[w]] = v]
          /\ \E l \in {"read", "write", "error"} : writer' = [writer EXCEPT ![w] = l]
      BY <3>1 DEF Lock, Draw, DrawRaises, Unlock
    <3>3. goal' = goal /\ stops' = stops
      BY <3>1 DEF Lock, Draw, DrawRaises
    <3>4. holder' \in [Stores -> Writers \cup {"nobody"}]
      BY <3>2
    <3>5. writer' \in [Writers -> {"new", "read", "write", "done", "error"}]
      BY <3>2
    <3>6. QED
      BY <3>3, <3>4, <3>5
  <2>2. CASE \E w \in Writers : WriteLine(w)
    BY <2>2 DEF WriteLine, Unlock
  <2>3. CASE \E w \in Writers : WriteCut(w)
    <3>1. PICK w \in Writers : WriteCut(w)
      BY <2>3
    <3>2. stops' = stops + 1 /\ stops < MaxStops /\ goal' = goal
      BY <3>1 DEF WriteCut
    <3>3. /\ holder' = [holder EXCEPT ![goal[w]] = "nobody"]
          /\ writer' = [writer EXCEPT ![w] = "error"]
      BY <3>1 DEF WriteCut, Unlock
    <3>4. QED
      BY <3>2, <3>3
  <2>4. CASE ServiceStops
    <3>1. stops' = stops + 1 /\ stops < MaxStops /\ goal' = goal
      BY <2>4 DEF ServiceStops
    <3>2. /\ holder' = [s \in Stores |-> "nobody"]
          /\ writer' = [w \in Writers |->
                          IF writer[w] \in {"read", "write"} THEN "error" ELSE writer[w]]
      BY <2>4 DEF ServiceStops
    <3>3. QED
      BY <3>1, <3>2
  <2>5. CASE UNCHANGED logVars
    BY <2>5 DEF logVars
  <2>6. QED
    BY <2>1, <2>2, <2>3, <2>4, <2>5 DEF LogNext
<1>3. number' \in [Writers -> Nat]
  <2>1. \A w \in Writers : Cardinality(GoodAt(lines[goal[w]])) \in Nat
    BY PlacesFinite DEF LogInv, LogTypeOK, Lines
  <2>2. number' = number \/ \E w \in Writers :
          number' = [number EXCEPT ![w] = Cardinality(GoodAt(lines[goal[w]])) + 1]
    BY DEF LogNext, Lock, Draw, DrawRaises, WriteLine, WriteCut, ServiceStops, logVars
  <2>3. QED
    BY <2>1, <2>2 DEF LogInv, LogTypeOK
<1>4. QED
  BY <1>1, <1>2, <1>3 DEF LogInv, LogTypeOK, Lines

\* Nobody writes between the read and the write of the one that has the lock.
LEMMA DrawnStep ==
  ASSUME LogInv, [LogNext]_logVars
  PROVE  DrawnInv'
<1>1. /\ goal \in [Writers -> Stores] /\ number \in [Writers -> Nat]
      /\ holder \in [Stores -> Writers \cup {"nobody"}]
      /\ writer \in [Writers -> {"new", "read", "write", "done", "error"}]
      /\ DOMAIN lines = Stores
  BY DEF LogInv, LogTypeOK
<1>2. /\ \A w \in Writers : writer[w] \in {"read", "write"} => holder[goal[w]] = w
      /\ \A w \in Writers : writer[w] = "write" =>
           number[w] = Cardinality(GoodAt(lines[goal[w]])) + 1 /\ ~Raises(goal[w])
  BY DEF LogInv, DrawnInv
<1>n. \A s \in Stores : lines'[s] = lines[s] => Raises(s)' = Raises(s)
  BY DEF Raises
<1>3. ASSUME NEW w \in Writers, Lock(w) PROVE DrawnInv'
  BY <1>1, <1>2, <1>n, <1>3, LogAssumption DEF Lock, DrawnInv
<1>4. ASSUME NEW w \in Writers, Draw(w) PROVE DrawnInv'
  BY <1>1, <1>2, <1>n, <1>4 DEF Draw, DrawnInv
<1>5. ASSUME NEW w \in Writers, DrawRaises(w) PROVE DrawnInv'
  BY <1>1, <1>2, <1>n, <1>5 DEF DrawRaises, Unlock, DrawnInv
<1>6. ASSUME NEW w \in Writers, WriteLine(w) \/ WriteCut(w) PROVE DrawnInv'
  <2>1. /\ writer[w] = "write" /\ goal' = goal /\ number' = number
        /\ holder' = [holder EXCEPT ![goal[w]] = "nobody"]
        /\ \A v \in Writers \ {w} : writer'[v] = writer[v]
        /\ writer'[w] \in {"done", "error"}
        /\ \A s \in Stores \ {goal[w]} : lines'[s] = lines[s]
    BY <1>1, <1>6 DEF WriteLine, WriteCut, Unlock
  <2>2. ASSUME NEW v \in Writers, writer'[v] \in {"read", "write"}
        PROVE  v # w /\ goal[v] # goal[w] /\ writer'[v] = writer[v]
    BY <1>2, <2>1, <2>2
  <2>3. QED
    BY <1>1, <1>2, <1>n, <2>1, <2>2 DEF DrawnInv
<1>7. CASE ServiceStops
  BY <1>1, <1>7 DEF ServiceStops, DrawnInv
<1>8. CASE UNCHANGED logVars
  BY <1>1, <1>2, <1>n, <1>8 DEF logVars, DrawnInv
<1>9. QED
  BY <1>3, <1>4, <1>5, <1>6, <1>7, <1>8 DEF LogNext

LEMMA EmptyFile ==
  /\ FileOK(<<>>, "events") /\ FileOK(<<>>, "output")
  /\ DoneAt(<<>>) = {} /\ Cardinality(DoneAt(<<>>)) = 0
<1>1. DoneAt(<<>>) = {}
  BY DEF DoneAt
<1>2. Cardinality(DoneAt(<<>>)) = 0
  BY <1>1, FS_EmptySet
<1>3. QED
  BY <1>1, <1>2 DEF FileOK, CutLast, Ordered, Plain

LEMMA LogInitInv == LogInit => LogInv
<1> SUFFICES ASSUME LogInit PROVE LogInv
  OBVIOUS
<1>1. LogTypeOK
  BY LogAssumption DEF LogInit, LogTypeOK
<1>2. DrawnInv
  BY DEF LogInit, DrawnInv
<1>3. FilesInv
  BY EmptyFile DEF LogInit, FilesInv, Stores
<1>4. QED
  BY <1>1, <1>2, <1>3 DEF LogInv

LEMMA LogInvariance == LogSpec => []LogInv
<1>1. LogInv /\ [LogNext]_logVars => LogInv'
  BY LogTypeStep, DrawnStep, LinesStep DEF LogInv, FilesInv, Grown, Grows
<1>2. QED
  BY LogInitInv, <1>1, PTL DEF LogSpec

LEMMA KeptStep ==
  ASSUME LogInv, LogInv', [LogNext]_logVars, NEW s \in Stores
  PROVE  \/ Kept(lines[s])' = Append(Kept(lines[s]), Len(Kept(lines[s])) + 1)
         \/ Kept(lines[s])' = Kept(lines[s])
<1> DEFINE c == Cardinality(DoneAt(lines[s]))
           d == Cardinality(DoneAt(lines'[s]))
<1>1. c \in Nat /\ d \in {c, c + 1}
  BY LinesStep, PlacesFinite DEF Grown, Grows, LogInv, FilesInv, FileOK
<1>2. Kept(lines[s]) = [k \in 1..c |-> k] /\ Kept(lines'[s]) = [k \in 1..d |-> k]
  BY LinesStep, KeptInOrder DEF Grown, Grows, LogInv, FilesInv, FileOK
<1> HIDE DEF c, d
<1>3. [k \in 1..(c + 1) |-> k] = Append([k \in 1..c |-> k], c + 1) /\ Len([k \in 1..c |-> k]) = c
  BY <1>1
<1>4. QED
  BY <1>1, <1>2, <1>3

\* Whatever is cut short, cut in two or raised, and however often, the finished
\* entries of the events and of the process output are append-only logs numbered
\* from one, and a file that its readers refuse stays as it is.
THEOREM LogsCorrect == LogSpec => LogsRefine
<1>1. LogInit => Events!Init /\ Output!Init
  <2>1. ASSUME LogInit, NEW s \in Stores PROVE Kept(lines[s]) = <<>>
    <3>1. lines[s] = <<>> /\ lines[s] \in Seq(Lines)
      BY <2>1 DEF LogInit
    <3>2. Kept(lines[s]) = [k \in 1..0 |-> k]
      BY <3>1, EmptyFile, KeptInOrder DEF FileOK
    <3>3. QED
      BY <3>2
  <2>2. QED
    BY <2>1 DEF Events!Init, Output!Init, Stores
<1>2. LogInv /\ LogInv' /\ [LogNext]_logVars =>
        [Events!Add]_(Kept(lines["events"])) /\ [Output!Add]_(Kept(lines["output"]))
  BY KeptStep DEF Events!Add, Output!Add, Stores
<1>3. LogInv => LogTypeOK /\ EventsReadable
  BY DEF LogInv, FilesInv, FileOK, Plain, EventsReadable, Raises, Malformed, Undecodable,
         Good, Stores
<1>4. LogSpec => Events!Spec
  BY <1>1, <1>2, LogInvariance, PTL DEF LogSpec, Events!Spec
<1>5. LogSpec => Output!Spec
  BY <1>1, <1>2, LogInvariance, PTL DEF LogSpec, Output!Spec
<1>6. LogInv /\ [LogNext]_logVars => [\A s \in Stores : Raises(s) => lines'[s] = lines[s]]_logVars
  <2> SUFFICES ASSUME LogInv, LogNext, NEW s \in Stores, Raises(s)
               PROVE  lines'[s] = lines[s]
    BY DEF logVars
  <2>1. /\ goal \in [Writers -> Stores] /\ DOMAIN lines = Stores
        /\ \A w \in Writers : writer[w] = "write" => goal[w] # s
    BY DEF LogInv, LogTypeOK, DrawnInv
  <2>2. CASE \E w \in Writers : WriteLine(w) \/ WriteCut(w)
    BY <2>1, <2>2 DEF WriteLine, WriteCut
  <2>3. CASE ServiceStops
    <3>1. lines'[s] \in Left(s)
      BY <2>3 DEF ServiceStops, Stores
    <3>2. QED
      BY <2>1, <3>1 DEF Left
  <2>4. CASE lines' = lines
    BY <2>4
  <2>5. QED
    BY <2>2, <2>3, <2>4 DEF LogNext, Lock, Draw, DrawRaises
<1>7. LogSpec => RefusedIsLeft
  BY <1>6, LogInvariance, PTL DEF LogSpec, RefusedIsLeft
<1>8. QED
  BY <1>3, <1>4, <1>5, <1>7, LogInvariance, PTL DEF LogsRefine

-----------------------------------------------------------------------------
(* AgentSessions. *)

Recording == {"write", "fill", "replace"}

SesTypes ==
  /\ SesTypeOK
  /\ then \in [Workers -> {"idle", "qa", "new", "fresh", "qaCall"}]
  /\ fd \in [Workers -> {"tmp", "ledger", "lost"}]
  /\ overlapped \in BOOLEAN

\* While workers follow each other, one writes the ledger at a time: what it
\* renames is what it has written, and it never takes the entry of a session
\* out of the ledger.
Serially ==
  ~overlapped =>
    /\ \A v, w \in Workers : agent[v] # "idle" /\ agent[w] # "idle" => v = w
    /\ ledger \notin Unreadable
    /\ ledger = Absent => named = {}
    /\ \A w \in Workers :
         /\ agent[w] \in {"open", "note"} => ledger = Absent
         /\ agent[w] = "fresh" => ledger \in Session /\ ledger.id = NoId
         /\ agent[w] \in Recording => /\ held[w] = Absent => named = {}
                                      /\ then[w] = "fresh" => held[w] = Degraded
         /\ agent[w] = "fill" => fd[w] = "tmp" /\ tmp = No("empty")
         /\ agent[w] = "replace" => tmp = held[w]

SesInv == SesTypes /\ Serially

-----------------------------------------------------------------------------
LEMMA Entries ==
  /\ Absent \notin Session /\ Absent \notin Unreadable /\ No("none") \notin Session
  /\ Degraded \in Session /\ Degraded.id = NoId /\ Absent.id = NoId /\ Degraded # Absent
  /\ \A e \in Session : e.mode \in {"new", "degraded"} /\ e.id \in Ids \cup {NoId} /\ e \notin Unreadable
  /\ \A u \in Unreadable : u.id = NoId
  /\ No("none").id = NoId
  /\ No("empty") \in Unreadable /\ No("broken") \in Unreadable
  /\ No("none") \notin Unreadable /\ No("none") # Absent
BY DEF Absent, Degraded, Session, No, Unreadable

LEMMA LedgerLoaded ==
  ASSUME SesTypeOK
  PROVE  /\ Loaded \in Session \cup {Absent}
         /\ ledger \notin Unreadable => Loaded = ledger
BY DEF SesTypeOK, Loaded

LEMMA SesInitInv == SesInit => SesInv
<1> SUFFICES ASSUME SesInit PROVE SesInv
  OBVIOUS
<1> USE Entries DEF SesInit
<1>1. SesTypes
  <2>1. issued \in 0 .. MaxSessions
    BY SessionAssumption
  <2>2. QED
    BY <2>1 DEF SesTypes, SesTypeOK
<1>2. Serially
  BY DEF Serially, Recording
<1>3. QED
  BY <1>1, <1>2 DEF SesInv

LEMMA SesTypeStep ==
  ASSUME SesTypes, [SesNext]_sesVars
  PROVE  SesTypes'
<1> USE Entries DEF SesTypes, SesTypeOK, At, files, Recording
<1>1. ASSUME NEW w \in Workers, Attempt(w) PROVE SesTypes'
  BY <1>1, LedgerLoaded DEF Attempt, NextCall
<1>2. ASSUME NEW w \in Workers, OpenSession(w) PROVE SesTypes'
  <2>1. issued + 1 \in Ids /\ issued' = issued + 1
    BY <1>2, SessionAssumption DEF OpenSession, Ids
  <2>2. \A id \in {NoId, issued + 1} : [mode |-> "new", id |-> id] \in Session
    BY <2>1 DEF Session
  <2>3. QED
    BY <1>2, <2>1, <2>2, SessionAssumption DEF OpenSession, Record, Ids
<1>3. ASSUME NEW w \in Workers, NoteNew(w) PROVE SesTypes'
  <2>1. issued + 1 \in Ids /\ issued' = issued + 1
    BY <1>3, SessionAssumption DEF NoteNew, Ids
  <2>2. [mode |-> "new", id |-> issued + 1] \in Session
    BY <2>1 DEF Session
  <2>3. QED
    BY <1>3, <2>1, <2>2, SessionAssumption DEF NoteNew, Record, Ids
<1>4. ASSUME NEW w \in Workers, Resume(w) PROVE SesTypes'
  BY <1>4 DEF Resume, Record
<1>5. ASSUME NEW w \in Workers, CallAgent(w) PROVE SesTypes'
  BY <1>5 DEF CallAgent
<1>6. ASSUME NEW w \in Workers, QaRecord(w) PROVE SesTypes'
  BY <1>6, LedgerLoaded DEF QaRecord, Record
<1>7. ASSUME NEW w \in Workers, QaCall(w) PROVE SesTypes'
  BY <1>7 DEF QaCall
<1>8. ASSUME NEW w \in Workers, OpenTemporary(w) PROVE SesTypes'
  BY <1>8 DEF OpenTemporary
<1>9. ASSUME NEW w \in Workers, Fill(w) PROVE SesTypes'
  <2>1. \A e : e \in Filled(tmp, held[w]) \/ e \in Filled(ledger, held[w]) =>
          e \in Session \cup {Absent} \cup Unreadable
    BY DEF Filled
  <2>2. ledger' \in Session \cup {Absent} \cup Unreadable
    BY <1>9, <2>1 DEF Fill
  <2>3. tmp' = tmp \/ tmp' \in Session \cup {Absent} \cup Unreadable
    BY <1>9, <2>1 DEF Fill
  <2>4. named' = named \/ named' = Named(ledger')
    BY <1>9 DEF Fill
  <2>5. Named(ledger') \subseteq Ids
    BY <2>2 DEF Named
  <2>6. /\ agent' = [agent EXCEPT ![w] = "replace"]
        /\ UNCHANGED <<codex, issued, then, held, fd, attempts, overlapped>>
    BY <1>9 DEF Fill
  <2>7. QED
    BY <2>2, <2>3, <2>4, <2>5, <2>6
<1>10. ASSUME NEW w \in Workers, Replace(w) PROVE SesTypes'
  <2>1. tmp \in Session \cup {Absent} \cup Unreadable
    BY <1>10 DEF Replace
  <2>2. Named(tmp) \subseteq Ids
    BY <2>1 DEF Named
  <2>3. fd' \in [Workers -> {"tmp", "ledger", "lost"}]
    BY <1>10 DEF Replace
  <2>4. QED
    BY <1>10, <2>1, <2>2, <2>3 DEF Replace
<1>11. ASSUME NEW w \in Workers, RecordFails(w) PROVE SesTypes'
  BY <1>11 DEF RecordFails
<1>12. CASE UNCHANGED sesVars
  BY <1>12 DEF sesVars
<1>13. QED
  BY <1>1, <1>2, <1>3, <1>4, <1>5, <1>6, <1>7, <1>8, <1>9, <1>10, <1>11, <1>12 DEF SesNext

\* Nobody is at the ledger beside the worker that reads or writes it.
LEMMA SeriallyStep ==
  ASSUME SesTypes, Serially, [SesNext]_sesVars
  PROVE  Serially'
<1> USE Entries DEF SesTypes, SesTypeOK, Serially, Recording, At, files
<1>1. ASSUME NEW w \in Workers, Attempt(w) PROVE Serially'
  <2> SUFFICES ASSUME ~overlapped' PROVE Serially'
    BY DEF Serially
  <2>1. ~overlapped /\ \A v \in Workers \ {w} : agent[v] = "idle"
    BY <1>1 DEF Attempt
  <2>2. Loaded = ledger
    BY <2>1, LedgerLoaded
  <2>3. /\ agent' = [agent EXCEPT ![w] = NextCall]
        /\ UNCHANGED <<ledger, tmp, named, fd, then>>
    BY <1>1 DEF Attempt
  <2>4. /\ NextCall \in {"open", "note", "fresh", "resume"}
        /\ NextCall \in {"open", "note"} => ledger = Absent
        /\ NextCall = "fresh" => ledger \in Session /\ ledger.id = NoId
    BY <2>1, <2>2 DEF NextCall
  <2>5. QED
    BY <2>1, <2>3, <2>4
<1>2. ASSUME NEW w \in Workers, OpenSession(w) PROVE Serially'
  <2>1. \A id : [mode |-> "new", id |-> id] # Absent
    BY DEF Absent, No
  <2>2. QED
    BY <1>2, <2>1 DEF OpenSession, Record
<1>3. ASSUME NEW w \in Workers, NoteNew(w) PROVE Serially'
  <2>1. \A id : [mode |-> "new", id |-> id] # Absent
    BY DEF Absent, No
  <2>2. QED
    BY <1>3, <2>1 DEF NoteNew, Record
<1>4. ASSUME NEW w \in Workers, Resume(w) PROVE Serially'
  BY <1>4 DEF Resume, Record
<1>5. ASSUME NEW w \in Workers, CallAgent(w) PROVE Serially'
  BY <1>5 DEF CallAgent
<1>6. ASSUME NEW w \in Workers, QaRecord(w) PROVE Serially'
  BY <1>6, LedgerLoaded DEF QaRecord, Record
<1>7. ASSUME NEW w \in Workers, QaCall(w) PROVE Serially'
  BY <1>7 DEF QaCall
<1>8. ASSUME NEW w \in Workers, OpenTemporary(w) PROVE Serially'
  BY <1>8 DEF OpenTemporary
<1>9. ASSUME NEW w \in Workers, Fill(w) PROVE Serially'
  <2> SUFFICES ASSUME ~overlapped' PROVE Serially'
    BY DEF Serially
  <2>1. ~overlapped /\ agent[w] = "fill" /\ fd[w] = "tmp" /\ tmp = No("empty")
    BY <1>9 DEF Fill
  <2>2. tmp' = held[w] /\ UNCHANGED <<ledger, named>>
    BY <1>9, <2>1 DEF Fill, Filled
  <2>3. /\ agent' = [agent EXCEPT ![w] = "replace"]
        /\ UNCHANGED <<then, held, fd>>
    BY <1>9 DEF Fill
  <2>4. QED
    BY <2>1, <2>2, <2>3
<1>10. ASSUME NEW w \in Workers, Replace(w) PROVE Serially'
  <2> SUFFICES ASSUME ~overlapped' PROVE Serially'
    BY DEF Serially
  <2>1. ~overlapped /\ agent[w] = "replace" /\ tmp = held[w]
    BY <1>10 DEF Replace
  <2>2. /\ ledger' = held[w] /\ held[w] \in Session \cup {Absent}
        /\ named' = Named(held[w])
        /\ held[w] = Absent => named = {}
    BY <1>10, <2>1 DEF Replace
  <2>3. held[w] = Absent => named' = {}
    BY <2>2 DEF Named
  <2>4. /\ agent' = [agent EXCEPT ![w] = then[w]]
        /\ \A v \in Workers : v # w => agent[v] = "idle"
        /\ UNCHANGED <<then, held>>
    BY <1>10, <2>1 DEF Replace
  <2>5. then[w] \in {"idle", "qa", "new", "fresh", "qaCall"}
    OBVIOUS
  <2>6. QED
    BY <2>1, <2>2, <2>3, <2>4, <2>5
<1>11. ASSUME NEW w \in Workers, RecordFails(w) PROVE Serially'
  BY <1>11 DEF RecordFails
<1>12. CASE UNCHANGED sesVars
  BY <1>12 DEF sesVars
<1>13. QED
  BY <1>1, <1>2, <1>3, <1>4, <1>5, <1>6, <1>7, <1>8, <1>9, <1>10, <1>11, <1>12 DEF SesNext

LEMMA SesInvariance == SesSpec => []SesInv
<1>1. SesInv /\ [SesNext]_sesVars => SesInv'
  BY SesTypeStep, SeriallyStep DEF SesInv
<1>2. QED
  BY SesInitInv, <1>1, PTL DEF SesSpec

-----------------------------------------------------------------------------
\* However many workers of a Run follow each other, and whichever calls and
\* writes fail: the context of its session is not given up without a record.
THEOREM SessionsCorrect == SesSpec => []DegradationRecorded
<1>1. SesInv => DegradationRecorded
  BY Entries DEF SesInv, SesTypes, Serially, DegradationRecorded
<1>2. QED
  BY <1>1, SesInvariance, PTL

=============================================================================
