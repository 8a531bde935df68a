---------------------------- MODULE TicketBoard ----------------------------
(***************************************************************************)
(* The ticket endpoints of the Web service: TicketBoard of web.py and the  *)
(* requests of SettingsHandler that reach it.                              *)
(*                                                                         *)
(* Every request is a thread.  A start request writes an operation, whose  *)
(* own thread validates the ticket, prepares the Prompts, starts the Web   *)
(* loop and writes how it ended; the page polls the operation.  What lives *)
(* in memory (the board, its lock, its map of loops) dies with the         *)
(* process; the operations, the Prompts and the Runs are files.            *)
(*                                                                         *)
(* Abstracted: WebAgentLoop.start, retry and stop are single steps (they   *)
(* are modules of their own), so is PromptResolver.prepare; the scan of    *)
(* the operations is one step; the tickets are of different issues.        *)
(***************************************************************************)
EXTENDS Naturals, FiniteSets

CONSTANTS
  Starts,       \* POST /api/tickets/<id>/run; also the operation and its Run
  MaxFaults,    \* bound: exceptions out of a file operation or of Plane
  MaxRestarts   \* bound: restarts of the service

ASSUME BoardAssumption ==
  /\ {"none", "page"} \cap Starts = {}
  /\ MaxFaults \in Nat /\ MaxRestarts \in Nat

VARIABLES
  op,        \* op[o]: status in the state.json of operation o
  run,       \* run[o]: status of the Run of operation o
  prompts,   \* issues whose two Prompts are in tasks/
  served,    \* the board in server.ticket_board, named after its first user
  boardOf,   \* boardOf[q]: the board that start request q uses
  lock,      \* lock[b]: holder of b's _operation_lock
  loops,     \* loops[b]: Runs in b's _web_loops
  worker,    \* Runs with a live worker thread
  pc,        \* where each start request is
  th, res,   \* where the thread of each operation is; the status it will write
  faults, restarts

disk    == <<op, run, prompts>>
boards  == <<served, boardOf, lock, loops>>
threads == <<th, res>>
limits  == <<faults, restarts>>
vars    == <<disk, boards, worker, pc, threads, limits>>

-----------------------------------------------------------------------------
\* A board is made for a start request, or for another request of the page.
Boards == Starts \cup {"page"}

Stages == {"queued", "fetch", "prompts", "plan", "start", "register", "copy", "save"}

\* The operation thread that a start request launched is at work.
Live(o) == th[o] \in Stages
Ended   == {"BLOCKED", "HARD_BREAK", "RUNNING"}

Goto(q, l)  == pc' = [pc EXCEPT ![q] = l]
Stage(o, l) == th' = [th EXCEPT ![o] = l]

\* The thread of o goes on to the write of status s.
Result(o, s) == Stage(o, "save") /\ res' = [res EXCEPT ![o] = s]

Init ==
  /\ op = [o \in Starts |-> "NONE"]
  /\ run = [o \in Starts |-> "NONE"]
  /\ prompts = {}
  /\ served = "none"
  /\ boardOf = [q \in Starts |-> "none"]
  /\ lock = [b \in Boards |-> "none"]
  /\ loops = [b \in Boards |-> {}]
  /\ worker = {}
  /\ pc = [q \in Starts |-> "new"]
  /\ th = [o \in Starts |-> "none"]
  /\ res = [o \in Starts |-> "NONE"]
  /\ faults = 0 /\ restarts = 0

-----------------------------------------------------------------------------
(* SettingsHandler.tickets: the board is made by the first request that    *)
(* finds none, without a lock.                                             *)

FindBoard(q) ==
  /\ pc[q] = "new"
  /\ served # "none"
  /\ boardOf' = [boardOf EXCEPT ![q] = served]
  /\ Goto(q, "call")
  /\ UNCHANGED <<disk, served, lock, loops, worker, threads, limits>>

FindNoBoard(q) ==
  /\ pc[q] = "new"
  /\ served = "none"
  /\ Goto(q, "make")
  /\ UNCHANGED <<disk, boards, worker, threads, limits>>

MakeBoard(q) ==
  /\ pc[q] = "make"
  /\ served' = q
  /\ boardOf' = [boardOf EXCEPT ![q] = q]
  /\ Goto(q, "call")
  /\ UNCHANGED <<disk, lock, loops, worker, threads, limits>>

-----------------------------------------------------------------------------
(* start_run, under the board's _operation_lock. *)

\* Slip: the scan does not wait for the lock.
LockFreeAlways(b) == TRUE
LockFree(b) == lock[b] = "none"

Acquire(q) ==
  /\ pc[q] = "call"
  /\ LockFree(boardOf[q])
  /\ lock' = [lock EXCEPT ![boardOf[q]] = q]
  /\ Goto(q, "scan")
  /\ UNCHANGED <<disk, served, boardOf, loops, worker, threads, limits>>

Release(q) == lock' = [lock EXCEPT ![boardOf[q]] = "none"]

\* An operation that some thread, of this service or of a dead one, began.
Underway(o) == op[o] = "PREPARING"

\* "another Run preparation is already active"
Refuse(q) ==
  /\ pc[q] = "scan"
  /\ \E o \in Starts : Underway(o)
  /\ Release(q)
  /\ Goto(q, "refused")
  /\ UNCHANGED <<disk, served, boardOf, loops, worker, threads, limits>>

Admit(q) ==
  /\ pc[q] = "scan"
  /\ ~ \E o \in Starts : Underway(o)
  /\ Goto(q, "claim")
  /\ UNCHANGED <<disk, boards, worker, threads, limits>>

\* The new operation's directory and its first state.json.
Claim(q) ==
  /\ pc[q] = "claim"
  /\ op' = [op EXCEPT ![q] = "PREPARING"]
  /\ Goto(q, "launch")
  /\ UNCHANGED <<run, prompts, boards, worker, threads, limits>>

Launch(q) ==
  /\ pc[q] = "launch"
  /\ Stage(q, "queued")
  /\ Release(q)
  /\ Goto(q, "done")
  /\ UNCHANGED <<disk, served, boardOf, loops, worker, res, limits>>

\* An exception out of mkdir, the write, the settings or the process output.
StartRunFault(q) ==
  /\ pc[q] \in {"scan", "claim", "launch"} /\ faults < MaxFaults
  /\ Release(q)
  /\ Goto(q, "error")
  /\ faults' = faults + 1
  /\ UNCHANGED <<disk, served, boardOf, loops, worker, threads, restarts>>

-----------------------------------------------------------------------------
(* _execute_operation and run, the thread of operation o. *)

\* The state and the settings are read outside of the try statement.
Begin(o) ==
  /\ th[o] = "queued"
  /\ Stage(o, "fetch")
  /\ UNCHANGED <<disk, boards, worker, pc, res, limits>>

\* What _detail asks of the Plane item, which others edit at any time.
Items == [unfinished : BOOLEAN, project : BOOLEAN, preflight : BOOLEAN, readiness : BOOLEAN]
Eligible(item) == item.unfinished /\ item.project /\ item.preflight /\ item.readiness

Fetch(o) ==
  /\ th[o] = "fetch"
  /\ \E item \in Items :
       IF Eligible(item) THEN Stage(o, "prompts") /\ UNCHANGED res
                         ELSE Result(o, "BLOCKED")
  /\ UNCHANGED <<disk, boards, worker, pc, limits>>

ReadPrompts(o) ==
  /\ th[o] = "prompts"
  /\ Stage(o, IF o \in prompts THEN "start" ELSE "plan")
  /\ UNCHANGED <<disk, boards, worker, pc, res, limits>>

\* resolver.prepare without materialisation: READY, or BLOCKED for a
\* preparation or a Run under way, or a broken plan.
Plan(o) ==
  /\ th[o] = "plan"
  /\ \/ Stage(o, "start") /\ UNCHANGED res
     \/ \E s \in {"BLOCKED", "HARD_BREAK"} : Result(o, s)
  /\ UNCHANGED <<disk, boards, worker, pc, limits>>

\* The loop factory raises WebAgentLoopError when an agent is not configured.
Unconfigured(o) ==
  /\ th[o] = "start"
  /\ Result(o, "BLOCKED")
  /\ UNCHANGED <<disk, boards, worker, pc, limits>>

\* Slip: the loop is not kept.
StartLoopOnly(o) ==
  /\ th[o] = "start"
  /\ run' = [run EXCEPT ![o] = "ACTIVE"]
  /\ worker' = worker \cup {o}
  /\ Stage(o, "copy")
  /\ UNCHANGED <<op, prompts, boards, pc, res, limits>>
StartLoop(o) ==
  /\ th[o] = "start"
  /\ run' = [run EXCEPT ![o] = "ACTIVE"]
  /\ worker' = worker \cup {o}
  /\ Stage(o, "register")
  /\ UNCHANGED <<op, prompts, boards, pc, res, limits>>

Register(o) ==
  /\ th[o] = "register"
  /\ loops' = [loops EXCEPT ![boardOf[o]] = @ \cup {o}]
  /\ Stage(o, "copy")
  /\ UNCHANGED <<disk, served, boardOf, lock, worker, pc, res, limits>>

\* The Run is loaded and the process output copied into its directory.
CopyOutput(o) ==
  /\ th[o] = "copy"
  /\ Result(o, "RUNNING")
  /\ UNCHANGED <<disk, boards, worker, pc, limits>>

\* Slip: an exception skips the write of the state.
ThreadEndsUnsaved(o) ==
  /\ th[o] = "save"
  /\ Stage(o, "gone")
  /\ op' = IF res[o] = "HARD_BREAK" THEN op ELSE [op EXCEPT ![o] = res[o]]
  /\ UNCHANGED <<run, prompts, boards, worker, pc, res, limits>>
\* Slip: the page is sent to the Run as soon as the operation is over.
ThreadEndsRunning(o) ==
  /\ th[o] = "save"
  /\ Stage(o, "gone")
  /\ op' = [op EXCEPT ![o] = "RUNNING"]
  /\ UNCHANGED <<run, prompts, boards, worker, pc, res, limits>>
\* The finally clause.
ThreadEnds(o) ==
  /\ th[o] = "save"
  /\ Stage(o, "gone")
  /\ op' = [op EXCEPT ![o] = res[o]]
  /\ UNCHANGED <<run, prompts, boards, worker, pc, res, limits>>

\* An exception before the try or out of the finally clause ends the thread.
ThreadDies(o) ==
  /\ th[o] \in {"queued", "save"} /\ faults < MaxFaults
  /\ Stage(o, "gone")
  /\ faults' = faults + 1
  /\ UNCHANGED <<disk, boards, worker, pc, res, restarts>>

\* An exception in between is a HARD_BREAK without a run_id, whatever it left
\* behind: loop.start can raise after the RunRecord became ACTIVE.
RunFault(o) ==
  /\ th[o] \in {"fetch", "plan", "start", "copy"} /\ faults < MaxFaults
  /\ Result(o, "HARD_BREAK")
  /\ \/ UNCHANGED run
     \/ th[o] = "start" /\ run' = [run EXCEPT ![o] = "ACTIVE"]
  /\ faults' = faults + 1
  /\ UNCHANGED <<op, prompts, boards, worker, pc, restarts>>

-----------------------------------------------------------------------------
(* The worker of a Run, and the requests for a Run. *)

WorkerEnds(o) ==
  /\ o \in worker
  /\ worker' = worker \ {o}
  /\ \E s \in {"RETRYABLE", "PASS"} : run' = [run EXCEPT ![o] = s]
  /\ UNCHANGED <<op, prompts, boards, pc, threads, limits>>

\* The other requests are short: they are single steps, with the board that
\* is served or, if there is none, with a new one.
Page(b) ==
  /\ b = IF served = "none" THEN "page" ELSE served
  /\ served' = b
  /\ UNCHANGED <<boardOf, lock, loops, pc, threads, limits>>

\* _loop_for: a loop for a Run that this board did not start has no Prompts.
HasContext(b, o) == o \in loops[b]

\* retry: any other Run is refused and stays as it is.
Retry(o) ==
  \E b \in Boards :
    /\ Page(b)
    /\ run[o] = "RETRYABLE" /\ HasContext(b, o)
    /\ run' = [run EXCEPT ![o] = "ACTIVE"]
    /\ worker' = worker \cup {o}
    /\ UNCHANGED <<op, prompts>>

\* prepare: the ticket is checked, then its Prompts go into tasks/.
Prepare(o) ==
  \E b \in Boards, item \in Items :
    /\ Page(b)
    /\ Eligible(item)
    /\ prompts' = prompts \cup {o}
    /\ UNCHANGED <<op, run, worker>>

\* Everything else leaves the files alone: the lists and details, a refused
\* retry or preparation, and a stop, which finds no process group because
\* nobody has registered one.
Visit == \E b \in Boards : Page(b) /\ UNCHANGED <<disk, worker>>

\* The service is restarted: only the files remain.
Restart ==
  /\ restarts < MaxRestarts
  /\ restarts' = restarts + 1
  /\ served' = "none"
  /\ boardOf' = [q \in Starts |-> "none"]
  /\ lock' = [b \in Boards |-> "none"]
  /\ loops' = [b \in Boards |-> {}]
  /\ worker' = {}
  /\ pc' = [q \in Starts |-> IF pc[q] \in {"make", "call", "scan", "claim", "launch"}
                                 THEN "dead" ELSE pc[q]]
  /\ th' = [o \in Starts |-> IF Live(o) THEN "gone" ELSE th[o]]
  /\ UNCHANGED <<disk, res, faults>>

-----------------------------------------------------------------------------
StartStep(q) == \/ Acquire(q) \/ Refuse(q) \/ Admit(q) \/ Claim(q) \/ Launch(q)
OperationStep(o) ==
  \/ Begin(o) \/ Fetch(o) \/ ReadPrompts(o) \/ Plan(o) \/ Unconfigured(o) \/ StartLoop(o)
  \/ Register(o) \/ CopyOutput(o) \/ ThreadEnds(o)

Next ==
  \/ \E q \in Starts : FindBoard(q) \/ FindNoBoard(q) \/ MakeBoard(q)
  \/ \E q \in Starts : StartStep(q) \/ StartRunFault(q)
  \/ \E o \in Starts : OperationStep(o) \/ ThreadDies(o) \/ RunFault(o) \/ WorkerEnds(o)
  \/ \E o \in Starts : Retry(o) \/ Prepare(o)
  \/ Visit
  \/ Restart

Spec == Init /\ [][Next]_vars

\* Threads of a running service are scheduled; nobody has to make a request,
\* and a restart or an exception need not happen.
FairSpec ==
  /\ Spec
  /\ \A q \in Starts : WF_vars(StartStep(q))
  /\ \A o \in Starts : WF_vars(OperationStep(o))

-----------------------------------------------------------------------------
TypeOK ==
  /\ op \in [Starts -> Ended \cup {"NONE", "PREPARING"}]
  /\ run \in [Starts -> {"NONE", "ACTIVE", "RETRYABLE", "PASS"}]
  /\ prompts \subseteq Starts
  /\ served \in Boards \cup {"none"}
  /\ boardOf \in [Starts -> Boards \cup {"none"}]
  /\ lock \in [Boards -> Starts \cup {"none"}]
  /\ loops \in [Boards -> SUBSET Starts]
  /\ worker \subseteq Starts
  /\ pc \in [Starts -> {"new", "make", "call", "scan", "claim", "launch", "done",
                          "refused", "error", "dead"}]
  /\ th \in [Starts -> Stages \cup {"none", "gone"}]
  /\ res \in [Starts -> Ended \cup {"NONE"}]
  /\ faults \in 0 .. MaxFaults /\ restarts \in 0 .. MaxRestarts

\* One board never prepares two Runs at a time, whoever dies or raises: the
\* scan, the first state.json and the last one of another thread fit together.
OnePreparation ==
  \A o, p \in Starts : Live(o) /\ Live(p) /\ boardOf[o] = boardOf[p] => o = p

\* The page follows a RUNNING operation to a Run that exists; a BLOCKED one
\* left no Run behind, whatever was raised, and neither did a HARD_BREAK, if
\* nothing was.
OperationTruth ==
  /\ TypeOK
  /\ \A o \in Starts : /\ op[o] = "RUNNING" => run[o] # "NONE"
                       /\ op[o] = "BLOCKED" => run[o] = "NONE"
                       /\ op[o] = "HARD_BREAK" /\ faults = 0 => run[o] = "NONE"

\* A Run is not lost to the page: once its operation is over it can be retried,
\* as long as the board that started it serves the page (no restart, and no
\* second board that another first request made), unless it is one of which an
\* exception kept the operation from hearing.
RunsAreReachable ==
  \A o \in Starts :
    /\ run[o] # "NONE" /\ th[o] = "gone"
    /\ boardOf[o] # "none" /\ boardOf[o] = served
    /\ faults = 0 \/ op[o] = "RUNNING"
    => HasContext(served, o)

\* The page does not poll for ever: an operation leaves PREPARING, unless the
\* process went down or an exception hit one of the unprotected steps.
OperationEnds ==
  \A o \in Starts :
    op[o] = "PREPARING" ~> op[o] \in Ended \/ restarts > 0 \/ (faults > 0 /\ ~Live(o))
=============================================================================
