--------------------------- MODULE WorkflowEngine ---------------------------
(***************************************************************************)
(* engine/engine.py running workflows/ticket-pipeline.yaml: plan, execute, *)
(* verify, a loop edge back to execute on a reject, close on an accept.    *)
(* The interpreter computes the ready nodes, runs them one after the       *)
(* other, and after each fires its edges.  The close node is               *)
(* handlers/close_ticket.py, a call of PlaneClient.  A run that raises is  *)
(* started again by hand, on the same ticket.                              *)
(*                                                                         *)
(* Abstracted: the output of execute is a number, new for every execution; *)
(* templates give a node the outputs that its `inputs` name; --mock, whose *)
(* outputs are canned, takes the same edges and calls nothing.             *)
(***************************************************************************)
EXTENDS AgentCall, PlaneClient

CONSTANTS
  MaxRetries,   \* vars.max_retries, 5 in the workflow
  MaxSteps,     \* max_steps, 500 in the code
  MaxRuns,      \* bound: runs of the workflow on the ticket
  AgentChoices  \* bound: agent records that a workflow can give execute

ASSUME EngineAssumption ==
  /\ MaxRetries \in Nat /\ MaxSteps \in Nat /\ MaxRuns \in Nat
  /\ \A a \in AgentChoices :
       DOMAIN a = {"driver", "role", "mode", "tools", "cwd", "branch"}

VARIABLES
  setup,    \* the workflow's agents and guardrails, the Run context
  engine,   \* locals of Engine.run
  output,   \* outputs["execute"]: its number, 0: none
  stale,    \* stale[n]
  tries,    \* retry_count per edge
  spawned,  \* history: agents whose program was spawned, and after what failure
  executed, \* executions so far, over all runs
  sound     \* history: executions about which a sound PASS was given

wfVars  == <<setup, engine, output, stale, tries, spawned, executed, sound>>
engVars == <<wfVars, plVars>>

-----------------------------------------------------------------------------
Edge(from, to, loop, when, capped) ==
  [from |-> from, to |-> to, loop |-> loop, when |-> when, capped |-> capped]

Nodes == <<"plan", "execute", "verify", "close">>
Edges == << Edge("plan",    "execute", FALSE, None,     FALSE),
            Edge("execute", "verify",  FALSE, None,     FALSE),
            Edge("verify",  "execute", TRUE,  "reject", TRUE),
            Edge("verify",  "close",   FALSE, "accept", FALSE) >>

NodeSet == {Nodes[k] : k \in DOMAIN Nodes}
Forward(n) == {i \in DOMAIN Edges : Edges[i].to = n /\ ~Edges[i].loop}
Needs(n) == {Edges[i].from : i \in Forward(n)}

\* Slip: a node starts stale whatever its incoming edges say.
GatedNever(n) == FALSE

\* All forward edges into n carry a condition: one of them has to fire.
Gated(n) == Forward(n) # {} /\ \A i \in Forward(n) : Edges[i].when # None

Ready == {n \in NodeSet : stale[n] /\ Needs(n) \subseteq engine.done}

\* A workflow need not name a fallback.
NoAgent == [driver |-> None, role |-> None, mode |-> None, tools |-> {},
            cwd |-> None, branch |-> None]

NoRun == [phase |-> "idle", batch |-> {}, steps |-> 0, done |-> {},
          runs |-> 0, why |-> None, at |-> None]

WfInit ==
  /\ PlInit
  /\ setup \in [agent : AgentChoices, backup : AgentChoices \cup {NoAgent},
                branch : {None, "run", "main"},
                policy : {StrictPolicy,
                          [roots |-> {"sandbox", "worktree"}, readOnly |-> FALSE,
                           tools |-> {"Read", "Edit", "Fetch"}]}]
  /\ engine = NoRun
  /\ output = 0
  /\ stale = [n \in NodeSet |-> FALSE]
  /\ tries = [i \in DOMAIN Edges |-> 0]
  /\ spawned = {} /\ executed = 0 /\ sound = {}

\* Engine.run: everything starts from nothing but the ticket.
StartWorkflow ==
  /\ engine.phase \in {"idle", "failed", "ended"} /\ engine.runs < MaxRuns
  /\ engine' = [NoRun EXCEPT !.phase = "running", !.runs = engine.runs + 1]
  /\ output' = 0
  /\ stale' = [n \in NodeSet |-> ~Gated(n)]
  /\ tries' = [i \in DOMAIN Edges |-> 0]
  /\ call' = NoCall
  /\ UNCHANGED <<setup, spawned, executed, sound, issue>>

Between == engine.phase = "running" /\ engine.batch = {}

\* The guard of the interpreter against a loop that never ends.
TooManySteps ==
  /\ Between /\ engine.steps >= MaxSteps
  /\ engine' = [engine EXCEPT !.phase = "failed", !.why = "max_steps"]
  /\ UNCHANGED <<setup, output, stale, tries, spawned, executed, sound, plVars>>

NextBatch ==
  /\ Between /\ engine.steps < MaxSteps /\ Ready # {}
  /\ engine' = [engine EXCEPT !.steps = @ + 1, !.batch = Ready]
  /\ UNCHANGED <<setup, output, stale, tries, spawned, executed, sound, plVars>>

\* Nothing is ready: the nodes that never ran are reported, not run.
WorkflowEnds ==
  /\ Between /\ engine.steps < MaxSteps /\ Ready = {}
  /\ engine' = [engine EXCEPT !.phase = "ended"]
  /\ UNCHANGED <<setup, output, stale, tries, spawned, executed, sound, plVars>>

\* The nodes of a batch run in the order of the file.
Running(n) ==
  /\ engine.phase = "running"
  /\ \E k \in DOMAIN Nodes : /\ Nodes[k] = n /\ n \in engine.batch
                            /\ \A j \in 1..(k - 1) : Nodes[j] \notin engine.batch

-----------------------------------------------------------------------------
AtCap(i) == Edges[i].capped /\ tries[i] >= MaxRetries

\* _fire_edges: edges out of n whose condition holds and whose cap is not
\* reached.
Fired(n, value) ==
  {i \in DOMAIN Edges : /\ Edges[i].from = n
                        /\ Edges[i].when = None \/ Edges[i].when = value
                        /\ ~AtCap(i)}

\* A node of the batch has returned value: record it, then fire its edges.
Complete(n, value) ==
  /\ engine' = [engine EXCEPT !.batch = @ \ {n}, !.done = @ \cup {n}, !.at = None]
  /\ stale' = [m \in NodeSet |-> \/ \E i \in Fired(n, value) : Edges[i].to = m
                                 \/ stale[m] /\ m # n]
  /\ tries' = [i \in DOMAIN Edges |->
                 tries[i] + (IF i \in Fired(n, value) /\ Edges[i].capped THEN 1 ELSE 0)]

Raise(why) ==
  /\ engine' = [engine EXCEPT !.phase = "failed", !.why = why, !.batch = {}]
  /\ UNCHANGED <<stale, tries>>

PlanNode ==
  /\ Running("plan")
  /\ Complete("plan", None) \/ Raise("error")
  /\ UNCHANGED <<setup, output, spawned, executed, sound, plVars>>

-----------------------------------------------------------------------------
\* The node execute: its agent, then once its fallback.
ExecuteNode == [role |-> None, agent |-> "executor"]

AgentUnderWay == IF engine.at = "backup" THEN setup.backup ELSE setup.agent

ByCli == AgentUnderWay.driver = "cli"

IsDenied(agent) ==
  ByCli /\ Denied(ExecuteNode, agent, setup.branch, setup.policy)

\* Only a failure that is no SecurityError goes to the fallback.
FallsBack(why) == engine.at = None /\ setup.backup # NoAgent /\ why # "denied"

AgentFails(why) ==
  IF FallsBack(why)
    THEN /\ engine' = [engine EXCEPT !.at = "backup", !.why = why]
         /\ UNCHANGED <<stale, tries>>
    ELSE Raise(why)

\* check_cwd, check_permission_mode, check_tools, check_role_boundary.
AgentDenied ==
  /\ Running("execute") /\ IsDenied(AgentUnderWay)
  /\ AgentFails("denied")
  /\ UNCHANGED <<setup, output, spawned, executed, sound, plVars>>

Spawns == spawned' = spawned \cup {[agent |-> AgentUnderWay, after |-> engine.why]}

\* cli_call, _maybe_json: a non-zero exit, a timeout, or output that is not
\* the JSON asked for; the agent may have worked all the same.
ProgramErrs ==
  /\ Running("execute") /\ ByCli /\ ~IsDenied(AgentUnderWay)
  /\ Spawns
  /\ AgentFails("error")
  /\ UNCHANGED <<setup, output, executed, sound, plVars>>

ProgramReturns ==
  /\ Running("execute") /\ ByCli /\ ~IsDenied(AgentUnderWay)
  /\ Spawns
  /\ executed' = executed + 1 /\ output' = executed + 1
  /\ Complete("execute", None)
  /\ UNCHANGED <<setup, sound, plVars>>

\* llm_call, hermes_call: one HTTP request and no guardrail on this side.
GatewayErrs ==
  /\ Running("execute") /\ ~ByCli
  /\ AgentFails("error")
  /\ UNCHANGED <<setup, output, spawned, executed, sound, plVars>>

GatewayReturns ==
  /\ Running("execute") /\ ~ByCli
  /\ executed' = executed + 1 /\ output' = executed + 1
  /\ Complete("execute", None)
  /\ UNCHANGED <<setup, spawned, sound, plVars>>

-----------------------------------------------------------------------------
\* handlers/qa.py: what run_qa makes of one answer about the last execution.
VerifyNode ==
  /\ Running("verify")
  /\ \E failed \in BOOLEAN, p \in Payloads :
       /\ Complete("verify", QaDecision(failed, p))
       /\ sound' = IF /\ ~failed /\ p.json /\ p.shape /\ p.verdict = "PASS"
                      /\ p.criteria \subseteq {"PASS"} /\ ~p.severe
                      THEN sound \cup {output} ELSE sound
  /\ UNCHANGED <<setup, output, spawned, executed, plVars>>

\* close_ticket posts the plan and the result and asks for Done.
CloseNode ==
  /\ Running("close") /\ engine.at = None
  /\ SetTicketState("Done", output)
  /\ engine' = [engine EXCEPT !.at = "plane"]
  /\ UNCHANGED <<setup, output, stale, tries, spawned, executed, sound, issue>>

PlaneStep == engine.at = "plane" /\ PlStep /\ UNCHANGED wfVars

CloseReturns ==
  /\ Running("close") /\ call.at \in {"returned", "raised"}
  /\ IF call.at = "returned" THEN Complete("close", None) ELSE Raise("error")
  /\ UNCHANGED <<setup, output, spawned, executed, sound, plVars>>

WfNext == \/ StartWorkflow \/ TooManySteps \/ NextBatch \/ WorkflowEnds
          \/ PlanNode \/ AgentDenied
          \/ ProgramErrs \/ ProgramReturns \/ GatewayErrs \/ GatewayReturns
          \/ VerifyNode \/ CloseNode \/ PlaneStep \/ CloseReturns

WfSpec == WfInit /\ [][WfNext]_engVars

-----------------------------------------------------------------------------
WfTypeOK ==
  /\ engine.phase \in {"idle", "running", "failed", "ended"}
  /\ engine.batch \subseteq NodeSet /\ engine.done \subseteq NodeSet
  /\ engine.steps \in 0..MaxSteps /\ engine.runs \in 0..MaxRuns
  /\ stale \in [NodeSet -> BOOLEAN]
  /\ tries \in [DOMAIN Edges -> 0..MaxRetries]
  /\ issue.state \in {"open", "Done"}

\* Whatever the rounds of rejects, fallbacks and repeated runs: what is
\* posted to the ticket is an execution that a sound PASS was about, and the
\* ticket is Done only then (engine.run, run_qa and close_ticket together).
ClosedIsPassed ==
  /\ WfTypeOK
  /\ \A k \in DOMAIN issue.comments : issue.comments[k] \in sound
  /\ issue.state = "Done" => issue.by \in sound

\* No agent gets past the guardrails by its role, by a workflow that opens
\* its policy, or as the fallback of an agent that was denied.
CallsStayBounded ==
  \A s \in spawned :
    LET a == s.agent IN
      /\ s.after # "denied"
      /\ a.role \in ReadOnlyRoles => a.mode = "read-only" /\ "Edit" \notin a.tools
      /\ a.role = "developer" => /\ a.cwd = "worktree" /\ setup.branch = "run"
                                 /\ a.branch \in {None, "run"} /\ "Fetch" \notin a.tools
      /\ a.role \notin Roles3 /\ setup.policy.readOnly =>
           a.mode = "read-only" /\ a.tools \subseteq {"Read"} /\ a.cwd = "sandbox"
=============================================================================
