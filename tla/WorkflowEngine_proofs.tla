----------------------- MODULE WorkflowEngine_proofs -----------------------
(***************************************************************************)
(* Proofs about WorkflowEngine, for every agent, cap, number of steps and  *)
(* number of runs.                                                         *)
(***************************************************************************)
EXTENDS WorkflowEngine, FiniteSetTheorems, TLAPS

-----------------------------------------------------------------------------
(* The graph of the workflow. *)

LEMMA Graph ==
  /\ NodeSet = {"plan", "execute", "verify", "close"}
  /\ DOMAIN Edges = 1..4
  /\ Needs("plan") = {} /\ Needs("execute") = {"plan"}
  /\ Needs("verify") = {"execute"} /\ Needs("close") = {"verify"}
  /\ Gated("close") /\ ~Gated("plan") /\ ~Gated("execute") /\ ~Gated("verify")
<1> USE DEF Edges, Edge, None
<1>1. DOMAIN Nodes = 1..4 /\ DOMAIN Edges = 1..4
  BY DEF Nodes
<1>2. NodeSet = {"plan", "execute", "verify", "close"}
  BY <1>1 DEF NodeSet, Nodes
<1>3. /\ Forward("plan") = {} /\ Forward("execute") = {1}
      /\ Forward("verify") = {2} /\ Forward("close") = {4}
  BY <1>1 DEF Forward
<1>4. /\ Needs("plan") = {} /\ Needs("execute") = {"plan"}
      /\ Needs("verify") = {"execute"} /\ Needs("close") = {"verify"}
  BY <1>3 DEF Needs
<1>5. Gated("close") /\ ~Gated("plan") /\ ~Gated("execute") /\ ~Gated("verify")
  BY <1>3 DEF Gated
<1>6. QED
  BY <1>1, <1>2, <1>4, <1>5

\* What a completed node makes stale.
LEMMA Follows ==
  ASSUME NEW n \in NodeSet, NEW value \in {None, "accept", "reject"},
         Complete(n, value), stale \in [NodeSet -> BOOLEAN]
  PROVE  /\ stale' \in [NodeSet -> BOOLEAN]
         /\ ~stale'[n]
         /\ \A m \in NodeSet \ {n} :
              stale'[m] = \/ stale[m]
                          \/ n = "plan" /\ m = "execute"
                          \/ n = "execute" /\ m = "verify"
                          \/ n = "verify" /\ m = "execute" /\ value = "reject" /\ ~AtCap(3)
                          \/ n = "verify" /\ m = "close" /\ value = "accept"
<1>1. Fired(n, value) =
        {i \in 1..4 : \/ i = 1 /\ n = "plan"
                      \/ i = 2 /\ n = "execute"
                      \/ i = 3 /\ n = "verify" /\ value = "reject" /\ ~AtCap(3)
                      \/ i = 4 /\ n = "verify" /\ value = "accept"}
  <2>1. ~AtCap(1) /\ ~AtCap(2) /\ ~AtCap(4)
    BY DEF AtCap, Edges, Edge
  <2>2. QED
    BY <2>1, Graph DEF Fired, Edges, Edge, None
<1>2. \A i \in 1..4 : Edges[i].to = (CASE i = 1 -> "execute" [] i = 2 -> "verify"
                                        [] i = 3 -> "execute" [] i = 4 -> "close")
  BY DEF Edges, Edge
<1>3. stale' = [m \in NodeSet |-> \/ \E i \in Fired(n, value) : Edges[i].to = m
                                  \/ stale[m] /\ m # n]
  BY DEF Complete
<1>4. \A m \in NodeSet : (\E i \in Fired(n, value) : Edges[i].to = m) <=>
         \/ n = "plan" /\ m = "execute"
         \/ n = "execute" /\ m = "verify"
         \/ n = "verify" /\ m = "execute" /\ value = "reject" /\ ~AtCap(3)
         \/ n = "verify" /\ m = "close" /\ value = "accept"
  BY <1>1, <1>2
<1>5. QED
  BY <1>3, <1>4

\* The counters of the capped edges stay under their cap.
LEMMA Counts ==
  ASSUME NEW n \in NodeSet, NEW value, Complete(n, value),
         tries \in [DOMAIN Edges -> 0..MaxRetries]
  PROVE  tries' \in [DOMAIN Edges -> 0..MaxRetries]
<1>1. ASSUME NEW i \in DOMAIN Edges
      PROVE  tries[i] + (IF i \in Fired(n, value) /\ Edges[i].capped THEN 1 ELSE 0)
               \in 0..MaxRetries
  <2>1. i \in Fired(n, value) /\ Edges[i].capped => ~(tries[i] >= MaxRetries)
    BY DEF Fired, AtCap
  <2>2. tries[i] \in 0..MaxRetries /\ MaxRetries \in Nat
    BY EngineAssumption
  <2>3. QED
    BY <2>1, <2>2
<1>2. QED
  BY <1>1 DEF Complete

-----------------------------------------------------------------------------
(* Type correctness. *)

Types ==
  /\ engine \in [phase : {"idle", "running", "failed", "ended"}, batch : SUBSET NodeSet,
                 steps : 0..MaxSteps, done : SUBSET NodeSet, runs : 0..MaxRuns,
                 why : {None, "error", "denied", "max_steps"}, at : {None, "backup", "plane"}]
  /\ stale \in [NodeSet -> BOOLEAN] /\ tries \in [DOMAIN Edges -> 0..MaxRetries]
  /\ issue \in [state : {"open", "Done"}, comments : Seq(Nat), by : Nat]
  /\ call \in [at : {"idle", "comment", "find", "patch", "returned", "raised"},
               field : {"comment_html", "comment"}, tries : Nat, evidence : Nat,
               wants : {"none", "Done"}]
  /\ InRequest => call.wants = "Done"
  /\ output \in Nat /\ executed \in Nat

LEMMA TypesInit == WfInit => Types
<1> SUFFICES ASSUME WfInit PROVE Types
  OBVIOUS
<1> USE DEF WfInit, PlInit, NoCall, NoRun, InRequest
<1>1. 0 \in 0..MaxRetries /\ 0 \in 0..MaxSteps /\ 0 \in 0..MaxRuns
  BY EngineAssumption
<1>2. <<>> \in Seq(Nat)
  OBVIOUS
<1>3. QED
  BY <1>1, <1>2 DEF Types

\* Completion and failure of a node keep the types.
LEMMA CompleteTypes ==
  ASSUME Types, NEW n \in NodeSet, NEW value \in {None, "accept", "reject"}, Complete(n, value)
  PROVE  /\ engine' = [engine EXCEPT !.batch = @ \ {n}, !.done = @ \cup {n}, !.at = None]
         /\ engine' \in [phase : {"idle", "running", "failed", "ended"}, batch : SUBSET NodeSet,
                         steps : 0..MaxSteps, done : SUBSET NodeSet, runs : 0..MaxRuns,
                         why : {None, "error", "denied", "max_steps"},
                         at : {None, "backup", "plane"}]
         /\ stale' \in [NodeSet -> BOOLEAN] /\ tries' \in [DOMAIN Edges -> 0..MaxRetries]
<1>1. engine' = [engine EXCEPT !.batch = @ \ {n}, !.done = @ \cup {n}, !.at = None]
  BY DEF Complete
<1>2. QED
  BY <1>1, Follows, Counts DEF Types

LEMMA RaiseTypes ==
  ASSUME Types, NEW why \in {"error", "denied"}, Raise(why) \/ AgentFails(why)
  PROVE  /\ engine' \in [phase : {"idle", "running", "failed", "ended"}, batch : SUBSET NodeSet,
                         steps : 0..MaxSteps, done : SUBSET NodeSet, runs : 0..MaxRuns,
                         why : {None, "error", "denied", "max_steps"},
                         at : {None, "backup", "plane"}]
         /\ engine' \in { [engine EXCEPT !.phase = "failed", !.why = why, !.batch = {}],
                          [engine EXCEPT !.at = "backup", !.why = why] }
         /\ engine'.at = "backup" /\ engine'.phase = "running" => why # "denied" \/ engine.at # None
         /\ UNCHANGED <<stale, tries>>
BY DEF Types, Raise, AgentFails, FallsBack

\* A request keeps the types, whether Plane has executed it or not.
LEMMA PlaneTypes ==
  ASSUME Types, PlStep
  PROVE  /\ issue' \in [state : {"open", "Done"}, comments : Seq(Nat), by : Nat]
         /\ call' \in [at : {"idle", "comment", "find", "patch", "returned", "raised"},
                       field : {"comment_html", "comment"}, tries : Nat, evidence : Nat,
                       wants : {"none", "Done"}]
         /\ InRequest' => call'.wants = "Done"
         /\ call'.evidence = call.evidence
         /\ InRequest
         /\ issue' \in {issue, [issue EXCEPT !.comments = Append(@, call.evidence)],
                         [issue EXCEPT !.state = call.wants, !.by = call.evidence]}
<1>1. InRequest /\ call.wants = "Done"
  BY DEF PlStep, PlAnswered, PlGarbled, PlBadRequest, PlRejected, PlUnanswered, Types
<1>2. Executed(call.at) \in {issue, [issue EXCEPT !.comments = Append(@, call.evidence)],
                              [issue EXCEPT !.state = call.wants, !.by = call.evidence]}
  BY <1>1 DEF Executed, InRequest
<1>3. issue' \in {issue, Executed(call.at)}
  BY DEF PlStep, PlAnswered, PlGarbled, PlBadRequest, PlRejected, PlUnanswered
<1>4. Append(issue.comments, call.evidence) \in Seq(Nat)
  BY DEF Types
<1>5. /\ call' \in [at : {"idle", "comment", "find", "patch", "returned", "raised"},
                     field : {"comment_html", "comment"}, tries : Nat, evidence : Nat,
                     wants : {"none", "Done"}]
      /\ call'.wants = call.wants /\ call'.evidence = call.evidence
  <2>1. ASSUME NEW listing PROVE AfterSuccess(listing) \in {"find", "patch", "raised", "returned"}
    BY <1>1 DEF AfterSuccess, InRequest
  <2>2. ASSUME NEW at \in {"find", "patch", "raised", "returned"}, To(at)
        PROVE  /\ call' \in [at : {"idle", "comment", "find", "patch", "returned", "raised"},
                             field : {"comment_html", "comment"}, tries : Nat,
                             evidence : Nat, wants : {"none", "Done"}]
               /\ call'.wants = call.wants /\ call'.evidence = call.evidence
    BY <2>2 DEF To, Types
  <2>3. CASE call' = [call EXCEPT !.field = "comment", !.tries = 0]
    BY <2>3 DEF Types
  <2>4. CASE call' = [call EXCEPT !.tries = @ + 1]
    BY <2>4 DEF Types
  <2>5. CASE PlAnswered
    BY <2>1, <2>2, <2>5 DEF PlAnswered
  <2>6. CASE PlGarbled \/ PlRejected
    BY <2>2, <2>6 DEF PlGarbled, PlRejected
  <2>7. CASE PlBadRequest
    BY <2>2, <2>3, <2>7 DEF PlBadRequest
  <2>8. CASE \E executed_ \in BOOLEAN : PlUnanswered(executed_)
    BY <2>2, <2>4, <2>8 DEF PlUnanswered
  <2>9. QED
    BY <2>5, <2>6, <2>7, <2>8 DEF PlStep
<1>6. issue' \in [state : {"open", "Done"}, comments : Seq(Nat), by : Nat]
  <2>1. [issue EXCEPT !.comments = Append(@, call.evidence)]
           \in [state : {"open", "Done"}, comments : Seq(Nat), by : Nat]
    BY <1>4 DEF Types
  <2>2. [issue EXCEPT !.state = call.wants, !.by = call.evidence]
           \in [state : {"open", "Done"}, comments : Seq(Nat), by : Nat]
    BY <1>1 DEF Types
  <2>3. QED
    BY <1>2, <1>3, <2>1, <2>2 DEF Types
<1>7. QED
  BY <1>1, <1>2, <1>3, <1>5, <1>6

LEMMA TypesNext == Types /\ [WfNext]_engVars => Types'
<1> SUFFICES ASSUME Types, [WfNext]_engVars PROVE Types'
  OBVIOUS
<1> USE DEF Types
<1>1. CASE StartWorkflow
  <2>1. engine.runs + 1 \in 0..MaxRuns /\ 0 \in 0..MaxSteps /\ 0 \in 0..MaxRetries
    BY <1>1, EngineAssumption DEF StartWorkflow
  <2>2. QED
    BY <1>1, <2>1 DEF StartWorkflow, NoRun, NoCall, InRequest
<1>2. CASE TooManySteps \/ WorkflowEnds
  BY <1>2 DEF TooManySteps, WorkflowEnds, plVars, InRequest
<1>3. CASE NextBatch
  <2>1. engine.steps + 1 \in 0..MaxSteps
    BY <1>3, EngineAssumption DEF NextBatch
  <2>2. QED
    BY <1>3, <2>1 DEF NextBatch, Ready, plVars, InRequest
<1>4. CASE PlanNode
  BY <1>4, Graph, CompleteTypes, RaiseTypes DEF PlanNode, plVars, InRequest
<1>5. CASE AgentDenied \/ ProgramErrs \/ GatewayErrs
  BY <1>5, RaiseTypes DEF AgentDenied, ProgramErrs, GatewayErrs, plVars, InRequest
<1>6. CASE ProgramReturns \/ GatewayReturns
  <2>1. /\ Complete("execute", None)
        /\ output' = executed + 1 /\ executed' = executed + 1
        /\ UNCHANGED <<issue, call>>
    BY <1>6 DEF ProgramReturns, GatewayReturns, plVars
  <2>2. /\ InRequest' <=> InRequest
        /\ output' \in Nat /\ executed' \in Nat
    BY <2>1 DEF InRequest
  <2>3. QED
    BY <2>1, <2>2, Graph, CompleteTypes
<1>7. CASE VerifyNode
  <2>1. PICK failed \in BOOLEAN, p \in Payloads : Complete("verify", QaDecision(failed, p))
    BY <1>7 DEF VerifyNode
  <2>2. QED
    BY <1>7, <2>1, Graph, CompleteTypes DEF VerifyNode, QaDecision, plVars, InRequest
<1>8. CASE CloseNode
  BY <1>8 DEF CloseNode, SetTicketState, NoCall, InRequest
<1>9. CASE PlaneStep
  BY <1>9, PlaneTypes DEF PlaneStep, wfVars
<1>10. CASE CloseReturns
  BY <1>10, Graph, CompleteTypes, RaiseTypes DEF CloseReturns, plVars, InRequest
<1>11. CASE UNCHANGED engVars
  BY <1>11 DEF engVars, wfVars, plVars, InRequest
<1>12. QED
  BY <1>1, <1>2, <1>3, <1>4, <1>5, <1>6, <1>7, <1>8, <1>9, <1>10, <1>11 DEF WfNext

-----------------------------------------------------------------------------
(* The guardrails. *)

\* The role of a call to execute is the agent's own, or none.
LEMMA ExecuteRole ==
  ASSUME NEW a \in AgentChoices \cup {NoAgent}
  PROVE  CallRole(ExecuteNode, a) = IF a.role \in Roles3 THEN a.role ELSE None
BY DEF CallRole, NormalRole, ExecuteNode, Roles3, ReadOnlyRoles, None

\* What is not denied is bounded.
Bounded(a, branch, policy) ==
  /\ a.role \in ReadOnlyRoles => a.mode = "read-only" /\ "Edit" \notin a.tools
  /\ a.role = "developer" => /\ a.cwd = "worktree" /\ branch = "run"
                             /\ a.branch \in {None, "run"} /\ "Fetch" \notin a.tools
  /\ a.role \notin Roles3 /\ policy.readOnly =>
       a.mode = "read-only" /\ a.tools \subseteq {"Read"} /\ a.cwd = "sandbox"

SetupOK ==
  setup \in [agent : AgentChoices, backup : AgentChoices \cup {NoAgent},
             branch : {None, "run", "main"},
             policy : {StrictPolicy,
                       [roots |-> {"sandbox", "worktree"}, readOnly |-> FALSE,
                        tools |-> {"Read", "Edit", "Fetch"}]}]

LEMMA NotDenied ==
  ASSUME SetupOK, NEW a \in AgentChoices \cup {NoAgent},
         ~Denied(ExecuteNode, a, setup.branch, setup.policy)
  PROVE  Bounded(a, setup.branch, setup.policy)
<1> DEFINE role == CallRole(ExecuteNode, a)
<1>1. /\ ~PolicyDenied(a, PolicyOf(role, setup.branch, setup.policy))
      /\ ~RoleDenied(role, a, setup.branch)
  BY DEF Denied
<1>2. CASE a.role \in ReadOnlyRoles
  <2>1. role = a.role
    BY <1>2, ExecuteRole DEF Roles3
  <2>2. a.mode = "read-only" /\ a.tools \cap Mutating = {}
    BY <1>1, <1>2, <2>1 DEF RoleDenied
  <2>3. QED
    BY <1>2, <2>2 DEF Bounded, Mutating, ReadOnlyRoles, Roles3
<1>3. CASE a.role = "developer"
  <2>1. role = "developer"
    BY <1>3, ExecuteRole DEF Roles3
  <2>2. ~DeveloperDenied(a, setup.branch)
    BY <1>1, <2>1 DEF RoleDenied
  <2>3. QED
    BY <1>3, <2>2 DEF Bounded, DeveloperDenied, DeveloperTools, SetupOK, ReadOnlyRoles,
                      Roles3, None
<1>4. CASE a.role \notin Roles3
  <2>1. role = None /\ role # "developer"
    BY <1>4, ExecuteRole DEF None
  <2>2. ~PolicyDenied(a, setup.policy)
    BY <1>1, <2>1 DEF PolicyOf
  <2>3. ASSUME setup.policy.readOnly PROVE setup.policy = StrictPolicy
    BY <2>3 DEF SetupOK
  <2>4. setup.policy.readOnly =>
          a.mode = "read-only" /\ a.tools \subseteq {"Read"} /\ a.cwd = "sandbox"
    BY <2>2, <2>3 DEF PolicyDenied, StrictPolicy
  <2>5. QED
    BY <1>4, <2>4 DEF Bounded, Roles3
<1>5. QED
  BY <1>2, <1>3, <1>4 DEF Roles3

\* A run that goes on was never denied an agent: a denial ends it, and no
\* fallback follows.
CallsInv ==
  /\ SetupOK
  /\ engine.phase = "running" => engine.why # "denied"
  /\ \A s \in spawned : s.after # "denied" /\ Bounded(s.agent, setup.branch, setup.policy)

LEMMA CallsInit == WfInit => CallsInv
BY DEF WfInit, CallsInv, SetupOK, NoRun

LEMMA CallsNext == Types /\ CallsInv /\ [WfNext]_engVars => CallsInv'
<1> SUFFICES ASSUME Types, CallsInv, [WfNext]_engVars PROVE CallsInv'
  OBVIOUS
<1> USE DEF CallsInv
<1>1. setup' = setup
  BY DEF WfNext, StartWorkflow, TooManySteps, NextBatch, WorkflowEnds, PlanNode, AgentDenied,
         ProgramErrs, ProgramReturns, GatewayErrs, GatewayReturns, VerifyNode, CloseNode,
         PlaneStep, CloseReturns, engVars, wfVars
<1>2. SetupOK'
  BY <1>1 DEF SetupOK
<1>3. AgentUnderWay \in AgentChoices \cup {NoAgent}
  BY DEF AgentUnderWay, SetupOK
<1>4. ASSUME ProgramErrs \/ ProgramReturns PROVE CallsInv'
  <2>1. /\ ~Denied(ExecuteNode, AgentUnderWay, setup.branch, setup.policy)
        /\ engine.phase = "running"
        /\ spawned' = spawned \cup {[agent |-> AgentUnderWay, after |-> engine.why]}
    BY <1>4 DEF ProgramErrs, ProgramReturns, Spawns, IsDenied, Running
  <2>2. Bounded(AgentUnderWay, setup.branch, setup.policy)
    BY <1>3, <2>1, NotDenied
  <2>3. \A s \in spawned' :
          s.after # "denied" /\ Bounded(s.agent, setup.branch, setup.policy)
    BY <2>1, <2>2
  <2>4. engine'.phase = "running" => engine'.why # "denied"
    <3>1. CASE ProgramErrs
      BY <2>1, <3>1, RaiseTypes DEF ProgramErrs, Types
    <3>2. CASE ProgramReturns
      BY <2>1, <3>2, Graph, CompleteTypes DEF ProgramReturns, Types
    <3>3. QED
      BY <1>4, <3>1, <3>2
  <2>5. QED
    BY <1>1, <1>2, <2>3, <2>4
<1>5. ASSUME WfNext, ~ProgramErrs, ~ProgramReturns
      PROVE  /\ spawned' = spawned
             /\ engine'.phase = "running" => engine'.why # "denied"
  <2>1. CASE StartWorkflow \/ TooManySteps \/ NextBatch \/ WorkflowEnds \/ CloseNode
    BY <2>1 DEF StartWorkflow, TooManySteps, NextBatch, WorkflowEnds, CloseNode, NoRun, None,
                Types
  <2>2. CASE AgentDenied
    <3>1. Raise("denied")
      BY <2>2 DEF AgentDenied, AgentFails, FallsBack
    <3>2. QED
      BY <2>2, <3>1 DEF AgentDenied, Raise, Types
  <2>3. CASE PlanNode \/ GatewayErrs \/ GatewayReturns
    <3>1. CASE \E n \in {"plan", "execute"} : Complete(n, None)
      <4>1. PICK n \in {"plan", "execute"} : Complete(n, None)
        BY <3>1
      <4>2. QED
        BY <2>3, <4>1, Graph, CompleteTypes
        DEF PlanNode, GatewayErrs, GatewayReturns, Running, Types
    <3>2. CASE Raise("error") \/ AgentFails("error")
      BY <2>3, <3>2, RaiseTypes DEF PlanNode, GatewayErrs, GatewayReturns, Running, Types
    <3>3. QED
      BY <2>3, <3>1, <3>2 DEF PlanNode, GatewayErrs, GatewayReturns
  <2>4. CASE VerifyNode
    <3>1. PICK failed \in BOOLEAN, p \in Payloads : Complete("verify", QaDecision(failed, p))
      BY <2>4 DEF VerifyNode
    <3>2. QED
      BY <2>4, <3>1, Graph, CompleteTypes DEF VerifyNode, QaDecision, Running, Types
  <2>5. CASE PlaneStep
    BY <2>5 DEF PlaneStep, wfVars
  <2>6. CASE CloseReturns
    <3>1. CASE Complete("close", None)
      BY <2>6, <3>1, Graph, CompleteTypes DEF CloseReturns, Running, Types
    <3>2. CASE Raise("error")
      BY <2>6, <3>2, RaiseTypes DEF CloseReturns, Running, Types
    <3>3. QED
      BY <2>6, <3>1, <3>2 DEF CloseReturns
  <2>7. QED
    BY <1>5, <2>1, <2>2, <2>3, <2>4, <2>5, <2>6 DEF WfNext
<1>6. QED
  BY <1>1, <1>2, <1>4, <1>5 DEF engVars, wfVars

\* No agent gets past the guardrails, for any agents and any number of rounds,
\* failures and runs.
THEOREM CallsCorrect == WfSpec => []CallsStayBounded
<1>1. CallsInv => CallsStayBounded
  BY DEF CallsInv, CallsStayBounded, Bounded
<1>2. QED
  BY TypesInit, TypesNext, CallsInit, CallsNext, <1>1, PTL DEF WfSpec

-----------------------------------------------------------------------------
(* The gate of the close node. *)

\* Nodes become stale one after the other: one that runs is stale and has what
\* it needs, only what has not run yet is stale together with what follows it,
\* and close is stale alone, about an output that has passed.
Order ==
  /\ \A n \in engine.batch : stale[n] /\ Needs(n) \subseteq engine.done
  /\ stale["plan"] => engine.done = {}
  /\ stale["execute"] /\ "execute" \in engine.done => ~stale["verify"]
  /\ stale["close"] => /\ ~stale["plan"] /\ ~stale["execute"] /\ ~stale["verify"]
                       /\ output \in sound

\* What Plane has, and what a call is about to give it, has passed.
Posted ==
  /\ InRequest => call.evidence \in sound
  /\ \A k \in DOMAIN issue.comments : issue.comments[k] \in sound
  /\ issue.state = "Done" => issue.by \in sound

LEMMA FlowInit == WfInit => Order /\ Posted
BY Graph DEF WfInit, PlInit, NoRun, NoCall, Order, Posted, InRequest

\* A node that runs is stale and has what it needs.
LEMMA RunningIsStale ==
  ASSUME Types, Order, NEW n \in NodeSet, Running(n)
  PROVE  n \in engine.batch /\ stale[n] /\ Needs(n) \subseteq engine.done
BY DEF Running, Order

\* Order after a node has completed: output changes with execute alone.
LEMMA CompleteOrder ==
  ASSUME Types, Order, NEW n \in NodeSet, Running(n),
         NEW value \in {None, "accept", "reject"}, Complete(n, value),
         sound \subseteq sound', n # "execute" => output' = output,
         n = "verify" /\ value = "accept" => output \in sound'
  PROVE  Order'
<1>1. n \in engine.batch /\ stale[n] /\ Needs(n) \subseteq engine.done
  BY RunningIsStale
<1>2. engine'.batch = engine.batch \ {n} /\ engine'.done = engine.done \cup {n}
  BY CompleteTypes DEF Types
<1>3. /\ stale' \in [NodeSet -> BOOLEAN] /\ ~stale'[n]
      /\ \A m \in NodeSet \ {n} :
           stale'[m] = \/ stale[m]
                       \/ n = "plan" /\ m = "execute"
                       \/ n = "execute" /\ m = "verify"
                       \/ n = "verify" /\ m = "execute" /\ value = "reject" /\ ~AtCap(3)
                       \/ n = "verify" /\ m = "close" /\ value = "accept"
  BY Follows DEF Types
<1>4. \A m \in engine'.batch : stale'[m] /\ Needs(m) \subseteq engine'.done
  BY <1>2, <1>3 DEF Order, Types
<1>5. CASE n = "plan"
  BY <1>1, <1>2, <1>3, <1>4, <1>5, Graph DEF Order
<1>6. CASE n = "execute"
  BY <1>1, <1>2, <1>3, <1>4, <1>6, Graph DEF Order
<1>7. CASE n = "verify"
  BY <1>1, <1>2, <1>3, <1>4, <1>7, Graph DEF Order
<1>8. CASE n = "close"
  BY <1>1, <1>2, <1>3, <1>4, <1>8, Graph DEF Order
<1>9. QED
  BY <1>5, <1>6, <1>7, <1>8, Graph

\* A node that fails leaves no batch, or is tried again with the fallback.
LEMMA FailureOrder ==
  ASSUME Types, Order, NEW why \in {"error", "denied"}, Raise(why) \/ AgentFails(why),
         output' = output, sound' = sound
  PROVE  Order'
<1>1. /\ engine'.batch \subseteq engine.batch /\ engine'.done = engine.done
      /\ stale' = stale
  BY RaiseTypes DEF Types
<1>2. QED
  BY <1>1 DEF Order

LEMMA FlowNext == Types /\ Order /\ Posted /\ [WfNext]_engVars => Order' /\ Posted'
<1> SUFFICES ASSUME Types, Order, Posted, [WfNext]_engVars PROVE Order' /\ Posted'
  OBVIOUS
<1>1. CASE StartWorkflow
  <2>1. Order'
    BY <1>1, Graph DEF StartWorkflow, NoRun, Order
  <2>2. Posted'
    BY <1>1 DEF StartWorkflow, NoCall, Posted, InRequest
  <2>3. QED
    BY <2>1, <2>2
<1>2. CASE TooManySteps \/ WorkflowEnds \/ NextBatch
  <2>1. /\ engine'.done = engine.done /\ engine'.batch \subseteq engine.batch \cup Ready
        /\ UNCHANGED <<output, stale, sound, issue, call>>
    BY <1>2 DEF TooManySteps, WorkflowEnds, NextBatch, plVars, Types
  <2>2. QED
    BY <2>1 DEF Ready, Order, Posted, InRequest
<1>3. CASE PlanNode \/ AgentDenied \/ ProgramErrs \/ ProgramReturns \/ GatewayErrs
           \/ GatewayReturns \/ CloseReturns
  <2>1. UNCHANGED <<sound, issue, call>>
    BY <1>3 DEF PlanNode, AgentDenied, ProgramErrs, ProgramReturns, GatewayErrs,
                GatewayReturns, CloseReturns, plVars
  <2>2. Posted'
    BY <2>1 DEF Posted, InRequest
  <2>3. CASE /\ output' = output
             /\ Raise("error") \/ AgentFails("error") \/ AgentFails("denied")
    BY <2>1, <2>2, <2>3, FailureOrder
  <2>4. ASSUME NEW n \in {"plan", "execute", "close"},
               Running(n), Complete(n, None), n # "execute" => output' = output
        PROVE  Order'
    <3>1. n \in NodeSet /\ sound \subseteq sound' /\ n # "verify" /\ None \in {None}
      BY <2>1, Graph
    <3>2. QED
      BY <2>4, <3>1, CompleteOrder
  <2>5. QED
    BY <1>3, <2>2, <2>3, <2>4
    DEF PlanNode, AgentDenied, ProgramErrs, ProgramReturns, GatewayErrs, GatewayReturns,
        CloseReturns
<1>4. CASE VerifyNode
  <2>1. PICK failed \in BOOLEAN, p \in Payloads :
          /\ Complete("verify", QaDecision(failed, p))
          /\ sound' = IF /\ ~failed /\ p.json /\ p.shape /\ p.verdict = "PASS"
                         /\ p.criteria \subseteq {"PASS"} /\ ~p.severe
                         THEN sound \cup {output} ELSE sound
    BY <1>4 DEF VerifyNode
  <2>2. QaDecision(failed, p) = "accept" => output \in sound'
    BY <2>1 DEF QaDecision, ValidVerdict, SelfContradictory
  <2>3. sound \subseteq sound' /\ UNCHANGED <<output, issue, call>> /\ Running("verify")
    BY <1>4, <2>1 DEF VerifyNode, plVars
  <2>4. QaDecision(failed, p) \in {None, "accept", "reject"}
    BY DEF QaDecision
  <2>5. Order'
    BY <2>1, <2>2, <2>3, <2>4, Graph, CompleteOrder
  <2>6. Posted'
    BY <2>3 DEF Posted, InRequest
  <2>7. QED
    BY <2>5, <2>6
<1>5. CASE CloseNode
  <2>1. output \in sound
    BY <1>5, RunningIsStale, Graph DEF CloseNode, Order
  <2>2. /\ call' = [NoCall EXCEPT !.at = "comment", !.evidence = output, !.wants = "Done"]
        /\ engine' = [engine EXCEPT !.at = "plane"]
        /\ UNCHANGED <<output, stale, sound, issue>>
    BY <1>5 DEF CloseNode, SetTicketState
  <2>3. Posted'
    BY <2>1, <2>2 DEF Posted, NoCall
  <2>4. Order'
    BY <2>2 DEF Order, Types
  <2>5. QED
    BY <2>3, <2>4
<1>6. CASE PlaneStep
  <2>1. UNCHANGED <<engine, output, stale, sound>> /\ PlStep
    BY <1>6 DEF PlaneStep, wfVars
  <2>2. Order'
    BY <2>1 DEF Order
  <2>3. call.evidence \in sound /\ call'.evidence = call.evidence
    BY <2>1, PlaneTypes DEF Posted
  <2>4. issue' \in {issue, [issue EXCEPT !.comments = Append(@, call.evidence)],
                    [issue EXCEPT !.state = call.wants, !.by = call.evidence]}
    BY <2>1, PlaneTypes
  <2>5. \A k \in DOMAIN issue'.comments : issue'.comments[k] \in sound
    <3>1. CASE issue'.comments = issue.comments
      BY <3>1 DEF Posted
    <3>2. CASE issue'.comments = Append(issue.comments, call.evidence)
      BY <2>3, <3>2 DEF Posted, Types
    <3>3. QED
      BY <2>4, <3>1, <3>2 DEF Types
  <2>6. issue'.state = "Done" => issue'.by \in sound
    BY <2>3, <2>4 DEF Posted, Types
  <2>7. QED
    BY <2>1, <2>2, <2>3, <2>5, <2>6 DEF Posted
<1>7. CASE UNCHANGED engVars
  BY <1>7 DEF engVars, wfVars, plVars, Order, Posted, InRequest
<1>8. QED
  BY <1>1, <1>2, <1>3, <1>4, <1>5, <1>6, <1>7 DEF WfNext

\* No evidence is posted and no ticket closed unless QA soundly passed that very
\* execution, for any caps, steps, runs and lost answers of Plane.
THEOREM ClosedCorrect == WfSpec => []ClosedIsPassed
<1>1. Types /\ Order /\ Posted => ClosedIsPassed
  BY DEF Types, Posted, ClosedIsPassed, WfTypeOK
<1>2. QED
  BY TypesInit, TypesNext, FlowInit, FlowNext, <1>1, PTL DEF WfSpec

-----------------------------------------------------------------------------
(* The ticket: what Plane holds after lost answers and repeated requests. *)

\* Each execution is posted by one call at most: while its verdict or its
\* close is still to come, Plane has not heard of it.
FreshInv ==
  /\ output <= executed
  /\ \A k \in DOMAIN issue.comments : issue.comments[k] \in 1..executed
  /\ "execute" \in engine.done => output # 0
  /\ stale["close"] => output # 0
  /\ InRequest => /\ engine.at = "plane" /\ "close" \in engine.batch
                  /\ stale["close"] /\ call.evidence = output
  /\ stale["verify"] \/ (stale["close"] /\ engine.at # "plane")
       => \A k \in DOMAIN issue.comments : issue.comments[k] # output

LEMMA FreshInit == WfInit => FreshInv
<1> SUFFICES ASSUME WfInit PROVE FreshInv
  OBVIOUS
<1>1. issue.comments = <<>> /\ output = 0 /\ executed = 0 /\ engine.done = {} /\ ~InRequest
  BY DEF WfInit, PlInit, NoRun, NoCall, InRequest
<1>2. ~stale["close"]
  BY Graph DEF WfInit
<1>3. QED
  BY <1>1, <1>2 DEF FreshInv

\* While a call is under way no other node runs.
LEMMA CallIsAlone ==
  ASSUME Types, Order, FreshInv, InRequest
  PROVE  ~Between /\ \A n \in NodeSet \ {"close"} : ~Running(n)
<1>1. stale["close"] /\ "close" \in engine.batch
  BY DEF FreshInv
<1>2. \A n \in NodeSet \ {"close"} : ~stale[n]
  BY <1>1, Graph DEF Order
<1>3. QED
  BY <1>1, <1>2, RunningIsStale DEF Between

LEMMA DoneAfter ==
  ASSUME Types, NEW n, NEW value, Complete(n, value)
  PROVE  engine'.done = engine.done \cup {n}
BY DEF Complete, Types

LEMMA FreshNext ==
  ASSUME Types, Order, FreshInv, [WfNext]_engVars
  PROVE  FreshInv'
<1>0. /\ output \in Nat /\ executed \in Nat
      /\ \A n \in {"plan", "execute", "verify", "close"} : n \in NodeSet
  BY Graph DEF Types
<1>1. CASE StartWorkflow
  <2>1. /\ output' = 0 /\ engine'.done = {} /\ ~InRequest' /\ UNCHANGED <<issue, executed>>
        /\ ~stale'["close"]
    BY <1>1, Graph DEF StartWorkflow, NoRun, NoCall, InRequest
  <2>2. QED
    BY <1>0, <2>1 DEF FreshInv
<1>2. CASE TooManySteps \/ WorkflowEnds \/ NextBatch
  <2>1. ~InRequest
    BY <1>2, CallIsAlone DEF TooManySteps, WorkflowEnds, NextBatch
  <2>2. /\ engine'.done = engine.done /\ engine'.at = engine.at
        /\ UNCHANGED <<output, executed, stale, issue, call>>
    BY <1>2 DEF TooManySteps, WorkflowEnds, NextBatch, plVars, Types
  <2>3. QED
    BY <2>1, <2>2 DEF FreshInv, InRequest
<1>3. ASSUME NEW why \in {"error", "denied"}, Raise(why) \/ AgentFails(why), ~InRequest,
             UNCHANGED <<output, executed, issue, call>>, ~stale["close"] \/ Raise(why)
      PROVE  FreshInv'
  <2>1. /\ engine'.done = engine.done /\ UNCHANGED stale
        /\ Raise(why) => engine'.at = engine.at
    BY <1>3, RaiseTypes DEF Types, Raise
  <2>2. QED
    BY <1>3, <2>1 DEF FreshInv, InRequest
<1>4. CASE AgentDenied \/ ProgramErrs \/ GatewayErrs
  <2>1. Running("execute") /\ UNCHANGED <<output, executed, issue, call>>
    BY <1>4 DEF AgentDenied, ProgramErrs, GatewayErrs, plVars
  <2>2. ~InRequest /\ ~stale["close"]
    BY <1>0, <2>1, CallIsAlone, RunningIsStale DEF Order
  <2>3. AgentFails("error") \/ AgentFails("denied")
    BY <1>4 DEF AgentDenied, ProgramErrs, GatewayErrs
  <2>4. QED
    BY <1>3, <2>1, <2>2, <2>3
<1>5. CASE PlanNode
  <2>1. /\ Running("plan") /\ ~InRequest /\ UNCHANGED <<output, executed, issue, call>>
        /\ ~stale["close"]
    BY <1>0, <1>5, CallIsAlone, RunningIsStale DEF PlanNode, plVars, Order
  <2>2. CASE Raise("error")
    BY <1>3, <2>1, <2>2
  <2>3. CASE Complete("plan", None)
    <3>1. engine'.done = engine.done \cup {"plan"}
      BY <1>0, <2>3, DoneAfter
    <3>4. stale'["verify"] => stale["verify"]
      BY <1>0, <2>3, Follows DEF Types
    <3>2. ~stale'["close"]
      BY <1>0, <2>1, <2>3, Follows DEF Types
    <3>3. QED
      BY <2>1, <3>1, <3>2, <3>4 DEF FreshInv, InRequest
  <2>4. QED
    BY <1>5, <2>2, <2>3 DEF PlanNode
<1>6. CASE ProgramReturns \/ GatewayReturns
  <2>1. /\ Running("execute") /\ Complete("execute", None)
        /\ output' = executed + 1 /\ executed' = executed + 1 /\ UNCHANGED <<issue, call>>
    BY <1>6 DEF ProgramReturns, GatewayReturns, plVars
  <2>2. ~InRequest /\ ~stale["close"]
    BY <1>0, <2>1, CallIsAlone, RunningIsStale DEF Order
  <2>3. ~stale'["close"]
    BY <1>0, <2>1, <2>2, Follows DEF Types
  <2>4. \A k \in DOMAIN issue.comments :
          issue.comments[k] \in 1..executed' /\ issue.comments[k] # output'
    BY <1>0, <2>1 DEF FreshInv
  <2>5. QED
    BY <1>0, <2>1, <2>2, <2>3, <2>4 DEF FreshInv, InRequest
<1>7. CASE VerifyNode
  <2>1. PICK failed \in BOOLEAN, p \in Payloads : Complete("verify", QaDecision(failed, p))
    BY <1>7 DEF VerifyNode
  <2>2. Running("verify") /\ UNCHANGED <<output, executed, issue, call>>
    BY <1>7 DEF VerifyNode, plVars
  <2>3. /\ ~InRequest /\ stale["verify"] /\ "execute" \in engine.done
    BY <1>0, <2>2, CallIsAlone, RunningIsStale, Graph
  <2>4. engine'.done = engine.done \cup {"verify"}
    BY <1>0, <2>1, DoneAfter
  <2>5. QED
    BY <2>2, <2>3, <2>4 DEF FreshInv, InRequest
<1>8. CASE CloseNode
  <2>1. /\ call' = [NoCall EXCEPT !.at = "comment", !.evidence = output, !.wants = "Done"]
        /\ engine' = [engine EXCEPT !.at = "plane"]
        /\ UNCHANGED <<output, executed, stale, issue>>
    BY <1>8 DEF CloseNode, SetTicketState
  <2>2. stale["close"] /\ "close" \in engine.batch
    BY <1>0, <1>8, RunningIsStale DEF CloseNode
  <2>3. ~stale["verify"]
    BY <2>2 DEF Order
  <2>4. /\ engine'.done = engine.done /\ engine'.at = "plane" /\ engine'.batch = engine.batch
        /\ call'.evidence = output
    BY <2>1 DEF Types, NoCall
  <2>5. QED
    BY <2>1, <2>2, <2>3, <2>4 DEF FreshInv
<1>9. CASE PlaneStep
  <2>1. UNCHANGED <<engine, output, executed, stale>> /\ PlStep
    BY <1>9 DEF PlaneStep, wfVars
  <2>2. /\ InRequest /\ call'.evidence = call.evidence
        /\ issue'.comments \in {issue.comments, Append(issue.comments, call.evidence)}
    BY <2>1, PlaneTypes DEF Types
  <2>3. /\ engine.at = "plane" /\ stale["close"] /\ ~stale["verify"] /\ call.evidence = output
        /\ output \in 1..executed
    BY <1>0, <2>2 DEF FreshInv, Order
  <2>4. \A k \in DOMAIN issue'.comments : issue'.comments[k] \in 1..executed
    <3>1. CASE issue'.comments = issue.comments
      BY <3>1 DEF FreshInv
    <3>2. CASE issue'.comments = Append(issue.comments, call.evidence)
      BY <2>3, <3>2 DEF FreshInv, Types
    <3>3. QED
      BY <2>2, <3>1, <3>2
  <2>5. QED
    BY <2>1, <2>2, <2>3, <2>4 DEF FreshInv
<1>10. CASE CloseReturns
  <2>1. Running("close") /\ ~InRequest /\ UNCHANGED <<output, executed, issue, call>>
    BY <1>10 DEF CloseReturns, InRequest, plVars
  <2>2. CASE Raise("error")
    BY <1>3, <2>1, <2>2
  <2>3. CASE Complete("close", None)
    <3>1. engine'.done = engine.done \cup {"close"}
      BY <1>0, <2>3, DoneAfter
    <3>2. ~stale'["close"] /\ (stale'["verify"] => stale["verify"])
      BY <1>0, <2>3, Follows DEF Types
    <3>3. "close" \in engine.batch /\ Needs("close") \subseteq engine.done
      BY <1>0, <2>1, RunningIsStale
    <3>4. "verify" \in engine.done /\ ~stale["verify"]
      BY <1>0, <2>1, <3>3, Graph, RunningIsStale DEF Order
    <3>5. QED
      BY <2>1, <3>1, <3>2, <3>4 DEF FreshInv, InRequest
  <2>4. QED
    BY <1>10, <2>2, <2>3 DEF CloseReturns
<1>11. CASE UNCHANGED engVars
  BY <1>11 DEF engVars, wfVars, plVars, FreshInv, InRequest
<1>12. QED
  BY <1>1, <1>2, <1>4, <1>5, <1>6, <1>7, <1>8, <1>9, <1>10, <1>11 DEF WfNext

\* One more comment is one more copy of what it carries.
LEMMA CopiesOfAppend ==
  ASSUME NEW s \in Seq(Nat), NEW c \in Nat, NEW e \in Nat
  PROVE  /\ Occurrences(s, e) \in Nat
         /\ Occurrences(Append(s, c), e) = Occurrences(s, e) + (IF c = e THEN 1 ELSE 0)
         /\ (\A k \in DOMAIN s : s[k] # e) => Occurrences(s, e) = 0
<1> DEFINE P == {k \in DOMAIN s : s[k] = e}
           Q == {k \in DOMAIN Append(s, c) : Append(s, c)[k] = e}
<1>1. Len(s) \in Nat /\ DOMAIN s = 1..Len(s)
  OBVIOUS
<1>2. IsFiniteSet(P)
  <2>1. IsFiniteSet(1..Len(s))
    BY <1>1, FS_Interval
  <2>2. P \subseteq 1..Len(s)
    BY <1>1
  <2>3. QED
    BY <2>1, <2>2, FS_Subset
<1>3. Cardinality(P) \in Nat
  BY <1>2, FS_CardinalityType
<1>4. /\ DOMAIN Append(s, c) = 1..(Len(s) + 1)
      /\ \A k \in 1..Len(s) : Append(s, c)[k] = s[k]
      /\ Append(s, c)[Len(s) + 1] = c
  OBVIOUS
<1>5. Q = IF c = e THEN P \cup {Len(s) + 1} ELSE P
  BY <1>1, <1>4
<1>6. Len(s) + 1 \notin P
  BY <1>1
<1>7. Cardinality(Q) = Cardinality(P) + (IF c = e THEN 1 ELSE 0)
  <2>1. Cardinality(P \cup {Len(s) + 1}) = Cardinality(P) + 1
    BY <1>2, <1>6, FS_AddElement
  <2>2. CASE c = e
    <3>1. Q = P \cup {Len(s) + 1}
      BY <1>5, <2>2
    <3>2. QED
      BY <2>1, <2>2, <3>1
  <2>3. CASE c # e
    <3>1. Q = P
      BY <1>5, <2>3
    <3>2. Cardinality(Q) = Cardinality(P)
      BY <3>1
    <3>3. Cardinality(P) + 0 = Cardinality(P)
      BY <1>3
    <3>4. QED
      BY <2>3, <3>2, <3>3
  <2>4. QED
    BY <2>2, <2>3
<1>8. (\A k \in DOMAIN s : s[k] # e) => Cardinality(P) = 0
  <2>1. (\A k \in DOMAIN s : s[k] # e) => P = {}
    OBVIOUS
  <2>2. QED
    BY <2>1, FS_EmptySet
<1>9. QED
  BY <1>3, <1>7, <1>8 DEF Occurrences

\* An attempt that fails leaves at most one copy, and a comment has Retries
\* attempts under each of two field names, the last of the first not counted:
\* an answer with HTTP 400 executes nothing.
PlaneInv ==
  /\ PlaneTruth
  /\ InRequest => call.tries < Retries
  /\ call.at = "comment" =>
       Copies(call.evidence) <= call.tries + (IF call.field = "comment" THEN Retries - 1 ELSE 0)
  /\ call.at \in {"find", "patch"} => Copies(call.evidence) > 0

LEMMA PlaneInit == WfInit => PlaneInv
<1> SUFFICES ASSUME WfInit PROVE PlaneInv
  OBVIOUS
<1>1. issue.by = 0 /\ call = NoCall
  BY DEF WfInit, PlInit
<1>2. QED
  BY <1>1 DEF PlaneInv, PlaneTruth, NoCall, InRequest

\* A step that answers no request and sends none leaves the invariant alone.
LEMMA PlaneAlone ==
  ASSUME PlaneInv, UNCHANGED <<issue, call>>
  PROVE  PlaneInv'
BY DEF PlaneInv, PlaneTruth, Copies, InRequest

\* What one request does to the copies of what its call posts.
LEMMA PlaneRequest ==
  ASSUME Types, PlaneInv, PlStep, call.evidence # 0
  PROVE  PlaneInv'
<1> DEFINE over == IF call.field = "comment" THEN Retries - 1 ELSE 0
<1>1. PICK e \in Nat : call.evidence = e
  BY DEF Types
<1> DEFINE n == Occurrences(issue.comments, e)
           m == Occurrences(issue'.comments, e)
<1>2. /\ InRequest /\ call'.evidence = e /\ call.wants = "Done"
      /\ issue' \in {issue, [issue EXCEPT !.comments = Append(@, e)],
                     [issue EXCEPT !.state = call.wants, !.by = e]}
      /\ Retries \in Nat /\ Retries >= 1 /\ call.tries \in Nat /\ call.tries < Retries
      /\ issue.comments \in Seq(Nat) /\ issue.by \in Nat
      /\ call.field \in {"comment_html", "comment"}
  BY <1>1, PlaneTypes, PlaneAssumption DEF Types, PlaneInv
<1>3. /\ n \in Nat /\ n <= 2 * Retries - 1
      /\ call.at = "comment" => n <= call.tries + over
      /\ call.at \in {"find", "patch"} => n > 0
      /\ issue.by # 0 => Occurrences(issue.comments, issue.by) > 0
  BY <1>1, <1>2, CopiesOfAppend DEF PlaneInv, PlaneTruth, Copies
\* What Plane has executed.
<1>4. \/ issue' = issue
      \/ issue' = Executed(call.at)
  BY DEF PlStep, PlAnswered, PlGarbled, PlBadRequest, PlRejected, PlUnanswered
<1>5. /\ m \in Nat /\ m >= n
      /\ m <= n + (IF call.at = "comment" THEN 1 ELSE 0)
      /\ issue'.by # 0 => Occurrences(issue'.comments, issue'.by) > 0
  <2>1. CASE issue' = issue
    BY <1>3, <2>1
  <2>2. CASE call.at = "comment" /\ issue' = Executed(call.at)
    <3>1. issue'.comments = Append(issue.comments, e) /\ issue'.by = issue.by
      BY <1>1, <2>2 DEF Executed, Types
    <3>2. m = n + 1
      BY <1>2, <3>1, CopiesOfAppend
    <3>3. /\ Occurrences(issue.comments, issue.by) \in Nat
          /\ Occurrences(issue'.comments, issue.by) =
               Occurrences(issue.comments, issue.by) + (IF e = issue.by THEN 1 ELSE 0)
      BY <1>2, <3>1, CopiesOfAppend
    <3>4. QED
      BY <1>3, <2>2, <3>1, <3>2, <3>3
  <2>3. CASE call.at = "find" /\ issue' = Executed(call.at)
    BY <1>3, <2>3 DEF Executed
  <2>4. CASE call.at = "patch" /\ issue' = Executed(call.at)
    <3>1. issue'.comments = issue.comments /\ issue'.by = e
      BY <1>1, <2>4 DEF Executed, Types
    <3>2. QED
      BY <1>3, <2>4, <3>1
  <2>5. QED
    BY <1>2, <1>4, <2>1, <2>2, <2>3, <2>4 DEF InRequest
\* What a request leaves behind, by what follows it.
<1>6. m <= 2 * Retries - 1
  BY <1>2, <1>3, <1>5
<1>7. SUFFICES /\ call'.at = "returned" => issue'.state = call'.wants /\ issue'.by = e
               /\ InRequest' => call'.tries < Retries
               /\ call'.at = "comment" =>
                    m <= call'.tries + (IF call'.field = "comment" THEN Retries - 1 ELSE 0)
               /\ call'.at \in {"find", "patch"} => m > 0
  BY <1>2, <1>5, <1>6 DEF PlaneInv, PlaneTruth, Copies
<1>8. CASE call' = [call EXCEPT !.at = "raised", !.tries = 0]
  <2>1. call'.at = "raised"
    BY <1>8 DEF Types
  <2>2. QED
    BY <2>1 DEF InRequest
<1>9. CASE PlAnswered
  <2>1. /\ issue' = Executed(call.at)
        /\ \E listing \in Listings : To(AfterSuccess(listing))
    BY <1>9 DEF PlAnswered
  <2>2. CASE call.at = "comment"
    <3>1. call' = [call EXCEPT !.at = "find", !.tries = 0]
      BY <2>1, <2>2 DEF To, AfterSuccess
    <3>2. call'.at = "find" /\ call'.tries = 0
      BY <3>1 DEF Types
    <3>3. issue'.comments = Append(issue.comments, e)
      BY <1>1, <2>1, <2>2 DEF Executed, Types
    <3>4. m = n + 1
      BY <1>2, <3>3, CopiesOfAppend
    <3>5. QED
      BY <1>2, <1>3, <3>2, <3>4 DEF InRequest
  <2>3. CASE call.at = "find"
    <3>1. \/ call' = [call EXCEPT !.at = "patch", !.tries = 0]
          \/ call' = [call EXCEPT !.at = "raised", !.tries = 0]
      BY <2>1, <2>3 DEF To, AfterSuccess
    <3>2. call'.at \in {"patch", "raised"} /\ call'.tries = 0
      BY <3>1 DEF Types
    <3>3. QED
      BY <1>2, <1>3, <1>5, <2>3, <3>2 DEF InRequest
  <2>4. CASE call.at = "patch"
    <3>1. call' = [call EXCEPT !.at = "returned", !.tries = 0]
      BY <2>1, <2>4 DEF To, AfterSuccess
    <3>2. call'.at = "returned" /\ call'.wants = call.wants
      BY <3>1 DEF Types
    <3>3. issue'.state = call.wants /\ issue'.by = e
      BY <1>1, <2>1, <2>4 DEF Executed, Types
    <3>4. QED
      BY <3>2, <3>3 DEF InRequest
  <2>5. QED
    BY <1>2, <2>2, <2>3, <2>4 DEF InRequest
<1>10. CASE /\ call.at = "comment" /\ call.field = "comment_html" /\ issue' = issue
            /\ call' = [call EXCEPT !.field = "comment", !.tries = 0]
  <2>1. call'.at = "comment" /\ call'.field = "comment" /\ call'.tries = 0
    BY <1>10 DEF Types
  <2>2. m = n /\ over = 0
    BY <1>10
  <2>3. QED
    BY <1>2, <1>3, <1>10, <2>1, <2>2
<1>11. CASE MoreAttempts(call.tries) /\ call' = [call EXCEPT !.tries = @ + 1]
  <2>1. call'.at = call.at /\ call'.field = call.field /\ call'.tries = call.tries + 1
    BY <1>11 DEF Types
  <2>2. call.tries + 1 < Retries
    BY <1>11 DEF MoreAttempts
  <2>3. call.at # "returned"
    BY <1>2 DEF InRequest
  <2>4. call.at = "comment" => m <= n + 1 /\ n <= call.tries + over
    BY <1>3, <1>5
  <2>5. call.at \in {"find", "patch"} => m > 0
    BY <1>3, <1>5
  <2>6. QED
    BY <1>2, <1>3, <1>5, <2>1, <2>2, <2>3, <2>4, <2>5
<1>12. QED
  BY <1>8, <1>9, <1>10, <1>11
  DEF PlStep, PlGarbled, PlBadRequest, PlRejected, PlUnanswered, To

LEMMA PlaneNext ==
  ASSUME Types, Order, FreshInv, PlaneInv, [WfNext]_engVars
  PROVE  PlaneInv'
<1>1. CASE StartWorkflow
  <2>1. call' = NoCall /\ issue' = issue
    BY <1>1 DEF StartWorkflow
  <2>2. QED
    BY <2>1 DEF PlaneInv, PlaneTruth, Copies, NoCall, InRequest
<1>2. CASE CloseNode
  <2>1. /\ issue' = issue /\ output' = output /\ stale["close"] /\ engine.at # "plane"
        /\ call' = [NoCall EXCEPT !.at = "comment", !.evidence = output, !.wants = "Done"]
    BY <1>2, Graph, RunningIsStale DEF CloseNode, SetTicketState, None
  <2>2. /\ call'.at = "comment" /\ call'.evidence = output /\ call'.tries = 0
        /\ call'.field = "comment_html"
    BY <2>1 DEF NoCall
  <2>3. Occurrences(issue.comments, output) = 0
    <3>1. \A k \in DOMAIN issue.comments : issue.comments[k] # output
      BY <2>1 DEF FreshInv
    <3>2. QED
      BY <3>1, CopiesOfAppend DEF Types
  <2>4. Retries \in Nat /\ Retries >= 1
    BY PlaneAssumption
  <2>5. QED
    BY <2>1, <2>2, <2>3, <2>4 DEF PlaneInv, PlaneTruth, Copies, InRequest
<1>3. CASE PlaneStep
  <2>1. PlStep /\ InRequest
    BY <1>3, PlaneTypes DEF PlaneStep
  <2>2. call.evidence # 0
    BY <2>1 DEF FreshInv
  <2>3. QED
    BY <2>1, <2>2, PlaneRequest
<1>4. CASE WfNext /\ ~StartWorkflow /\ ~CloseNode /\ ~PlaneStep
  <2>1. UNCHANGED <<issue, call>>
    BY <1>4 DEF WfNext, TooManySteps, NextBatch, WorkflowEnds, PlanNode, AgentDenied,
                ProgramErrs, ProgramReturns, GatewayErrs, GatewayReturns, VerifyNode,
                CloseReturns, plVars
  <2>2. QED
    BY <2>1, PlaneAlone
<1>5. CASE UNCHANGED engVars
  BY <1>5, PlaneAlone DEF engVars, plVars
<1>6. QED
  BY <1>1, <1>2, <1>3, <1>4, <1>5

\* The ticket is moved by evidence it carries, and carries a bounded number of
\* copies of it, for any number of attempts and whatever Plane answers or leaves
\* unanswered.
THEOREM PlaneCorrect == WfSpec => []PlaneTruth
<1>1. PlaneInv => PlaneTruth
  BY DEF PlaneInv
<1>2. QED
  BY TypesInit, TypesNext, FlowInit, FlowNext, FreshInit, FreshNext, PlaneInit, PlaneNext,
     <1>1, PTL DEF WfSpec

=============================================================================
