----------------------------- MODULE AgentCall -----------------------------
(***************************************************************************)
(* engine/guardrails.py, the checks of engine/drivers.py before a program  *)
(* is spawned, and connectors/qa.py, which turns what the QA program says  *)
(* into a decision.  Operators only; WorkflowEngine calls them.            *)
(*                                                                         *)
(* Abstracted: a directory is "sandbox", "worktree" (of the Run) or        *)
(* "outside"; Read stands for the tools that only read, Edit for Write,    *)
(* Edit and Bash, Fetch for a tool no list of the code names.  An agent    *)
(* record has no cli_permission_mode: only agent_catalog writes one (see   *)
(* Settings).                                                              *)
(***************************************************************************)
EXTENDS FiniteSets

None == "none"

Mutating       == {"Edit"}           \* _READ_ONLY_FORBIDDEN_TOOLS
DeveloperTools == {"Read", "Edit"}   \* DEVELOPER_TOOL_WHITELIST
ReadOnlyRoles  == {"planner", "qa"}
Roles3         == ReadOnlyRoles \cup {"developer"}

\* normalise_role: only three names carry constraints.
NormalRole(name) == IF name \in Roles3 THEN name ELSE None

\* Missing keys of a workflow's guardrails keep the strict defaults.
StrictPolicy == [roots |-> {"sandbox"}, readOnly |-> TRUE, tools |-> {"Read"}]
DeveloperPolicy ==
  [roots |-> {"worktree"}, readOnly |-> FALSE, tools |-> DeveloperTools]

\* The role of a call: the node's, else the agent's, else the name that the
\* node gives its agent, which a fallback agent inherits.
CallRole(node, agent) ==
  NormalRole(CASE node.role # None  -> node.role
               [] agent.role # None -> agent.role
               [] OTHER             -> node.agent)

\* _dispatch: the writable policy is for a Developer with a Run only.
PolicyOf(role, branch, workflowPolicy) ==
  IF role = "developer" /\ branch # None THEN DeveloperPolicy ELSE workflowPolicy

\* branch is that of the Run context; None: the engine has no Run context.
DeveloperDenied(agent, branch) ==
  \/ branch = None
  \/ agent.cwd # "worktree"
  \/ branch = "main"
  \/ agent.branch \notin {None, branch}
  \/ agent.mode \notin {"read-only", "write"}
  \/ ~(agent.tools \subseteq DeveloperTools)

RoleDenied(role, agent, branch) ==
  \/ role \in ReadOnlyRoles /\ (agent.mode # "read-only" \/ agent.tools \cap Mutating # {})
  \/ role = "developer" /\ DeveloperDenied(agent, branch)

PolicyDenied(agent, policy) ==
  \/ agent.cwd \notin policy.roots
  \/ policy.readOnly /\ agent.mode # "read-only"
  \/ ~(agent.tools \subseteq policy.tools)

\* Slip: the workflow's guardrails alone decide.
DeniedByPolicy(node, agent, branch, workflowPolicy) ==
  PolicyDenied(agent, PolicyOf(CallRole(node, agent), branch, workflowPolicy))

\* cli_call raises SecurityError before anything is spawned.
Denied(node, agent, branch, workflowPolicy) ==
  LET role == CallRole(node, agent)
  IN  \/ PolicyDenied(agent, PolicyOf(role, branch, workflowPolicy))
      \/ RoleDenied(role, agent, branch)

-----------------------------------------------------------------------------
\* What the QA program printed: whether it is JSON, whether _check accepts
\* its shape, and what it claims; criteria are the statuses it gives.
Payloads ==
  [json : BOOLEAN, shape : BOOLEAN, verdict : {"PASS", "FAIL", "BLOCKED"},
   criteria : {{}, {"PASS"}, {"PASS", "FAIL"}}, severe : BOOLEAN]

\* validate_verdict: an object with the required properties, each of the
\* type or among the values that the schema names.
ValidVerdict(p) == p.json /\ p.shape

\* A PASS that names a criterion that did not pass, or a blocker or major
\* finding.
SelfContradictory(p) == p.severe \/ \E c \in p.criteria : c # "PASS"

\* run_qa: every failure of the program, of the parser or of the schema is a
\* reject with a BLOCKED verdict.
QaDecision(failed, p) ==
  IF ~failed /\ ValidVerdict(p) /\ p.verdict = "PASS" /\ ~SelfContradictory(p)
    THEN "accept" ELSE "reject"
=============================================================================
