----------------------------- MODULE MCDelivery -----------------------------
(* The parts that carry a ticket from Plane to a PR or to Done, for TLC.     *)
(* They share no state, so a behaviour is one of one part, while the others  *)
(* rest in an initial state.                                                 *)
EXTENDS TicketPipeline, WorkflowEngine, DevelopmentEvidence

VARIABLE part

\* An issue with every section, written for the command line's strict intake.
Section(here, s) == [n \in SectionNames |-> IF n \in here THEN "given" ELSE s]
Strict ==
  [cancelled |-> FALSE, v2 |-> TRUE, expanded |-> TRUE, titled |-> TRUE,
   section |-> Section(SectionNames, "given"), nested |-> FALSE, risk |-> "R1",
   criteria |-> <<1, 2>>,
   entries |-> <<[id |-> 1, type |-> "automated"], [id |-> 2, type |-> "inspection"]>>,
   gate |-> "none", checks |-> 1, limits |-> TRUE, mainPush |-> FALSE]

\* An issue written with the repository's template.
Template ==
  [Strict EXCEPT
     !.v2 = FALSE, !.nested = TRUE, !.entries = <<>>, !.gate = "automated",
     !.section = Section({"goal", "scope", "acceptance_criteria", "verification"}, "absent")]

\* One thing about t is otherwise.
Otherwise(t) ==
  {[t EXCEPT !.cancelled = TRUE], [t EXCEPT !.v2 = TRUE, !.expanded = FALSE],
   [t EXCEPT !.titled = FALSE], [t EXCEPT !.nested = FALSE], [t EXCEPT !.checks = 0],
   [t EXCEPT !.limits = FALSE], [t EXCEPT !.mainPush = TRUE]}
  \cup {[t EXCEPT !.criteria = c] : c \in {<<1>>, <<1, 1>>, <<1, 2, 3>>}}
  \cup {[t EXCEPT !.section[s] = v] : s \in SectionNames, v \in {"absent", "empty", "given", "twice"}}
  \cup {[t EXCEPT !.risk = r, !.section["risk_tier"] = v] :
          r \in Tiers \cup {"other"}, v \in {"given", "empty", "absent"}}

MCTickets ==
  {Strict, Template} \cup Otherwise(Strict) \cup Otherwise(Template)
  \cup {[Template EXCEPT !.gate = g] : g \in GateTypes \cup {"none", "other"}}
  \cup {[Strict EXCEPT !.entries = <<[id |-> i, type |-> x], [id |-> 2, type |-> y]>>] :
          i \in {1, 2}, x \in GateTypes, y \in GateTypes}

\* Agents for execute: of no role, of each role, with and without what the
\* role or the policy allows, and one that the guardrails do not see.
Agent(driver, role, mode, tools, cwd, branch) ==
  [driver |-> driver, role |-> role, mode |-> mode, tools |-> tools, cwd |-> cwd,
   branch |-> branch]
MCAgents ==
  { Agent("cli", None, "read-only", {"Read"}, "sandbox", None),
    Agent("cli", "qa", "read-only", {"Read", "Edit"}, "sandbox", None),
    Agent("cli", "developer", "write", {"Read", "Edit"}, "worktree", "run"),
    Agent("cli", "developer", "bypass", {"Read", "Edit", "Fetch"}, "worktree", None),
    Agent("hermes", None, "write", {"Read"}, "outside", None) }

AnAgent  == Agent("cli", None, "read-only", {"Read"}, "sandbox", None)

\* For one part alone.
OneAgent == {AnAgent}
OneTicket == {Strict}

rest(p) == part # p

MCInit ==
  /\ part \in {"pipeline", "engine", "evidence"}
  /\ Init /\ WfInit /\ EvInit
  /\ rest("engine") => setup = [agent |-> AnAgent, backup |-> NoAgent, branch |-> None,
                                policy |-> StrictPolicy]
  /\ rest("evidence") => ticket = Strict

MCNext ==
  \/ part = "pipeline" /\ Next   /\ UNCHANGED <<part, engVars, evVars>>
  \/ part = "engine"   /\ WfNext /\ UNCHANGED <<part, vars, evVars>>
  \/ part = "evidence" /\ EvNext /\ UNCHANGED <<part, vars, engVars>>

\* The fairness of TicketPipeline's FairSpec.
MCSpec == MCInit /\ [][MCNext]_<<part, vars, engVars, evVars>> /\ WF_vars(Step)
=============================================================================
