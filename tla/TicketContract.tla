--------------------------- MODULE TicketContract ---------------------------
(***************************************************************************)
(* services/ticket_contract.py: preflight_plane_issue, the gate between a  *)
(* Plane issue and a Run, with the Plane v2 normalisation of               *)
(* connectors/plane.py before it.  Operators only.                         *)
(*                                                                         *)
(* An issue is what the parsers find in it: which sections its description *)
(* has (absent, empty, given, or twice), the criteria and verification     *)
(* entries that have the required form (lines of another form are skipped  *)
(* by the code too), and the values that decide.  A command is named by    *)
(* its place: <<"ac", id>>, <<"gate", 0>> or <<"check", k>>.               *)
(***************************************************************************)
EXTENDS Naturals, Sequences, SequencesExt

SectionNames == {"goal", "scope", "out_of_scope", "risk_tier",
                 "acceptance_criteria", "verification", "repository",
                 "required_checks", "constraints"}
Tiers == {"R0", "R1", "R2", "R3"}
GateTypes == {"automated", "query", "inspection", "manual"}

\* What the parsers make of an issue, as far as anything rests on its form.
IsTicket(t) ==
  /\ t.section \in [SectionNames -> {"absent", "empty", "given", "twice"}]
  /\ t.criteria \in Seq(Nat)
  /\ t.entries \in Seq([id : Nat, type : GateTypes])
  /\ t.checks \in Nat

\* normalize_work_item: an expanded v2 item with project, number, state,
\* title and description, and no legacy key that says otherwise.
Normalises(t) == t.v2 => t.expanded

Has(t, section)   == t.section[section] \in {"given", "empty", "twice"}
Given(t, section) == t.section[section] = "given"

\* Duplicate headings are refused before anything is read.
Ambiguous(t) == \E s \in SectionNames : t.section[s] = "twice"

\* The template nests the non-goals in Scope, below a label of their own.
ScopedOut(t) ==
  Given(t, "out_of_scope") \/ (~Has(t, "out_of_scope") /\ Given(t, "scope") /\ t.nested)

Distinct(seq) == Cardinality(ToSet(seq)) = Len(seq)

\* With the owner's defaults a section that is not there is filled in; a
\* section that is there, even empty, is read.
Defaulted(t, relaxed, section) == relaxed /\ ~Has(t, section)

RiskTier(t, relaxed) == IF Defaulted(t, relaxed, "risk_tier") THEN "R1" ELSE t.risk

\* _single_gate_verification: the template's one gate, for every criterion.
\* A type other than manual, inspection and query counts as automated.
Gate(t) == IF t.gate \in {"manual", "inspection", "query"} THEN t.gate ELSE "automated"

GateApplies(t, relaxed) == relaxed /\ t.entries = <<>> /\ t.gate # "none"

Entries(t, relaxed) ==
  IF GateApplies(t, relaxed)
    THEN [k \in DOMAIN t.criteria |->
           [id |-> t.criteria[k], type |-> Gate(t), command |-> <<"gate", 0>>]]
    ELSE [k \in DOMAIN t.entries |->
           [id |-> t.entries[k].id, type |-> t.entries[k].type,
            command |-> <<"ac", t.entries[k].id>>]]

EntryIds(t, relaxed) == [k \in DOMAIN Entries(t, relaxed) |-> Entries(t, relaxed)[k].id]

Checks(t, relaxed) ==
  IF Defaulted(t, relaxed, "required_checks")
    THEN [k \in DOMAIN Entries(t, relaxed) |-> Entries(t, relaxed)[k].command]
    ELSE [k \in 1..t.checks |-> <<"check", k>>]

\* Every criterion has exactly one entry, and every entry a criterion.
Covered(t, relaxed) == ToSet(EntryIds(t, relaxed)) = ToSet(t.criteria)

\* _parse_acceptance_criteria: bullets with distinct AC numbers.
HasCriteria(t) ==
  Given(t, "acceptance_criteria") /\ t.criteria # <<>> /\ Distinct(t.criteria)

\* _parse_constraints: the two limits that every Run needs.
HasLimits(t) == Given(t, "constraints") /\ t.limits

\* Of a sequence of tests, those that hold and the first of them.
Holding(tests) == {k \in DOMAIN tests : tests[k].when}
First(tests)   == tests[Min(Holding(tests))]

\* map_plane_issue raises at the first line whose condition holds.
Faults(t, relaxed) == <<
  [when |-> ~Normalises(t),                 human |-> TRUE],
  [when |-> ~t.titled,                      human |-> FALSE],
  [when |-> Ambiguous(t),                   human |-> TRUE],
  [when |-> ~Given(t, "goal"),              human |-> FALSE],
  [when |-> ~Given(t, "scope"),             human |-> FALSE],
  [when |-> ~ScopedOut(t),                  human |-> FALSE],
  [when |-> ~Defaulted(t, relaxed, "risk_tier")
            /\ (~Given(t, "risk_tier") \/ t.risk \notin Tiers), human |-> TRUE],
  [when |-> ~HasCriteria(t),                human |-> FALSE],
  [when |-> ~Given(t, "verification") \/ Entries(t, relaxed) = <<>>
            \/ ~Distinct(EntryIds(t, relaxed)), human |-> FALSE],
  [when |-> ~Defaulted(t, relaxed, "repository") /\ ~Given(t, "repository"),
                                            human |-> FALSE],
  [when |-> ~Defaulted(t, relaxed, "required_checks")
            /\ (~Given(t, "required_checks") \/ t.checks = 0), human |-> FALSE],
  [when |-> ~Defaulted(t, relaxed, "constraints") /\ ~HasLimits(t), human |-> FALSE],
  [when |-> ~Covered(t, relaxed),           human |-> FALSE] >>

Malformed(t, relaxed) == Holding(Faults(t, relaxed)) # {}

\* The schema of ticket-spec says what the mapper does not: a Run may not be
\* allowed to push to main.
SchemaRefuses(t, relaxed) == ~Defaulted(t, relaxed, "constraints") /\ t.mainPush

Automatable(t, relaxed) == RiskTier(t, relaxed) \in {"R0", "R1"}

ManualGate(t, relaxed) ==
  \E k \in DOMAIN Entries(t, relaxed) : Entries(t, relaxed)[k].type = "manual"

Outcome(t, relaxed) == <<
  [when |-> t.cancelled,                status |-> "BLOCKED_NEEDS_HUMAN"],
  [when |-> Malformed(t, relaxed) /\ First(Faults(t, relaxed)).human,
                                        status |-> "BLOCKED_NEEDS_HUMAN"],
  [when |-> Malformed(t, relaxed),      status |-> "BLOCKED_REQUIREMENTS"],
  [when |-> SchemaRefuses(t, relaxed),  status |-> "BLOCKED_REQUIREMENTS"],
  [when |-> ~Automatable(t, relaxed),   status |-> "BLOCKED_NEEDS_HUMAN"],
  [when |-> ManualGate(t, relaxed),     status |-> "BLOCKED_REQUIREMENTS"],
  [when |-> TRUE,                       status |-> "READY"] >>

\* preflight_plane_issue: the first gate that holds decides.
Preflight(t, relaxed) == First(Outcome(t, relaxed)).status
=============================================================================
