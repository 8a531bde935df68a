--------------------- MODULE DevelopmentEvidence_proofs ---------------------
(***************************************************************************)
(* Proofs about DevelopmentEvidence and the contract it rests on, for      *)
(* every issue, set of verifiers, and number of wrong facts, calls and     *)
(* deaths.                                                                 *)
(***************************************************************************)
EXTENDS DevelopmentEvidence, FiniteSetTheorems, TLAPS

-----------------------------------------------------------------------------
(* The first test that holds. *)

\* A set of places in a sequence of seven has a smallest member.
LEMMA SmallestOfSeven ==
  ASSUME NEW H \in SUBSET (1..7), H # {}
  PROVE  Min(H) \in H /\ \A k \in H : Min(H) <= k
<1>1. \E x \in H : \A y \in H : x <= y
  <2>1. CASE 1 \in H
    BY <2>1
  <2>2. CASE 1 \notin H /\ 2 \in H
    BY <2>2
  <2>3. CASE 1 \notin H /\ 2 \notin H /\ 3 \in H
    BY <2>3
  <2>4. CASE 1 \notin H /\ 2 \notin H /\ 3 \notin H /\ 4 \in H
    BY <2>4
  <2>5. CASE 1 \notin H /\ 2 \notin H /\ 3 \notin H /\ 4 \notin H /\ 5 \in H
    BY <2>5
  <2>6. CASE /\ 1 \notin H /\ 2 \notin H /\ 3 \notin H /\ 4 \notin H /\ 5 \notin H
             /\ 6 \in H
    BY <2>6
  <2>7. CASE H \subseteq {7}
    <3>1. H = {7}
      BY <2>7
    <3>2. QED
      BY <3>1
  <2>8. QED
    BY <2>1, <2>2, <2>3, <2>4, <2>5, <2>6, <2>7
<1>2. QED
  BY <1>1 DEF Min

\* An issue is READY only if none of the gates before that holds.
LEMMA ReadyMeans ==
  ASSUME NEW t, NEW relaxed \in BOOLEAN, Preflight(t, relaxed) = "READY"
  PROVE  /\ ~t.cancelled /\ ~Malformed(t, relaxed)
         /\ Automatable(t, relaxed) /\ ~ManualGate(t, relaxed)
<1> DEFINE O == Outcome(t, relaxed)
           H == Holding(O)
<1>1. DOMAIN O = 1..7 /\ O[7].when = TRUE
  BY DEF Outcome
<1>2. H \subseteq 1..7 /\ 7 \in H
  BY <1>1 DEF Holding
<1>3. \A k \in 1..6 : O[k].status # "READY"
  BY DEF Outcome
<1>4. Min(H) \in H /\ \A k \in H : Min(H) <= k
  BY <1>2, SmallestOfSeven
<1>5. O[Min(H)].status = "READY"
  BY DEF Preflight, First
<1>6. Min(H) = 7
  BY <1>2, <1>3, <1>4, <1>5
<1>7. \A k \in 1..6 : k \notin H
  BY <1>4, <1>6
<1>8. 1 \notin H /\ 3 \notin H /\ 5 \notin H /\ 6 \notin H
  BY <1>7
<1>9. /\ 1 \in H <=> t.cancelled
      /\ 3 \in H <=> Malformed(t, relaxed)
      /\ 5 \in H <=> ~Automatable(t, relaxed)
      /\ 6 \in H <=> ManualGate(t, relaxed)
  <2>1. 1 \in DOMAIN O /\ 3 \in DOMAIN O /\ 5 \in DOMAIN O /\ 6 \in DOMAIN O
    BY <1>1
  <2>2. /\ O[1] = [when |-> t.cancelled, status |-> "BLOCKED_NEEDS_HUMAN"]
        /\ O[3] = [when |-> Malformed(t, relaxed), status |-> "BLOCKED_REQUIREMENTS"]
        /\ O[5] = [when |-> ~Automatable(t, relaxed), status |-> "BLOCKED_NEEDS_HUMAN"]
        /\ O[6] = [when |-> ManualGate(t, relaxed), status |-> "BLOCKED_REQUIREMENTS"]
    BY DEF Outcome
  <2>3. /\ O[1].when = t.cancelled /\ O[3].when = Malformed(t, relaxed)
        /\ O[5].when = ~Automatable(t, relaxed) /\ O[6].when = ManualGate(t, relaxed)
    <3> HIDE DEF O
    <3>1. QED
      BY <2>2
  <2>4. ASSUME NEW k \in DOMAIN O PROVE k \in H <=> O[k].when
    BY <2>4 DEF Holding
  <2>5. QED
    <3> HIDE DEF O, H
    <3>1. QED
      BY <2>1, <2>3, <2>4, Zenon
<1>10. QED
  BY <1>8, <1>9

\* What an issue without a fault is like, as far as anything rests on it.
LEMMA WellFormed ==
  ASSUME NEW t, NEW relaxed \in BOOLEAN, ~Malformed(t, relaxed)
  PROVE  /\ t.criteria # <<>>
         /\ Entries(t, relaxed) # <<>> /\ Distinct(EntryIds(t, relaxed))
         /\ Covered(t, relaxed)
         /\ Defaulted(t, relaxed, "required_checks") \/ t.checks # 0
<1> DEFINE F == Faults(t, relaxed)
<1>1. /\ 8 \in DOMAIN F /\ 9 \in DOMAIN F /\ 11 \in DOMAIN F /\ 13 \in DOMAIN F
  BY DEF Faults
<1>2. ASSUME NEW k \in DOMAIN F PROVE ~F[k].when
  BY <1>2 DEF Malformed, Holding
<1>3. /\ F[8].when = ~HasCriteria(t)
      /\ F[9].when = (~Given(t, "verification") \/ Entries(t, relaxed) = <<>>
                      \/ ~Distinct(EntryIds(t, relaxed)))
      /\ F[11].when = (~Defaulted(t, relaxed, "required_checks")
                       /\ (~Given(t, "required_checks") \/ t.checks = 0))
      /\ F[13].when = ~Covered(t, relaxed)
  BY DEF Faults
<1>4. ~F[8].when /\ ~F[9].when /\ ~F[11].when /\ ~F[13].when
  <2> HIDE DEF F
  <2>1. QED
    BY <1>1, <1>2, Zenon
<1>5. /\ HasCriteria(t)
      /\ Entries(t, relaxed) # <<>> /\ Distinct(EntryIds(t, relaxed))
      /\ Covered(t, relaxed)
      /\ Defaulted(t, relaxed, "required_checks") \/ t.checks # 0
  <2> HIDE DEF F
  <2>1. QED
    BY <1>3, <1>4, Zenon
<1>6. QED
  BY <1>5 DEF HasCriteria

-----------------------------------------------------------------------------
(* What an admitted issue asks for, its commands give. *)

\* A sequence with as many members as places repeats none.
LEMMA DistinctIsInjective ==
  ASSUME NEW n \in Nat, NEW f \in [1..n -> Nat], Distinct(f)
  PROVE  \A j, k \in 1..n : f[j] = f[k] => j = k
<1>1. f \in Seq(Nat) /\ Len(f) = n
  OBVIOUS
<1>2. f \in Surjection(1..n, ToSet(f))
  <2>1. f \in [1..n -> ToSet(f)]
    BY DEF ToSet
  <2>2. \A y \in ToSet(f) : \E k \in 1..n : f[k] = y
    BY DEF ToSet
  <2>3. QED
    BY <2>1, <2>2 DEF Surjection
<1>3. IsFiniteSet(1..n) /\ Cardinality(1..n) = n
  BY FS_Interval
<1>4. Cardinality(ToSet(f)) = n
  BY <1>1 DEF Distinct
<1>5. f \in Injection(1..n, ToSet(f))
  BY <1>2, <1>3, <1>4, FS_SurjSameCardinalityImpliesInj
<1>6. QED
  BY <1>5 DEF Injection, IsInjective

LEMMA SeqMember ==
  ASSUME NEW S, NEW s \in Seq(S)
  PROVE  \A k \in 1..Len(s) : s[k] \in S
OBVIOUS

\* The entries the contract gets: the issue's own, or the gate for each criterion.
LEMMA EntriesAre ==
  ASSUME NEW t, IsTicket(t), NEW relaxed \in BOOLEAN
  PROVE  /\ GateApplies(t, relaxed) =>
              /\ DOMAIN Entries(t, relaxed) = 1..Len(t.criteria)
              /\ \A k \in 1..Len(t.criteria) : Entries(t, relaxed)[k] =
                   [id |-> t.criteria[k], type |-> Gate(t), command |-> <<"gate", 0>>]
         /\ ~GateApplies(t, relaxed) =>
              /\ DOMAIN Entries(t, relaxed) = 1..Len(t.entries)
              /\ \A k \in 1..Len(t.entries) : Entries(t, relaxed)[k] =
                   [id |-> t.entries[k].id, type |-> t.entries[k].type,
                    command |-> <<"ac", t.entries[k].id>>]
<1>1. DOMAIN t.criteria = 1..Len(t.criteria) /\ DOMAIN t.entries = 1..Len(t.entries)
  BY DEF IsTicket
<1>2. CASE GateApplies(t, relaxed)
  BY <1>1, <1>2 DEF Entries
<1>3. CASE ~GateApplies(t, relaxed)
  BY <1>1, <1>3 DEF Entries
<1>4. QED
  BY <1>2, <1>3

\* An entry that a program can judge is a command of the Run.
LEMMA EntryIsCommand ==
  ASSUME NEW relaxed \in BOOLEAN, NEW k \in DOMAIN Entries(ticket, relaxed),
         Entries(ticket, relaxed)[k].type \in {"automated", "query"}
  PROVE  Entries(ticket, relaxed)[k].command \in Commands(relaxed)
BY DEF Commands

\* The contract of an admitted issue asks for all that the issue asks for: when
\* every command succeeds, what is earned is what is reported.
THEOREM ReadyEarned ==
  ASSUME NEW relaxed \in BOOLEAN, IsTicket(ticket), Preflight(ticket, relaxed) = "READY",
         Commands(relaxed) # {}
  PROVE  Earned(relaxed, Commands(relaxed))
<1> DEFINE E == Entries(ticket, relaxed)
           n == Len(ticket.entries)
<1>1. /\ ~ticket.cancelled /\ Automatable(ticket, relaxed) /\ ~ManualGate(ticket, relaxed)
      /\ ticket.criteria # <<>> /\ E # <<>> /\ Distinct(EntryIds(ticket, relaxed))
      /\ Covered(ticket, relaxed)
  BY ReadyMeans, WellFormed
<1>2. /\ ticket.criteria \in Seq(Nat) /\ ticket.entries \in Seq([id : Nat, type : GateTypes])
      /\ ticket.section["risk_tier"] \in {"absent", "empty", "given", "twice"}
  BY DEF IsTicket, SectionNames
<1>3. \/ ticket.risk \in {"R0", "R1"}
      \/ relaxed /\ ticket.section["risk_tier"] = "absent"
  BY <1>1, <1>2 DEF Automatable, RiskTier, Defaulted, Has
<1>4. CASE GateApplies(ticket, relaxed)
  <2>1. /\ 1 \in DOMAIN E
        /\ E[1] = [id |-> ticket.criteria[1], type |-> Gate(ticket), command |-> <<"gate", 0>>]
    BY <1>1, <1>2, <1>4, EntriesAre
  <2>2. Gate(ticket) \in GateTypes \ {"manual"}
    BY <1>1, <2>1 DEF ManualGate, Gate, GateTypes
  <2>3. ticket.gate # "manual"
    BY <2>2 DEF Gate
  <2>4. ticket.gate = "inspection" \/ <<"gate", 0>> \in Commands(relaxed)
    <3>1. CASE Gate(ticket) = "inspection"
      BY <3>1 DEF Gate
    <3>2. CASE Gate(ticket) \in {"automated", "query"}
      <4>1. E[1].type \in {"automated", "query"} /\ E[1].command = <<"gate", 0>>
        BY <2>1, <3>2
      <4>2. QED
        BY <2>1, <4>1, EntryIsCommand
    <3>3. QED
      BY <2>2, <3>1, <3>2 DEF GateTypes
  <2>5. relaxed /\ ticket.entries = <<>>
    BY <1>4 DEF GateApplies
  <2>6. QED
    BY <1>1, <1>3, <2>3, <2>4, <2>5 DEF Earned
<1>5. CASE ~GateApplies(ticket, relaxed)
  <2>1. /\ n \in Nat /\ DOMAIN ticket.entries = 1..n /\ DOMAIN E = 1..n
        /\ \A k \in 1..n : /\ ticket.entries[k] \in [id : Nat, type : GateTypes]
                           /\ E[k] = [id |-> ticket.entries[k].id,
                                      type |-> ticket.entries[k].type,
                                      command |-> <<"ac", ticket.entries[k].id>>]
    <3>1. n \in Nat /\ DOMAIN ticket.entries = 1..n
      BY <1>2
    <3>2. \A k \in 1..n : ticket.entries[k] \in [id : Nat, type : GateTypes]
      <4> HIDE DEF n
      <4>1. QED
        BY <1>2, SeqMember DEF n
    <3>3. /\ DOMAIN E = 1..n
          /\ \A k \in 1..n : E[k] = [id |-> ticket.entries[k].id,
                                      type |-> ticket.entries[k].type,
                                      command |-> <<"ac", ticket.entries[k].id>>]
      <4> HIDE DEF E, n
      <4>1. QED
        BY <1>5, EntriesAre DEF E, n
    <3>4. QED
      <4> HIDE DEF E, n
      <4>1. QED
        BY <3>1, <3>2, <3>3
  <2>2. n # 0
    <3>1. ASSUME n = 0 PROVE FALSE
      <4>1. ticket.entries = <<>>
        BY <1>2, <3>1
      <4>2. E = <<>>
        BY <1>5, <4>1 DEF Entries
      <4>3. QED
        BY <1>1, <4>2
    <3>2. QED
      BY <3>1
  <2> DEFINE ids == EntryIds(ticket, relaxed)
  <2>3. ids \in [1..n -> Nat] /\ \A k \in 1..n : ids[k] = ticket.entries[k].id
    <3>1. ids = [k \in 1..n |-> E[k].id]
      BY <2>1 DEF EntryIds
    <3>2. \A k \in 1..n : E[k].id = ticket.entries[k].id /\ ticket.entries[k].id \in Nat
      <4> HIDE DEF E, n
      <4>1. QED
        BY <2>1
    <3>3. QED
      <4> HIDE DEF E, n, ids
      <4>1. QED
        BY <3>1, <3>2
  <2>4. \A j, k \in 1..n : ids[j] = ids[k] => j = k
    BY <1>1, <2>1, <2>3, DistinctIsInjective
  <2>5. ASSUME NEW c \in ToSet(ticket.criteria)
        PROVE  /\ Cardinality({k \in DOMAIN ticket.entries : ticket.entries[k].id = c}) = 1
               /\ \A e \in ToSet(ticket.entries) : e.id = c =>
                    \/ e.type = "inspection"
                    \/ e.type # "manual" /\ <<"ac", c>> \in Commands(relaxed)
    <3>1. c \in ToSet(ids)
      BY <1>1, <2>5 DEF Covered
    <3>2. PICK k \in 1..n : ids[k] = c
      BY <2>3, <3>1 DEF ToSet
    <3>3. {j \in DOMAIN ticket.entries : ticket.entries[j].id = c} = {k}
      BY <2>1, <2>3, <2>4, <3>2
    <3>4. Cardinality({k}) = 1
      BY FS_Singleton
    <3>5. ASSUME NEW e \in ToSet(ticket.entries), e.id = c
          PROVE  e.type = "inspection" \/ (e.type # "manual" /\ <<"ac", c>> \in Commands(relaxed))
      <4>1. PICK j \in 1..n : e = ticket.entries[j]
        BY <2>1, <3>5 DEF ToSet
      <4>2. /\ E[j].type = e.type /\ E[j].command = <<"ac", c>> /\ j \in DOMAIN E
            /\ e.type \in GateTypes
        <5> HIDE DEF E, n
        <5>1. QED
          BY <2>1, <3>5, <4>1
      <4>3. e.type # "manual"
        BY <1>1, <4>2 DEF ManualGate
      <4>4. CASE e.type \in {"automated", "query"}
        BY <4>2, <4>3, <4>4, EntryIsCommand
      <4>5. QED
        BY <4>2, <4>3, <4>4 DEF GateTypes
    <3>6. QED
      BY <3>3, <3>4, <3>5
  <2>6. ticket.entries # <<>>
    BY <2>1, <2>2
  <2>7. QED
    BY <1>1, <1>3, <2>5, <2>6 DEF Earned
<1>6. QED
  BY <1>4, <1>5

\* Under the strict contract there is a command: a check is required.
LEMMA StrictHasCommands ==
  ASSUME IsTicket(ticket), Preflight(ticket, FALSE) = "READY"
  PROVE  Commands(FALSE) # {}
<1>1. ticket.checks \in Nat /\ ticket.checks # 0
  BY ReadyMeans, WellFormed DEF Defaulted, IsTicket
<1>2. Checks(ticket, FALSE) = [k \in 1..ticket.checks |-> <<"check", k>>]
  BY DEF Checks, Defaulted
<1>3. <<"check", 1>> \in ToSet(Checks(ticket, FALSE))
  <2>1. 1 \in 1..ticket.checks
    BY <1>1
  <2>2. 1 \in DOMAIN Checks(ticket, FALSE) /\ Checks(ticket, FALSE)[1] = <<"check", 1>>
    BY <1>2, <2>1
  <2>3. QED
    BY <2>2 DEF ToSet
<1>4. QED
  BY <1>3 DEF Commands

-----------------------------------------------------------------------------
(* Evidence. *)

\* A report of its own is what a verifier carries once it has judged; where the
\* file it has open, and the evidence file it found, are in use.
EvInv ==
  /\ ticket \in Tickets /\ contract \in {"none", "strict", "relaxed"}
  /\ contract = "strict" => Preflight(ticket, FALSE) = "READY"
  /\ contract = "relaxed" => Preflight(ticket, TRUE) = "READY"
  /\ inodes \in Seq([report : Reports \cup {NoReport}, ro : BOOLEAN])
  /\ names \in [temporary : 0..Len(inodes), target : 0..Len(inodes)]
  /\ ver \in [Verifiers ->
       [at : {"idle", "judge", "open", "write", "chmod", "link", "unlinkMine", "unlinkTheirs",
              "unlinkFault"},
        report : Reports \cup {NoReport}, open : 0..Len(inodes)]]
  /\ \A v \in Verifiers :
       /\ ver[v].at # "idle" => contract = "strict"
       /\ ver[v].at = "write" => ver[v].open # 0
       /\ ver[v].at = "unlinkTheirs" => names.target # 0
  /\ \A a \in answers : a.report \in Reports

Sound(r) == r.status = "VERIFIED" => r.earned

SoundInv ==
  /\ \A v \in Verifiers : Sound(ver[v].report)
  /\ \A i \in DOMAIN inodes : Sound(inodes[i].report)
  /\ \A a \in answers : Sound(a.report)
  /\ Sound(webCheck)

LEMMA EvInitial == EvInit => EvInv /\ SoundInv
<1> SUFFICES ASSUME EvInit PROVE EvInv /\ SoundInv
  OBVIOUS
<1>1. /\ ticket \in Tickets /\ contract = "none" /\ inodes = <<>> /\ answers = {}
      /\ names = [temporary |-> 0, target |-> 0] /\ ver = [v \in Verifiers |-> Idle]
      /\ webCheck = NoReport
  BY DEF EvInit
<1>2. Len(inodes) = 0 /\ DOMAIN inodes = {}
  BY <1>1
<1>3. inodes \in Seq([report : Reports \cup {NoReport}, ro : BOOLEAN])
  BY <1>1
<1>4. \A v \in Verifiers : ver[v] = Idle
  BY <1>1
<1>5. EvInv
  BY <1>1, <1>2, <1>3, <1>4 DEF EvInv, Idle
<1>6. Sound(NoReport)
  BY DEF Sound, NoReport
<1>7. QED
  BY <1>1, <1>2, <1>4, <1>5, <1>6 DEF SoundInv, Idle

\* A judgement that says VERIFIED is earned: nothing is wrong in Git, nothing
\* had to be approved, and no command has failed.
LEMMA VerdictEarned ==
  ASSUME IsTicket(ticket), Preflight(ticket, FALSE) = "READY",
         NEW g \in Trees, NEW unsafe \in BOOLEAN, NEW failed \in SUBSET Commands(FALSE),
         Verdict(g, unsafe, failed) = "VERIFIED"
  PROVE  g = {} /\ ~unsafe /\ Earned(FALSE, Commands(FALSE) \ failed)
<1>1. g \subseteq WorktreeFaults
  BY DEF Trees, kSubset
<1>2. /\ ~SpecGap(g) /\ ~GitGaps(g) /\ ~ScopeViolated(g) /\ ~GitFailures(g)
      /\ ~unsafe /\ failed = {}
  <2>1. /\ SpecGap(g) \in BOOLEAN /\ GitGaps(g) \in BOOLEAN /\ ScopeViolated(g) \in BOOLEAN
        /\ GitFailures(g) \in BOOLEAN
    BY DEF SpecGap, GitGaps, ScopeViolated, GitFailures
  <2>2. QED
    BY <2>1 DEF Verdict
<1>3. g = {}
  BY <1>1, <1>2 DEF WorktreeFaults, SpecGap, GitGaps, ScopeViolated, GitFailures
<1>4. Commands(FALSE) \ failed = Commands(FALSE)
  BY <1>2
<1>5. QED
  BY <1>2, <1>3, <1>4, ReadyEarned, StrictHasCommands

LEMMA VerdictType ==
  ASSUME NEW g, NEW unsafe, NEW failed
  PROVE  Verdict(g, unsafe, failed) \in
           {"VERIFIED", "FAILED_DEVELOPMENT", "BLOCKED_ENVIRONMENT",
            "BLOCKED_REQUIREMENTS", "BLOCKED_NEEDS_HUMAN"}
BY DEF Verdict

\* The end of a call: its verifier is idle, and what it answers was there.
LEMMA AnswerInv ==
  ASSUME EvInv, SoundInv, NEW v \in Verifiers, NEW r \in Reports \cup {NoReport},
         Sound(r), Answer(v, r), UNCHANGED <<ticket, contract, inodes, webCheck>>,
         names' \in [temporary : 0..Len(inodes), target : 0..Len(inodes)],
         names'.target = names.target
  PROVE  EvInv' /\ SoundInv'
<1>1. /\ ver' = [ver EXCEPT ![v] = Idle]
      /\ answers' \subseteq answers \cup {[to |-> v, report |-> r]}
      /\ r = NoReport => answers' = answers
  BY DEF Answer
<1>2. /\ Idle.at = "idle" /\ Idle.report = NoReport /\ Idle.open = 0
      /\ Idle = [at |-> "idle", report |-> NoReport, open |-> 0] /\ Sound(NoReport)
  BY DEF Idle, Sound, NoReport
<1>3. 0 \in 0..Len(inodes)
  BY DEF EvInv
<1>4. /\ ver' \in [Verifiers ->
            [at : {"idle", "judge", "open", "write", "chmod", "link", "unlinkMine",
                   "unlinkTheirs", "unlinkFault"},
             report : Reports \cup {NoReport}, open : 0..Len(inodes)]]
      /\ \A u \in Verifiers : ver'[u] = Idle \/ ver'[u] = ver[u]
  BY <1>1, <1>2, <1>3 DEF EvInv
<1>5. \A a \in answers' : a.report \in Reports /\ Sound(a.report)
  BY <1>1 DEF EvInv, SoundInv
<1>6. EvInv'
  BY <1>2, <1>4, <1>5 DEF EvInv
<1>7. QED
  BY <1>2, <1>4, <1>5, <1>6 DEF SoundInv

\* A step of a verifier on the way: it takes its report and its file along.
LEMMA OnwardInv ==
  ASSUME EvInv, SoundInv, NEW v \in Verifiers, NEW at, NEW r \in Reports \cup {NoReport},
         NEW i \in 0..Len(inodes'), Sound(r), contract = "strict",
         at \in {"judge", "open", "write", "chmod", "link", "unlinkMine", "unlinkTheirs",
                 "unlinkFault"},
         at = "write" => i # 0, at = "unlinkTheirs" => names'.target # 0,
         ver' = [ver EXCEPT ![v] = [at |-> at, report |-> r, open |-> i]],
         UNCHANGED <<ticket, contract, answers, webCheck>>,
         inodes' \in Seq([report : Reports \cup {NoReport}, ro : BOOLEAN]),
         \A k \in DOMAIN inodes' : Sound(inodes'[k].report),
         Len(inodes) <= Len(inodes'),
         names' \in [temporary : 0..Len(inodes'), target : 0..Len(inodes')],
         names.target # 0 => names'.target # 0
  PROVE  EvInv' /\ SoundInv'
<1>1. 0..Len(inodes) \subseteq 0..Len(inodes')
  BY DEF EvInv
<1>2. ver' \in [Verifiers ->
         [at : {"idle", "judge", "open", "write", "chmod", "link", "unlinkMine",
                "unlinkTheirs", "unlinkFault"},
          report : Reports \cup {NoReport}, open : 0..Len(inodes')]]
  BY <1>1 DEF EvInv
<1>3. \A u \in Verifiers \ {v} : ver'[u] = ver[u]
  BY DEF EvInv
<1>4. ver'[v].at = at /\ ver'[v].report = r /\ ver'[v].open = i
  BY DEF EvInv
<1>5. \A u \in Verifiers :
        /\ ver'[u].at # "idle" => contract' = "strict"
        /\ ver'[u].at = "write" => ver'[u].open # 0
        /\ ver'[u].at = "unlinkTheirs" => names'.target # 0
        /\ Sound(ver'[u].report)
  BY <1>3, <1>4 DEF EvInv, SoundInv
<1>6. EvInv'
  BY <1>2, <1>5 DEF EvInv
<1>7. SoundInv'
  BY <1>5 DEF SoundInv, Sound
<1>8. QED
  BY <1>6, <1>7

\* A file in place is written, or made read-only: the others stay as they are.
LEMMA RewriteInv ==
  ASSUME NEW i \in 1..Len(inodes), NEW r \in Reports \cup {NoReport}, Sound(r), EvInv, SoundInv,
         inodes' = [inodes EXCEPT ![i].report = r]
  PROVE  /\ Len(inodes') = Len(inodes)
         /\ inodes' \in Seq([report : Reports \cup {NoReport}, ro : BOOLEAN])
         /\ \A k \in DOMAIN inodes' : Sound(inodes'[k].report)
<1> DEFINE S == [report : Reports \cup {NoReport}, ro : BOOLEAN]
<1>1. inodes \in Seq(S) /\ DOMAIN inodes = 1..Len(inodes)
  BY DEF EvInv
<1>2. \A k \in 1..Len(inodes) : inodes[k] \in S
  BY <1>1, SeqMember
<1>3. inodes' = [inodes EXCEPT ![i] = [inodes[i] EXCEPT !.report = r]]
  OBVIOUS
<1>4. [inodes[i] EXCEPT !.report = r] \in S /\ [inodes[i] EXCEPT !.report = r].report = r
  BY <1>2
<1>5. DOMAIN inodes' = 1..Len(inodes) /\ \A k \in 1..Len(inodes) \ {i} : inodes'[k] = inodes[k]
  BY <1>1, <1>3
<1>6. inodes'[i] \in S /\ inodes'[i].report = r
  BY <1>1, <1>3, <1>4
<1>7. inodes' \in [1..Len(inodes) -> S]
  BY <1>2, <1>3, <1>4, <1>1
<1>8. inodes' \in Seq(S) /\ Len(inodes') = Len(inodes)
  <2> HIDE DEF S
  <2>1. QED
    BY <1>1, <1>7
<1>9. QED
  BY <1>1, <1>5, <1>6, <1>8 DEF SoundInv

LEMMA ProtectInv ==
  ASSUME NEW i \in 1..Len(inodes), EvInv, SoundInv, inodes' = [inodes EXCEPT ![i].ro = TRUE]
  PROVE  /\ Len(inodes') = Len(inodes)
         /\ inodes' \in Seq([report : Reports \cup {NoReport}, ro : BOOLEAN])
         /\ \A k \in DOMAIN inodes' : Sound(inodes'[k].report)
<1> DEFINE S == [report : Reports \cup {NoReport}, ro : BOOLEAN]
<1>1. inodes \in Seq(S) /\ DOMAIN inodes = 1..Len(inodes)
  BY DEF EvInv
<1>2. \A k \in 1..Len(inodes) : inodes[k] \in S
  BY <1>1, SeqMember
<1>3. inodes' = [inodes EXCEPT ![i] = [inodes[i] EXCEPT !.ro = TRUE]]
  OBVIOUS
<1>4. /\ [inodes[i] EXCEPT !.ro = TRUE] \in S
      /\ [inodes[i] EXCEPT !.ro = TRUE].report = inodes[i].report
  BY <1>2
<1>5. DOMAIN inodes' = 1..Len(inodes) /\ \A k \in 1..Len(inodes) \ {i} : inodes'[k] = inodes[k]
  BY <1>1, <1>3
<1>6. inodes'[i] \in S /\ inodes'[i].report = inodes[i].report
  BY <1>1, <1>3, <1>4
<1>7. inodes' \in [1..Len(inodes) -> S]
  BY <1>2, <1>3, <1>4, <1>1
<1>8. inodes' \in Seq(S) /\ Len(inodes') = Len(inodes)
  <2> HIDE DEF S
  <2>1. QED
    BY <1>1, <1>7
<1>9. QED
  BY <1>1, <1>5, <1>6, <1>8 DEF SoundInv

\* What the invariant says of one verifier and one file.
LEMMA EvFacts ==
  ASSUME EvInv, SoundInv
  PROVE  /\ Len(inodes) \in Nat /\ DOMAIN inodes = 1..Len(inodes)
         /\ \A k \in 1..Len(inodes) :
              /\ inodes[k] \in [report : Reports \cup {NoReport}, ro : BOOLEAN]
              /\ inodes[k].report \in Reports \cup {NoReport} /\ Sound(inodes[k].report)
         /\ names.temporary \in 0..Len(inodes) /\ names.target \in 0..Len(inodes)
         /\ \A v \in Verifiers :
              /\ ver[v] = [at |-> ver[v].at, report |-> ver[v].report, open |-> ver[v].open]
              /\ ver[v].report \in Reports \cup {NoReport} /\ Sound(ver[v].report)
              /\ ver[v].open \in 0..Len(inodes)
              /\ ver[v].at # "idle" => contract = "strict"
<1> DEFINE S == [report : Reports \cup {NoReport}, ro : BOOLEAN]
<1>1. inodes \in Seq(S)
  BY DEF EvInv
<1>2. Len(inodes) \in Nat /\ DOMAIN inodes = 1..Len(inodes)
  BY <1>1
<1>3. \A k \in 1..Len(inodes) : inodes[k] \in S
  <2> HIDE DEF S
  <2>1. QED
    BY <1>1, SeqMember
<1>4. \A k \in 1..Len(inodes) : inodes[k].report \in Reports \cup {NoReport}
  BY <1>3
<1>5. \A k \in 1..Len(inodes) : Sound(inodes[k].report)
  BY <1>2 DEF SoundInv
<1>6. names.temporary \in 0..Len(inodes) /\ names.target \in 0..Len(inodes)
  BY DEF EvInv
<1>7. ASSUME NEW v \in Verifiers
      PROVE  /\ ver[v] = [at |-> ver[v].at, report |-> ver[v].report, open |-> ver[v].open]
             /\ ver[v].report \in Reports \cup {NoReport} /\ Sound(ver[v].report)
             /\ ver[v].open \in 0..Len(inodes)
             /\ ver[v].at # "idle" => contract = "strict"
  BY DEF EvInv, SoundInv
<1>8. QED
  BY <1>2, <1>3, <1>4, <1>5, <1>6, <1>7

\* Moving on is replacing what is known of the verifier.
LEMMA GoesToIs ==
  ASSUME EvInv, SoundInv, NEW v \in Verifiers, NEW at, NEW i,
         ver' = [ver EXCEPT ![v].at = at, ![v].open = i]
           \/ (GoesTo(v, at) /\ i = ver[v].open)
  PROVE  ver' = [ver EXCEPT ![v] = [at |-> at, report |-> ver[v].report, open |-> i]]
<1> DEFINE w == ver[v]
<1>1. w = [at |-> w.at, report |-> w.report, open |-> w.open]
  BY EvFacts
<1>2. [w EXCEPT !.at = at] = [at |-> at, report |-> w.report, open |-> w.open]
  BY <1>1
<1>3. [w EXCEPT !.at = at, !.open = i] = [at |-> at, report |-> w.report, open |-> i]
  <2> DEFINE u == [at |-> at, report |-> w.report, open |-> w.open]
  <2>1. [w EXCEPT !.at = at] = u
    BY <1>2
  <2>2. [w EXCEPT !.at = at, !.open = i] = [u EXCEPT !.open = i]
    BY <2>1
  <2>3. [u EXCEPT !.open = i] = [at |-> at, report |-> w.report, open |-> i]
    OBVIOUS
  <2>4. QED
    BY <2>2, <2>3
<1>4. CASE GoesTo(v, at) /\ i = w.open
  <2>1. ver' = [ver EXCEPT ![v] = [w EXCEPT !.at = at]]
    BY <1>4 DEF GoesTo
  <2>2. QED
    BY <1>2, <1>4, <2>1
<1>5. CASE ver' = [ver EXCEPT ![v].at = at, ![v].open = i]
  <2>1. v \in DOMAIN ver
    BY DEF EvInv
  <2>2. ver' = [ver EXCEPT ![v] = [w EXCEPT !.at = at, !.open = i]]
    BY <1>5, <2>1
  <2>3. QED
    BY <1>3, <2>2
<1>6. QED
  BY <1>4, <1>5

\* The files as OnwardInv asks for them.
FilesSound ==
  /\ inodes' \in Seq([report : Reports \cup {NoReport}, ro : BOOLEAN])
  /\ \A k \in DOMAIN inodes' : Sound(inodes'[k].report)
  /\ Len(inodes) <= Len(inodes')
  /\ names' \in [temporary : 0..Len(inodes'), target : 0..Len(inodes')]
  /\ names.target # 0 => names'.target # 0

LEMMA FilesKept ==
  ASSUME EvInv, SoundInv, inodes' = inodes, names' = names
  PROVE  FilesSound
<1>1. Len(inodes) \in Nat
  BY EvFacts
<1>2. QED
  BY <1>1 DEF FilesSound, EvInv, SoundInv

\* A verifier goes on with the report it has.
LEMMA StepOn ==
  ASSUME EvInv, SoundInv, FilesSound, NEW v \in Verifiers, contract = "strict",
         NEW at \in {"judge", "chmod", "link", "unlinkMine", "unlinkTheirs", "unlinkFault"},
         GoesTo(v, at), at = "unlinkTheirs" => names'.target # 0,
         UNCHANGED <<ticket, contract, answers, webCheck>>
  PROVE  EvInv' /\ SoundInv'
<1> DEFINE r == ver[v].report
           i == ver[v].open
<1>1. /\ r \in Reports \cup {NoReport} /\ Sound(r) /\ i \in 0..Len(inodes)
      /\ Len(inodes) \in Nat
  BY EvFacts
<1>2. i \in 0..Len(inodes')
  BY <1>1 DEF FilesSound
<1>3. ver' = [ver EXCEPT ![v] = [at |-> at, report |-> r, open |-> i]]
  BY GoesToIs
<1>4. /\ at \in {"judge", "open", "write", "chmod", "link", "unlinkMine", "unlinkTheirs",
                 "unlinkFault"}
      /\ at # "write"
  OBVIOUS
<1>5. QED
  <2> HIDE DEF r, i
  <2>1. QED
    BY <1>1, <1>2, <1>3, <1>4, OnwardInv DEF FilesSound

\* A verifier has judged, or has opened a file.
LEMMA ReportOn ==
  ASSUME EvInv, SoundInv, FilesSound, NEW v \in Verifiers, contract = "strict",
         NEW at \in {"open", "write"}, NEW r \in Reports \cup {NoReport}, Sound(r),
         NEW i \in 0..Len(inodes'), at = "write" => i # 0,
         ver' = [ver EXCEPT ![v] = [at |-> at, report |-> r, open |-> i]],
         UNCHANGED <<ticket, contract, answers, webCheck>>
  PROVE  EvInv' /\ SoundInv'
<1>1. /\ at \in {"judge", "open", "write", "chmod", "link", "unlinkMine", "unlinkTheirs",
                 "unlinkFault"}
      /\ at # "unlinkTheirs"
  OBVIOUS
<1>2. QED
  BY <1>1, OnwardInv DEF FilesSound

LEMMA EvStep == EvInv /\ SoundInv /\ [EvNext]_evVars => EvInv' /\ SoundInv'
<1> SUFFICES ASSUME EvInv, SoundInv, [EvNext]_evVars PROVE EvInv' /\ SoundInv'
  OBVIOUS
<1>1. IsTicket(ticket)
  BY EvidenceAssumption DEF EvInv
<1>2. \A r \in Reports \cup {NoReport} : r = NoReport => Sound(r)
  BY DEF Sound, NoReport
<1>3. NoReport \in Reports \cup {NoReport} /\ Sound(NoReport)
  BY <1>2
<1>4. \A k \in DOMAIN inodes :
        inodes[k].report \in Reports \cup {NoReport} /\ Sound(inodes[k].report)
  BY EvFacts
<1>5. DOMAIN inodes = 1..Len(inodes) /\ Len(inodes) \in Nat
  BY DEF EvInv
<1>6. ASSUME NEW v \in Verifiers
      PROVE  /\ ver[v].report \in Reports \cup {NoReport} /\ Sound(ver[v].report)
             /\ ver[v].open \in 0..Len(inodes)
             /\ ver[v].at # "idle" => contract = "strict"
  BY DEF EvInv, SoundInv
<1>7. ASSUME NEW relaxed \in BOOLEAN, Intake(relaxed) PROVE EvInv' /\ SoundInv'
  <2>1. /\ contract' \in {"strict", "relaxed"}
        /\ contract' = "strict" => Preflight(ticket, FALSE) = "READY"
        /\ contract' = "relaxed" => Preflight(ticket, TRUE) = "READY"
        /\ \A v \in Verifiers : ver[v].at = "idle"
        /\ UNCHANGED <<ticket, names, inodes, ver, answers, webCheck>>
    BY <1>6, <1>7 DEF Intake
  <2>2. EvInv'
    BY <2>1 DEF EvInv
  <2>3. SoundInv'
    BY <2>1 DEF SoundInv
  <2>4. QED
    BY <2>2, <2>3
<1>8. ASSUME NEW v \in Verifiers, VerifyCall(v) PROVE EvInv' /\ SoundInv'
  <2>1. contract = "strict" /\ UNCHANGED <<ticket, contract, names, inodes, webCheck>>
    BY <1>8 DEF VerifyCall
  <2>2. CASE names.target # 0
    <3>1. Answer(v, Content(names.target)) /\ names.target \in DOMAIN inodes
      BY <1>5, <1>8, <2>2 DEF VerifyCall, EvInv
    <3>2. Content(names.target) \in Reports \cup {NoReport} /\ Sound(Content(names.target))
      BY <1>4, <3>1 DEF Content
    <3>3. QED
      BY <2>1, <3>1, <3>2, AnswerInv DEF EvInv
  <2>3. CASE names.target = 0
    <3>1. GoesTo(v, "judge") /\ UNCHANGED answers
      BY <1>8, <2>3 DEF VerifyCall
    <3>2. QED
      BY <2>1, <3>1, FilesKept, StepOn
  <2>4. QED
    BY <2>2, <2>3
<1>9. ASSUME NEW v \in Verifiers, Judge(v) PROVE EvInv' /\ SoundInv'
  <2>1. PICK g \in Trees, unsafe \in BOOLEAN, failed \in SUBSET Commands(FALSE) :
          ver' = [ver EXCEPT
            ![v].at = "open",
            ![v].report = [status |-> Verdict(g, unsafe, failed), by |-> v,
                           earned |-> /\ g = {} /\ ~unsafe
                                      /\ Earned(FALSE, Commands(FALSE) \ failed)]]
    BY <1>9 DEF Judge
  <2> DEFINE earned == g = {} /\ ~unsafe /\ Earned(FALSE, Commands(FALSE) \ failed)
             r == [status |-> Verdict(g, unsafe, failed), by |-> v, earned |-> earned]
  <2>2. contract = "strict" /\ Preflight(ticket, FALSE) = "READY"
    BY <1>6, <1>9 DEF Judge, At, EvInv
  <2>3. earned \in BOOLEAN /\ (Verdict(g, unsafe, failed) = "VERIFIED" => earned)
    BY <1>1, <2>2, VerdictEarned
  <2>4. r \in Reports /\ Sound(r)
    <3> HIDE DEF earned
    <3>1. QED
      BY <2>3, VerdictType DEF Reports, Sound
  <2>5. ver' = [ver EXCEPT ![v] = [at |-> "open", report |-> r, open |-> ver[v].open]]
    <3> HIDE DEF earned
    <3>1. ver' = [ver EXCEPT ![v].at = "open", ![v].report = r]
      BY <2>1 DEF earned
    <3> DEFINE w == ver[v]
    <3>2. w = [at |-> w.at, report |-> w.report, open |-> w.open] /\ v \in DOMAIN ver
      BY EvFacts DEF EvInv
    <3> HIDE DEF r
    <3>3. [w EXCEPT !.at = "open", !.report = r] = [at |-> "open", report |-> r, open |-> w.open]
      <4> DEFINE u == [at |-> "open", report |-> w.report, open |-> w.open]
      <4>1. [w EXCEPT !.at = "open"] = u
        BY <3>2
      <4>2. [w EXCEPT !.at = "open", !.report = r] = [u EXCEPT !.report = r]
        BY <4>1
      <4>3. [u EXCEPT !.report = r] = [at |-> "open", report |-> r, open |-> w.open]
        OBVIOUS
      <4>4. QED
        BY <4>2, <4>3
    <3>4. ver' = [ver EXCEPT ![v] = [w EXCEPT !.at = "open", !.report = r]]
      BY <3>1, <3>2
    <3>5. QED
      BY <3>3, <3>4
  <2>6. UNCHANGED <<ticket, contract, names, inodes, answers, webCheck>>
    BY <1>9 DEF Judge
  <2>7. QED
    <3> HIDE DEF r
    <3>1. FilesSound
      BY <2>6, FilesKept
    <3>2. ver[v].open \in 0..Len(inodes')
      BY <1>6, <2>6
    <3>3. QED
      BY <2>2, <2>4, <2>5, <2>6, <3>1, <3>2, ReportOn
<1>10. ASSUME NEW v \in Verifiers, OpenTemporary(v) PROVE EvInv' /\ SoundInv'
  <2>1. contract = "strict" /\ UNCHANGED <<ticket, contract, webCheck>>
    BY <1>6, <1>10 DEF OpenTemporary, At
  <2>2. CASE names.temporary = 0
    <3>1. /\ inodes' = Append(inodes, [report |-> NoReport, ro |-> FALSE])
          /\ names' = [names EXCEPT !.temporary = Len(inodes) + 1]
          /\ ver' = [ver EXCEPT ![v].at = "write", ![v].open = Len(inodes) + 1]
          /\ UNCHANGED answers
      BY <1>10, <2>2 DEF OpenTemporary
    <3>2. /\ inodes' \in Seq([report : Reports \cup {NoReport}, ro : BOOLEAN])
          /\ Len(inodes') = Len(inodes) + 1 /\ DOMAIN inodes' = 1..(Len(inodes) + 1)
          /\ \A k \in 1..Len(inodes) : inodes'[k] = inodes[k]
          /\ inodes'[Len(inodes) + 1] = [report |-> NoReport, ro |-> FALSE]
      BY <1>3, <3>1 DEF EvInv
    <3>3. \A k \in DOMAIN inodes' : Sound(inodes'[k].report)
      BY <1>3, <1>4, <1>5, <3>2
    <3>4. ver' = [ver EXCEPT ![v] = [at |-> "write", report |-> ver[v].report,
                                     open |-> Len(inodes) + 1]]
      BY <3>1, GoesToIs
    <3>5. /\ names' \in [temporary : 0..Len(inodes'), target : 0..Len(inodes')]
          /\ names'.target = names.target /\ Len(inodes) + 1 \in 0..Len(inodes')
          /\ Len(inodes) + 1 # 0 /\ Len(inodes) <= Len(inodes')
      BY <1>5, <3>1, <3>2 DEF EvInv
    <3>6. QED
      <4> DEFINE i == Len(inodes) + 1
      <4>1. i \in 0..Len(inodes') /\ i # 0
        BY <3>5
      <4> HIDE DEF i
      <4>2. ver' = [ver EXCEPT ![v] = [at |-> "write", report |-> ver[v].report, open |-> i]]
        BY <3>4 DEF i
      <4>3. FilesSound
        BY <3>2, <3>3, <3>5 DEF FilesSound
      <4>4. QED
        BY <1>6, <2>1, <3>1, <4>1, <4>2, <4>3, ReportOn
  <2>3. CASE names.temporary # 0 /\ inodes[names.temporary].ro
    <3>1. Answer(v, NoReport) /\ UNCHANGED <<inodes, names>>
      BY <1>10, <2>3 DEF OpenTemporary
    <3>2. QED
      BY <1>3, <2>1, <3>1, AnswerInv DEF EvInv
  <2>4. CASE names.temporary # 0 /\ ~inodes[names.temporary].ro
    <3>1. /\ inodes' = [inodes EXCEPT ![names.temporary].report = NoReport]
          /\ ver' = [ver EXCEPT ![v].at = "write", ![v].open = names.temporary]
          /\ UNCHANGED <<names, answers>>
      BY <1>10, <2>4 DEF OpenTemporary
    <3>2. names.temporary \in 1..Len(inodes)
      BY <1>5, <2>4 DEF EvInv
    <3>3. /\ Len(inodes') = Len(inodes)
          /\ inodes' \in Seq([report : Reports \cup {NoReport}, ro : BOOLEAN])
          /\ \A k \in DOMAIN inodes' : Sound(inodes'[k].report)
      BY <1>3, <3>1, <3>2, RewriteInv
    <3>4. ver' = [ver EXCEPT ![v] = [at |-> "write", report |-> ver[v].report,
                                     open |-> names.temporary]]
      BY <3>1, GoesToIs
    <3>5. names.temporary \in 0..Len(inodes') /\ Len(inodes) <= Len(inodes')
      BY <1>5, <3>2, <3>3
    <3>6. /\ names' \in [temporary : 0..Len(inodes'), target : 0..Len(inodes')]
          /\ names'.target = names.target
      BY <3>1, <3>3 DEF EvInv
    <3>7. FilesSound
      BY <3>3, <3>5, <3>6 DEF FilesSound
    <3>8. QED
      BY <1>6, <2>1, <2>4, <3>1, <3>4, <3>5, <3>7, ReportOn
  <2>5. QED
    BY <2>2, <2>3, <2>4
<1>11. ASSUME NEW v \in Verifiers, WriteTemporary(v) PROVE EvInv' /\ SoundInv'
  <2>1. /\ contract = "strict" /\ UNCHANGED <<ticket, contract, names, answers, webCheck>>
        /\ inodes' = [inodes EXCEPT ![ver[v].open].report = ver[v].report]
        /\ GoesTo(v, "chmod")
    BY <1>6, <1>11 DEF WriteTemporary, At
  <2>2. ver[v].open \in 1..Len(inodes)
    BY <1>5, <1>6, <1>11 DEF WriteTemporary, At, EvInv
  <2>3. /\ Len(inodes') = Len(inodes)
        /\ inodes' \in Seq([report : Reports \cup {NoReport}, ro : BOOLEAN])
        /\ \A k \in DOMAIN inodes' : Sound(inodes'[k].report)
    BY <1>6, <2>1, <2>2, RewriteInv
  <2>4. FilesSound
    BY <1>5, <2>1, <2>3 DEF FilesSound, EvInv
  <2>5. QED
    BY <2>1, <2>4, StepOn
<1>12. ASSUME NEW v \in Verifiers, ChmodTemporary(v) PROVE EvInv' /\ SoundInv'
  <2>1. contract = "strict" /\ UNCHANGED <<ticket, contract, names, webCheck>>
    BY <1>6, <1>12 DEF ChmodTemporary, At
  <2>2. CASE names.temporary = 0
    <3>1. Answer(v, NoReport) /\ UNCHANGED inodes
      BY <1>12, <2>2 DEF ChmodTemporary
    <3>2. QED
      BY <1>3, <2>1, <3>1, AnswerInv DEF EvInv
  <2>3. CASE names.temporary # 0
    <3>1. /\ inodes' = [inodes EXCEPT ![names.temporary].ro = TRUE]
          /\ GoesTo(v, "link") /\ UNCHANGED answers
      BY <1>12, <2>3 DEF ChmodTemporary
    <3>2. names.temporary \in 1..Len(inodes)
      BY <1>5, <2>3 DEF EvInv
    <3>3. /\ Len(inodes') = Len(inodes)
          /\ inodes' \in Seq([report : Reports \cup {NoReport}, ro : BOOLEAN])
          /\ \A k \in DOMAIN inodes' : Sound(inodes'[k].report)
      BY <3>1, <3>2, ProtectInv
    <3>4. FilesSound
      BY <1>5, <2>1, <3>3 DEF FilesSound, EvInv
    <3>5. QED
      BY <2>1, <3>1, <3>4, StepOn
  <2>4. QED
    BY <2>2, <2>3
<1>13. ASSUME NEW v \in Verifiers, LinkEvidence(v) PROVE EvInv' /\ SoundInv'
  <2>1. contract = "strict" /\ UNCHANGED <<ticket, contract, inodes, answers, webCheck>>
    BY <1>6, <1>13 DEF LinkEvidence, At
  <2>2. CASE names.temporary # 0 /\ names.target = 0
    <3>1. names' = [names EXCEPT !.target = names.temporary] /\ GoesTo(v, "unlinkMine")
      BY <1>13, <2>2 DEF LinkEvidence
    <3>2. names' \in [temporary : 0..Len(inodes), target : 0..Len(inodes)]
      BY <3>1 DEF EvInv
    <3>3. names'.target # 0 /\ Len(inodes') = Len(inodes) /\ inodes' = inodes
      BY <2>1, <2>2, <3>1 DEF EvInv
    <3>4. FilesSound
      BY <1>5, <3>2, <3>3 DEF FilesSound, EvInv, SoundInv
    <3>5. QED
      BY <2>1, <3>1, <3>4, StepOn
  <2>3. CASE ~(names.temporary # 0 /\ names.target = 0)
    <3>1. PICK at \in {"unlinkTheirs", "unlinkFault"} :
            /\ GoesTo(v, at) /\ names' = names
            /\ at = "unlinkTheirs" => names.target # 0
      BY <1>13, <2>3 DEF LinkEvidence
    <3>2. QED
      BY <2>1, <3>1, FilesKept, StepOn
  <2>4. QED
    BY <2>2, <2>3
<1>14. ASSUME NEW v \in Verifiers, UnlinkTemporary(v) PROVE EvInv' /\ SoundInv'
  <2>1. /\ UNCHANGED <<ticket, contract, inodes, webCheck>>
        /\ names' = [names EXCEPT !.temporary = 0]
    BY <1>14 DEF UnlinkTemporary
  <2>2. PICK r : /\ Answer(v, r)
                 /\ \/ r = ver[v].report
                    \/ At(v, "unlinkTheirs") /\ r = Content(names.target)
                    \/ r = NoReport
    BY <1>14 DEF UnlinkTemporary, At
  <2>3. r \in Reports \cup {NoReport} /\ Sound(r)
    <3>1. CASE At(v, "unlinkTheirs") /\ r = Content(names.target)
      <4>1. names.target \in DOMAIN inodes
        BY <1>5, <3>1 DEF EvInv, At
      <4>2. QED
        BY <1>4, <3>1, <4>1 DEF Content
    <3>2. QED
      BY <1>3, <1>6, <2>2, <3>1
  <2>4. /\ names' \in [temporary : 0..Len(inodes), target : 0..Len(inodes)]
        /\ names'.target = names.target
    BY <1>5, <2>1 DEF EvInv
  <2>5. QED
    BY <2>1, <2>2, <2>3, <2>4, AnswerInv
<1>15. ASSUME NEW v \in Verifiers, VerifierDies(v) PROVE EvInv' /\ SoundInv'
  <2>1. Answer(v, NoReport) /\ UNCHANGED <<ticket, contract, names, inodes, webCheck>>
    BY <1>15 DEF VerifierDies, Answer
  <2>2. QED
    BY <1>3, <2>1, AnswerInv DEF EvInv
<1>16. CASE CheckWeb
  <2>1. /\ contract = "relaxed"
        /\ UNCHANGED <<ticket, contract, names, inodes, ver, answers>>
    BY <1>16 DEF CheckWeb
  <2>2. PICK g \in Trees, gitFails \in BOOLEAN, failed \in SUBSET Commands(TRUE) :
          webCheck' =
            [status |-> IF /\ WebVerified(gitFails, g, failed) /\ Commands(TRUE) # {}
                           /\ "escaping" \notin g
                          THEN "VERIFIED" ELSE "FAILED_DEVELOPMENT",
             by |-> 0,
             earned |-> /\ ~gitFails /\ "no change" \notin g /\ "escaping" \notin g
                        /\ Earned(TRUE, Commands(TRUE) \ failed)]
    BY <1>16 DEF CheckWeb
  <2>3. Sound(webCheck')
    <3>1. SUFFICES ASSUME WebVerified(gitFails, g, failed), Commands(TRUE) # {},
                          "escaping" \notin g
                   PROVE  Earned(TRUE, Commands(TRUE) \ failed)
      BY <2>2 DEF Sound, WebVerified
    <3>2. Commands(TRUE) \ failed = Commands(TRUE)
      BY <3>1 DEF WebVerified
    <3>3. Preflight(ticket, TRUE) = "READY"
      BY <2>1 DEF EvInv
    <3>4. QED
      BY <1>1, <3>1, <3>2, <3>3, ReadyEarned
  <2>4. QED
    BY <2>1, <2>3 DEF EvInv, SoundInv
<1>17. CASE UNCHANGED evVars
  BY <1>17 DEF evVars, EvInv, SoundInv, Sound
<1>18. QED
  BY <1>7, <1>8, <1>9, <1>10, <1>11, <1>12, <1>13, <1>14, <1>15, <1>16, <1>17 DEF EvNext

\* Every report that a caller gets or a file holds says VERIFIED only of what the
\* ticket asks for, for every issue, any number of verifiers at work at once,
\* and wherever one dies.
THEOREM EvidenceCorrect == EvSpec => []VerifiedIsEarned
<1>1. EvInv /\ SoundInv => VerifiedIsEarned
  <2> SUFFICES ASSUME EvInv, SoundInv PROVE VerifiedIsEarned
    OBVIOUS
  <2>1. \A i \in DOMAIN inodes : inodes[i].report \in Reports \cup {NoReport}
    BY EvFacts
  <2>2. EvTypeOK
    BY <2>1 DEF EvInv, EvTypeOK
  <2>3. QED
    BY <2>2 DEF SoundInv, Sound, VerifiedIsEarned, Content
<1>2. QED
  BY EvInitial, EvStep, <1>1, PTL DEF EvSpec

=============================================================================
