----------------------- MODULE TicketPipeline_proofs -----------------------
(***************************************************************************)
(* Proofs about TicketPipeline, for every number of repairs, exceptions    *)
(* and crashes.  Inv adds to what is claimed of the ledger, the PR and     *)
(* Plane how far the call is when the claim begins to hold: what the       *)
(* memory of the call may say at each step, and what it has behind it.     *)
(***************************************************************************)
EXTENDS TicketPipeline, TLAPS

-----------------------------------------------------------------------------
Publishing == {"createPr", "savePr", "toReview", "saveReview", "saveResult"}
Developing == StagePcs \cup PrPcs \cup PlanePcs

\* While the call works the ledger is not final; once it blocks, what it has
\* in memory is a block, and what it saved is that block or a failure of the
\* environment on top of it.
Statuses ==
  /\ pc \in Developing => mem.status = "RUNNING"
  /\ pc \in Developing \cup {"saveResult", "saveFailure"} => ledger.status = "RUNNING"
  /\ pc = "saveResult" => mem.status = "IN_REVIEW"
  /\ pc \in BlockPcs \cup {"saveFailure"} => mem.status \in Blocked
  /\ pc \in {"toBlocked", "saveReported", "saveUnreported"} => ledger.status \in Blocked
  /\ ledger.status = "IN_REVIEW" => pc = "idle"
  /\ ledger.status \in Blocked /\ pc # "idle" =>
       mem.status \in {ledger.status, "BLOCKED_ENVIRONMENT"}

\* A PASS in a ledger is a PASS that QA gave, and only a PASS publishes.
Gate ==
  /\ pc \in Publishing \cup {"diff", "qa", "saveVerdict", "decide"} => bundle.verified
  /\ pc \in Publishing => mem.last = "PASS"
  /\ mem.last = "PASS" => passed # {}
  /\ ledger.last = "PASS" => passed # {}
  /\ PublishNeedsPass

\* What the two ledgers say of GitHub and Plane.
World ==
  /\ mem.pr => prs = 1
  /\ ledger.pr => prs = 1
  /\ pc \in Publishing \ {"createPr"} => mem.pr
  /\ mem.inReview => plane # "Ready"
  /\ ledger.inReview => plane # "Ready"
  /\ pc \in {"saveReview", "saveResult"} => mem.inReview
  /\ ReviewIsReal
  /\ BlockIsRetained

\* The executor calls that the file accounts for.
Accounted ==
  /\ pc # "idle" => ledger.fix <= mem.fix
  /\ pc = "saveFix" => ledger.fix < mem.fix
  /\ executes <= ledger.fix + 1 + crashes + faults
  /\ pc \in {"plan", "savePlan", "execute"} => executes <= ledger.fix + crashes + faults
  /\ pc = "idle" /\ ledger.status \notin Terminal =>
       executes <= ledger.fix + crashes + faults

Inv == TypeOK /\ Statuses /\ Gate /\ World /\ Accounted

-----------------------------------------------------------------------------
LEMMA Unverified == ~NoBundle.verified
BY DEF NoBundle

LEMMA ZeroIsNone == ~(0 > 0)
OBVIOUS

\* Each write of a field gives a ledger that the schema knows.
LEMMA Fields ==
  ASSUME NEW m \in Ledger
  PROVE  /\ NewLedger \in Ledger
         /\ m.fix \in Nat
         /\ [m EXCEPT !.plan = TRUE] \in Ledger
         /\ [m EXCEPT !.pr = TRUE] \in Ledger
         /\ [m EXCEPT !.inReview = TRUE] \in Ledger
         /\ [m EXCEPT !.reported = TRUE] \in Ledger
         /\ \A s \in Terminal : [m EXCEPT !.status = s] \in Ledger
         /\ \A v \in Verdicts : [m EXCEPT !.attempt = @ + 1, !.last = v] \in Ledger
         /\ m.fix < MaxFix => [m EXCEPT !.fix = @ + 1] \in Ledger
<1>1. NewLedger \in Ledger
  BY PipelineAssumption DEF NewLedger, Ledger, Verdicts
<1>2. m.fix \in Nat /\ m.attempt \in Nat
  BY PipelineAssumption DEF Ledger
<1>3. m.fix < MaxFix => m.fix + 1 \in 0..MaxFix
  BY <1>2, PipelineAssumption
<1>4. /\ [m EXCEPT !.plan = TRUE] \in Ledger
      /\ [m EXCEPT !.pr = TRUE] \in Ledger
      /\ [m EXCEPT !.inReview = TRUE] \in Ledger
      /\ [m EXCEPT !.reported = TRUE] \in Ledger
      /\ \A s \in Terminal : [m EXCEPT !.status = s] \in Ledger
  BY DEF Ledger
<1>5. ASSUME NEW v \in Verdicts
      PROVE  [m EXCEPT !.attempt = @ + 1, !.last = v] \in Ledger
  <2>1. [m EXCEPT !.last = v] \in Ledger
    BY DEF Ledger
  <2>2. [m EXCEPT !.attempt = @ + 1, !.last = v] =
          [[m EXCEPT !.last = v] EXCEPT !.attempt = m.attempt + 1]
    BY DEF Ledger
  <2>3. m.attempt + 1 \in Nat
    BY <1>2
  <2>4. QED
    BY <2>1, <2>2, <2>3 DEF Ledger
<1>6. m.fix < MaxFix => [m EXCEPT !.fix = @ + 1] \in Ledger
  BY <1>3 DEF Ledger
<1>7. QED
  BY <1>1, <1>2, <1>4, <1>5, <1>6

\* Every step writes such fields, or a whole ledger.
LEMMA LedgerTypes ==
  ASSUME TypeOK, [Next]_vars
  PROVE  ledger' \in Ledger /\ mem' \in Ledger
<1> mem \in Ledger /\ ledger \in Ledger
  BY DEF TypeOK
<1> USE DEF Block, Save, Return, disk, Terminal, Blocked
<1>1. CASE Decide
  <2> mem.fix \in Nat
    BY Fields
  <2>1. CASE mem' = mem \/ \E s \in Terminal : mem' = [mem EXCEPT !.status = s]
    BY <1>1, <2>1, Fields DEF Decide
  <2>2. CASE mem' = [mem EXCEPT !.fix = @ + 1] /\ ~(mem.fix >= MaxFix)
    <3>1. mem.fix < MaxFix
      BY <2>2, PipelineAssumption
    <3>2. mem' \in Ledger
      BY <2>2, <3>1, Fields
    <3>3. QED
      BY <1>1, <3>2 DEF Decide
  <2>3. QED
    BY <1>1, <2>1, <2>2 DEF Decide, Exhausted
<1>2. CASE Qa
  BY <1>2, Fields DEF Qa
<1>3. CASE SaveFault
  <2>1. mem' = NewLedger \/ mem' = [mem EXCEPT !.status = "BLOCKED_ENVIRONMENT"]
    BY <1>3 DEF SaveFault, Escape
  <2>2. QED
    BY <2>1, <1>3, Fields DEF SaveFault
<1>4. CASE Plan \/ CreatePr
  BY <1>4, Fields DEF Plan, CreatePr
<1>5. CASE PlanFailed \/ Execute
  <2>1. ledger' = ledger /\ mem' \in {mem, [mem EXCEPT !.status = "BLOCKED_ENVIRONMENT"]}
    BY <1>5 DEF PlanFailed, Execute, Escape
  <2>2. QED
    BY <2>1, Fields
<1>6. CASE Verify \/ Diff \/ QaFailed
  <2>1. mem' = mem \/ \E s \in Terminal : mem' = [mem EXCEPT !.status = s]
    BY <1>6 DEF Verify, Escape, Diff, QaFailed
  <2>2. ledger' = ledger
    BY <1>6 DEF Verify, Escape, Diff, QaFailed
  <2>3. QED
    BY <2>1, <2>2, Fields
<1>7. CASE ToReview \/ AlreadyInReview \/ ToBlocked
  BY <1>7, Fields DEF ToReview, AlreadyInReview, ToBlocked
<1>8. CASE ToReviewFailed \/ ToBlockedFailed
  <2>1. mem' = [mem EXCEPT !.status = "BLOCKED_ENVIRONMENT"] /\ ledger' = ledger
    BY <1>8 DEF ToReviewFailed, ToBlockedFailed
  <2>2. QED
    BY <2>1, Fields
<1>9. CASE SaveReview
  BY <1>9, Fields DEF SaveReview
<1>10. CASE Crash \/ SaveBlockedAgain
  BY <1>10, Fields DEF Crash, SaveBlockedAgain, LastSave
<1>11. CASE \E l \in SavePcs : LastSave(l)
  BY <1>11, Fields DEF LastSave
<1>12. CASE SaveBlocked \/ \E l, m \in Pcs : StageSave(l, m)
  BY <1>12 DEF SaveBlocked, StageSave
<1>13. CASE Call \/ CallRetained \/ UNCHANGED vars
  BY <1>13 DEF Call, CallRetained, vars, locals
<1>14. QED
  BY <1>1, <1>2, <1>3, <1>4, <1>5, <1>6, <1>7,
     <1>8, <1>9, <1>10, <1>11, <1>12, <1>13
     DEF Next, Step, SavePcs, Pcs, StagePcs, PrPcs, PlanePcs, BlockPcs

LEMMA PcTypes ==
  ASSUME TypeOK, [Next]_vars
  PROVE  pc' \in Pcs /\ outer' \in BOOLEAN
BY DEF TypeOK, Pcs, StagePcs, PrPcs, PlanePcs, BlockPcs, Goto, Block, Return,
       Escape, Next, Step, Call, CallRetained, Plan, PlanFailed, StageSave, Execute,
       Verify, Diff, QaFailed, Qa, Decide, CreatePr, ToReview, AlreadyInReview,
       ToReviewFailed, SaveReview, LastSave, SaveBlocked, SaveBlockedAgain,
       ToBlocked, ToBlockedFailed, SaveFault, Crash, vars, locals

LEMMA BranchTypes ==
  ASSUME TypeOK, [Next]_vars
  PROVE  head' \in Nat /\ prs' \in 0..1
<1>0. head \in Nat /\ prs \in 0..1
  BY DEF TypeOK
<1> head \in Nat /\ prs \in {0, 1}
  BY <1>0
<1>1. CASE Execute
  <2>1. PICK commits \in 0..1 : head' = head + commits
    BY <1>1 DEF Execute
  <2>2. head' \in Nat
    BY <2>1
  <2>3. prs' = prs
    BY <1>1 DEF Execute
  <2>4. QED
    BY <2>2, <2>3
<1>2. CASE CreatePr
  <2>1. prs' \in {0, 1} /\ head' = head
    BY <1>2 DEF CreatePr
  <2>2. QED
    BY <2>1
<1>3. CASE UNCHANGED <<head, prs>>
  BY <1>3
<1>4. QED
  BY <1>1, <1>2, <1>3
     DEF Next, Step, Call, CallRetained, Plan, PlanFailed, StageSave, Verify, Diff,
         QaFailed, Qa, Decide, ToReview, AlreadyInReview, ToReviewFailed, SaveReview,
         LastSave, SaveBlocked, SaveBlockedAgain, ToBlocked, ToBlockedFailed,
         SaveFault, Crash, vars, world

LEMMA Successor == \A n \in Nat : n + 1 \in Nat
OBVIOUS

LEMMA PlaneTypes ==
  ASSUME TypeOK, [Next]_vars
  PROVE  /\ plane' \in {"Ready", "In Review", "Blocked"}
         /\ writes' \in [{"In Review", "Blocked"} -> Nat]
<1> /\ plane \in {"Ready", "In Review", "Blocked"}
    /\ writes \in [{"In Review", "Blocked"} -> Nat]
  BY DEF TypeOK
<1>1. ASSUME NEW s \in {"In Review", "Blocked"}, PlaneMoved(s)
      PROVE  /\ plane' \in {"Ready", "In Review", "Blocked"}
             /\ writes' \in [{"In Review", "Blocked"} -> Nat]
  <2>1. writes[s] + 1 \in Nat
    BY Successor, <1>1, Zenon
  <2>2. writes' = [writes EXCEPT ![s] = writes[s] + 1] /\ plane' = s
    BY <1>1 DEF PlaneMoved
  <2>3. QED
    BY <2>1, <2>2
<1>2. CASE UNCHANGED <<plane, writes>>
  BY <1>2
<1>3. PlaneMoved("In Review") \/ PlaneMoved("Blocked") \/ UNCHANGED <<plane, writes>>
  BY DEF Next, Step, Call, CallRetained, Plan, PlanFailed, StageSave, Execute, Verify,
         Diff, QaFailed, Qa, Decide, CreatePr, ToReview, AlreadyInReview,
         ToReviewFailed, SaveReview, LastSave, SaveBlocked, SaveBlockedAgain,
         ToBlocked, ToBlockedFailed, SaveFault, Crash, vars, world
<1>4. QED
  BY <1>1, <1>2, <1>3

LEMMA BundleTypes ==
  ASSUME TypeOK, [Next]_vars
  PROVE  bundle' \in [head : Nat, verified : BOOLEAN]
<1> bundle \in [head : Nat, verified : BOOLEAN] /\ head \in Nat
  BY DEF TypeOK
<1>1. CASE Verify
  <2>1. bundle' \in {bundle, NoBundle, [head |-> head, verified |-> TRUE]}
    BY <1>1 DEF Verify, Evidence
  <2>2. NoBundle \in [head : Nat, verified : BOOLEAN]
    BY DEF NoBundle
  <2>3. [head |-> head, verified |-> TRUE] \in [head : Nat, verified : BOOLEAN]
    OBVIOUS
  <2>4. QED
    BY <2>1, <2>2, <2>3
<1>2. CASE UNCHANGED bundle
  BY <1>2
<1>3. QED
  BY <1>1, <1>2
     DEF Next, Step, Call, CallRetained, Plan, PlanFailed, StageSave, Execute, Diff,
         QaFailed, Qa, Decide, CreatePr, ToReview, AlreadyInReview, ToReviewFailed,
         SaveReview, LastSave, SaveBlocked, SaveBlockedAgain, ToBlocked,
         ToBlockedFailed, SaveFault, Crash, vars, disk

LEMMA HistoryTypes ==
  ASSUME TypeOK, [Next]_vars
  PROVE  /\ passed' \subseteq Nat /\ executes' \in Nat
         /\ faults' \in 0..MaxFaults /\ crashes' \in 0..MaxCrashes
<1> /\ passed \subseteq Nat /\ executes \in Nat /\ bundle.head \in Nat
    /\ faults \in 0..MaxFaults /\ crashes \in 0..MaxCrashes
  BY DEF TypeOK
<1> USE DEF history, budget
<1>1. CASE Qa
  BY <1>1 DEF Qa
<1>2. CASE Execute
  BY <1>2 DEF Execute
<1>3. CASE SaveFault
  BY <1>3, PipelineAssumption DEF SaveFault
<1>4. CASE Crash
  BY <1>4, PipelineAssumption DEF Crash
<1>5. CASE UNCHANGED <<history, budget>>
  BY <1>5
<1>6. QED
  BY <1>1, <1>2, <1>3, <1>4, <1>5
     DEF Next, Step, Call, CallRetained, Plan, PlanFailed, StageSave, Verify, Diff,
         QaFailed, Decide, CreatePr, ToReview, AlreadyInReview, ToReviewFailed,
         SaveReview, LastSave, SaveBlocked, SaveBlockedAgain, ToBlocked,
         ToBlockedFailed, vars

LEMMA Types == TypeOK /\ [Next]_vars => TypeOK'
BY LedgerTypes, PcTypes, BranchTypes, PlaneTypes, BundleTypes, HistoryTypes DEF TypeOK

\* The status in memory follows the call.
LEMMA StatusStep ==
  ASSUME TypeOK, Statuses, [Next]_vars
  PROVE  Statuses'
<1> USE DEF Statuses, TypeOK, Developing, Pcs, StagePcs, PrPcs, PlanePcs,
      BlockPcs, Ledger, NewLedger, Verdicts, Terminal, Blocked, disk, world,
      history, budget
<1>1. CASE Call
  BY <1>1 DEF Call, Goto
<1>2. CASE CallRetained
  BY <1>2 DEF CallRetained, vars, disk, world, locals, history, budget
<1>3. CASE Plan
  BY <1>3 DEF Plan, Goto
<1>4. CASE PlanFailed
  BY <1>4 DEF PlanFailed, Escape, Block, Goto
<1>5. CASE StageSave("savePlan", "execute")
  BY <1>5 DEF StageSave, Save, Goto
<1>6. CASE Execute
  BY <1>6 DEF Execute, Escape, Block, Goto
<1>7. CASE StageSave("saveExecute", "verify")
  BY <1>7 DEF StageSave, Save, Goto
<1>8. CASE Verify
  BY <1>8 DEF Verify, Evidence, NoBundle, Escape, Block, Goto
<1>9. CASE Diff
  BY <1>9 DEF Diff, Block, Goto
<1>10. CASE QaFailed
  BY <1>10 DEF QaFailed, Block, Goto
<1>11. CASE Qa
  BY <1>11 DEF Qa, Goto
<1>12. CASE StageSave("saveVerdict", "decide")
  BY <1>12 DEF StageSave, Save, Goto
<1>13. CASE Decide
  BY <1>13 DEF Decide, Exhausted, Block, Goto
<1>14. CASE StageSave("saveFix", "execute")
  BY <1>14 DEF StageSave, Save, Goto
<1>15. CASE CreatePr
  BY <1>15 DEF CreatePr, Block, Goto
<1>16. CASE StageSave("savePr", "toReview")
  BY <1>16 DEF StageSave, Save, Goto
<1>17. CASE ToReview
  BY <1>17 DEF ToReview, PlaneMoved, Goto
<1>18. CASE AlreadyInReview
  BY <1>18 DEF AlreadyInReview, Goto
<1>19. CASE ToReviewFailed
  BY <1>19 DEF ToReviewFailed, PlaneMoved, Goto
<1>20. CASE SaveReview
  BY <1>20 DEF SaveReview, Save, Goto
<1>21. CASE LastSave("saveResult")
  BY <1>21 DEF LastSave, Save, Return, Goto
<1>22. CASE LastSave("saveFailure")
  BY <1>22 DEF LastSave, Save, Return, Goto
<1>23. CASE SaveBlocked
  BY <1>23 DEF SaveBlocked, Save, Goto
<1>24. CASE SaveBlockedAgain
  BY <1>24 DEF SaveBlockedAgain, LastSave, Save, Return, Goto
<1>25. CASE ToBlocked
  BY <1>25 DEF ToBlocked, PlaneMoved, Goto
<1>26. CASE ToBlockedFailed
  BY <1>26 DEF ToBlockedFailed, PlaneMoved, Goto
<1>27. CASE LastSave("saveReported")
  BY <1>27 DEF LastSave, Save, Return, Goto
<1>28. CASE LastSave("saveUnreported")
  BY <1>28 DEF LastSave, Save, Return, Goto
<1>29. CASE SaveFault
  BY <1>29 DEF SaveFault, SavePcs, Escape, Block, Return, Goto
<1>30. CASE Crash
  BY <1>30 DEF Crash, Return, Goto
<1>31. CASE UNCHANGED vars
  BY <1>31 DEF vars, locals
<1>32. QED
  BY <1>1, <1>2, <1>3, <1>4, <1>5, <1>6, <1>7, <1>8, <1>9, <1>10, <1>11, <1>12,
     <1>13, <1>14, <1>15, <1>16, <1>17, <1>18, <1>19, <1>20, <1>21, <1>22,
     <1>23, <1>24, <1>25, <1>26, <1>27, <1>28, <1>29, <1>30, <1>31 DEF Next,
     Step

\* Nothing reaches GitHub or Plane's In Review past QA.
LEMMA GateStep ==
  ASSUME TypeOK, Gate, [Next]_vars
  PROVE  Gate'
<1> USE DEF Gate, PublishNeedsPass, TypeOK, Publishing, Pcs, StagePcs, PrPcs,
      PlanePcs, BlockPcs, Ledger, NewLedger, Verdicts, Terminal, Blocked,
      disk, world, history, budget
<1>1. CASE Call
  BY <1>1 DEF Call, Goto
<1>2. CASE CallRetained
  BY <1>2 DEF CallRetained, vars, disk, world, locals, history, budget
<1>3. CASE Plan
  BY <1>3 DEF Plan, Goto
<1>4. CASE PlanFailed
  BY <1>4 DEF PlanFailed, Escape, Block, Goto
<1>5. CASE StageSave("savePlan", "execute")
  BY <1>5 DEF StageSave, Save, Goto
<1>6. CASE Execute
  BY <1>6 DEF Execute, Escape, Block, Goto
<1>7. CASE StageSave("saveExecute", "verify")
  BY <1>7 DEF StageSave, Save, Goto
<1>8. CASE Verify
  <2>1. bundle.verified => bundle'.verified
    <3>1. bundle.verified => bundle # NoBundle
      BY Unverified, Zenon
    <3>2. bundle # NoBundle => bundle' = bundle
      BY <1>8 DEF Verify
    <3>3. QED
      BY <3>1, <3>2
  <2>2. QED
    BY <1>8, <2>1 DEF Verify, Escape, Block, Goto
<1>9. CASE Diff
  BY <1>9 DEF Diff, Block, Goto
<1>10. CASE QaFailed
  BY <1>10 DEF QaFailed, Block, Goto
<1>11. CASE Qa
  BY <1>11 DEF Qa, Goto
<1>12. CASE StageSave("saveVerdict", "decide")
  BY <1>12 DEF StageSave, Save, Goto
<1>13. CASE Decide
  BY <1>13 DEF Decide, Exhausted, Block, Goto
<1>14. CASE StageSave("saveFix", "execute")
  BY <1>14 DEF StageSave, Save, Goto
<1>15. CASE CreatePr
  BY <1>15 DEF CreatePr, Block, Goto
<1>16. CASE StageSave("savePr", "toReview")
  BY <1>16 DEF StageSave, Save, Goto
<1>17. CASE ToReview
  BY <1>17 DEF ToReview, PlaneMoved, Goto
<1>18. CASE AlreadyInReview
  BY <1>18 DEF AlreadyInReview, Goto
<1>19. CASE ToReviewFailed
  BY <1>19 DEF ToReviewFailed, PlaneMoved, Goto
<1>20. CASE SaveReview
  BY <1>20 DEF SaveReview, Save, Goto
<1>21. CASE LastSave("saveResult")
  BY <1>21 DEF LastSave, Save, Return, Goto
<1>22. CASE LastSave("saveFailure")
  BY <1>22 DEF LastSave, Save, Return, Goto
<1>23. CASE SaveBlocked
  BY <1>23 DEF SaveBlocked, Save, Goto
<1>24. CASE SaveBlockedAgain
  BY <1>24 DEF SaveBlockedAgain, LastSave, Save, Return, Goto
<1>25. CASE ToBlocked
  BY <1>25 DEF ToBlocked, PlaneMoved, Goto
<1>26. CASE ToBlockedFailed
  BY <1>26 DEF ToBlockedFailed, PlaneMoved, Goto
<1>27. CASE LastSave("saveReported")
  BY <1>27 DEF LastSave, Save, Return, Goto
<1>28. CASE LastSave("saveUnreported")
  BY <1>28 DEF LastSave, Save, Return, Goto
<1>29. CASE SaveFault
  <2>1. CASE pc = "savePr"
    BY <1>29, <2>1 DEF SaveFault, Block, Goto
  <2>2. CASE pc = "saveReview"
    BY <1>29, <2>2 DEF SaveFault, Goto
  <2>3. CASE pc = "saveReported"
    BY <1>29, <2>3 DEF SaveFault, Goto
  <2>4. CASE pc \notin {"savePr", "saveReview", "saveReported"} /\ ~outer
    BY <1>29, <2>4 DEF SaveFault, SavePcs, Escape, Block, Goto
  <2>5. CASE pc \in {"saveBlocked", "saveUnreported"} /\ outer
    <3>1. Return /\ UNCHANGED <<disk, world, history, crashes>>
      BY <1>29, <2>5, Zenon DEF SaveFault
    <3>2. faults' = faults + 1
      BY <1>29 DEF SaveFault
    <3>3. QED
      BY <3>1, <3>2, <2>5 DEF Return, Goto
  <2>6. QED
    BY <1>29, <2>1, <2>2, <2>3, <2>4, <2>5 DEF SaveFault
<1>30. CASE Crash
  BY <1>30 DEF Crash, Return, Goto
<1>31. CASE UNCHANGED vars
  BY <1>31 DEF vars, locals
<1>32. QED
  BY <1>1, <1>2, <1>3, <1>4, <1>5, <1>6, <1>7, <1>8, <1>9, <1>10, <1>11, <1>12,
     <1>13, <1>14, <1>15, <1>16, <1>17, <1>18, <1>19, <1>20, <1>21, <1>22,
     <1>23, <1>24, <1>25, <1>26, <1>27, <1>28, <1>29, <1>30, <1>31 DEF Next,
     Step

\* GitHub and Plane have done what the ledgers say.
LEMMA WorldStep ==
  ASSUME TypeOK, Statuses, Gate, World, [Next]_vars
  PROVE  World'
<1> USE DEF World, Statuses, Gate, ReviewIsReal, BlockIsRetained, TypeOK,
      Publishing, Developing, Pcs, StagePcs, PrPcs, PlanePcs, BlockPcs,
      Ledger, NewLedger, Verdicts, Terminal, Blocked, disk, world, history,
      budget
<1>1. CASE Call
  BY <1>1 DEF Call, Goto
<1>2. CASE CallRetained
  BY <1>2 DEF CallRetained, vars, disk, world, locals, history, budget
<1>3. CASE Plan
  BY <1>3 DEF Plan, Goto
<1>4. CASE PlanFailed
  BY <1>4 DEF PlanFailed, Escape, Block, Goto
<1>5. CASE StageSave("savePlan", "execute")
  BY <1>5 DEF StageSave, Save, Goto
<1>6. CASE Execute
  BY <1>6 DEF Execute, Escape, Block, Goto
<1>7. CASE StageSave("saveExecute", "verify")
  BY <1>7 DEF StageSave, Save, Goto
<1>8. CASE Verify
  BY <1>8 DEF Verify, Evidence, NoBundle, Escape, Block, Goto
<1>9. CASE Diff
  BY <1>9 DEF Diff, Block, Goto
<1>10. CASE QaFailed
  BY <1>10 DEF QaFailed, Block, Goto
<1>11. CASE Qa
  BY <1>11 DEF Qa, Goto
<1>12. CASE StageSave("saveVerdict", "decide")
  BY <1>12 DEF StageSave, Save, Goto
<1>13. CASE Decide
  BY <1>13 DEF Decide, Exhausted, Block, Goto
<1>14. CASE StageSave("saveFix", "execute")
  BY <1>14 DEF StageSave, Save, Goto
<1>15. CASE CreatePr
  BY <1>15 DEF CreatePr, Block, Goto
<1>16. CASE StageSave("savePr", "toReview")
  BY <1>16 DEF StageSave, Save, Goto
<1>17. CASE ToReview
  BY <1>17 DEF ToReview, PlaneMoved, Goto
<1>18. CASE AlreadyInReview
  BY <1>18 DEF AlreadyInReview, Goto
<1>19. CASE ToReviewFailed
  BY <1>19 DEF ToReviewFailed, PlaneMoved, Goto
<1>20. CASE SaveReview
  BY <1>20 DEF SaveReview, Save, Goto
<1>21. CASE LastSave("saveResult")
  BY <1>21 DEF LastSave, Save, Return, Goto
<1>22. CASE LastSave("saveFailure")
  BY <1>22 DEF LastSave, Save, Return, Goto
<1>23. CASE SaveBlocked
  BY <1>23 DEF SaveBlocked, Save, Goto
<1>24. CASE SaveBlockedAgain
  BY <1>24 DEF SaveBlockedAgain, LastSave, Save, Return, Goto
<1>25. CASE ToBlocked
  BY <1>25 DEF ToBlocked, PlaneMoved, Goto
<1>26. CASE ToBlockedFailed
  BY <1>26 DEF ToBlockedFailed, PlaneMoved, Goto
<1>27. CASE LastSave("saveReported")
  BY <1>27 DEF LastSave, Save, Return, Goto
<1>28. CASE LastSave("saveUnreported")
  BY <1>28 DEF LastSave, Save, Return, Goto
<1>29. CASE SaveFault
  <2>1. CASE pc = "savePr"
    BY <1>29, <2>1 DEF SaveFault, Block, Goto
  <2>2. CASE pc = "saveReview"
    BY <1>29, <2>2 DEF SaveFault, Goto
  <2>3. CASE pc = "saveReported"
    BY <1>29, <2>3 DEF SaveFault, Goto
  <2>4. CASE pc \notin {"savePr", "saveReview", "saveReported"} /\ ~outer
    BY <1>29, <2>4 DEF SaveFault, SavePcs, Escape, Block, Goto
  <2>5. CASE pc \in {"saveBlocked", "saveUnreported"} /\ outer
    <3>1. Return /\ UNCHANGED <<disk, world, history, crashes>>
      BY <1>29, <2>5, Zenon DEF SaveFault
    <3>2. faults' = faults + 1
      BY <1>29 DEF SaveFault
    <3>3. QED
      BY <3>1, <3>2, <2>5 DEF Return, Goto
  <2>6. QED
    BY <1>29, <2>1, <2>2, <2>3, <2>4, <2>5 DEF SaveFault
<1>30. CASE Crash
  BY <1>30 DEF Crash, Return, Goto
<1>31. CASE UNCHANGED vars
  BY <1>31 DEF vars, locals
<1>32. QED
  BY <1>1, <1>2, <1>3, <1>4, <1>5, <1>6, <1>7, <1>8, <1>9, <1>10, <1>11, <1>12,
     <1>13, <1>14, <1>15, <1>16, <1>17, <1>18, <1>19, <1>20, <1>21, <1>22,
     <1>23, <1>24, <1>25, <1>26, <1>27, <1>28, <1>29, <1>30, <1>31 DEF Next,
     Step

LEMMA Unspent ==
  Accounted /\ pc = "execute" => executes <= ledger.fix + crashes + faults
BY DEF Accounted

LEMMA Numbers ==
  TypeOK => /\ ledger.fix \in Nat /\ mem.fix \in Nat /\ executes \in Nat
            /\ faults \in Nat /\ crashes \in Nat
<1> SUFFICES ASSUME TypeOK
             PROVE  /\ ledger.fix \in Nat /\ mem.fix \in Nat /\ executes \in Nat
                    /\ faults \in Nat /\ crashes \in Nat
  OBVIOUS
<1>1. ledger \in Ledger /\ mem \in Ledger
  BY DEF TypeOK
<1>2. executes \in Nat /\ faults \in 0..MaxFaults /\ crashes \in 0..MaxCrashes
  BY DEF TypeOK
<1>3. faults \in Nat /\ crashes \in Nat
  BY <1>2, PipelineAssumption
<1>4. QED
  BY <1>1, <1>2, <1>3, Fields

\* Each executor call has its repair, exception or crash.
LEMMA AccountStep ==
  ASSUME TypeOK, Statuses, Accounted, [Next]_vars
  PROVE  Accounted'
<1> mem \in Ledger /\ ledger \in Ledger
  BY DEF TypeOK
<1> USE Numbers DEF Accounted, Statuses, Developing, Pcs, StagePcs, PrPcs,
      PlanePcs, BlockPcs, Ledger, NewLedger, Verdicts, Terminal, Blocked,
      disk, world, history, budget
<1>1. CASE Call
  BY <1>1 DEF Call, Goto
<1>2. CASE CallRetained
  BY <1>2 DEF CallRetained, vars, disk, world, locals, history, budget
<1>3. CASE Plan
  BY <1>3 DEF Plan, Goto
<1>4. CASE PlanFailed
  BY <1>4 DEF PlanFailed, Escape, Block, Goto
<1>5. CASE StageSave("savePlan", "execute")
  BY <1>5 DEF StageSave, Save, Goto
<1>6. CASE Execute
  <2>1. /\ pc = "execute" /\ pc' \in {"saveExecute", "saveBlocked"}
        /\ executes' = executes + 1
        /\ ledger' = ledger /\ faults' = faults /\ crashes' = crashes
    BY <1>6 DEF Execute, Escape, Block, Goto
  <2>2. mem' = mem \/ mem' = [mem EXCEPT !.status = "BLOCKED_ENVIRONMENT"]
    BY <1>6 DEF Execute, Escape, Block
  <2>3. mem'.fix = mem.fix
    BY <2>2
  <2>4. executes <= ledger.fix + crashes + faults
    BY <2>1, Unspent, Zenon
  <2>5. executes' <= ledger'.fix + 1 + crashes' + faults'
    BY <2>1, <2>4
  <2>6. ledger'.fix <= mem'.fix
    BY <2>1, <2>3
  <2>7. QED
    BY <2>1, <2>5, <2>6
<1>7. CASE StageSave("saveExecute", "verify")
  BY <1>7 DEF StageSave, Save, Goto
<1>8. CASE Verify
  BY <1>8 DEF Verify, Evidence, NoBundle, Escape, Block, Goto
<1>9. CASE Diff
  BY <1>9 DEF Diff, Block, Goto
<1>10. CASE QaFailed
  BY <1>10 DEF QaFailed, Block, Goto
<1>11. CASE Qa
  BY <1>11 DEF Qa, Goto
<1>12. CASE StageSave("saveVerdict", "decide")
  BY <1>12 DEF StageSave, Save, Goto
<1>13. CASE Decide
  BY <1>13 DEF Decide, Exhausted, Block, Goto
<1>14. CASE StageSave("saveFix", "execute")
  BY <1>14 DEF StageSave, Save, Goto
<1>15. CASE CreatePr
  BY <1>15 DEF CreatePr, Block, Goto
<1>16. CASE StageSave("savePr", "toReview")
  BY <1>16 DEF StageSave, Save, Goto
<1>17. CASE ToReview
  BY <1>17 DEF ToReview, PlaneMoved, Goto
<1>18. CASE AlreadyInReview
  BY <1>18 DEF AlreadyInReview, Goto
<1>19. CASE ToReviewFailed
  BY <1>19 DEF ToReviewFailed, PlaneMoved, Goto
<1>20. CASE SaveReview
  BY <1>20 DEF SaveReview, Save, Goto
<1>21. CASE LastSave("saveResult")
  BY <1>21 DEF LastSave, Save, Return, Goto
<1>22. CASE LastSave("saveFailure")
  BY <1>22 DEF LastSave, Save, Return, Goto
<1>23. CASE SaveBlocked
  BY <1>23 DEF SaveBlocked, Save, Goto
<1>24. CASE SaveBlockedAgain
  BY <1>24 DEF SaveBlockedAgain, LastSave, Save, Return, Goto
<1>25. CASE ToBlocked
  BY <1>25 DEF ToBlocked, PlaneMoved, Goto
<1>26. CASE ToBlockedFailed
  BY <1>26 DEF ToBlockedFailed, PlaneMoved, Goto
<1>27. CASE LastSave("saveReported")
  BY <1>27 DEF LastSave, Save, Return, Goto
<1>28. CASE LastSave("saveUnreported")
  BY <1>28 DEF LastSave, Save, Return, Goto
<1>29. CASE SaveFault
  BY <1>29 DEF SaveFault, SavePcs, Escape, Block, Return, Goto
<1>30. CASE Crash
  BY <1>30 DEF Crash, Return, Goto
<1>31. CASE UNCHANGED vars
  BY <1>31 DEF vars, locals
<1>32. QED
  BY <1>1, <1>2, <1>3, <1>4, <1>5, <1>6, <1>7, <1>8, <1>9, <1>10, <1>11, <1>12,
     <1>13, <1>14, <1>15, <1>16, <1>17, <1>18, <1>19, <1>20, <1>21, <1>22,
     <1>23, <1>24, <1>25, <1>26, <1>27, <1>28, <1>29, <1>30, <1>31 DEF Next,
     Step

-----------------------------------------------------------------------------
\* Nothing has happened yet.
LEMMA InitInv == Init => Inv
<1> SUFFICES ASSUME Init PROVE Inv
  OBVIOUS
<1>1. ledger = NewLedger /\ mem = NewLedger /\ bundle = NoBundle /\ pc = "idle"
  BY DEF Init
<1>2. head = 0 /\ prs = 0 /\ executes = 0 /\ faults = 0 /\ crashes = 0 /\ passed = {}
  BY DEF Init
<1>3. /\ plane = "Ready" /\ outer \in BOOLEAN
      /\ writes = [s \in {"In Review", "Blocked"} |-> 0]
  BY DEF Init
<1>4. /\ NewLedger.status = "RUNNING" /\ NewLedger.last = "NONE" /\ NewLedger.fix = 0
      /\ NewLedger.pr = FALSE /\ NewLedger.inReview = FALSE
  BY DEF NewLedger
<1>5. NewLedger \in Ledger
  <2>1. 0 \in 0..MaxFix /\ 0 \in Nat
    BY PipelineAssumption
  <2>2. "RUNNING" \in {"RUNNING"} \cup Terminal /\ "NONE" \in Verdicts \cup {"NONE"}
    OBVIOUS
  <2>3. QED
    BY <2>1, <2>2 DEF NewLedger, Ledger
<1>6. TypeOK
  <2>1. faults \in 0..MaxFaults /\ crashes \in 0..MaxCrashes
    BY <1>2, PipelineAssumption
  <2>2. head \in Nat /\ prs \in 0..1 /\ executes \in Nat /\ passed \subseteq Nat
    BY <1>2
  <2>3. bundle \in [head : Nat, verified : BOOLEAN]
    BY <1>1 DEF NoBundle
  <2>4. writes \in [{"In Review", "Blocked"} -> Nat]
    BY <1>3
  <2>5. QED
    BY <1>1, <1>3, <1>5, <2>1, <2>2, <2>3, <2>4 DEF TypeOK, Pcs
<1>7. Statuses
  BY <1>1, <1>4 DEF Statuses, Blocked, Developing, StagePcs, PrPcs, PlanePcs, BlockPcs
<1>8. Gate
  <2>1. writes["In Review"] = 0
    BY <1>3
  <2>2. PublishNeedsPass
    <3>1. ~(prs > 0) /\ ~(writes["In Review"] > 0)
      BY <1>2, <2>1, ZeroIsNone, Zenon
    <3>2. QED
      BY <3>1 DEF PublishNeedsPass
  <2>3. QED
    BY <1>1, <1>4, <2>2 DEF Gate, Publishing
<1>9. World
  BY <1>1, <1>3, <1>4 DEF World, ReviewIsReal, BlockIsRetained, Publishing
<1>10. Accounted
  BY <1>1, <1>2, <1>4 DEF Accounted
<1>11. QED
  BY <1>6, <1>7, <1>8, <1>9, <1>10 DEF Inv

LEMMA Invariance == Spec => []Inv
<1>1. Inv /\ [Next]_vars => Inv'
  BY Types, StatusStep, GateStep, WorldStep, AccountStep DEF Inv
<1>2. QED
  BY InitInv, <1>1, PTL DEF Spec

-----------------------------------------------------------------------------
\* No crash, lost answer or repeated call brings a PR or an In Review into the
\* world without a QA PASS on verified evidence.
THEOREM PublishCorrect == Spec => []PublishNeedsPass
<1>1. Inv => PublishNeedsPass
  BY DEF Inv, Gate
<1>2. QED
  BY <1>1, Invariance, PTL

\* The ledger is true of GitHub, of Plane and of the executor calls made.
THEOREM LedgerCorrect == Spec => []LedgerIsTrue
<1>1. Inv => RepairsBounded
  <2> SUFFICES ASSUME Inv PROVE RepairsBounded
    OBVIOUS
  <2>1. /\ executes \in Nat /\ ledger.fix \in 0..MaxFix
        /\ crashes \in Nat /\ faults \in Nat
        /\ executes <= ledger.fix + 1 + crashes + faults
    BY Numbers, PipelineAssumption DEF Inv, TypeOK, Ledger, Accounted
  <2>2. QED
    BY <2>1, PipelineAssumption DEF RepairsBounded
<1>2. Inv => LedgerIsTrue
  BY <1>1 DEF Inv, World, LedgerIsTrue
<1>3. QED
  BY <1>2, Invariance, PTL

\* A retained result is never replaced but by a failure of the environment.
THEOREM ResultCorrect == Spec => ResultIsFinal
<1> DEFINE Kept == ledger.status \in Terminal =>
                     ledger'.status \in {ledger.status, "BLOCKED_ENVIRONMENT"}
<1>1. Inv /\ [Next]_vars => [Kept]_vars
  <2> SUFFICES ASSUME Inv, Next, ledger.status \in Terminal, ledger' # ledger
               PROVE  ledger'.status \in {ledger.status, "BLOCKED_ENVIRONMENT"}
    BY DEF vars, disk
  <2>1. ledger' = mem /\ pc # "idle"
    BY DEF Next, Step, Call, CallRetained, Plan, PlanFailed, StageSave, Execute,
           Verify, Diff, QaFailed, Qa, Decide, CreatePr, ToReview, AlreadyInReview,
           ToReviewFailed, SaveReview, LastSave, SaveBlocked, SaveBlockedAgain,
           ToBlocked, ToBlockedFailed, SaveFault, Crash, Save, vars, disk
  <2>2. QED
    BY <2>1 DEF Inv, Statuses, Terminal
<1>2. QED
  BY Invariance, <1>1, PTL DEF Spec, ResultIsFinal
=============================================================================
