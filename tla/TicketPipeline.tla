--------------------------- MODULE TicketPipeline ---------------------------
(***************************************************************************)
(* TicketPipeline.run_existing of services/ticket_pipeline.py with the     *)
(* evidence cache of services/development_verifier.py: plan, execute,      *)
(* verify, QA, at most MaxFix repairs, then a Draft PR and the Plane write.*)
(* A second call continues from the ledger file, so every save and every   *)
(* external call is a step of its own.                                     *)
(*                                                                         *)
(* Abstracted: plan, findings and summaries.  A branch is the number of    *)
(* its commits; a QA verdict is about the head whose Diff it was given.    *)
(* The caller always names a Plane issue, as the controller does.          *)
(***************************************************************************)
EXTENDS Naturals

CONSTANTS
  MaxFix,      \* MAX_FIX_ATTEMPTS, 2 in the code
  MaxFaults,   \* bound: exceptions out of ledger writes
  MaxCrashes   \* bound: crashes of the controller process

ASSUME PipelineAssumption ==
  /\ MaxFix \in Nat
  /\ MaxFaults \in Nat
  /\ MaxCrashes \in Nat

VARIABLES
  ledger,    \* ticket-pipeline-state-v1.json
  bundle,    \* development-evidence-v1.json
  head,      \* commits on the Run's branch after the base
  prs,       \* Draft PRs that GitHub has for the branch
  plane,     \* state of the Plane issue
  writes,    \* writes[s]: times that Plane was moved to state s
  pc,        \* where the call of run_existing is
  mem,       \* the ledger that the call has in memory
  outer,     \* the call is in the outermost except clause
  passed,    \* history: heads whose Diff a valid QA PASS is about
  executes,  \* history: executor calls
  faults, crashes

disk    == <<ledger, bundle>>
world   == <<head, prs, plane, writes>>
locals  == <<pc, mem, outer>>
history == <<passed, executes>>
budget  == <<faults, crashes>>
vars    == <<disk, world, locals, history, budget>>

-----------------------------------------------------------------------------
Blocked  == {"BLOCKED_QA_EXHAUSTED", "BLOCKED_QA_BLOCKED", "BLOCKED_QA_INVALID",
             "BLOCKED_QA_TIMEOUT", "BLOCKED_QA_EVIDENCE",
             "BLOCKED_DETERMINISTIC_VERIFICATION", "BLOCKED_ENVIRONMENT"}
Terminal == Blocked \cup {"IN_REVIEW"}

\* What QA can return; UNEVIDENCED is any verdict that _qa_evidence_error
\* refuses.
Verdicts == {"PASS", "FAIL", "BLOCKED", "UNEVIDENCED"}

Ledger == [status   : {"RUNNING"} \cup Terminal,
           plan     : BOOLEAN,
           fix      : 0..MaxFix,
           attempt  : Nat,
           last     : Verdicts \cup {"NONE"},
           pr       : BOOLEAN,
           inReview : BOOLEAN,
           reported : BOOLEAN]   \* plane_blocked

NewLedger == [status |-> "RUNNING", plan |-> FALSE, fix |-> 0, attempt |-> 0,
              last |-> "NONE", pr |-> FALSE, inReview |-> FALSE,
              reported |-> FALSE]

\* No bundle, or one that verifies nothing, is about head 0.
NoBundle == [head |-> 0, verified |-> FALSE]

StagePcs == {"plan", "savePlan", "execute", "saveExecute", "verify", "diff",
             "qa", "saveVerdict", "decide", "saveFix"}
PrPcs    == {"createPr", "savePr"}
PlanePcs == {"toReview", "saveReview"}
BlockPcs == {"saveBlocked", "toBlocked", "saveReported", "saveUnreported"}
Pcs      == {"idle", "saveResult", "saveFailure"} \cup StagePcs \cup PrPcs
              \cup PlanePcs \cup BlockPcs

Goto(l) == pc' = l

\* _save_state
Save == ledger' = mem

\* run_existing returns, or an exception leaves it.
Return == /\ Goto("idle")
          /\ mem' = NewLedger
          /\ outer' = FALSE

\* _blocked: status and result; the save comes before Plane is told.
Block(s) == /\ mem' = [mem EXCEPT !.status = s]
            /\ Goto("saveBlocked")

\* The outermost except clause of run_existing.
Escape == Block("BLOCKED_ENVIRONMENT") /\ outer' = TRUE

-----------------------------------------------------------------------------
Init ==
  /\ ledger = NewLedger
  /\ bundle = NoBundle
  /\ head = 0
  /\ prs = 0
  /\ plane = "Ready"
  /\ writes = [s \in {"In Review", "Blocked"} |-> 0]
  /\ pc = "idle"
  /\ mem = NewLedger
  /\ outer = FALSE
  /\ passed = {}
  /\ executes = 0
  /\ faults = 0
  /\ crashes = 0

-----------------------------------------------------------------------------
(* Stages. *)

\* Slip: a retained result is run again.
CallAgain ==
  /\ pc = "idle"
  /\ mem' = ledger
  /\ Goto(IF ledger.plan THEN "execute" ELSE "plan")
  /\ UNCHANGED <<disk, world, outer, history, budget>>
Call ==
  /\ pc = "idle"
  /\ ledger.status \notin Terminal
  /\ mem' = ledger
  /\ Goto(IF ledger.plan THEN "execute" ELSE "plan")
  /\ UNCHANGED <<disk, world, outer, history, budget>>

\* A completed Run returns its retained result.
CallRetained ==
  /\ pc = "idle"
  /\ ledger.status \in Terminal
  /\ UNCHANGED vars

Plan ==
  /\ pc = "plan"
  /\ mem' = [mem EXCEPT !.plan = TRUE]
  /\ Goto("savePlan")
  /\ UNCHANGED <<disk, world, outer, history, budget>>

\* The planner raises.
PlanFailed ==
  /\ pc = "plan"
  /\ Escape
  /\ UNCHANGED <<disk, world, history, budget>>

\* A ledger write between two stages.
StageSave(from, to) ==
  /\ pc = from
  /\ Save
  /\ Goto(to)
  /\ UNCHANGED <<bundle, world, mem, outer, history, budget>>

\* The executor commits or not, and raises or not.
Execute ==
  /\ pc = "execute"
  /\ executes' = executes + 1
  /\ \E commits \in 0..1 : head' = head + commits
  /\ \/ Goto("saveExecute") /\ UNCHANGED <<mem, outer>>
     \/ Escape
  /\ UNCHANGED <<disk, prs, plane, writes, passed, budget>>

\* DevelopmentVerifier.verify: an existing bundle is returned, a new one
\* verifies the head of now, which must have a new commit.  The verifier can
\* raise, before the bundle is retained or after it.
Evidence == {NoBundle} \cup
            (IF head = 0 THEN {} ELSE {[head |-> head, verified |-> TRUE]})

\* Slip: verification that did not pass is only recorded.
VerifyIgnored ==
  /\ pc = "verify"
  /\ bundle' \in (IF bundle = NoBundle THEN Evidence ELSE {bundle})
  /\ Goto("diff")
  /\ UNCHANGED <<ledger, world, mem, outer, history, budget>>
Verify ==
  /\ pc = "verify"
  /\ bundle' \in (IF bundle = NoBundle THEN Evidence ELSE {bundle})
  /\ \/ /\ bundle'.verified
        /\ Goto("diff")
        /\ UNCHANGED <<mem, outer>>
     \/ /\ ~bundle'.verified
        /\ Block("BLOCKED_DETERMINISTIC_VERIFICATION")
        /\ UNCHANGED outer
     \/ Escape
  /\ UNCHANGED <<ledger, world, history, budget>>

\* The Diff is base..head of the bundle, not of the branch.
Diff ==
  /\ pc = "diff"
  /\ \/ Goto("qa") /\ UNCHANGED mem
     \/ Block("BLOCKED_QA_EVIDENCE")
  /\ UNCHANGED <<disk, world, outer, history, budget>>

QaFailed ==
  /\ pc = "qa"
  /\ \E s \in {"BLOCKED_QA_TIMEOUT", "BLOCKED_QA_BLOCKED", "BLOCKED_QA_INVALID"} :
       Block(s)
  /\ UNCHANGED <<disk, world, outer, history, budget>>

Qa ==
  /\ pc = "qa"
  /\ \E v \in Verdicts :
       /\ mem' = [mem EXCEPT !.attempt = @ + 1, !.last = v]
       /\ passed' = passed \cup (IF v = "PASS" THEN {bundle.head} ELSE {})
  /\ Goto("saveVerdict")
  /\ UNCHANGED <<disk, world, outer, executes, budget>>

Exhausted(n) == n >= MaxFix

Decide ==
  /\ pc = "decide"
  /\ \/ /\ mem.last = "UNEVIDENCED"
        /\ Block("BLOCKED_QA_EVIDENCE")
     \/ /\ mem.last = "BLOCKED"
        /\ Block("BLOCKED_QA_BLOCKED")
     \/ /\ mem.last = "PASS"
        /\ Goto(IF mem.pr THEN "toReview" ELSE "createPr")
        /\ UNCHANGED mem
     \/ /\ mem.last = "FAIL"
        /\ Exhausted(mem.fix)
        /\ Block("BLOCKED_QA_EXHAUSTED")
     \/ /\ mem.last = "FAIL"
        /\ ~Exhausted(mem.fix)
        /\ mem' = [mem EXCEPT !.fix = @ + 1]
        /\ Goto("saveFix")
  /\ UNCHANGED <<disk, world, outer, history, budget>>

-----------------------------------------------------------------------------
(* _publish. *)

\* GitHub makes the PR and answers, makes it and the answer is lost, or makes
\* none; it refuses a second PR for the same branch.
CreatePr ==
  /\ pc = "createPr"
  /\ \/ /\ prs = 0
        /\ prs' = 1
        /\ mem' = [mem EXCEPT !.pr = TRUE]
        /\ Goto("savePr")
     \/ /\ prs' \in {1, prs}
        /\ Block("BLOCKED_ENVIRONMENT")
  /\ UNCHANGED <<disk, head, plane, writes, outer, history, budget>>

\* plane_update: Plane moves the issue; the answer may be lost.
PlaneMoved(s) == /\ plane' = s
                 /\ writes' = [writes EXCEPT ![s] = @ + 1]

ToReview ==
  /\ pc = "toReview"
  /\ ~mem.inReview
  /\ PlaneMoved("In Review")
  /\ mem' = [mem EXCEPT !.inReview = TRUE]
  /\ Goto("saveReview")
  /\ UNCHANGED <<disk, head, prs, outer, history, budget>>

\* The issue was moved by an earlier call: nothing is written twice.
AlreadyInReview ==
  /\ pc = "toReview"
  /\ mem.inReview
  /\ mem' = [mem EXCEPT !.status = "IN_REVIEW"]
  /\ Goto("saveResult")
  /\ UNCHANGED <<disk, world, outer, history, budget>>

\* _environment_failure: retained locally, Plane is not written again.
ToReviewFailed ==
  /\ pc = "toReview"
  /\ ~mem.inReview
  /\ PlaneMoved("In Review") \/ UNCHANGED <<plane, writes>>
  /\ mem' = [mem EXCEPT !.status = "BLOCKED_ENVIRONMENT"]
  /\ Goto("saveFailure")
  /\ UNCHANGED <<disk, head, prs, outer, history, budget>>

SaveReview ==
  /\ pc = "saveReview"
  /\ Save
  /\ mem' = [mem EXCEPT !.status = "IN_REVIEW"]
  /\ Goto("saveResult")
  /\ UNCHANGED <<bundle, world, outer, history, budget>>

\* The last save of a call that succeeded, or whose Plane write failed.
LastSave(from) ==
  /\ pc = from
  /\ Save
  /\ Return
  /\ UNCHANGED <<bundle, world, history, budget>>

-----------------------------------------------------------------------------
(* _blocked. *)

\* Slip: Plane is told first, the ledger is written afterwards.
PlaneFirst ==
  /\ pc = "saveBlocked"
  /\ Goto("toBlocked")
  /\ UNCHANGED <<disk, world, mem, outer, history, budget>>
SaveBlocked ==
  /\ pc = "saveBlocked"
  /\ ~mem.reported
  /\ Save
  /\ Goto("toBlocked")
  /\ UNCHANGED <<bundle, world, mem, outer, history, budget>>

SaveBlockedAgain == mem.reported /\ LastSave("saveBlocked")

ToBlocked ==
  /\ pc = "toBlocked"
  /\ PlaneMoved("Blocked")
  /\ mem' = [mem EXCEPT !.reported = TRUE]
  /\ Goto("saveReported")
  /\ UNCHANGED <<disk, head, prs, outer, history, budget>>

\* Slip: the Plane write is tried until it works.
ToBlockedRetried ==
  /\ pc = "toBlocked"
  /\ Goto("saveBlocked")
  /\ UNCHANGED <<disk, world, mem, outer, history, budget>>
ToBlockedFailed ==
  /\ pc = "toBlocked"
  /\ PlaneMoved("Blocked") \/ UNCHANGED <<plane, writes>>
  /\ mem' = [mem EXCEPT !.status = "BLOCKED_ENVIRONMENT"]
  /\ Goto("saveUnreported")
  /\ UNCHANGED <<disk, head, prs, outer, history, budget>>

-----------------------------------------------------------------------------
(* What can go wrong around the code. *)

SavePcs == {"savePlan", "saveExecute", "saveVerdict", "saveFix", "savePr",
            "saveReview", "saveResult", "saveFailure", "saveBlocked",
            "saveReported", "saveUnreported"}

\* A ledger write raises: each try block has its own way out, and what is
\* raised in the outermost except clause leaves run_existing.
SaveFault ==
  /\ pc \in SavePcs
  /\ faults < MaxFaults
  /\ faults' = faults + 1
  /\ \/ /\ pc = "savePr"
        /\ Block("BLOCKED_ENVIRONMENT")
        /\ UNCHANGED outer
     \/ /\ pc = "saveReview"
        /\ mem' = [mem EXCEPT !.status = "BLOCKED_ENVIRONMENT"]
        /\ Goto("saveFailure")
        /\ UNCHANGED outer
     \/ /\ pc = "saveReported"
        /\ mem' = [mem EXCEPT !.status = "BLOCKED_ENVIRONMENT"]
        /\ Goto("saveUnreported")
        /\ UNCHANGED outer
     \/ /\ pc \notin {"savePr", "saveReview", "saveReported"}
        /\ ~outer
        /\ Escape
     \/ /\ pc \in {"saveBlocked", "saveUnreported"}
        /\ outer
        /\ Return
  /\ UNCHANGED <<disk, world, history, crashes>>

\* The controller process ends; the files and the world stay.
Crash ==
  /\ pc # "idle"
  /\ crashes < MaxCrashes
  /\ crashes' = crashes + 1
  /\ Return
  /\ UNCHANGED <<disk, world, history, faults>>

-----------------------------------------------------------------------------
Step ==
  \/ Plan \/ PlanFailed
  \/ StageSave("savePlan", "execute")
  \/ Execute
  \/ StageSave("saveExecute", "verify")
  \/ Verify \/ Diff \/ QaFailed \/ Qa
  \/ StageSave("saveVerdict", "decide")
  \/ Decide
  \/ StageSave("saveFix", "execute")
  \/ CreatePr
  \/ StageSave("savePr", "toReview")
  \/ ToReview \/ AlreadyInReview \/ ToReviewFailed \/ SaveReview
  \/ LastSave("saveResult") \/ LastSave("saveFailure")
  \/ SaveBlocked \/ SaveBlockedAgain
  \/ ToBlocked \/ ToBlockedFailed
  \/ LastSave("saveReported") \/ LastSave("saveUnreported")

Next == Call \/ CallRetained \/ Step \/ SaveFault \/ Crash

Spec == Init /\ [][Next]_vars

\* Every injected stage returns or raises: the agents run under a timeout.
FairSpec == Spec /\ WF_vars(Step)

-----------------------------------------------------------------------------
(* Properties. *)

\* The ledger, in the file and in memory, holds what the code can write.
TypeOK ==
  /\ ledger \in Ledger /\ mem \in Ledger
  /\ bundle \in [head : Nat, verified : BOOLEAN]
  /\ head \in Nat /\ prs \in 0..1
  /\ plane \in {"Ready", "In Review", "Blocked"}
  /\ writes \in [{"In Review", "Blocked"} -> Nat]
  /\ pc \in Pcs /\ outer \in BOOLEAN
  /\ passed \subseteq Nat /\ executes \in Nat
  /\ faults \in 0..MaxFaults /\ crashes \in 0..MaxCrashes

\* No PR, and no move to In Review, without a QA PASS on verified evidence,
\* whatever a crash or a repeated call did in between.
PublishNeedsPass ==
  prs > 0 \/ writes["In Review"] > 0 => bundle.verified /\ passed # {}

\* IN_REVIEW in the ledger is true of the world: there is a PR, Plane shows the
\* issue in review, and the verdict that the ledger retains is a PASS.
ReviewIsReal ==
  ledger.status = "IN_REVIEW" =>
    prs = 1 /\ plane = "In Review" /\ ledger.last = "PASS"

\* Plane is told Blocked only after the ledger says so: after a crash the next
\* call returns the block instead of developing an issue that waits for a human.
BlockIsRetained == plane = "Blocked" => ledger.status \in Blocked

\* Each FAIL buys one repair and MaxFix is the end of it; a crash or a call
\* that an exception left can cost one more executor call each, no more.
RepairsBounded == executes <= 1 + MaxFix + crashes + faults

\* The ledger says nothing that the world, the budget or its schema denies.
LedgerIsTrue == TypeOK /\ ReviewIsReal /\ BlockIsRetained /\ RepairsBounded

\* A retained result is replaced only by a failure of the environment.
ResultIsFinal ==
  [][ledger.status \in Terminal =>
       ledger'.status \in {ledger.status, "BLOCKED_ENVIRONMENT"}]_vars

\* A call of run_existing ends: the repair loop is bounded and no failure of
\* Plane, GitHub or the disk keeps it going.
CallReturns == pc # "idle" ~> pc = "idle"

-----------------------------------------------------------------------------
(* What the documents say and the code does not do. *)

\* "A later repair attempt must have a new Run attempt/artifact": the branch
\* that the PR shows is one whose Diff QA read.
PrIsReviewed == pc = "savePr" => head \in passed

=============================================================================
