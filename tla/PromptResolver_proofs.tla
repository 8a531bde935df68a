----------------------- MODULE PromptResolver_proofs -----------------------
(***************************************************************************)
(* Proofs about PromptResolver, for any number of requests and issues, and *)
(* any number of planner attempts, exceptions, restarts, reused process    *)
(* ids and files that the user writes.                                     *)
(***************************************************************************)
EXTENDS PromptResolver, TLAPS

-----------------------------------------------------------------------------
(* Types. *)

Records == [status : {"NONE", "PREPARING", "READY", "HARD_BREAK_PLANNER"},
            owner : 0..(MaxCrashes + 1), torn : BOOLEAN]
Locals  == [todo : SUBSET Requests, at : {"none"} \cup Requests, existing : SUBSET Roles,
            attempts : 0..MaxAttempts, linked : SUBSET Roles, ok : BOOLEAN]

\* The planner is asked only while attempts are left.
AttemptsLeft ==
  \A q \in Requests :
    /\ pc[q] = "plan" => mem[q].attempts < MaxAttempts
    /\ pc[q] \in {"new", "scan", "finalise", "paths", "claim", "claimWrite"} => mem[q].attempts = 0

Types == TypeOK /\ AttemptsLeft

LEMMA FirstIsOne ==
  ASSUME NEW R \in SUBSET Roles, R # {}
  PROVE  First(R) \in R /\ First(R) \in Roles
BY DEF First, Roles

LEMMA NoLocalsType == NoLocals \in Locals /\ NoLocals.attempts = 0
BY ResolverAssumption DEF NoLocals, Locals, Roles

LEMMA LocalsWith ==
  ASSUME NEW w \in Locals
  PROVE  /\ \A S \in SUBSET Requests : [w EXCEPT !.todo = S] \in Locals
         /\ \A o \in {"none"} \cup Requests : [w EXCEPT !.at = o] \in Locals
         /\ \A S \in SUBSET Roles : [w EXCEPT !.existing = S] \in Locals
         /\ \A S \in SUBSET Roles : [w EXCEPT !.linked = S] \in Locals
         /\ \A n \in 0..MaxAttempts : [w EXCEPT !.attempts = n] \in Locals
         /\ \A b \in BOOLEAN : [w EXCEPT !.ok = b] \in Locals
BY DEF Locals

LEMMA MemWith ==
  ASSUME mem \in [Requests -> Locals], NEW q \in Requests, NEW w \in Locals,
         mem' = [mem EXCEPT ![q] = w]
  PROVE  mem' \in [Requests -> Locals]
OBVIOUS

LEMMA TypesInit == Init => Types
<1> SUFFICES ASSUME Init PROVE Types
  OBVIOUS
<1>1. TypeOK
  <2>1. NoRecord \in Records /\ 0 \in 0..MaxFaults /\ 1 \in 1..(MaxCrashes + 1)
    BY ResolverAssumption DEF NoRecord, Records
  <2>2. QED
    BY <2>1, NoLocalsType DEF Init, TypeOK, Records, Locals, Pcs
<1>2. AttemptsLeft
  BY NoLocalsType DEF Init, AttemptsLeft
<1>3. QED
  BY <1>1, <1>2 DEF Types

\* A step of q is nobody else's.
LEMMA OthersStay ==
  ASSUME Types, NEW q \in Requests, Step(q) \/ Fault(q)
  PROVE  \A p \in Requests \ {q} : pc'[p] = pc[p] /\ mem'[p] = mem[p]
<1>1. pc \in [Requests -> Pcs] /\ mem \in [Requests -> Locals]
  BY DEF Types, TypeOK, Locals
<1>2. (\E x : pc' = [pc EXCEPT ![q] = x]) \/ pc' = pc
  <2> USE DEF Goto, End, Fail, Move, FailStep, TruncateStep, WriteStep
  <2>1. CASE \/ RefusedForRun(q) \/ ListRecords(q) \/ FinaliseOrphan(q) \/ NoneActive(q)
             \/ FindExisting(q) \/ Claim(q) \/ ClaimWrite(q) \/ Planned(q) \/ PlannerFailed(q)
             \/ PlanSave(q) \/ PlanWrite(q) \/ Validate(q)
    BY <2>1 DEF RefusedForRun, ListRecords, FinaliseOrphan, NoneActive, FindExisting, Claim,
                ClaimWrite, Planned, PlannerFailed, PlanSave, PlanWrite, Validate
  <2>2. CASE \E o \in Requests : ReadFinished(q, o) \/ ReadPreparing(q, o) \/ ReadOrphan(q, o)
    BY <2>2 DEF ReadFinished, ReadPreparing, ReadOrphan
  <2>3. CASE \/ CopyPrompt(q) \/ CopyFailed(q) \/ Copied(q) \/ Link(q) \/ LinkRefused(q)
             \/ Linked(q) \/ Rollback(q) \/ Finish(q) \/ FinishWrite(q) \/ Fault(q)
    BY <2>3 DEF CopyPrompt, CopyFailed, Copied, Link, LinkRefused, Linked, Rollback, Finish,
                FinishWrite, Fault
  <2>4. QED
    BY <2>1, <2>2, <2>3 DEF Step
<1>3. mem' = mem \/ \A p \in Requests \ {q} : mem'[p] = mem[p]
  <2> USE DEF Goto, End, Fail, Move, FailStep, TruncateStep, WriteStep
  <2>1. CASE \/ RefusedForRun(q) \/ ListRecords(q) \/ NoneActive(q)
             \/ FindExisting(q) \/ Claim(q) \/ ClaimWrite(q) \/ Planned(q) \/ PlannerFailed(q)
             \/ PlanSave(q) \/ PlanWrite(q) \/ Validate(q)
    BY <1>1, <2>1 DEF RefusedForRun, ListRecords, NoneActive, FindExisting, Claim,
                ClaimWrite, Planned, PlannerFailed, PlanSave, PlanWrite, Validate
  <2>2. CASE FinaliseOrphan(q)
    BY <1>1, <2>2 DEF FinaliseOrphan
  <2>3. CASE \E o \in Requests : ReadFinished(q, o) \/ ReadPreparing(q, o) \/ ReadOrphan(q, o)
    BY <1>1, <2>3 DEF ReadFinished, ReadPreparing, ReadOrphan
  <2>4. CASE \/ CopyPrompt(q) \/ CopyFailed(q) \/ Copied(q) \/ Link(q) \/ LinkRefused(q)
             \/ Linked(q) \/ Rollback(q) \/ Finish(q) \/ FinishWrite(q) \/ Fault(q)
    BY <1>1, <2>4
    DEF CopyPrompt, CopyFailed, Copied, Link, LinkRefused, Linked, Rollback, Finish,
                FinishWrite, Fault
  <2>5. QED
    BY <2>1, <2>2, <2>3, <2>4 DEF Step
<1>4. QED
  BY <1>1, <1>2, <1>3

LEMMA AttemptsStep ==
  ASSUME Types, NEW q \in Requests, Step(q) \/ Fault(q)
  PROVE  AttemptsLeft'
<1> DEFINE Early == {"new", "scan", "finalise", "paths", "claim", "claimWrite"}
<1>1. /\ pc \in [Requests -> Pcs] /\ mem \in [Requests -> Locals]
      /\ mem[q].attempts \in 0..MaxAttempts /\ MaxAttempts \in Nat /\ 0 < MaxAttempts
      /\ pc[q] = "plan" => mem[q].attempts < MaxAttempts
      /\ pc[q] \in Early => mem[q].attempts = 0
  BY ResolverAssumption DEF Types, TypeOK, Locals, AttemptsLeft
<1>2. SUFFICES /\ pc'[q] = "plan" => mem'[q].attempts < MaxAttempts
               /\ pc'[q] \in Early => mem'[q].attempts = 0
  BY OthersStay DEF Types, AttemptsLeft
<1>3. \/ pc'[q] \notin Early \cup {"plan"}
      \/ /\ mem'[q].attempts = mem[q].attempts
         /\ pc'[q] \in Early => pc[q] \in Early
         /\ pc'[q] = "plan" => \/ pc[q] \in Early
                               \/ mem[q].attempts < MaxAttempts
  <2> USE DEF Goto, End, Fail, Move, FailStep, TruncateStep, WriteStep
  <2>1. CASE \/ RefusedForRun(q) \/ Planned(q) \/ PlannerFailed(q) \/ PlanSave(q) \/ PlanWrite(q)
    BY <1>1, <2>1 DEF RefusedForRun, Planned, PlannerFailed, PlanSave, PlanWrite
  <2>2. CASE \/ ListRecords(q) \/ FindExisting(q)
    BY <1>1, <2>2 DEF ListRecords, FindExisting, Locals
  <2>3. CASE NoneActive(q) \/ Claim(q) \/ ClaimWrite(q) \/ Validate(q)
    BY <1>1, <2>3 DEF NoneActive, Claim, ClaimWrite, Validate
  <2>4. CASE FinaliseOrphan(q)
    BY <1>1, <2>4 DEF FinaliseOrphan, Locals
  <2>5. CASE \E o \in Requests : ReadFinished(q, o) \/ ReadPreparing(q, o) \/ ReadOrphan(q, o)
    BY <1>1, <2>5 DEF ReadFinished, ReadPreparing, ReadOrphan, Locals
  <2>6. CASE \/ CopyPrompt(q) \/ CopyFailed(q) \/ Copied(q) \/ Link(q) \/ LinkRefused(q)
             \/ Linked(q) \/ Rollback(q) \/ Finish(q) \/ FinishWrite(q) \/ Fault(q)
    BY <1>1, <2>6
    DEF CopyPrompt, CopyFailed, Copied, Link, LinkRefused, Linked, Rollback, Finish,
                FinishWrite, Fault
  <2>7. QED
    BY <2>1, <2>2, <2>3, <2>4, <2>5, <2>6 DEF Step
<1>4. QED
  BY <1>1, <1>3

\* The program changes edited only where it removes a file of its own.
LEMMA EditedStep ==
  ASSUME NEW q \in Requests, Step(q) \/ Fault(q)
  PROVE  \/ edited' = edited
         \/ /\ Rollback(q)
            /\ mem[q].linked # {}
            /\ edited' = edited \ {<<issueOf[q], First(mem[q].linked)>>}
<1> USE DEF Move, FailStep, TruncateStep, WriteStep, disk
<1>1. CASE \/ RefusedForRun(q) \/ ListRecords(q) \/ FinaliseOrphan(q) \/ NoneActive(q)
           \/ FindExisting(q) \/ Claim(q) \/ ClaimWrite(q) \/ Planned(q) \/ PlannerFailed(q)
           \/ PlanSave(q) \/ PlanWrite(q) \/ Validate(q)
           \/ \E o \in Requests : ReadFinished(q, o) \/ ReadPreparing(q, o) \/ ReadOrphan(q, o)
  BY <1>1 DEF RefusedForRun, ListRecords, FinaliseOrphan, NoneActive, FindExisting, Claim,
              ClaimWrite, Planned, PlannerFailed, PlanSave, PlanWrite, Validate,
              ReadFinished, ReadPreparing, ReadOrphan
<1>2. CASE \/ CopyPrompt(q) \/ CopyFailed(q) \/ Copied(q) \/ Link(q) \/ LinkRefused(q)
           \/ Linked(q) \/ Finish(q) \/ FinishWrite(q) \/ Fault(q)
  BY <1>2 DEF CopyPrompt, CopyFailed, Copied, Link, LinkRefused, Linked, Finish,
              FinishWrite, Fault
<1>3. CASE Rollback(q)
  BY <1>3 DEF Rollback
<1>4. QED
  BY <1>1, <1>2, <1>3 DEF Step

\* At "rollback", the step that changes tasks/ is Rollback.
LEMMA OnlyRollbackRemoves ==
  ASSUME NEW q \in Requests, Step(q) \/ Fault(q), pc[q] = "rollback",
         canonical' # canonical
  PROVE  Rollback(q) /\ mem[q].linked # {}
<1>1. ~ Fault(q)
  BY DEF Fault, disk
<1>2. ~ \/ RefusedForRun(q) \/ ListRecords(q) \/ FinaliseOrphan(q) \/ NoneActive(q)
        \/ FindExisting(q) \/ Claim(q) \/ ClaimWrite(q) \/ Planned(q) \/ PlannerFailed(q)
        \/ PlanSave(q) \/ PlanWrite(q) \/ Validate(q)
        \/ \E o \in Requests : ReadFinished(q, o) \/ ReadPreparing(q, o) \/ ReadOrphan(q, o)
  BY DEF RefusedForRun, ListRecords, FinaliseOrphan, NoneActive, FindExisting, Claim,
         ClaimWrite, Planned, PlannerFailed, PlanSave, PlanWrite, Validate, ReadFinished,
         ReadPreparing, ReadOrphan, Move, FailStep, TruncateStep, WriteStep
<1>3. ~ \/ CopyPrompt(q) \/ CopyFailed(q) \/ Copied(q) \/ Link(q) \/ LinkRefused(q)
        \/ Linked(q) \/ Finish(q) \/ FinishWrite(q)
  BY DEF CopyPrompt, CopyFailed, Copied, Link, LinkRefused, Linked, Finish, FinishWrite,
         Move, FailStep, TruncateStep
<1>4. QED
  BY <1>1, <1>2, <1>3 DEF Step, Rollback

\* What a step of q can write, as far as the types go.
LEMMA TypesStep ==
  ASSUME Types, NEW q \in Requests, Step(q) \/ Fault(q)
  PROVE  Types'
<1>1. /\ meta \in [Requests -> Records] /\ mem \in [Requests -> Locals]
      /\ pc \in [Requests -> Pcs] /\ pid \in 1..(MaxCrashes + 1)
      /\ artifact \in [Requests -> [Roles -> {"none", "user"} \cup Requests]]
      /\ canonical \in [Issues -> [Roles -> {"none", "user"} \cup Requests]]
      /\ issueOf \in [Requests -> Issues] /\ materialize \in [Requests -> BOOLEAN]
      /\ faults \in 0..MaxFaults /\ reused \subseteq 1..MaxCrashes
  BY DEF Types, TypeOK, Records, Locals
<1>0. SUFFICES TypeOK'
  BY AttemptsStep DEF Types
<1> edited' \subseteq Issues \X Roles
  BY EditedStep DEF Types, TypeOK
<1>2. ASSUME NEW o \in Requests, Truncate(o) PROVE meta' \in [Requests -> Records]
  BY <1>1, <1>2 DEF Truncate, Records
<1>3. ASSUME NEW o, NEW s \in {"PREPARING", "READY", "HARD_BREAK_PLANNER"}, WriteMeta(o, s)
      PROVE  meta' \in [Requests -> Records]
  BY <1>1, <1>3 DEF WriteMeta, Records
<1>4. ASSUME NEW l \in Pcs, Goto(q, l) PROVE pc' \in [Requests -> Pcs]
  BY <1>1, <1>4 DEF Goto
<1>5. ASSUME Fail(q) PROVE pc' \in [Requests -> Pcs] /\ mem' \in [Requests -> Locals]
  BY <1>1, <1>4, <1>5 DEF Fail, Pcs, ClaimedPcs, Locals
<1>6. ASSUME NEW l \in Pcs, End(q, l)
      PROVE  pc' \in [Requests -> Pcs] /\ mem' \in [Requests -> Locals]
  BY <1>1, <1>4, <1>6, NoLocalsType DEF End
<1>7. ASSUME NEW from, NEW to \in Pcs, NEW s \in {"PREPARING", "READY", "HARD_BREAK_PLANNER"},
             \/ Move(q, from, to) \/ FailStep(q, from) \/ TruncateStep(q, from, to)
             \/ WriteStep(q, from, to, s)
      PROVE  TypeOK'
  <2>1. /\ meta' \in [Requests -> Records] /\ pc' \in [Requests -> Pcs]
        /\ mem' \in [Requests -> Locals]
        /\ UNCHANGED <<artifact, canonical, system, params, faults>>
    <3>1. CASE Move(q, from, to)
      BY <1>1, <1>4, <3>1 DEF Move, disk
    <3>2. CASE FailStep(q, from)
      BY <1>1, <1>5, <3>2 DEF FailStep, disk
    <3>3. CASE TruncateStep(q, from, to)
      BY <1>1, <1>2, <1>4, <3>3 DEF TruncateStep
    <3>4. CASE WriteStep(q, from, to, s)
      BY <1>1, <1>3, <1>4, <3>4 DEF WriteStep
    <3>5. QED
      BY <1>7, <3>1, <3>2, <3>3, <3>4
  <2>2. QED
    BY <1>1, <2>1 DEF TypeOK, Records, Locals, system, params
<1>8. CASE \/ NoneActive(q) \/ ClaimWrite(q) \/ PlannerFailed(q) \/ PlanSave(q) \/ PlanWrite(q)
           \/ Validate(q) \/ CopyFailed(q) \/ Copied(q) \/ LinkRefused(q) \/ Linked(q)
           \/ Finish(q)
  <2>1. /\ "paths" \in Pcs /\ "copy" \in Pcs /\ "plan" \in Pcs /\ "planWrite" \in Pcs
        /\ "validate" \in Pcs /\ "link" \in Pcs /\ "finish" \in Pcs /\ "rollback" \in Pcs
        /\ "finishWrite" \in Pcs
    BY DEF Pcs, ClaimedPcs
  <2>2. PICK from, to \in Pcs, s \in {"PREPARING", "READY", "HARD_BREAK_PLANNER"} :
          \/ Move(q, from, to) \/ FailStep(q, from) \/ TruncateStep(q, from, to)
          \/ WriteStep(q, from, to, s)
    <3>1. CASE NoneActive(q) \/ Validate(q) \/ Copied(q) \/ LinkRefused(q) \/ Linked(q)
      <4>1. \E from, to \in Pcs : Move(q, from, to) \/ FailStep(q, from)
        BY <2>1, <3>1 DEF NoneActive, Validate, Copied, LinkRefused, Linked, Pcs
      <4>2. QED
        BY <4>1
    <3>2. CASE PlannerFailed(q) \/ CopyFailed(q)
      <4>1. FailStep(q, "plan") \/ FailStep(q, "copy")
        BY <3>2 DEF PlannerFailed, CopyFailed
      <4>2. QED
        BY <2>1, <4>1
    <3>3. CASE PlanSave(q) \/ Finish(q)
      <4>1. \E from, to \in Pcs : TruncateStep(q, from, to)
        BY <2>1, <3>3 DEF PlanSave, Finish, Pcs, ClaimedPcs
      <4>2. QED
        BY <4>1
    <3>4. CASE ClaimWrite(q) \/ PlanWrite(q)
      <4>1. \E from, to \in Pcs : WriteStep(q, from, to, "PREPARING")
        BY <2>1, <3>4 DEF ClaimWrite, PlanWrite, Pcs, ClaimedPcs
      <4>2. QED
        BY <4>1
    <3>5. QED
      BY <1>8, <3>1, <3>2, <3>3, <3>4
  <2>3. QED
    BY <1>7, <2>2
<1>9. ASSUME mem' \in [Requests -> Locals], pc' \in [Requests -> Pcs],
             meta' \in [Requests -> Records], faults' \in 0..MaxFaults,
             artifact' \in [Requests -> [Roles -> {"none", "user"} \cup Requests]],
             canonical' \in [Issues -> [Roles -> {"none", "user"} \cup Requests]],
             UNCHANGED <<pid, reused, issueOf, materialize>>
      PROVE  TypeOK'
  BY <1>1, <1>9 DEF TypeOK, Records, Locals
<1>10. \A l \in {"new", "scan", "finalise", "paths", "claim", "done", "dead", "claimWrite",
                 "planSave", "finish", "rollback"} : l \in Pcs
  BY DEF Pcs, ClaimedPcs
<1> USE DEF disk, system, params
<1>11. CASE RefusedForRun(q) \/ \E o \in Requests : ReadPreparing(q, o)
  <2>1. End(q, "done") /\ UNCHANGED <<disk, system, params, faults>>
    BY <1>11 DEF RefusedForRun, ReadPreparing
  <2>2. pc' \in [Requests -> Pcs] /\ mem' \in [Requests -> Locals]
    BY <1>6, <1>10, <2>1
  <2>3. QED
    BY <1>1, <1>9, <2>1, <2>2
<1>12. CASE FinishWrite(q)
  <2>1. /\ End(q, "done") /\ UNCHANGED <<artifact, canonical, system, params, faults>>
        /\ WriteMeta(q, "READY") \/ WriteMeta(q, "HARD_BREAK_PLANNER")
    BY <1>12 DEF FinishWrite
  <2>2. pc' \in [Requests -> Pcs] /\ mem' \in [Requests -> Locals]
    BY <1>6, <1>10, <2>1
  <2>3. meta' \in [Requests -> Records]
    BY <1>3, <2>1
  <2>4. QED
    BY <1>1, <1>9, <2>1, <2>2, <2>3
<1>13. CASE ListRecords(q)
  <2> DEFINE S == {o \in Requests : meta[o].status # "NONE"}
  <2>1. [mem[q] EXCEPT !.todo = S] \in Locals
    BY <1>1, LocalsWith
  <2>2. mem' = [mem EXCEPT ![q] = [mem[q] EXCEPT !.todo = S]]
    BY <1>13 DEF ListRecords
  <2>3. mem' \in [Requests -> Locals]
    BY <1>1, <2>1, <2>2, MemWith
  <2>4. Goto(q, "scan") /\ UNCHANGED <<disk, system, params, faults>>
    BY <1>13 DEF ListRecords
  <2>5. pc' \in [Requests -> Pcs]
    BY <1>4, <1>10, <2>4
  <2>6. QED
    BY <1>1, <1>9, <2>3, <2>4, <2>5
<1>14. CASE \E o \in Requests : ReadFinished(q, o) \/ ReadOrphan(q, o)
  <2>1. PICK o \in Requests : ReadFinished(q, o) \/ ReadOrphan(q, o)
    BY <1>14
  <2>2. CASE ReadFinished(q, o)
    <3> DEFINE w == [mem[q] EXCEPT !.todo = mem[q].todo \ {o}]
    <3>1. mem[q].todo \ {o} \in SUBSET Requests
      BY <1>1 DEF Locals
    <3>2. w \in Locals
      BY <1>1, <3>1, LocalsWith
    <3>3. mem' = [mem EXCEPT ![q] = w]
      BY <1>1, <2>2 DEF ReadFinished
    <3>4. mem' \in [Requests -> Locals]
      BY <1>1, <3>2, <3>3, MemWith
    <3>5. QED
      BY <1>1, <1>9, <2>2, <3>4 DEF ReadFinished
  <2>3. CASE ReadOrphan(q, o)
    <3>1. [mem[q] EXCEPT !.at = o] \in Locals
      BY <1>1, LocalsWith
    <3>2. mem' = [mem EXCEPT ![q] = [mem[q] EXCEPT !.at = o]]
      BY <2>3 DEF ReadOrphan
    <3>3. mem' \in [Requests -> Locals]
      BY <1>1, <3>1, <3>2, MemWith
    <3>4. /\ Truncate(o) /\ Goto(q, "finalise")
          /\ UNCHANGED <<artifact, canonical, system, params, faults>>
      BY <2>3 DEF ReadOrphan
    <3>5. meta' \in [Requests -> Records] /\ pc' \in [Requests -> Pcs]
      BY <1>2, <1>4, <1>10, <3>4
    <3>6. QED
      BY <1>1, <1>9, <3>3, <3>4, <3>5
  <2>4. QED
    BY <2>1, <2>2, <2>3
<1>15. CASE FinaliseOrphan(q)
  <2> DEFINE u == [mem[q] EXCEPT !.todo = mem[q].todo \ {mem[q].at}]
  <2>1. mem[q].todo \ {mem[q].at} \in SUBSET Requests
    BY <1>1 DEF Locals
  <2>2. u \in Locals
    BY <1>1, <2>1, LocalsWith
  <2>3. [u EXCEPT !.at = "none"] \in Locals
    <3> HIDE DEF u
    <3>1. QED
      BY <2>2, LocalsWith
  <2>4. mem' = [mem EXCEPT ![q] = [u EXCEPT !.at = "none"]]
    BY <1>1, <1>15 DEF FinaliseOrphan
  <2>5. mem' \in [Requests -> Locals]
    BY <1>1, <2>3, <2>4, MemWith
  <2>6. /\ WriteMeta(mem[q].at, "HARD_BREAK_PLANNER") /\ Goto(q, "scan")
        /\ UNCHANGED <<artifact, canonical, system, params, faults>>
    BY <1>15 DEF FinaliseOrphan
  <2>7. meta' \in [Requests -> Records] /\ pc' \in [Requests -> Pcs]
    BY <1>3, <1>4, <1>10, <2>6
  <2>8. QED
    BY <1>1, <1>9, <2>5, <2>6, <2>7
<1>16. CASE FindExisting(q)
  <2> DEFINE S == {r \in Roles : canonical[issueOf[q]][r] # "none"}
  <2>1. [mem[q] EXCEPT !.existing = S] \in Locals
    BY <1>1, LocalsWith
  <2>2. mem' = [mem EXCEPT ![q] = [mem[q] EXCEPT !.existing = S]]
    BY <1>16 DEF FindExisting
  <2>3. mem' \in [Requests -> Locals]
    BY <1>1, <2>1, <2>2, MemWith
  <2>4. Goto(q, "claim") /\ UNCHANGED <<disk, system, params, faults>>
    BY <1>16 DEF FindExisting
  <2>5. pc' \in [Requests -> Pcs]
    BY <1>4, <1>10, <2>4
  <2>6. QED
    BY <1>1, <1>9, <2>3, <2>4, <2>5
<1>17. CASE Claim(q)
  <2>1. meta' \in [Requests -> Records]
    BY <1>1, <1>17, ResolverAssumption DEF Claim, Records
  <2>2. Goto(q, "claimWrite") /\ UNCHANGED <<artifact, canonical, system, mem, params, faults>>
    BY <1>17 DEF Claim
  <2>3. pc' \in [Requests -> Pcs]
    BY <1>4, <1>10, <2>2
  <2>4. QED
    BY <1>1, <1>9, <2>1, <2>2, <2>3
<1>18. CASE Planned(q)
  <2>1. mem[q] \in Locals /\ mem[q].attempts + 1 \in 0..MaxAttempts
    BY <1>1, <1>18, ResolverAssumption DEF Planned, Types, AttemptsLeft, Locals
  <2>2. [mem[q] EXCEPT !.attempts = mem[q].attempts + 1] \in Locals
    BY <2>1, LocalsWith
  <2>3. mem' = [mem EXCEPT ![q] = [mem[q] EXCEPT !.attempts = mem[q].attempts + 1]]
    BY <1>1, <1>18 DEF Planned
  <2>4. mem' \in [Requests -> Locals]
    BY <1>1, <2>2, <2>3, MemWith
  <2>5. Goto(q, "planSave") /\ UNCHANGED <<disk, system, params, faults>>
    BY <1>18 DEF Planned
  <2>6. pc' \in [Requests -> Pcs]
    BY <1>4, <1>10, <2>5
  <2>7. QED
    BY <1>1, <1>9, <2>4, <2>5, <2>6
<1>19. CASE CopyPrompt(q)
  <2>1. First(Uncopied(q)) \in Roles
    BY <1>19, FirstIsOne DEF CopyPrompt, Uncopied
  <2>2. canonical[issueOf[q]][First(Uncopied(q))] \in {"none", "user"} \cup Requests
    BY <1>1, <2>1
  <2>3. artifact' \in [Requests -> [Roles -> {"none", "user"} \cup Requests]]
    BY <1>1, <1>19, <2>1, <2>2 DEF CopyPrompt
  <2>4. UNCHANGED <<meta, canonical, system, pc, mem, params, faults>>
    BY <1>19 DEF CopyPrompt
  <2>5. QED
    BY <1>1, <1>9, <2>3, <2>4
<1>20. CASE Link(q)
  <2>1. First(Unlinked(q)) \in Roles
    BY <1>1, <1>20, FirstIsOne DEF Link, Unlinked, Missing
  <2>2. canonical' \in [Issues -> [Roles -> {"none", "user"} \cup Requests]]
    BY <1>1, <1>20, <2>1 DEF Link
  <2>3. mem[q].linked \cup {First(Unlinked(q))} \in SUBSET Roles
    BY <1>1, <2>1 DEF Locals
  <2>4. [mem[q] EXCEPT !.linked = mem[q].linked \cup {First(Unlinked(q))}] \in Locals
    BY <1>1, <2>3, LocalsWith
  <2>5. mem' = [mem EXCEPT ![q] = [mem[q] EXCEPT
                              !.linked = mem[q].linked \cup {First(Unlinked(q))}]]
    BY <1>1, <1>20 DEF Link
  <2>6. mem' \in [Requests -> Locals]
    BY <1>1, <2>4, <2>5, MemWith
  <2>7. UNCHANGED <<meta, artifact, system, pc, params, faults>>
    BY <1>20 DEF Link
  <2>8. QED
    BY <1>1, <1>9, <2>2, <2>6, <2>7
<1>21. CASE Rollback(q)
  <2>1. UNCHANGED <<meta, artifact, system, params, faults>>
    BY <1>21 DEF Rollback
  <2>2. CASE mem[q].linked = {}
    <3>1. Fail(q) /\ UNCHANGED canonical
      BY <1>21, <2>2 DEF Rollback
    <3>2. QED
      BY <1>1, <1>5, <1>9, <2>1, <3>1
  <2>3. CASE mem[q].linked # {}
    <3> DEFINE r == First(mem[q].linked)
               S == mem[q].linked \ {r}
    <3>1. mem[q].linked \in SUBSET Roles
      BY <1>1 DEF Locals
    <3>2. r \in Roles /\ S \in SUBSET Roles
      BY <2>3, <3>1, FirstIsOne
    <3>3. /\ canonical' = [canonical EXCEPT ![issueOf[q]][r] = "none"]
          /\ mem' = [mem EXCEPT ![q].linked = @ \ {r}] /\ UNCHANGED pc
      BY <1>21, <2>3 DEF Rollback
    <3> HIDE DEF r
    <3>4. canonical' \in [Issues -> [Roles -> {"none", "user"} \cup Requests]]
      BY <1>1, <3>2, <3>3
    <3>5. mem' = [mem EXCEPT ![q] = [mem[q] EXCEPT !.linked = S]]
      BY <1>1, <3>3
    <3> HIDE DEF S
    <3>6. [mem[q] EXCEPT !.linked = S] \in Locals
      BY <1>1, <3>2, LocalsWith
    <3>7. mem' \in [Requests -> Locals]
      BY <1>1, <3>5, <3>6, MemWith
    <3>8. QED
      BY <1>1, <1>9, <2>1, <3>3, <3>4, <3>7
  <2>4. QED
    BY <2>2, <2>3
<1>22. CASE Fault(q)
  <2>1. faults' \in 0..MaxFaults
    BY <1>1, <1>22, ResolverAssumption DEF Fault
  <2>2. \/ Fail(q)
        \/ Goto(q, "rollback") /\ UNCHANGED mem
        \/ End(q, "dead")
    BY <1>22 DEF Fault
  <2>3. pc' \in [Requests -> Pcs] /\ mem' \in [Requests -> Locals]
    BY <1>1, <1>4, <1>5, <1>6, <1>10, <2>2
  <2>4. UNCHANGED <<disk, system, params>>
    BY <1>22 DEF Fault
  <2>5. QED
    BY <1>1, <1>9, <2>1, <2>3, <2>4
<1>23. TypeOK'
  BY <1>8, <1>11, <1>12, <1>13, <1>14, <1>15, <1>16, <1>17, <1>18, <1>19, <1>20, <1>21,
     <1>22
  DEF Step
<1>24. QED
  BY <1>23

LEMMA TypesNext == Types /\ [Next]_vars => Types'
<1> SUFFICES ASSUME Types, [Next]_vars PROVE Types'
  OBVIOUS
<1> USE DEF disk, system, params
<1>1. CASE \E q \in Requests : Step(q) \/ Fault(q)
  BY <1>1, TypesStep
<1>2. CASE Crash
  <2>1. /\ pid' \in 1..(MaxCrashes + 1) /\ pc' \in [Requests -> Pcs]
        /\ \A q \in Requests : pc'[q] \in {"new", "done", "dead"}
    BY <1>2, ResolverAssumption DEF Crash, Types, TypeOK, Pcs
  <2>2. mem' \in [Requests -> Locals] /\ \A q \in Requests : mem'[q].attempts = 0
    BY <1>2, NoLocalsType DEF Crash
  <2>3. UNCHANGED <<meta, artifact, canonical, edited, reused, issueOf, materialize, faults>>
    BY <1>2 DEF Crash
  <2>4. TypeOK'
    BY <2>1, <2>2, <2>3 DEF Types, TypeOK, Locals
  <2>5. AttemptsLeft'
    BY <2>1, <2>2 DEF AttemptsLeft
  <2>6. QED
    BY <2>4, <2>5 DEF Types
<1>3. CASE \E p \in 1..(pid - 1) : PidReused(p)
  <2>1. PICK p \in 1..(pid - 1) : PidReused(p)
    BY <1>3
  <2>2. /\ reused' \subseteq 1..MaxCrashes
        /\ UNCHANGED <<meta, artifact, canonical, edited, pid, pc, mem, issueOf, materialize,
                       faults>>
    BY <2>1, ResolverAssumption DEF PidReused, Types, TypeOK
  <2>3. QED
    BY <2>2 DEF Types, TypeOK, AttemptsLeft
<1>4. CASE \E i \in Issues, r \in Roles : UserWrites(i, r)
  <2>1. /\ canonical' \in [Issues -> [Roles -> {"none", "user"} \cup Requests]]
        /\ UNCHANGED <<meta, artifact, edited, pid, reused, pc, mem, issueOf, materialize,
                       faults>>
    BY <1>4 DEF UserWrites, Types, TypeOK
  <2>2. QED
    BY <2>1 DEF Types, TypeOK, AttemptsLeft
<1>5. CASE \E i \in Issues, r \in Roles : UserEdits(i, r)
  <2>1. /\ edited' \subseteq Issues \X Roles
        /\ UNCHANGED <<meta, artifact, canonical, pid, reused, pc, mem, issueOf, materialize,
                       faults>>
    BY <1>5 DEF UserEdits, Types, TypeOK
  <2>2. QED
    BY <2>1 DEF Types, TypeOK, AttemptsLeft
<1>6. CASE UNCHANGED vars
  BY <1>6 DEF vars, Types, TypeOK, AttemptsLeft
<1>7. QED
  BY <1>1, <1>2, <1>3, <1>4, <1>5, <1>6 DEF Next

-----------------------------------------------------------------------------
(* Records: who owns one, and who may still write it. *)

Unclaimed == {"new", "scan", "finalise", "paths", "claim"}

\* A request at work owns a PREPARING record under the id of the service; a
\* record that another request finalises belongs to a request that is dead.
RecordInv ==
  \A q \in Requests :
    /\ pc[q] \in Unclaimed => meta[q].status = "NONE"
    /\ pc[q] \in ClaimedPcs => meta[q].status = "PREPARING" /\ meta[q].owner = pid
    /\ pc[q] = "done" => meta[q].status # "PREPARING"
    /\ meta[q].status = "READY" => pc[q] = "done"
    /\ pc[q] = "dead" /\ meta[q].status = "PREPARING" /\ meta[q].owner = pid => faults > 0
    /\ meta[q].owner <= pid
    /\ pc[q] = "finalise" => mem[q].at \in Requests /\ pc[mem[q].at] = "dead"

LEMMA RecordInit == Init => RecordInv
<1> SUFFICES ASSUME Init, NEW q \in Requests
             PROVE  /\ pc[q] \notin ClaimedPcs \cup {"done", "finalise"}
                    /\ meta[q].status = "NONE" /\ meta[q].owner <= pid
  BY DEF RecordInv
<1>1. pc[q] = "new" /\ meta[q] = NoRecord /\ pid = 1
  BY DEF Init
<1>2. QED
  BY <1>1 DEF NoRecord, ClaimedPcs

Same(p) == meta'[p].status = meta[p].status /\ meta'[p].owner = meta[p].owner

\* What a step of q does to the records, and to where q is.
LEMMA RecordStep ==
  ASSUME Types, RecordInv, NEW q \in Requests, Step(q) \/ Fault(q)
  PROVE  /\ \A p \in Requests :
              \/ Same(p)
              \/ /\ p # q /\ pc[p] = "dead" /\ meta'[p].owner = meta[p].owner
                 /\ meta'[p].status = "HARD_BREAK_PLANNER"
              \/ /\ p = q /\ pc[q] = "claim" /\ pc'[q] = "claimWrite"
                 /\ meta'[q].status = "PREPARING" /\ meta'[q].owner = pid
              \/ /\ p = q /\ pc[q] = "finishWrite" /\ pc'[q] = "done"
                 /\ meta'[q].owner = meta[q].owner
                 /\ meta'[q].status = IF mem[q].ok THEN "READY" ELSE "HARD_BREAK_PLANNER"
         /\ pc[q] \in Pcs \ {"done", "dead"} /\ pc'[q] \in Pcs
         /\ pc'[q] \in Unclaimed => pc[q] \in Unclaimed /\ Same(q)
         /\ pc'[q] \in ClaimedPcs =>
              \/ pc[q] \in ClaimedPcs /\ Same(q)
              \/ meta'[q].status = "PREPARING" /\ meta'[q].owner = pid
         /\ pc'[q] = "done" => \/ pc[q] \in Unclaimed /\ Same(q)
                               \/ meta'[q].status \in {"READY", "HARD_BREAK_PLANNER"}
         /\ pc'[q] = "dead" => faults' > 0
         /\ pc'[q] = "finalise" =>
              mem'[q].at \in Requests \ {q} /\ pc[mem'[q].at] = "dead"
         /\ faults' >= faults /\ pid' = pid
         /\ pc[q] = "scan" /\ pc'[q] = "done" => \E o \in Requests : ReadPreparing(q, o)
<1>1. /\ pc \in [Requests -> Pcs] /\ mem \in [Requests -> Locals]
      /\ meta \in [Requests -> Records] /\ faults \in Nat /\ pid \in Nat
  BY ResolverAssumption DEF Types, TypeOK, Locals, Records
<1> USE DEF Goto, End, Fail, Move, FailStep, TruncateStep, WriteStep, WriteMeta, Truncate,
            Same,
            disk, system
<1>2. CASE \/ RefusedForRun(q) \/ ListRecords(q) \/ NoneActive(q) \/ FindExisting(q)
  BY <1>1, <1>2 DEF RefusedForRun, ListRecords, NoneActive, FindExisting, Unclaimed, Pcs,
                    ClaimedPcs
<1>3. CASE \E o \in Requests : ReadFinished(q, o) \/ ReadPreparing(q, o)
  BY <1>1, <1>3 DEF ReadFinished, ReadPreparing, Unclaimed, Pcs, ClaimedPcs
<1>4. CASE \E o \in Requests : ReadOrphan(q, o)
  <2>1. PICK o \in Requests : ReadOrphan(q, o)
    BY <1>4
  <2>2. pc[q] = "scan" /\ meta[o].status = "PREPARING" /\ ~Alive(meta[o].owner)
    BY <2>1 DEF ReadOrphan
  <2>3. o # q /\ pc[o] = "dead"
    BY <1>1, <2>2 DEF RecordInv, Unclaimed, Pcs, ClaimedPcs, Alive
  <2>4. /\ pc'[q] = "finalise" /\ mem'[q].at = o
        /\ \A p \in Requests : Same(p)
        /\ faults' = faults /\ pid' = pid
    BY <1>1, <2>1 DEF ReadOrphan, Locals, Records
  <2>5. QED
    BY <1>1, <2>2, <2>3, <2>4 DEF Unclaimed, Pcs, ClaimedPcs
<1>5. CASE FinaliseOrphan(q)
  <2>1. /\ pc[q] = "finalise" /\ mem[q].at \in Requests \ {q} /\ pc[mem[q].at] = "dead"
    BY <1>5 DEF FinaliseOrphan, RecordInv
  <2>2. /\ pc'[q] = "scan" /\ faults' = faults /\ pid' = pid
        /\ \A p \in Requests \ {mem[q].at} : meta'[p] = meta[p]
        /\ meta'[mem[q].at].status = "HARD_BREAK_PLANNER"
        /\ meta'[mem[q].at].owner = meta[mem[q].at].owner
    BY <1>1, <1>5, <2>1 DEF FinaliseOrphan, Records
  <2>3. QED
    BY <1>1, <2>1, <2>2 DEF Unclaimed, Pcs, ClaimedPcs
<1>6. CASE Claim(q)
  <2>1. /\ pc[q] = "claim" /\ pc'[q] = "claimWrite" /\ faults' = faults /\ pid' = pid
        /\ \A p \in Requests \ {q} : meta'[p] = meta[p]
        /\ meta'[q].status = "PREPARING" /\ meta'[q].owner = pid
    BY <1>1, <1>6 DEF Claim
  <2>2. QED
    BY <1>1, <2>1 DEF Unclaimed, Pcs, ClaimedPcs
<1>7. CASE ClaimWrite(q) \/ PlanWrite(q)
  <2>1. PICK from \in {"claimWrite", "planWrite"}, to \in {"copy", "plan", "validate"} :
          WriteStep(q, from, to, "PREPARING")
    BY <1>7 DEF ClaimWrite, PlanWrite
  <2>2. /\ pc[q] = from /\ pc'[q] = to /\ faults' = faults /\ pid' = pid
    BY <1>1, <2>1
  <2>3. meta' = [meta EXCEPT ![q] = [meta[q] EXCEPT !.status = "PREPARING", !.torn = FALSE]]
    BY <1>1, <2>1
  <2>4. /\ \A p \in Requests \ {q} : meta'[p] = meta[p]
        /\ meta'[q].status = "PREPARING" /\ meta'[q].owner = meta[q].owner
    BY <1>1, <2>3 DEF Records
  <2>5. meta[q].status = "PREPARING"
    BY <2>2 DEF RecordInv, ClaimedPcs
  <2>6. \A p \in Requests : Same(p)
    BY <2>4, <2>5
  <2>7. QED
    BY <1>1, <2>1, <2>2, <2>6 DEF Unclaimed, Pcs, ClaimedPcs
<1>8. CASE PlanSave(q) \/ Finish(q)
  <2>1. /\ pc[q] \in {"planSave", "finish"} /\ pc'[q] \in {"planWrite", "finishWrite"}
        /\ faults' = faults /\ pid' = pid
        /\ \A p \in Requests : Same(p)
    BY <1>1, <1>8 DEF PlanSave, Finish, Records
  <2>2. QED
    BY <1>1, <2>1 DEF Unclaimed, Pcs, ClaimedPcs
<1>9. CASE \/ Planned(q) \/ PlannerFailed(q) \/ Validate(q) \/ CopyPrompt(q) \/ CopyFailed(q)
           \/ Copied(q) \/ Link(q) \/ LinkRefused(q) \/ Linked(q) \/ Rollback(q)
  <2>1. /\ pc[q] \in {"plan", "validate", "copy", "link", "rollback"}
        /\ pc'[q] \in {"planSave", "plan", "copy", "link", "finish", "rollback"}
        /\ faults' = faults /\ pid' = pid
        /\ meta' = meta
    BY <1>1, <1>9
    DEF Planned, PlannerFailed, Validate, CopyPrompt, CopyFailed, Copied, Link,
                      LinkRefused, Linked, Rollback
  <2>2. QED
    BY <1>1, <2>1 DEF Unclaimed, Pcs, ClaimedPcs
<1>10. CASE FinishWrite(q)
  <2>1. /\ pc[q] = "finishWrite" /\ pc'[q] = "done" /\ faults' = faults /\ pid' = pid
        /\ \A p \in Requests \ {q} : meta'[p] = meta[p]
        /\ meta'[q].status = IF mem[q].ok THEN "READY" ELSE "HARD_BREAK_PLANNER"
        /\ meta'[q].owner = meta[q].owner
    BY <1>1, <1>10 DEF FinishWrite, Records
  <2>2. QED
    BY <1>1, <2>1 DEF Unclaimed, Pcs, ClaimedPcs
<1>11. CASE Fault(q)
  <2>1. /\ pc[q] \in Pcs \ {"done", "dead"} /\ faults' = faults + 1 /\ meta' = meta /\ pid' = pid
        /\ \/ pc'[q] = "dead"
           \/ pc'[q] \in {"finish", "rollback"} /\ pc[q] \in ClaimedPcs
    BY <1>1, <1>11 DEF Fault, Pcs, ClaimedPcs
  <2>2. QED
    BY <1>1, <2>1 DEF Unclaimed, Pcs, ClaimedPcs
<1>12. QED
  BY <1>2, <1>3, <1>4, <1>5, <1>6, <1>7, <1>8, <1>9, <1>10, <1>11 DEF Step

LEMMA RecordNext == Types /\ RecordInv /\ [Next]_vars => RecordInv'
<1> SUFFICES ASSUME Types, RecordInv, [Next]_vars PROVE RecordInv'
  OBVIOUS
<1>0. /\ pc \in [Requests -> Pcs] /\ meta \in [Requests -> Records] /\ faults \in Nat
      /\ pid \in Nat
  BY ResolverAssumption DEF Types, TypeOK, Records
<1>1. ASSUME NEW q \in Requests, Step(q) \/ Fault(q), NEW p \in Requests
      PROVE  /\ pc'[p] \in Unclaimed => meta'[p].status = "NONE"
             /\ pc'[p] \in ClaimedPcs => meta'[p].status = "PREPARING" /\ meta'[p].owner = pid'
             /\ pc'[p] = "done" => meta'[p].status # "PREPARING"
             /\ meta'[p].status = "READY" => pc'[p] = "done"
             /\ pc'[p] = "dead" /\ meta'[p].status = "PREPARING" /\ meta'[p].owner = pid'
                  => faults' > 0
             /\ meta'[p].owner <= pid'
             /\ pc'[p] = "finalise" => mem'[p].at \in Requests /\ pc'[mem'[p].at] = "dead"
  <2>1. CASE p = q
    BY <1>0, <1>1, <2>1, RecordStep, OthersStay DEF RecordInv, Same, Unclaimed, ClaimedPcs
  <2>2. CASE p # q
    <3>1. pc'[p] = pc[p] /\ mem'[p] = mem[p]
      BY <1>1, <2>2, OthersStay
    <3>2. \/ Same(p)
          \/ /\ pc[p] = "dead" /\ meta'[p].owner = meta[p].owner
             /\ meta'[p].status = "HARD_BREAK_PLANNER"
      BY <1>1, <2>2, RecordStep
    <3>3. faults' >= faults /\ pid' = pid /\ pc[q] # "dead"
      BY <1>1, RecordStep
    <3>4. faults > 0 => faults' > 0
      <4>1. faults' \in Nat
        BY <1>1, TypesStep, ResolverAssumption DEF Types, TypeOK
      <4>2. QED
        BY <1>0, <3>3, <4>1
    <3>5. /\ pc[p] \in Unclaimed => meta[p].status = "NONE"
          /\ pc[p] \in ClaimedPcs => meta[p].status = "PREPARING" /\ meta[p].owner = pid
          /\ pc[p] = "done" => meta[p].status # "PREPARING"
          /\ meta[p].status = "READY" => pc[p] = "done"
          /\ pc[p] = "dead" /\ meta[p].status = "PREPARING" /\ meta[p].owner = pid => faults > 0
          /\ meta[p].owner <= pid
          /\ pc[p] = "finalise" => mem[p].at \in Requests /\ pc[mem[p].at] = "dead"
      BY DEF RecordInv
    <3>6. pc[p] = "finalise" => mem'[p].at \in Requests /\ pc'[mem'[p].at] = "dead"
      <4> SUFFICES ASSUME pc[p] = "finalise"
                   PROVE  mem'[p].at \in Requests /\ pc'[mem'[p].at] = "dead"
        OBVIOUS
      <4>1. mem'[p].at \in Requests \ {q} /\ pc[mem'[p].at] = "dead"
        BY <3>1, <3>3, <3>5
      <4>2. QED
        BY <1>1, <4>1, OthersStay
    <3>7. CASE Same(p)
      BY <3>1, <3>3, <3>4, <3>5, <3>6, <3>7 DEF Same
    <3>8. CASE pc[p] = "dead" /\ meta'[p].status = "HARD_BREAK_PLANNER"
               /\ meta'[p].owner = meta[p].owner
      BY <3>1, <3>3, <3>5, <3>8 DEF Unclaimed, ClaimedPcs
    <3>9. QED
      BY <3>2, <3>7, <3>8
  <2>3. QED
    BY <2>1, <2>2
<1>2. CASE \E q \in Requests : Step(q) \/ Fault(q)
  BY <1>1, <1>2 DEF RecordInv
<1>3. CASE Crash
  <2>1. /\ pid' = pid + 1 /\ meta' = meta /\ faults' = faults
        /\ \A q \in Requests : /\ pc[q] \in {"new", "done"} => pc'[q] = pc[q]
                               /\ pc[q] \notin {"new", "done"} => pc'[q] = "dead"
    BY <1>3 DEF Crash, disk
  <2>2. QED
    BY <1>0, <2>1 DEF RecordInv, Unclaimed, ClaimedPcs, Records
<1>4. CASE \/ \E p \in 1..(pid - 1) : PidReused(p)
           \/ \E i \in Issues, r \in Roles : UserWrites(i, r)
           \/ \E i \in Issues, r \in Roles : UserEdits(i, r)
           \/ UNCHANGED vars
  <2>1. UNCHANGED <<meta, pc, mem, pid, faults>>
    BY <1>4 DEF PidReused, UserWrites, UserEdits, vars, disk, system
  <2>2. QED
    BY <2>1 DEF RecordInv
<1>5. QED
  BY <1>2, <1>3, <1>4 DEF Next

-----------------------------------------------------------------------------
(* Prompts: what a request has linked, and what it has kept. *)

Ending == {"finish", "finishWrite"}

\* While a request works, its Prompts in tasks/ are those that it remembers
\* having linked, and a role that had a file is never one that it generated.
Linking(q) ==
  /\ pc[q] \notin Ending \cup {"link", "rollback"} => mem[q].linked = {}
  /\ \A r \in mem[q].linked : canonical[issueOf[q]][r] = q
  /\ \A i \in Issues, r \in Roles : canonical[i][r] = q =>
       i = issueOf[q] /\ (r \in mem[q].linked \/ pc[q] \in {"done", "dead"})
  /\ \A r \in Roles : artifact[q][r] = q => r \notin mem[q].existing
  /\ pc[q] \in Unclaimed => \A r \in Roles : artifact[q][r] = "none"

\* What the last write may report.
Outcome(q) ==
  /\ pc[q] = "link" => Uncopied(q) = {} /\ materialize[q]
  /\ pc[q] \notin Ending => mem[q].ok
  /\ pc[q] \in Ending /\ mem[q].ok =>
       Uncopied(q) = {} /\ (materialize[q] => Missing(q) \subseteq mem[q].linked)
  /\ pc[q] \in Ending /\ ~mem[q].ok /\ faults = 0 => mem[q].linked = {}

\* What it has reported.
Reported(q) ==
  /\ meta[q].status = "READY" =>
       /\ Uncopied(q) = {}
       /\ materialize[q] => \A r \in Roles :
                              artifact[q][r] = q => canonical[issueOf[q]][r] = q
  /\ pc[q] = "done" /\ meta[q].status = "HARD_BREAK_PLANNER" /\ faults = 0
       => \A r \in Roles : canonical[issueOf[q]][r] # q

WholeInv == \A q \in Requests : Linking(q) /\ Outcome(q) /\ Reported(q)

LEMMA WholeInit == Init => WholeInv
<1> SUFFICES ASSUME Init, NEW q \in Requests
             PROVE  Linking(q) /\ Outcome(q) /\ Reported(q)
  BY DEF WholeInv
<1>1. /\ pc[q] = "new" /\ mem[q] = NoLocals /\ meta[q] = NoRecord
      /\ \A r \in Roles : artifact[q][r] = "none"
      /\ \A i \in Issues, r \in Roles : canonical[i][r] = "none"
      /\ issueOf[q] \in Issues /\ q # "none"
  BY ResolverAssumption DEF Init
<1>2. QED
  BY <1>1 DEF Linking, Outcome, Reported, Ending, NoLocals, NoRecord

\* canonical keeps the files of p.
Keeps(p) == \A i \in Issues, r \in Roles : canonical'[i][r] = p <=> canonical[i][r] = p

\* A file in tasks/ goes only with the rollback of q, which generated it.
TakesBackOwn(q) ==
  \A i \in Issues, r \in Roles :
    \/ canonical'[i][r] = canonical[i][r]
    \/ canonical[i][r] = "none"
    \/ canonical[i][r] = q /\ pc[q] = "rollback"

\* Steps that are not p's leave what is said of p as it is.
LEMMA WholeFrame ==
  ASSUME Types, NEW p \in Requests, Linking(p), Outcome(p), Reported(p),
         UNCHANGED <<issueOf, materialize>>, Keeps(p),
         pc'[p] = pc[p], mem'[p] = mem[p], artifact'[p] = artifact[p],
         Same(p) \/ (pc[p] = "dead" /\ meta'[p].status = "HARD_BREAK_PLANNER"),
         faults' = 0 => faults = 0
  PROVE  (Linking(p) /\ Outcome(p) /\ Reported(p))'
<1>1. issueOf[p] \in Issues /\ mem[p].linked \subseteq Roles
  BY DEF Types, TypeOK
<1>2. Linking(p)'
  BY <1>1 DEF Linking, Keeps
<1>3. Outcome(p)'
  BY DEF Outcome, Uncopied, Missing
<1>4. Reported(p)'
  BY <1>1 DEF Reported, Uncopied, Keeps, Same
<1>5. QED
  BY <1>2, <1>3, <1>4

\* A step of q writes no other directory and touches no other request's files.
LEMMA OwnFilesOnly ==
  ASSUME Types, WholeInv, NEW q \in Requests, Step(q) \/ Fault(q)
  PROVE  /\ UNCHANGED <<issueOf, materialize>>
         /\ \A p \in Requests \ {q} : artifact'[p] = artifact[p] /\ Keeps(p)
         /\ TakesBackOwn(q)
<1>1. /\ artifact \in [Requests -> [Roles -> {"none", "user"} \cup Requests]]
      /\ canonical \in [Issues -> [Roles -> {"none", "user"} \cup Requests]]
      /\ issueOf[q] \in Issues /\ mem[q] \in Locals /\ "none" \notin Requests
      /\ "user" \notin Requests
  BY ResolverAssumption DEF Types, TypeOK, Locals
<1> USE DEF Move, FailStep, TruncateStep, WriteStep, disk, params
<1>2. CASE Link(q)
  <2> DEFINE r0 == First(Unlinked(q))
  <2>1. r0 \in Roles
    BY <1>1, <1>2, FirstIsOne DEF Link, Unlinked, Missing
  <2>2. /\ canonical[issueOf[q]][r0] = "none"
        /\ canonical' = [canonical EXCEPT ![issueOf[q]][r0] = q]
        /\ UNCHANGED <<artifact, issueOf, materialize>>
    BY <1>2 DEF Link, Free
  <2> HIDE DEF r0
  <2>3. \A i \in Issues, r \in Roles :
          canonical'[i][r] = canonical[i][r] \/ (canonical[i][r] = "none" /\ canonical'[i][r] = q)
    BY <1>1, <2>1, <2>2
  <2>4. QED
    BY <1>1, <2>2, <2>3 DEF Keeps, TakesBackOwn
<1>3. CASE Rollback(q)
  <2>1. UNCHANGED <<artifact, issueOf, materialize>> /\ pc[q] = "rollback"
    BY <1>3 DEF Rollback
  <2>2. CASE mem[q].linked = {}
    <3>1. UNCHANGED canonical
      BY <1>3, <2>2 DEF Rollback
    <3>2. QED
      BY <2>1, <3>1 DEF Keeps, TakesBackOwn
  <2>3. CASE mem[q].linked # {}
    <3> DEFINE r0 == First(mem[q].linked)
    <3>1. r0 \in mem[q].linked /\ r0 \in Roles
      BY <1>1, <2>3, FirstIsOne DEF Locals
    <3>2. canonical' = [canonical EXCEPT ![issueOf[q]][r0] = "none"]
      BY <1>3, <2>3 DEF Rollback
    <3>3. canonical[issueOf[q]][r0] = q
      BY <3>1 DEF WholeInv, Linking
    <3> HIDE DEF r0
    <3>4. \A i \in Issues, r \in Roles :
            canonical'[i][r] = canonical[i][r] \/ (canonical[i][r] = q /\ canonical'[i][r] = "none")
      BY <1>1, <3>1, <3>2, <3>3
    <3>5. \A p \in Requests \ {q} : Keeps(p)
      BY <1>1, <3>4 DEF Keeps
    <3>6. TakesBackOwn(q)
      BY <2>1, <3>4 DEF TakesBackOwn
    <3>7. QED
      BY <2>1, <3>5, <3>6
  <2>4. QED
    BY <2>2, <2>3
<1>4. CASE CopyPrompt(q)
  <2>1. UNCHANGED <<canonical, issueOf, materialize>>
    BY <1>4 DEF CopyPrompt
  <2>2. \A p \in Requests \ {q} : artifact'[p] = artifact[p]
    BY <1>1, <1>4 DEF CopyPrompt
  <2>3. QED
    BY <2>1, <2>2 DEF Keeps, TakesBackOwn
<1>5. ASSUME UNCHANGED <<artifact, canonical, issueOf, materialize>>
      PROVE  /\ UNCHANGED <<issueOf, materialize>>
             /\ \A p \in Requests \ {q} : artifact'[p] = artifact[p] /\ Keeps(p)
             /\ TakesBackOwn(q)
  BY <1>5 DEF Keeps, TakesBackOwn
<1>6. CASE \/ RefusedForRun(q) \/ ListRecords(q) \/ FinaliseOrphan(q) \/ NoneActive(q)
           \/ FindExisting(q) \/ Claim(q) \/ ClaimWrite(q) \/ Planned(q) \/ PlannerFailed(q)
           \/ PlanSave(q) \/ PlanWrite(q) \/ Validate(q)
           \/ \E o \in Requests : ReadFinished(q, o) \/ ReadPreparing(q, o) \/ ReadOrphan(q, o)
  <2>1. UNCHANGED <<artifact, canonical, issueOf, materialize>>
    BY <1>6 DEF RefusedForRun, ListRecords, FinaliseOrphan, NoneActive, FindExisting, Claim,
                ClaimWrite, Planned, PlannerFailed, PlanSave, PlanWrite, Validate,
                ReadFinished, ReadPreparing, ReadOrphan
  <2>2. QED
    BY <1>5, <2>1
<1>7. CASE \/ CopyFailed(q) \/ Copied(q) \/ LinkRefused(q) \/ Linked(q) \/ Finish(q)
           \/ FinishWrite(q) \/ Fault(q)
  <2>1. UNCHANGED <<artifact, canonical, issueOf, materialize>>
    BY <1>7 DEF CopyFailed, Copied, LinkRefused, Linked, Finish, FinishWrite, Fault
  <2>2. QED
    BY <1>5, <2>1
<1>8. QED
  BY <1>2, <1>3, <1>4, <1>6, <1>7 DEF Step

\* A step of q that writes no Prompt.
LEMMA LinkingQuiet ==
  ASSUME Types, NEW q \in Requests, Linking(q),
         UNCHANGED <<artifact, canonical, issueOf>>, pc[q] \notin {"done", "dead"},
         mem'[q].linked = IF pc'[q] \in {"done", "dead"} THEN {} ELSE mem[q].linked,
         mem'[q].existing = mem[q].existing \/ mem'[q].existing = {} \/ pc[q] = "paths",
         pc'[q] \in {"link", "rollback", "done", "dead"} \cup Ending
           \/ pc[q] \notin Ending \cup {"link", "rollback"},
         pc'[q] \in Unclaimed => pc[q] \in Unclaimed
  PROVE  Linking(q)'
<1>1. "none" # q
  BY ResolverAssumption
<1>2. pc'[q] \notin Ending \cup {"link", "rollback"} => mem'[q].linked = {}
  BY DEF Linking
<1>3. \A r \in mem'[q].linked : canonical'[issueOf'[q]][r] = q
  BY DEF Linking
<1>4. \A i \in Issues, r \in Roles : canonical'[i][r] = q =>
        i = issueOf'[q] /\ (r \in mem'[q].linked \/ pc'[q] \in {"done", "dead"})
  BY DEF Linking
<1>5. \A r \in Roles : artifact'[q][r] = q => r \notin mem'[q].existing
  BY <1>1 DEF Linking, Unclaimed
<1>6. pc'[q] \in Unclaimed => \A r \in Roles : artifact'[q][r] = "none"
  BY DEF Linking
<1>7. QED
  BY <1>2, <1>3, <1>4, <1>5, <1>6 DEF Linking

LEMMA LinkingStep ==
  ASSUME Types, WholeInv, NEW q \in Requests, Step(q) \/ Fault(q)
  PROVE  Linking(q)'
<1>1. /\ pc \in [Requests -> Pcs] /\ mem \in [Requests -> Locals]
      /\ mem[q] \in Locals /\ mem[q].linked \subseteq Roles /\ mem[q].existing \subseteq Roles
      /\ artifact \in [Requests -> [Roles -> {"none", "user"} \cup Requests]]
      /\ canonical \in [Issues -> [Roles -> {"none", "user"} \cup Requests]]
      /\ issueOf[q] \in Issues /\ "none" \notin Requests /\ "none" # q
  BY ResolverAssumption DEF Types, TypeOK, Locals
<1>2. Linking(q) /\ Outcome(q) /\ issueOf' = issueOf
  BY OwnFilesOnly DEF WholeInv
<1> USE DEF Goto, End, Fail, Move, FailStep, TruncateStep, WriteStep, disk
<1>3. CASE RefusedForRun(q) \/ FinishWrite(q) \/ \E o \in Requests : ReadPreparing(q, o)
  <2>1. /\ pc[q] \in {"new", "scan", "finishWrite"} /\ pc'[q] = "done" /\ mem'[q] = NoLocals
        /\ UNCHANGED <<artifact, canonical>>
    BY <1>1, <1>3 DEF RefusedForRun, FinishWrite, ReadPreparing
  <2>2. mem'[q].linked = {} /\ mem'[q].existing = {}
    BY <2>1 DEF NoLocals
  <2>3. QED
    BY <1>2, <2>1, <2>2, LinkingQuiet DEF Unclaimed, Ending
<1>4. CASE ListRecords(q) \/ FindExisting(q)
  <2>1. /\ pc[q] \in {"new", "paths"} /\ pc'[q] \in {"scan", "claim"}
        /\ mem'[q].linked = mem[q].linked
        /\ mem'[q].existing = mem[q].existing \/ pc[q] = "paths"
        /\ UNCHANGED <<artifact, canonical>>
    BY <1>1, <1>4 DEF ListRecords, FindExisting, Locals
  <2>2. QED
    BY <1>2, <2>1, LinkingQuiet DEF Unclaimed, Ending
<1>5. CASE FinaliseOrphan(q) \/ \E o \in Requests : ReadFinished(q, o) \/ ReadOrphan(q, o)
  <2>1. /\ pc[q] \in {"finalise", "scan"} /\ pc'[q] \in {"finalise", "scan"}
        /\ mem'[q].linked = mem[q].linked /\ mem'[q].existing = mem[q].existing
        /\ UNCHANGED <<artifact, canonical>>
    <3>1. CASE FinaliseOrphan(q)
      BY <1>1, <3>1 DEF FinaliseOrphan, Locals
    <3>2. CASE \E o \in Requests : ReadFinished(q, o)
      BY <1>1, <3>2 DEF ReadFinished, Locals
    <3>3. CASE \E o \in Requests : ReadOrphan(q, o)
      BY <1>1, <3>3 DEF ReadOrphan, Locals
    <3>4. QED
      BY <1>5, <3>1, <3>2, <3>3
  <2>2. QED
    BY <1>2, <2>1, LinkingQuiet DEF Unclaimed, Ending
<1>6. CASE NoneActive(q) \/ Claim(q)
  <2>1. /\ pc[q] \in {"scan", "claim"} /\ pc'[q] \in {"paths", "claimWrite"}
        /\ UNCHANGED <<mem, artifact, canonical>>
    BY <1>1, <1>6 DEF NoneActive, Claim
  <2>2. QED
    BY <1>2, <2>1, LinkingQuiet DEF Unclaimed, Ending
<1>7. CASE \/ ClaimWrite(q) \/ PlanSave(q) \/ PlanWrite(q) \/ Planned(q) \/ PlannerFailed(q)
           \/ Validate(q) \/ CopyFailed(q) \/ Copied(q)
  <2>1. /\ pc[q] \in {"claimWrite", "plan", "planSave", "planWrite", "validate", "copy"}
        /\ pc'[q] \in {"plan", "planSave", "planWrite", "validate", "copy", "link", "finish"}
        /\ mem'[q].linked = mem[q].linked /\ mem'[q].existing = mem[q].existing
        /\ UNCHANGED <<artifact, canonical>>
    <3>1. CASE ClaimWrite(q) \/ PlanSave(q) \/ PlanWrite(q) \/ Copied(q)
      BY <1>1, <3>1 DEF ClaimWrite, PlanSave, PlanWrite, Copied
    <3>2. CASE Planned(q) \/ PlannerFailed(q) \/ Validate(q) \/ CopyFailed(q)
      BY <1>1, <3>2 DEF Planned, PlannerFailed, Validate, CopyFailed, Locals
    <3>3. QED
      BY <1>7, <3>1, <3>2
  <2>2. QED
    BY <1>2, <2>1, LinkingQuiet DEF Unclaimed, Ending
<1>8. CASE LinkRefused(q) \/ Linked(q) \/ Finish(q)
  <2>1. /\ pc[q] \in {"link", "finish"} /\ pc'[q] \in {"rollback", "finish", "finishWrite"}
        /\ UNCHANGED <<mem, artifact, canonical>>
    BY <1>1, <1>8 DEF LinkRefused, Linked, Finish
  <2>2. QED
    BY <1>2, <2>1, LinkingQuiet DEF Unclaimed, Ending
<1>9. CASE Fault(q)
  <2>1. /\ pc[q] \notin {"done", "dead"} /\ UNCHANGED <<artifact, canonical>>
        /\ \/ pc'[q] = "dead" /\ mem'[q] = NoLocals
           \/ /\ pc'[q] \in {"finish", "rollback"}
              /\ mem'[q].linked = mem[q].linked /\ mem'[q].existing = mem[q].existing
    BY <1>1, <1>9 DEF Fault, Locals
  <2>2. NoLocals.linked = {} /\ NoLocals.existing = {}
    BY DEF NoLocals
  <2>3. QED
    BY <1>2, <2>1, <2>2, LinkingQuiet DEF Unclaimed, Ending
<1>10. CASE CopyPrompt(q)
  <2> DEFINE r0 == First(Uncopied(q))
  <2>1. r0 \in Roles
    BY <1>10, FirstIsOne DEF CopyPrompt, Uncopied
  <2>2. /\ pc[q] = "copy" /\ UNCHANGED <<canonical, pc, mem>>
        /\ artifact' = [artifact EXCEPT ![q][r0] = IF r0 \in mem[q].existing
                                                   THEN canonical[issueOf[q]][r0] ELSE q]
    BY <1>10 DEF CopyPrompt
  <2>3. mem[q].linked = {} /\ \A r \in Roles : canonical[issueOf[q]][r] # q
    BY <1>1, <1>2, <2>2 DEF Linking, Ending
  <2> HIDE DEF r0
  <2>4. \A r \in Roles : artifact'[q][r] = q => r \notin mem[q].existing
    BY <1>1, <1>2, <2>1, <2>2, <2>3 DEF Linking
  <2>5. QED
    BY <1>1, <1>2, <2>2, <2>3, <2>4 DEF Linking, Unclaimed
<1>11. CASE Link(q)
  <2> DEFINE r0 == First(Unlinked(q))
  <2>1. r0 \in Roles
    BY <1>1, <1>11, FirstIsOne DEF Link, Unlinked, Missing
  <2>2. /\ pc[q] = "link" /\ UNCHANGED <<artifact, pc>>
        /\ canonical' = [canonical EXCEPT ![issueOf[q]][r0] = q]
        /\ mem' = [mem EXCEPT ![q].linked = @ \cup {r0}]
    BY <1>11 DEF Link
  <2> HIDE DEF r0
  <2>3. mem'[q].linked = mem[q].linked \cup {r0} /\ mem'[q].existing = mem[q].existing
    BY <1>1, <2>2 DEF Locals
  <2>4. \A r \in mem'[q].linked : canonical'[issueOf[q]][r] = q
    BY <1>1, <1>2, <2>1, <2>2, <2>3 DEF Linking
  <2>5. \A i \in Issues, r \in Roles : canonical'[i][r] = q =>
          i = issueOf[q] /\ r \in mem'[q].linked
    BY <1>1, <1>2, <2>1, <2>2, <2>3 DEF Linking
  <2>6. QED
    BY <1>2, <2>2, <2>3, <2>4, <2>5 DEF Linking, Unclaimed
<1>12. CASE Rollback(q)
  <2>0. pc[q] = "rollback" /\ artifact' = artifact
    BY <1>12 DEF Rollback
  <2>1. CASE mem[q].linked = {}
    <3>1. /\ pc'[q] = "finish" /\ canonical' = canonical
          /\ mem'[q].linked = mem[q].linked /\ mem'[q].existing = mem[q].existing
      BY <1>1, <1>12, <2>1 DEF Rollback, Locals
    <3>2. QED
      BY <1>2, <2>0, <3>1, LinkingQuiet DEF Unclaimed, Ending
  <2>2. CASE mem[q].linked # {}
    <3> DEFINE r0 == First(mem[q].linked)
    <3>1. r0 \in mem[q].linked /\ r0 \in Roles
      BY <1>1, <2>2, FirstIsOne
    <3>2. /\ canonical' = [canonical EXCEPT ![issueOf[q]][r0] = "none"]
          /\ mem' = [mem EXCEPT ![q].linked = @ \ {r0}] /\ pc' = pc
      BY <1>12, <2>2 DEF Rollback
    <3> HIDE DEF r0
    <3>3. mem'[q].linked = mem[q].linked \ {r0} /\ mem'[q].existing = mem[q].existing
      BY <1>1, <3>2 DEF Locals
    <3>4. \A r \in mem'[q].linked : canonical'[issueOf[q]][r] = q
      BY <1>1, <1>2, <3>1, <3>2, <3>3 DEF Linking
    <3>5. \A i \in Issues, r \in Roles : canonical'[i][r] = q =>
            i = issueOf[q] /\ r \in mem'[q].linked
      BY <1>1, <1>2, <2>0, <3>1, <3>2, <3>3 DEF Linking
    <3>6. QED
      BY <1>2, <2>0, <3>2, <3>3, <3>4, <3>5 DEF Linking, Unclaimed
  <2>3. QED
    BY <2>1, <2>2
<1>13. QED
  BY <1>3, <1>4, <1>5, <1>6, <1>7, <1>8, <1>9, <1>10, <1>11, <1>12 DEF Step

\* How a request comes to its last write.
LEMMA OutcomeStep ==
  ASSUME Types, WholeInv, NEW q \in Requests, Step(q) \/ Fault(q)
  PROVE  Outcome(q)'
<1>1. /\ pc \in [Requests -> Pcs] /\ mem \in [Requests -> Locals]
      /\ mem[q] \in Locals /\ faults \in Nat /\ materialize[q] \in BOOLEAN
      /\ artifact \in [Requests -> [Roles -> {"none", "user"} \cup Requests]]
  BY ResolverAssumption DEF Types, TypeOK, Locals
<1>2. Linking(q) /\ Outcome(q) /\ materialize' = materialize
  BY OwnFilesOnly DEF WholeInv
<1> USE DEF Goto, End, Fail, Move, FailStep, TruncateStep, WriteStep, disk
\* A step that neither fails nor gets near the last write.
<1>3. ASSUME pc'[q] \notin Ending \cup {"link"}, mem'[q].ok
      PROVE  Outcome(q)'
  BY <1>3 DEF Outcome
<1>4. CASE RefusedForRun(q) \/ FinishWrite(q) \/ \E o \in Requests : ReadPreparing(q, o)
  <2>1. pc'[q] = "done" /\ mem'[q] = NoLocals
    BY <1>1, <1>4 DEF RefusedForRun, FinishWrite, ReadPreparing
  <2>2. QED
    BY <1>3, <2>1 DEF NoLocals, Ending
<1>5. CASE \/ ListRecords(q) \/ FindExisting(q) \/ NoneActive(q) \/ Claim(q) \/ Planned(q)
           \/ ClaimWrite(q) \/ PlanSave(q) \/ PlanWrite(q)
           \/ \E o \in Requests : ReadFinished(q, o) \/ ReadOrphan(q, o)
  <2>1. /\ pc[q] \notin Ending /\ mem'[q].ok = mem[q].ok
        /\ pc'[q] \notin Ending \cup {"link"}
    <3>1. CASE ListRecords(q) \/ FindExisting(q) \/ Planned(q)
      BY <1>1, <3>1 DEF ListRecords, FindExisting, Planned, Ending, Locals
    <3>2. CASE NoneActive(q) \/ Claim(q) \/ ClaimWrite(q) \/ PlanSave(q) \/ PlanWrite(q)
      BY <1>1, <3>2 DEF NoneActive, Claim, ClaimWrite, PlanSave, PlanWrite, Ending
    <3>3. CASE \E o \in Requests : ReadFinished(q, o)
      BY <1>1, <3>3 DEF ReadFinished, Ending, Locals
    <3>4. CASE \E o \in Requests : ReadOrphan(q, o)
      BY <1>1, <3>4 DEF ReadOrphan, Ending, Locals
    <3>5. QED
      BY <1>5, <3>1, <3>2, <3>3, <3>4
  <2>2. QED
    BY <1>2, <1>3, <2>1 DEF Outcome
<1>6. CASE FinaliseOrphan(q)
  <2>1. pc[q] = "finalise" /\ pc'[q] = "scan" /\ mem'[q].ok = mem[q].ok
    BY <1>1, <1>6 DEF FinaliseOrphan, Locals
  <2>2. QED
    BY <1>2, <1>3, <2>1 DEF Outcome, Ending
\* A failure: whoever fails has linked nothing, unless a file operation raised.
<1>7. ASSUME Fail(q), mem[q].linked = {} \/ faults' > 0
      PROVE  Outcome(q)'
  <2>1. pc'[q] = "finish" /\ mem'[q].ok = FALSE /\ mem'[q].linked = mem[q].linked
    BY <1>1, <1>7 DEF Locals
  <2>2. QED
    BY <1>7, <2>1 DEF Outcome, Ending
<1>8. CASE PlannerFailed(q) \/ CopyFailed(q) \/ (pc[q] = "validate" /\ Fail(q))
  <2>1. pc[q] \in {"plan", "copy", "validate"} /\ Fail(q)
    BY <1>8 DEF PlannerFailed, CopyFailed
  <2>2. mem[q].linked = {}
    BY <1>2, <2>1 DEF Linking, Ending
  <2>3. QED
    BY <1>7, <2>1, <2>2
<1>9. CASE Validate(q)
  <2>1. CASE Move(q, "validate", "copy") \/ Move(q, "validate", "plan")
    <3>1. pc[q] = "validate" /\ pc'[q] \in {"copy", "plan"} /\ mem'[q].ok = mem[q].ok
      BY <1>1, <2>1
    <3>2. QED
      BY <1>2, <1>3, <3>1 DEF Outcome, Ending
  <2>2. CASE FailStep(q, "validate")
    BY <1>8, <2>2
  <2>3. QED
    BY <1>9, <2>1, <2>2 DEF Validate
<1>10. CASE CopyPrompt(q)
  <2>1. pc[q] = "copy" /\ pc' = pc /\ mem' = mem
    BY <1>10 DEF CopyPrompt
  <2>2. QED
    BY <1>2, <1>3, <2>1 DEF Outcome, Ending
<1>11. CASE Copied(q)
  <2>1. /\ Uncopied(q) = {} /\ pc[q] = "copy" /\ UNCHANGED <<mem, artifact>>
        /\ pc'[q] = IF materialize[q] THEN "link" ELSE "finish"
    BY <1>1, <1>11 DEF Copied
  <2>2. mem[q].ok
    BY <1>2, <2>1 DEF Outcome, Ending
  <2>3. QED
    BY <1>1, <1>2, <2>1, <2>2 DEF Outcome, Ending, Uncopied
<1>12. CASE Link(q)
  <2>1. pc[q] = "link" /\ pc' = pc /\ artifact' = artifact /\ mem'[q].ok = mem[q].ok
    BY <1>1, <1>12 DEF Link, Locals
  <2>2. QED
    BY <1>2, <2>1 DEF Outcome, Ending, Uncopied
<1>13. CASE LinkRefused(q)
  <2>1. pc[q] = "link" /\ pc'[q] = "rollback" /\ mem' = mem
    BY <1>1, <1>13 DEF LinkRefused
  <2>2. QED
    BY <1>2, <1>3, <2>1 DEF Outcome, Ending
<1>14. CASE Linked(q)
  <2>1. /\ Unlinked(q) = {} /\ pc[q] = "link" /\ pc'[q] = "finish"
        /\ UNCHANGED <<mem, artifact>>
    BY <1>1, <1>14 DEF Linked
  <2>2. mem[q].ok /\ Uncopied(q) = {} /\ Missing(q) \subseteq mem[q].linked
    BY <1>2, <2>1 DEF Outcome, Ending, Unlinked
  <2>3. QED
    BY <2>1, <2>2 DEF Outcome, Ending, Uncopied, Missing
<1>15. CASE Rollback(q)
  <2>1. CASE mem[q].linked = {}
    BY <1>7, <1>15, <2>1 DEF Rollback
  <2>2. CASE mem[q].linked # {}
    <3>1. pc[q] = "rollback" /\ pc' = pc /\ mem'[q].ok = mem[q].ok
      BY <1>1, <1>15, <2>2 DEF Rollback, Locals
    <3>2. QED
      BY <1>2, <1>3, <3>1 DEF Outcome, Ending
  <2>3. QED
    BY <2>1, <2>2
<1>16. CASE Finish(q)
  <2>1. /\ pc[q] = "finish" /\ pc'[q] = "finishWrite"
        /\ UNCHANGED <<mem, artifact, faults>>
    BY <1>1, <1>16 DEF Finish
  <2>2. QED
    BY <1>2, <2>1 DEF Outcome, Ending, Uncopied, Missing
<1>17. CASE Fault(q)
  <2>1. faults' > 0
    BY <1>1, <1>17 DEF Fault
  <2>2. CASE Fail(q)
    BY <1>7, <2>1, <2>2
  <2>3. CASE pc[q] = "link" /\ Goto(q, "rollback") /\ UNCHANGED mem
    <3>1. pc'[q] = "rollback" /\ mem[q].ok
      BY <1>1, <1>2, <2>3 DEF Outcome, Ending
    <3>2. QED
      BY <1>3, <2>3, <3>1 DEF Ending
  <2>4. CASE End(q, "dead")
    BY <1>1, <1>3, <2>4 DEF NoLocals, Ending
  <2>5. QED
    BY <1>17, <2>2, <2>3, <2>4 DEF Fault
<1>18. QED
  BY <1>4, <1>5, <1>6, <1>8, <1>9, <1>10, <1>11, <1>12, <1>13, <1>14, <1>15, <1>16, <1>17
  DEF Step

\* Only the last write reports anything.
LEMMA ReportedStep ==
  ASSUME Types, RecordInv, WholeInv, NEW q \in Requests, Step(q) \/ Fault(q)
  PROVE  Reported(q)'
<1>1. /\ mem[q] \in Locals /\ faults \in Nat /\ faults' \in Nat
      /\ issueOf[q] \in Issues /\ materialize[q] \in BOOLEAN
      /\ Linking(q) /\ Outcome(q)
      /\ UNCHANGED <<issueOf, materialize>>
  BY TypesStep, OwnFilesOnly, ResolverAssumption DEF Types, TypeOK, Locals, WholeInv
<1>2. meta[q].status \in {"NONE", "PREPARING"}
  BY RecordStep DEF RecordInv, Pcs, Unclaimed, ClaimedPcs
<1>3. CASE meta'[q].status \in {"NONE", "PREPARING"}
  BY <1>3 DEF Reported
<1>4. CASE pc[q] = "finishWrite" /\ pc'[q] = "done"
  <2>0. pc \in [Requests -> Pcs] /\ meta \in [Requests -> Records]
    BY DEF Types, TypeOK, Records
  <2>1. FinishWrite(q)
    <3>1. ~ Fault(q)
      BY <1>4, <2>0 DEF Fault, Goto, End, Fail
    <3>2. ~ \/ RefusedForRun(q) \/ ListRecords(q) \/ FinaliseOrphan(q) \/ NoneActive(q)
            \/ FindExisting(q) \/ Claim(q) \/ ClaimWrite(q) \/ Planned(q) \/ PlannerFailed(q)
            \/ PlanSave(q) \/ PlanWrite(q) \/ Validate(q)
            \/ \E o \in Requests : ReadFinished(q, o) \/ ReadPreparing(q, o) \/ ReadOrphan(q, o)
      BY <1>4
      DEF RefusedForRun, ListRecords, FinaliseOrphan, NoneActive, FindExisting, Claim,
                  ClaimWrite, Planned, PlannerFailed, PlanSave, PlanWrite, Validate, ReadFinished,
                  ReadPreparing, ReadOrphan, Move, FailStep, TruncateStep, WriteStep
    <3>3. ~ \/ CopyPrompt(q) \/ CopyFailed(q) \/ Copied(q) \/ Link(q) \/ LinkRefused(q)
            \/ Linked(q) \/ Rollback(q) \/ Finish(q)
      BY <1>4
      DEF CopyPrompt, CopyFailed, Copied, Link, LinkRefused, Linked, Rollback, Finish,
                  Move, FailStep, TruncateStep
    <3>4. QED
      BY <3>1, <3>2, <3>3 DEF Step
  <2>2. UNCHANGED <<artifact, canonical, faults>>
    BY <2>1 DEF FinishWrite
  <2>3. meta'[q].status = IF mem[q].ok THEN "READY" ELSE "HARD_BREAK_PLANNER"
    BY <2>0, <2>1 DEF FinishWrite, WriteMeta, Records
  <2>4. CASE mem[q].ok
    <3>1. /\ Uncopied(q) = {}
          /\ materialize[q] => \A r \in Roles :
                                 artifact[q][r] = q => canonical[issueOf[q]][r] = q
      BY <1>1, <1>4, <2>4 DEF Outcome, Linking, Ending, Missing
    <3>2. QED
      BY <1>1, <2>2, <2>3, <2>4, <3>1 DEF Reported, Uncopied
  <2>5. CASE ~mem[q].ok
    <3>1. faults = 0 => \A r \in Roles : canonical[issueOf[q]][r] # q
      BY <1>1, <1>4, <2>5 DEF Outcome, Linking, Ending
    <3>2. QED
      BY <1>1, <2>2, <2>3, <2>5, <3>1 DEF Reported
  <2>6. QED
    BY <2>4, <2>5
<1>5. QED
  BY <1>2, <1>3, <1>4, RecordStep DEF Same

LEMMA WholeNext == Types /\ RecordInv /\ WholeInv /\ [Next]_vars => WholeInv'
<1> SUFFICES ASSUME Types, RecordInv, WholeInv, [Next]_vars PROVE WholeInv'
  OBVIOUS
<1>1. ASSUME NEW q \in Requests, Step(q) \/ Fault(q), NEW p \in Requests
      PROVE  (Linking(p) /\ Outcome(p) /\ Reported(p))'
  <2>1. CASE p = q
    BY <1>1, <2>1, LinkingStep, OutcomeStep, ReportedStep
  <2>2. CASE p # q
    <3>1. Linking(p) /\ Outcome(p) /\ Reported(p)
      BY DEF WholeInv
    <3>2. pc'[p] = pc[p] /\ mem'[p] = mem[p]
      BY <1>1, <2>2, OthersStay
    <3>3. /\ UNCHANGED <<issueOf, materialize>> /\ artifact'[p] = artifact[p] /\ Keeps(p)
      BY <1>1, <2>2, OwnFilesOnly
    <3>4. Same(p) \/ (pc[p] = "dead" /\ meta'[p].status = "HARD_BREAK_PLANNER")
      BY <1>1, <2>2, RecordStep
    <3>5. faults' = 0 => faults = 0
      BY <1>1, RecordStep, ResolverAssumption DEF Types, TypeOK
    <3>6. QED
      BY <3>1, <3>2, <3>3, <3>4, <3>5, WholeFrame
  <2>3. QED
    BY <2>1, <2>2
<1>2. CASE \E q \in Requests : Step(q) \/ Fault(q)
  BY <1>1, <1>2 DEF WholeInv
<1>3. CASE Crash
  <2> SUFFICES ASSUME NEW q \in Requests PROVE (Linking(q) /\ Outcome(q) /\ Reported(q))'
    BY DEF WholeInv
  <2>1. /\ pc'[q] = IF pc[q] \in {"new", "done"} THEN pc[q] ELSE "dead"
        /\ mem'[q].linked = {} /\ mem'[q].existing = {} /\ mem'[q].ok
        /\ UNCHANGED <<meta, artifact, canonical, issueOf, materialize, faults>>
    BY <1>3 DEF Crash, NoLocals, disk, params
  <2>2. Linking(q) /\ Outcome(q) /\ Reported(q) /\ "none" # q
    BY ResolverAssumption DEF WholeInv
  <2>3. pc[q] = "new" => \A i \in Issues, r \in Roles : canonical[i][r] # q
    BY <2>2 DEF Linking, Ending
  <2>4. Linking(q)'
    BY <2>1, <2>2, <2>3 DEF Linking, Unclaimed
  <2>5. Outcome(q)'
    BY <2>1 DEF Outcome, Ending
  <2>6. Reported(q)'
    BY <2>1, <2>2 DEF Reported, Uncopied
  <2>7. QED
    BY <2>4, <2>5, <2>6
<1>4. CASE \/ \E p \in 1..(pid - 1) : PidReused(p)
           \/ \E i \in Issues, r \in Roles : UserWrites(i, r)
           \/ \E i \in Issues, r \in Roles : UserEdits(i, r)
           \/ UNCHANGED vars
  <2>1. UNCHANGED <<meta, artifact, pc, mem, issueOf, materialize, faults>>
    BY <1>4 DEF PidReused, UserWrites, UserEdits, vars, disk, params
  <2>2. \A q \in Requests : Keeps(q)
    <3>1. CASE \E i \in Issues, r \in Roles : UserWrites(i, r)
      <4>1. PICK i \in Issues, r \in Roles : UserWrites(i, r)
        BY <3>1
      <4>2. \A j \in Issues, s \in Roles :
              canonical'[j][s] = canonical[j][s]
                \/ (canonical[j][s] = "none" /\ canonical'[j][s] = "user")
        BY <4>1 DEF UserWrites, Types, TypeOK
      <4>3. QED
        BY <4>2, ResolverAssumption DEF Keeps
    <3>2. CASE ~ \E i \in Issues, r \in Roles : UserWrites(i, r)
      <4>1. canonical' = canonical
        BY <1>4, <3>2 DEF PidReused, UserEdits, vars, disk
      <4>2. QED
        BY <4>1 DEF Keeps
    <3>3. QED
      BY <3>1, <3>2
  <2>3. ASSUME NEW q \in Requests PROVE (Linking(q) /\ Outcome(q) /\ Reported(q))'
    BY <2>1, <2>2, WholeFrame DEF WholeInv, Same
  <2>4. QED
    BY <2>3 DEF WholeInv
<1>5. QED
  BY <1>2, <1>3, <1>4 DEF Next

-----------------------------------------------------------------------------
(* Theorems. *)

\* What the user has changed is a file that a request generated.
EditedInv == \A i \in Issues, r \in Roles :
               <<i, r>> \in edited => canonical[i][r] \in Requests

LEMMA EditedNext == Types /\ WholeInv /\ EditedInv /\ [Next]_vars => EditedInv'
<1> SUFFICES ASSUME Types, WholeInv, EditedInv, [Next]_vars,
                    NEW i \in Issues, NEW r \in Roles, <<i, r>> \in edited'
             PROVE  canonical'[i][r] \in Requests
  BY DEF EditedInv
<1>0. /\ canonical \in [Issues -> [Roles -> {"none", "user"} \cup Requests]]
      /\ "none" \notin Requests
  BY ResolverAssumption DEF Types, TypeOK
<1>1. CASE \E q \in Requests : Step(q) \/ Fault(q)
  <2>1. PICK q \in Requests : Step(q) \/ Fault(q)
    BY <1>1
  <2>2. <<i, r>> \in edited /\ canonical[i][r] \in Requests
    BY <2>1, EditedStep DEF EditedInv
  <2>3. CASE canonical'[i][r] = canonical[i][r]
    BY <2>2, <2>3
  <2>4. CASE canonical[i][r] = q /\ pc[q] = "rollback" /\ canonical'[i][r] # canonical[i][r]
    <3>1. Rollback(q) /\ mem[q].linked # {}
      BY <2>1, <2>4, OnlyRollbackRemoves
    <3>2. /\ canonical' = [canonical EXCEPT ![issueOf[q]][First(mem[q].linked)] = "none"]
          /\ edited' = edited \ {<<issueOf[q], First(mem[q].linked)>>}
      BY <3>1 DEF Rollback
    <3> DEFINE r0 == First(mem[q].linked)
    <3>3. i = issueOf[q] /\ r = r0
      BY <1>0, <2>4, <3>2
    <3>4. QED
      BY <3>2, <3>3
  <2>5. QED
    BY <1>0, <2>1, <2>2, <2>3, <2>4, OwnFilesOnly DEF TakesBackOwn
<1>2. CASE \/ Crash \/ (\E p \in 1..(pid - 1) : PidReused(p)) \/ UNCHANGED vars
           \/ \E j \in Issues, s \in Roles : UserEdits(j, s)
  BY <1>2 DEF Crash, PidReused, UserEdits, EditedInv, vars, disk
<1>3. CASE \E j \in Issues, s \in Roles : UserWrites(j, s)
  <2>1. PICK j \in Issues, s \in Roles : UserWrites(j, s)
    BY <1>3
  <2>2. <<i, r>> \in edited /\ canonical[i][r] \in Requests
    BY <2>1 DEF UserWrites, EditedInv
  <2>3. ~(i = j /\ r = s)
    BY <1>0, <2>1, <2>2 DEF UserWrites
  <2>4. canonical'[i][r] = canonical[i][r]
    BY <1>0, <2>1, <2>3 DEF UserWrites
  <2>5. QED
    BY <2>2, <2>4
<1>4. QED
  BY <1>1, <1>2, <1>3 DEF Next

Inv == Types /\ RecordInv /\ WholeInv /\ EditedInv

LEMMA Invariance == Spec => []Inv
<1>1. Init => Inv
  BY TypesInit, RecordInit, WholeInit DEF Inv, EditedInv, Init
<1>2. Inv /\ [Next]_vars => Inv'
  BY TypesNext, RecordNext, WholeNext, EditedNext DEF Inv
<1>3. QED
  BY <1>1, <1>2, PTL DEF Spec

\* A READY record has both Prompts, those that its request generated are the
\* ones in tasks/ if they were to be put there, and a preparation that ends in
\* a hard break has left none of its own there.
THEOREM PromptsCorrect == Spec => []PromptsWhole
<1>1. Inv => PromptsWhole
  BY DEF Inv, Types, WholeInv, Reported, PromptsWhole, ReadyIsComplete, BreakLeavesNothing
<1>2. QED
  BY <1>1, Invariance, PTL

\* _materialize_generated and its removal of files after a refused link never
\* take away what the user wrote, and what the user has changed only where the
\* request that generated it takes it back: what a request removes, it linked.
THEOREM UserWorkStays == Spec => UserWorkKept
<1> DEFINE Kept ==
      \A i \in Issues, r \in Roles :
        /\ canonical[i][r] = "user" => canonical'[i][r] = "user"
        /\ <<i, r>> \in edited =>
             \/ canonical'[i][r] = canonical[i][r]
             \/ \E q \in Requests : canonical[i][r] = q /\ pc[q] = "rollback"
<1>1. Inv /\ [Next]_vars => Kept
  <2> SUFFICES ASSUME Inv, [Next]_vars PROVE Kept
    OBVIOUS
  <2>0. /\ "none" \notin Requests /\ "user" \notin Requests
        /\ \A i \in Issues, r \in Roles :
             <<i, r>> \in edited => canonical[i][r] # "none"
    BY ResolverAssumption DEF Inv, EditedInv
  <2>1. CASE \E q \in Requests : Step(q) \/ Fault(q)
    <3>1. PICK q \in Requests : Step(q) \/ Fault(q)
      BY <2>1
    <3>2. TakesBackOwn(q)
      BY <3>1, OwnFilesOnly DEF Inv
    <3>3. QED
      BY <2>0, <3>2 DEF TakesBackOwn
  <2>2. CASE \/ Crash \/ (\E p \in 1..(pid - 1) : PidReused(p)) \/ UNCHANGED vars
             \/ \E i \in Issues, r \in Roles : UserEdits(i, r)
    <3>1. canonical' = canonical
      BY <2>2 DEF Crash, PidReused, UserEdits, vars, disk
    <3>2. QED
      BY <3>1
  <2>3. CASE \E i \in Issues, r \in Roles : UserWrites(i, r)
    <3>1. \A i \in Issues, r \in Roles :
            canonical'[i][r] = canonical[i][r] \/ canonical[i][r] = "none"
      BY <2>3 DEF UserWrites, Inv, Types, TypeOK
    <3>2. QED
      BY <2>0, <3>1
  <2>4. QED
    BY <2>1, <2>2, <2>3 DEF Next
<1>2. QED
  BY <1>1, Invariance, PTL DEF Spec, UserWorkKept

\* A request that another one declared dead does not come back: only the
\* thread that owns a PREPARING record writes it, and it writes READY once.
THEOREM BreaksStay == Spec => BreakIsFinal
<1> DEFINE Final == \A q \in Requests : meta[q].status = "HARD_BREAK_PLANNER"
                      => meta'[q].status = "HARD_BREAK_PLANNER"
<1>1. Inv /\ [Next]_vars => Final
  <2> SUFFICES ASSUME Inv, [Next]_vars PROVE Final
    OBVIOUS
  <2>1. CASE \E q \in Requests : Step(q) \/ Fault(q)
    <3>1. PICK q \in Requests : Step(q) \/ Fault(q)
      BY <2>1
    <3>2. meta[q].status \in {"NONE", "PREPARING"}
      BY <3>1, RecordStep DEF Inv, RecordInv, Pcs, Unclaimed, ClaimedPcs
    <3>3. \A p \in Requests : \/ Same(p) \/ p = q
                              \/ meta'[p].status = "HARD_BREAK_PLANNER"
      BY <3>1, RecordStep DEF Inv
    <3>4. QED
      BY <3>2, <3>3 DEF Same
  <2>2. CASE \/ Crash \/ (\E p \in 1..(pid - 1) : PidReused(p)) \/ UNCHANGED vars
             \/ \E i \in Issues, r \in Roles : UserWrites(i, r) \/ UserEdits(i, r)
    BY <2>2 DEF Crash, PidReused, UserWrites, UserEdits, vars, disk
  <2>3. QED
    BY <2>1, <2>2 DEF Next
<1>2. QED
  BY <1>1, Invariance, PTL DEF Spec, BreakIsFinal

\* has_active_run refuses for a record only while its owner is at work; what a
\* crash leaves behind is finalised, unless the id of the dead service is in
\* use again or the record of a failed request could not be written.
THEOREM RefusedWhileBusy == Spec => RefusedOnlyWhileBusy
<1> DEFINE Busy == \A q \in Requests : pc[q] = "scan" /\ pc'[q] = "done" =>
                     (\E p \in Requests : Preparing(p)) \/ reused # {} \/ faults > 0
<1>1. Inv /\ [Next]_vars => Busy
  <2> SUFFICES ASSUME Inv, [Next]_vars, NEW q \in Requests, pc[q] = "scan", pc'[q] = "done",
                      reused = {}, ~ faults > 0
               PROVE  \E p \in Requests : Preparing(p)
    OBVIOUS
  <2>1. CASE \E p \in Requests : Step(p) \/ Fault(p)
    <3>1. PICK p \in Requests : Step(p) \/ Fault(p)
      BY <2>1
    <3>2. p = q
      BY <3>1, OthersStay DEF Inv
    <3>3. PICK o \in Requests : ReadPreparing(q, o)
      BY <3>1, <3>2, RecordStep DEF Inv
    <3>4. meta[o].status = "PREPARING" /\ meta[o].owner = pid
      BY <3>3 DEF ReadPreparing, Alive
    <3>5. pc[o] \in Pcs /\ pc[o] \notin Unclaimed \cup {"done", "dead"}
      BY <3>4 DEF Inv, RecordInv, Types, TypeOK
    <3>6. QED
      BY <3>5 DEF Preparing, Pcs, Unclaimed
  <2>2. CASE Crash
    BY <2>2 DEF Crash
  <2>3. CASE \/ (\E p \in 1..(pid - 1) : PidReused(p)) \/ UNCHANGED vars
             \/ \E i \in Issues, r \in Roles : UserWrites(i, r) \/ UserEdits(i, r)
    BY <2>3 DEF PidReused, UserWrites, UserEdits, vars
  <2>4. QED
    BY <2>1, <2>2, <2>3 DEF Next
<1>2. QED
  BY <1>1, Invariance, PTL DEF Spec, RefusedOnlyWhileBusy

=============================================================================
