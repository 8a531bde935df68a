--------------------------- MODULE PromptResolver ---------------------------
(***************************************************************************)
(* PromptResolver.prepare and has_active_run of                            *)
(* services/prompt_resolver.py.  Each request is a thread of the Web       *)
(* service that prepares the Developer and the Acceptance Prompt of one    *)
(* issue: it looks for a preparation or a Run under way, claims its own    *)
(* artifact directory, calls the planner for the roles that have no file   *)
(* in tasks/, retains both Prompts and, if asked to, links the generated   *)
(* ones into tasks/.                                                       *)
(*                                                                         *)
(* prompt-metadata.json is written in place, so a reader can meet a file   *)
(* that is truncated (torn) and takes it for no record at all.             *)
(*                                                                         *)
(* Abstracted: a Prompt is who wrote it; the process id of the service is  *)
(* the number of its restarts; records of versions that kept no owner_pid. *)
(***************************************************************************)
EXTENDS Naturals

CONSTANTS
  Requests,     \* calls of prepare, each with an artifact directory
  Issues,
  MaxAttempts,  \* _MAX_PLANNER_ATTEMPTS, 2 in the code
  MaxFaults,    \* bound: exceptions out of a file operation
  MaxCrashes    \* bound: restarts of the service

ASSUME ResolverAssumption ==
  /\ {"none", "user"} \cap Requests = {}
  /\ MaxAttempts \in Nat \ {0}
  /\ MaxFaults \in Nat
  /\ MaxCrashes \in Nat

VARIABLES
  meta,       \* meta[q]: prompt-metadata.json of q's artifact directory
  artifact,   \* artifact[q][role]: Prompt in that directory
  canonical,  \* canonical[i][role]: Prompt in tasks/
  edited,     \* history: generated Prompts in tasks/ that the user has changed
  pid,        \* process id of the service
  reused,     \* ids of dead services that another process has now
  pc, mem,    \* where each request is, and its locals
  issueOf, materialize,  \* what each request asks for
  faults

disk   == <<meta, artifact, canonical, edited>>
system == <<pid, reused>>
params == <<issueOf, materialize>>
vars   == <<disk, system, pc, mem, params, faults>>

-----------------------------------------------------------------------------
Roles == {"dev", "acceptance"}
First(R) == IF "dev" \in R THEN "dev" ELSE "acceptance"

NoRecord == [status |-> "NONE", owner |-> 0, torn |-> FALSE]

\* todo: records still to be read; at: the orphan that is being finalised;
\* linked: files that q has put into tasks/; ok: nothing has been raised.
NoLocals == [todo |-> {}, at |-> "none", existing |-> {}, attempts |-> 0,
             linked |-> {}, ok |-> TRUE]

ClaimedPcs == {"claimWrite", "plan", "planSave", "planWrite", "validate",
               "copy", "link", "rollback", "finish", "finishWrite"}
Pcs        == {"new", "scan", "finalise", "paths", "claim", "done", "dead"}
                \cup ClaimedPcs

\* A request that is preparing Prompts now.
Preparing(q) == pc[q] \in ClaimedPcs

Goto(q, l)  == pc' = [pc EXCEPT ![q] = l]
End(q, l)   == Goto(q, l) /\ mem' = [mem EXCEPT ![q] = NoLocals]
Fail(q)     == Goto(q, "finish") /\ mem' = [mem EXCEPT ![q].ok = FALSE]
Missing(q)  == Roles \ mem[q].existing

\* write_text truncates the file, then fills it.
Truncate(o) == meta' = [meta EXCEPT ![o].torn = TRUE]
WriteMeta(o, s) == meta' = [meta EXCEPT ![o] = [@ EXCEPT !.status = s, !.torn = FALSE]]

\* The shapes that most steps have: a request goes on without a trace, gives
\* up, or begins or completes a write of its own record.
Move(q, from, to) ==
  /\ pc[q] = from
  /\ Goto(q, to)
  /\ UNCHANGED <<disk, system, mem, params, faults>>
FailStep(q, from) ==
  /\ pc[q] = from
  /\ Fail(q)
  /\ UNCHANGED <<disk, system, params, faults>>
TruncateStep(q, from, to) ==
  /\ pc[q] = from
  /\ Truncate(q)
  /\ Goto(q, to)
  /\ UNCHANGED <<artifact, canonical, edited, system, mem, params, faults>>
WriteStep(q, from, to, s) ==
  /\ pc[q] = from
  /\ WriteMeta(q, s)
  /\ Goto(q, to)
  /\ UNCHANGED <<artifact, canonical, edited, system, mem, params, faults>>

Init ==
  /\ meta = [q \in Requests |-> NoRecord]
  /\ artifact = [q \in Requests |-> [r \in Roles |-> "none"]]
  /\ canonical = [i \in Issues |-> [r \in Roles |-> "none"]]
  /\ edited = {}
  /\ pid = 1
  /\ reused = {}
  /\ pc = [q \in Requests |-> "new"]
  /\ mem = [q \in Requests |-> NoLocals]
  /\ issueOf \in [Requests -> Issues]
  /\ materialize \in [Requests -> BOOLEAN]
  /\ faults = 0

-----------------------------------------------------------------------------
(* has_active_run. *)

\* The state.json of some Run is in an active state; Runs are modelled in
\* WebAgentLoop, here they come and go as they like.
RefusedForRun(q) ==
  /\ pc[q] = "new"
  /\ End(q, "done")
  /\ UNCHANGED <<disk, system, params, faults>>

ListRecords(q) ==
  /\ pc[q] = "new"
  /\ mem' = [mem EXCEPT ![q].todo = {o \in Requests : meta[o].status # "NONE"}]
  /\ Goto(q, "scan")
  /\ UNCHANGED <<disk, system, params, faults>>

\* Slip: only a process other than this service counts as an owner.
AliveElsewhere(p) == p \in reused
\* Slip: a process id is not asked about, the record alone counts.
AliveOnRecord(p) == TRUE
\* os.kill(owner_pid, 0)
Alive(p) == p = pid \/ p \in reused

\* A record that cannot be parsed, or is not PREPARING, blocks nobody.
ReadFinished(q, o) ==
  /\ pc[q] = "scan"
  /\ o \in mem[q].todo
  /\ meta[o].torn \/ meta[o].status # "PREPARING"
  /\ mem' = [mem EXCEPT ![q].todo = @ \ {o}]
  /\ UNCHANGED <<disk, system, pc, params, faults>>

ReadPreparing(q, o) ==
  /\ pc[q] = "scan"
  /\ o \in mem[q].todo
  /\ ~meta[o].torn /\ meta[o].status = "PREPARING" /\ Alive(meta[o].owner)
  /\ End(q, "done")
  /\ UNCHANGED <<disk, system, params, faults>>

ReadOrphan(q, o) ==
  /\ pc[q] = "scan"
  /\ o \in mem[q].todo
  /\ ~meta[o].torn /\ meta[o].status = "PREPARING" /\ ~Alive(meta[o].owner)
  /\ Truncate(o)
  /\ mem' = [mem EXCEPT ![q].at = o]
  /\ Goto(q, "finalise")
  /\ UNCHANGED <<artifact, canonical, edited, system, params, faults>>

FinaliseOrphan(q) ==
  /\ pc[q] = "finalise"
  /\ WriteMeta(mem[q].at, "HARD_BREAK_PLANNER")
  /\ mem' = [mem EXCEPT ![q].todo = @ \ {mem[q].at}, ![q].at = "none"]
  /\ Goto(q, "scan")
  /\ UNCHANGED <<artifact, canonical, edited, system, params, faults>>

NoneActive(q) == mem[q].todo = {} /\ Move(q, "scan", "paths")

-----------------------------------------------------------------------------
(* prepare. *)

FindExisting(q) ==
  /\ pc[q] = "paths"
  /\ mem' = [mem EXCEPT ![q].existing =
               {r \in Roles : canonical[issueOf[q]][r] # "none"}]
  /\ Goto(q, "claim")
  /\ UNCHANGED <<disk, system, params, faults>>

\* The artifact directory, and a prompt-metadata.json that is still empty.
Claim(q) ==
  /\ pc[q] = "claim"
  /\ meta' = [meta EXCEPT ![q] = [status |-> "PREPARING", owner |-> pid, torn |-> TRUE]]
  /\ Goto(q, "claimWrite")
  /\ UNCHANGED <<artifact, canonical, edited, system, mem, params, faults>>

ClaimWrite(q) ==
  WriteStep(q, "claimWrite", IF Missing(q) = {} THEN "copy" ELSE "plan", "PREPARING")

\* Slip: planner_attempts is not counted.
PlannedUncounted(q) == Move(q, "plan", "planSave")
\* The planner answers.
Planned(q) ==
  /\ pc[q] = "plan"
  /\ mem' = [mem EXCEPT ![q].attempts = @ + 1]
  /\ Goto(q, "planSave")
  /\ UNCHANGED <<disk, system, params, faults>>

\* It raises, it runs out of time, or there is none.
PlannerFailed(q) == FailStep(q, "plan")

\* planner_attempts is retained.
PlanSave(q) == TruncateStep(q, "planSave", "planWrite")

PlanWrite(q) == WriteStep(q, "planWrite", "validate", "PREPARING")

\* _validate_generated for every missing role; one repair attempt.
Validate(q) ==
  \/ Move(q, "validate", "copy")
  \/ mem[q].attempts < MaxAttempts /\ Move(q, "validate", "plan")
  \/ mem[q].attempts = MaxAttempts /\ FailStep(q, "validate")

\* Prompts that are still to be put into the artifact directory.
Uncopied(q) == {r \in Roles : artifact[q][r] = "none"}

\* The file of an existing role is read again here.
CopyPrompt(q) ==
  /\ pc[q] = "copy"
  /\ Uncopied(q) # {}
  /\ LET r == First(Uncopied(q)) IN
       /\ r \in mem[q].existing => canonical[issueOf[q]][r] # "none"
       /\ artifact' = [artifact EXCEPT ![q][r] = IF r \in mem[q].existing
                                                 THEN canonical[issueOf[q]][r] ELSE q]
  /\ UNCHANGED <<meta, canonical, edited, system, pc, mem, params, faults>>

CopyFailed(q) ==
  /\ Uncopied(q) # {}
  /\ LET r == First(Uncopied(q)) IN
       r \in mem[q].existing /\ canonical[issueOf[q]][r] = "none"
  /\ FailStep(q, "copy")

Copied(q) == /\ Uncopied(q) = {}
             /\ Move(q, "copy", IF materialize[q] THEN "link" ELSE "finish")

-----------------------------------------------------------------------------
(* _materialize_generated.  The temporary files have names of their own. *)

Unlinked(q) == Missing(q) \ mem[q].linked

\* Slip: os.replace instead of os.link.
FreeOrNot(i, r) == TRUE
\* os.link refuses a name that exists.
Free(i, r) == canonical[i][r] = "none"

Link(q) ==
  /\ pc[q] = "link"
  /\ Unlinked(q) # {}
  /\ LET r == First(Unlinked(q)) IN
       /\ Free(issueOf[q], r)
       /\ canonical' = [canonical EXCEPT ![issueOf[q]][r] = q]
       /\ mem' = [mem EXCEPT ![q].linked = @ \cup {r}]
  /\ UNCHANGED <<meta, artifact, edited, system, pc, params, faults>>

\* Slip: a name that exists counts as linked.
LinkSkipped(q) ==
  /\ pc[q] = "link"
  /\ Unlinked(q) # {}
  /\ ~Free(issueOf[q], First(Unlinked(q)))
  /\ mem' = [mem EXCEPT ![q].linked = @ \cup {First(Unlinked(q))}]
  /\ UNCHANGED <<disk, system, pc, params, faults>>
LinkRefused(q) ==
  /\ Unlinked(q) # {}
  /\ ~Free(issueOf[q], First(Unlinked(q)))
  /\ Move(q, "link", "rollback")

Linked(q) == Unlinked(q) = {} /\ Move(q, "link", "finish")

\* The files that this call created are removed by their names, in the order
\* of creation, with what the user has changed in them.
Rollback(q) ==
  /\ pc[q] = "rollback"
  /\ IF mem[q].linked = {}
       THEN Fail(q) /\ UNCHANGED <<canonical, edited>>
       ELSE LET r == First(mem[q].linked) IN
              /\ canonical' = [canonical EXCEPT ![issueOf[q]][r] = "none"]
              /\ edited' = edited \ {<<issueOf[q], r>>}
              /\ mem' = [mem EXCEPT ![q].linked = @ \ {r}]
              /\ UNCHANGED pc
  /\ UNCHANGED <<meta, artifact, system, params, faults>>

-----------------------------------------------------------------------------
(* The last write: READY, or what the except clause makes of an exception. *)

Finish(q) == TruncateStep(q, "finish", "finishWrite")

FinishWrite(q) ==
  /\ pc[q] = "finishWrite"
  /\ WriteMeta(q, IF mem[q].ok THEN "READY" ELSE "HARD_BREAK_PLANNER")
  /\ End(q, "done")
  /\ UNCHANGED <<artifact, canonical, edited, system, params, faults>>

-----------------------------------------------------------------------------
(* Around the code. *)

\* An OSError out of a file operation: within the try it ends in the except
\* clause, elsewhere the request answers with an error.
Fault(q) ==
  /\ faults < MaxFaults
  /\ faults' = faults + 1
  /\ \/ /\ pc[q] \in {"planSave", "planWrite", "copy", "rollback"}
        /\ Fail(q)
     \/ /\ pc[q] = "link"
        /\ Goto(q, "rollback")
        /\ UNCHANGED mem
     \/ /\ pc[q] \in {"finalise", "claim", "claimWrite", "finish", "finishWrite"}
        /\ End(q, "dead")
  /\ UNCHANGED <<disk, system, params>>

\* The service dies with all its requests and is started again.
Crash ==
  /\ pid <= MaxCrashes
  /\ pid' = pid + 1
  /\ pc' = [q \in Requests |-> IF pc[q] \in {"new", "done"} THEN pc[q] ELSE "dead"]
  /\ mem' = [q \in Requests |-> NoLocals]
  /\ UNCHANGED <<disk, reused, params, faults>>

\* The system gives the id of a dead service to some other process.
PidReused(p) ==
  /\ p \notin reused
  /\ reused' = reused \cup {p}
  /\ UNCHANGED <<disk, pid, pc, mem, params, faults>>

\* The user saves a Prompt of their own under a name that is free.
UserWrites(i, r) ==
  /\ canonical[i][r] = "none"
  /\ canonical' = [canonical EXCEPT ![i][r] = "user"]
  /\ UNCHANGED <<meta, artifact, edited, system, pc, mem, params, faults>>

\* The user changes a Prompt that a request has put there.
UserEdits(i, r) ==
  /\ canonical[i][r] \in Requests
  /\ edited' = edited \cup {<<i, r>>}
  /\ UNCHANGED <<meta, artifact, canonical, system, pc, mem, params, faults>>

-----------------------------------------------------------------------------
Step(q) ==
  \/ RefusedForRun(q) \/ ListRecords(q)
  \/ \E o \in Requests : ReadFinished(q, o) \/ ReadPreparing(q, o) \/ ReadOrphan(q, o)
  \/ FinaliseOrphan(q) \/ NoneActive(q)
  \/ FindExisting(q) \/ Claim(q) \/ ClaimWrite(q)
  \/ Planned(q) \/ PlannerFailed(q) \/ PlanSave(q) \/ PlanWrite(q) \/ Validate(q)
  \/ CopyPrompt(q) \/ CopyFailed(q) \/ Copied(q)
  \/ Link(q) \/ LinkRefused(q) \/ Linked(q) \/ Rollback(q)
  \/ Finish(q) \/ FinishWrite(q)

Next ==
  \/ \E q \in Requests : Step(q) \/ Fault(q)
  \/ Crash
  \/ \E p \in 1..(pid - 1) : PidReused(p)
  \/ \E i \in Issues, r \in Roles : UserWrites(i, r)
  \/ \E i \in Issues, r \in Roles : UserEdits(i, r)

Spec == Init /\ [][Next]_vars

\* Threads are scheduled, and the planner runs under a timeout.
FairSpec == Spec /\ \A q \in Requests : WF_vars(Step(q))

-----------------------------------------------------------------------------
(* Properties. *)

\* Records, Prompts and locals hold what the code can write.
TypeOK ==
  /\ meta \in [Requests -> [status : {"NONE", "PREPARING", "READY", "HARD_BREAK_PLANNER"},
                            owner : 0..(MaxCrashes + 1), torn : BOOLEAN]]
  /\ artifact \in [Requests -> [Roles -> {"none", "user"} \cup Requests]]
  /\ canonical \in [Issues -> [Roles -> {"none", "user"} \cup Requests]]
  /\ edited \subseteq Issues \X Roles
  /\ pid \in 1..(MaxCrashes + 1) /\ reused \subseteq 1..MaxCrashes
  /\ pc \in [Requests -> Pcs]
  /\ mem \in [Requests -> [todo : SUBSET Requests, at : {"none"} \cup Requests,
                           existing : SUBSET Roles, attempts : 0..MaxAttempts,
                           linked : SUBSET Roles, ok : BOOLEAN]]
  /\ issueOf \in [Requests -> Issues] /\ materialize \in [Requests -> BOOLEAN]
  /\ faults \in 0..MaxFaults

\* No request takes away or replaces a Prompt that the user wrote, and one
\* that the user has changed goes only with the rollback of the request that
\* generated it: not with the refused link, or the removal, of any other.
UserWorkKept ==
  [][\A i \in Issues, r \in Roles :
       /\ canonical[i][r] = "user" => canonical'[i][r] = "user"
       /\ <<i, r>> \in edited =>
            \/ canonical'[i][r] = canonical[i][r]
            \/ \E q \in Requests : canonical[i][r] = q /\ pc[q] = "rollback"]_vars

\* A READY record has both Prompts in its directory, and those that an explicit
\* Prepare generated are the ones in tasks/, whoever else prepares the issue.
ReadyIsComplete ==
  \A q \in Requests : meta[q].status = "READY" =>
    /\ Uncopied(q) = {}
    /\ materialize[q] => \A r \in Roles :
                           artifact[q][r] = q => canonical[issueOf[q]][r] = q

\* Materialisation is all or nothing: a preparation that reports a hard break
\* has left none of its Prompts in tasks/.
BreakLeavesNothing ==
  \A q \in Requests :
    pc[q] = "done" /\ meta[q].status = "HARD_BREAK_PLANNER" /\ faults = 0
      => \A r \in Roles : canonical[issueOf[q]][r] # q

\* A preparation is all or nothing, whatever it ends with.
PromptsWhole == TypeOK /\ ReadyIsComplete /\ BreakLeavesNothing

\* A hard break is final, also the one that another request wrote for an
\* orphan: whoever was declared dead does not come back with READY.
BreakIsFinal ==
  [][\A q \in Requests : meta[q].status = "HARD_BREAK_PLANNER"
       => meta'[q].status = "HARD_BREAK_PLANNER"]_vars

\* A crash does not lock Prepare: a request is refused for a record only while
\* somebody is preparing, unless the record could not be written or the id of
\* its owner belongs to another process now.
RefusedOnlyWhileBusy ==
  [][\A q \in Requests : pc[q] = "scan" /\ pc'[q] = "done" =>
       (\E p \in Requests : Preparing(p)) \/ reused # {} \/ faults > 0]_vars

\* Every request ends: the planner is asked MaxAttempts times at most.
PrepareReturns == \A q \in Requests : <>(pc[q] \in {"done", "dead"})

=============================================================================
