------------------------ MODULE DevelopmentEvidence ------------------------
(***************************************************************************)
(* services/development_verifier.py and the checker of web.py, fed by the  *)
(* contract that TicketContract admits.  A Run of the pipeline may be      *)
(* verified by two processes at once: each returns the evidence file that  *)
(* it finds, or judges the Git facts, runs the contract's commands and     *)
(* persists a report through a temporary file, whose name they share, and  *)
(* a hard link.  A file is an inode, so that a writer that has it open     *)
(* still writes to it under whatever name it has by then.                  *)
(*                                                                         *)
(* Abstracted: what is wrong in Git is a set of facts; a report is its      *)
(* status, who made it, and whether what it says was the case (earned).    *)
(***************************************************************************)
EXTENDS TicketContract, FiniteSetsExt

CONSTANTS
  Tickets,      \* bound: issues to choose from
  Verifiers,    \* processes that verify the Run
  MaxWrong,     \* bound: facts about the worktree that are wrong at once
  MaxVerifies,  \* bound: calls of verify, over all processes
  MaxDeaths     \* bound: verifiers killed in the middle

ASSUME EvidenceAssumption ==
  /\ \A t \in Tickets : IsTicket(t)
  /\ IsFiniteSet(Verifiers) /\ 0 \notin Verifiers
  /\ MaxWrong \in Nat /\ MaxVerifies \in Nat /\ MaxDeaths \in Nat

VARIABLES
  ticket,    \* the issue
  contract,  \* ticket-spec.json of the Run: "none", "strict" or "relaxed"
  names,     \* inode of the temporary and of the evidence file, 0: no file
  inodes,    \* inodes in use: their content and whether they are read-only
  ver,       \* ver[v]: where the call of verify is, its report, its open file
  answers,   \* reports that calls have returned, with who got them
  webCheck,  \* report of the Web checker
  deaths, verifies

evVars == <<ticket, contract, names, inodes, ver, answers, webCheck, deaths, verifies>>

-----------------------------------------------------------------------------
NoReport == [status |-> "none", by |-> 0, earned |-> FALSE]
Reports  == [status : {"VERIFIED", "FAILED_DEVELOPMENT", "BLOCKED_ENVIRONMENT",
                       "BLOCKED_REQUIREMENTS", "BLOCKED_NEEDS_HUMAN"}, by : Verifiers, earned : BOOLEAN]

Idle == [at |-> "idle", report |-> NoReport, open |-> 0]

EvInit ==
  /\ ticket \in Tickets
  /\ contract = "none"
  /\ names = [temporary |-> 0, target |-> 0]
  /\ inodes = <<>>
  /\ ver = [v \in Verifiers |-> Idle]
  /\ answers = {}
  /\ webCheck = NoReport
  /\ deaths = 0 /\ verifies = 0

\* TicketController.run and TicketBoard._detail: only a READY issue gets a
\* Run; the Web fills in the owner's defaults, the command line does not.
Intake(relaxed) ==
  /\ contract = "none"
  /\ Preflight(ticket, relaxed) = "READY"
  /\ contract' = IF relaxed THEN "relaxed" ELSE "strict"
  /\ UNCHANGED <<ticket, names, inodes, ver, answers, webCheck, deaths, verifies>>

\* _requested_commands, _verification_commands: inspection is not run.
Commands(relaxed) ==
  {Entries(ticket, relaxed)[k].command : k \in
     {j \in DOMAIN Entries(ticket, relaxed) :
        Entries(ticket, relaxed)[j].type \in {"automated", "query"}}}
  \cup ToSet(Checks(ticket, relaxed))

\* What the ticket asks for, read off the ticket: a live ticket of a tier
\* that may run by itself, one verification for every criterion, none by
\* hand, and each that a program can do done, with success.
Earned(relaxed, succeeded) ==
  /\ ~ticket.cancelled
  /\ ticket.risk \in {"R0", "R1"} \/ (relaxed /\ ticket.section["risk_tier"] = "absent")
  /\ \A c \in ToSet(ticket.criteria) :
       \/ /\ ticket.entries # <<>>
          /\ Cardinality({k \in DOMAIN ticket.entries : ticket.entries[k].id = c}) = 1
          /\ \A e \in ToSet(ticket.entries) : e.id = c =>
               \/ e.type = "inspection"
               \/ e.type # "manual" /\ <<"ac", c>> \in succeeded
       \/ /\ relaxed /\ ticket.entries = <<>>
          /\ ticket.gate # "manual" /\ (ticket.gate = "inspection" \/ <<"gate", 0>> \in succeeded)
  /\ succeeded # {}

-----------------------------------------------------------------------------
\* What is wrong with the worktree and its commits since the Run's base.
\* "no spec": ticket-spec.json is unreadable, invalid or of another issue;
\* "escaping": a changed path is not relative to the repository.
WorktreeFaults == {"no spec", "no worktree", "no base", "no commit", "no change", "other branch",
                   "no issue key", "conflict", "forbidden", "escaping", "too many files"}
Trees == UNION {kSubset(k, WorktreeFaults) : k \in 0..MaxWrong}

\* _load_ticket_spec.
SpecGap(g) == "no spec" \in g

\* _collect_git_evidence, and the test for a commit that follows it.
GitGaps(g) == g \cap {"no worktree", "no base", "no commit"} # {}

\* _scope_evidence, with its limit on the number of changed files.
ScopeViolated(g) == g \cap {"forbidden", "escaping", "too many files"} # {}

GitFailures(g) == g \cap {"other branch", "no change", "conflict", "no issue key"} # {}

\* Slip: a failed command is a warning.
VerdictIgnoring(g, unsafe, failed) ==
  CASE SpecGap(g)       -> "BLOCKED_REQUIREMENTS"
    [] GitGaps(g)       -> "BLOCKED_ENVIRONMENT"
    [] ScopeViolated(g) -> "BLOCKED_NEEDS_HUMAN"
    [] GitFailures(g)   -> "FAILED_DEVELOPMENT"
    [] unsafe           -> "BLOCKED_NEEDS_HUMAN"
    [] OTHER            -> "VERIFIED"

\* verify: each gate returns before the next one is looked at; no command
\* runs if one of them is of a kind that has to be approved.
Verdict(g, unsafe, failed) ==
  IF SpecGap(g)            THEN "BLOCKED_REQUIREMENTS"
  ELSE IF GitGaps(g)       THEN "BLOCKED_ENVIRONMENT"
  ELSE IF ScopeViolated(g) THEN "BLOCKED_NEEDS_HUMAN"
  ELSE IF GitFailures(g)   THEN "FAILED_DEVELOPMENT"
  ELSE IF unsafe           THEN "BLOCKED_NEEDS_HUMAN"
  ELSE IF failed # {}      THEN "FAILED_DEVELOPMENT"
  ELSE "VERIFIED"

Content(i) == inodes[i].report
At(v, l) == ver[v].at = l
GoesTo(v, l) == ver' = [ver EXCEPT ![v].at = l]

\* A call ends with a report, or with an exception (no answer).
Answer(v, r) ==
  /\ ver' = [ver EXCEPT ![v] = Idle]
  /\ answers' = IF r = NoReport THEN answers ELSE answers \cup {[to |-> v, report |-> r]}

VerifyCall(v) ==
  /\ At(v, "idle") /\ contract = "strict" /\ verifies < MaxVerifies
  /\ verifies' = verifies + 1
  /\ IF names.target # 0 THEN Answer(v, Content(names.target))
                         ELSE GoesTo(v, "judge") /\ UNCHANGED answers
  /\ UNCHANGED <<ticket, contract, names, inodes, webCheck, deaths>>

Judge(v) ==
  /\ At(v, "judge")
  /\ \E g \in Trees, unsafe \in BOOLEAN, failed \in SUBSET Commands(FALSE) :
       ver' = [ver EXCEPT
         ![v].at = "open",
         ![v].report = [status |-> Verdict(g, unsafe, failed), by |-> v,
                        earned |-> g = {} /\ ~unsafe /\ Earned(FALSE, Commands(FALSE) \ failed)]]
  /\ UNCHANGED <<ticket, contract, names, inodes, answers, webCheck, deaths, verifies>>

\* write_text opens, which truncates, and then writes.
OpenTemporary(v) ==
  /\ At(v, "open")
  /\ IF names.temporary = 0
       THEN /\ inodes' = Append(inodes, [report |-> NoReport, ro |-> FALSE])
            /\ names' = [names EXCEPT !.temporary = Len(inodes) + 1]
            /\ ver' = [ver EXCEPT ![v].at = "write", ![v].open = Len(inodes) + 1]
            /\ UNCHANGED answers
       ELSE IF inodes[names.temporary].ro
       THEN Answer(v, NoReport) /\ UNCHANGED <<inodes, names>>   \* PermissionError
       ELSE /\ inodes' = [inodes EXCEPT ![names.temporary].report = NoReport]
            /\ ver' = [ver EXCEPT ![v].at = "write", ![v].open = names.temporary]
            /\ UNCHANGED <<names, answers>>
  /\ UNCHANGED <<ticket, contract, webCheck, deaths, verifies>>

WriteTemporary(v) ==
  /\ At(v, "write")
  /\ inodes' = [inodes EXCEPT ![ver[v].open].report = ver[v].report]
  /\ GoesTo(v, "chmod")
  /\ UNCHANGED <<ticket, contract, names, answers, webCheck, deaths, verifies>>

\* chmod goes by name: the file may be gone.
ChmodTemporary(v) ==
  /\ At(v, "chmod")
  /\ IF names.temporary = 0
       THEN Answer(v, NoReport) /\ UNCHANGED inodes
       ELSE /\ inodes' = [inodes EXCEPT ![names.temporary].ro = TRUE]
            /\ GoesTo(v, "link") /\ UNCHANGED answers
  /\ UNCHANGED <<ticket, contract, names, webCheck, deaths, verifies>>

\* link(2) makes the evidence file if there is none.
LinkEvidence(v) ==
  /\ At(v, "link")
  /\ IF names.temporary # 0 /\ names.target = 0
       THEN names' = [names EXCEPT !.target = names.temporary] /\ GoesTo(v, "unlinkMine")
       ELSE GoesTo(v, IF names.target # 0 /\ names.temporary # 0 THEN "unlinkTheirs"
                                                                ELSE "unlinkFault")
            /\ UNCHANGED names
  /\ UNCHANGED <<ticket, contract, inodes, answers, webCheck, deaths, verifies>>

\* finally: the temporary name goes; the call returns its own report, what
\* the file of the first verifier holds, or an exception.
UnlinkTemporary(v) ==
  /\ ver[v].at \in {"unlinkMine", "unlinkTheirs", "unlinkFault"}
  /\ names' = [names EXCEPT !.temporary = 0]
  /\ Answer(v, CASE At(v, "unlinkMine")   -> ver[v].report
                 [] At(v, "unlinkTheirs") -> Content(names.target)
                 [] At(v, "unlinkFault")  -> NoReport)
  /\ UNCHANGED <<ticket, contract, inodes, webCheck, deaths, verifies>>

VerifierDies(v) ==
  /\ ~At(v, "idle") /\ deaths < MaxDeaths
  /\ deaths' = deaths + 1
  /\ ver' = [ver EXCEPT ![v] = Idle]
  /\ UNCHANGED <<ticket, contract, names, inodes, answers, webCheck, verifies>>

-----------------------------------------------------------------------------
\* The checker: Git answers, something has changed, every command exits 0.
WebVerified(gitFails, g, failed) == ~gitFails /\ "no change" \notin g /\ failed = {}

\* checker, then _eligible_checks and _safe_paths of WebAgentLoop.  The
\* ticket's own limits on paths are not read here.
CheckWeb ==
  /\ contract = "relaxed" /\ webCheck = NoReport
  /\ \E g \in Trees, gitFails \in BOOLEAN, failed \in SUBSET Commands(TRUE) :
       /\ ~SpecGap(g)     \* else it raises
       /\ LET pass == /\ WebVerified(gitFails, g, failed) /\ Commands(TRUE) # {}
                      /\ "escaping" \notin g
          IN  webCheck' =
                [status |-> IF pass THEN "VERIFIED" ELSE "FAILED_DEVELOPMENT", by |-> 0,
                 earned |-> /\ ~gitFails /\ "no change" \notin g /\ "escaping" \notin g
                            /\ Earned(TRUE, Commands(TRUE) \ failed)]
  /\ UNCHANGED <<ticket, contract, names, inodes, ver, answers, deaths, verifies>>

EvNext ==
  \/ \E relaxed \in BOOLEAN : Intake(relaxed)
  \/ \E v \in Verifiers : \/ VerifyCall(v) \/ Judge(v) \/ OpenTemporary(v)
                          \/ WriteTemporary(v) \/ ChmodTemporary(v)
                          \/ LinkEvidence(v) \/ UnlinkTemporary(v) \/ VerifierDies(v)
  \/ CheckWeb

EvSpec == EvInit /\ [][EvNext]_evVars

-----------------------------------------------------------------------------
EvTypeOK ==
  /\ contract \in {"none", "strict", "relaxed"}
  /\ \A i \in DOMAIN inodes : inodes[i].report \in Reports \cup {NoReport}
  /\ {names.temporary, names.target} \subseteq 0..Len(inodes)
  /\ \A a \in answers : a.report \in Reports

\* Whichever verifier's report a caller gets, or the evidence file holds: it
\* says VERIFIED only if what the ticket itself asks for was done, from the
\* intake that mapped the issue to the last command (preflight_plane_issue,
\* verify, _persist, checker).
VerifiedIsEarned ==
  /\ EvTypeOK
  /\ \A r \in {a.report : a \in answers} \cup {Content(i) : i \in DOMAIN inodes} \cup {webCheck} :
       r.status = "VERIFIED" => r.earned

\* Evidence that a call has returned is what the file says from then on.
EvidenceStays ==
  [][\A a \in answers : names.target # 0 /\ Content(names.target) = a.report
       => inodes'[names.target].report = a.report]_evVars
=============================================================================
