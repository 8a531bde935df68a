---------------------------- MODULE PlaneClient ----------------------------
(***************************************************************************)
(* connectors/plane.py: set_ticket_state and close_ticket over _request.   *)
(* A call posts its evidence as a comment, looks the state up by name and  *)
(* moves the issue.  Each of the three is a request with at most three     *)
(* attempts; an attempt can fail before or after Plane has executed it,    *)
(* and the client cannot tell which.                                       *)
(*                                                                         *)
(* Abstracted: a comment is the evidence it carries; the waits of          *)
(* _rate_limit and Retry-After pass no state on and are left out.          *)
(***************************************************************************)
EXTENDS Naturals, Sequences, FiniteSets

CONSTANTS Retries   \* attempts of a request, 3 in the code

ASSUME PlaneAssumption == Retries \in Nat \ {0}

VARIABLES
  issue,   \* Plane's work item: its state and its comments, oldest first
  call     \* the call of set_ticket_state

plVars == <<issue, call>>

\* at: the request under way; field: how the comment is sent; tries:
\* attempts of this request that have failed; wants: the state it asks for.
NoCall == [at |-> "idle", field |-> "comment_html", tries |-> 0,
           evidence |-> 0, wants |-> "none"]

PlInit ==
  /\ issue = [state |-> "open", comments |-> <<>>, by |-> 0]
  /\ call = NoCall

\* A non-empty summary is required.
SetTicketState(state, evidence) ==
  call' = [NoCall EXCEPT !.at = "comment", !.evidence = evidence, !.wants = state]

\* What an executed request does to the issue.
Executed(at) ==
  CASE at = "comment" -> [issue EXCEPT !.comments = Append(@, call.evidence)]
    [] at = "find"    -> issue
    [] at = "patch"   -> [issue EXCEPT !.state = call.wants, !.by = call.evidence]

To(at) == call' = [call EXCEPT !.at = at, !.tries = 0]

\* The project's states as Plane lists them; "completed": a localized Done.
Listings == {{"In Review", "Done"}, {"In Review", "completed"}, {"In Review"}}

\* _find_state: by name; the completed group stands in for Done only.
Found(listing) ==
  call.wants \in listing \/ (call.wants = "Done" /\ "completed" \in listing)

\* Slip: the issue is moved first and the evidence posted afterwards.
PatchBeforeComment(listing) ==
  CASE call.at = "comment" -> "returned"
    [] call.at = "find"    -> IF Found(listing) THEN "patch" ELSE "raised"
    [] call.at = "patch"   -> "comment"

AfterSuccess(listing) ==
  CASE call.at = "comment" -> "find"
    [] call.at = "find"    -> IF Found(listing) THEN "patch" ELSE "raised"
    [] call.at = "patch"   -> "returned"

InRequest == call.at \in {"comment", "find", "patch"}

\* A 2xx answer with a JSON object.
PlAnswered ==
  /\ InRequest
  /\ issue' = Executed(call.at)
  /\ \E listing \in Listings : To(AfterSuccess(listing))

\* A 2xx answer whose body is no JSON object: executed, and an error.
PlGarbled ==
  /\ InRequest
  /\ issue' = Executed(call.at)
  /\ To("raised")

\* HTTP 400: a comment is sent again under its other field name.
PlBadRequest ==
  /\ InRequest
  /\ IF call.at = "comment" /\ call.field = "comment_html"
       THEN call' = [call EXCEPT !.field = "comment", !.tries = 0]
       ELSE To("raised")
  /\ UNCHANGED issue

\* Any other HTTP error; of 429, only the last attempt's.
PlRejected ==
  /\ InRequest
  /\ To("raised")
  /\ UNCHANGED issue

MoreAttempts(tries) == tries + 1 < Retries

\* 429, or no answer although, perhaps, Plane executed the request.
PlUnanswered(executed) ==
  /\ InRequest
  /\ issue' = IF executed THEN Executed(call.at) ELSE issue
  /\ IF MoreAttempts(call.tries) THEN call' = [call EXCEPT !.tries = @ + 1]
                                 ELSE To("raised")

PlStep == \/ PlAnswered \/ PlGarbled \/ PlBadRequest \/ PlRejected
          \/ \E executed \in BOOLEAN : PlUnanswered(executed)

-----------------------------------------------------------------------------
Occurrences(s, e) == Cardinality({k \in DOMAIN s : s[k] = e})
Copies(e) == Occurrences(issue.comments, e)

\* An issue is moved only by a call whose evidence is already on it; a call
\* that returns has moved it to the state it was asked for; and a call leaves
\* at most one copy of its evidence per attempt but one, although a POST that
\* was executed unanswered is sent again, under two field names.
PlaneTruth ==
  /\ issue.by # 0 => Copies(issue.by) > 0
  /\ call.at = "returned" => /\ issue.state = call.wants
                             /\ issue.by = call.evidence
  /\ call.evidence # 0 => Copies(call.evidence) <= 2 * Retries - 1
=============================================================================
