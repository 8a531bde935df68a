---------------------------- MODULE DeliveryGate ----------------------------
(***************************************************************************)
(* What a Run promises about its branch, with none of the machinery: the   *)
(* worktree moves from version to version, QA accepts the version that is  *)
(* current, and only an accepted current version is committed.             *)
(***************************************************************************)
EXTENDS Naturals

CONSTANT Runs

VARIABLES content, approved, commits
gateVars == <<content, approved, commits>>

Init == /\ content = [r \in Runs |-> 0]
        /\ approved = [r \in Runs |-> {}]
        /\ commits = [r \in Runs |-> {}]

\* The Developer leaves a new version.
Edit(r) ==
  /\ content' = [content EXCEPT ![r] = @ + 1]
  /\ UNCHANGED <<approved, commits>>

\* QA passes the version that the worktree holds; never the untouched base.
Accept(r) ==
  /\ content[r] # 0
  /\ approved' = [approved EXCEPT ![r] = @ \cup {content[r]}]
  /\ UNCHANGED <<content, commits>>

\* The Controller commits the version that QA passed.
Commit(r) ==
  /\ content[r] \in approved[r] \ commits[r]
  /\ commits' = [commits EXCEPT ![r] = @ \cup {content[r]}]
  /\ UNCHANGED <<content, approved>>

Next == \E r \in Runs : Edit(r) \/ Accept(r) \/ Commit(r)

Spec == Init /\ [][Next]_gateVars

=============================================================================
