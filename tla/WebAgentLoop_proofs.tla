------------------------ MODULE WebAgentLoop_proofs ------------------------
(***************************************************************************)
(* Proofs about WebAgentLoop, for every number of requests, attempts,      *)
(* exceptions and restarts: types, the gate before a commit, and what a    *)
(* PASS that a user sees rests on.                                         *)
(***************************************************************************)
EXTENDS WebAgentLoop, SequenceTheorems, TLAPS

-----------------------------------------------------------------------------
(* Snapshots: what the updates of the code make of a snapshot. *)

\* state.update(...) keeps a snapshot a snapshot.
LEMMA SnapshotUpdates ==
  ASSUME NEW s \in Snapshot
  PROVE  /\ \A st \in {"NONE", "ACTIVE"} \cup Final :
              [s EXCEPT !.status = st] \in Snapshot
         /\ \A n \in 0..MaxQaAttempts : [s EXCEPT !.attempt = n] \in Snapshot
         /\ \A q \in Owners : [s EXCEPT !.owners = @ \cup {q}] \in Snapshot
         /\ [s EXCEPT !.commit = TRUE, !.status = "PASS"] \in Snapshot
         /\ \A v \in QaRecord :
              [s EXCEPT !.verdicts = Append(@, v)] \in Snapshot
<1>1. ASSUME NEW st \in {"NONE", "ACTIVE"} \cup Final
      PROVE  [s EXCEPT !.status = st] \in Snapshot
  BY DEF Snapshot
<1>2. ASSUME NEW n \in 0..MaxQaAttempts
      PROVE  [s EXCEPT !.attempt = n] \in Snapshot
  BY DEF Snapshot
<1>3. ASSUME NEW q \in Owners
      PROVE  [s EXCEPT !.owners = @ \cup {q}] \in Snapshot
  BY DEF Snapshot
<1>4. [s EXCEPT !.commit = TRUE, !.status = "PASS"] \in Snapshot
  BY DEF Snapshot, Final
<1>5. ASSUME NEW v \in QaRecord
      PROVE  [s EXCEPT !.verdicts = Append(@, v)] \in Snapshot
  <2>1. Append(s.verdicts, v) \in Seq(QaRecord)
    BY DEF Snapshot
  <2>2. QED
    BY <2>1 DEF Snapshot
<1>6. QED
  BY <1>1, <1>2, <1>3, <1>4, <1>5

LEMMA InitialSnapshots == NoSnapshot \in Snapshot /\ InitialState \in Snapshot
<1>1. /\ <<>> \in Seq(QaRecord)
      /\ 0 \in 0..MaxQaAttempts
  BY BoundAssumption
<1>2. NoSnapshot \in Snapshot
  BY <1>1 DEF NoSnapshot, Snapshot
<1>3. QED
  BY <1>2, SnapshotUpdates DEF InitialState

\* The verdict that decides a round is one that QA can return.
LEMMA LastVerdictType ==
  ASSUME NEW s \in Snapshot
  PROVE  LastVerdict(s) \in Verdicts \cup {"NONE"}
<1>1. s.verdicts \in Seq(QaRecord)
  BY DEF Snapshot
<1>2. CASE s.verdicts = <<>>
  BY <1>2 DEF LastVerdict
<1>3. CASE s.verdicts # <<>>
  <2>1. Len(s.verdicts) \in 1..Len(s.verdicts)
    BY <1>1, <1>3, EmptySeq
  <2>2. s.verdicts[Len(s.verdicts)] \in QaRecord
    BY <1>1, <2>1, ElementOfSeq
  <2>3. QED
    BY <1>3, <2>2 DEF LastVerdict, QaRecord
<1>4. QED
  BY <1>2, <1>3

-----------------------------------------------------------------------------
(* Type correctness. *)

\* A worker past the top of its loop knows which attempt it is in, and one
\* that makes its last writes a final status; without these the QA record and
\* the event that they append would have no type.
StageKnown ==
  \A w \in Threads :
    /\ pc[w] \in BodyPcs \ {"first"} => mem[w].attempt \in Attempts
    /\ pc[w] \in FinishPcs => mem[w].status \in Final

TypeInv == TypeOK /\ StageKnown

LEMMA InitType == Init => TypeInv
<1> SUFFICES ASSUME Init PROVE TypeInv
  OBVIOUS
<1> USE DEF Init
<1>1. NoSnapshot \in Snapshot
  BY InitialSnapshots
<1>2. \A t \in Threads : pc[t] \in {"new", "done"}
  <2>1. PICK m \in Mixes : pc = [t \in Threads |-> IF t \in m THEN "new" ELSE "done"]
    OBVIOUS
  <2>2. QED
    BY <2>1 DEF Pcs, EndPcs
<1>3. pc \in [Threads -> Pcs]
  <2>1. PICK m \in Mixes : pc = [t \in Threads |-> IF t \in m THEN "new" ELSE "done"]
    OBVIOUS
  <2>2. QED
    BY <2>1 DEF Pcs, EndPcs
<1>4. TypeOK
  BY <1>1, <1>3, BoundAssumption DEF TypeOK, RecordStates, Runs, Threads
<1>5. StageKnown
  BY <1>2 DEF StageKnown, BodyPcs, FinishPcs, Threads
<1>6. QED
  BY <1>4, <1>5 DEF TypeInv

\* The jump to the final writes keeps the types, whatever the final status.
LEMMA FinishType ==
  ASSUME TypeInv, NEW t \in Threads, NEW st \in Final, Finish(t, st)
  PROVE  /\ mem' \in [Threads -> Snapshot]
         /\ pc' \in [Threads -> Pcs]
         /\ StageKnown'
<1>1. /\ mem \in [Threads -> Snapshot]
      /\ pc \in [Threads -> Pcs]
      /\ StageKnown
  BY DEF TypeInv, TypeOK
<1>2. /\ mem' = [mem EXCEPT ![t].status = st]
      /\ pc' = [pc EXCEPT ![t] = "finSave"]
  BY DEF Finish, Goto
<1>3. [mem[t] EXCEPT !.status = st] \in Snapshot
  BY <1>1, SnapshotUpdates
<1>4. mem' \in [Threads -> Snapshot]
  BY <1>1, <1>2, <1>3
<1>5. pc' \in [Threads -> Pcs]
  BY <1>1, <1>2 DEF Pcs, FinishPcs
<1>6. ASSUME NEW w \in Threads
      PROVE  /\ pc'[w] \in BodyPcs \ {"first"} => mem'[w].attempt \in Attempts
             /\ pc'[w] \in FinishPcs => mem'[w].status \in Final
  <2>1. CASE w = t
    BY <1>1, <1>2, <2>1 DEF BodyPcs, FinishPcs, Snapshot
  <2>2. CASE w # t
    BY <1>1, <1>2, <2>2 DEF StageKnown
  <2>3. QED
    BY <2>1, <2>2
<1>7. QED
  BY <1>4, <1>5, <1>6 DEF StageKnown

\* Every step keeps the types.
LEMMA NextType == TypeInv /\ [Next]_vars => TypeInv'
<1> SUFFICES ASSUME TypeInv, [Next]_vars PROVE TypeInv'
  OBVIOUS
<1> USE DEF TypeInv, TypeOK, StageKnown, files, git, memory, threads,
            params, budget, Goto, End, Save, UpdateState, Release, FinishPcs,
            Leave, LoadStep, SaveStep, RecordStep, EventStep, FinishStep
<1>0. /\ Runs \subseteq Threads
      /\ \A t \in Threads : mem[t] \in Snapshot /\ target[t] \in Runs
      /\ \A r \in Runs : snap[r] \in Snapshot
  BY DEF Runs, Threads
<1>1. ASSUME NEW q \in Starters, Start(q) PROVE TypeInv'
  <2> USE DEF Runs, Threads
  <2>1. CASE StartRefused(q)
    BY <2>1, InitialSnapshots DEF StartRefused, Pcs, BodyPcs, EndPcs
  <2>2. CASE StartCreate(q)
    BY <2>2 DEF StartCreate, RecordStates, Pcs, HandlerPcs, BodyPcs
  <2>3. CASE StartActivate(q)
    BY <2>3, InitialSnapshots
    DEF StartActivate, RecordStates, Pcs, HandlerPcs, BodyPcs
  <2>4. CASE StartSnapshot(q)
    BY <2>4, <1>0 DEF StartSnapshot, Pcs, HandlerPcs, BodyPcs
  <2>5. CASE StartSpawn(q)
    BY <2>5, InitialSnapshots DEF StartSpawn, Pcs, BodyPcs
  <2>6. QED
    BY <1>1, <2>1, <2>2, <2>3, <2>4, <2>5 DEF Start
<1>2. ASSUME NEW q \in Retriers, Retry(q) PROVE TypeInv'
  <2> USE DEF Runs, Threads
  <2>1. CASE RetryRefused(q)
    BY <2>1, <1>0, InitialSnapshots
    DEF RetryRefused, Pcs, HandlerPcs, BodyPcs, EndPcs, RecordStates, Reactivated
  <2>2. CASE RetryLoad(q)
    BY <2>2, <1>0, SnapshotUpdates
    DEF RetryLoad, Pcs, HandlerPcs, BodyPcs, EndPcs, RecordStates, Reactivated
  <2>3. CASE RetrySave(q)
    BY <2>3, <1>0 DEF RetrySave, Pcs, HandlerPcs, BodyPcs, EndPcs, RecordStates, Reactivated
  <2>4. CASE RetryRecord(q)
    BY <2>4, <1>0
    DEF RetryRecord, Pcs, HandlerPcs, BodyPcs, EndPcs, RecordStates, Reactivated
  <2>5. CASE RetrySpawn(q)
    BY <2>5, <1>0, InitialSnapshots
    DEF RetrySpawn, Pcs, HandlerPcs, BodyPcs, EndPcs, RecordStates, Reactivated
  <2>6. QED
    BY <1>2, <2>1, <2>2, <2>3, <2>4, <2>5 DEF Retry
<1>3. ASSUME NEW q \in Stoppers, Stop(q) PROVE TypeInv'
  <2> USE DEF Runs, Threads
  <2>1. CASE StopRefused(q)
    BY <2>1, <1>0, InitialSnapshots
    DEF StopRefused, Pcs, HandlerPcs, BodyPcs, EndPcs, RecordStates, Final
  <2>2. CASE StopLoad(q)
    BY <2>2, <1>0 DEF StopLoad, Pcs, HandlerPcs, BodyPcs, EndPcs, RecordStates, Final
  <2>3. CASE StopRejected(q)
    BY <2>3, <1>0, InitialSnapshots
    DEF StopRejected, Pcs, HandlerPcs, BodyPcs, EndPcs, RecordStates, Final
  <2>4. CASE StopKill(q)
    BY <2>4, <1>0, SnapshotUpdates
    DEF StopKill, Pcs, HandlerPcs, BodyPcs, EndPcs, RecordStates, Final
  <2>5. CASE StopSave(q)
    BY <2>5, <1>0 DEF StopSave, Pcs, HandlerPcs, BodyPcs, EndPcs, RecordStates, Final
  <2>6. CASE StopRecord(q)
    BY <2>6, <1>0 DEF StopRecord, Pcs, HandlerPcs, BodyPcs, EndPcs, RecordStates, Final
  <2>7. CASE StopEvent(q)
    BY <2>7, <1>0, InitialSnapshots
    DEF StopEvent, Pcs, HandlerPcs, BodyPcs, EndPcs, RecordStates, Final
  <2>8. QED
    BY <1>3, <2>1, <2>2, <2>3, <2>4, <2>5, <2>6, <2>7 DEF Stop
<1>4. ASSUME NEW q \in Owners, Owner(q) PROVE TypeInv'
  <2> USE DEF Runs, Threads
  <2>1. CASE OwnerRefused(q)
    BY <2>1, <1>0, InitialSnapshots DEF OwnerRefused, Pcs, HandlerPcs, BodyPcs, EndPcs
  <2>2. CASE OwnerLoad(q)
    BY <2>2, <1>0, SnapshotUpdates DEF OwnerLoad, Pcs, HandlerPcs, BodyPcs, EndPcs
  <2>3. CASE OwnerSave(q)
    BY <2>3, <1>0 DEF OwnerSave, Pcs, HandlerPcs, BodyPcs, EndPcs
  <2>4. CASE OwnerEvent(q)
    BY <2>4, <1>0, InitialSnapshots DEF OwnerEvent, Pcs, HandlerPcs, BodyPcs, EndPcs
  <2>5. QED
    BY <1>4, <2>1, <2>2, <2>3, <2>4 DEF Owner
<1>5. ASSUME NEW w \in Starters \cup Retriers, Worker(w) PROVE TypeInv'
  <2> HIDE DEF SaveStep
  <2> w \in Threads
    BY DEF Threads
  <2>1. CASE Load(w)
    BY <2>1, <1>0 DEF Load, Pcs, BodyPcs
  <2>2. CASE LeaveStopped(w)
    BY <2>2, InitialSnapshots DEF LeaveStopped, Pcs, BodyPcs, EndPcs
  <2>3. CASE BeginAttempt(w)
    <3>1. mem[w].attempt \in 0..MaxQaAttempts
      BY <1>0 DEF Snapshot
    <3>2. NextAttempt(w) \in Attempts
      <4>1. CASE pc[w] = "top"
        BY <2>3, <3>1, <4>1, BoundAssumption
        DEF BeginAttempt, NextAttempt, Attempts
      <4>2. CASE pc[w] # "top"
        BY <3>1, <4>2, BoundAssumption DEF NextAttempt, Attempts
      <4>3. QED
        BY <4>1, <4>2
    <3> DEFINE n == NextAttempt(w)
    <3>3. n \in 0..MaxQaAttempts /\ n \in Attempts
      BY <3>2, BoundAssumption DEF Attempts
    <3>4. mem' = [mem EXCEPT ![w].attempt = n]
      BY <2>3 DEF BeginAttempt
    <3> HIDE DEF n
    <3>5. [mem[w] EXCEPT !.attempt = n] \in Snapshot
      BY <3>3, <1>0, SnapshotUpdates
    <3>6. mem' \in [Threads -> Snapshot]
      BY <3>4, <3>5
    <3>7. mem'[w].attempt = n /\ \A t \in Threads \ {w} : mem'[t] = mem[t]
      BY <3>4, <1>0 DEF Snapshot
    <3>8. StageKnown'
      BY <2>3, <3>3, <3>7 DEF BeginAttempt, BodyPcs
    <3>9. QED
      BY <2>3, <3>6, <3>8 DEF BeginAttempt, Pcs, BodyPcs
  <2>4. ASSUME NEW from \in BodyPcs \cup FinishPcs, from # "first",
               NEW to \in BodyPcs \cup FinishPcs,
               from \in BodyPcs <=> to \in BodyPcs,
               SaveStep(w, from, to)
        PROVE  TypeInv'
    <3>1. /\ snap' \in [Runs -> Snapshot]
          /\ pc' = [pc EXCEPT ![w] = to]
          /\ pc[w] = from /\ mem' = mem
      BY <2>4, <1>0 DEF SaveStep
    <3>2. StageKnown'
      BY <2>4, <3>1 DEF BodyPcs
    <3>3. QED
      BY <2>4, <3>1, <3>2 DEF SaveStep, Pcs
  <2>5. CASE Develop(w)
    <3>1. content' \in [Runs -> Nat]
      BY <2>5, <1>0 DEF Develop
    <3>2. CASE Goto(w, "saveVer") /\ UNCHANGED mem
      BY <2>5, <3>1, <3>2 DEF Develop, Pcs, BodyPcs
    <3>3. CASE Finish(w, "HARD_BREAK")
      BY <2>5, <3>1, <3>3, FinishType DEF Develop, Final, Retryable
    <3>4. QED
      BY <2>5, <3>2, <3>3 DEF Develop
  <2>6. CASE CheckPassed(w)
    BY <2>6, <1>0 DEF CheckPassed, Pcs, BodyPcs
  <2>7. CASE CheckFailed(w)
    BY <2>7, FinishType DEF CheckFailed, Final, Retryable
  <2>8. CASE QaFailed(w)
    BY <2>8, FinishType DEF QaFailed, Final, Retryable
  <2>9. CASE QaVerdict(w)
    <3>1. mem[w].attempt \in Attempts
      BY <2>9 DEF QaVerdict, BodyPcs
    <3>2. PICK v \in Verdicts :
            /\ mem' = [mem EXCEPT ![w].verdicts =
                         Append(@, [attempt |-> mem[w].attempt, verdict |-> v])]
            /\ approved' = IF v = "PASS"
                           THEN [approved EXCEPT ![target[w]] =
                                   @ \cup {reviewed[w]}]
                           ELSE approved
      BY <2>9 DEF QaVerdict
    <3>3. [attempt |-> mem[w].attempt, verdict |-> v] \in QaRecord
      BY <3>1 DEF QaRecord
    <3>4. mem' \in [Threads -> Snapshot]
      BY <3>2, <3>3, <1>0, SnapshotUpdates
    <3>5. approved' \in [Runs -> SUBSET Nat]
      BY <3>2
    <3>6. StageKnown'
      BY <2>9, <3>1, <3>2, <1>0 DEF QaVerdict, BodyPcs, Snapshot
    <3>7. QED
      BY <2>9, <3>4, <3>5, <3>6 DEF QaVerdict, Pcs, BodyPcs
  <2>10. CASE RecordVerdict(w)
    <3>1. LastVerdict(mem[w]) \in Verdicts \cup {"NONE"}
      BY <1>0, LastVerdictType
    <3>2. verdictFiles' \in [Runs -> [Attempts -> Verdicts \cup {"NONE"}]]
      BY <2>10, <3>1, <1>0 DEF RecordVerdict, WriteVerdict
    <3>3. CASE \E st \in Final : Finish(w, st)
      BY <2>10, <3>2, <3>3, FinishType DEF RecordVerdict, WriteVerdict
    <3>4. CASE /\ mem' = mem
               /\ Goto(w, "commit") \/ Goto(w, "saveFail")
      BY <2>10, <3>2, <3>4 DEF RecordVerdict, WriteVerdict, Pcs, BodyPcs
    <3>5. QED
      BY <2>10, <3>3, <3>4 DEF RecordVerdict, WriteVerdict, Final, Retryable
  <2>11. CASE CommitRefused(w)
    BY <2>11, FinishType DEF CommitRefused, Final, Retryable
  <2>12. CASE CommitRecorded(w)
    <3>1. commits' \in [Runs -> SUBSET Nat]
      BY <2>12, <1>0 DEF CommitRecorded, GitCommit
    <3>2. [mem[w] EXCEPT !.commit = TRUE, !.status = "PASS"] \in Snapshot
      BY <1>0, SnapshotUpdates
    <3>3. mem' \in [Threads -> Snapshot]
      BY <2>12, <3>2 DEF CommitRecorded
    <3>4. StageKnown'
      <4>1. mem'[w].status = "PASS" /\ pc'[w] = "finSave"
        BY <2>12, <1>0 DEF CommitRecorded, Snapshot
      <4>2. \A v \in Threads \ {w} : mem'[v] = mem[v] /\ pc'[v] = pc[v]
        BY <2>12 DEF CommitRecorded
      <4>3. QED
        BY <4>1, <4>2 DEF BodyPcs, Final
    <3>5. QED
      BY <2>12, <3>1, <3>3, <3>4
      DEF CommitRecorded, GitCommit, Pcs
  <2>13. CASE CommitUnrecorded(w)
    <3>1. commits' \in [Runs -> SUBSET Nat]
      BY <2>13, <1>0 DEF CommitUnrecorded, GitCommit
    <3>2. QED
      BY <2>13, <3>1, FinishType
      DEF CommitUnrecorded, GitCommit, Final, Retryable
  <2>14. CASE FinRecord(w)
    BY <2>14, <1>0 DEF FinRecord, Pcs, BodyPcs, RecordStates, Snapshot
  <2>15. CASE FinEvent(w)
    BY <2>15, <1>0, InitialSnapshots DEF FinEvent, Pcs, BodyPcs, EndPcs
  <2>16. QED
    BY <1>5, <2>1, <2>2, <2>3, <2>4, <2>5, <2>6, <2>7, <2>8, <2>9, <2>10,
       <2>11, <2>12, <2>13, <2>14, <2>15
    DEF Worker, FinSave, BodyPcs
<1>6. CASE \E r \in Runs : RegisterOwnedProcessGroup(r)
  BY <1>6 DEF RegisterOwnedProcessGroup
<1>7. ASSUME NEW t \in Threads, WorkerFault(t) PROVE TypeInv'
  <2>1. faults' \in 0..MaxFaults
    BY <1>7, BoundAssumption DEF WorkerFault
  <2>2. CASE End(t, "dead")
    BY <1>7, <2>1, <2>2, InitialSnapshots
    DEF WorkerFault, Pcs, BodyPcs, EndPcs
  <2>3. CASE /\ Finish(t, "HARD_BREAK")
             /\ outer' = [outer EXCEPT ![t] = TRUE]
             /\ UNCHANGED reviewed
    BY <1>7, <2>1, <2>3, FinishType DEF WorkerFault, Final, Retryable
  <2>4. QED
    BY <1>7, <2>2, <2>3 DEF WorkerFault
<1>8. ASSUME NEW t \in Threads, HandlerFault(t) PROVE TypeInv'
  BY <1>8, InitialSnapshots, BoundAssumption
  DEF HandlerFault, Pcs, BodyPcs, HandlerPcs, EndPcs
<1>9. CASE Crash
  BY <1>9, InitialSnapshots, BoundAssumption DEF Crash, Pcs, BodyPcs, EndPcs
<1>10. CASE UNCHANGED vars
  BY <1>10 DEF vars
<1>11. QED
  BY <1>1, <1>2, <1>3, <1>4, <1>5, <1>6, <1>7, <1>8, <1>9, <1>10
  DEF Next, Handler, Quiescent

\* Every file, thread and counter of the loop keeps its type, for any number
\* of concurrent requests, exceptions and restarts.
THEOREM TypeCorrect == Spec => []TypeOK
<1>1. TypeInv => TypeOK
  BY DEF TypeInv
<1>2. QED
  BY InitType, NextType, <1>1, PTL DEF Spec

-----------------------------------------------------------------------------
(* Which parts of the state a request or a worker can touch. *)

HandlerOf(t) == \/ t \in Starters /\ Start(t)
                \/ t \in Retriers /\ Retry(t)
                \/ t \in Stoppers /\ Stop(t)
                \/ t \in Owners /\ Owner(t)
                \/ HandlerFault(t)

\* A handler never touches Git, and leaves its thread outside the loop body.
LEMMA HandlerStep ==
  ASSUME TypeInv, NEW t \in Threads, HandlerOf(t)
  PROVE  /\ UNCHANGED <<git, params>>
         /\ \A w \in Threads \ {t} : pc'[w] = pc[w] /\ mem'[w] = mem[w]
         /\ pc'[t] \in {"load"} \cup HandlerPcs \cup EndPcs
<1> USE DEF TypeInv, TypeOK, Goto, End, files, memory, git, params,
            HandlerPcs, EndPcs, Threads, Runs,
            Leave, LoadStep, SaveStep, RecordStep, EventStep
<1>1. CASE t \in Starters /\ Start(t)
  BY <1>1 DEF Start, StartRefused, StartCreate, StartActivate, StartSnapshot,
              StartSpawn
<1>2. CASE t \in Retriers /\ Retry(t)
  BY <1>2 DEF Retry, RetryRefused, RetryLoad, RetrySave, RetryRecord,
              RetrySpawn
<1>3. CASE t \in Stoppers /\ Stop(t)
  BY <1>3 DEF Stop, StopRefused, StopLoad, StopRejected, StopKill, StopSave,
              StopRecord, StopEvent
<1>4. CASE t \in Owners /\ Owner(t)
  BY <1>4 DEF Owner, OwnerRefused, OwnerLoad, OwnerSave, OwnerEvent
<1>5. CASE HandlerFault(t)
  BY <1>5 DEF HandlerFault
<1>6. QED
  BY <1>1, <1>2, <1>3, <1>4, <1>5 DEF HandlerOf

\* A worker leaves the other threads alone, and adds to commits and approved.
LEMMA WorkerStep ==
  ASSUME TypeInv, NEW t \in Threads, Worker(t) \/ WorkerFault(t)
  PROVE  /\ UNCHANGED params
         /\ \A w \in Threads \ {t} : pc'[w] = pc[w] /\ mem'[w] = mem[w]
         /\ \A r \in Runs : /\ commits[r] \subseteq commits'[r]
                            /\ approved[r] \subseteq approved'[r]
<1> USE DEF TypeInv, TypeOK, Goto, End, Finish, GitCommit, git, params,
            Leave, LoadStep, RecordStep, EventStep, FinishStep
<1>0. target[t] \in Runs
  OBVIOUS
<1>1. CASE WorkerFault(t)
  BY <1>1 DEF WorkerFault
<1>2. CASE Worker(t)
  <2>1. CASE Load(t) \/ LeaveStopped(t) \/ BeginAttempt(t)
    BY <2>1 DEF Load, LeaveStopped, BeginAttempt
  <2>2. CASE Develop(t) \/ CheckPassed(t) \/ CheckFailed(t) \/ QaFailed(t)
    BY <2>2 DEF Develop, CheckPassed, CheckFailed, QaFailed
  <2>3. ASSUME NEW from, NEW to, SaveStep(t, from, to)
        PROVE  /\ UNCHANGED <<git, params, mem>>
               /\ pc' = [pc EXCEPT ![t] = to]
    BY <2>3 DEF SaveStep
  <2>4. CASE QaVerdict(t)
    BY <2>4, <1>0 DEF QaVerdict
  <2>5. CASE RecordVerdict(t)
    <3>1. /\ UNCHANGED <<git, params>>
          /\ \/ \E l \in Pcs : Goto(t, l) /\ UNCHANGED mem
             \/ \E st \in Final : Finish(t, st)
      BY <2>5 DEF RecordVerdict, WriteVerdict, Final, Retryable, Pcs, BodyPcs
    <3>2. CASE \E l \in Pcs : Goto(t, l) /\ UNCHANGED mem
      BY <3>1, <3>2
    <3>3. CASE \E st \in Final : Finish(t, st)
      BY <3>1, <3>3
    <3>4. QED
      BY <3>1, <3>2, <3>3
  <2>6. CASE CommitRefused(t) \/ CommitRecorded(t) \/ CommitUnrecorded(t)
    <3>1. \A w \in Threads \ {t} : pc'[w] = pc[w] /\ mem'[w] = mem[w]
      BY <2>6 DEF CommitRefused, CommitRecorded, CommitUnrecorded
    <3>2. UNCHANGED params /\ UNCHANGED approved
      BY <2>6 DEF CommitRefused, CommitRecorded, CommitUnrecorded
    <3>3. UNCHANGED commits \/ GitCommit(target[t])
      BY <2>6 DEF CommitRefused, CommitRecorded, CommitUnrecorded
    <3>4. \A r \in Runs : commits[r] \subseteq commits'[r]
      BY <3>3, <1>0
    <3>5. QED
      BY <3>1, <3>2, <3>4
  <2>7. CASE FinRecord(t) \/ FinEvent(t)
    BY <2>7 DEF FinRecord, FinEvent
  <2>8. QED
    BY <1>2, <2>1, <2>2, <2>3, <2>4, <2>5, <2>6, <2>7 DEF Worker, FinSave
<1>3. QED
  BY <1>1, <1>2

\* What the verdict of the QA process makes of a worker's snapshot.
LEMMA QaVerdictStep ==
  ASSUME TypeInv, NEW w \in Threads, QaVerdict(w)
  PROVE  \E v \in Verdicts :
           /\ mem'[w].verdicts =
                Append(mem[w].verdicts, [attempt |-> mem[w].attempt, verdict |-> v])
           /\ LastVerdict(mem'[w]) = v
           /\ \A f \in {"status", "attempt", "commit"} : mem'[w][f] = mem[w][f]
           /\ approved' = IF v = "PASS"
                          THEN [approved EXCEPT ![target[w]] = @ \cup {reviewed[w]}]
                          ELSE approved
<1>1. PICK v \in Verdicts :
        /\ mem' = [mem EXCEPT ![w].verdicts =
                     Append(@, [attempt |-> mem[w].attempt, verdict |-> v])]
        /\ approved' = IF v = "PASS"
                       THEN [approved EXCEPT ![target[w]] = @ \cup {reviewed[w]}]
                       ELSE approved
  BY DEF QaVerdict
<1>2. mem[w] \in Snapshot /\ mem \in [Threads -> Snapshot]
  BY DEF TypeInv, TypeOK
<1>3. mem[w].verdicts \in Seq(QaRecord)
  BY <1>2 DEF Snapshot
<1>4. mem[w].attempt \in Attempts
  BY DEF QaVerdict, TypeInv, StageKnown, BodyPcs
<1> DEFINE q == [attempt |-> mem[w].attempt, verdict |-> v]
           old == mem[w].verdicts
<1>5. q \in QaRecord
  BY <1>4 DEF QaRecord
<1>6. /\ mem'[w].verdicts = Append(old, q)
      /\ \A f \in {"status", "attempt", "commit"} : mem'[w][f] = mem[w][f]
  BY <1>1, <1>2 DEF Snapshot
<1>7. /\ Len(Append(old, q)) = Len(old) + 1
      /\ Append(old, q)[Len(old) + 1] = q
      /\ Append(old, q) # <<>>
  BY <1>3, <1>5, AppendProperties
<1>8. LastVerdict(mem'[w]) = v
  BY <1>6, <1>7 DEF LastVerdict
<1>9. QED
  BY <1>1, <1>6, <1>8

-----------------------------------------------------------------------------
(* No commit before a QA PASS. *)

\* A worker goes to the commit only on a PASS, and when it holds a PASS some
\* version was approved.  Without this the property is not inductive.
CommitBacked ==
  \A w \in Threads :
    \/ pc[w] = "commit"
    \/ pc[w] = "recordVerdict" /\ LastVerdict(mem[w]) = "PASS"
    => approved[target[w]] # {}

GateInv == CommitBacked /\ CommitAfterPass

LEMMA InitGate == Init => GateInv
BY DEF Init, GateInv, CommitBacked, CommitAfterPass, Threads, Runs

\* A step that keeps the branches and takes no thread near the commit.
LEMMA GateKept ==
  ASSUME TypeInv, GateInv, NEW t \in Threads, UNCHANGED params,
         UNCHANGED commits,
         \A r \in Runs : approved[r] \subseteq approved'[r],
         \A w \in Threads \ {t} : pc'[w] = pc[w] /\ mem'[w] = mem[w],
         pc'[t] \notin {"commit", "recordVerdict"}
  PROVE  GateInv'
<1>1. CommitAfterPass'
  BY DEF GateInv, CommitAfterPass
<1>2. ASSUME NEW w \in Threads,
             \/ pc'[w] = "commit"
             \/ pc'[w] = "recordVerdict" /\ LastVerdict(mem'[w]) = "PASS"
      PROVE  approved'[target'[w]] # {}
  <2>1. w # t /\ target'[w] = target[w] /\ target[w] \in Runs
    BY <1>2 DEF params, TypeInv, TypeOK
  <2>2. pc'[w] = pc[w] /\ mem'[w] = mem[w]
    BY <2>1
  <2>3. approved[target[w]] # {}
    BY <1>2, <2>2 DEF GateInv, CommitBacked
  <2>4. QED
    BY <2>1, <2>3
<1>3. CommitBacked'
  BY <1>2 DEF CommitBacked, LastVerdict
<1>4. QED
  BY <1>1, <1>3 DEF GateInv

LEMMA NextGate == TypeInv /\ GateInv /\ [Next]_vars => GateInv'
<1> SUFFICES ASSUME TypeInv, GateInv, [Next]_vars PROVE GateInv'
  OBVIOUS
<1>0. \A t \in Threads : target[t] \in Runs
  BY DEF TypeInv, TypeOK
<1>1. ASSUME NEW t \in Threads, HandlerOf(t) PROVE GateInv'
  <2>1. pc'[t] \notin {"commit", "recordVerdict"}
    BY <1>1, HandlerStep DEF HandlerPcs, EndPcs
  <2>2. /\ UNCHANGED <<commits, approved, params>>
        /\ \A w \in Threads \ {t} : pc'[w] = pc[w] /\ mem'[w] = mem[w]
    BY <1>1, HandlerStep DEF git
  <2>3. QED
    BY <2>1, <2>2, GateKept
<1>2. ASSUME NEW t \in Threads, Worker(t) \/ WorkerFault(t) PROVE GateInv'
  <2> USE <1>2, WorkerStep
  <2>1. CASE UNCHANGED commits /\ pc'[t] \notin {"commit", "recordVerdict"}
    BY <2>1, GateKept
  <2>2. CASE QaVerdict(t)
    <3>1. PICK v \in Verdicts :
            /\ LastVerdict(mem'[t]) = v
            /\ approved' = IF v = "PASS"
                           THEN [approved EXCEPT ![target[t]] = @ \cup {reviewed[t]}]
                           ELSE approved
      BY <2>2, QaVerdictStep
    <3>3. approved \in [Runs -> SUBSET Nat] /\ UNCHANGED <<commits, params>>
      BY <2>2 DEF QaVerdict, TypeInv, TypeOK
    <3>4. v = "PASS" => approved'[target[t]] # {}
      BY <3>1, <3>3, <1>0
    <3>5. \A w \in Threads : approved[target[w]] # {} => approved'[target[w]] # {}
      BY <1>0
    <3>6. pc'[t] = "recordVerdict"
      BY <2>2 DEF QaVerdict, Goto, TypeInv, TypeOK
    <3>7. CommitBacked'
      BY <3>1, <3>3, <3>4, <3>5, <3>6
      DEF GateInv, CommitBacked, LastVerdict, params
    <3>8. CommitAfterPass'
      BY <3>3 DEF GateInv, CommitAfterPass
    <3>9. QED
      BY <3>7, <3>8 DEF GateInv
  <2>3. CASE RecordVerdict(t)
    <3>1. UNCHANGED <<commits, approved, params>> /\ pc[t] = "recordVerdict"
      BY <2>3 DEF RecordVerdict, WriteVerdict, git
    <3>2. \/ pc'[t] = "commit" /\ LastVerdict(mem[t]) = "PASS"
          \/ pc'[t] \notin {"commit", "recordVerdict"}
      BY <2>3 DEF RecordVerdict, WriteVerdict, Accepts, Finish, Goto, TypeInv, TypeOK
    <3>3. pc'[t] = "commit" => approved[target[t]] # {}
      BY <3>1, <3>2 DEF GateInv, CommitBacked
    <3>4. CommitBacked'
      BY <3>1, <3>2, <3>3 DEF GateInv, CommitBacked, LastVerdict, params
    <3>5. QED
      BY <3>1, <3>4 DEF GateInv, CommitAfterPass
  <2>4. CASE CommitRecorded(t) \/ CommitUnrecorded(t)
    <3>1. /\ UNCHANGED <<approved, params>>
          /\ \A r \in Runs : r # target[t] => commits'[r] = commits[r]
          /\ pc[t] = "commit" /\ pc'[t] = "finSave"
      BY <2>4, <1>0
      DEF CommitRecorded, CommitUnrecorded, GitCommit, Finish, Goto, TypeInv,
          TypeOK
    <3>2. approved[target[t]] # {}
      BY <3>1 DEF GateInv, CommitBacked
    <3>3. CommitAfterPass'
      BY <3>1, <3>2 DEF GateInv, CommitAfterPass
    <3>4. CommitBacked'
      BY <3>1 DEF GateInv, CommitBacked, LastVerdict, params
    <3>5. QED
      BY <3>3, <3>4 DEF GateInv
  <2>5. CASE \/ Load(t) \/ LeaveStopped(t) \/ BeginAttempt(t) \/ Develop(t)
             \/ CheckPassed(t) \/ CheckFailed(t) \/ QaFailed(t)
             \/ CommitRefused(t) \/ FinRecord(t) \/ FinEvent(t)
             \/ WorkerFault(t)
    <3>1. UNCHANGED commits /\ pc'[t] \notin {"commit", "recordVerdict"}
      BY <2>5
      DEF Load, LeaveStopped, BeginAttempt, Develop, CheckPassed, CheckFailed,
          QaFailed, CommitRefused, FinRecord, FinEvent, WorkerFault, Finish,
          Leave, LoadStep, RecordStep, EventStep, FinishStep, End, Goto, git, TypeInv, TypeOK
    <3>2. QED
      BY <2>1, <3>1
  <2>6. ASSUME NEW from, NEW to, SaveStep(t, from, to),
               to \notin {"commit", "recordVerdict"}
        PROVE  GateInv'
    <3>1. UNCHANGED commits /\ pc'[t] = to
      BY <2>6 DEF SaveStep, Goto, git, TypeInv, TypeOK
    <3>2. QED
      BY <2>1, <2>6, <3>1
  <2>7. QED
    BY <2>2, <2>3, <2>4, <2>5, <2>6 DEF Worker, FinSave
<1>3. CASE \E r \in Runs : RegisterOwnedProcessGroup(r)
  BY <1>3 DEF RegisterOwnedProcessGroup, GateInv, CommitBacked,
              CommitAfterPass, LastVerdict, git, threads, params
<1>4. CASE Crash
  <2>1. UNCHANGED <<commits, approved>>
    BY <1>4 DEF Crash, git
  <2>2. \A t \in Threads : pc'[t] \notin {"commit", "recordVerdict"}
    BY <1>4 DEF Crash, EndPcs
  <2>3. QED
    BY <2>1, <2>2 DEF GateInv, CommitBacked, CommitAfterPass
<1>5. CASE UNCHANGED vars
  BY <1>5 DEF vars, git, threads, params, GateInv, CommitBacked,
              CommitAfterPass, LastVerdict
<1>6. QED
  BY <1>1, <1>2, <1>3, <1>4, <1>5
  DEF Next, Handler, HandlerOf, Quiescent, Threads

\* The gate of the loop: whatever the interleaving of starts, retries, stops,
\* owner actions, exceptions and restarts, a Run's branch has no commit unless
\* QA passed some version of it (RecordVerdict is the only way to the commit).
THEOREM CommitNeedsPass == Spec => []CommitAfterPass
<1>1. GateInv => CommitAfterPass
  BY DEF GateInv
<1>2. QED
  BY InitType, NextType, InitGate, NextGate, <1>1, PTL DEF Spec

-----------------------------------------------------------------------------
(* A PASS that a user sees has a commit behind it. *)

HasPass(s) == \E i \in DOMAIN s.verdicts : s.verdicts[i].verdict = "PASS"

\* What must hold of every copy of Run r's snapshot, in the file or in the
\* memory of a thread that may write it back later.
Backed(s, r) == PassEvidence(s) /\ (s.status = "PASS" => commits[r] # {})

DeliveryInv ==
  /\ \A r \in Runs :
       /\ Backed(snap[r], r)
       /\ record[r] = "PASS" => commits[r] # {}
       /\ "PASS" \in announced[r] => commits[r] # {}
  /\ \A t \in Threads :
       /\ Backed(mem[t], target[t])
       /\ pc[t] = "commit" => HasPass(mem[t])

SameFacts(a, b) == /\ a.status = b.status
                   /\ a.commit = b.commit
                   /\ a.verdicts = b.verdicts

LEMMA InitDelivery == Init => DeliveryInv
BY DEF Init, DeliveryInv, Backed, PassEvidence, NoSnapshot, Threads, Runs

\* The files say PASS only if they did before or if the thread that writes
\* them holds a PASS; the snapshot file receives what the thread holds.
LEMMA FileStep ==
  ASSUME TypeInv, NEW t \in Threads,
         HandlerOf(t) \/ Worker(t) \/ WorkerFault(t)
  PROVE  \A r \in Runs :
           /\ snap'[r] = snap[r] \/ (r = target[t] /\ snap'[r] = mem[t])
           /\ record'[r] = "PASS" =>
                record[r] = "PASS" \/ (r = target[t] /\ mem[t].status = "PASS")
           /\ "PASS" \in announced'[r] =>
                \/ "PASS" \in announced[r]
                \/ r = target[t] /\ mem[t].status = "PASS"
<1> USE DEF TypeInv, TypeOK, files, Save, UpdateState,
            Leave, LoadStep, SaveStep, RecordStep, EventStep, FinishStep
<1>1. CASE HandlerOf(t)
  BY <1>1
  DEF HandlerOf, HandlerFault,
      Start, StartRefused, StartCreate, StartActivate, StartSnapshot, StartSpawn,
      Retry, RetryRefused, RetryLoad, RetrySave, RetryRecord, RetrySpawn,
      Stop, StopRefused, StopLoad, StopRejected, StopKill, StopSave, StopRecord,
      StopEvent,
      Owner, OwnerRefused, OwnerLoad, OwnerSave, OwnerEvent
<1>2. CASE WorkerFault(t)
  BY <1>2 DEF WorkerFault
<1>3. CASE Worker(t)
  <2>1. ASSUME NEW from, NEW to, SaveStep(t, from, to)
        PROVE  /\ UNCHANGED <<record, announced>>
               /\ \A r \in Runs : \/ snap'[r] = snap[r]
                                  \/ r = target[t] /\ snap'[r] = mem[t]
    BY <2>1
  <2>2. CASE FinRecord(t) \/ FinEvent(t) \/ RecordVerdict(t)
    BY <2>2 DEF FinRecord, FinEvent, RecordVerdict, WriteVerdict
  <2>3. CASE UNCHANGED files
    BY <2>3
  <2>4. QED
    BY <1>3, <2>1, <2>2, <2>3
    DEF Worker, FinSave, Load, LeaveStopped, BeginAttempt, Develop,
        CheckPassed, CheckFailed, QaFailed, QaVerdict, CommitRefused,
        CommitRecorded, CommitUnrecorded
<1>4. QED
  BY <1>1, <1>2, <1>3

\* What a thread holds says PASS only if it did before, or if the snapshot it
\* has just read says so; the verdict and the commit are steps of their own.
LEMMA MemStep ==
  ASSUME TypeInv, NEW t \in Threads,
         HandlerOf(t) \/ Worker(t) \/ WorkerFault(t),
         ~QaVerdict(t), ~CommitRecorded(t)
  PROVE  \/ mem'[t].status # "PASS"
         \/ SameFacts(mem'[t], mem[t])
         \/ SameFacts(mem'[t], snap[target[t]])
<1>0. /\ mem \in [Threads -> Snapshot]
      /\ mem[t] \in Snapshot
      /\ snap[target[t]] \in Snapshot
  BY DEF TypeInv, TypeOK
<1>1. CASE HandlerOf(t)
  <2> USE <1>0 DEF End, SameFacts, Snapshot, NoSnapshot,
                  Leave, LoadStep, SaveStep, RecordStep, EventStep
  <2>1. CASE t \in Starters /\ Start(t)
    BY <2>1
    DEF Start, StartRefused, StartCreate, StartActivate, StartSnapshot,
        StartSpawn, InitialState
  <2>2. CASE t \in Retriers /\ Retry(t)
    BY <2>2
    DEF Retry, RetryRefused, RetryLoad, RetrySave, RetryRecord, RetrySpawn,
        Reactivated
  <2>3. CASE t \in Stoppers /\ Stop(t)
    BY <2>3
    DEF Stop, StopRefused, StopLoad, StopRejected, StopKill, StopSave,
        StopRecord, StopEvent
  <2>4. CASE t \in Owners /\ Owner(t)
    BY <2>4 DEF Owner, OwnerRefused, OwnerLoad, OwnerSave, OwnerEvent
  <2>5. CASE HandlerFault(t)
    BY <2>5 DEF HandlerFault
  <2>6. QED
    BY <1>1, <2>1, <2>2, <2>3, <2>4, <2>5 DEF HandlerOf
<1>2. ASSUME NEW st \in Final \ {"PASS"}, Finish(t, st)
      PROVE  mem'[t].status # "PASS"
  BY <1>0, <1>2 DEF Finish, Snapshot
<1>3. CASE UNCHANGED mem
  BY <1>3 DEF SameFacts
<1>4. ASSUME NEW l, End(t, l) PROVE mem'[t].status # "PASS"
  BY <1>0, <1>4 DEF End, NoSnapshot
<1>5. CASE WorkerFault(t)
  BY <1>2, <1>4, <1>5 DEF WorkerFault, Final, Retryable
<1>6. CASE Worker(t)
  <2>1. CASE Load(t)
    BY <1>0, <2>1 DEF Load, LoadStep, SameFacts
  <2>2. CASE BeginAttempt(t)
    BY <1>0, <2>2 DEF BeginAttempt, LoadStep, SameFacts, Snapshot
  <2>3. CASE LeaveStopped(t) \/ FinEvent(t)
    BY <1>4, <2>3 DEF LeaveStopped, FinEvent, Leave, EventStep
  <2>4. CASE Develop(t)
    BY <1>2, <1>3, <2>4 DEF Develop, Final, Retryable
  <2>5. CASE CheckFailed(t) \/ QaFailed(t) \/ CommitRefused(t)
    BY <1>2, <2>5
    DEF CheckFailed, QaFailed, CommitRefused, FinishStep, Final, Retryable
  <2>6. CASE CommitUnrecorded(t)
    BY <1>2, <2>6 DEF CommitUnrecorded, Final, Retryable
  <2>7. CASE RecordVerdict(t)
    BY <1>2, <1>3, <2>7 DEF RecordVerdict, WriteVerdict, Final, Retryable
  <2>8. CASE CheckPassed(t) \/ FinRecord(t)
    BY <1>3, <2>8 DEF CheckPassed, FinRecord, RecordStep
  <2>9. ASSUME NEW from, NEW to, SaveStep(t, from, to)
        PROVE  UNCHANGED mem
    BY <2>9 DEF SaveStep
  <2>10. QED
    BY <1>3, <1>6, <2>1, <2>2, <2>3, <2>4, <2>5, <2>6, <2>7, <2>8, <2>9
    DEF Worker, FinSave
<1>7. QED
  BY <1>1, <1>5, <1>6

\* A worker enters the commit with the snapshot it had, which ends in a PASS.
LEMMA CommitEntry ==
  ASSUME TypeInv, NEW t \in Threads,
         HandlerOf(t) \/ Worker(t) \/ WorkerFault(t), pc'[t] = "commit"
  PROVE  mem'[t] = mem[t] /\ HasPass(mem[t])
<1>1. ~HandlerOf(t)
  BY HandlerStep DEF HandlerPcs, EndPcs
<1>2. RecordVerdict(t) /\ UNCHANGED mem
  <2> USE DEF TypeInv, TypeOK, Goto, End, Finish,
              Leave, LoadStep, RecordStep, EventStep, FinishStep
  <2>1. ~WorkerFault(t)
    BY DEF WorkerFault
  <2>2. \A from, to : SaveStep(t, from, to) => pc'[t] = to
    BY DEF SaveStep
  <2>3. RecordVerdict(t)
    BY <1>1, <2>1, <2>2
    DEF Worker, FinSave, Load, LeaveStopped, BeginAttempt, Develop,
        CheckPassed, CheckFailed, QaFailed, QaVerdict, CommitRefused,
        CommitRecorded, CommitUnrecorded, FinRecord, FinEvent
  <2>4. QED
    BY <2>3 DEF RecordVerdict, WriteVerdict
<1>3. LastVerdict(mem[t]) = "PASS"
  BY <1>2 DEF RecordVerdict, WriteVerdict, Accepts, Goto, Finish, TypeInv, TypeOK
<1>4. mem[t].verdicts \in Seq(QaRecord)
  BY DEF TypeInv, TypeOK, Snapshot
<1>5. /\ mem[t].verdicts # <<>>
      /\ mem[t].verdicts[Len(mem[t].verdicts)].verdict = "PASS"
  BY <1>3 DEF LastVerdict
<1>6. Len(mem[t].verdicts) \in DOMAIN mem[t].verdicts
  BY <1>4, <1>5, EmptySeq
<1>7. QED
  BY <1>2, <1>5, <1>6 DEF HasPass

LEMMA NextDelivery == TypeInv /\ DeliveryInv /\ [Next]_vars => DeliveryInv'
<1> SUFFICES ASSUME TypeInv, DeliveryInv, [Next]_vars PROVE DeliveryInv'
  OBVIOUS
<1>0. /\ \A t \in Threads : target[t] \in Runs
      /\ mem \in [Threads -> Snapshot]
      /\ commits \in [Runs -> SUBSET Nat]
  BY DEF TypeInv, TypeOK
<1>1. ASSUME NEW t \in Threads, HandlerOf(t) \/ Worker(t) \/ WorkerFault(t)
      PROVE  DeliveryInv'
  <2>1. /\ UNCHANGED target
        /\ \A w \in Threads \ {t} : pc'[w] = pc[w] /\ mem'[w] = mem[w]
        /\ \A r \in Runs : commits[r] \subseteq commits'[r]
    BY <1>1, HandlerStep, WorkerStep DEF params, git
  <2>2. \A s, r : r \in Runs /\ Backed(s, r) => Backed(s, r)'
    BY <2>1 DEF Backed
  <2>3. Backed(mem[t], target[t])'
    <3>1. CASE QaVerdict(t)
      <4>1. PICK q \in QaRecord :
              mem' = [mem EXCEPT ![t].verdicts = Append(@, q)]
        BY <3>1
        DEF QaVerdict, QaRecord, TypeInv, StageKnown, BodyPcs
      <4> DEFINE old == mem[t].verdicts
      <4>2. old \in Seq(QaRecord)
        BY <1>0 DEF Snapshot
      <4>3. \A i \in DOMAIN old :
              i \in DOMAIN Append(old, q) /\ Append(old, q)[i] = old[i]
        BY <4>2, AppendProperties
      <4>4. /\ mem'[t].status = mem[t].status
            /\ mem'[t].commit = mem[t].commit
            /\ mem'[t].verdicts = Append(old, q)
        BY <4>1, <1>0 DEF Snapshot
      <4>5. Backed(mem[t], target[t])
        BY DEF DeliveryInv
      <4>6. PassEvidence(mem'[t])
        BY <4>3, <4>4, <4>5 DEF Backed, PassEvidence
      <4>7. QED
        BY <4>4, <4>5, <4>6, <2>1, <1>0 DEF Backed
    <3>2. CASE CommitRecorded(t)
      <4>1. /\ mem'[t].commit = TRUE
            /\ mem'[t].verdicts = mem[t].verdicts
        BY <3>2, <1>0 DEF CommitRecorded, Snapshot
      <4>2. HasPass(mem[t])
        BY <3>2 DEF CommitRecorded, DeliveryInv
      <4>3. commits'[target[t]] # {}
        BY <3>2, <1>0 DEF CommitRecorded, GitCommit
      <4>4. QED
        BY <4>1, <4>2, <4>3, <2>1 DEF Backed, PassEvidence, HasPass
    <3>3. CASE ~QaVerdict(t) /\ ~CommitRecorded(t)
      <4>1. \/ mem'[t].status # "PASS"
            \/ SameFacts(mem'[t], mem[t])
            \/ SameFacts(mem'[t], snap[target[t]])
        BY <1>1, <3>3, MemStep
      <4>2. Backed(mem[t], target[t]) /\ Backed(snap[target[t]], target[t])
        BY <1>0 DEF DeliveryInv
      <4>3. QED
        BY <4>1, <4>2, <2>1, <1>0 DEF Backed, PassEvidence, SameFacts
    <3>4. QED
      BY <3>1, <3>2, <3>3
  <2>4. ASSUME NEW r \in Runs
        PROVE  /\ Backed(snap[r], r)'
               /\ record'[r] = "PASS" => commits'[r] # {}
               /\ "PASS" \in announced'[r] => commits'[r] # {}
    BY <1>1, <2>1, <2>2, FileStep DEF DeliveryInv, Backed
  <2>5. ASSUME NEW w \in Threads
        PROVE  /\ Backed(mem[w], target[w])'
               /\ pc'[w] = "commit" => HasPass(mem'[w])
    <3>1. CASE w = t
      BY <1>1, <2>3, <3>1, CommitEntry
    <3>2. CASE w # t
      BY <1>0, <2>1, <2>2, <3>2 DEF DeliveryInv
    <3>3. QED
      BY <3>1, <3>2
  <2>6. QED
    BY <2>4, <2>5 DEF DeliveryInv, Backed, HasPass
<1>2. CASE \E r \in Runs : RegisterOwnedProcessGroup(r)
  BY <1>2 DEF RegisterOwnedProcessGroup, DeliveryInv, Backed, PassEvidence,
              HasPass, files, git, threads, params
<1>3. CASE Crash
  BY <1>3 DEF Crash, DeliveryInv, Backed, PassEvidence, NoSnapshot, EndPcs,
              files, git, params
<1>4. CASE UNCHANGED vars
  BY <1>4 DEF vars, DeliveryInv, Backed, PassEvidence, HasPass, files, git,
              threads, params
<1>5. QED
  BY <1>1, <1>2, <1>3, <1>4 DEF Next, Handler, HandlerOf, Quiescent, Threads

\* PASS in the RunRecord, in the snapshot or on the timeline means that the
\* Run's branch has a commit, and a PASS snapshot holds the passing verdict and
\* the commit, whatever stale snapshot is written back by whom.
THEOREM DeliveryCorrect == Spec => []DeliveredIsCommitted
<1>1. DeliveryInv => DeliveredIsCommitted
  BY DEF DeliveryInv, DeliveredIsCommitted, Backed
<1>2. QED
  BY InitType, NextType, InitDelivery, NextDelivery, <1>1, PTL DEF Spec

=============================================================================
