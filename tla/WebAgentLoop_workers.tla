------------------------ MODULE WebAgentLoop_workers ------------------------
(***************************************************************************)
(* Proofs about the threads of a Run: a Run starts alone, has one worker,  *)
(* and keeps what that worker found out.                                   *)
(***************************************************************************)
EXTENDS WebAgentLoop_proofs

-----------------------------------------------------------------------------
(* Places: where a thread can be, and where a step takes it. *)

Workers   == Starters \cup Retriers
StartPcs  == {"activate", "snapshot", "spawn"}
RetryPcs  == {"retrySave", "retryRecord", "retrySpawn"}
StopPcs   == {"stopKill", "stopSave", "stopRecord", "stopEvent"}
OwnerPcs  == {"ownerSave", "ownerEvent"}
WorkerPcs == {"load"} \cup BodyPcs \cup FinishPcs
Idle      == {"new"} \cup EndPcs

\* A thread is only where its own request leads.
Placed(t, l) == /\ l \in StartPcs => t \in Starters
                /\ l \in RetryPcs => t \in Retriers
                /\ l \in StopPcs => t \in Stoppers
                /\ l \in OwnerPcs => t \in Owners
                /\ l \in WorkerPcs => t \in Workers

\* A worker stays a worker to its end.
LEMMA WorkerPlace ==
  ASSUME TypeInv, NEW w \in Workers, Worker(w)
  PROVE  /\ pc[w] \in WorkerPcs
         /\ pc'[w] \in WorkerPcs \cup EndPcs
         /\ pc'[w] # "load"
         /\ pc[w] \in FinishPcs => pc'[w] \in {"finRecord", "finEvent"} \cup EndPcs
         /\ UNCHANGED <<lock, params>>
<1> USE DEF TypeInv, TypeOK, WorkerPcs, BodyPcs, FinishPcs, EndPcs, Goto, End,
            Finish, memory, Leave, LoadStep, SaveStep, RecordStep, EventStep,
            FinishStep
<1>0. w \in Threads
  BY DEF Workers, Threads
<1>1. CASE Load(w) \/ LeaveStopped(w) \/ BeginAttempt(w) \/ FinRecord(w) \/ FinEvent(w)
  BY <1>0, <1>1 DEF Load, LeaveStopped, BeginAttempt, FinRecord, FinEvent
<1>2. CASE Develop(w) \/ CheckPassed(w) \/ CheckFailed(w) \/ QaFailed(w)
  BY <1>0, <1>2 DEF Develop, CheckPassed, CheckFailed, QaFailed
<1>3. CASE QaVerdict(w) \/ RecordVerdict(w)
  BY <1>0, <1>3 DEF QaVerdict, RecordVerdict
<1>4. CASE CommitRefused(w) \/ CommitRecorded(w) \/ CommitUnrecorded(w)
  BY <1>0, <1>4 DEF CommitRefused, CommitRecorded, CommitUnrecorded
<1>5. CASE \/ SaveStep(w, "saveDev", "develop") \/ SaveStep(w, "saveVer", "check")
           \/ SaveStep(w, "saveQa", "qa") \/ SaveStep(w, "saveFail", "top")
           \/ FinSave(w)
  BY <1>0, <1>5 DEF FinSave
<1>6. QED
  BY <1>1, <1>2, <1>3, <1>4, <1>5 DEF Worker

\* What a worker writes of its Run, and what of it comes from the worker.
LEMMA WorkerFiles ==
  ASSUME TypeInv, NEW w \in Workers, Worker(w)
  PROVE  /\ \A r \in Runs : r # target[w] => snap'[r] = snap[r] /\ record'[r] = record[r]
         /\ \/ snap' = snap
            \/ /\ pc[w] \in {"saveDev", "saveVer", "saveQa", "saveFail", "finSave"}
               /\ snap'[target[w]] = mem[w]
               /\ UNCHANGED <<mem, verdictFiles, content, approved, reviewed>>
         /\ record'[target[w]] \in {record[target[w]]} \cup Final
<1> USE DEF TypeInv, TypeOK, files, git, Save, UpdateState, Leave, LoadStep, SaveStep,
            RecordStep, EventStep, FinishStep
<1>0. w \in Threads /\ target[w] \in Runs
  BY DEF Workers, Threads
<1>1. CASE FinRecord(w)
  <2>1. mem[w].status \in Final
    BY <1>0, <1>1 DEF FinRecord, StageKnown, FinishPcs
  <2>2. QED
    BY <1>0, <1>1, <2>1 DEF FinRecord
<1>2. CASE \/ SaveStep(w, "saveDev", "develop") \/ SaveStep(w, "saveVer", "check")
           \/ SaveStep(w, "saveQa", "qa") \/ SaveStep(w, "saveFail", "top")
           \/ FinSave(w)
  BY <1>0, <1>2 DEF FinSave
<1>3. CASE UNCHANGED <<record, snap>>
  BY <1>3
<1>4. QED
  BY <1>1, <1>2, <1>3
  DEF Worker, Load, LeaveStopped, BeginAttempt, Develop, CheckPassed, CheckFailed, QaFailed,
      QaVerdict, RecordVerdict, CommitRefused, CommitRecorded, CommitUnrecorded, FinEvent

-----------------------------------------------------------------------------
(* Starts exclude each other, whatever else happens. *)

\* A start or a retry holds the lock.
LockHeld ==
  \A t \in Threads : /\ pc[t] \in LockPcs => lock = t
                     /\ Placed(t, pc[t])

\* A Run that is not ACTIVE yet belongs to its start request alone, and while
\* that request is between the check and the write no Run of the issue is
\* ACTIVE.
StartInv ==
  /\ LockHeld
  /\ \A q \in Starters : pc[q] = "new" => record[q] = "NONE"
  /\ \A r \in Runs : snap[r].status # "NONE" => record[r] \notin {"NONE", "CREATED"}
  /\ \A t \in Threads : pc[t] \notin Idle \cup {"activate"}
                          => record[target[t]] \notin {"NONE", "CREATED"}
  /\ \A q \in Starters : pc[q] = "activate" => ~ActiveFor(issueOf[q])

LEMMA InitStart == Init => StartInv
<1> SUFFICES ASSUME Init PROVE StartInv
  OBVIOUS
<1>1. \A t \in Threads : pc[t] \in {"new", "done"}
  BY DEF Init
<1>2. QED
  BY <1>1
  DEF Init, StartInv, LockHeld, Placed, StartPcs, RetryPcs, StopPcs, OwnerPcs, WorkerPcs,
              LockPcs, BodyPcs, FinishPcs, Idle, EndPcs, NoSnapshot, Threads, Runs

\* The lock survives a step that does not come near it.
LEMMA LockKept ==
  ASSUME LockHeld, NEW t \in Threads, UNCHANGED lock, \A u \in Threads \ {t} : pc'[u] = pc[u],
         pc'[t] \notin LockPcs, Placed(t, pc'[t])
  PROVE  LockHeld'
BY DEF LockHeld, Placed

\* A thread that ends, or that works on a Run that exists and makes no Run
\* ACTIVE, takes no part in a start.
LEMMA StartKept ==
  ASSUME TypeInv, StartInv, LockHeld', NEW t \in Threads, UNCHANGED params,
         \A u \in Threads \ {t} : pc'[u] = pc[u],
         pc'[t] \notin {"new", "activate"},
         \/ pc'[t] \in EndPcs /\ UNCHANGED <<record, snap>>
         \/ /\ record[target[t]] \notin {"NONE", "CREATED"}
            /\ \A r \in Runs : r # target[t] => snap'[r] = snap[r] /\ record'[r] = record[r]
            /\ record'[target[t]] \in {record[target[t]]} \cup Final
  PROVE  StartInv'
<1>0. target[t] \in Runs /\ UNCHANGED <<target, issueOf>>
  BY DEF TypeInv, TypeOK, params
<1>1. \A r \in Runs : /\ record'[r] = "ACTIVE" => record[r] = "ACTIVE"
                      /\ record[r] \in {"NONE", "CREATED"} =>
                           record'[r] = record[r] /\ snap'[r] = snap[r]
                      /\ record[r] \notin {"NONE", "CREATED"} =>
                           record'[r] \notin {"NONE", "CREATED"}
  BY <1>0 DEF Final, Retryable
<1>2. \A q \in Starters : pc'[q] = "new" => record'[q] = "NONE"
  <2>1. \A q \in Starters : pc'[q] = "new" => pc[q] = "new" /\ q \in Runs /\ record[q] = "NONE"
    BY DEF StartInv, Threads, Runs
  <2>2. QED
    BY <1>1, <2>1
<1>3. \A r \in Runs : snap'[r].status # "NONE" => record'[r] \notin {"NONE", "CREATED"}
  BY <1>1 DEF StartInv
<1>4. \A u \in Threads : pc'[u] \notin Idle \cup {"activate"}
                          => record'[target'[u]] \notin {"NONE", "CREATED"}
  <2>1. ASSUME NEW u \in Threads, pc'[u] \notin Idle \cup {"activate"}
        PROVE  record[target[u]] \notin {"NONE", "CREATED"}
    BY <2>1 DEF StartInv, Idle
  <2>2. \A u \in Threads : target[u] \in Runs /\ target'[u] = target[u]
    BY <1>0 DEF TypeInv, TypeOK
  <2>3. QED
    BY <1>1, <2>1, <2>2
<1>5. \A q \in Starters : pc'[q] = "activate" => ~ActiveFor(issueOf[q])'
  <2>1. ASSUME NEW q \in Starters, pc'[q] = "activate"
        PROVE  ~ActiveFor(issueOf[q])'
    <3>1. pc[q] = "activate"
      BY <2>1 DEF Threads
    <3>2. QED
      BY <1>0, <1>1, <3>1 DEF StartInv, ActiveFor
  <2>2. QED
    BY <2>1
<1>6. QED
  BY <1>2, <1>3, <1>4, <1>5 DEF StartInv

LEMMA NextStart == TypeInv /\ StartInv /\ [Next]_vars => StartInv'
<1> SUFFICES ASSUME TypeInv, StartInv, [Next]_vars PROVE StartInv'
  OBVIOUS
<1>0. /\ \A t \in Threads : target[t] \in Runs
      /\ \A q \in Starters : q \in Runs /\ target[q] = q
      /\ UNCHANGED params => UNCHANGED <<target, issueOf>>
      /\ LockHeld
  BY DEF TypeInv, TypeOK, Runs, params, StartInv
<1> USE DEF Goto, End, Save, UpdateState, Leave, LoadStep, SaveStep, RecordStep, EventStep,
            files, memory, Threads
<1>1. ASSUME NEW w \in Workers, Worker(w) PROVE StartInv'
  <2>1. w \in Threads
    BY DEF Workers
  <2>2. /\ pc[w] \in WorkerPcs /\ pc'[w] \notin {"new"} \cup LockPcs
        /\ Placed(w, pc'[w]) /\ UNCHANGED <<lock, params>>
    BY <1>1, WorkerPlace
    DEF Placed, WorkerPcs, BodyPcs, FinishPcs, EndPcs, LockPcs, StartPcs, RetryPcs,
        StopPcs, OwnerPcs
  <2>3. \A u \in Threads \ {w} : pc'[u] = pc[u]
    BY <1>1, <2>1, WorkerStep
  <2>4. record[target[w]] \notin {"NONE", "CREATED"}
    BY <2>1, <2>2 DEF StartInv, WorkerPcs, BodyPcs, FinishPcs, Idle, EndPcs
  <2>5. LockHeld'
    BY <1>0, <2>1, <2>2, <2>3, LockKept
  <2>6. QED
    BY <1>1, <2>1, <2>2, <2>3, <2>4, <2>5, WorkerFiles, StartKept DEF LockPcs
<1>2. ASSUME NEW t \in Threads, WorkerFault(t) PROVE StartInv'
  <2> USE DEF TypeInv, TypeOK, WorkerFault, Finish, WorkerPcs, BodyPcs, FinishPcs, EndPcs,
              LockPcs
  <2>1. pc[t] \in WorkerPcs /\ pc'[t] \in {"finSave", "dead"}
    BY <1>2
  <2>2. UNCHANGED <<lock, params, record, snap>> /\ \A u \in Threads \ {t} : pc'[u] = pc[u]
    BY <1>2
  <2>3. Placed(t, pc[t])
    BY <1>0 DEF LockHeld
  <2>4. Placed(t, pc'[t])
    BY <2>1, <2>3 DEF Placed, StartPcs, RetryPcs, StopPcs, OwnerPcs
  <2>5. record[target[t]] \notin {"NONE", "CREATED"}
    BY <2>1 DEF StartInv, Idle
  <2> HIDE DEF TypeInv
  <2>6. LockHeld'
    BY <1>0, <2>1, <2>2, <2>4, LockKept
  <2>7. QED
    BY <2>1, <2>2, <2>5, <2>6, StartKept
<1>3. ASSUME NEW q \in Starters, Start(q) PROVE StartInv'
  <2> USE DEF LockPcs, Idle, EndPcs, TypeInv, TypeOK
  <2>1. LockHeld' /\ \A u \in Threads \ {q} : pc'[u] = pc[u]
    <3> USE DEF LockHeld, Placed, StartPcs, RetryPcs, StopPcs, OwnerPcs, WorkerPcs, BodyPcs,
                FinishPcs, Workers
    <3>1. CASE StartRefused(q)
      BY <3>1, <1>0 DEF StartRefused
    <3>2. CASE StartCreate(q) \/ StartActivate(q) \/ StartSnapshot(q)
      BY <3>2, <1>0, ThreadAssumption DEF StartCreate, StartActivate, StartSnapshot
    <3>3. CASE StartSpawn(q)
      BY <3>3, <1>0 DEF StartSpawn, Release
    <3>4. QED
      BY <1>3, <3>1, <3>2, <3>3 DEF Start
  <2>2. CASE StartRefused(q) \/ StartSpawn(q)
    <3>1. \/ pc'[q] \in EndPcs
          \/ pc'[q] = "load" /\ record[target[q]] \notin {"NONE", "CREATED"}
      BY <2>2, <1>0 DEF StartRefused, StartSpawn, StartInv
    <3>2. UNCHANGED <<record, snap, params>>
      BY <2>2 DEF StartRefused, StartSpawn
    <3>3. QED
      BY <2>1, <3>1, <3>2, StartKept
  <2>3. CASE StartCreate(q)
    BY <2>1, <2>3, <1>0 DEF StartCreate, StartInv, ActiveFor, params, Runs, LockHeld
  <2>4. CASE StartActivate(q)
    BY <2>1, <2>4, <1>0 DEF StartActivate, StartInv, ActiveFor, params, Runs, LockHeld
  <2>5. CASE StartSnapshot(q)
    BY <2>1, <2>5, <1>0 DEF StartSnapshot, StartInv, ActiveFor, params, Runs, LockHeld
  <2>6. QED
    BY <1>3, <2>2, <2>3, <2>4, <2>5 DEF Start
<1>4. ASSUME NEW q \in Retriers, Retry(q) PROVE StartInv'
  <2> USE DEF LockPcs, Idle, EndPcs, TypeInv, TypeOK
  <2>1. LockHeld' /\ \A u \in Threads \ {q} : pc'[u] = pc[u]
    <3> USE DEF LockHeld, Placed, StartPcs, RetryPcs, StopPcs, OwnerPcs, WorkerPcs, BodyPcs,
                FinishPcs, Workers
    <3>1. CASE RetryRefused(q) \/ RetryLoad(q)
      BY <3>1, <1>0, ThreadAssumption DEF RetryRefused, RetryLoad
    <3>2. CASE RetrySave(q) \/ RetryRecord(q)
      BY <3>2, <1>0 DEF RetrySave, RetryRecord
    <3>3. CASE RetrySpawn(q)
      BY <3>3, <1>0 DEF RetrySpawn, Release
    <3>4. QED
      BY <1>4, <3>1, <3>2, <3>3 DEF Retry
  <2>2. CASE RetryRecord(q)
    <3>1. \A u \in Starters : pc[u] # "activate"
      BY <2>2, <1>0 DEF RetryRecord, LockHeld
    <3>2. /\ UNCHANGED <<snap, target, issueOf>>
          /\ pc'[q] = "retrySpawn"
          /\ \A r \in Runs : record'[r] # record[r] => r = target[q] /\ record'[r] = "ACTIVE"
      BY <2>2, <1>0 DEF RetryRecord, params
    <3>3. record[target[q]] \notin {"NONE", "CREATED"}
      BY <2>2 DEF RetryRecord, StartInv
    <3>4. \A u \in Starters : pc'[u] # "activate"
      BY <2>1, <3>1, <3>2
    <3>5. \A u \in Starters : pc'[u] = "new" => record'[u] = "NONE"
      BY <2>1, <3>2, <3>3, <1>0 DEF StartInv
    <3>6. \A r \in Runs : snap'[r].status # "NONE" => record'[r] \notin {"NONE", "CREATED"}
      BY <3>2, <3>3 DEF StartInv
    <3>7. \A t \in Threads : pc'[t] \notin Idle \cup {"activate"}
                              => record'[target'[t]] \notin {"NONE", "CREATED"}
      <4>1. \A t \in Threads : pc'[t] \notin Idle \cup {"activate"}
                                => record[target[t]] \notin {"NONE", "CREATED"}
        BY <2>1, <3>3 DEF StartInv
      <4>2. QED
        BY <3>2, <4>1, <1>0
    <3>8. QED
      BY <2>1, <3>4, <3>5, <3>6, <3>7 DEF StartInv
  <2>3. CASE RetryRefused(q) \/ RetryLoad(q) \/ RetrySave(q) \/ RetrySpawn(q)
    <3> USE DEF RetryRefused, RetryLoad, RetrySave, RetrySpawn
    <3>1. \/ pc'[q] \in EndPcs /\ UNCHANGED <<record, snap>>
          \/ record[target[q]] \notin {"NONE", "CREATED"}
      BY <2>3, <1>0 DEF RetryEligible, Retryable, StartInv
    <3>2. /\ pc'[q] \notin {"new", "activate"} /\ UNCHANGED params
          /\ \A r \in Runs : r # target[q] => snap'[r] = snap[r] /\ record'[r] = record[r]
          /\ record'[target[q]] = record[target[q]]
      BY <2>3
    <3> HIDE DEF TypeInv
    <3>3. QED
      BY <2>1, <3>1, <3>2, StartKept
  <2>4. QED
    BY <1>4, <2>2, <2>3 DEF Retry
<1>5. ASSUME NEW q \in Stoppers \cup Owners, 
             \/ Stop(q) /\ q \in Stoppers
             \/ Owner(q) /\ q \in Owners
      PROVE  StartInv'
  <2> USE DEF Stop, StopRefused, StopLoad, StopRejected, StopKill, StopSave, StopRecord,
              StopEvent,
              Owner, OwnerRefused, OwnerLoad, OwnerSave, OwnerEvent, LockPcs, Idle, EndPcs,
              TypeInv, TypeOK
  <2>1. /\ pc'[q] \notin {"new"} \cup LockPcs
        /\ \A u \in Threads \ {q} : pc'[u] = pc[u]
        /\ UNCHANGED <<lock, params>>
    BY <1>5
  <2>2. Placed(q, pc'[q])
    BY <1>5 DEF Placed, StartPcs, RetryPcs, StopPcs, OwnerPcs, WorkerPcs, BodyPcs, FinishPcs
  <2>3. \/ pc'[q] \in EndPcs /\ UNCHANGED <<record, snap>>
        \/ record[target[q]] \notin {"NONE", "CREATED"}
    BY <1>5, <1>0 DEF StartInv
  <2>4. /\ \A r \in Runs : r # target[q] => snap'[r] = snap[r] /\ record'[r] = record[r]
        /\ record'[target[q]] \in {record[target[q]]} \cup Final
    BY <1>5, <1>0 DEF Final
  <2>5. q \in Threads
    OBVIOUS
  <2> HIDE DEF TypeInv, Threads
  <2>6. LockHeld'
    BY <1>0, <2>1, <2>2, <2>5, LockKept
  <2>7. QED
    BY <2>1, <2>3, <2>4, <2>5, <2>6, StartKept
<1>6. ASSUME NEW t \in Threads, HandlerFault(t) PROVE StartInv'
  <2>1. LockHeld'
    BY <1>6, <1>0 DEF HandlerFault, Release, LockHeld, Placed, StartPcs, RetryPcs, StopPcs,
       OwnerPcs, WorkerPcs, BodyPcs, FinishPcs, LockPcs, TypeInv, TypeOK
  <2>2. pc'[t] \in EndPcs /\ \A u \in Threads \ {t} : pc'[u] = pc[u]
    BY <1>6 DEF HandlerFault, EndPcs, TypeInv, TypeOK
  <2>3. UNCHANGED <<record, snap, params>>
    BY <1>6 DEF HandlerFault
  <2>4. QED
    BY <2>1, <2>2, <2>3, StartKept DEF EndPcs
<1>7. CASE \E r \in Runs : RegisterOwnedProcessGroup(r)
  BY <1>7, <1>0 DEF RegisterOwnedProcessGroup, StartInv, LockHeld, ActiveFor, threads
<1>8. CASE Crash
  <2>1. \A t \in Threads : (pc'[t] = pc[t] /\ pc[t] \in Idle) \/ pc'[t] = "dead"
    BY <1>8 DEF Crash, Idle
  <2>2. UNCHANGED <<record, snap, params>>
    BY <1>8 DEF Crash
  <2>3. QED
    BY <1>0, <2>1, <2>2
    DEF StartInv, LockHeld, Placed, ActiveFor, Idle, EndPcs, LockPcs, StartPcs, RetryPcs,
        StopPcs,
        OwnerPcs, WorkerPcs, BodyPcs, FinishPcs
<1>9. CASE UNCHANGED vars
  BY <1>9, <1>0 DEF vars, StartInv, LockHeld, ActiveFor, threads
<1>10. CASE Handler
  <2>1. ASSUME NEW q \in Stoppers, Stop(q) PROVE StartInv'
    BY <1>5, <2>1
  <2>2. ASSUME NEW q \in Owners, Owner(q) PROVE StartInv'
    BY <1>5, <2>2
  <2>3. QED
    BY <1>3, <1>4, <1>10, <2>1, <2>2 DEF Handler
<1>11. QED
  BY <1>1, <1>2, <1>6, <1>7, <1>8, <1>9, <1>10 DEF Next, Quiescent, Workers

\* The check in _active_for still holds two writes later: whatever retries,
\* stops, owner actions, exceptions and restarts do in between, a start makes
\* its Run ACTIVE only if no other Run of the issue is ACTIVE then.
THEOREM StartCorrect == Spec => StartIsExclusive
<1>1. ASSUME TypeInv, StartInv, [Next]_vars,
             NEW r \in Runs, record[r] = "CREATED", record'[r] = "ACTIVE"
      PROVE  \A o \in Runs \ {r} : issueOf[o] = issueOf[r] => record'[o] # "ACTIVE"
  <2> USE <1>1 DEF TypeInv, TypeOK, Runs, Threads
  <2>1. ASSUME NEW w \in Workers, Worker(w) PROVE FALSE
    <3> HIDE DEF TypeInv
    <3>1. record'[r] \in {record[r]} \cup Final
      BY <2>1, WorkerFiles DEF TypeInv
    <3>2. QED
      BY <3>1 DEF Final, Retryable
  <2>2. CASE \E q \in Retriers : RetryRecord(q)
    BY <2>2 DEF RetryRecord, RecordStep, UpdateState, StartInv, Idle, EndPcs
  <2>3. CASE \E q \in Starters : StartActivate(q)
    BY <2>3 DEF StartActivate, UpdateState, StartInv, ActiveFor
  <2>4. CASE /\ \A q \in Retriers : ~RetryRecord(q)
             /\ \A q \in Starters : ~StartActivate(q)
    <3> USE DEF files, UpdateState, Leave, LoadStep, SaveStep, RecordStep, EventStep
    <3>1. \A q \in Starters : ~Start(q)
      BY <2>4 DEF Start, StartRefused, StartCreate, StartSnapshot, StartSpawn
    <3>2. \A q \in Retriers : ~Retry(q)
      BY <2>4 DEF Retry, RetryRefused, RetryLoad, RetrySave, RetrySpawn
    <3>3. \A q \in Stoppers : ~Stop(q)
      BY
      DEF Stop, StopRefused, StopLoad, StopRejected, StopKill, StopSave, StopRecord,
          StopEvent
    <3>4. \A q \in Owners : ~Owner(q)
      BY DEF Owner, OwnerRefused, OwnerLoad, OwnerSave, OwnerEvent
    <3>5. UNCHANGED record
      BY <2>1, <3>1, <3>2, <3>3, <3>4
      DEF Next, Handler, Workers, RegisterOwnedProcessGroup, WorkerFault, HandlerFault,
          Crash,
          Quiescent, vars
    <3>6. QED
      BY <3>5
  <2>5. QED
    BY <2>2, <2>3, <2>4
<1>2. TypeInv /\ StartInv /\ [Next]_vars =>
        [\A r \in Runs : record[r] = "CREATED" /\ record'[r] = "ACTIVE" =>
           \A o \in Runs \ {r} : issueOf[o] = issueOf[r] => record'[o] # "ACTIVE"]_vars
  BY <1>1
<1>3. QED
  BY InitType, NextType, InitStart, NextStart, <1>2, PTL DEF Spec, StartIsExclusive

-----------------------------------------------------------------------------
(* One worker per Run, when no write fails and no owner action is recorded: *)
(* both write back snapshots that are out of date.                          *)

Calm == MaxFaults = 0 /\ Owners = {}

Working   == {"ACTIVE", "STOPPED"}
Occupying == LockPcs \cup {"load", "finSave"} \cup BodyPcs

\* What the files say while thread t is where it is: a Run that is occupied
\* cannot be retried, and a Run that was not started yet has no other thread.
StageOf(t) ==
  /\ pc[t] \in Occupying \ {"activate", "snapshot", "retrySave"}
       => snap[target[t]].status \in Working
  /\ pc[t] = "retrySave" => snap[target[t]].status \in Retryable \cup {"STOPPED"}
  /\ t \in Starters /\ pc[t] \in {"new", "activate", "snapshot"}
       => snap[target[t]].status = "NONE"
  /\ t \notin Starters /\ pc[t] \notin Idle => snap[target[t]].status # "NONE"
  /\ pc[t] \in (BodyPcs \cup LockPcs) \ {"activate", "spawn", "retrySpawn"}
       => mem[t].status \in Working
  /\ pc[t] = "stopSave" => mem[t].status = "STOPPED"

Alone == \A v, w \in Threads : /\ target[v] = target[w]
                               /\ pc[v] \in Occupying
                               /\ pc[w] \in Occupying
                               => v = w

OccInv == Alone /\ \A t \in Threads : StageOf(t)

LEMMA InitOcc == Init => OccInv
<1> SUFFICES ASSUME Init PROVE OccInv
  OBVIOUS
<1>1. \A t \in Threads : pc[t] \in {"new", "done"} /\ target[t] \in Runs
  BY DEF Init
<1>2. Alone
  BY <1>1 DEF Alone, Occupying, LockPcs, BodyPcs
<1>3. \A r \in Runs : snap[r].status = "NONE"
  BY DEF Init, NoSnapshot
<1>4. \A t \in Threads : StageOf(t)
  BY <1>1, <1>3 DEF StageOf, Occupying, LockPcs, BodyPcs, Idle, EndPcs
<1>5. QED
  BY <1>2, <1>4 DEF OccInv

\* A step that writes no snapshot concerns its own thread only.
LEMMA StageKept ==
  ASSUME NEW t \in Threads, NEW u \in Threads \ {t}, StageOf(u), UNCHANGED <<snap, target>>,
         pc'[u] = pc[u], mem'[u] = mem[u]
  PROVE  StageOf(u)'
BY DEF StageOf

\* A snapshot is written by the only thread that occupies the Run, or says
\* STOPPED; neither contradicts another thread of the Run.
LEMMA StageSaved ==
  ASSUME TypeInv, OccInv, NEW t \in Threads, NEW u \in Threads \ {t}, UNCHANGED target,
         pc'[u] = pc[u], mem'[u] = mem[u], pc[t] \notin Idle,
         \A r \in Runs : r # target[t] => snap'[r] = snap[r],
         snap'[target[t]].status # "NONE",
         \/ pc[t] \in Occupying
         \/ t \notin Starters /\ snap'[target[t]].status = "STOPPED"
  PROVE  StageOf(u)'
<1>1. StageOf(u) /\ target[u] \in Runs
  BY DEF OccInv, TypeInv, TypeOK
<1>2. CASE target[u] # target[t]
  BY <1>1, <1>2 DEF StageOf
<1>3. CASE target[u] = target[t]
  <2>1. ~(u \in Starters /\ pc[u] \in {"new", "activate", "snapshot"})
    <3>1. CASE t \in Starters
      BY <1>3, <3>1 DEF TypeInv, TypeOK, Runs
    <3>2. CASE t \notin Starters
      BY <1>1, <1>3, <3>2 DEF StageOf, OccInv
    <3>3. QED
      BY <3>1, <3>2
  <2>2. CASE pc[t] \in Occupying
    <3>1. pc[u] \notin Occupying
      BY <1>3, <2>2 DEF OccInv, Alone
    <3>2. QED
      BY <1>1, <1>3, <2>1, <3>1 DEF StageOf, Occupying, LockPcs
  <2>3. CASE snap'[target[t]].status = "STOPPED"
    BY <1>1, <1>3, <2>1, <2>3 DEF StageOf, Working
  <2>4. QED
    BY <2>2, <2>3
<1>4. QED
  BY <1>2, <1>3

\* Nobody becomes a second occupant when a thread that occupies moves on.
LEMMA AloneKept ==
  ASSUME Alone, NEW t \in Threads, UNCHANGED target,
         \A u \in Threads \ {t} : pc'[u] = pc[u],
         \/ pc'[t] \notin Occupying
         \/ pc[t] \in Occupying
         \/ \A u \in Threads \ {t} : target[u] = target[t] => pc[u] \notin Occupying
  PROVE  Alone'
BY DEF Alone

\* A step of t that leaves t at a stage that fits the files, makes t no second
\* occupant, and writes a snapshot only as StageSaved allows.
LEMMA OccKept ==
  ASSUME TypeInv, OccInv, NEW t \in Threads, UNCHANGED target,
         \A u \in Threads \ {t} : pc'[u] = pc[u] /\ mem'[u] = mem[u],
         \/ pc'[t] \notin Occupying
         \/ pc[t] \in Occupying
         \/ \A u \in Threads \ {t} : target[u] = target[t] => pc[u] \notin Occupying,
         \/ UNCHANGED snap
         \/ /\ pc[t] \notin Idle
            /\ \A r \in Runs : r # target[t] => snap'[r] = snap[r]
            /\ snap'[target[t]].status # "NONE"
            /\ \/ pc[t] \in Occupying
               \/ t \notin Starters /\ snap'[target[t]].status = "STOPPED",
         StageOf(t)'
  PROVE  OccInv'
<1>1. Alone'
  BY AloneKept DEF OccInv
<1>2. ASSUME NEW u \in Threads \ {t} PROVE StageOf(u)'
  <2>1. CASE UNCHANGED snap
    BY <2>1, StageKept DEF OccInv
  <2>2. CASE snap' # snap
    BY <2>2, StageSaved
  <2>3. QED
    BY <2>1, <2>2
<1>3. QED
  BY <1>1, <1>2 DEF OccInv

\* What a worker holds: it loads a snapshot once and keeps its status until
\* the last writes.
LEMMA WorkerMem ==
  ASSUME TypeInv, NEW w \in Workers, Worker(w)
  PROVE  \/ pc'[w] \notin BodyPcs
         \/ pc[w] = "load" /\ mem'[w] = snap[target[w]]
         \/ pc[w] \in BodyPcs /\ mem'[w].status = mem[w].status
<1> USE DEF TypeInv, TypeOK, BodyPcs, FinishPcs, EndPcs, Goto, End, Finish, Leave, LoadStep,
            SaveStep, RecordStep, EventStep, FinishStep
<1>0. w \in Threads /\ mem[w] \in Snapshot
  BY DEF Workers, Threads
<1>1. CASE Load(w) \/ LeaveStopped(w) \/ FinRecord(w) \/ FinEvent(w)
  BY <1>0, <1>1 DEF Load, LeaveStopped, FinRecord, FinEvent
<1>2. ASSUME BeginAttempt(w) \/ QaVerdict(w)
      PROVE  pc[w] \in BodyPcs /\ mem'[w].status = mem[w].status
  <2>1. CASE BeginAttempt(w)
    BY <1>0, <2>1 DEF BeginAttempt, Snapshot
  <2>2. CASE QaVerdict(w)
    BY <1>0, <2>2 DEF QaVerdict, Snapshot
  <2>3. QED
    BY <1>2, <2>1, <2>2
<1>3. CASE Develop(w) \/ CheckPassed(w) \/ CheckFailed(w) \/ QaFailed(w)
  BY <1>0, <1>3 DEF Develop, CheckPassed, CheckFailed, QaFailed
<1>4. CASE RecordVerdict(w)
  BY <1>0, <1>4 DEF RecordVerdict
<1>5. CASE CommitRefused(w) \/ CommitRecorded(w) \/ CommitUnrecorded(w)
  BY <1>0, <1>5 DEF CommitRefused, CommitRecorded, CommitUnrecorded
<1>6. CASE \/ SaveStep(w, "saveDev", "develop") \/ SaveStep(w, "saveVer", "check")
           \/ SaveStep(w, "saveQa", "qa") \/ SaveStep(w, "saveFail", "top")
           \/ FinSave(w)
  BY <1>0, <1>6 DEF FinSave
<1>7. QED
  BY <1>1, <1>2, <1>3, <1>4, <1>5, <1>6 DEF Worker

LEMMA WorkerOcc ==
  ASSUME TypeInv, OccInv, NEW w \in Workers, Worker(w)
  PROVE  OccInv'
<1> USE DEF StageOf, Occupying, LockPcs, WorkerPcs, BodyPcs, FinishPcs, EndPcs, Idle,
            Working
<1>0. /\ w \in Threads /\ target[w] \in Runs /\ UNCHANGED target
      /\ \A u \in Threads \ {w} : pc'[u] = pc[u] /\ mem'[u] = mem[u]
      /\ StageOf(w)
  BY WorkerStep DEF Workers, Threads, TypeInv, TypeOK, params, OccInv
<1>1. /\ pc[w] \in WorkerPcs
      /\ pc'[w] \in WorkerPcs \cup EndPcs
      /\ pc'[w] \in Occupying => pc[w] \in Occupying
      /\ pc[w] = "finSave" => pc'[w] \notin Occupying
  BY <1>0, WorkerPlace
<1>2. CASE snap' = snap
  <2>1. StageOf(w)'
    BY <1>0, <1>1, <1>2, WorkerMem, WorkerPlace
  <2> HIDE DEF StageOf, Occupying
  <2>2. QED
    BY <1>0, <1>1, <1>2, <2>1, OccKept
<1>3. CASE /\ pc[w] \in {"saveDev", "saveVer", "saveQa", "saveFail", "finSave"}
           /\ snap'[target[w]] = mem[w]
           /\ UNCHANGED mem
  <2>1. /\ mem[w].status # "NONE"
        /\ pc[w] # "finSave" => mem[w].status \in Working
    BY <1>0, <1>3 DEF TypeInv, StageKnown, Final, Retryable
  <2>2. StageOf(w)'
    BY <1>0, <1>1, <1>3, <2>1
  <2>3. pc[w] \in Occupying /\ pc[w] \notin Idle
    BY <1>3
  <2>4. \A r \in Runs : r # target[w] => snap'[r] = snap[r]
    BY WorkerFiles
  <2> HIDE DEF StageOf, Occupying, Idle
  <2>5. QED
    BY <1>0, <1>3, <2>1, <2>2, <2>3, <2>4, OccKept
<1>4. QED
  BY <1>2, <1>3, WorkerFiles

LEMMA HandlerOcc ==
  ASSUME TypeInv, StartInv, OccInv, NEW q \in Threads, HandlerOf(q), q \notin Owners
  PROVE  OccInv'
<1> USE DEF TypeInv, TypeOK, Goto, End, Save, files, memory, Leave, LoadStep, SaveStep,
            RecordStep, EventStep, StageOf, Occupying, LockPcs, BodyPcs, EndPcs, Idle,
            Working
<1>0. /\ target[q] \in Runs /\ UNCHANGED target
      /\ q \in Starters => target[q] = q
      /\ \A u \in Threads \ {q} : pc'[u] = pc[u] /\ mem'[u] = mem[u]
      /\ StageOf(q)
  BY HandlerStep DEF params, OccInv, Runs
<1>1. ASSUME pc'[q] \notin Occupying \/ pc[q] \in Occupying, UNCHANGED snap, StageOf(q)'
      PROVE  OccInv'
  <2> HIDE DEF StageOf, Occupying, TypeInv
  <2>1. QED
    BY <1>0, <1>1, OccKept
<1>2. ASSUME pc[q] \in Occupying, StageOf(q)', snap'[target[q]].status # "NONE",
             \A r \in Runs : r # target[q] => snap'[r] = snap[r]
      PROVE  OccInv'
  <2>1. pc[q] \notin Idle
    BY <1>2
  <2> HIDE DEF StageOf, Occupying, TypeInv, Idle
  <2>2. QED
    BY <1>0, <1>2, <2>1, OccKept
<1>3. CASE q \in Starters /\ Start(q)
  <2>1. CASE StartRefused(q)
    <3>1. /\ pc'[q] \notin Occupying /\ UNCHANGED snap
          /\ StageOf(q)'
      BY <2>1, <1>3, <1>0 DEF StartRefused
    <3>2. QED
      BY <1>1, <3>1
  <2>2. CASE StartCreate(q)
    <3>1. \A u \in Threads \ {q} : target[u] = target[q] => pc[u] \notin Occupying
      <4>1. ASSUME NEW u \in Threads \ {q}, target[u] = target[q]
            PROVE  pc[u] \notin Occupying
        <5>1. u \notin Starters
          BY <4>1, <1>0, <1>3 DEF Runs
        <5>2. snap[target[q]].status = "NONE"
          BY <2>2, <1>3, <1>0 DEF StartCreate
        <5>3. pc[u] \in Idle
          BY <4>1, <5>1, <5>2 DEF OccInv
        <5>4. QED
          BY <5>3
      <4>2. QED
        BY <4>1
    <3>2. UNCHANGED snap /\ StageOf(q)'
      BY <2>2, <1>3, <1>0 DEF StartCreate
    <3> HIDE DEF StageOf, Occupying, TypeInv
    <3>3. QED
      BY <1>0, <3>1, <3>2, OccKept
  <2>3. CASE StartActivate(q)
    <3>1. pc[q] \in Occupying /\ UNCHANGED snap /\ StageOf(q)'
      BY <2>3, <1>3, <1>0 DEF StartActivate, InitialState, NoSnapshot
    <3>2. QED
      BY <1>1, <3>1
  <2>4. CASE StartSnapshot(q)
    <3>1. /\ pc[q] \in Occupying /\ pc'[q] = "spawn" /\ mem[q].status \in Working
          /\ snap'[target[q]] = mem[q] /\ \A r \in Runs : r # target[q] => snap'[r] = snap[r]
      BY <2>4, <1>3, <1>0 DEF StartSnapshot
    <3>2. StageOf(q)'
      BY <1>0, <1>3, <3>1
    <3>3. QED
      BY <1>2, <3>1, <3>2
  <2>5. CASE StartSpawn(q)
    <3>1. pc[q] \in Occupying /\ UNCHANGED snap /\ StageOf(q)'
      BY <2>5, <1>3, <1>0 DEF StartSpawn
    <3>2. QED
      BY <1>1, <3>1
  <2>6. QED
    BY <1>3, <2>1, <2>2, <2>3, <2>4, <2>5 DEF Start
<1>4. CASE q \in Retriers /\ Retry(q)
  <2>0. q \notin Starters
    BY <1>4, ThreadAssumption
  <2>1. CASE RetryRefused(q)
    <3>1. pc'[q] \notin Occupying /\ UNCHANGED snap /\ StageOf(q)'
      BY <2>0, <2>1, <1>4, <1>0 DEF RetryRefused
    <3>2. QED
      BY <1>1, <3>1
  <2>2. CASE RetryLoad(q)
    <3>1. /\ snap[target[q]].status \in Retryable
          /\ \A u \in Threads : pc[u] \notin LockPcs
      BY <2>2, ThreadAssumption DEF RetryLoad, RetryEligible, StartInv, LockHeld
    <3>2. \A u \in Threads \ {q} : target[u] = target[q] => pc[u] \notin Occupying
      BY <3>1 DEF OccInv, Retryable
    <3>3. pc'[q] = "retrySave" /\ UNCHANGED snap /\ mem'[q].status = "ACTIVE"
      BY <2>2, <1>4 DEF RetryLoad, Reactivated, Snapshot
    <3>4. StageOf(q)'
      BY <2>0, <3>1, <3>3, <1>0 DEF Retryable
    <3> HIDE DEF StageOf, Occupying, TypeInv
    <3>5. QED
      BY <1>0, <3>2, <3>3, <3>4, OccKept
  <2>3. CASE RetrySave(q)
    <3>1. /\ pc[q] \in Occupying /\ pc'[q] = "retryRecord" /\ mem[q].status \in Working
          /\ snap'[target[q]] = mem[q] /\ \A r \in Runs : r # target[q] => snap'[r] = snap[r]
          /\ UNCHANGED mem
      BY <2>3, <1>4, <1>0 DEF RetrySave
    <3>2. StageOf(q)'
      BY <1>0, <2>0, <3>1
    <3>3. QED
      BY <1>2, <3>1, <3>2
  <2>4. CASE RetryRecord(q) \/ RetrySpawn(q)
    <3>1. pc[q] \in Occupying /\ UNCHANGED snap /\ StageOf(q)'
      BY <2>0, <2>4, <1>4, <1>0 DEF RetryRecord, RetrySpawn
    <3>2. QED
      BY <1>1, <3>1
  <2>5. QED
    BY <1>4, <2>1, <2>2, <2>3, <2>4 DEF Retry
<1>5. CASE q \in Stoppers /\ Stop(q)
  <2>0. q \notin Starters
    BY <1>5, ThreadAssumption
  <2>1. CASE StopSave(q)
    <3>1. /\ pc[q] = "stopSave" /\ pc'[q] = "stopRecord" /\ UNCHANGED mem
          /\ snap'[target[q]] = mem[q] /\ \A r \in Runs : r # target[q] => snap'[r] = snap[r]
      BY <2>1, <1>5, <1>0 DEF StopSave
    <3>2. mem[q].status = "STOPPED"
      BY <1>0, <3>1
    <3>3. StageOf(q)' /\ pc[q] \notin Idle /\ pc'[q] \notin Occupying
      BY <1>0, <2>0, <3>1, <3>2
    <3> HIDE DEF StageOf, Occupying, TypeInv, Idle
    <3>4. QED
      BY <1>0, <2>0, <3>1, <3>2, <3>3, OccKept
  <2>2. CASE StopKill(q)
    <3>1. pc'[q] = "stopSave" /\ UNCHANGED snap /\ mem'[q].status = "STOPPED"
      BY <2>2 DEF StopKill, Snapshot
    <3>2. pc[q] = "stopKill"
      BY <2>2 DEF StopKill
    <3>3. pc'[q] \notin Occupying /\ StageOf(q)'
      BY <2>0, <1>0, <3>1, <3>2
    <3>4. QED
      BY <1>1, <3>1, <3>3
  <2>3. CASE StopRefused(q) \/ StopLoad(q) \/ StopRejected(q) \/ StopRecord(q) \/ StopEvent(q)
    <3>1. pc'[q] \notin Occupying /\ UNCHANGED snap /\ StageOf(q)'
      BY <2>0, <2>3, <1>5, <1>0
      DEF StopRefused, StopLoad, StopRejected, StopRecord, StopEvent
    <3>2. QED
      BY <1>1, <3>1
  <2>4. QED
    BY <1>5, <2>1, <2>2, <2>3 DEF Stop
<1>6. CASE HandlerFault(q)
  <2>1. pc'[q] \notin Occupying /\ UNCHANGED snap /\ StageOf(q)'
    BY <1>6, <1>0 DEF HandlerFault
  <2>2. QED
    BY <1>1, <2>1
<1>7. QED
  BY <1>3, <1>4, <1>5, <1>6 DEF HandlerOf

LEMMA NextOcc ==
  ASSUME Calm, TypeInv, StartInv, OccInv, [Next]_vars
  PROVE  OccInv'
<1>1. ASSUME NEW t \in Threads, HandlerOf(t) PROVE OccInv'
  BY <1>1, HandlerOcc DEF Calm
<1>2. ASSUME NEW w \in Workers, Worker(w) PROVE OccInv'
  BY <1>2, WorkerOcc
<1>3. ASSUME NEW t \in Threads, WorkerFault(t) PROVE OccInv'
  BY <1>3 DEF Calm, WorkerFault, TypeInv, TypeOK
<1>4. CASE \E r \in Runs : RegisterOwnedProcessGroup(r)
  BY <1>4 DEF RegisterOwnedProcessGroup, OccInv, Alone, StageOf, files, threads, params
<1>5. CASE Crash
  <2>1. /\ \A t \in Threads : (pc'[t] = pc[t] /\ pc[t] \in Idle) \/ pc'[t] = "dead"
        /\ UNCHANGED <<snap, target>>
    BY <1>5 DEF Crash, Idle, files, params
  <2>2. \A t \in Threads : pc'[t] \notin Occupying /\ StageOf(t)'
    BY <2>1 DEF OccInv, StageOf, Occupying, LockPcs, BodyPcs, Idle, EndPcs
  <2>3. QED
    BY <2>2 DEF OccInv, Alone
<1>6. CASE UNCHANGED vars
  BY <1>6 DEF vars, OccInv, Alone, StageOf, files, threads, params
<1>7. QED
  BY <1>1, <1>2, <1>3, <1>4, <1>5, <1>6
  DEF Next, Handler, HandlerOf, Quiescent, Threads, Workers

\* When no write fails and no owner action is recorded, a Run never has two
\* workers, for any number of retries, stops and restarts: whoever may retry
\* it finds nobody who still uses its files.
THEOREM OneWorker == ASSUME Calm PROVE Spec => []OneWorkerPerRun
<1>1. OccInv => OneWorkerPerRun
  BY DEF OccInv, Alone, OneWorkerPerRun, Occupying, Threads
<1>2. TypeInv /\ StartInv /\ OccInv /\ [Next]_vars => OccInv'
  BY NextOcc
<1>3. QED
  BY InitType, NextType, InitStart, NextStart, InitOcc, <1>1, <1>2, PTL DEF Spec

-----------------------------------------------------------------------------
(* What is committed is what QA accepted, without failing writes and owner  *)
(* actions.                                                                 *)

\* From the checker to the commit the worktree is the one that QA reads.
ReviewOf(w) ==
  /\ pc[w] \in {"saveQa", "qa"} => /\ reviewed[w] = content[target[w]]
                                   /\ content[target[w]] # 0
  /\ \/ pc[w] = "commit"
     \/ pc[w] = "recordVerdict" /\ LastVerdict(mem[w]) = "PASS"
     => content[target[w]] \in approved[target[w]]
ReviewInv == \A w \in Threads : ReviewOf(w)

LEMMA InitReview == Init => ReviewInv
<1>1. Init => \A t \in Threads : pc[t] \in {"new", "done"}
  BY DEF Init
<1>2. QED
  BY <1>1 DEF ReviewInv, ReviewOf

\* Only the Developer moves the worktree, and it occupies the Run.
LEMMA WorkerReview ==
  ASSUME TypeInv, OccInv, ReviewInv, NEW w \in Workers, Worker(w)
  PROVE  ReviewInv'
<1> USE DEF TypeInv, TypeOK, Goto, End, Finish, git, Leave, LoadStep, SaveStep, RecordStep,
            EventStep, FinishStep
<1>0. /\ w \in Threads /\ UNCHANGED target /\ \A t \in Threads : target[t] \in Runs
      /\ \A u \in Threads \ {w} : pc'[u] = pc[u] /\ mem'[u] = mem[u]
      /\ \A r \in Runs : approved[r] \subseteq approved'[r]
  BY WorkerStep DEF Workers, Threads, params
<1>1. ASSUME NEW u \in Threads \ {w} PROVE ReviewOf(u)'
  <2>1. ReviewOf(u)
    BY DEF ReviewInv
  <2>2. reviewed'[u] = reviewed[u]
    BY <1>0
    DEF Worker, Load, LeaveStopped, BeginAttempt, Develop, CheckPassed, CheckFailed,
        QaFailed,
        QaVerdict, RecordVerdict, CommitRefused, CommitRecorded, CommitUnrecorded, FinSave,
        FinRecord, FinEvent
  <2>3. CASE Develop(w)
    <3>1. \/ pc[u] \notin Occupying
          \/ target[u] # target[w]
      BY <1>0, <2>3 DEF OccInv, Alone, Develop, Occupying, BodyPcs
    <3>2. CASE pc[u] \notin Occupying
      BY <1>0, <3>2 DEF ReviewOf, Occupying, BodyPcs
    <3>3. CASE target[u] # target[w]
      <4>1. content'[target[u]] = content[target[u]] /\ UNCHANGED approved
        BY <1>0, <2>3, <3>3 DEF Develop
      <4>2. QED
        BY <1>0, <2>1, <2>2, <4>1 DEF ReviewOf, LastVerdict
    <3>4. QED
      BY <3>1, <3>2, <3>3
  <2>4. CASE UNCHANGED content
    BY <1>0, <2>1, <2>2, <2>4 DEF ReviewOf, LastVerdict
  <2>5. QED
    BY <2>3, <2>4
    DEF Worker, Load, LeaveStopped, BeginAttempt, CheckPassed, CheckFailed, QaFailed,
        QaVerdict, RecordVerdict, CommitRefused, CommitRecorded, CommitUnrecorded, GitCommit,
        FinSave, FinRecord, FinEvent
<1>2. ReviewOf(w)'
  <2>1. CASE CheckPassed(w)
    BY <1>0, <2>1 DEF CheckPassed, ReviewOf
  <2>2. CASE SaveStep(w, "saveQa", "qa")
    BY <1>0, <2>2 DEF ReviewInv, ReviewOf
  <2>3. CASE QaVerdict(w)
    <3>1. PICK v \in Verdicts :
            /\ LastVerdict(mem'[w]) = v
            /\ approved' = IF v = "PASS"
                           THEN [approved EXCEPT ![target[w]] = @ \cup {reviewed[w]}]
                           ELSE approved
      BY <1>0, <2>3, QaVerdictStep
    <3>2. /\ reviewed[w] = content[target[w]] /\ UNCHANGED content
          /\ pc'[w] = "recordVerdict"
      BY <1>0, <2>3 DEF QaVerdict, ReviewInv, ReviewOf
    <3>3. v = "PASS" => reviewed[w] \in approved'[target[w]]
      BY <1>0, <3>1
    <3>4. QED
      BY <1>0, <3>1, <3>2, <3>3 DEF ReviewOf, LastVerdict
  <2>4. CASE RecordVerdict(w)
    <3>1. /\ UNCHANGED <<content, approved>>
          /\ \/ pc'[w] = "commit" /\ LastVerdict(mem[w]) = "PASS"
             \/ pc'[w] \in {"finSave", "saveFail"}
      BY <1>0, <2>4 DEF RecordVerdict, Accepts
    <3>2. pc[w] = "recordVerdict"
      BY <2>4 DEF RecordVerdict
    <3>3. ReviewOf(w)
      BY <1>0 DEF ReviewInv
    <3>4. QED
      BY <1>0, <3>1, <3>2, <3>3 DEF ReviewOf
  <2>5. CASE \/ Load(w) \/ LeaveStopped(w) \/ BeginAttempt(w) \/ Develop(w)
             \/ CheckFailed(w) \/ QaFailed(w)
    BY <1>0, <2>5
    DEF ReviewOf, Load, LeaveStopped, BeginAttempt, Develop, CheckFailed, QaFailed
  <2>6. CASE \/ CommitRefused(w) \/ CommitRecorded(w) \/ CommitUnrecorded(w)
             \/ FinRecord(w) \/ FinEvent(w)
    BY <1>0, <2>6
    DEF ReviewOf, CommitRefused, CommitRecorded, CommitUnrecorded, FinRecord, FinEvent
  <2>7. CASE \/ SaveStep(w, "saveDev", "develop") \/ SaveStep(w, "saveVer", "check")
             \/ SaveStep(w, "saveFail", "top") \/ FinSave(w)
    BY <1>0, <2>7 DEF ReviewOf, FinSave
  <2>8. QED
    BY <2>1, <2>2, <2>3, <2>4, <2>5, <2>6, <2>7 DEF Worker
<1>3. QED
  BY <1>1, <1>2 DEF ReviewInv

LEMMA NextReview ==
  ASSUME Calm, TypeInv, OccInv, ReviewInv, [Next]_vars
  PROVE  ReviewInv'
<1>1. ASSUME NEW q \in Threads, HandlerOf(q) PROVE ReviewInv'
  <2>1. /\ UNCHANGED <<content, approved, target>>
        /\ \A u \in Threads \ {q} : pc'[u] = pc[u] /\ mem'[u] = mem[u]
        /\ pc'[q] \notin {"saveQa", "qa", "commit", "recordVerdict"}
    BY <1>1, HandlerStep DEF git, params, HandlerPcs, EndPcs
  <2>2. \A u \in Threads \ {q} : reviewed'[u] = reviewed[u]
    BY <1>1
    DEF HandlerOf, HandlerFault, End, Leave, LoadStep, SaveStep, RecordStep, EventStep,
        Start, StartRefused, StartCreate, StartActivate, StartSnapshot, StartSpawn,
        Retry, RetryRefused, RetryLoad, RetrySave, RetryRecord, RetrySpawn,
        Stop, StopRefused, StopLoad, StopRejected, StopKill, StopSave, StopRecord, StopEvent,
        Owner, OwnerRefused, OwnerLoad, OwnerSave, OwnerEvent, TypeInv, TypeOK
  <2>3. QED
    BY <2>1, <2>2 DEF ReviewInv, ReviewOf, LastVerdict
<1>2. ASSUME NEW w \in Workers, Worker(w) PROVE ReviewInv'
  BY <1>2, WorkerReview
<1>3. ASSUME NEW t \in Threads, WorkerFault(t) PROVE ReviewInv'
  BY <1>3 DEF Calm, WorkerFault, TypeInv, TypeOK
<1>4. CASE \E r \in Runs : RegisterOwnedProcessGroup(r)
  BY <1>4
  DEF RegisterOwnedProcessGroup, ReviewInv, ReviewOf, LastVerdict, git, threads, params
<1>5. CASE Crash
  <2>1. \A t \in Threads : pc'[t] \notin {"saveQa", "qa", "commit", "recordVerdict"}
    BY <1>5 DEF Crash, EndPcs
  <2>2. QED
    BY <2>1 DEF ReviewInv, ReviewOf
<1>6. CASE UNCHANGED vars
  BY <1>6 DEF vars, ReviewInv, ReviewOf, LastVerdict, git, threads, params
<1>7. QED
  BY <1>1, <1>2, <1>3, <1>4, <1>5, <1>6
  DEF Next, Handler, HandlerOf, Quiescent, Threads, Workers

\* Every step of the loop is a step of the gate for the Run it is about, or
\* none: Develop edits, a PASS accepts the current version, and a commit is of
\* a version that was accepted while it was current.
LEMMA GateStep ==
  ASSUME Calm, TypeInv, OccInv, ReviewInv, [Next]_vars
  PROVE  [Gate!Next]_(Gate!gateVars)
<1> USE DEF Gate!gateVars
<1>1. ASSUME NEW w \in Workers, Worker(w) PROVE [Gate!Next]_(Gate!gateVars)
  <2>0. /\ w \in Threads /\ target[w] \in Runs /\ ReviewOf(w)
        /\ content \in [Runs -> Nat]
    BY DEF Workers, Threads, ReviewInv, TypeInv, TypeOK
  <2>1. CASE Develop(w)
    <3>1. PICK edits \in 0..1 : content' = [content EXCEPT ![target[w]] = @ + edits]
      BY <2>1 DEF Develop
    <3>2. UNCHANGED <<approved, commits>>
      BY <2>1 DEF Develop
    <3>3. CASE edits = 0
      <4>1. content' = content
        BY <2>0, <3>1, <3>3
      <4>2. QED
        BY <3>2, <4>1
    <3>4. CASE edits = 1
      BY <2>0, <3>1, <3>2, <3>4 DEF Gate!Next, Gate!Edit
    <3>5. QED
      BY <3>3, <3>4
  <2>2. CASE QaVerdict(w)
    <3>1. PICK v \in Verdicts :
            approved' = IF v = "PASS"
                        THEN [approved EXCEPT ![target[w]] = @ \cup {reviewed[w]}]
                        ELSE approved
      BY <2>2 DEF QaVerdict
    <3>2. /\ UNCHANGED <<content, commits>>
          /\ reviewed[w] = content[target[w]] /\ content[target[w]] # 0
      BY <2>0, <2>2 DEF QaVerdict, ReviewOf
    <3>3. QED
      BY <2>0, <3>1, <3>2 DEF Gate!Next, Gate!Accept
  <2>3. CASE CommitRecorded(w) \/ CommitUnrecorded(w)
    <3>1. GitCommit(target[w]) /\ content[target[w]] \in approved[target[w]]
      BY <2>0, <2>3 DEF CommitRecorded, CommitUnrecorded, ReviewOf
    <3>2. QED
      BY <2>0, <3>1 DEF GitCommit, Gate!Next, Gate!Commit
  <2>4. CASE UNCHANGED git
    BY <2>4 DEF git
  <2>5. QED
    BY <1>1, <2>1, <2>2, <2>3, <2>4
    DEF Worker, Load, LeaveStopped, BeginAttempt, CheckPassed, CheckFailed, QaFailed,
        RecordVerdict, CommitRefused, FinSave, FinRecord, FinEvent, Leave, LoadStep, SaveStep,
        RecordStep, EventStep, FinishStep, git
<1>2. ASSUME NEW q \in Threads, HandlerOf(q) PROVE UNCHANGED git
  BY <1>2, HandlerStep
<1>3. CASE UNCHANGED git
  BY <1>3 DEF git
<1>4. QED
  BY <1>1, <1>2, <1>3
  DEF Next, Handler, HandlerOf, Threads, Workers, RegisterOwnedProcessGroup, WorkerFault,
      Crash,
      Quiescent, vars

\* The loop implements the delivery gate: without a failing write or an owner
\* action, a Run's branch only receives versions that QA accepted while they
\* were the current ones, for any number of retries, stops and restarts.
THEOREM GateImplemented == ASSUME Calm PROVE Spec => GateSpec
<1>1. Init => Gate!Init
  BY DEF Init, Gate!Init
<1>2. TypeInv /\ StartInv /\ OccInv /\ [Next]_vars => OccInv'
  BY NextOcc
<1>3. TypeInv /\ OccInv /\ ReviewInv /\ [Next]_vars => ReviewInv'
  BY NextReview
<1>4. TypeInv /\ OccInv /\ ReviewInv /\ [Next]_vars => [Gate!Next]_(Gate!gateVars)
  BY GateStep
<1>5. QED
  BY InitType, NextType, InitStart, NextStart, InitOcc, InitReview, <1>1, <1>2, <1>3, <1>4,
     PTL
  DEF Spec, GateSpec, Gate!Spec

-----------------------------------------------------------------------------
(* The QA record: evidence files, retained attempts, and the final PASS.    *)

SavePcs == {"snapshot", "retrySave", "stopSave", "saveDev", "saveVer", "saveQa", "saveFail",
            "finSave"}

\* Where a thread that occupies a Run holds what its snapshot says.
Loaded == Occupying \ {"activate", "spawn", "retrySpawn", "load"}

\* Thread t moves, and t is no owner action.
StepOf(t) == \/ HandlerOf(t) /\ t \notin Owners
             \/ Worker(t) /\ t \in Workers

\* Who writes a snapshot, and that it is all of what the thread holds.
LEMMA SaveStage ==
  ASSUME TypeInv, NEW t \in Threads, StepOf(t)
  PROVE  \/ snap' = snap
         \/ /\ pc[t] \in SavePcs
            /\ snap'[target[t]] = mem[t]
            /\ \A r \in Runs : r # target[t] => snap'[r] = snap[r]
            /\ UNCHANGED <<mem, verdictFiles>>
<1> USE DEF TypeInv, TypeOK, SavePcs, Save, files, StepOf
<1>1. CASE Worker(t) /\ t \in Workers
  BY <1>1, WorkerFiles
<1>2. CASE HandlerOf(t) /\ t \notin Owners
  BY <1>2
  DEF HandlerOf, HandlerFault, Leave, LoadStep, SaveStep, RecordStep, EventStep, Threads,
      Runs,
      Start, StartRefused, StartCreate, StartActivate, StartSnapshot, StartSpawn,
      Retry, RetryRefused, RetryLoad, RetrySave, RetryRecord, RetrySpawn,
      Stop, StopRefused, StopLoad, StopRejected, StopKill, StopSave, StopRecord, StopEvent
<1>3. QED
  BY <1>1, <1>2

\* Only QA adds to the attempts that a thread holds, and only the verdict
\* decides for a commit.
LEMMA VerdictsStep ==
  ASSUME TypeInv, NEW t \in Threads,
         StepOf(t), ~QaVerdict(t)
  PROVE  /\ mem'[t].verdicts \in {<<>>, mem[t].verdicts, snap[target[t]].verdicts}
         /\ pc'[t] # "recordVerdict"
         /\ pc'[t] \in Loaded =>
              \/ mem'[t].verdicts = snap[target[t]].verdicts
              \/ pc[t] \in Loaded /\ mem'[t].verdicts = mem[t].verdicts
              \/ pc[t] = "activate" /\ t \in Starters
         /\ ~RecordVerdict(t) =>
              /\ UNCHANGED verdictFiles
              /\ pc[t] # "recordVerdict" /\ pc'[t] # "commit"
              /\ pc'[t] = "finSave" /\ mem'[t].status = "PASS" =>
                   pc[t] = "commit" /\ mem'[t].attempt = mem[t].attempt
<1>0. /\ mem \in [Threads -> Snapshot] /\ pc \in [Threads -> Pcs]
      /\ mem[t] \in Snapshot
      /\ snap[target[t]] \in Snapshot
  BY DEF TypeInv, TypeOK
<1> USE <1>0 DEF Loaded, Occupying, LockPcs, BodyPcs, End, Goto, Snapshot, NoSnapshot,
                 Leave, LoadStep, SaveStep, RecordStep, EventStep,
                 files
<1>1. CASE HandlerOf(t) /\ t \notin Owners
  <2> USE <1>1 DEF HandlerPcs
  <2>1. CASE t \in Starters /\ Start(t)
    BY <2>1
    DEF Start, StartRefused, StartCreate, StartActivate, StartSnapshot, StartSpawn,
        InitialState
  <2>2. CASE t \in Retriers /\ Retry(t)
    <3>1. CASE RetryLoad(t)
      BY <3>1 DEF RetryLoad, Reactivated
    <3>2. CASE RetryRefused(t) \/ RetrySave(t) \/ RetryRecord(t) \/ RetrySpawn(t)
      BY <3>2 DEF RetryRefused, RetrySave, RetryRecord, RetrySpawn
    <3>3. QED
      BY <2>2, <3>1, <3>2 DEF Retry
  <2>3. CASE t \in Stoppers /\ Stop(t)
    BY <2>3
    DEF Stop, StopRefused, StopLoad, StopRejected, StopKill, StopSave, StopRecord, StopEvent
  <2>4. CASE HandlerFault(t)
    BY <2>4 DEF HandlerFault
  <2>5. QED
    BY <2>1, <2>2, <2>3, <2>4 DEF HandlerOf
<1>2. CASE Worker(t)
  <2> USE DEF Finish, FinishStep
  <2>1. CASE Load(t) \/ LeaveStopped(t) \/ BeginAttempt(t) \/ FinEvent(t) \/ FinRecord(t)
    BY <2>1 DEF Load, LeaveStopped, BeginAttempt, FinEvent, FinRecord
  <2>2. CASE Develop(t) \/ CheckPassed(t) \/ CheckFailed(t) \/ QaFailed(t)
    BY <2>2 DEF Develop, CheckPassed, CheckFailed, QaFailed
  <2>3. CASE CommitRefused(t) \/ CommitUnrecorded(t)
    BY <2>3 DEF CommitRefused, CommitUnrecorded
  <2>4. CASE CommitRecorded(t)
    BY <2>4 DEF CommitRecorded
  <2>5. CASE RecordVerdict(t)
    BY <2>5 DEF RecordVerdict
  <2>6. CASE \/ SaveStep(t, "saveDev", "develop") \/ SaveStep(t, "saveVer", "check")
             \/ SaveStep(t, "saveQa", "qa") \/ SaveStep(t, "saveFail", "top")
             \/ FinSave(t)
    BY <2>6 DEF FinSave
  <2>7. QED
    BY <1>2, <2>1, <2>2, <2>3, <2>4, <2>5, <2>6 DEF Worker
<1>3. QED
  BY <1>1, <1>2 DEF StepOf

\* Every attempt that a snapshot retains has its file, except that a worker
\* may be about to write the one of its last verdict; and where a snapshot
\* says PASS, or is about to, the file of its attempt says PASS.
Filed(r, n) == verdictFiles[r][n] # "NONE"

FiledRun(r) ==
  /\ \A i \in DOMAIN snap[r].verdicts : Filed(r, snap[r].verdicts[i].attempt)
  /\ snap[r].status = "PASS" => verdictFiles[r][snap[r].attempt] = "PASS"

FiledOf(t) ==
  /\ \A i \in DOMAIN mem[t].verdicts :
       \/ Filed(target[t], mem[t].verdicts[i].attempt)
       \/ pc[t] = "recordVerdict" /\ mem[t].verdicts[i].attempt = mem[t].attempt
  /\ pc[t] = "recordVerdict" => LastVerdict(mem[t]) # "NONE"
  /\ \/ pc[t] = "commit"
     \/ pc[t] = "finSave" /\ mem[t].status = "PASS"
     => verdictFiles[target[t]][mem[t].attempt] = "PASS"

FiledInv == /\ \A r \in Runs : FiledRun(r)
            /\ \A t \in Threads : FiledOf(t)

LEMMA InitFiled == Init => FiledInv
BY DEF Init, FiledInv, FiledRun, FiledOf, NoSnapshot, Runs, Threads

LEMMA StepFiled ==
  ASSUME TypeInv, OccInv, FiledInv, NEW t \in Threads,
         StepOf(t)
  PROVE  FiledInv'
<1>0. /\ target[t] \in Runs /\ UNCHANGED target /\ StageOf(t) /\ FiledOf(t)
      /\ \A u \in Threads \ {t} : pc'[u] = pc[u] /\ mem'[u] = mem[u]
      /\ \A u \in Threads : target[u] \in Runs
      /\ mem[t] \in Snapshot /\ mem[t].verdicts \in Seq(QaRecord)
      /\ snap[target[t]].verdicts \in Seq(QaRecord)
  BY WorkerStep, HandlerStep DEF StepOf, params, TypeInv, TypeOK, OccInv, FiledInv, Snapshot
<1>1. CASE QaVerdict(t)
  <2>1. PICK v \in Verdicts :
          /\ mem'[t].verdicts =
               Append(mem[t].verdicts, [attempt |-> mem[t].attempt, verdict |-> v])
          /\ LastVerdict(mem'[t]) = v
          /\ mem'[t].attempt = mem[t].attempt
    BY <1>1, QaVerdictStep
  <2>2. /\ UNCHANGED <<snap, verdictFiles>> /\ pc'[t] = "recordVerdict" /\ pc[t] = "qa"
    BY <1>1 DEF QaVerdict, Goto, files, TypeInv, TypeOK
  <2>3. [attempt |-> mem[t].attempt, verdict |-> v] \in QaRecord
    BY <2>2 DEF TypeInv, StageKnown, BodyPcs, QaRecord
  <2>4. \A i \in DOMAIN mem'[t].verdicts :
          \/ i \in DOMAIN mem[t].verdicts /\ mem'[t].verdicts[i] = mem[t].verdicts[i]
          \/ mem'[t].verdicts[i].attempt = mem[t].attempt
    BY <1>0, <2>1, <2>3, AppendProperties
  <2>5. FiledOf(t)'
    BY <1>0, <2>1, <2>2, <2>4 DEF FiledOf, Filed, LastVerdict, Verdicts
  <2>6. \A u \in Threads \ {t} : FiledOf(u)'
    BY <1>0, <2>2 DEF FiledInv, FiledOf, Filed, LastVerdict
  <2>7. QED
    BY <2>2, <2>5, <2>6 DEF FiledInv, FiledRun, Filed
<1>2. CASE RecordVerdict(t)
  <2>1. /\ pc[t] = "recordVerdict" /\ UNCHANGED snap
        /\ verdictFiles' = [verdictFiles EXCEPT
                              ![target[t]][mem[t].attempt] = LastVerdict(mem[t])]
    BY <1>2 DEF RecordVerdict, WriteVerdict
  <2>2. /\ mem[t].attempt \in Attempts /\ LastVerdict(mem[t]) # "NONE"
        /\ verdictFiles \in [Runs -> [Attempts -> Verdicts \cup {"NONE"}]]
    BY <1>0, <2>1 DEF TypeInv, TypeOK, StageKnown, BodyPcs, FiledOf
  <2>3. \A r \in Runs : \A n : Filed(r, n) => Filed(r, n)'
    BY <1>0, <2>1, <2>2 DEF Filed
  <2>4. /\ verdictFiles'[target[t]][mem[t].attempt] = LastVerdict(mem[t])
        /\ \A r \in Runs : r # target[t] => verdictFiles'[r] = verdictFiles[r]
    BY <1>0, <2>1, <2>2
  <2>5. \A r \in Runs : FiledRun(r)'
    <3>1. snap[target[t]].status # "PASS"
      BY <1>0, <2>1 DEF StageOf, Occupying, BodyPcs, LockPcs, Working
    <3>2. QED
      BY <2>1, <2>3, <2>4, <3>1 DEF FiledInv, FiledRun, Filed
  <2>6. ASSUME NEW u \in Threads \ {t} PROVE FiledOf(u)'
    <3>1. target[u] = target[t] => pc[u] \notin {"commit", "finSave"}
      BY <2>1 DEF OccInv, Alone, Occupying, BodyPcs
    <3>2. FiledOf(u) /\ target'[u] \in Runs
      BY <1>0 DEF FiledInv
    <3>3. QED
      BY <1>0, <2>3, <2>4, <3>1, <3>2 DEF FiledOf, LastVerdict
  <2>7. FiledOf(t)'
    <3>1. \/ /\ mem'[t] = mem[t] /\ pc'[t] = "commit" /\ LastVerdict(mem[t]) = "PASS"
          \/ /\ pc'[t] = "saveFail" /\ mem'[t] = mem[t]
          \/ /\ pc'[t] = "finSave" /\ mem'[t].status # "PASS"
             /\ mem'[t].verdicts = mem[t].verdicts
      BY <1>0, <1>2 DEF RecordVerdict, Accepts, Finish, Goto, Snapshot, TypeInv, TypeOK
    <3>2. \A i \in DOMAIN mem[t].verdicts :
            verdictFiles'[target[t]][mem[t].verdicts[i].attempt] # "NONE"
      <4>1. verdictFiles'[target[t]][mem[t].attempt] # "NONE"
        BY <1>0, <2>2, <2>4
      <4>2. \A i \in DOMAIN mem[t].verdicts : \/ Filed(target[t], mem[t].verdicts[i].attempt)
                                             \/ mem[t].verdicts[i].attempt = mem[t].attempt
        BY <1>0 DEF FiledOf
      <4>3. \A n : Filed(target[t], n) => verdictFiles'[target[t]][n] # "NONE"
        BY <1>0, <2>3 DEF Filed
      <4>4. QED
        BY <4>1, <4>2, <4>3
    <3>3. QED
      BY <1>0, <2>4, <3>1, <3>2 DEF FiledOf, Filed
  <2>8. QED
    BY <2>5, <2>6, <2>7 DEF FiledInv
<1>3. CASE ~QaVerdict(t) /\ ~RecordVerdict(t)
  <2>1. /\ mem'[t].verdicts \in {<<>>, mem[t].verdicts, snap[target[t]].verdicts}
        /\ pc'[t] \notin {"recordVerdict", "commit"} /\ pc[t] # "recordVerdict"
        /\ UNCHANGED verdictFiles
        /\ pc'[t] = "finSave" /\ mem'[t].status = "PASS" =>
             pc[t] = "commit" /\ mem'[t].attempt = mem[t].attempt
    BY <1>3, VerdictsStep
  <2>2. \A u \in Threads \ {t} : FiledOf(u)'
    BY <1>0, <2>1 DEF FiledInv, FiledOf, Filed, LastVerdict
  <2>3. FiledRun(target[t])
    BY <1>0 DEF FiledInv
  <2>4. FiledOf(t)'
    <3>1. \A s \in {<<>>, mem[t].verdicts, snap[target[t]].verdicts} :
            \A i \in DOMAIN s : Filed(target[t], s[i].attempt)
      BY <1>0, <2>1, <2>3 DEF FiledOf, FiledRun
    <3>2. \A n : Filed(target[t], n) => Filed(target[t], n)'
      BY <1>0, <2>1 DEF Filed
    <3>3. pc'[t] = "finSave" /\ mem'[t].status = "PASS" =>
            verdictFiles'[target[t]][mem'[t].attempt] = "PASS"
      BY <1>0, <2>1 DEF FiledOf
    <3>4. QED
      BY <1>0, <2>1, <3>1, <3>2, <3>3 DEF FiledOf, Filed
  <2>5. CASE snap' = snap
    BY <2>1, <2>2, <2>4, <2>5 DEF FiledInv, FiledRun, Filed
  <2>6. CASE /\ pc[t] \in SavePcs
             /\ snap'[target[t]] = mem[t]
             /\ \A r \in Runs : r # target[t] => snap'[r] = snap[r]
    <3>1. mem[t].status = "PASS" => pc[t] = "finSave"
      BY <1>0, <2>6 DEF StageOf, SavePcs, Working, BodyPcs, LockPcs
    <3>2. /\ mem[t].status = "PASS" => verdictFiles[target[t]][mem[t].attempt] = "PASS"
          /\ \A i \in DOMAIN mem[t].verdicts : Filed(target[t], mem[t].verdicts[i].attempt)
      BY <1>0, <2>1, <3>1 DEF FiledOf
    <3>3. \A r \in Runs : FiledRun(r)'
      BY <1>0, <2>1, <2>6, <3>2 DEF FiledInv, FiledRun, Filed
    <3>4. QED
      BY <2>2, <2>4, <3>3 DEF FiledInv
  <2>7. QED
    BY <2>5, <2>6, SaveStage
<1>4. QED
  BY <1>1, <1>2, <1>3

LEMMA NextFiled ==
  ASSUME Calm, TypeInv, OccInv, FiledInv, [Next]_vars
  PROVE  FiledInv'
<1>1. ASSUME NEW q \in Threads, HandlerOf(q) PROVE FiledInv'
  BY <1>1, StepFiled DEF StepOf, Calm
<1>2. ASSUME NEW w \in Workers, Worker(w) PROVE FiledInv'
  BY <1>2, StepFiled DEF StepOf, Workers, Threads
<1>3. ASSUME NEW t \in Threads, WorkerFault(t) PROVE FiledInv'
  BY <1>3 DEF Calm, WorkerFault, TypeInv, TypeOK
<1>4. CASE \E r \in Runs : RegisterOwnedProcessGroup(r)
  BY <1>4
  DEF RegisterOwnedProcessGroup, FiledInv, FiledRun, FiledOf, Filed, LastVerdict, files,
              threads, params
<1>5. CASE Crash
  <2>1. /\ UNCHANGED <<snap, verdictFiles>>
        /\ \A t \in Threads : mem'[t].verdicts = <<>>
        /\ \A t \in Threads : pc'[t] \notin {"recordVerdict", "commit", "finSave"}
    BY <1>5 DEF Crash, files, EndPcs, NoSnapshot
  <2>2. QED
    BY <2>1 DEF FiledInv, FiledRun, FiledOf, Filed
<1>6. CASE UNCHANGED vars
  BY <1>6 DEF vars, FiledInv, FiledRun, FiledOf, Filed, LastVerdict, files, threads, params
<1>7. QED
  BY <1>1, <1>2, <1>3, <1>4, <1>5, <1>6
  DEF Next, Handler, HandlerOf, Quiescent, Threads, Workers

\* When no write fails and no owner action is recorded, every retained QA
\* attempt has its evidence file and the attempt of a PASS one that says PASS:
\* a file that a retry writes again is not one that a PASS rests on.
THEOREM VerdictsFiled == ASSUME Calm PROVE Spec => []VerdictFiled
<1>1. FiledInv => VerdictFiled
  BY DEF FiledInv, FiledRun, Filed, VerdictFiled
<1>2. TypeInv /\ StartInv /\ OccInv /\ [Next]_vars => OccInv'
  BY NextOcc
<1>3. TypeInv /\ OccInv /\ FiledInv /\ [Next]_vars => FiledInv'
  BY NextFiled
<1>4. QED
  BY InitType, NextType, InitStart, NextStart, InitOcc, InitFiled, <1>1, <1>2, <1>3, PTL
  DEF Spec

-----------------------------------------------------------------------------
(* A PASS stays, and so does what QA found, when nothing is stopped either: *)
(* a stop request writes back the snapshot that it loaded.                  *)

\* A snapshot is only replaced by a thread that occupies the Run.
LEMMA SaverOccupies ==
  ASSUME Calm, Stoppers = {}, TypeInv, StartInv, [Next]_vars, snap' # snap
  PROVE  \E t \in Threads :
           /\ StepOf(t)
           /\ pc[t] \in SavePcs \ {"stopSave"}
           /\ snap'[target[t]] = mem[t]
           /\ \A r \in Runs : r # target[t] => snap'[r] = snap[r]
           /\ UNCHANGED mem
<1>1. PICK t \in Threads : StepOf(t)
  BY DEF StepOf, Calm, Next, Handler, HandlerOf, Quiescent, Threads, Workers, WorkerFault,
         Crash, vars, RegisterOwnedProcessGroup, files
<1>2. pc[t] # "stopSave"
  BY DEF StartInv, LockHeld, Placed, StopPcs
<1>3. QED
  BY <1>1, <1>2, SaveStage

\* A PASS is written over by nobody: who saves occupies the Run, and a Run
\* that is occupied does not say PASS.
THEOREM PassStays == ASSUME Calm, Stoppers = {} PROVE Spec => PassIsFinal
<1>1. ASSUME TypeInv, StartInv, OccInv, [Next]_vars, NEW r \in Runs, snap[r].status = "PASS"
      PROVE  snap'[r].status = "PASS"
  <2>1. CASE snap' = snap
    BY <1>1, <2>1
  <2>2. CASE snap' # snap
    <3>1. PICK t \in Threads : /\ pc[t] \in SavePcs \ {"stopSave"}
                               /\ \A o \in Runs : o # target[t] => snap'[o] = snap[o]
      BY <1>1, <2>2, SaverOccupies
    <3>2. StageOf(t)
      BY <1>1 DEF OccInv
    <3>3. pc[t] = "snapshot" => t \in Starters
      BY <1>1 DEF StartInv, LockHeld, Placed, StartPcs
    <3>4. snap[target[t]].status # "PASS"
      BY <3>1, <3>2, <3>3
      DEF StageOf, SavePcs, Occupying, LockPcs, BodyPcs, Working, Retryable
    <3>5. QED
      BY <1>1, <3>1, <3>4
  <2>3. QED
    BY <2>1, <2>2
<1>2. TypeInv /\ StartInv /\ OccInv /\ [Next]_vars => OccInv'
  BY NextOcc
<1>3. TypeInv /\ StartInv /\ OccInv /\ [Next]_vars =>
        [\A r \in Runs : snap[r].status = "PASS" => snap'[r].status = "PASS"]_vars
  BY <1>1
<1>4. QED
  BY InitType, NextType, InitStart, NextStart, InitOcc, <1>2, <1>3, PTL
  DEF Spec, PassIsFinal

\* u continues s.
Continues(u, s) == Len(s) <= Len(u) /\ \A i \in 1..Len(s) : u[i] = s[i]

LEMMA ContinuesSubSeq ==
  ASSUME NEW S, NEW s \in Seq(S), NEW u \in Seq(S), Continues(u, s)
  PROVE  SubSeq(u, 1, Len(s)) = s
<1>1. Len(s) \in Nat /\ Len(u) \in Nat /\ Len(s) <= Len(u)
  BY DEF Continues
<1>2. \A i \in 1..Len(s) : i \in 1..Len(u)
  BY <1>1
<1>3. \A i \in 1..Len(s) : u[i] \in S
  BY <1>2, ElementOfSeq
<1> DEFINE p == SubSeq(u, 1, Len(s))
<1>4. /\ p \in Seq(S)
      /\ Len(p) = IF 1 <= Len(s) THEN Len(s) - 1 + 1 ELSE 0
      /\ \A i \in 1..(Len(s) - 1 + 1) : p[i] = u[1 + i - 1]
  BY <1>1, <1>3, SubSeqProperties
<1>5. Len(p) = Len(s)
  BY <1>1, <1>4
<1>6. \A i \in 1..Len(s) : p[i] = s[i]
  BY <1>1, <1>4 DEF Continues
<1>7. QED
  BY <1>4, <1>5, <1>6, SeqEqual

\* Who occupies a Run and has loaded its snapshot holds all that QA found; a
\* Run that was not started has nothing to lose.
HistOf(t) == pc[t] \in Loaded => Continues(mem[t].verdicts, snap[target[t]].verdicts)

HistInv == /\ \A r \in Runs : snap[r].status = "NONE" => snap[r].verdicts = <<>>
           /\ \A t \in Threads : HistOf(t)

LEMMA InitHist == Init => HistInv
<1>1. Init => \A t \in Threads : pc[t] \in {"new", "done"}
  BY DEF Init
<1>2. Init => \A r \in Runs : snap[r].verdicts = <<>>
  BY DEF Init, NoSnapshot
<1>3. QED
  BY <1>1, <1>2 DEF HistInv, HistOf, Loaded, Occupying, LockPcs, BodyPcs

LEMMA NextHist ==
  ASSUME Calm, Stoppers = {}, TypeInv, StartInv, OccInv, HistInv, [Next]_vars
  PROVE  HistInv'
<1>0. \A t \in Threads : /\ target[t] \in Runs
                         /\ mem[t].verdicts \in Seq(QaRecord)
                         /\ snap[target[t]].verdicts \in Seq(QaRecord)
  BY DEF TypeInv, TypeOK, Snapshot
<1>1. ASSUME NEW t \in Threads, StepOf(t)
      PROVE  HistInv'
  <2>0. /\ UNCHANGED target
        /\ \A u \in Threads \ {t} : pc'[u] = pc[u] /\ mem'[u] = mem[u]
    BY <1>1, HandlerStep, WorkerStep DEF StepOf, params
  <2>1. CASE snap' = snap
    <3>1. \A u \in Threads \ {t} : HistOf(u)'
      BY <2>0, <2>1 DEF HistInv, HistOf
    <3>2. HistOf(t) /\ StageOf(t)
      BY DEF HistInv, OccInv
    <3>3. CASE QaVerdict(t)
      <4>1. PICK v \in Verdicts : mem'[t].verdicts =
              Append(mem[t].verdicts, [attempt |-> mem[t].attempt, verdict |-> v])
        BY <3>3, QaVerdictStep
      <4> DEFINE q == [attempt |-> mem[t].attempt, verdict |-> v]
      <4>2. pc[t] = "qa" /\ q \in QaRecord
        BY <3>3 DEF QaVerdict, TypeInv, StageKnown, BodyPcs, QaRecord
      <4>3. Continues(mem[t].verdicts, snap[target[t]].verdicts)
        BY <3>2, <4>2 DEF HistOf, Loaded, Occupying, BodyPcs
      <4>4. Continues(Append(mem[t].verdicts, q), snap[target[t]].verdicts)
        <5>1. /\ Len(Append(mem[t].verdicts, q)) = Len(mem[t].verdicts) + 1
              /\ \A i \in 1..Len(mem[t].verdicts) :
                   Append(mem[t].verdicts, q)[i] = mem[t].verdicts[i]
          BY <1>0, <4>2, AppendProperties
        <5>2. Len(mem[t].verdicts) \in Nat /\ Len(snap[target[t]].verdicts) \in Nat
          BY <1>0
        <5>3. QED
          BY <4>3, <5>1, <5>2 DEF Continues
      <4>5. HistOf(t)'
        BY <2>0, <2>1, <4>1, <4>4 DEF HistOf
      <4>6. QED
        BY <2>1, <3>1, <4>5 DEF HistInv
    <3>4. CASE ~QaVerdict(t)
      <4>1. pc'[t] \in Loaded =>
              \/ mem'[t].verdicts = snap[target[t]].verdicts
              \/ pc[t] \in Loaded /\ mem'[t].verdicts = mem[t].verdicts
              \/ pc[t] = "activate" /\ t \in Starters
        BY <1>1, <3>4, VerdictsStep
      <4>2. Continues(snap[target[t]].verdicts, snap[target[t]].verdicts)
        BY <1>0 DEF Continues
      <4>3. pc[t] = "activate" /\ t \in Starters => snap[target[t]].verdicts = <<>>
        BY <1>0, <3>2 DEF StageOf, HistInv
      <4>4. Continues(mem'[t].verdicts, <<>>)
        <5>1. mem'[t].verdicts \in Seq(QaRecord)
          BY NextType DEF TypeInv, TypeOK, Snapshot
        <5>2. QED
          BY <5>1 DEF Continues
      <4>5. HistOf(t)'
        BY <2>0, <2>1, <3>2, <4>1, <4>2, <4>3, <4>4 DEF HistOf
      <4>6. QED
        BY <2>1, <3>1, <4>5 DEF HistInv
    <3>5. QED
      BY <3>3, <3>4
  <2>2. CASE snap' # snap
    <3>1. /\ pc[t] \in SavePcs
          /\ snap'[target[t]] = mem[t]
          /\ \A r \in Runs : r # target[t] => snap'[r] = snap[r]
          /\ UNCHANGED mem
      BY <1>1, <2>2, SaveStage
    <3>2. pc[t] # "stopSave"
      BY DEF StartInv, LockHeld, Placed, StopPcs
    <3>3. pc[t] \in Occupying /\ StageOf(t)
      BY <3>1, <3>2 DEF OccInv, SavePcs, Occupying, LockPcs, BodyPcs
    <3>4. mem[t].status # "NONE"
      BY <3>1, <3>2, <3>3
      DEF StageOf, SavePcs, BodyPcs, LockPcs, Working, TypeInv, StageKnown, FinishPcs,
          Final, Retryable
    <3>5. \A r \in Runs : snap'[r].status = "NONE" => snap'[r].verdicts = <<>>
      BY <3>1, <3>4 DEF HistInv
    <3>6. HistOf(t)'
      BY <1>0, <2>0, <3>1 DEF HistOf, Continues
    <3>7. ASSUME NEW u \in Threads \ {t} PROVE HistOf(u)'
      <4>1. CASE target[u] = target[t]
        BY <2>0, <3>3, <4>1 DEF OccInv, Alone, HistOf, Loaded
      <4>2. CASE target[u] # target[t]
        BY <1>0, <2>0, <3>1, <4>2 DEF HistInv, HistOf
      <4>3. QED
        BY <4>1, <4>2
    <3>8. QED
      BY <3>5, <3>6, <3>7 DEF HistInv
  <2>3. QED
    BY <2>1, <2>2
<1>2. ASSUME NEW t \in Threads, WorkerFault(t) PROVE HistInv'
  BY <1>2 DEF Calm, WorkerFault, TypeInv, TypeOK
<1>3. CASE \E r \in Runs : RegisterOwnedProcessGroup(r)
  BY <1>3 DEF RegisterOwnedProcessGroup, HistInv, HistOf, files, threads, params
<1>4. CASE Crash
  <2>1. UNCHANGED snap /\ \A t \in Threads : pc'[t] \notin Loaded
    BY <1>4 DEF Crash, files, Loaded, Occupying, LockPcs, BodyPcs, EndPcs
  <2>2. QED
    BY <2>1 DEF HistInv, HistOf
<1>5. CASE UNCHANGED vars
  BY <1>5 DEF vars, HistInv, HistOf, files, threads, params
<1>6. ASSUME NEW q \in Threads, HandlerOf(q) PROVE HistInv'
  BY <1>1, <1>6 DEF StepOf, Calm
<1>7. ASSUME NEW w \in Workers, Worker(w) PROVE HistInv'
  BY <1>1, <1>7 DEF StepOf, Workers, Threads
<1>8. QED
  BY <1>2, <1>3, <1>4, <1>5, <1>6, <1>7
  DEF Next, Handler, HandlerOf, Quiescent, Threads, Workers

\* Without failing writes, owner actions and stops, the attempts that QA
\* recorded are never dropped or rewritten: a retry goes on with the snapshot
\* that the last worker left, and no second worker writes an older one back.
THEOREM HistoryStays == ASSUME Calm, Stoppers = {} PROVE Spec => QaHistoryKept
<1>1. ASSUME TypeInv, TypeInv', StartInv, OccInv, HistInv, [Next]_vars, NEW r \in Runs
      PROVE  /\ Len(snap[r].verdicts) <= Len(snap'[r].verdicts)
             /\ SubSeq(snap'[r].verdicts, 1, Len(snap[r].verdicts)) = snap[r].verdicts
  <2>1. snap[r].verdicts \in Seq(QaRecord) /\ snap'[r].verdicts \in Seq(QaRecord)
    BY <1>1 DEF TypeInv, TypeOK, Snapshot
  <2>2. Continues(snap'[r].verdicts, snap[r].verdicts)
    <3>1. CASE snap'[r] = snap[r]
      BY <2>1, <3>1 DEF Continues
    <3>2. CASE snap'[r] # snap[r]
      <4>1. PICK t \in Threads : /\ pc[t] \in SavePcs \ {"stopSave"}
                                 /\ snap'[target[t]] = mem[t]
                                 /\ \A o \in Runs : o # target[t] => snap'[o] = snap[o]
        BY <1>1, <3>2, SaverOccupies
      <4>2. pc[t] \in Loaded /\ HistOf(t)
        BY <1>1, <4>1 DEF HistInv, SavePcs, Loaded, Occupying, LockPcs, BodyPcs
      <4>3. r = target[t]
        BY <3>2, <4>1
      <4>4. QED
        BY <4>1, <4>2, <4>3 DEF HistOf
    <3>3. QED
      BY <3>1, <3>2
  <2>3. QED
    BY <2>1, <2>2, ContinuesSubSeq DEF Continues
<1>2. TypeInv /\ StartInv /\ OccInv /\ [Next]_vars => OccInv'
  BY NextOcc
<1>3. TypeInv /\ StartInv /\ OccInv /\ HistInv /\ [Next]_vars => HistInv'
  BY NextHist
<1>4. TypeInv /\ TypeInv' /\ StartInv /\ OccInv /\ HistInv /\ [Next]_vars =>
        [\A r \in Runs :
           /\ Len(snap[r].verdicts) <= Len(snap'[r].verdicts)
           /\ SubSeq(snap'[r].verdicts, 1, Len(snap[r].verdicts)) = snap[r].verdicts]_vars
  BY <1>1
<1>5. QED
  BY InitType, NextType, InitStart, NextStart, InitOcc, InitHist, <1>2, <1>3, <1>4, PTL
  DEF Spec, QaHistoryKept

=============================================================================
