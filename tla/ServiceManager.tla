--------------------------- MODULE ServiceManager ---------------------------
(***************************************************************************)
(* ServiceManager of web.py: the commands start, stop, restart and         *)
(* foreground, each a process of its own, and the detached servers that    *)
(* they launch.  What the commands share is the record file, the port and  *)
(* the process table.                                                      *)
(*                                                                         *)
(* A server stands for its process id and its one-time service id; when    *)
(* the process is gone the id may be given to a stranger.                  *)
(*                                                                         *)
(* Abstracted: status and the browser change nothing; the log file; the    *)
(* three seconds that a signalled process is waited for are one step.      *)
(***************************************************************************)
EXTENDS Naturals

CONSTANTS
  Commands,   \* processes of the command line
  Servers,    \* launches of a detached server
  MaxMishaps  \* bound: crashed servers and commands, failed writes, slow ends

ASSUME ServiceAssumption ==
  /\ {"none", "free", "other"} \cap (Servers \cup Commands) = {}
  /\ Servers \cap Commands = {}
  /\ MaxMishaps \in Nat

VARIABLES
  record,    \* the server in the record file, or none
  proc,      \* proc[s]: the process with the id of s
  port,      \* who listens: a server, a command in the foreground, other, free
  at,        \* where each command is
  kind,      \* what each command does
  seen, own, \* the record a command has read; the server it has launched
  orderly,   \* so far no commands overlapped, none was killed, none met a
             \* server too busy to answer the health check in time
  mishaps

svcVars == <<record, proc, port, at, kind, seen, own, orderly, mishaps>>

-----------------------------------------------------------------------------
Kinds     == {"start", "stop", "restart", "foreground"}
AtWork    == {"again", "check", "remove", "port", "spawn", "save", "drop", "dropSignal",
              "wait", "undo", "undoSignal", "forget", "kill", "match", "signal", "killed",
              "serving"}
Busy(c)   == at[c] \in AtWork
LiveProc(s) == proc[s] \in {"starting", "up", "dying"}
To(c, l)  == at' = [at EXCEPT ![c] = l]

SvcInit ==
  /\ record = "none"
  /\ proc = [s \in Servers |-> "none"]
  /\ port = "free"
  /\ at = [c \in Commands |-> "idle"]
  /\ kind \in [Commands -> Kinds]
  /\ seen = [c \in Commands |-> "none"]
  /\ own = [c \in Commands |-> "none"]
  /\ orderly = TRUE
  /\ mishaps = 0

-----------------------------------------------------------------------------
(* What a command asks of a record. *)

\* Slip: the process id of the record is enough.
MatchesPid(r) == r \in Servers /\ proc[r] # "none" /\ proc[r] # "gone"
\* _matches_process: alive, leader of its group, and the command line of the
\* process has the service id.
MatchesProcess(r) == r \in Servers /\ LiveProc(r)

\* _healthy: whoever has the port answers with the service id of the record.
Healthy(r) == r \in Servers /\ port = r

OwnedRunning(r) == MatchesProcess(r) /\ Healthy(r)

-----------------------------------------------------------------------------
(* _terminate_if_owned: for a stop, for a launch whose record cannot be    *)
(* written, and for one that does not answer.                              *)

Target(c) == IF at[c] \in {"match", "signal"} THEN seen[c] ELSE own[c]

\* What the caller makes of the answer: only stop looks at it.
Over(l, ok) == CASE l \in {"match", "signal"}    -> IF ok THEN "killed" ELSE "failed"
                 [] l \in {"drop", "dropSignal"} -> "failed"
                 [] l \in {"undo", "undoSignal"} -> "forget"
Armed(l) == CASE l = "match" -> "signal" [] l = "drop" -> "dropSignal" [] l = "undo" -> "undoSignal"

Match(c) ==
  /\ at[c] \in {"match", "drop", "undo"}
  /\ To(c, IF MatchesProcess(Target(c)) THEN Armed(at[c]) ELSE Over(at[c], FALSE))
  /\ UNCHANGED <<record, proc, port, kind, seen, own, orderly, mishaps>>

\* killpg hits whoever has the id by now.  The process ends within three
\* seconds, or later; a stranger may be out of reach or take no notice.
Obeys(t)   == /\ proc[t] # "gone"
              /\ proc' = [proc EXCEPT ![t] = "gone"]
              /\ port' = IF port = t THEN "free" ELSE port
              /\ UNCHANGED mishaps
Lingers(t) == /\ LiveProc(t) /\ mishaps < MaxMishaps
              /\ proc' = [proc EXCEPT ![t] = "dying"]
              /\ mishaps' = mishaps + 1
              /\ UNCHANGED port
Stays(t)   == /\ proc[t] \in {"gone", "stranger"}
              /\ UNCHANGED <<proc, port, mishaps>>

Signal(c) ==
  /\ at[c] \in {"signal", "dropSignal", "undoSignal"}
  /\ \/ Obeys(Target(c)) /\ To(c, Over(at[c], TRUE))
     \/ (Lingers(Target(c)) \/ Stays(Target(c))) /\ To(c, Over(at[c], FALSE))
  /\ UNCHANGED <<record, kind, seen, own, orderly>>

-----------------------------------------------------------------------------
(* start, serve_foreground and stop begin with the record. *)

Stops(c) == kind[c] \in {"stop", "restart"}

ReadRecord(c) ==
  /\ at[c] \in {"idle", "again"}
  /\ ~ (Stops(c) /\ record = "none")
  /\ seen' = [seen EXCEPT ![c] = record]
  /\ To(c, IF Stops(c) THEN "kill" ELSE "check")
  /\ orderly' = (orderly /\ \A d \in Commands \ {c} : ~Busy(d))
  /\ UNCHANGED <<record, proc, port, kind, own, mishaps>>

\* stop is over; restart goes on as a start, which reads the record again.
StopDone(c) ==
  /\ To(c, IF kind[c] = "stop" THEN "ok" ELSE "again")
  /\ kind' = [kind EXCEPT ![c] = IF @ = "stop" THEN "stop" ELSE "start"]

AlreadyStopped(c) ==
  /\ at[c] = "idle" /\ Stops(c) /\ record = "none"
  /\ StopDone(c)
  /\ orderly' = (orderly /\ \A d \in Commands \ {c} : ~Busy(d))
  /\ UNCHANGED <<record, proc, port, seen, own, mishaps>>

CheckOwned(c) ==
  /\ at[c] = "check"
  /\ To(c, IF OwnedRunning(seen[c]) THEN "ok"
           ELSE IF seen[c] # "none" THEN "remove" ELSE "port")
  /\ UNCHANGED <<record, proc, port, kind, seen, own, orderly, mishaps>>

\* The recorded server does not answer within 0.4 seconds: it counts as stale,
\* for a start as well as for a stop.
LateAnswer(c) ==
  /\ at[c] \in {"check", "kill"} /\ OwnedRunning(seen[c]) /\ mishaps < MaxMishaps
  /\ mishaps' = mishaps + 1
  /\ orderly' = FALSE
  /\ To(c, IF at[c] = "check" THEN "remove" ELSE "killed")
  /\ UNCHANGED <<record, proc, port, kind, seen, own>>

\* "A stale or unverifiable ledger is never permission to signal its PID."
RemoveStale(c) ==
  /\ at[c] = "remove"
  /\ record' = "none"
  /\ To(c, "port")
  /\ UNCHANGED <<proc, port, kind, seen, own, orderly, mishaps>>

CheckPort(c) ==
  /\ at[c] = "port"
  /\ To(c, IF port # "free" THEN "failed" ELSE IF kind[c] = "foreground" THEN "serving" ELSE "spawn")
  /\ UNCHANGED <<record, proc, port, kind, seen, own, orderly, mishaps>>

\* serve in this process, until Ctrl+C or because the port is taken by now.
ForegroundBinds(c) ==
  /\ at[c] = "serving" /\ port = "free"
  /\ port' = c
  /\ UNCHANGED <<record, proc, at, kind, seen, own, orderly, mishaps>>
ForegroundEnds(c) ==
  /\ at[c] = "serving" /\ port # "free"
  /\ port' = IF port = c THEN "free" ELSE port
  /\ To(c, "ok")
  /\ UNCHANGED <<record, proc, kind, seen, own, orderly, mishaps>>

Spawn(c) ==
  /\ at[c] = "spawn"
  /\ \E s \in Servers :
       /\ proc[s] = "none"
       /\ proc' = [proc EXCEPT ![s] = "starting"]
       /\ own' = [own EXCEPT ![c] = s]
  /\ To(c, "save")
  /\ UNCHANGED <<record, port, kind, seen, orderly, mishaps>>
SpawnFails(c) ==
  /\ at[c] = "spawn" /\ mishaps < MaxMishaps
  /\ mishaps' = mishaps + 1
  /\ To(c, "failed")
  /\ UNCHANGED <<record, proc, port, kind, seen, own, orderly>>

SaveRecord(c) ==
  /\ at[c] = "save"
  /\ record' = own[c]
  /\ To(c, "wait")
  /\ UNCHANGED <<proc, port, kind, seen, own, orderly, mishaps>>

\* Slip: the process that was launched is left alone.
SaveFailsOnly(c) ==
  /\ at[c] = "save" /\ mishaps < MaxMishaps
  /\ mishaps' = mishaps + 1
  /\ To(c, "failed")
  /\ UNCHANGED <<record, proc, port, kind, seen, own, orderly>>
\* "The just-created process is identifiable by its one-time service id."
SaveFails(c) ==
  /\ at[c] = "save" /\ mishaps < MaxMishaps
  /\ mishaps' = mishaps + 1
  /\ To(c, "drop")
  /\ UNCHANGED <<record, proc, port, kind, seen, own, orderly>>

HealthCheck(c) ==
  /\ at[c] = "wait"
  /\ Healthy(own[c])
  /\ To(c, "ok")
  /\ UNCHANGED <<record, proc, port, kind, seen, own, orderly, mishaps>>

\* Slip: the launch that does not answer is left alone.
HealthTimeoutOnly(c) ==
  /\ at[c] = "wait"
  /\ ~Healthy(own[c])
  /\ To(c, "forget")
  /\ UNCHANGED <<record, proc, port, kind, seen, own, orderly, mishaps>>
\* Dead, or ten seconds are over.
HealthTimeout(c) ==
  /\ at[c] = "wait"
  /\ ~Healthy(own[c])
  /\ To(c, "undo")
  /\ UNCHANGED <<record, proc, port, kind, seen, own, orderly, mishaps>>

\* The record file, whoever has written it.
ForgetStart(c) ==
  /\ at[c] = "forget"
  /\ record' = "none"
  /\ To(c, "failed")
  /\ UNCHANGED <<proc, port, kind, seen, own, orderly, mishaps>>

-----------------------------------------------------------------------------
(* stop, and restart as a stop that goes on with a start. *)

StopCheck(c) ==
  /\ at[c] = "kill"
  /\ To(c, IF OwnedRunning(seen[c]) THEN "match" ELSE "killed")
  /\ UNCHANGED <<record, proc, port, kind, seen, own, orderly, mishaps>>

StopForget(c) ==
  /\ at[c] = "killed"
  /\ record' = "none"
  /\ StopDone(c)
  /\ UNCHANGED <<proc, port, seen, own, orderly, mishaps>>

-----------------------------------------------------------------------------
(* The launched processes and the system around them. *)

\* serve: the server binds the port, or ends because it cannot.
Bind(s) ==
  /\ proc[s] = "starting"
  /\ IF port = "free" THEN port' = s /\ proc' = [proc EXCEPT ![s] = "up"]
                      ELSE proc' = [proc EXCEPT ![s] = "gone"] /\ UNCHANGED port
  /\ UNCHANGED <<record, at, kind, seen, own, orderly, mishaps>>

\* A process that was slow to end.
Dies(s) ==
  /\ proc[s] = "dying"
  /\ proc' = [proc EXCEPT ![s] = "gone"]
  /\ port' = IF port = s THEN "free" ELSE port
  /\ UNCHANGED <<record, at, kind, seen, own, orderly, mishaps>>

ServerCrash(s) ==
  /\ LiveProc(s) /\ mishaps < MaxMishaps
  /\ mishaps' = mishaps + 1
  /\ proc' = [proc EXCEPT ![s] = "gone"]
  /\ port' = IF port = s THEN "free" ELSE port
  /\ UNCHANGED <<record, at, kind, seen, own, orderly>>

\* The id of a child is free when the command that launched it has ended.
PidTaken(s) ==
  /\ proc[s] = "gone"
  /\ \A c \in Commands : own[c] = s => ~Busy(c)
  /\ proc' = [proc EXCEPT ![s] = "stranger"]
  /\ UNCHANGED <<record, port, at, kind, seen, own, orderly, mishaps>>

PortTaken ==
  /\ port = "free" /\ mishaps < MaxMishaps
  /\ mishaps' = mishaps + 1
  /\ port' = "other"
  /\ UNCHANGED <<record, proc, at, kind, seen, own, orderly>>

CommandKilled(c) ==
  /\ Busy(c) /\ mishaps < MaxMishaps
  /\ mishaps' = mishaps + 1
  /\ orderly' = FALSE
  /\ port' = IF port = c THEN "free" ELSE port
  /\ To(c, "failed")
  /\ UNCHANGED <<record, proc, kind, seen, own>>

-----------------------------------------------------------------------------
CommandStep(c) ==
  \/ ReadRecord(c) \/ AlreadyStopped(c) \/ CheckOwned(c) \/ LateAnswer(c) \/ RemoveStale(c) \/ CheckPort(c)
  \/ ForegroundBinds(c) \/ ForegroundEnds(c) \/ Spawn(c) \/ SpawnFails(c) \/ SaveRecord(c)
  \/ SaveFails(c) \/ HealthCheck(c) \/ HealthTimeout(c) \/ Match(c) \/ Signal(c) \/ ForgetStart(c)
  \/ StopCheck(c) \/ StopForget(c)

SvcNext ==
  \/ \E c \in Commands : CommandStep(c) \/ CommandKilled(c)
  \/ \E s \in Servers : Bind(s) \/ Dies(s) \/ ServerCrash(s) \/ PidTaken(s)
  \/ PortTaken

SvcSpec == SvcInit /\ [][SvcNext]_svcVars

-----------------------------------------------------------------------------
SvcTypeOK ==
  /\ record \in Servers \cup {"none"}
  /\ proc \in [Servers -> {"none", "starting", "up", "dying", "gone", "stranger"}]
  /\ port \in Servers \cup Commands \cup {"free", "other"}
  /\ at \in [Commands -> AtWork \cup {"idle", "ok", "failed"}]
  /\ kind \in [Commands -> Kinds]
  /\ seen \in [Commands -> Servers \cup {"none"}]
  /\ own \in [Commands -> Servers \cup {"none"}]
  /\ orderly \in BOOLEAN
  /\ mishaps \in 0 .. MaxMishaps

\* Commands one at a time: when stop, or the stop that restart begins with,
\* says that the service is stopped, no detached server listens or is about
\* to, whichever launches have failed half-way and whichever servers were
\* slow to end before.
StopIsTrue ==
  [][orderly' => \A c \in Commands :
       Stops(c) /\ at[c] \notin {"ok", "again"} /\ at'[c] \in {"ok", "again"} =>
         \A s \in Servers : proc'[s] \notin {"starting", "up"}]_svcVars

\* Commands one at a time: whichever server crashes or is slow to end, and
\* whichever record cannot be written, a detached server that listens when no
\* command is under way is the recorded one, so that status and stop find it.
ServerIsRecorded ==
  /\ SvcTypeOK
  /\ orderly /\ (\A c \in Commands : ~Busy(c)) /\ port \in Servers =>
       record = port \/ proc[port] = "dying"
=============================================================================
