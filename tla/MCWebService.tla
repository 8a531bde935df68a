---------------------------- MODULE MCWebService ----------------------------
(* The parts of the Web service for TLC.  They share no state, so a          *)
(* behaviour is one of one part, while the others rest in an initial state.  *)
EXTENDS TicketBoard, ServiceManager, Settings, RunLogs, AgentSessions

VARIABLE part

rest(p) == part # p

MCInit ==
  /\ part \in {"board", "manager", "settings", "logs", "sessions"}
  /\ Init /\ SvcInit /\ SetInit /\ LogInit /\ SesInit
  /\ rest("manager")  => kind = [c \in Commands |-> "start"]
  /\ rest("settings") => offers = {}
  /\ rest("logs")     => goal = [w \in Writers |-> "events"]
  /\ rest("sessions") => codex

MCNext ==
  \/ part = "board"    /\ Next    /\ UNCHANGED <<part, svcVars, setVars, logVars, sesVars>>
  \/ part = "manager"  /\ SvcNext /\ UNCHANGED <<part, vars, setVars, logVars, sesVars>>
  \/ part = "settings" /\ SetNext /\ UNCHANGED <<part, vars, svcVars, logVars, sesVars>>
  \/ part = "logs"     /\ LogNext /\ UNCHANGED <<part, vars, svcVars, setVars, sesVars>>
  \/ part = "sessions" /\ SesNext /\ UNCHANGED <<part, vars, svcVars, setVars, logVars>>

MCSpec == /\ MCInit /\ [][MCNext]_<<part, vars, svcVars, setVars, logVars, sesVars>>
          /\ \A q \in Starts : WF_vars(StartStep(q))
          /\ \A o \in Starts : WF_vars(OperationStep(o))

=============================================================================
