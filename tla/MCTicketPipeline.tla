-------------------------- MODULE MCTicketPipeline --------------------------
(* TicketPipeline for TLC. *)
EXTENDS TicketPipeline
=============================================================================
