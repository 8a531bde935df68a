--------------------------- MODULE MCWebAgentLoop ---------------------------
(* WebAgentLoop for TLC: requests to one endpoint are interchangeable. *)
EXTENDS WebAgentLoop, TLC

Symmetry == Permutations(Starters) \cup Permutations(Retriers)

Together == {Threads}

\* Two retries of one Run, or two starts and one retry.
Mix(s, t) == {m \in SUBSET Threads : /\ Cardinality(m \cap Starters) = s
                                     /\ Cardinality(m \cap Retriers) = t}
Races == Mix(1, 2) \cup Mix(2, 1)
=============================================================================
