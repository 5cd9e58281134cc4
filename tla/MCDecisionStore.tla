-------------------------- MODULE MCDecisionStore --------------------------
(***************************************************************************)
(* DecisionStore for TLC: two requests for one directory, two decisions    *)
(* made at different readings of a clock that goes back and on past their  *)
(* lifetime, and enough reopenings for a crash after a claim and another   *)
(* after recovery.                                                         *)
(***************************************************************************)
EXTENDS DecisionStore, TLC

SameHarness == [fp \in Fingerprints |-> "codex"]
SamePrompt  == [fp \in Fingerprints |-> "text"]
OwnConfig   == [fp \in Fingerprints |-> fp]

Symmetry == Permutations(Requests) \cup Permutations(Decisions)
=============================================================================
