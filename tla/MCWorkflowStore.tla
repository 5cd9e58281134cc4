-------------------------- MODULE MCWorkflowStore --------------------------
(***************************************************************************)
(* Small instances of WorkflowStore.  The lease run has no receipts: the   *)
(* leases, the turns and the phases do not depend on them.  The acceptance *)
(* runs have one worker and one reviewer.                                  *)
(***************************************************************************)
EXTENDS WorkflowStore, TLC

NoReceipts == [k \in ReceiptKinds |-> 0]

\* A candidate, its review and verification, the integration and the
\* verification of its tree.
OneOfEach == [k \in ReceiptKinds |-> IF k = "verification" THEN 2 ELSE
                                     IF k = "selection" THEN 0 ELSE 1]

\* Two competitors: what a candidate's own gate reads, with a second candidate
\* and a second verification, so that the latest is not the first, and a
\* selection.
Competing == [k \in ReceiptKinds |-> CASE k \in {"candidate", "verification"} -> 2
                                     [] k \in {"review", "selection"} -> 1
                                     [] k = "integration" -> 0]

\* Without receipts no step tells one end of a turn from another.
EndsAlike ==
    <<workflows, tasks, slots, leases, writer, todo, openings,
      [r \in Requests |-> IF IsTerminal(attempts[r].phase)
                          THEN [attempts[r] EXCEPT !.phase = "completed"] ELSE attempts[r]]>>

Symmetry == Permutations(Leases) \cup Permutations(Requests)
            \cup Permutations(Slots) \cup Permutations(Worktrees)
            \cup Permutations(Workflows)
=============================================================================
