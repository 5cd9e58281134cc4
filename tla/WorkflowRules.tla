--------------------------- MODULE WorkflowRules ---------------------------
(***************************************************************************)
(* The pure rules of a dual-track workflow (ADR 031): the phases of a      *)
(* workflow and the edges between them, and the reducer of a slot and      *)
(* worktree lease.  WorkflowStore applies them inside its transactions.    *)
(*                                                                         *)
(* Sources: vibemux_workflow/src/gates.rs, workflow_record.rs, leases.rs.  *)
(***************************************************************************)
EXTENDS Naturals

WorkflowPhases ==
    {"prepared", "running", "paused", "integrating", "accepted", "failed",
     "cancel_requested", "cancelled", "blocked"}

AdmitsWork(phase) == phase \in {"running", "integrating"}

EndedPhase(phase) == phase \in {"accepted", "failed", "cancelled"}

\* WorkflowPhase::can_transition_to.
CanTransitionTo(from, to) ==
    \/ from = "prepared"    /\ to \in {"running", "cancelled", "blocked"}
    \/ from = "running"     /\ to \in {"paused", "integrating", "failed",
                                       "cancel_requested", "blocked"}
    \/ from = "paused"      /\ to \in {"running", "cancel_requested"}
    \/ from = "blocked"     /\ to \in {"running", "cancel_requested", "failed"}
    \/ from = "integrating" /\ to \in {"accepted", "failed", "cancel_requested", "running"}
    \/ from = "cancel_requested" /\ to = "cancelled"

Purposes == {"implement", "repair", "answer", "review"}

----------------------------------------------------------------------------
(* Leases.  The heartbeat deadline is left out: a clock may pass it at any *)
(* time, so "heartbeat_missed" may come at any time, and a heartbeat, which*)
(* only moves the deadline of an active lease, changes nothing here.       *)

LeaseStates == {"active", "quarantined", "released", "revoked"}

HoldsLease(state) == state \in {"active", "quarantined"}

\* The reconciliation of a lease is two events: the owned process tree is
\* confirmed absent, or it is not.
LeaseEvents == {"heartbeat_missed", "attempt_settled", "process_gone",
                "process_present", "revoke"}

NextLease(state)   == [kind |-> "changed", state |-> state]
RefusedLease(code) == [kind |-> "refused", code |-> code]

\* leases::apply.  fenced says whether the event names the lease's own
\* generation, settled whether the attempts under it are all terminal.
ApplyLease(state, event, fenced, settled) ==
    CASE ~HoldsLease(state) -> RefusedLease("ended")
      [] HoldsLease(state) /\ event = "heartbeat_missed" -> NextLease("quarantined")
      [] HoldsLease(state) /\ event # "heartbeat_missed" /\ ~fenced -> RefusedLease("stale_generation")
      [] HoldsLease(state) /\ fenced /\ event = "attempt_settled" -> NextLease("released")
      [] HoldsLease(state) /\ fenced /\ event \in {"process_gone", "process_present"} ->
            IF state # "quarantined" THEN RefusedLease("not_active")
            ELSE NextLease(IF event = "process_gone" THEN "released" ELSE "quarantined")
      [] HoldsLease(state) /\ fenced /\ event = "revoke" ->
            IF settled THEN NextLease("revoked") ELSE RefusedLease("attempt_unsettled")
=============================================================================
