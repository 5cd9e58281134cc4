--------------------------- MODULE DispatchPhase ---------------------------
(***************************************************************************)
(* The pure rules of a harness dispatch attempt (ADR 029): the canonical   *)
(* Task and Run state machines, the phases of an attempt, the edges a      *)
(* trigger takes between them with what each does to Task, Run, claim      *)
(* fence and error code, and the rule that turns the evidence of a vendor  *)
(* run into an outcome.  There is no state here: HarnessDispatchStore      *)
(* applies these operators inside its transactions.                        *)
(*                                                                         *)
(* Sources: vibemux_types/src/lib.rs, vibemux_harness/src/dispatch/        *)
(* attempt.rs and outcome.rs.                                              *)
(***************************************************************************)
EXTENDS Naturals, FiniteSets

TaskStatus == {"open", "in_progress", "blocked", "done", "cancelled"}

RunStatus == {"preparing", "running", "stopped", "failed", "succeeded", "stale"}

\* TaskStatus::can_transition_to.
TaskCanTransition(from, to) ==
    \/ from = "open"        /\ to \in {"in_progress", "cancelled"}
    \/ from = "in_progress" /\ to \in {"blocked", "done", "cancelled"}
    \/ from = "blocked"     /\ to \in {"in_progress", "cancelled"}

\* RunStatus::can_transition_to.
RunCanTransition(from, to) ==
    \/ from = "preparing" /\ to \in {"running", "failed"}
    \/ from = "running"   /\ to \in {"stopped", "failed", "succeeded", "stale"}
    \/ from = "stale"     /\ to \in {"stopped", "failed"}

----------------------------------------------------------------------------
(* Phases of an attempt.                                                   *)

ActivePhases   == {"admitted", "running", "cancel_requested"}
TerminalPhases == {"completed", "failed", "unverified", "cancelled"}
DispatchPhases == ActivePhases \cup {"recovery_pending"} \cup TerminalPhases

IsTerminal(phase) == phase \in TerminalPhases

\* The phases of the partial unique index on resource_key; "absent" is the
\* model's name for a request that has no row.
HoldsReservation(phase) == phase \in DispatchPhases /\ ~IsTerminal(phase)

\* The <<Task, Run>> pairs a row of this phase may have; loading a row with
\* any other pair fails.
AllowedStatuses(phase) ==
    CASE phase = "admitted"                       -> {<<"in_progress", "preparing">>}
      [] phase \in {"running", "cancel_requested"} -> {<<"in_progress", "running">>}
      [] phase = "recovery_pending"               -> {<<"blocked", "stale">>}
      [] phase = "completed"                      -> {<<"done", "succeeded">>}
      [] phase \in {"failed", "unverified"}       -> {<<"blocked", "failed">>}
      [] phase = "cancelled"                      -> {<<"cancelled", "failed">>,
                                                      <<"cancelled", "stopped">>}

----------------------------------------------------------------------------
(* Codes and outcomes.  The fixed failure codes an executor can report are *)
(* abstracted to "fault", except the two the rules tell apart.             *)

NoCode     == "no_code"
Codes      == {NoCode, "interrupted", "cancelled", "fault"}
Outcomes   == {"completed", "failed", "unverified", "cancelled"}
NoOutcome  == "no_outcome"
Processes  == {"clean", "unclean"}
NoProcess  == "no_process"

\* What a session reports as its terminal evidence; "probed" only ends an
\* initialize-only probe, which never becomes a dispatch outcome.
Terminals == {"none", "completed", "failed", "cancelled"}

\* is_clean_completion: the only evidence under which a Run may succeed.
IsCleanCompletion(error, process) == error = NoCode /\ process = "clean"

\* decide_outcome: exchange error first, then the exit, then the evidence.
DecideOutcome(exchange, terminal, process) ==
    CASE exchange = "cancelled"                -> [outcome |-> "cancelled", error |-> "cancelled"]
      [] exchange \notin {NoCode, "cancelled"} -> [outcome |-> "failed", error |-> exchange]
      [] exchange = NoCode /\ process # "clean" -> [outcome |-> "failed", error |-> "fault"]
      [] exchange = NoCode /\ process = "clean" ->
            CASE terminal = "none"      -> [outcome |-> "unverified", error |-> "fault"]
              [] terminal = "completed" -> [outcome |-> "completed",  error |-> NoCode]
              [] terminal = "failed"    -> [outcome |-> "failed",     error |-> "fault"]
              [] terminal = "cancelled" -> [outcome |-> "cancelled",  error |-> NoCode]

----------------------------------------------------------------------------
(* attempt::apply.  An edge either changes the row, leaves it as it is (an *)
(* idempotent repeat), or is refused with a code.                          *)

Same == "same"   \* a Task or Run status the edge does not touch

Changed(to, task, run, fence, error) ==
    [kind |-> "changed", to |-> to, task |-> task, run |-> run,
     fence |-> fence, error |-> error]
Unchanged     == [kind |-> "unchanged"]
Refused(code) == [kind |-> "refused", code |-> code]

ClaimEdge(from) ==
    CASE from = "admitted" -> Changed("running", Same, "running", "mint", NoCode)
      [] IsTerminal(from)  -> Refused("terminal")
      [] OTHER             -> Refused("invalid_transition")

FinishedStatuses(outcome) ==
    CASE outcome = "completed"  -> <<"completed",  "done",      "succeeded">>
      [] outcome = "failed"     -> <<"failed",     "blocked",   "failed">>
      [] outcome = "unverified" -> <<"unverified", "blocked",   "failed">>
      [] outcome = "cancelled"  -> <<"cancelled",  "cancelled", "stopped">>

\* Mutant: the late finish's outcome stands although a cancel committed.
FinishEdgeIgnoringCancel(from, outcome) ==
    CASE from \in {"running", "cancel_requested"} ->
            LET s == FinishedStatuses(outcome)
            IN  Changed(s[1], s[2], s[3], "require", NoCode)
      [] from = "admitted" -> Refused("invalid_transition")
      [] OTHER             -> Refused("stale_fence")

\* Mutant: the edge out of cancel_requested brings a code of its own.
FinishEdgeCodingCancel(from, outcome) ==
    CASE from = "admitted" -> Refused("invalid_transition")
      [] from = "running"  ->
            LET s == FinishedStatuses(outcome)
            IN  Changed(s[1], s[2], s[3], "require", NoCode)
      [] from = "cancel_requested" ->
            Changed("cancelled", "cancelled", "stopped", "require", "cancelled")
      [] OTHER             -> Refused("stale_fence")

FinishEdge(from, outcome) ==
    CASE from = "admitted" -> Refused("invalid_transition")
      [] from = "running"  ->
            LET s == FinishedStatuses(outcome)
            IN  Changed(s[1], s[2], s[3], "require", NoCode)
      [] from = "cancel_requested" ->
            Changed("cancelled", "cancelled", "stopped", "require", NoCode)
      [] OTHER             -> Refused("stale_fence")

\* Mutant: cancelling a running attempt ends it at once and so releases the
\* working directory while the vendor process may still run.
CancelEdgeReleasingEarly(from) ==
    CASE from = "admitted" -> Changed("cancelled", "cancelled", "failed", "keep", NoCode)
      [] from \in {"running", "recovery_pending"} ->
            Changed("cancelled", "cancelled", "stopped", "keep", NoCode)
      [] from \in {"cancel_requested", "cancelled"} -> Unchanged
      [] OTHER -> Refused("terminal")

\* There is no preparing -> stopped edge, so an unclaimed Run fails.
CancelEdge(from) ==
    CASE from = "admitted"         -> Changed("cancelled", "cancelled", "failed", "keep", NoCode)
      [] from = "running"          -> Changed("cancel_requested", Same, Same, "keep", NoCode)
      [] from = "recovery_pending" -> Changed("cancelled", "cancelled", "stopped", "keep", NoCode)
      [] from \in {"cancel_requested", "cancelled"} -> Unchanged
      [] OTHER                     -> Refused("terminal")

RecoverEdge(from) ==
    CASE from = "admitted" -> Changed("failed", "blocked", "failed", "keep", "interrupted")
      [] from \in {"running", "cancel_requested"} ->
            Changed("recovery_pending", "blocked", "stale", "clear", "interrupted")
      [] OTHER -> Unchanged
=============================================================================
