-------------------------- MODULE WorkflowService --------------------------
(***************************************************************************)
(* The workflow service of the daemon (vibemuxd/src/workflow): start, pause*)
(* and cancel of a workflow, the coordinators that drive the running ones, *)
(* shutdown, and the reconciliation of what an earlier daemon left behind. *)
(*                                                                         *)
(* A transaction of the writer is one step.  versioned() and               *)
(* request_cancel() read again on a version conflict, so that what counts  *)
(* is the phase their transaction finds; what a caller read before, it     *)
(* carries along.  The lifecycle gate lets one call in at a time.  A       *)
(* workflow has one unit, with its lease and the attempt of its last turn; *)
(* the driver is the deterministic one.                                    *)
(*                                                                         *)
(* Sources: workflow/service.rs, startup.rs, coordinator.rs,               *)
(* integration.rs, runtime.rs, candidate.rs.                               *)
(***************************************************************************)
EXTENDS WorkflowRules, FiniteSets

CONSTANTS N,          \* workflows 1..N, in the order of their ids
          MaxRuns,    \* bound: coordinators at a time
          Left,       \* phases in which an earlier daemon may have left one
          MaxCalls,   \* bound: calls about each workflow
          MaxStarts   \* bound: starts of the daemon

Workflows == 1..N

ASSUME WorkflowServiceAssumption ==
    /\ N \in Nat \ {0} /\ MaxRuns \in Nat /\ MaxStarts \in Nat \ {0}
    /\ MaxCalls \in [Workflows -> Nat] /\ Left \subseteq WorkflowPhases

RunIds == 1..MaxRuns
NoRun == 0

VARIABLES phase,      \* the stored phase of each workflow
          lease,      \* its unit's lease: free, active or quarantined
          attempt,    \* the attempt under it: none, running, parked, terminal
          execution,  \* its supervisor execution: none, running, stopped
          daemon,     \* the daemon's state, its setup, the reconcile cursor
          active,     \* runs.active: the registered coordinator
          runs,       \* the coordinator tasks
          call,       \* the call that holds the lifecycle gate
          made,       \* how many calls were made about it
          starts      \* how often the daemon was started

stored == <<phase, lease, attempt, execution>>
memory == <<daemon, active, runs, call>>
serviceVars == <<stored, memory, made, starts>>

NoCall == [kind |-> "none", w |-> 1, pc |-> "idle", read |-> "prepared"]

\* "at" is where finish_cancel and stop were called from and so where their
\* error goes: the coordinator's drive, its run, or the tail of the task.
NewRun(w) == [w |-> w, pc |-> "steps", control |-> "run", at |-> "drive",
              erred |-> FALSE, read |-> "running"]
Gone == [NewRun(1) EXCEPT !.pc = "gone"]

Live(i) == runs[i].pc # "gone"

Serving == daemon.state \in {"serving", "stopping"}

\* accepting(): before begin_shutdown.
Accepting == daemon.state = "serving"

\* The edge the store takes; "cancelled" also needs that nothing is reserved.
Legal(w, to) ==
    CanTransitionTo(phase[w], to) /\ (to = "cancelled" => lease[w] = "free")

\* transition(): the phase after it, unchanged when the store refuses.
Moved(w, to) == [phase EXCEPT ![w] = IF Legal(w, to) THEN to ELSE @]

\* request_cancel(): a request that is already committed is taken as done.
Cancelling(w) == phase[w] \in {"cancel_requested", "cancelled"}

\* Unsettled: the attempt still blocks the end of its lease.
Unsettled(w) == attempt[w] \in {"running", "parked"}

\* signal(): the receiver of an aborted coordinator is gone.
Signalled(w) == active[w] # NoRun /\ Live(active[w])

Signal(w, control) ==
    runs' = IF Signalled(w) THEN [runs EXCEPT ![active[w]].control = control] ELSE runs

----------------------------------------------------------------------------
(* Coordinators: coordinator::run and the task around it.                  *)

Goto(i, pc) == runs' = [runs EXCEPT ![i].pc = pc]

Stopping(i) == runs[i].control # "run"

\* Mutant: a step that finds a stop signalled waits instead of ending.
BeginStepWaiting(i) ==
    /\ runs[i].pc = "steps" /\ ~Stopping(i)
    /\ \E w \in {runs[i].w} :
         /\ lease[w] = "active" \/ (lease[w] = "free" /\ AdmitsWork(phase[w]))
         /\ lease' = [lease EXCEPT ![w] = "active"]
    /\ Goto(i, "leased")
    /\ UNCHANGED <<phase, attempt, execution, daemon, active, call, made, starts>>

\* worker_step: no new turn starts once a stop is signalled.  An active lease
\* of the unit is reused, a quarantined one keeps the slot busy; anything on
\* the way to the lease may fail.
BeginStep(i) ==
    /\ runs[i].pc = "steps"
    /\ \E w \in {runs[i].w} :
         \/ /\ ~Stopping(i)
            /\ lease[w] = "active" \/ (lease[w] = "free" /\ AdmitsWork(phase[w]))
            /\ lease' = [lease EXCEPT ![w] = "active"]
            /\ Goto(i, "leased")
         \/ Goto(i, "error") /\ UNCHANGED lease
    /\ UNCHANGED <<phase, attempt, execution, daemon, active, call, made, starts>>

\* run_turn up to the admission, which the store refuses outside running and
\* integrating and the dispatch service once it stops, and which resolves to
\* the attempt that a previous run left settled under the same lease.
AdmitTurn(i) ==
    /\ runs[i].pc = "leased"
    /\ \E w \in {runs[i].w} :
         \/ /\ AdmitsWork(phase[w])
            /\ attempt' = [attempt EXCEPT ![w] = "running"]
            /\ Goto(i, "turn")
         \/ /\ attempt[w] = "terminal"
            /\ Goto(i, "turn")
            /\ UNCHANGED attempt
         \/ /\ runs' = [runs EXCEPT ![i].pc = "settle", ![i].erred = TRUE]
            /\ UNCHANGED attempt
    /\ UNCHANGED <<phase, lease, execution, daemon, active, call, made, starts>>

\* The dispatch service ends a turn by itself, on a forwarded cancel or at its
\* deadline (HarnessDispatchService, AttemptsSettle).
TurnEnds(w) ==
    /\ daemon.state # "down" /\ attempt[w] = "running"
    /\ attempt' = [attempt EXCEPT ![w] = "terminal"]
    /\ UNCHANGED <<phase, lease, execution, memory, made, starts>>

\* The turn's result is collected and recorded, or that fails.
CollectTurn(i, erred) ==
    /\ runs[i].pc = "turn" /\ attempt[runs[i].w] = "terminal"
    /\ runs' = [runs EXCEPT ![i].pc = "settle", ![i].erred = erred]
    /\ UNCHANGED <<stored, daemon, active, call, made, starts>>

\* settle_lease, whatever the step came to.
SettleLease(i) ==
    /\ runs[i].pc = "settle"
    /\ lease' = [lease EXCEPT ![runs[i].w] = "free"]
    /\ attempt' = [attempt EXCEPT ![runs[i].w] = "none"]
    /\ runs' = [runs EXCEPT ![i].pc = IF runs[i].erred THEN "error" ELSE "after",
                            ![i].erred = FALSE]
    /\ UNCHANGED <<phase, execution, daemon, active, call, made, starts>>

\* after_steps and the checks of stopping() behind it: more turns, a blocking
\* escalation, a verdict that fails the workflow, or integration.
AfterSteps(i) ==
    /\ runs[i].pc = "after"
    /\ \/ Stopping(i) /\ Goto(i, "stop")
       \/ ~Stopping(i) /\ \E next \in {"steps", "escalate", "fail", "integrate"} : Goto(i, next)
    /\ UNCHANGED <<stored, daemon, active, call, made, starts>>

\* A transition whose refusal is an error of drive.
Escalate(i) ==
    /\ runs[i].pc = "escalate"
    /\ phase' = Moved(runs[i].w, "blocked")
    /\ Goto(i, IF Legal(runs[i].w, "blocked") THEN "recheck" ELSE "error")
    /\ UNCHANGED <<lease, attempt, execution, daemon, active, call, made, starts>>

\* integrate: a workflow that integrates already goes on; outside of running and
\* integrating the receipt of the integration is refused.
Integrate(i) ==
    /\ runs[i].pc = "integrate"
    /\ \E w \in {runs[i].w} :
         /\ phase' = Moved(w, "integrating")
         /\ Goto(i, IF phase[w] = "integrating" \/ Legal(w, "integrating")
                    THEN "verify" ELSE "error")
    /\ UNCHANGED <<lease, attempt, execution, daemon, active, call, made, starts>>

\* The integration tree is verified: accepted by the store's gate, failed by
\* a conflict or that gate, or an error on the way.
Verify(i) ==
    /\ runs[i].pc = "verify"
    /\ \/ \E end \in {"accepted", "failed"} :
            /\ phase' = Moved(runs[i].w, end)
            /\ Goto(i, IF Legal(runs[i].w, end) THEN "recheck" ELSE "error")
       \/ Goto(i, "error") /\ UNCHANGED phase
    /\ UNCHANGED <<lease, attempt, execution, daemon, active, call, made, starts>>

\* run(): the error of a stopping coordinator stops it, any other fails it.
HandleError(i) ==
    /\ runs[i].pc = "error"
    /\ runs' = [runs EXCEPT ![i].pc = IF Stopping(i) THEN "stop" ELSE "fail",
                            ![i].at = "run"]
    /\ UNCHANGED <<stored, daemon, active, call, made, starts>>

\* fail() looks at the phase, unless a stop came in.
ReadToFail(i) ==
    /\ runs[i].pc = "fail"
    /\ \/ /\ Stopping(i)
          /\ runs' = [runs EXCEPT ![i].pc = "stop", ![i].at = "run"]
       \/ /\ ~Stopping(i)
          /\ runs' = [runs EXCEPT ![i].pc = "failing", ![i].read = phase[runs[i].w]]
    /\ UNCHANGED <<stored, daemon, active, call, made, starts>>

\* The phase fail() leaves: refusals are ignored, paused goes through running.
FailedFrom(w, read) ==
    CASE CanTransitionTo(read, "failed") -> Moved(w, "failed")[w]
      [] read = "paused" /\ phase[w] = "paused" -> "failed"
      [] OTHER -> phase[w]

CommitFailed(i) ==
    /\ runs[i].pc = "failing"
    /\ phase' = [phase EXCEPT ![runs[i].w] = FailedFrom(runs[i].w, runs[i].read)]
    /\ runs' = [runs EXCEPT ![i].pc = "recheck", ![i].read = "running"]
    /\ UNCHANGED <<lease, attempt, execution, daemon, active, call, made, starts>>

\* The error of a stop inside drive is handled by run; there it ends the run.
StopErred(i) ==
    IF runs[i].at = "drive" THEN "error" ELSE "recheck"

\* stop() on a pause: only a running workflow is paused.
StopPaused(i) ==
    /\ runs[i].pc = "stop" /\ runs[i].control = "pause"
    /\ Goto(i, IF phase[runs[i].w] = "running" THEN "pausing" ELSE "recheck")
    /\ UNCHANGED <<stored, daemon, active, call, made, starts>>

CommitPaused(i) ==
    /\ runs[i].pc = "pausing"
    /\ phase' = Moved(runs[i].w, "paused")
    /\ Goto(i, IF Legal(runs[i].w, "paused") THEN "recheck" ELSE StopErred(i))
    /\ UNCHANGED <<lease, attempt, execution, daemon, active, call, made, starts>>

\* stop() on a cancel: the operator's call commits the same request.
StopCancelled(i) ==
    /\ runs[i].pc = "stop" /\ runs[i].control = "cancel"
    /\ \E w \in {runs[i].w} :
         /\ phase' = IF Cancelling(w) THEN phase ELSE Moved(w, "cancel_requested")
         /\ Goto(i, CASE phase[w] = "cancelled" -> "ending"
                      [] Cancelling(w) \/ Legal(w, "cancel_requested") -> "finish"
                      [] OTHER -> StopErred(i))
    /\ UNCHANGED <<lease, attempt, execution, daemon, active, call, made, starts>>

\* finish_cancel: the held leases of the snapshot are revoked first.
RevokeLeases(w) ==
    /\ lease' = [lease EXCEPT ![w] = IF Unsettled(w) THEN @ ELSE "free"]
    /\ attempt' = [attempt EXCEPT ![w] = IF Unsettled(w) THEN @ ELSE "none"]

\* Where finish_cancel goes on to: the tail ignores its result.
FinishErred(i) ==
    IF runs[i].at = "tail" THEN "ending" ELSE StopErred(i)

RunRevokes(i) ==
    /\ runs[i].pc = "finish"
    /\ RevokeLeases(runs[i].w)
    /\ runs' = [runs EXCEPT ![i].read = phase[runs[i].w],
                            ![i].pc = IF Unsettled(runs[i].w) THEN FinishErred(i) ELSE "cancelling"]
    /\ UNCHANGED <<phase, execution, daemon, active, call, made, starts>>

RunCommitsCancelled(i) ==
    /\ runs[i].pc = "cancelling"
    /\ phase' = Moved(runs[i].w, "cancelled")
    /\ Goto(i, IF runs[i].read = "cancelled" \/ Legal(runs[i].w, "cancelled")
               THEN "ending" ELSE FinishErred(i))
    /\ UNCHANGED <<lease, attempt, execution, daemon, active, call, made, starts>>

\* Mutant: the task does not look at the record again.
RecheckSkipped(i) ==
    /\ runs[i].pc = "recheck"
    /\ Goto(i, "ending")
    /\ UNCHANGED <<stored, daemon, active, call, made, starts>>

\* drive(): a run that did not end cancelled reads the record once more.
Recheck(i) ==
    /\ runs[i].pc = "recheck"
    /\ runs' = [runs EXCEPT ![i].pc = IF phase[runs[i].w] = "cancel_requested"
                                      THEN "finish" ELSE "ending",
                            ![i].at = "tail"]
    /\ UNCHANGED <<stored, daemon, active, call, made, starts>>

\* Mutant: the entry is removed before the task is done.
EndExecutionUnregistering(i) ==
    /\ runs[i].pc = "ending"
    /\ execution' = [execution EXCEPT ![runs[i].w] = "stopped"]
    /\ active' = [active EXCEPT ![runs[i].w] = NoRun]
    /\ Goto(i, "removing")
    /\ UNCHANGED <<phase, lease, attempt, daemon, call, made, starts>>

EndExecution(i) ==
    /\ runs[i].pc = "ending"
    /\ execution' = [execution EXCEPT ![runs[i].w] = "stopped"]
    /\ Goto(i, "removing")
    /\ UNCHANGED <<phase, lease, attempt, daemon, active, call, made, starts>>

RemoveActive(i) ==
    /\ runs[i].pc = "removing"
    /\ active' = [active EXCEPT ![runs[i].w] = NoRun]
    /\ runs' = [runs EXCEPT ![i] = Gone]
    /\ UNCHANGED <<stored, daemon, call, made, starts>>

CoordinatorStep(i) ==
    \/ BeginStep(i) \/ AdmitTurn(i) \/ \E erred \in BOOLEAN : CollectTurn(i, erred)
    \/ SettleLease(i) \/ AfterSteps(i) \/ Escalate(i) \/ Integrate(i) \/ Verify(i)
    \/ HandleError(i) \/ ReadToFail(i) \/ CommitFailed(i)
    \/ StopPaused(i) \/ CommitPaused(i) \/ StopCancelled(i)
    \/ RunRevokes(i) \/ RunCommitsCancelled(i)
    \/ Recheck(i) \/ EndExecution(i) \/ RemoveActive(i)

----------------------------------------------------------------------------
(* Calls.  Whoever has the lifecycle gate is the only call; the others wait.*)

At(kind, pc) == call.kind = kind /\ call.pc = pc
Step(pc)     == call' = [call EXCEPT !.pc = pc]
Return       == call' = NoCall

\* A call reads the record, and a start refuses before that.
Call(kind, w) ==
    /\ Serving /\ call = NoCall /\ made[w] < MaxCalls[w]
    /\ made' = [made EXCEPT ![w] = @ + 1]
    /\ IF kind = "start" /\ (~Accepting \/ daemon.setup = "error")
       THEN UNCHANGED call
       ELSE call' = [kind |-> kind, w |-> w, pc |-> "read", read |-> phase[w]]
    /\ UNCHANGED <<stored, daemon, active, runs, starts>>

Resumable(p) == p \in {"prepared", "paused", "blocked"}

\* start: a registered coordinator ends the call, as a duplicate or refused.
StartLooks ==
    /\ At("start", "read")
    /\ IF active[call.w] = NoRun /\ (Resumable(call.read) \/ call.read = "running")
       THEN Step("leases") ELSE Return
    /\ UNCHANGED <<stored, daemon, active, runs, made, starts>>

\* settle_recovered_leases: blocks while an attempt waits for the operator.
SettleRecoveredLeases ==
    /\ At("start", "leases")
    /\ \E w \in {call.w} :
         IF lease[w] # "quarantined" THEN Step("plan") /\ UNCHANGED <<lease, attempt>>
         ELSE RevokeLeases(w) /\ Step(IF Unsettled(w) THEN "block" ELSE "plan")
    /\ UNCHANGED <<phase, execution, daemon, active, runs, made, starts>>

\* parallelism: the eligible slots allow work, or the workflow is blocked.
PlanParallelism ==
    /\ At("start", "plan")
    /\ \/ Step("block") /\ UNCHANGED phase
       \/ /\ call.read = "running"
          /\ Step("workspace") /\ UNCHANGED phase
       \/ /\ call.read # "running"
          /\ phase' = Moved(call.w, "running")
          /\ IF Legal(call.w, "running") THEN Step("workspace") ELSE Return
    /\ UNCHANGED <<lease, attempt, execution, daemon, active, runs, made, starts>>

\* block(): a paused or blocked workflow passes through running.
BlockThroughRunning ==
    /\ At("start", "block") /\ call.read \in {"paused", "blocked"}
    /\ phase' = Moved(call.w, "running")
    /\ IF Legal(call.w, "running")
       THEN call' = [call EXCEPT !.read = "running"] ELSE Return
    /\ UNCHANGED <<lease, attempt, execution, daemon, active, runs, made, starts>>

Block ==
    /\ At("start", "block") /\ call.read \in {"prepared", "running"}
    /\ phase' = Moved(call.w, "blocked")
    /\ Return
    /\ UNCHANGED <<lease, attempt, execution, daemon, active, runs, made, starts>>

\* The workspace manager and the ledger may fail after running is committed;
\* begin_supervisor_execution wants a workflow that admits work.
BeginExecution ==
    /\ At("start", "workspace")
    /\ \/ /\ AdmitsWork(phase[call.w]) /\ execution[call.w] # "running"
          /\ execution' = [execution EXCEPT ![call.w] = "running"]
          /\ Step("launch")
       \/ Return /\ UNCHANGED execution
    /\ UNCHANGED <<phase, lease, attempt, daemon, active, runs, made, starts>>

\* The coordinator is registered and spawned under the lock of the runs.
Launch ==
    /\ At("start", "launch")
    /\ \/ /\ Accepting /\ active[call.w] = NoRun
          /\ \E i \in RunIds : /\ ~Live(i) /\ \A j \in 1..(i - 1) : Live(j)
                               /\ runs' = [runs EXCEPT ![i] = NewRun(call.w)]
                               /\ active' = [active EXCEPT ![call.w] = i]
          /\ Return
       \/ /\ Accepting /\ active[call.w] # NoRun
          /\ Return /\ UNCHANGED <<active, runs>>
       \/ ~Accepting /\ Step("unlaunched") /\ UNCHANGED <<active, runs>>
    /\ UNCHANGED <<stored, daemon, made, starts>>

Unlaunched ==
    /\ At("start", "unlaunched")
    /\ phase' = Moved(call.w, "paused")
    /\ Return
    /\ UNCHANGED <<lease, attempt, execution, daemon, active, runs, made, starts>>

\* Mutant: the pause is committed although a coordinator was signalled.
PauseSignalsCommitting ==
    /\ At("pause", "read")
    /\ Signal(call.w, "pause")
    /\ call' = [call EXCEPT !.pc = "commit", !.read = phase[call.w]]
    /\ UNCHANGED <<stored, daemon, active, made, starts>>

\* pause: a signalled coordinator pauses itself at its next turn boundary.
PauseSignals ==
    /\ At("pause", "read")
    /\ Signal(call.w, "pause")
    /\ IF Signalled(call.w) THEN Return
       ELSE call' = [call EXCEPT !.pc = "commit", !.read = phase[call.w]]
    /\ UNCHANGED <<stored, daemon, active, made, starts>>

PauseCommits ==
    /\ At("pause", "commit")
    /\ phase' = IF call.read = "running" THEN Moved(call.w, "paused") ELSE phase
    /\ Return
    /\ UNCHANGED <<lease, attempt, execution, daemon, active, runs, made, starts>>

\* cancel: the signal goes before the request.
CancelSignals ==
    /\ At("cancel", "read")
    /\ \/ /\ call.read \in {"cancelled", "accepted", "failed"}
          /\ Return /\ UNCHANGED <<phase, runs>>
       \/ /\ call.read = "prepared"
          /\ phase' = Moved(call.w, "cancelled")
          /\ Return /\ UNCHANGED runs
       \/ /\ call.read = "cancel_requested"
          /\ Step("signal") /\ UNCHANGED <<phase, runs>>
       \/ /\ call.read \in {"running", "integrating", "paused", "blocked"}
          /\ Signal(call.w, "cancel")
          /\ Step("request") /\ UNCHANGED phase
    /\ UNCHANGED <<lease, attempt, execution, daemon, active, made, starts>>

CancelRequests ==
    /\ At("cancel", "request")
    /\ \E w \in {call.w} :
         /\ phase' = IF Cancelling(w) THEN phase ELSE Moved(w, "cancel_requested")
         /\ IF Cancelling(w) \/ Legal(w, "cancel_requested") THEN Step("signal") ELSE Return
    /\ UNCHANGED <<lease, attempt, execution, daemon, active, runs, made, starts>>

\* A coordinator that can be signalled is left to finish the cancellation.
CancelSignalsAgain ==
    /\ At("cancel", "signal")
    /\ Signal(call.w, "cancel")
    /\ IF Signalled(call.w) THEN Return ELSE Step("finish")
    /\ UNCHANGED <<stored, daemon, active, made, starts>>

CancelRevokes ==
    /\ At("cancel", "finish")
    /\ RevokeLeases(call.w)
    /\ IF Unsettled(call.w) THEN Return ELSE Step("cancelled")
    /\ UNCHANGED <<phase, execution, daemon, active, runs, made, starts>>

CancelCommits ==
    /\ At("cancel", "cancelled")
    /\ phase' = Moved(call.w, "cancelled")
    /\ Return
    /\ UNCHANGED <<lease, attempt, execution, daemon, active, runs, made, starts>>

CallStep ==
    \/ StartLooks \/ SettleRecoveredLeases \/ PlanParallelism \/ BlockThroughRunning
    \/ Block \/ BeginExecution \/ Launch \/ Unlaunched
    \/ PauseSignals \/ PauseCommits
    \/ CancelSignals \/ CancelRequests \/ CancelSignalsAgain \/ CancelRevokes \/ CancelCommits

----------------------------------------------------------------------------
(* The daemon: start, reconciliation, shutdown and crash.                  *)

\* The writer's recovery of attempts and leases (WorkflowStore: a claimed attempt
\* is parked, an unclaimed one failed) and the end of the supervisor
\* executions, before the workflows are walked; a missing configuration is an
\* error of the setup from the beginning.
Start(setup) ==
    /\ daemon.state = "down" /\ starts < MaxStarts
    /\ starts' = starts + 1
    /\ daemon' = [state |-> "starting", setup |-> setup, next |-> 1]
    /\ \E claimed \in SUBSET {w \in Workflows : attempt[w] = "running"} :
         /\ attempt' = [w \in Workflows |->
                          CASE w \in claimed -> "parked"
                            [] attempt[w] = "running" /\ w \notin claimed -> "terminal"
                            [] OTHER -> attempt[w]]
         /\ lease' = [w \in Workflows |->
                        CASE w \in claimed -> "quarantined"
                          [] lease[w] = "active" /\ attempt[w] = "none" -> "free"
                          [] OTHER -> lease[w]]
    /\ execution' = [w \in Workflows |-> IF execution[w] = "running" THEN "stopped" ELSE execution[w]]
    /\ UNCHANGED <<phase, active, runs, call, made>>

Walking(p) == /\ daemon.state = "starting" /\ daemon.next <= N
              /\ phase[daemon.next] = p

\* Mutant: an interrupted integration is taken for one that is blocked.
ReconcileRunningOnly ==
    /\ \/ /\ Walking("running")
          /\ phase' = Moved(daemon.next, "blocked")
          /\ daemon' = [daemon EXCEPT !.next = @ + 1]
       \/ /\ Walking("integrating")
          /\ phase' = Moved(daemon.next, "blocked")
          /\ daemon' = [daemon EXCEPT !.next = @ + 1]
    /\ UNCHANGED <<lease, attempt, execution, active, runs, call, made, starts>>

\* reconcile: an interrupted integration passes through running.
ReconcileRunning ==
    /\ \/ /\ Walking("running")
          /\ phase' = Moved(daemon.next, "blocked")
          /\ daemon' = [daemon EXCEPT !.next = @ + 1]
       \/ /\ Walking("integrating")
          /\ phase' = Moved(daemon.next, "running")
          /\ UNCHANGED daemon
    /\ UNCHANGED <<lease, attempt, execution, active, runs, call, made, starts>>

\* finish_cancel: an attempt that waits for the operator refuses the revocation,
\* and its error ends the walk and the setup.
ReconcileCancel ==
    /\ Walking("cancel_requested")
    /\ \E w \in {daemon.next} :
         IF lease[w] # "free"
         THEN /\ RevokeLeases(w)
              /\ daemon' = IF Unsettled(w)
                           THEN [daemon EXCEPT !.state = "serving", !.setup = "error"] ELSE daemon
              /\ UNCHANGED phase
         ELSE /\ phase' = Moved(w, "cancelled")
              /\ daemon' = [daemon EXCEPT !.next = @ + 1]
              /\ UNCHANGED <<lease, attempt>>
    /\ UNCHANGED <<execution, active, runs, call, made, starts>>

ReconcileOther ==
    /\ daemon.state = "starting"
    /\ \/ /\ daemon.next <= N
          /\ phase[daemon.next] \notin {"running", "integrating", "cancel_requested"}
          /\ daemon' = [daemon EXCEPT !.next = @ + 1]
       \/ daemon.next > N /\ daemon' = [daemon EXCEPT !.state = "serving", !.next = 1]
    /\ UNCHANGED <<stored, active, runs, call, made, starts>>

Reconcile == ReconcileRunning \/ ReconcileCancel \/ ReconcileOther

\* begin_shutdown: every coordinator is told to pause, whatever it was told.
BeginShutdown ==
    /\ daemon.state = "serving"
    /\ daemon' = [daemon EXCEPT !.state = "stopping"]
    /\ runs' = [i \in RunIds |->
                  IF active[runs[i].w] = i THEN [runs[i] EXCEPT !.control = "pause"] ELSE runs[i]]
    /\ UNCHANGED <<stored, active, call, made, starts>>

\* serve_owned drops the server: a call that is still under way is abandoned.
DropServer ==
    /\ daemon.state = "stopping"
    /\ daemon' = [daemon EXCEPT !.state = "draining"]
    /\ call' = NoCall
    /\ UNCHANGED <<stored, active, runs, made, starts>>

\* Nothing of the daemon's memory survives.
Down ==
    /\ daemon' = [daemon EXCEPT !.state = "down"]
    /\ active' = [w \in Workflows |-> NoRun]
    /\ runs' = [i \in RunIds |-> Gone]
    /\ call' = NoCall
    /\ UNCHANGED <<phase, lease, execution, made, starts>>

\* shutdown: the coordinators end or are aborted after the grace; then the
\* dispatch service ends its attempts, or aborts those that take too long.
Exit ==
    /\ daemon.state = "draining"
    /\ Down
    /\ \E ended \in SUBSET {w \in Workflows : attempt[w] = "running"} :
         attempt' = [w \in Workflows |-> IF w \in ended THEN "terminal" ELSE attempt[w]]

Crash ==
    /\ daemon.state # "down" /\ starts < MaxStarts
    /\ Down
    /\ UNCHANGED attempt

\* vibemuxctl dispatch cancel: the operator settles a parked attempt.
OperatorSettles(w) ==
    /\ Serving /\ attempt[w] = "parked"
    /\ attempt' = [attempt EXCEPT ![w] = "terminal"]
    /\ UNCHANGED <<phase, lease, execution, memory, made, starts>>

----------------------------------------------------------------------------

ServiceInit ==
    /\ phase \in [Workflows -> Left]
    /\ lease = [w \in Workflows |-> "free"]
    /\ attempt = [w \in Workflows |-> "none"]
    /\ execution = [w \in Workflows |-> "none"]
    /\ daemon = [state |-> "down", setup |-> "ok", next |-> 1]
    /\ active = [w \in Workflows |-> NoRun]
    /\ runs = [i \in RunIds |-> Gone]
    /\ call = NoCall
    /\ made = [w \in Workflows |-> 0]
    /\ starts = 0

ServiceNext ==
    \/ \E kind \in {"start", "pause", "cancel"}, w \in Workflows : Call(kind, w)
    \/ CallStep
    \/ \E i \in RunIds : CoordinatorStep(i)
    \/ \E w \in Workflows : TurnEnds(w) \/ OperatorSettles(w)
    \/ \E setup \in {"ok", "error"} : Start(setup)
    \/ Reconcile \/ BeginShutdown \/ DropServer \/ Exit \/ Crash

ServiceSpec == ServiceInit /\ [][ServiceNext]_serviceVars

\* The tasks of the runtime are scheduled fairly and every turn ends; nobody
\* has to make a call, to settle an attempt or to stop the daemon.
FairServiceSpec ==
    /\ ServiceSpec
    /\ \A i \in RunIds : WF_serviceVars(CoordinatorStep(i))
    /\ \A w \in Workflows : WF_serviceVars(TurnEnds(w))
    /\ WF_serviceVars(CallStep)

----------------------------------------------------------------------------
(* Properties.                                                             *)

\* A workflow has one coordinator at most, and it is the registered one, also
\* while an ending coordinator still has transactions to make and another
\* start is under way: a second one would drive the same worktree.
OneCoordinator ==
    \A i \in RunIds : Live(i) => active[runs[i].w] = i

\* A turn that runs has its coordinator waiting for it, and its workflow is
\* neither stopped nor ended behind its back; an attempt a restart parked has
\* no coordinator beside it.
TurnsOwned ==
    \A w \in Workflows : daemon.state \in {"serving", "stopping"} =>
        /\ attempt[w] = "running" =>
              /\ Signalled(w) /\ runs[active[w]].pc = "turn"
              /\ AdmitsWork(phase[w]) \/ phase[w] = "cancel_requested"
        /\ attempt[w] = "parked" => ~Signalled(w)

\* startup.rs: when the service comes up with a setup, no workflow is left
\* mid-run, no requested cancellation is left open and no supervisor execution
\* of an earlier daemon runs, also after a start that was itself interrupted.
StartupSettles ==
    [][daemon.state = "starting" /\ daemon'.state = "serving" /\ daemon'.setup = "ok" =>
        \A w \in Workflows : /\ phase'[w] \notin {"running", "integrating", "cancel_requested"}
                             /\ execution'[w] # "running"]_serviceVars

BeforeRecheck == {"steps", "leased", "turn", "settle", "after", "escalate", "integrate",
                  "verify", "error", "fail", "failing", "stop", "pausing", "recheck"}

\* A cancellation that is committed before the coordinator looks at the record
\* for the last time is finished, although the signal is overridden by a
\* pause, the coordinator is about to fail, or its workflow integrates; unless
\* the daemon ends before.
CancelFinished ==
    \A w \in Workflows :
        (Signalled(w) /\ runs[active[w]].pc \in BeforeRecheck /\ phase[w] = "cancel_requested")
            ~> (phase[w] = "cancelled" \/ daemon.state \in {"draining", "down"})

\* A coordinator that was told to stop comes to its end.
StopEnds ==
    \A w \in Workflows :
        (Signalled(w) /\ runs[active[w]].control # "run") ~> ~Signalled(w)

\* service.rs, drive: a cancellation that is committed while the coordinator
\* was already ending is finished by it.  So while the service works nobody
\* is told that a coordinator was signalled and then left with a requested
\* cancellation that nothing holds up and nobody works on.
CancelHasOwner ==
    \A w \in Workflows :
        /\ daemon.state = "serving" /\ daemon.setup = "ok"
        /\ phase[w] = "cancel_requested" /\ lease[w] = "free"
        => Signalled(w) \/ (call.kind = "cancel" /\ call.w = w)
=============================================================================
