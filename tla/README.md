# vibemux in TLA+

vibemux is a project daemon (`vibemuxd`, Rust) that runs coding agents (Claude,
Codex, Copilot, ...) for a user: it admits requests, starts the vendor's
process in a working directory, records what happened in SQLite, and drives
multi-agent workflows over the same machinery.  One writer thread owns the
database; everything else talks to it through a bounded queue.  This directory
models the part of it in which mistakes are expensive and hard to test: who may
write the database, how a request reaches the writer, how a dispatched
attempt lives and dies across cancels, timeouts, crashes and restarts, what a
client is shown of it, what the workflow tables built over those attempts
guarantee, and how the service that drives workflows stops, cancels and restarts.

## 1. The system's parts

| part | state it keeps | operations | hard behaviour |
| --- | --- | --- | --- |
| canonical Task and Run (`vibemux_types`) | status of each | `transitioned` | the dispatch phases must never ask for an edge that does not exist |
| dispatch rules (`vibemux_harness/src/dispatch`) | none | `attempt::apply`, `decide_outcome` | what wins when triggers meet: cancel against finish, recovery against both |
| dispatch store (`vibemux_store/src/harness_dispatch*`) | a row per request, its Task and Run, the event log, the claim fence | admit, claim, finish, cancel, recover | stale executors of a dead daemon, repeated operations, damaged rows, a clock that goes back |
| dispatch service and executor (`vibemuxd/src/harness_dispatch`) | registry of attempts with cancel channels, attempt tasks, vendor processes | submit, cancel, run_attempt, begin_shutdown, shutdown | state read before an await and used after it, aborted tasks, late answers, retries |
| transcripts and output pages (`transcript_store.rs`, `output_page.rs`, `vibemux_client/src/ask`) | live and retained transcripts, a reader's place | begin, append, finish, evict, page, poll | a page read while the transcript grows or is evicted; output read before the status |
| writer queue and thread (`vibemuxd/src/lib.rs`) | bounded channel, depth and watermark | enqueue, receive, health, shutdown, drop | count/publish/rollback races, a full queue at the end |
| writer locks (`vibemuxd/src/lib.rs`, `control.rs`) | two lock files | acquire, release | crash between any two file operations, an older release that knows one of the files |
| recovery command (`vibemuxd/src/recovery.rs`, `vibemux_cli/src/recovery.rs`) | snapshots of the files | inspect, recover | compare-then-delete, an owner that was absent a moment ago |
| workflow store (`vibemux_store/src/workflow*`, `vibemux_workflow`) | workflows, contracts, slots, leases, attempts, receipts, messages | transitions, acquire/change lease, admit attempt, recover | leases over attempts over processes; recovery of two tables in order |
| workflow service (`vibemuxd/src/workflow`) | registered coordinators and their signals, supervisor executions | start, pause, cancel, drive, shutdown, reconcile | several actors against one record, cancel during a turn or an ending run, restart in the middle |
| decisions (`vibemux_decision*`, `vibemuxd/src/decision`, `vibemux_store/src/decision.rs`) | decision records | decide, record, admit under | one decision, one dispatch, also when repeated, expired or with a clock that went back |
| A2A (`vibemux_a2a`, `vibemux_store/src/a2a.rs`) | remote runs | start, update, monitor | late and repeated updates |
| plugins (`vibemux_plugin_*`, `vibemuxd/src/plugin_*`, `process.rs`) | child processes, registry | start, call, restart, stop | timeouts, restarts |
| DSH, native adapters, MCP, web, desktop, CLI, frontends, platform, probes | sessions, views | - | mostly presentation and I/O |

How they interact.  Clients reach the control server, which calls the services.
A service never touches the database: it makes a `WriterRequest` with a response
channel, `WriterHandle::enqueue` puts it into the channel or refuses it, the
writer thread runs it as one SQLite transaction and answers; the caller waits
with a deadline, and `call_writer` repeats what was refused or late.  An attempt
task claims its row, starts the vendor process, waits for it, and reports with
the fence its claim minted.  At a start the writer recovers all rows before it
reports ready.  `PROJECT.json` lists every part and every hazard found so far,
each at its line.

What makes each modelled part correct: a directory has one user at a time and
keeps it until its process tree was terminated; a success is earned; a cancel wins; a report
is taken from the claimant only, and is always taken; nobody waits for ever; no
two writers; the queue's numbers are right; a slot and a worktree are leased to one
holder, who keeps them while a turn may have a process; a workflow that says
cancelled is quiet, and one that says accepted has earned it; it has one
coordinator, whose stop and whose cancellation come to their end; a decision
starts the dispatch it was made for and no other; a reply shown as complete is
complete.

## 2. Modules

    DispatchPhase            operators only: phases, edges, outcome rule
      HarnessDispatchStore     the table and its transactions
        HarnessDispatchStore_proofs
        DecisionStore            decisions and the admissions that consume them
          DecisionStore_proofs         (also extends HarnessDispatchStore_proofs)
        HarnessDispatchService   queue + clients + attempt tasks + processes
          (INSTANCE) WorkingDirectoryLease   the abstract promise
          HarnessDispatchService_proofs  (also extends HarnessDispatchStore_proofs)
      TranscriptStore          transcripts, pages, the reader of pages
        AskSession               an attempt's capture and the client that polls
          AskSession_proofs
    WorkflowRules            operators only: workflow phases, lease reducer
      WorkflowStore            (with DispatchPhase) the workflow tables
        WorkflowStore_proofs
      WorkflowService          calls, coordinators, shutdown, reconciliation
        WorkflowService_proofs
    WriterLock               lock files, daemons, recovery command
      WriterLock_proofs
    WriterQueue              the queue at the grain of atomic operations
      WriterQueue_proofs

`MC*.tla` add the symmetry sets and views; the `.cfg` files give the constants.

**DispatchPhase.**  `ClaimEdge`, `FinishEdge`, `CancelEdge`, `RecoverEdge` are the
rows of the one `match` in `attempt::apply`, a trigger each.  An edge is a record
(new phase, Task, Run, what happens to the fence, error code) or a refusal.  The
forty-odd failure codes are one value, `"fault"`, except `cancelled` and
`interrupted`, which the rules tell apart.

**HarnessDispatchStore.**  `rows` is the `harness_dispatches` table joined with the
Task and Run of a row; `events` its part of the event log; `defective` the rows
whose stored form no longer passes `dispatch_rows::load`.  A transaction is one
step (`IMMEDIATE`, single connection).  Each operation is a reply, a function of
the row and the arguments that follows the code's early returns in their order,
and an effect taken when the reply is `"changed"`.  A fence is the index of the
claim that minted it, which is the freshness `Uuid::new_v4` gives.  `Finish` takes
any fence ever minted: an executor of a dead daemon may still call.  `Open` is the
start of `writer_loop` with the recovery of all rows in one transaction, the
damaged ones skipped (savepoint).  `claims` and `epoch` are history.  Besides the
operations there is `Detect` (the registry of installed harnesses), `Crash` and
`Corrupt`.

**DecisionStore** adds the `decision_records` table to the dispatch table.  What a
decision is bound to (harness, prompt, configuration) is what the fingerprint of a
request digests, so the constants `HarnessOf`, `PromptOf` and `ConfigOf` give the
binding of a fingerprint.  `RecordDecision` is the writer's insert; `AdmitDecided` is
`admit_decided_dispatch`, one transaction that runs every gate of the
undecided admission and consumes the record, or recognises the repetition.  Readings of
the clock are arguments, so it may step back.  How a decision is made is not modelled.

**HarnessDispatchService.**  `calls[c]` is where caller `c` is in `call_writer`; an
attempt task calls under the name of its request.  `Enqueue`, `QueueFull`,
`ResponseTimeout` and `Serve*` are the queue at the grain of requests; the answer
of a request whose caller timed out goes nowhere, but the request is carried out.
`pc[r]` follows `run_attempt_with_final_text`: claiming, claimed, running,
finishing, ending.  `procs` holds the claims whose vendor process is alive and in the care
of its task.  `Terminated` is the end of a tree in `NativeProcess::finish` and `Drop`: the
error of `terminate` is ignored, `reap` gives up after two deadlines and a member can have
left the group, so any of the processes may outlive it and is one of the `strays` from
then on, until it dies by itself.  A step
ends wherever the code awaits; what is done under the registry's mutex is one
step.  `AbortTasks` is the end of the grace period in `shutdown`; a blocking call
of an aborted task still runs (`OrphanCall`).  `Exit` is any end of the daemon: all
that was in memory is lost and any subset of the processes survives.

**WorkingDirectoryLease** says what all of this promises about a directory:
acquire, begin, end, release; parked by a restart, given up by an operator.  `working` are
those whose process may be at work, `astray` those whose process outlived its end: a
release needs that nobody is `working`, that is that the tree was terminated, and not that
nobody is `astray`, because the code does not know that.

**TranscriptStore.**  A transcript is the sequence of the sizes of its records, whose
index is the sequence number `CaptureBudget` gives.  `Begin`, `AppendRecord` and
`FinishTranscript` (with the eviction loop, which may evict what was just finished) run
under the store's mutex.  How many characters fit a page depends on their escaping, so
`Fragments` is the set of all the ways a page may be cut within its limits, and a read
takes any of them; `OutputPage` adds the cursor and whether that was all.  `Accept` is the
client's `OutputReassembler`.  `captured` is history.

**AskSession.**  `task[r]` follows the capture part of `run_attempt`: claim, begin,
records, finish of the transcript and only then the report.  A claim or a report may be
lost at the writer (`ClaimLost`, `ReportLost`): it was refused until its retries were used
up, or only its answer was late and the order is carried out all the same (`LateClaim`,
`LateReport`); the task ends either way.  `asking[r]` is the
driver's loop: cancel, up to `MaxPages` pages, status, again; a call of it is one step.
A cancel the daemon refuses, a failing call and the deadline end an Ask.  `Restart` loses
all transcripts and recovers the rows.

**WorkflowRules** holds `WorkflowPhase::can_transition_to` and `leases::apply`.  The
heartbeat deadline is left out: a clock may pass it at any time, so a missed
heartbeat may be reported at any time, and a heartbeat that arrives changes nothing.

**WorkflowStore.**  `workflows`, `tasks`, `slots`, `leases`, `attempts` and `receipts`
are the tables; one transaction is one step.  Any caller may make any call with
arguments from an old view: a generation is any that some lease has had, a contract
any that the task may have had.  Calls refused for their expected version, and repetitions of a call
that are answered from the stored row, change nothing and are left out.  Of an
attempt's dispatch row the phase is kept and moved by the edges of `DispatchPhase`;
what fences those edges is shown in `HarnessDispatchStore`.  A lease identifier is
used once; its slot stands for the route its turns take, which is what the reviews'
independence is about.  A receipt names its subject: a candidate, or the set of
candidates of an integration, which stands for the digest of its tree.  The order of
the rows of a kind is kept, because the gates read the latest one.  A restart is
`Crash`, `RecoverDispatches` (the dispatch rows, one transaction, and the list of
active leases), `RecoverLease` per lease in a transaction each, `Ready`: a crash may
come between any two of them.

**WorkflowService.**  `phase`, `lease`, `attempt` and `execution` are what the store has of
a workflow with one unit; `active` is `runs.active`, `runs` the coordinator tasks,
`call` the one call that holds the lifecycle gate.  A coordinator's program counter
follows `coordinator::run` (turns, escalation, integration, the failure and stop paths)
and the tail of the task in `service.rs`, which reads the record once more, ends the
execution and unregisters.  A step ends at each transaction; what was read before one is
carried along, and a transition is legal or not in the phase its transaction meets.
`Start` and `Reconcile` are a start of the daemon with the walk of `startup::reconcile`
over all workflows; `BeginShutdown`, `DropServer`, `Exit` and `Crash` end it.

**WriterLock.**  One step per file operation of `LifecycleLock::acquire_path` and
`Drop`, of the writer's start and end, and of the recovery command.  A generation
is one start of a daemon, of this release (two locks) or an older one (the legacy
lock only).  The nonce is the generation; that nonces are unique and name their
process is the assumption.

**WriterQueue.**  One step per atomic operation of `SharedWriterState`, the two
`enqueue` functions, `receive`, `shutdown`, `Drop` and `writer_loop`.  A weak
handle holds the channel only during an enqueue.

## 3. Runs

| run | question | bounds |
| --- | --- | --- |
| `store_contention` | are the table and the decisions consistent whatever order the operations come in? | 2 requests, 1 directory, 2 decisions, clock readings 0..2 with a lifetime of 1, 2 openings |
| `service_progress` | what do late answers and repeats do to one attempt, and does everything that was begun come to an end? | 1 request, 1 client, queue 1, 1 retry, late answers, 2 openings; states that differ in strays alone are one (`WithoutStrays`), because nothing else reads or changes them |
| `service_repeat` | do two clients and a shutdown lose an attempt, a cancel or a process? | 1 request, 2 clients |
| `service_contention` | does the service implement the lease? | 2 requests for 1 directory, a restart, processes that outlive the end of their tree; states that differ only in the event log and the calls that lapsed are one (`WithoutHistory`), because no step reads them |
| `output_pages` | is the retention exact, does a reader keep its place, is a reply whole, does an Ask end? | 2 requests, one of them asked, 2 records of 1 or 3 bytes, room for 1 transcript of 4 bytes, pages cut anywhere within 2 bytes and 2 fragments, 2 pages a pass, writer calls that are lost, 1 restart |
| `workflow_leases` | who holds a slot, a worktree, a lease, and who works in it; is every turn charged once and none past the budget; is an interrupted recovery completed? | 2 workflows with a task each and a budget of 1 turn, 2 slots, worktrees, leases and requests, 2 contracts, 3 openings, no receipts; the ends of a turn are one state (`EndsAlike`), because without receipts no step tells them apart |
| `workflow_acceptance` | what does accepted or cancelled stand for? | 1 task, a repair turn and a review, 1 candidate, every receipt its gates read |
| `workflow_compare` | can a competitor hide a candidate, does anything of an old contract carry over? | compare mode, 2 competitors or worker and reviewer, 2 contracts, 2 candidate receipts, a review, 2 verifications, a selection |
| `workflow_lifecycle` | one coordinator, no orphaned turn, a start that settles, stops and cancellations that end? | 2 workflows left prepared, running or cancelling, 2 coordinators, 5 calls about the first, 3 starts |
| `cancel_stranded` | does every signalled cancellation have an owner? (violated) | as `workflow_lifecycle` |
| `lock_recovery` | one writer? | 3 starts of this release, 1 of an older, kills anywhere, any number of recoveries |
| `queue_ends` | is the depth exact, was a refused call served, does the writer thread always stop? | 2 callers with a call each, the owner, capacity 1 |

Why these are enough: the store's operations touch one row and read the others
only through `is_reserved`, so two requests for one directory show every
interaction, and the proofs lift it to any number.  A claim, its loss and the
recovery need one reopening; a second one lets a stale executor meet a third
generation.  The service multiplies this by queue contents, so each of its
configurations turns one difficulty on; one retry already gives a repeated request
that overtakes nothing and one that is given up.  A lock needs an owner that
died, one that starts during the recovery and a rival; the older release sees only
one file.  The queue of one is full as soon as anyone waits.  Leases interact in pairs
(two that want one slot or worktree), an attempt with the lease it is under, and the
proof lifts that to any number.  A budget of one turn refuses the second
request at its limit, while a review is not charged and may go on under the same lease; a
repair is refused by its own limit only with a larger budget, which the theorem covers.  Of
three openings the first admits the turns, the second is interrupted with one of two leases
recovered, and the third completes it.  An acceptance
reads one candidate, one review and two verifications per task, so the runs allow
exactly these, with every verdict; what is of an earlier contract needs one more
contract.  The receipts touch no lease, so the lease run has none.  A decision meets a
rival decision or a rival request; three readings give a clock before, within and after
its lifetime.  A transcript of two records over pages of two bytes is cut at the end of a
record, within one and by the fragment limit, and one other transcript suffices to evict
it.  A workflow interacts with another one only in the walk of a start, so the second is
there to be met after the first and is not called about; a call of each kind, one
repeated and one after a restart, are within the five.

The bounds are constants: `MaxRestarts`, `QueueCapacity`, `MaxRetries`, `MaxCalls`,
`Timestamps`, `Readings`, `Generations`, `MaxRecords`, `MaxPages`, `Sizes`, `MaxRuns`,
`MaxStarts`, and in the workflow runs `MaxContracts`, `MaxOpenings`,
`MaxReceipts` (for each kind of receipt) and what callers ask for, `AskedPhases` and
`AskedPurposes`: each run asks for those its question needs, the lease run for running and
the steps of a cancellation, since a lease and a turn look only at whether a workflow
admits work; the theorems hold for every choice.  The acceptance of a workflow in compare mode is modelled (`Counted`)
but the bounds of these runs do not reach it; the theorem about `AcceptedIsEarned`
covers it.

Deadlock checking is off in all configurations: with bounded restarts, calls and
starts every behaviour ends.

**One run violates its property.**  `cancel_stranded`: `service.rs:1411-1412` says that a
cancellation committed while the coordinator was already ending is finished by it.  The
task reads the record for the last time, then ends the execution, then removes itself
from `runs.active`.  A cancellation committed after that read finds the run still
registered, is reported as signalled, and the call does not finish it itself: the
workflow stays in `cancel_requested` until somebody cancels again or the daemon is
restarted.  `CancelFinished` shows that everything before that read is in order, and
`StartupSettles` that the next start repairs it.

**Other disagreements between the code and what is said of it** that the modelling showed
and no run is about:

* `executor.rs:149-151` says that every writer operation is idempotent or fenced and so
  may be repeated after a late answer.  The claim is neither: if it commits and its answer
  is late, the repeated claim is refused (`invalid_transition`), the task ends without
  executing, and the row stays `running`, its directory reserved, until a restart.
  `RunningIsSupervised` and `AttemptsSettle` name this case.  An Ask for such a row polls until
  its deadline, as it does after a report that was lost (`executor.rs:137`); `AskEnds` names both.
* `native_process.rs:200-202` says that terminating the tree removes any member it left
  behind.  `finish` drops the error of `terminate` (line 210) and `reap` gives up after two
  deadlines (251-260); the exit is reported all the same, the row settles and the directory
  is free for the next attempt while a process may be at work in it.  ADR 029
  (`docs/adr/029_daemon_harness_dispatch.md:388`) and `process_tree.rs:25-27` say that a member
  can leave the group.  In the model such a process is one of the `strays`.  What the code
  does guarantee is `ImplementsLease`: a directory is given back only after the tree of its
  holder was terminated.
* `lib.rs:98-99` says that the watermark is the largest depth since the last sample.  The
  reset is a plain store of a depth read earlier and overwrites a mark made in between;
  the mark is also raised before a publish that may be refused.
* ADR 031 (`docs/adr/031_dual_track_workflow.md:72-73`) says that every update carries the
  expected version.  `record_workflow_receipt` takes none, and a candidate of the earlier
  contract puts the task to `candidate_collected` under the new one.  The gate still
  refuses that candidate (`CandidateEarned`).
* `ask/session.rs:160-162` reads the output before the status.  An attempt that begins and
  ends between the two leaves an Ask with "output unavailable" although its transcript is
  there.  What is shown as a complete reply is one (`ReplyIsWhole`).
* A user's cancel of an attempt that has just ended is refused, and the refusal ends the
  Ask in place of the attempt's own outcome (`ask/session.rs:130-135`).
* `coordinator.rs:86-87` says that every error ends in a phase.  A pause signalled during
  an integration that then errs leaves `integrating` with no coordinator: only a running
  workflow is paused.  The next start repairs it.
* A reconciliation that fails for one workflow is not tried for those behind it
  (`startup.rs:86-88`), which is why `StartupSettles` is about a start that comes up with
  its setup.
* ADR 023 (`docs/adr/023_daemon_plugin_registry.md:15`) says that an unknown reap outcome
  keeps the quarantine rather than claiming stopped.  A plugin whose handshake fails, whose
  child cannot be reaped and whose registry is cancelled meanwhile is marked stopped
  (`plugin_registry.rs`, after `spawn_plugin`).  The registry is not modelled yet.

**Fairness** is assumed in four runs.  The writer thread is scheduled
(`WF(Serve)`, `WF(WorkerStep)`); tasks of the runtime and blocking calls go on
(`WF(CallerStep)`, `WF(AttemptStep)`, `WF(CallStep)`, `WF(DriverStep)`,
`WF(CoordinatorStep)`); an exchange ends, and with it a turn (`WF(TurnEnds)`), because
`run_exchange` selects on its deadline and `NativeProcess::finish` kills the tree
after the grace period; a `WriterWorker` whose `shutdown` returned an error is
dropped, because `shutdown` takes it by value.  Clients and operators owe nothing,
the daemon need not restart or stop, vendors need not print anything, and time-outs
need not happen: an Ask is shown to end without its deadline, unless its row was
orphaned by a lost call, whose late execution nobody owes either.

## 4. Proofs

Eight modules hold theorems.  Each proves one inductive invariant, for every value of
the constants, and derives from it the properties its component's runs check on a small
instance.  TLC checked every inductive invariant as an invariant of those runs first.

### The dispatch table: `HarnessDispatchStore_proofs`

For every set of requests, directories, contents and clock readings and every number of
restarts (`StoreAssumption`: clock readings are natural numbers, as is the bound), `IInv`
is an invariant, and from it follow `TypeOK`, `OneReservation`, `CancelWins`,
`ReportFromClaimant`, `SuccessIsEarned`, `RowsLoad`, `LogReplays`, and the action
properties `TerminalRowsFinal`, `ReleaseNeedsExit` and `RecoverySettles`; with it, that
time does not go back (`TimeMonotone`).  `ReportFromClaimant`, `RowsLoad`,
`LogReplays`, `TerminalRowsFinal` and `TimeMonotone` are proved and in no run; the time stamps of the
rows have one value in the runs.

Why the strengthening.  That a report comes from the generation that claimed
(`ReportFromClaimant`) is not inductive: a finish compares the fence column only.
One has to know that the fence in a claimed row is of a claim of this row
(`FenceColumn`) and of the running generation (`ClaimsCurrent`, which recovery
re-establishes by clearing the fence of all rows it can load, and which is
claimed only of those).  That a completed row still carries its evidence (`RowsLoad`)
needs that an active row has no code yet (`Uncoded`), because a commit keeps an
older code when it brings none.  `SuccessIsEarned` needs the log to end where the
row is (`LogReplays`), and that a completed row keeps its fence (`FenceKept`).
Every transaction writes one row through `Committed`; the lemmas about `Committed`
and `Write` are proved once, and each action has one step per conjunct of `IInv`.

### Decisions: `DecisionStore_proofs`

`DecisionInv` is `IInv`, the types of the decision table, and `DecisionsBound`; from it
`DecisionsBound`, `RepeatRecognised`, and once more `OneReservation`, `ReleaseNeedsExit`
and `RecoverySettles`, now of a table whose rows are also admitted under decisions.  A
decided admission is an admission of the dispatch table, so all of `IInv` carries over.
That no dispatch is started by two decisions rests on the row and not on the decision:
a first use must find its request without a dispatch, and a request that has one keeps
it, its content and the event of its admission for ever (`Kept`).  The repetition is
recognised through the content: `DecisionAssumption` says that a fingerprint determines
harness, prompt and configuration and is determined by them, which is what a digest
without collisions gives.  Nothing is assumed of the clock.

### The service: `HarnessDispatchService_proofs`

For every set of clients, requests and directories, every queue capacity, retry budget
and number of restarts, with late answers or without (`ServiceAssumption`; a client is
not a request, because both are callers of the writer; the service has no damaged
rows).  `ServiceInv` gives
`ShutdownSignalsAll`, `ProcessSupervised`, `FinishTaken`, `RunningIsSupervised` and
`CancelSignalled`.  `ProcessSupervised` is about the processes in the care of a task:
whatever is aborted, cancelled or shut down, a process leaves that care only when its tree
is terminated.  What is hard is that an answer may come too late: the caller gives
up or repeats while its order is still queued.  So the invariant says of every order in
the queue, awaited or not, what is known of its request:

* `OrdersValid`: who may have made it, and for a report that it carries the fence of its
  row and that the row waits for it or has recorded exactly it.
* `OneReport`, `AwaitedLast`: an attempt's reports are repetitions of one report, and the
  order somebody waits for is the last its caller made.
* `TaskCalls`, `ClaimHeld`: where a task is says which call it is in, and the task that
  learnt its claim has the fence in the row until it reports.
* `LostClaims`, `Supervised`, `FinishKnown`: a claim nobody waits for has lapsed and its
  row is the exception `RunningIsSupervised` names; an answered report is recorded or
  was given up.
* `LateCancels`, `CancelHeard`: a canceller whose answer was late repeats its cancel or
  gives up, so a committed cancellation has reached the task, or somebody will pass it on.
* `ClosedEmpty`: without a daemon nothing of this is in memory.

Two refinements are proved step by step.  `ServiceImplementsStore` (`ServiceSpec => Spec`
of `HarnessDispatchStore`): a step of the service is one transaction of the table or none,
with the arguments its order carries, so every theorem about the table holds of it in
the service.  `DispatchKeepsTheLease` (`ServiceSpec => ImplementsLease`): the service
implements `WorkingDirectoryLease` under the mapping of `HarnessDispatchService`.  For
that, `LeaseInv` adds that a request is claimed once (`ClaimedOnce`) and that an
attempt has a directory (`Placed`), and that a stray's task has come to its end
(`StraysEnded`), so that nothing begins again beside a stray of the same request; the rest is
what `ServiceInv` says of processes and fences.  A process may stray whenever its tree is
terminated, and the theorem holds with every choice of who does.

### The workflow tables: `WorkflowStore_proofs`

For any sets of workflows, tasks, slots, worktrees and leases, any finite set of
requests and any bounds (`WorkflowAssumption`), in both modes.

*Leases.*  `LeaseInv` is an invariant, and from it `OneHolder`, `HolderIsNewest`,
`LeaseOutlivesAttempt`, `OneTurnPerWorktree`, `CancelledQuiet` and the action property
`EndedLeaseFinal` (which is in no run).
Why the strengthening: that the holder of a slot has its newest generation survives
the next acquisition only if no lease is ahead of its slot (`GenerationsBelow`); that
recovery ends no lease over a live turn needs that what is on its list is still active
(`TodoActive`), which holds because a recovering writer serves nobody; and
`CancelledQuiet` for turns follows from the leases through `LeaseOutlivesAttempt`.  A
step has one of six shapes (nothing of the lease tables moves, a phase moves, a lease
is acquired, a lease moves, a turn is admitted, rows move along their edges); each
action is shown to have one, and each shape to keep every conjunct, so that the
invariance is argued six times and not once per action.

*Tasks and receipts.*  `AcceptanceInv` contains `LeaseInv` and gives `CandidateEarned`,
`AcceptedIsEarned`, `TurnsCharged` and the action properties `RecoveredLeases`,
`CancelledFrozen` and `CollectedStays`.  The gates read receipts of any age and never
look at the turns behind them, so the invariant says of every receipt on record which
turn it stands for: an admitted candidate for a completed worker turn of its task and
contract, a passed review for a completed review turn (`CandidatesStand`, `ReviewsStand`).
These survive because a turn keeps what it was admitted with and its end
(`AttemptsPlaced`, `AttemptKept`) and receipts are only appended (`ReceiptMoves`).
Then the contract in the gate ties candidate, review and verification to the task's present
contract.  `AcceptedIsEarned` also says that exactly the candidates it stands on were
integrated without conflicts under those contracts and their tree verified (`Integrated`);
it is kept because no step changes contract or candidate of a task whose workflow is
accepted (`AcceptedTasksKept`).
`CancelledFrozen` rests on the leases: recording a candidate looks at no phase, but it
needs an active lease, and a cancelled workflow has none (`CancelledQuiet`).
`RecoveredLeases` needs what an interrupted recovery has done so far
(`RecoveredSoFar`), `CollectedStays` that a collected task has an admitted candidate
(`CollectedHasCandidate`), `TurnsCharged` that turns are counted over a finite set.

The proof changed one property.  `AcceptedIsEarned` used to speak of the tasks that
count now (`Counted`).  In compare mode that is not invariant: `record_workflow_receipt`
takes a selection after the acceptance, which changes the winner that counts (TLC shows
it in 23 steps).  What the acceptance stood on is not lost by it: some selection on record
names a candidate that was earned (`Standing`), and this is what the property now says
and what is proved.

### The workflow service: `WorkflowService_proofs`

For any number of workflows, coordinators, calls and starts
(`WorkflowServiceAssumption`), `ServiceInv` gives `OneCoordinator`, `TurnsOwned` and
`StartupSettles`.  The strengthening is what the code relies on across its awaits: a
registered coordinator lives and is the workflow's own (`ActiveLive`), the lease a
coordinator took is there until it settles it (`LeaseHeld`), a parked attempt has a
quarantined lease and nobody beside it (`ParkedAlone`), what a call saw under the
lifecycle gate still holds (`CallClaims`), and behind the cursor of the start's walk
nothing is left to reconcile (`WalkSettles`).  The steps of a coordinator are first
reduced to what the invariant can see of them (`CoordinatorMove`).

### The writer's locks and queue: `WriterLock_proofs`, `WriterQueue_proofs`

`WriterLock_proofs` proves `SingleWriter` and `LocksKept` for any number of daemon
starts of either release (`LockAssumption`: the two markers are not generations).
`LockInv` adds to `LocksKept`: what a stage implies about the locks held
(`StagesAgree`), that two generations are not creating the same file
(`SoleCreator`), that nonces are of processes that have started (`NoncesUsed`), and
what the recovery command knows at each of its steps (`StaleOnly`): what it is about
to remove names an absent process, and the file it has compared is still the one it
deletes.  The last is where compare-then-delete is safe: while the stale file exists
nobody can create it, and its owner is gone.  With two recovery commands at once it
would not be: ADR 019 states that limit, and the model has one.

`WriterQueue_proofs` proves `PendingExact` and `RefusedNotServed` for any finite set of
callers, any capacity and any number of calls (`QueueAssumption`).  `PendingExact` is a
cardinality, kept through the race of count, publish and roll back; it needs that only
the Shutdown of `Drop` goes uncounted, after which the writer only stops
(`UncountedIsShutdown`).  `RefusedNotServed` needs that a call that is not published yet,
or was refused, is nowhere on its way (`NotHandedOver`) and that numbers of calls are not
used twice (`NumbersUsed`).

### Transcripts and the Ask: `AskSession_proofs`

For any requests, record sizes, retention bounds, page limits and number of restarts
(`TranscriptAssumption`: records and page limits are not empty, the bounds are natural
numbers; `AskAssumption`: those who ask are among the requests), `AskInv` is an invariant,
and from it follow `RetentionExact`, `ReaderFollows`, `ReplyIsWhole` and the action
property `ReaderAdvances` (proved and in no run: every read that changes a reader takes it
further, and nothing it has shown is taken back).

The size of a transcript is a recursive sum, and what it computes is proved without an
induction scheme: a statement about all lengths that fails has a least length where it
fails (`LeastNatural`, from the well-foundedness of the natural numbers), and the length
before that one refutes it.  So are proved that the recursion has a solution (`SumExists`),
that sizes add up over concatenation (`BytesConcat`), and that popping the oldest entries
ends within both bounds (`EvictionFits`).

`AskInv` has five parts.  `StoreInv`, types and `RetentionExact`, is kept by begin, append,
finish and loss in any order, also where a request begins again while its earlier
transcript is retained; it needs nothing of the callers.  `TaskInv` ties the capture
task to the phase of its row.  `ServedInv` says that what the store serves is what was
captured, all of it so far while it is live and all of it once it is `Sealed` (the attempt
was claimed and its capture is over).  `DriverInv` says that the reader stands in or
between the records captured (`ReaderAt`), and that a driver that has read "delivered"
holds the whole of a sealed capture.  `ReplyIsWhole` is not inductive without the seal: the
output is read before the status, and only because the transcript is retained before the
outcome is reported can nothing be captured between the read and the end the driver shows.

`PageAccepted` is the lemma about pages: from `ReaderAt`, whichever way the page is cut,
`Accept` finds it consistent, the reader is again at a place of the transcript, further
than it was, and the server's cursor is the reader's.  `PageAlwaysFits` shows that such a
page exists as long as something is left, given limits that hold one character (which
`TranscriptAssumption` states; with smaller ones `build_output_page` answers an internal
error).  `ReaderAdvances` with `PageAlwaysFits` is the
argument that an Ask reaches the end of any finished transcript, in as many pages as that
takes; that it then ends (`AskEnds`) is left to TLC.

### Only model-checked

Liveness, which the prover does not do: `CallersReturn`, `AttemptsSettle`, `WorkerStops`,
`AskEnds`, `StopEnds`, `CancelFinished`.  Every other property of a passing run is a
theorem.

## 5. What is not modelled

The JSON of rows and events and their validation beyond whether a row loads; the
protocol frames of an exchange (its end is a choice among what `run_exchange` and
`finish` can produce); the probe; the runtime descriptor and the
endpoint in the recovery command, which take the path the locks take; failures of
SQLite in the middle of a transaction, which it undoes.

Of the workflow store: messages and stored content; observations of slots, policy
versions and the checks that depend on them; the supervisor's commands and model
calls (which check an admission or a gate once more before it is made) and prepared
contract edits; the derivation of verification subjects and the origin of injected mutations;
heartbeat deadlines; rows of other workflows' dispatches that no longer load; receipts of
decisions, model calls and context bundles, which no gate reads.

Of the workflow service: the rounds of the model driver (the deterministic one is
modelled); more than one unit per workflow, and so compare mode; messages between units;
heartbeats; the content of checkpoints, evidence and views; writer calls that fail other
than by refusing the transition (`HarnessDispatchService` has those for dispatches).  Of
decisions: rules, peers and budgets that lead to one.  Of Asks: the views drawn from them.

Not modelled at all, with the reason in `PROJECT.json`: the plugin registry and its
processes, A2A runs, the DSH session, the protocol sessions of the vendors, the contract
language, and presentation, transport, probes and platform code.  User interfaces, wire
formats and the validation of documents, which are most of the repository's lines, are
sequential and have little a model would show.

## 6. Plan

Done: the dispatch rules, store and service with the directory lease, decisions,
transcripts and the Ask that reads them, the writer's queue and locks, the workflow rules,
store and service.

1. `PluginRegistry`: a plugin's worker with its sessions, restarts and requests in flight;
   one process at a time, a request carried out by the session it was made to, every
   request answered, every cancelled worker ended.
2. `SupervisorCommands`: the rounds of the model driver, prepared contract edits and the
   messages of units.
3. A2A runs against late and repeated updates, the DSH session, the vendors' protocol
   sessions.
