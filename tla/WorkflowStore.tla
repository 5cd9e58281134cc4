--------------------------- MODULE WorkflowStore ---------------------------
(***************************************************************************)
(* The workflow tables of the project database and the transactions the    *)
(* writer thread runs on them (ADR 031): workflows and their tasks, slot   *)
(* and worktree leases with their generations, attempts bound to dispatch  *)
(* rows, receipts, the gates that read them, and the reconciliation of     *)
(* leases at a start, which follows the recovery of the dispatch rows.     *)
(*                                                                         *)
(* Any caller may make any call at any time, with arguments from a view    *)
(* that may be old.  A call that names an expected version is refused when *)
(* the record has changed since; such calls change nothing, so the version *)
(* itself is left out and only calls with the current one appear.  A       *)
(* repeated call (same lease, request or receipt identifier) returns what  *)
(* is stored and changes nothing; it is left out too.                      *)
(*                                                                         *)
(* Of a dispatch row only the phase is kept, moved by the edges of         *)
(* DispatchPhase; HarnessDispatchStore shows what fences those edges.      *)
(*                                                                         *)
(* Source: vibemux_store/src/workflow.rs and workflow/workflow_rows.rs.    *)
(***************************************************************************)
EXTENDS DispatchPhase, WorkflowRules, Sequences

CONSTANTS
    Workflows, Tasks,     \* every workflow has the same task keys
    Slots, Worktrees,
    Leases, Requests,     \* lease and request identifiers
    Digests,              \* candidate snapshots
    Mode,                 \* "cooperate" or "compare"
    MaxTurns, MaxRepairs, \* the budget of a task
    AskedPhases,          \* bound: the phases callers ask a workflow to take
    AskedPurposes,        \* bound: the purposes of the turns callers ask for
    MaxContracts,         \* bound: contract generations of a task
    MaxReceipts,          \* bound: receipts of each kind a workflow records
    MaxOpenings           \* bound: starts of the writer

ReceiptKinds == {"candidate", "review", "verification", "integration", "selection"}

ASSUME WorkflowAssumption ==
    /\ MaxTurns \in Nat /\ MaxRepairs \in Nat /\ MaxContracts \in Nat
    /\ MaxReceipts \in [ReceiptKinds -> Nat] /\ MaxOpenings \in Nat
    /\ Mode \in {"cooperate", "compare"}
    /\ AskedPhases \subseteq WorkflowPhases /\ AskedPurposes \subseteq Purposes
    /\ IsFiniteSet(Requests)

VARIABLES
    workflows,  \* the phase of each workflow, "absent" before it is prepared
    tasks,      \* contract generation, progress, budget and accepted candidate
    slots,      \* last_generation of each slot
    leases,
    attempts,   \* a turn with the phase of its dispatch row
    receipts,   \* the receipts of a workflow and kind in the order of their rows
    writer,     \* "closed", "recovering" or "open"
    todo,       \* the leases recover_workflows has still to look at
    openings    \* starts so far

vars == <<workflows, tasks, slots, leases, attempts, receipts, writer, todo, openings>>

----------------------------------------------------------------------------

None == "nothing"

NewTask == [contract |-> 1, progress |-> "pending", turns |-> 0, repairs |-> 0,
            candidate |-> None]

NoLease == [state |-> "absent", workflow |-> None, task |-> None, slot |-> None,
            worktree |-> None, generation |-> 0]

NoAttempt == [phase |-> "absent", workflow |-> None, task |-> None, lease |-> None,
              generation |-> 0, contract |-> 0, purpose |-> None]

LeaseRecord ==
    [state: LeaseStates, workflow: Workflows, task: Tasks, slot: Slots,
     worktree: Worktrees, generation: Nat]

AttemptRecord ==
    [phase: DispatchPhases, workflow: Workflows, task: Tasks, lease: Leases,
     generation: Nat, contract: Nat, purpose: Purposes]

\* A receipt names what it is about: one candidate, or the set of candidates
\* of an integration, which also stands for the digest of its tree, or the
\* winner of a selection ({} when there is none).
Receipt(task, subject, contracts, request, verdict) ==
    [task |-> task, subject |-> subject, contracts |-> contracts,
     request |-> request, verdict |-> verdict]

Verdicts == {"admitted", "refused", "pass", "changes_requested", "blocked",
             "passed", "failed", "clean", "conflicts", "selected"}

\* The identity of a task's contract: contracts of different tasks differ.
Contract(t, generation) == <<t, generation>>

Open == writer = "open"

Init ==
    /\ workflows = [w \in Workflows |-> "absent"]
    /\ tasks = [w \in Workflows |-> [t \in Tasks |-> NewTask]]
    /\ slots = [s \in Slots |-> 0]
    /\ leases = [l \in Leases |-> NoLease]
    /\ attempts = [r \in Requests |-> NoAttempt]
    /\ receipts = [w \in Workflows |-> [k \in ReceiptKinds |-> <<>>]]
    /\ writer = "closed"
    /\ todo = {}
    /\ openings = 0

----------------------------------------------------------------------------
(* Workflows and contracts.                                                *)

PrepareWorkflow(w) ==
    /\ Open /\ workflows[w] = "absent"
    /\ workflows' = [workflows EXCEPT ![w] = "prepared"]
    /\ UNCHANGED <<tasks, slots, leases, attempts, receipts, writer, todo, openings>>

HoldingLeases(w) == {l \in Leases : leases[l].workflow = w /\ HoldsLease(leases[l].state)}

\* Mutant: cancelled is committed without looking at the leases.
TransitionWorkflowUnchecked(w, phase) ==
    /\ Open /\ workflows[w] # "absent"
    /\ phase # "accepted"
    /\ CanTransitionTo(workflows[w], phase)
    /\ workflows' = [workflows EXCEPT ![w] = phase]
    /\ UNCHANGED <<tasks, slots, leases, attempts, receipts, writer, todo, openings>>

TransitionWorkflow(w, phase) ==
    /\ Open /\ workflows[w] # "absent"
    /\ phase # "accepted"
    /\ phase = "cancelled" => HoldingLeases(w) = {}
    /\ CanTransitionTo(workflows[w], phase)
    /\ workflows' = [workflows EXCEPT ![w] = phase]
    /\ UNCHANGED <<tasks, slots, leases, attempts, receipts, writer, todo, openings>>

\* The task starts again under the successor; what it has used it has used.
AddContractGeneration(w, t) ==
    /\ Open /\ workflows[w] # "absent"
    /\ ~EndedPhase(workflows[w])
    /\ tasks[w][t].contract < MaxContracts
    /\ tasks' = [tasks EXCEPT ![w][t].contract = @ + 1,
                              ![w][t].progress = "pending",
                              ![w][t].candidate = None]
    /\ UNCHANGED <<workflows, slots, leases, attempts, receipts, writer, todo, openings>>

----------------------------------------------------------------------------
(* Leases.                                                                 *)

\* Mutant: only the slot is looked up, not the worktree.
AcquireWorkflowLeaseSlotOnly(l, w, t, s, d) ==
    /\ Open /\ leases[l].state = "absent"
    /\ AdmitsWork(workflows[w])
    /\ tasks[w][t].progress # "accepted"
    /\ ~\E k \in Leases : leases[k].slot = s /\ HoldsLease(leases[k].state)
    /\ leases' = [leases EXCEPT ![l] =
            [state |-> "active", workflow |-> w, task |-> t, slot |-> s,
             worktree |-> d, generation |-> slots[s] + 1]]
    /\ slots' = [slots EXCEPT ![s] = @ + 1]
    /\ UNCHANGED <<workflows, tasks, attempts, receipts, writer, todo, openings>>

\* Mutant: the generation of the slot is not raised.
AcquireWorkflowLeaseSameGeneration(l, w, t, s, d) ==
    /\ Open /\ leases[l].state = "absent"
    /\ AdmitsWork(workflows[w])
    /\ tasks[w][t].progress # "accepted"
    /\ ~\E k \in Leases : leases[k].slot = s /\ HoldsLease(leases[k].state)
    /\ ~\E k \in Leases : leases[k].worktree = d /\ HoldsLease(leases[k].state)
    /\ leases' = [leases EXCEPT ![l] =
            [state |-> "active", workflow |-> w, task |-> t, slot |-> s,
             worktree |-> d, generation |-> slots[s] + 1]]
    /\ UNCHANGED <<workflows, tasks, slots, attempts, receipts, writer, todo, openings>>

AcquireWorkflowLease(l, w, t, s, d) ==
    /\ Open /\ leases[l].state = "absent"
    /\ AdmitsWork(workflows[w])
    /\ tasks[w][t].progress # "accepted"
    /\ ~\E k \in Leases : leases[k].slot = s /\ HoldsLease(leases[k].state)
    /\ ~\E k \in Leases : leases[k].worktree = d /\ HoldsLease(leases[k].state)
    /\ leases' = [leases EXCEPT ![l] =
            [state |-> "active", workflow |-> w, task |-> t, slot |-> s,
             worktree |-> d, generation |-> slots[s] + 1]]
    /\ slots' = [slots EXCEPT ![s] = @ + 1]
    /\ UNCHANGED <<workflows, tasks, attempts, receipts, writer, todo, openings>>

\* The attempts that were admitted under this lease and its generation.
Under(l) == {r \in Requests : /\ attempts[r].phase # "absent"
                              /\ attempts[r].lease = l
                              /\ attempts[r].generation = leases[l].generation}

\* Mutant: an attempt parked by a restart counts as settled.
SettledOrParked(l) ==
    \A r \in Under(l) : IsTerminal(attempts[r].phase) \/ attempts[r].phase = "recovery_pending"

Settled(l) == \A r \in Under(l) : IsTerminal(attempts[r].phase)

\* Whether the attempts have settled is read here, whatever the event says.
ChangeWorkflowLease(l, event, generation) ==
    LET edge == ApplyLease(leases[l].state, event, generation = leases[l].generation, Settled(l))
    IN  /\ Open /\ leases[l].state # "absent"
        /\ event \in {"attempt_settled", "process_gone"} => Settled(l)
        /\ edge.kind = "changed" /\ edge.state # leases[l].state
        /\ leases' = [leases EXCEPT ![l].state = edge.state]
        /\ UNCHANGED <<workflows, tasks, slots, attempts, receipts, writer, todo, openings>>

----------------------------------------------------------------------------
(* Attempts and their dispatch rows.                                       *)

\* Mutant: only a turn that was claimed counts.
WorktreeBusyOnceClaimed(d) ==
    \E r \in Requests : /\ HoldsReservation(attempts[r].phase)
                        /\ attempts[r].phase # "admitted"
                        /\ leases[attempts[r].lease].worktree = d

\* dispatch_rows::is_reserved for the worktree as resource key.
WorktreeBusy(d) ==
    \E r \in Requests : /\ HoldsReservation(attempts[r].phase)
                        /\ leases[attempts[r].lease].worktree = d

\* Mutant: one turn too many.
WithinBudgetAtLimit(task, purpose) ==
    /\ task.turns <= MaxTurns
    /\ purpose = "repair" => task.repairs < MaxRepairs

\* charge_turn: a repair is a turn too.
WithinBudget(task, purpose) ==
    /\ task.turns < MaxTurns
    /\ purpose = "repair" => task.repairs < MaxRepairs

\* Mutant: every worker turn puts the task back to running.
ChargedHiding(task, purpose) ==
    [task EXCEPT !.turns = @ + 1,
                 !.repairs = IF purpose = "repair" THEN @ + 1 ELSE @,
                 !.progress = IF purpose = "answer" THEN @ ELSE "running"]

\* In compare mode a turn does not hide a candidate already collected.
Charged(task, purpose) ==
    [task EXCEPT !.turns = @ + 1,
                 !.repairs = IF purpose = "repair" THEN @ + 1 ELSE @,
                 !.progress = IF \/ purpose = "answer"
                                 \/ Mode = "compare" /\ @ = "candidate_collected"
                              THEN @ ELSE "running"]

\* admit_workflow_attempt: the row, its Task and Run, the association and the
\* charge are one transaction.
AdmitWorkflowAttempt(r, l, generation, contract, purpose) ==
    LET w == leases[l].workflow
        t == leases[l].task
    IN  /\ Open /\ attempts[r].phase = "absent"
        /\ leases[l].state = "active"
        /\ leases[l].generation = generation
        /\ AdmitsWork(workflows[w])
        /\ tasks[w][t].contract = contract
        /\ purpose # "review" => WithinBudget(tasks[w][t], purpose)
        /\ ~WorktreeBusy(leases[l].worktree)
        /\ tasks' = [tasks EXCEPT ![w][t] = IF purpose = "review" THEN @ ELSE Charged(@, purpose)]
        /\ attempts' = [attempts EXCEPT ![r] =
                [phase |-> "admitted", workflow |-> w, task |-> t, lease |-> l,
                 generation |-> generation, contract |-> contract, purpose |-> purpose]]
        /\ UNCHANGED <<workflows, slots, leases, receipts, writer, todo, openings>>

\* One step of the attempt's dispatch row; its claim fence and its Task and
\* Run are in HarnessDispatchStore.
MoveDispatch(r, edge) ==
    /\ Open /\ attempts[r].phase # "absent"
    /\ edge.kind = "changed"
    /\ attempts' = [attempts EXCEPT ![r].phase = edge.to]
    /\ UNCHANGED <<workflows, tasks, slots, leases, receipts, writer, todo, openings>>

ClaimDispatch(r)           == MoveDispatch(r, ClaimEdge(attempts[r].phase))
FinishDispatch(r, outcome) == MoveDispatch(r, FinishEdge(attempts[r].phase, outcome))
CancelDispatch(r)          == MoveDispatch(r, CancelEdge(attempts[r].phase))

----------------------------------------------------------------------------
(* Receipts.  None of these calls names an expected version, and none looks*)
(* at the phase of the workflow.  The receipts of a decision, a model call *)
(* or a context bundle, which no gate reads, are left out.                 *)

Admitted(w) ==
    {receipts[w]["candidate"][i] : i \in {j \in DOMAIN receipts[w]["candidate"] :
        receipts[w]["candidate"][j].verdict = "admitted"}}

AppendReceipt(w, kind, receipt) ==
    /\ Open /\ workflows[w] # "absent"
    /\ Len(receipts[w][kind]) < MaxReceipts[kind]
    /\ receipts' = [receipts EXCEPT ![w][kind] = Append(@, receipt)]
    /\ UNCHANGED <<workflows, slots, leases, attempts, writer, todo, openings>>

\* In compare mode a refused competitor does not fail a task that already
\* has an admitted candidate.
Collected(w, t, verdict) ==
    CASE verdict = "admitted" -> "candidate_collected"
      [] verdict = "refused" /\ Mode = "compare" /\ \E c \in Admitted(w) : c.task = t ->
            tasks[w][t].progress
      [] OTHER -> "failed"

\* Mutant: the fence of the lease is not looked at, only the attempt.
RecordCandidateUnfenced(w, l, generation, r, d, verdict) ==
    LET t == attempts[r].task
    IN  /\ attempts[r].phase # "absent" /\ attempts[r].workflow = w
        /\ attempts[r].purpose # "review"
        /\ IsTerminal(attempts[r].phase)
        /\ verdict = "admitted" => attempts[r].phase = "completed"
        /\ AppendReceipt(w, "candidate",
                Receipt(t, {d}, {Contract(t, attempts[r].contract)}, r, verdict))
        /\ tasks' = [tasks EXCEPT ![w][t].progress = Collected(w, t, verdict)]

\* check_candidate: the fence of an active lease and a settled attempt under
\* it.  The contract is the attempt's, which need not be the task's any more.
RecordCandidate(w, l, generation, r, d, verdict) ==
    LET t == leases[l].task
    IN  /\ leases[l].state = "active" /\ leases[l].workflow = w
        /\ leases[l].generation = generation
        /\ r \in Under(l)
        /\ attempts[r].purpose # "review"
        /\ IsTerminal(attempts[r].phase)
        /\ verdict = "admitted" => attempts[r].phase = "completed"
        /\ AppendReceipt(w, "candidate",
                Receipt(t, {d}, {Contract(t, attempts[r].contract)}, r, verdict))
        /\ tasks' = [tasks EXCEPT ![w][t].progress = Collected(w, t, verdict)]

\* A slot stands for the route its turns take.
SlotOf(r) == leases[attempts[r].lease].slot

\* The candidate check_review takes as the source: the first that matches.
SourceOf(w, t, d, contracts) ==
    LET s == receipts[w]["candidate"]
        Matches(i) == /\ s[i].verdict = "admitted" /\ s[i].subject = {d}
                      /\ s[i].task = t /\ s[i].contracts = contracts
    IN  {s[i] : i \in {j \in DOMAIN s : Matches(j) /\ \A k \in 1..(j - 1) : ~Matches(k)}}

\* check_review: a review attempt of the candidate's task and contract on
\* another route.
RecordReview(w, r, d, verdict) ==
    LET t         == attempts[r].task
        contracts == {Contract(t, attempts[r].contract)}
    IN  /\ attempts[r].phase # "absent" /\ attempts[r].workflow = w
        /\ attempts[r].purpose = "review"
        /\ \E c \in SourceOf(w, t, d, contracts) : SlotOf(r) # SlotOf(c.request)
        /\ IF verdict = "blocked" THEN IsTerminal(attempts[r].phase)
                                  ELSE attempts[r].phase = "completed"
        /\ AppendReceipt(w, "review", Receipt(t, {d}, contracts, r, verdict))
        /\ UNCHANGED tasks

\* check_verification_subject: a collected candidate of the task, or the tree
\* of an integration.  The contracts are the verifier's word; the gates
\* compare them.  "passed" is a run of the admitted verifier that left the
\* subject as it was and in which every required suite passed.
RecordVerification(w, task, subject, contracts, verdict) ==
    /\ IF task = None
       THEN \E i \in DOMAIN receipts[w]["integration"] :
                receipts[w]["integration"][i].subject = subject
       ELSE \E c \in Admitted(w) : c.subject = subject /\ c.task = task
    /\ AppendReceipt(w, "verification", Receipt(task, subject, contracts, None, verdict))
    /\ UNCHANGED tasks

AcceptedTasks(w) == {t \in Tasks : tasks[w][t].candidate # None}

ContractsOf(w, ts) == {Contract(t, tasks[w][t].contract) : t \in ts}

CandidatesOf(w, ts) == {tasks[w][t].candidate : t \in ts}

\* An integration applies accepted candidates under exactly the contracts of
\* the accepted tasks.
RecordIntegration(w, applied, verdict) ==
    /\ applied \subseteq CandidatesOf(w, AcceptedTasks(w))
    /\ AppendReceipt(w, "integration",
            Receipt(None, applied, ContractsOf(w, AcceptedTasks(w)), None, verdict))
    /\ UNCHANGED tasks

RecordSelection(w, winner) ==
    /\ winner # {} => \E c \in Admitted(w) : c.subject = winner
    /\ AppendReceipt(w, "selection", Receipt(None, winner, {}, None, "selected"))
    /\ UNCHANGED tasks

----------------------------------------------------------------------------
(* Gates and acceptance.                                                   *)

\* The last receipt of a sequence that meets Test exists and meets Good.
LatestIs(s, Test(_), Good(_)) ==
    \E i \in DOMAIN s : /\ Test(s[i]) /\ Good(s[i])
                        /\ \A j \in DOMAIN s : j > i => ~Test(s[j])

\* Mutant: the contract of the candidate is not compared with the task's.
GateCandidateAnyContract(w, t, d) ==
    LatestIs(receipts[w]["candidate"],
        LAMBDA c : c.verdict = "admitted" /\ c.subject = {d} /\ c.task = t,
        LAMBDA c :
            /\ LatestIs(receipts[w]["review"],
                   LAMBDA v : v.subject = {d},
                   LAMBDA v : /\ v.verdict = "pass" /\ v.task = t /\ v.contracts = c.contracts
                              /\ v.request # c.request /\ SlotOf(v.request) # SlotOf(c.request))
            /\ LatestIs(receipts[w]["verification"],
                   LAMBDA v : v.subject = {d} /\ v.task = t,
                   LAMBDA v : v.verdict = "passed" /\ v.contracts = c.contracts))

\* gate_candidate and candidate_gate: the latest candidate of this digest is
\* under the task's contract, and its latest review and verification pass.
GateCandidate(w, t, d) ==
    LatestIs(receipts[w]["candidate"],
        LAMBDA c : c.verdict = "admitted" /\ c.subject = {d} /\ c.task = t,
        LAMBDA c :
            /\ c.contracts = ContractsOf(w, {t})
            /\ LatestIs(receipts[w]["review"],
                   LAMBDA v : v.subject = {d},
                   LAMBDA v : /\ v.verdict = "pass" /\ v.task = t /\ v.contracts = c.contracts
                              /\ v.request # c.request /\ SlotOf(v.request) # SlotOf(c.request))
            /\ LatestIs(receipts[w]["verification"],
                   LAMBDA v : v.subject = {d} /\ v.task = t,
                   LAMBDA v : v.verdict = "passed" /\ v.contracts = c.contracts))

AcceptWorkflowCandidate(w, t, d) ==
    /\ Open /\ AdmitsWork(workflows[w])
    /\ GateCandidate(w, t, d)
    /\ tasks[w][t].progress = "candidate_collected"
    /\ tasks' = [tasks EXCEPT ![w][t].progress = "accepted", ![w][t].candidate = d]
    /\ UNCHANGED <<workflows, slots, leases, attempts, receipts, writer, todo, openings>>

\* The tasks whose candidates count: all, or in compare mode those the latest
\* selection's winner was accepted for.
Counted(w) ==
    {t \in Tasks : \/ Mode = "cooperate"
                   \/ LatestIs(receipts[w]["selection"], LAMBDA s : TRUE,
                               LAMBDA s : s.subject # {} /\ s.subject = {tasks[w][t].candidate})}

\* cooperative_acceptance on the latest integration and the latest
\* verification of its tree.
IntegrationGate(w) ==
    LatestIs(receipts[w]["integration"], LAMBDA i : TRUE,
        LAMBDA i :
            /\ i.subject = CandidatesOf(w, Counted(w))
            /\ i.verdict = "clean"
            /\ i.contracts = ContractsOf(w, Counted(w))
            /\ LatestIs(receipts[w]["verification"],
                   LAMBDA v : v.subject = i.subject /\ v.task = None,
                   LAMBDA v : v.verdict = "passed" /\ v.contracts = i.contracts))

\* Mutant: only the candidates that were accepted are looked at.
AcceptWorkflowPartial(w) ==
    /\ Open /\ workflows[w] = "integrating"
    /\ Counted(w) # {}
    /\ \A t \in AcceptedTasks(w) : GateCandidate(w, t, tasks[w][t].candidate)
    /\ LatestIs(receipts[w]["integration"], LAMBDA i : TRUE,
            LAMBDA i : /\ i.subject = CandidatesOf(w, AcceptedTasks(w))
                       /\ i.verdict = "clean")
    /\ workflows' = [workflows EXCEPT ![w] = "accepted"]
    /\ UNCHANGED <<tasks, slots, leases, attempts, receipts, writer, todo, openings>>

\* The only step to accepted: every candidate gate and the integration gate
\* on the stored receipts.
AcceptWorkflow(w) ==
    /\ Open /\ workflows[w] = "integrating"
    /\ Counted(w) # {}
    /\ \A t \in Counted(w) : /\ tasks[w][t].candidate # None
                              /\ GateCandidate(w, t, tasks[w][t].candidate)
    /\ IntegrationGate(w)
    /\ workflows' = [workflows EXCEPT ![w] = "accepted"]
    /\ UNCHANGED <<tasks, slots, leases, attempts, receipts, writer, todo, openings>>

----------------------------------------------------------------------------
(* The writer's start.                                                     *)

\* recover_harness_dispatches, one transaction, then the list of active leases.
RecoverDispatches ==
    /\ writer = "closed" /\ openings < MaxOpenings
    /\ attempts' = [r \in Requests |->
            LET edge == RecoverEdge(attempts[r].phase)
            IN  IF edge.kind = "changed" THEN [attempts[r] EXCEPT !.phase = edge.to]
                                         ELSE attempts[r]]
    /\ todo' = {l \in Leases : leases[l].state = "active"}
    /\ writer' = "recovering"
    /\ openings' = openings + 1
    /\ UNCHANGED <<workflows, tasks, slots, leases, receipts>>

\* Mutant: a lease that never admitted an attempt stays active.
RecoveredLeaseKeepingIdle(l) ==
    IF Settled(l) THEN leases[l].state ELSE "quarantined"

RecoveredLease(l) ==
    CASE ~Settled(l)     -> "quarantined"
      [] Under(l) = {}   -> "released"
      [] OTHER           -> leases[l].state

\* One lease of recover_workflows, in a transaction of its own.
RecoverLease(l) ==
    /\ writer = "recovering" /\ l \in todo
    /\ leases' = [leases EXCEPT ![l].state = RecoveredLease(l)]
    /\ todo' = todo \ {l}
    /\ UNCHANGED <<workflows, tasks, slots, attempts, receipts, writer, openings>>

Ready ==
    /\ writer = "recovering" /\ todo = {}
    /\ writer' = "open"
    /\ UNCHANGED <<workflows, tasks, slots, leases, attempts, receipts, todo, openings>>

\* The daemon dies, between any two transactions; the last start of a bounded
\* behaviour does not.
Crash ==
    /\ writer # "closed" /\ openings < MaxOpenings
    /\ writer' = "closed"
    /\ todo' = {}
    /\ UNCHANGED <<workflows, tasks, slots, leases, attempts, receipts, openings>>

----------------------------------------------------------------------------

\* What callers have seen: the generations of leases, and the contracts of
\* the candidates and integrations a verifier was started on.
Generations == {leases[l].generation : l \in Leases}

ContractsNamed(w, kind) ==
    {receipts[w][kind][i].contracts : i \in DOMAIN receipts[w][kind]}

WorkflowStep(w) ==
    \/ PrepareWorkflow(w)
    \/ \E phase \in AskedPhases : TransitionWorkflow(w, phase)
    \/ \E t \in Tasks : AddContractGeneration(w, t)
    \/ \E l \in Leases, t \in Tasks, s \in Slots, d \in Worktrees :
            AcquireWorkflowLease(l, w, t, s, d)

LeaseStep(l) ==
    \/ \E event \in LeaseEvents, generation \in Generations :
            ChangeWorkflowLease(l, event, generation)
    \/ \E r \in Requests, generation \in Generations, contract \in 1..MaxContracts,
          purpose \in AskedPurposes :
            AdmitWorkflowAttempt(r, l, generation, contract, purpose)

DispatchStep(r) ==
    \/ ClaimDispatch(r)
    \/ \E outcome \in Outcomes : FinishDispatch(r, outcome)
    \/ CancelDispatch(r)

ReceiptStep(w) ==
    \/ \E l \in Leases, generation \in Generations, r \in Requests, d \in Digests :
            \E verdict \in {"admitted", "refused"} :
                RecordCandidate(w, l, generation, r, d, verdict)
    \/ \E r \in Requests, d \in Digests, verdict \in {"pass", "changes_requested", "blocked"} :
            RecordReview(w, r, d, verdict)
    \/ \E task \in Tasks \cup {None}, subject \in SUBSET Digests, verdict \in {"passed", "failed"} :
            \E contracts \in ContractsNamed(w, "candidate") \cup ContractsNamed(w, "integration") :
                RecordVerification(w, task, subject, contracts, verdict)
    \/ \E applied \in SUBSET Digests, verdict \in {"clean", "conflicts"} :
            RecordIntegration(w, applied, verdict)
    \/ \E winner \in {{}} \cup {{d} : d \in Digests} : RecordSelection(w, winner)

AcceptStep(w) ==
    \/ \E t \in Tasks, d \in Digests : AcceptWorkflowCandidate(w, t, d)
    \/ AcceptWorkflow(w)

Next ==
    \/ \E w \in Workflows : WorkflowStep(w) \/ ReceiptStep(w) \/ AcceptStep(w)
    \/ \E l \in Leases : LeaseStep(l) \/ RecoverLease(l)
    \/ \E r \in Requests : DispatchStep(r)
    \/ RecoverDispatches \/ Ready \/ Crash

Spec == Init /\ [][Next]_vars

----------------------------------------------------------------------------
(* Properties.                                                             *)

\* The tables the leases depend on.
LeaseTables ==
    /\ workflows \in [Workflows -> WorkflowPhases \cup {"absent"}]
    /\ slots \in [Slots -> Nat]
    /\ leases \in [Leases -> LeaseRecord \cup {NoLease}]
    /\ attempts \in [Requests -> AttemptRecord \cup {NoAttempt}]
    /\ todo \in SUBSET Leases
    /\ writer # "recovering" => todo = {}

Holds(l) == HoldsLease(leases[l].state)

Unsettled(r) == HoldsReservation(attempts[r].phase)

\* A slot and a worktree have at most one lease that reserves them, active or
\* quarantined: acquire_workflow_lease looks both up in the transaction that
\* inserts the row, across workflows and restarts.
OneHolder ==
    \A l, k \in Leases :
        /\ l # k /\ Holds(l) /\ Holds(k)
        => leases[l].slot # leases[k].slot /\ leases[l].worktree # leases[k].worktree

\* The generation of a slot belongs to one lease: two leases of a slot never
\* share one, and whoever reserves the slot has its newest, so that a
\* completion under an older one can be told apart.
HolderIsNewest ==
    \A l \in Leases :
        leases[l].state # "absent" =>
            /\ Holds(l) => leases[l].generation = slots[leases[l].slot]
            /\ \A k \in Leases : k # l /\ leases[k].slot = leases[l].slot =>
                    leases[k].generation # leases[l].generation

\* No lease is ahead of its slot's generation.
GenerationsBelow ==
    \A l \in Leases : leases[l].state # "absent" =>
        leases[l].generation \in 1..slots[leases[l].slot]

\* A turn that may still have a process (admitted, running, being cancelled
\* or parked by a restart) keeps its slot and its worktree: its lease is the
\* one it was admitted under and still reserves them.
LeaseOutlivesAttempt ==
    \A r \in Requests : Unsettled(r) =>
        /\ Holds(attempts[r].lease)
        /\ leases[attempts[r].lease].generation = attempts[r].generation
        /\ leases[attempts[r].lease].workflow = attempts[r].workflow

\* Two turns that may have a process never work in one worktree, also when
\* both are under one lease, which any number of requests may name.
OneTurnPerWorktree ==
    \A r, q \in Requests :
        r # q /\ Unsettled(r) /\ Unsettled(q) =>
            leases[attempts[r].lease].worktree # leases[attempts[q].lease].worktree

\* "cancelled" means that it is over: nothing is reserved for the workflow
\* and none of its turns can still change a file.
CancelledQuiet ==
    \A w \in Workflows : workflows[w] = "cancelled" =>
        /\ HoldingLeases(w) = {}
        /\ \A r \in Requests : Unsettled(r) => attempts[r].workflow # w

\* What recover_workflows still has on its list is active.
TodoActive == \A l \in todo : leases[l].state = "active"

\* The inductive invariant of the leases: the properties above with what they
\* rest on, that slots' generations only grow past those of their leases and
\* that nothing changes a lease which a recovering writer has listed.
LeaseInv ==
    /\ LeaseTables
    /\ OneHolder
    /\ GenerationsBelow
    /\ HolderIsNewest
    /\ LeaseOutlivesAttempt
    /\ OneTurnPerWorktree
    /\ CancelledQuiet
    /\ TodoActive

\* What a task has used is exactly what was admitted for it, over all its
\* contracts and restarts: its worker turns, and among them its repairs, and
\* both stay within their budgets.
TurnsCharged ==
    \A w \in Workflows, t \in Tasks :
        LET turns == {r \in Requests : /\ attempts[r].phase # "absent"
                                       /\ attempts[r].workflow = w /\ attempts[r].task = t
                                       /\ attempts[r].purpose # "review"}
            repairs == {r \in turns : attempts[r].purpose = "repair"}
        IN  /\ tasks[w][t].turns = Cardinality(turns) /\ tasks[w][t].turns <= MaxTurns
            /\ tasks[w][t].repairs = Cardinality(repairs) /\ tasks[w][t].repairs <= MaxRepairs

\* A verification of this subject under these contracts passed.
Verified(w, task, subject, contracts) ==
    \E i \in DOMAIN receipts[w]["verification"] :
        /\ receipts[w]["verification"][i].task = task
        /\ receipts[w]["verification"][i].subject = subject
        /\ receipts[w]["verification"][i].contracts = contracts
        /\ receipts[w]["verification"][i].verdict = "passed"

\* A worker turn under the task's present contract completed, a review turn
\* of the same contract in another slot completed and passed the candidate.
Worked(w, t) ==
    \E r, q \in Requests :
        /\ \A p \in {r, q} : /\ attempts[p].phase = "completed"
                             /\ attempts[p].workflow = w /\ attempts[p].task = t
                             /\ attempts[p].contract = tasks[w][t].contract
        /\ attempts[r].purpose # "review" /\ attempts[q].purpose = "review"
        /\ SlotOf(r) # SlotOf(q)
        /\ \E i \in DOMAIN receipts[w]["review"] :
               /\ receipts[w]["review"][i].request = q
               /\ receipts[w]["review"][i].verdict = "pass"
               /\ receipts[w]["review"][i].subject = {tasks[w][t].candidate}

\* The candidate was worked on, reviewed and verified under the contract the
\* task has now.
Earned(w, t) ==
    /\ Worked(w, t)
    /\ Verified(w, t, {tasks[w][t].candidate}, ContractsOf(w, {t}))

\* The candidates of these tasks were applied together without conflicts
\* under their present contracts, and the tree that came of it was verified.
Integrated(w, ts) ==
    /\ \E i \in DOMAIN receipts[w]["integration"] :
           /\ receipts[w]["integration"][i].subject = CandidatesOf(w, ts)
           /\ receipts[w]["integration"][i].contracts = ContractsOf(w, ts)
           /\ receipts[w]["integration"][i].verdict = "clean"
    /\ Verified(w, None, CandidatesOf(w, ts), ContractsOf(w, ts))

\* A task's accepted candidate was earned under the contract the task has
\* now: a turn, a review or a verification of an earlier contract that
\* arrives late does not carry over.
CandidateEarned ==
    \A w \in Workflows, t \in Tasks : tasks[w][t].candidate # None => Earned(w, t)

\* The tasks an acceptance stands on: all accepted ones of a cooperation, in
\* compare mode those whose candidate some selection on record names.
Standing(w) ==
    {t \in AcceptedTasks(w) :
        \/ Mode = "cooperate"
        \/ \E i \in DOMAIN receipts[w]["selection"] :
              receipts[w]["selection"][i].subject = {tasks[w][t].candidate}}

\* What acceptance of a workflow stands for: every task of a cooperation, or
\* in compare mode a selected winner's, has a candidate that was earned, and
\* these very candidates were integrated and verified together, whatever
\* failed, was cancelled, repeated or parked in between, and whatever receipt,
\* a further selection too, arrives after it.
AcceptedIsEarned ==
    \A w \in Workflows : workflows[w] = "accepted" =>
        \E ts \in SUBSET Standing(w) :
            /\ ts # {} /\ (Mode = "cooperate" => ts = Tasks)
            /\ \A t \in ts : Earned(w, t)
            /\ Integrated(w, ts)

\* An ended lease stays ended: no late heartbeat, settlement, reconciliation
\* or recovery brings a released or revoked lease back.
EndedLeaseFinal ==
    [][\A l \in Leases :
        leases[l].state \in {"released", "revoked"} => leases'[l] = leases[l]]_vars

\* When recover_workflows is done, a lease that is still active belongs to
\* turns that have all settled, so that its result can be collected; every
\* other one has been quarantined or released, also when a start was
\* interrupted half way.
RecoveredLeases ==
    [][writer = "recovering" /\ writer' = "open" =>
        \A l \in Leases : leases[l].state = "active" => Under(l) # {} /\ Settled(l)]_vars

\* A delayed child result changes nothing of a cancelled workflow's tasks.
CancelledFrozen ==
    [][\A w \in Workflows :
        workflows[w] = "cancelled" => workflows'[w] = "cancelled" /\ tasks'[w] = tasks[w]]_vars

\* Competitors in compare mode share a task: once one of them has a candidate
\* collected, neither a later turn nor a refused candidate of another hides
\* it; only acceptance or a new contract moves the task on.
CollectedStays ==
    [][\A w \in Workflows, t \in Tasks :
        /\ Mode = "compare" /\ tasks[w][t].progress = "candidate_collected"
        /\ tasks'[w][t].contract = tasks[w][t].contract
        => tasks'[w][t].progress \in {"candidate_collected", "accepted"}]_vars
=============================================================================
