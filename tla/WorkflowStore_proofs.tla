----------------------- MODULE WorkflowStore_proofs -----------------------
(***************************************************************************)
(* Proofs about the leases, the tasks and the receipts of WorkflowStore,   *)
(* for every set of workflows, tasks, slots, worktrees and leases, every   *)
(* finite set of requests, every budget and any number of restarts.        *)
(*                                                                         *)
(* Six shapes of step are all the leases can see of the store: nothing, a  *)
(* phase, an acquisition, a change of one lease's state, an admission, and *)
(* moves of dispatch rows.  The first part shows that every action has one *)
(* of the shapes, the second that each shape keeps LeaseInv.  The third    *)
(* part is about tasks and receipts: AcceptanceInv says of every receipt   *)
(* on record which turns it stands for, which is what the gates rely on    *)
(* when they read receipts of any age.                                     *)
(***************************************************************************)
EXTENDS WorkflowStore, FiniteSetTheorems, TLAPS

----------------------------------------------------------------------------
(* The shapes.                                                             *)

NothingMoves == UNCHANGED <<workflows, slots, leases, attempts>>

PhaseMoves ==
    /\ \E w \in Workflows, phase \in WorkflowPhases :
          /\ phase = "cancelled" => HoldingLeases(w) = {}
          /\ workflows' = [workflows EXCEPT ![w] = phase]
    /\ UNCHANGED <<slots, leases, attempts>>

LeaseAcquired ==
    \E l \in Leases, w \in Workflows, t \in Tasks, s \in Slots, d \in Worktrees :
        AcquireWorkflowLease(l, w, t, s, d)

\* Only a lease that reserves something changes, and it stops only when its
\* attempts have settled.
LeaseMoves ==
    /\ \E l \in Leases, state \in LeaseStates :
          /\ Holds(l)
          /\ HoldsLease(state) \/ Settled(l)
          /\ leases' = [leases EXCEPT ![l].state = state]
    /\ UNCHANGED <<workflows, slots, attempts>>

AttemptAdmitted ==
    \E r \in Requests, l \in Leases, generation \in Nat, contract \in Nat, purpose \in Purposes :
        AdmitWorkflowAttempt(r, l, generation, contract, purpose)

\* A row keeps what it was admitted under, and no settled row becomes
\* unsettled.
RowsMove ==
    /\ attempts' \in [Requests -> AttemptRecord \cup {NoAttempt}]
    /\ \A r \in Requests :
          /\ attempts'[r].lease = attempts[r].lease
          /\ attempts'[r].generation = attempts[r].generation
          /\ attempts'[r].workflow = attempts[r].workflow
          /\ attempts'[r].task = attempts[r].task
          /\ attempts'[r].contract = attempts[r].contract
          /\ attempts'[r].purpose = attempts[r].purpose
          /\ \/ attempts'[r].phase = attempts[r].phase
             \/ Unsettled(r) /\ attempts'[r].phase # "absent"
          /\ HoldsReservation(attempts'[r].phase) => Unsettled(r)
    /\ UNCHANGED <<workflows, slots, leases>>

----------------------------------------------------------------------------
(* Records.                                                                *)

\* A lease that is there has its fields, and one that is not is NoLease.
LEMMA LeaseFields ==
    ASSUME LeaseTables, NEW l \in Leases
    PROVE  /\ leases[l].state # "absent" => leases[l] \in LeaseRecord
           /\ leases[l].state = "absent" => leases[l] = NoLease
           /\ Holds(l) => leases[l].state # "absent"
           /\ leases[l].state \in LeaseStates \cup {"absent"}
  BY DEF LeaseTables, LeaseRecord, NoLease, LeaseStates, Holds, HoldsLease

\* The same of an attempt.
LEMMA AttemptFields ==
    ASSUME LeaseTables, NEW r \in Requests
    PROVE  /\ attempts[r].phase # "absent" => attempts[r] \in AttemptRecord
           /\ attempts[r].phase = "absent" => attempts[r] = NoAttempt
           /\ Unsettled(r) => attempts[r] \in AttemptRecord
           /\ attempts[r].phase \in DispatchPhases \cup {"absent"}
  BY DEF LeaseTables, AttemptRecord, NoAttempt, DispatchPhases, ActivePhases,
         TerminalPhases, Unsettled, HoldsReservation

\* A row that is there is in a phase.
LEMMA NotAbsent == "absent" \notin DispatchPhases
  BY DEF DispatchPhases, ActivePhases, TerminalPhases

\* leases::apply changes only a lease that reserves something, and ends it
\* only on an event that change_workflow_lease checks against the attempts.
LEMMA LeaseEdges ==
    ASSUME NEW state \in LeaseStates, NEW event \in LeaseEvents, NEW fenced, NEW settled,
           fenced \in BOOLEAN, settled \in BOOLEAN,
           ApplyLease(state, event, fenced, settled).kind = "changed"
    PROVE  /\ HoldsLease(state)
           /\ ApplyLease(state, event, fenced, settled).state \in LeaseStates
           /\ \/ HoldsLease(ApplyLease(state, event, fenced, settled).state)
              \/ event \in {"attempt_settled", "process_gone"}
              \/ settled
  BY DEF ApplyLease, NextLease, RefusedLease, HoldsLease, LeaseStates, LeaseEvents

\* attempt::apply never makes a settled row unsettled.
LEMMA RowEdges ==
    ASSUME NEW p \in DispatchPhases
    PROVE  /\ ClaimEdge(p).kind = "changed" =>
                  ClaimEdge(p).to \in DispatchPhases /\ HoldsReservation(p)
           /\ \A o \in Outcomes : FinishEdge(p, o).kind = "changed" =>
                  FinishEdge(p, o).to \in DispatchPhases /\ HoldsReservation(p)
           /\ CancelEdge(p).kind = "changed" =>
                  CancelEdge(p).to \in DispatchPhases /\ HoldsReservation(p)
           /\ RecoverEdge(p).kind = "changed" =>
                  RecoverEdge(p).to \in DispatchPhases /\ HoldsReservation(p)
  <1>1. ClaimEdge(p).kind = "changed" =>
            ClaimEdge(p).to \in DispatchPhases /\ HoldsReservation(p)
    BY DEF ClaimEdge, Changed, Refused, HoldsReservation, IsTerminal, DispatchPhases,
           ActivePhases, TerminalPhases
  <1>2. ASSUME NEW o \in Outcomes, FinishEdge(p, o).kind = "changed"
        PROVE  FinishEdge(p, o).to \in DispatchPhases /\ HoldsReservation(p)
    BY <1>2 DEF FinishEdge, FinishedStatuses, Outcomes, Changed, Refused, HoldsReservation,
           IsTerminal, DispatchPhases, ActivePhases, TerminalPhases
  <1>3. CancelEdge(p).kind = "changed" =>
            CancelEdge(p).to \in DispatchPhases /\ HoldsReservation(p)
    BY DEF CancelEdge, Changed, Refused, Unchanged, HoldsReservation, IsTerminal,
           DispatchPhases, ActivePhases, TerminalPhases
  <1>4. RecoverEdge(p).kind = "changed" =>
            RecoverEdge(p).to \in DispatchPhases /\ HoldsReservation(p)
    BY DEF RecoverEdge, Changed, Unchanged, HoldsReservation, IsTerminal,
           DispatchPhases, ActivePhases, TerminalPhases
  <1> QED
    BY <1>1, <1>2, <1>3, <1>4

----------------------------------------------------------------------------
(* Every action has a shape.                                               *)

\* change_workflow_lease.
LEMMA ChangeShape ==
    ASSUME LeaseTables, NEW l \in Leases, NEW event \in LeaseEvents, NEW generation,
           ChangeWorkflowLease(l, event, generation)
    PROVE  LeaseMoves
  <1> DEFINE edge == ApplyLease(leases[l].state, event, generation = leases[l].generation,
                                Settled(l))
  <1>1. leases[l].state \in LeaseStates
    BY LeaseFields DEF ChangeWorkflowLease
  <1>2. /\ edge.kind = "changed"
        /\ event \in {"attempt_settled", "process_gone"} => Settled(l)
        /\ leases' = [leases EXCEPT ![l].state = edge.state]
        /\ UNCHANGED <<workflows, slots, attempts>>
    BY DEF ChangeWorkflowLease
  <1>3. (generation = leases[l].generation) \in BOOLEAN /\ Settled(l) \in BOOLEAN
    BY DEF Settled
  <1>4. /\ HoldsLease(leases[l].state)
        /\ edge.state \in LeaseStates
        /\ HoldsLease(edge.state) \/ event \in {"attempt_settled", "process_gone"} \/ Settled(l)
    BY <1>1, <1>2, <1>3, LeaseEdges
  <1> HIDE DEF edge
  <1>5. HoldsLease(edge.state) \/ Settled(l)
    BY <1>2, <1>4
  <1> QED
    BY <1>2, <1>4, <1>5 DEF LeaseMoves, Holds

\* One lease of recover_workflows.
LEMMA RecoverShape ==
    ASSUME LeaseTables, TodoActive, NEW l \in Leases, RecoverLease(l)
    PROVE  LeaseMoves
  <1>1. leases[l].state = "active" /\ Holds(l)
    BY DEF TodoActive, RecoverLease, Holds, HoldsLease
  <1>2. Under(l) = {} => Settled(l)
    BY DEF Settled
  <1>3. /\ RecoveredLease(l) \in LeaseStates
        /\ HoldsLease(RecoveredLease(l)) \/ Settled(l)
    BY <1>1, <1>2 DEF RecoveredLease, LeaseStates, HoldsLease
  <1>4. /\ leases' = [leases EXCEPT ![l].state = RecoveredLease(l)]
        /\ UNCHANGED <<workflows, slots, attempts>>
    BY DEF RecoverLease
  <1> QED
    BY <1>1, <1>3, <1>4 DEF LeaseMoves

\* One step of one dispatch row.
LEMMA MoveShape ==
    ASSUME LeaseTables, NEW r \in Requests, NEW edge, MoveDispatch(r, edge),
           edge.to \in DispatchPhases, Unsettled(r)
    PROVE  RowsMove
  <1>1. /\ attempts' = [attempts EXCEPT ![r].phase = edge.to]
        /\ UNCHANGED <<workflows, slots, leases>>
    BY DEF MoveDispatch
  <1>2. attempts[r] \in AttemptRecord
    BY AttemptFields
  <1>3. attempts' \in [Requests -> AttemptRecord \cup {NoAttempt}]
    BY <1>1, <1>2 DEF LeaseTables, AttemptRecord
  <1>4. ASSUME NEW q \in Requests
        PROVE  /\ attempts'[q].lease = attempts[q].lease
               /\ attempts'[q].generation = attempts[q].generation
               /\ attempts'[q].workflow = attempts[q].workflow
               /\ attempts'[q].task = attempts[q].task
               /\ attempts'[q].contract = attempts[q].contract
               /\ attempts'[q].purpose = attempts[q].purpose
               /\ \/ attempts'[q].phase = attempts[q].phase
                  \/ Unsettled(q) /\ attempts'[q].phase # "absent"
               /\ HoldsReservation(attempts'[q].phase) => Unsettled(q)
    <2>1. CASE q = r
      <3>1. attempts'[q] = [attempts[r] EXCEPT !.phase = edge.to]
        BY <1>1, <2>1 DEF LeaseTables
      <3> QED
        BY <1>2, <2>1, <3>1, NotAbsent DEF AttemptRecord
    <2>2. CASE q # r
      <3>1. attempts'[q] = attempts[q]
        BY <1>1, <2>2 DEF LeaseTables
      <3> QED
        BY <3>1 DEF Unsettled, HoldsReservation
    <2> QED
      BY <2>1, <2>2
  <1> QED
    BY <1>1, <1>3, <1>4 DEF RowsMove

\* recover_harness_dispatches.
LEMMA RecoverRowsShape ==
    ASSUME LeaseTables, RecoverDispatches
    PROVE  RowsMove
  <1>1. ASSUME NEW r \in Requests
        PROVE  /\ attempts'[r] \in AttemptRecord \cup {NoAttempt}
               /\ attempts'[r].lease = attempts[r].lease
               /\ attempts'[r].generation = attempts[r].generation
               /\ attempts'[r].workflow = attempts[r].workflow
               /\ attempts'[r].task = attempts[r].task
               /\ attempts'[r].contract = attempts[r].contract
               /\ attempts'[r].purpose = attempts[r].purpose
               /\ \/ attempts'[r].phase = attempts[r].phase
                  \/ Unsettled(r) /\ attempts'[r].phase # "absent"
               /\ HoldsReservation(attempts'[r].phase) => Unsettled(r)
    <2> DEFINE edge == RecoverEdge(attempts[r].phase)
    <2>1. attempts'[r] = IF edge.kind = "changed"
                         THEN [attempts[r] EXCEPT !.phase = edge.to] ELSE attempts[r]
      BY DEF RecoverDispatches
    <2>2. CASE attempts[r].phase = "absent"
      <3>1. edge.kind # "changed"
        BY <2>2 DEF RecoverEdge, Unchanged
      <3>2. attempts'[r] = attempts[r]
        BY <2>1, <3>1
      <3>3. attempts[r] \in AttemptRecord \cup {NoAttempt}
        BY DEF LeaseTables
      <3> HIDE DEF edge
      <3> QED
        BY <3>2, <3>3 DEF Unsettled, HoldsReservation
    <2>3. CASE attempts[r].phase # "absent"
      <3>1. attempts[r] \in AttemptRecord /\ attempts[r].phase \in DispatchPhases
        BY <2>3, AttemptFields
      <3>2. edge.kind = "changed" => edge.to \in DispatchPhases /\ Unsettled(r)
        BY <3>1, RowEdges DEF Unsettled
      <3> HIDE DEF edge
      <3> QED
        BY <2>1, <3>1, <3>2, NotAbsent DEF AttemptRecord, Unsettled
    <2> QED
      BY <2>2, <2>3
  <1>2. attempts' = [r \in Requests |-> attempts'[r]]
    BY DEF RecoverDispatches
  <1>3. UNCHANGED <<workflows, slots, leases>>
    BY DEF RecoverDispatches
  <1> QED
    BY <1>1, <1>2, <1>3 DEF RowsMove

\* Claim, finish and cancel of a row.
LEMMA DispatchShape ==
    ASSUME LeaseTables, NEW r \in Requests, DispatchStep(r)
    PROVE  RowsMove
  <1> DEFINE p == attempts[r].phase
  <1>1. p \in DispatchPhases
    BY AttemptFields DEF DispatchStep, ClaimDispatch, FinishDispatch, CancelDispatch, MoveDispatch
  <1>2. CASE ClaimDispatch(r)
    <2>1. ClaimEdge(p).to \in DispatchPhases /\ Unsettled(r)
      BY <1>1, <1>2, RowEdges DEF ClaimDispatch, MoveDispatch, Unsettled
    <2> QED
      BY <1>2, <2>1, MoveShape DEF ClaimDispatch
  <1>3. ASSUME NEW o \in Outcomes, FinishDispatch(r, o)
        PROVE  RowsMove
    <2>1. FinishEdge(p, o).to \in DispatchPhases /\ Unsettled(r)
      BY <1>1, <1>3, RowEdges DEF FinishDispatch, MoveDispatch, Unsettled
    <2> QED
      BY <1>3, <2>1, MoveShape DEF FinishDispatch
  <1>4. CASE CancelDispatch(r)
    <2>1. CancelEdge(p).to \in DispatchPhases /\ Unsettled(r)
      BY <1>1, <1>4, RowEdges DEF CancelDispatch, MoveDispatch, Unsettled
    <2> QED
      BY <1>4, <2>1, MoveShape DEF CancelDispatch
  <1> QED
    BY <1>2, <1>3, <1>4 DEF DispatchStep

\* Receipts move nothing the leases depend on.
LEMMA ReceiptShape ==
    ASSUME NEW w \in Workflows, ReceiptStep(w)
    PROVE  NothingMoves /\ UNCHANGED <<writer, todo>>
  BY DEF ReceiptStep, RecordCandidate, RecordReview, RecordVerification, RecordIntegration,
         RecordSelection, AppendReceipt, NothingMoves

\* Every step has one of the six shapes.
LEMMA EveryShape ==
    ASSUME WorkflowAssumption, LeaseTables, TodoActive, [Next]_vars
    PROVE  NothingMoves \/ PhaseMoves \/ LeaseAcquired \/ LeaseMoves \/ AttemptAdmitted \/ RowsMove
  <1>1. ASSUME NEW w \in Workflows, WorkflowStep(w)
        PROVE  NothingMoves \/ PhaseMoves \/ LeaseAcquired
    <2>1. CASE PrepareWorkflow(w)
      BY <2>1 DEF PrepareWorkflow, PhaseMoves, WorkflowPhases
    <2>2. ASSUME NEW phase \in AskedPhases, TransitionWorkflow(w, phase)
          PROVE  PhaseMoves
      BY <2>2, WorkflowAssumption DEF TransitionWorkflow, PhaseMoves, WorkflowAssumption
    <2>3. ASSUME NEW t \in Tasks, AddContractGeneration(w, t)
          PROVE  NothingMoves
      BY <2>3 DEF AddContractGeneration, NothingMoves
    <2> QED
      BY <1>1, <2>1, <2>2, <2>3 DEF WorkflowStep, LeaseAcquired
  <1>2. ASSUME NEW w \in Workflows, AcceptStep(w)
        PROVE  NothingMoves \/ PhaseMoves
    <2>1. ASSUME NEW t \in Tasks, NEW d \in Digests, AcceptWorkflowCandidate(w, t, d)
          PROVE  NothingMoves
      BY <2>1 DEF AcceptWorkflowCandidate, NothingMoves
    <2>2. CASE AcceptWorkflow(w)
      BY <2>2 DEF AcceptWorkflow, PhaseMoves, WorkflowPhases
    <2> QED
      BY <1>2, <2>1, <2>2 DEF AcceptStep
  <1>3. ASSUME NEW l \in Leases, LeaseStep(l)
        PROVE  LeaseMoves \/ AttemptAdmitted
    <2>1. ASSUME NEW event \in LeaseEvents, NEW g \in Generations, ChangeWorkflowLease(l, event, g)
          PROVE  LeaseMoves
      BY <2>1, ChangeShape
    <2>2. ASSUME NEW r \in Requests, NEW g \in Generations, NEW c \in 1..MaxContracts,
                 NEW purpose \in AskedPurposes, AdmitWorkflowAttempt(r, l, g, c, purpose)
          PROVE  AttemptAdmitted
      <3>1. g \in Nat
        BY LeaseFields DEF Generations, LeaseRecord, NoLease
      <3>2. c \in Nat /\ purpose \in Purposes
        BY WorkflowAssumption DEF WorkflowAssumption
      <3> QED
        BY <2>2, <3>1, <3>2 DEF AttemptAdmitted
    <2> QED
      BY <1>3, <2>1, <2>2 DEF LeaseStep
  <1>4. CASE Ready \/ Crash \/ UNCHANGED vars
    BY <1>4 DEF Ready, Crash, vars, NothingMoves
  <1> QED
    BY <1>1, <1>2, <1>3, <1>4, ReceiptShape, RecoverShape, DispatchShape, RecoverRowsShape DEF Next

\* While the writer recovers, only its own steps happen.
LEMMA StepKinds ==
    ASSUME [Next]_vars
    PROVE  \/ RecoverDispatches \/ Ready \/ Crash
           \/ \E l \in Leases : RecoverLease(l)
           \/ UNCHANGED vars
           \/ Open /\ UNCHANGED <<writer, todo>>
  <1>1. ASSUME NEW w \in Workflows, WorkflowStep(w) \/ ReceiptStep(w) \/ AcceptStep(w)
        PROVE  Open /\ UNCHANGED <<writer, todo>>
    <2>1. CASE WorkflowStep(w)
      BY <2>1 DEF WorkflowStep, PrepareWorkflow, TransitionWorkflow, AddContractGeneration,
                  AcquireWorkflowLease
    <2>2. CASE ReceiptStep(w)
      BY ZenonT(60), <2>2 DEF ReceiptStep, RecordCandidate, RecordReview, RecordVerification,
                  RecordIntegration, RecordSelection, AppendReceipt
    <2>3. CASE AcceptStep(w)
      BY <2>3 DEF AcceptStep, AcceptWorkflowCandidate, AcceptWorkflow
    <2> QED
      BY <1>1, <2>1, <2>2, <2>3
  <1>2. ASSUME NEW l \in Leases, LeaseStep(l)
        PROVE  Open /\ UNCHANGED <<writer, todo>>
    BY <1>2 DEF LeaseStep, ChangeWorkflowLease, AdmitWorkflowAttempt
  <1>3. ASSUME NEW r \in Requests, DispatchStep(r)
        PROVE  Open /\ UNCHANGED <<writer, todo>>
    BY <1>3 DEF DispatchStep, ClaimDispatch, FinishDispatch, CancelDispatch, MoveDispatch
  <1> QED
    BY <1>1, <1>2, <1>3 DEF Next

\* The list of a recovering writer: only its own steps change it, and what is
\* on it stays active because nothing else runs.
LEMMA TodoStep ==
    ASSUME LeaseTables, TodoActive, [Next]_vars
    PROVE  /\ todo' \in SUBSET Leases
           /\ writer' # "recovering" => todo' = {}
           /\ TodoActive'
  <1>1. CASE RecoverDispatches
    BY <1>1 DEF RecoverDispatches, TodoActive
  <1>2. ASSUME NEW l \in Leases, RecoverLease(l)
        PROVE  /\ todo' \in SUBSET Leases
               /\ writer' # "recovering" => todo' = {}
               /\ TodoActive'
    BY <1>2 DEF RecoverLease, TodoActive, LeaseTables
  <1>3. CASE Ready \/ Crash \/ UNCHANGED vars
    BY <1>3 DEF Ready, Crash, vars, TodoActive, LeaseTables
  <1>4. CASE Open /\ UNCHANGED <<writer, todo>>
    BY <1>4 DEF Open, TodoActive, LeaseTables
  <1> QED
    BY <1>1, <1>2, <1>3, <1>4, StepKinds

----------------------------------------------------------------------------
(* Every shape keeps the invariant.                                        *)

LeaseCore ==
    /\ OneHolder /\ GenerationsBelow /\ HolderIsNewest
    /\ LeaseOutlivesAttempt /\ OneTurnPerWorktree /\ CancelledQuiet

\* Steps that leave the four tables alone.
LEMMA NothingKeeps ==
    ASSUME LeaseTables, LeaseCore, NothingMoves
    PROVE  LeaseCore'
  BY DEF LeaseCore, NothingMoves, OneHolder, GenerationsBelow, HolderIsNewest,
         LeaseOutlivesAttempt, OneTurnPerWorktree, CancelledQuiet, HoldingLeases,
         Holds, Unsettled

\* A phase touches only CancelledQuiet: a workflow becomes cancelled when no
\* lease of it holds, and then no attempt of it is unsettled.
LEMMA PhaseKeeps ==
    ASSUME LeaseTables, LeaseCore, PhaseMoves
    PROVE  LeaseCore' /\ workflows' \in [Workflows -> WorkflowPhases \cup {"absent"}]
  <1>1. PICK w \in Workflows, phase \in WorkflowPhases :
            /\ phase = "cancelled" => HoldingLeases(w) = {}
            /\ workflows' = [workflows EXCEPT ![w] = phase]
    BY DEF PhaseMoves
  <1>2. UNCHANGED <<slots, leases, attempts>>
    BY DEF PhaseMoves
  <1>3. OneHolder' /\ GenerationsBelow' /\ HolderIsNewest' /\ LeaseOutlivesAttempt'
        /\ OneTurnPerWorktree'
    BY <1>2 DEF LeaseCore, OneHolder, GenerationsBelow, HolderIsNewest,
         LeaseOutlivesAttempt, OneTurnPerWorktree, Holds, Unsettled
  <1>4. ASSUME NEW v \in Workflows, workflows'[v] = "cancelled"
        PROVE  /\ HoldingLeases(v) = {}
               /\ \A r \in Requests : Unsettled(r) => attempts[r].workflow # v
    <2>1. HoldingLeases(v) = {}
      BY <1>1, <1>4 DEF LeaseTables, LeaseCore, CancelledQuiet
    <2>2. ASSUME NEW r \in Requests, Unsettled(r)
          PROVE  attempts[r].workflow # v
      <3>1. Holds(attempts[r].lease) /\ leases[attempts[r].lease].workflow = attempts[r].workflow
            /\ attempts[r].lease \in Leases
        BY <2>2, AttemptFields DEF LeaseCore, LeaseOutlivesAttempt, AttemptRecord
      <3> QED
        BY <2>1, <3>1 DEF HoldingLeases, Holds
    <2> QED
      BY <2>1, <2>2
  <1>5. CancelledQuiet'
    BY <1>2, <1>4 DEF CancelledQuiet, HoldingLeases, Unsettled
  <1>6. workflows' \in [Workflows -> WorkflowPhases \cup {"absent"}]
    BY <1>1 DEF LeaseTables
  <1> QED
    BY <1>3, <1>5, <1>6 DEF LeaseCore

\* A lease changes its state only; one that stops holding has no unsettled
\* attempt under it.
LEMMA LeaseKeeps ==
    ASSUME LeaseTables, LeaseCore, LeaseMoves
    PROVE  LeaseCore' /\ leases' \in [Leases -> LeaseRecord \cup {NoLease}]
  <1>1. PICK l \in Leases, state \in LeaseStates :
            /\ Holds(l)
            /\ HoldsLease(state) \/ Settled(l)
            /\ leases' = [leases EXCEPT ![l].state = state]
    BY DEF LeaseMoves
  <1>2. UNCHANGED <<workflows, slots, attempts>>
    BY DEF LeaseMoves
  <1>3. leases[l] \in LeaseRecord
    BY <1>1, LeaseFields
  <1>4. leases' \in [Leases -> LeaseRecord \cup {NoLease}]
    BY <1>1, <1>3 DEF LeaseTables, LeaseRecord
  <1>5. ASSUME NEW k \in Leases
        PROVE  /\ leases'[k].slot = leases[k].slot
               /\ leases'[k].worktree = leases[k].worktree
               /\ leases'[k].generation = leases[k].generation
               /\ leases'[k].workflow = leases[k].workflow
               /\ HoldsLease(leases'[k].state) => Holds(k)
               /\ leases'[k].state = "absent" <=> leases[k].state = "absent"
               /\ k # l => leases'[k] = leases[k]
    BY <1>1, <1>3 DEF LeaseTables, LeaseRecord, Holds, HoldsLease, LeaseStates
  <1>6. leases'[l].state = state
    BY <1>1, <1>3 DEF LeaseTables, LeaseRecord
  <1>7. OneHolder'
    BY <1>5 DEF LeaseCore, OneHolder, Holds
  <1>8. GenerationsBelow'
    BY <1>2, <1>5 DEF LeaseCore, GenerationsBelow
  <1>9. HolderIsNewest'
    BY <1>2, <1>5 DEF LeaseCore, HolderIsNewest, Holds
  <1>10. ASSUME NEW r \in Requests, Unsettled(r)
         PROVE  /\ attempts[r].lease \in Leases
                /\ HoldsLease(leases'[attempts[r].lease].state)
                /\ leases'[attempts[r].lease].generation = attempts[r].generation
                /\ leases'[attempts[r].lease].workflow = attempts[r].workflow
    <2>1. attempts[r] \in AttemptRecord /\ attempts[r].lease \in Leases
      BY <1>10, AttemptFields DEF AttemptRecord
    <2>2. /\ Holds(attempts[r].lease)
          /\ leases[attempts[r].lease].generation = attempts[r].generation
          /\ leases[attempts[r].lease].workflow = attempts[r].workflow
      BY <1>10 DEF LeaseCore, LeaseOutlivesAttempt
    <2>3. CASE attempts[r].lease = l
      <3>1. r \in Under(l) /\ ~IsTerminal(attempts[r].phase)
        BY <1>10, <2>1, <2>2, <2>3 DEF Under, Unsettled, HoldsReservation, AttemptRecord,
              DispatchPhases, ActivePhases, TerminalPhases
      <3>2. ~Settled(l)
        BY <3>1 DEF Settled
      <3> QED
        BY <1>1, <1>5, <1>6, <2>1, <2>2, <2>3, <3>2
    <2>4. CASE attempts[r].lease # l
      BY <1>5, <2>1, <2>2, <2>4 DEF Holds
    <2> QED
      BY <2>3, <2>4
  <1>11. LeaseOutlivesAttempt'
    BY <1>2, <1>10 DEF LeaseOutlivesAttempt, Holds, Unsettled
  <1>12. OneTurnPerWorktree'
    BY <1>2, <1>5, <1>10 DEF LeaseCore, OneTurnPerWorktree, Unsettled
  <1>13. CancelledQuiet'
    BY <1>2, <1>5 DEF LeaseCore, CancelledQuiet, HoldingLeases, Holds, Unsettled
  <1> QED
    BY <1>4, <1>7, <1>8, <1>9, <1>11, <1>12, <1>13 DEF LeaseCore

\* The rows move and nothing becomes unsettled that was not.
LEMMA RowsKeep ==
    ASSUME LeaseTables, LeaseCore, RowsMove
    PROVE  LeaseCore' /\ attempts' \in [Requests -> AttemptRecord \cup {NoAttempt}]
  <1>1. /\ UNCHANGED <<workflows, slots, leases>>
        /\ \A r \in Requests : /\ attempts'[r].lease = attempts[r].lease
                               /\ attempts'[r].generation = attempts[r].generation
                               /\ attempts'[r].workflow = attempts[r].workflow
                               /\ Unsettled(r)' => Unsettled(r)
    BY DEF RowsMove, Unsettled
  <1>2. OneHolder' /\ GenerationsBelow' /\ HolderIsNewest'
    BY <1>1 DEF LeaseCore, OneHolder, GenerationsBelow, HolderIsNewest, Holds
  <1>3. LeaseOutlivesAttempt' /\ OneTurnPerWorktree' /\ CancelledQuiet'
    BY <1>1 DEF LeaseCore, LeaseOutlivesAttempt, OneTurnPerWorktree, CancelledQuiet,
         HoldingLeases, Holds
  <1> QED
    BY <1>2, <1>3 DEF LeaseCore, RowsMove

\* A new lease holds a slot and a worktree nobody holds, under a generation
\* above all earlier ones of the slot.
LEMMA AcquireKeeps ==
    ASSUME LeaseTables, LeaseCore, LeaseAcquired
    PROVE  /\ LeaseCore'
           /\ leases' \in [Leases -> LeaseRecord \cup {NoLease}]
           /\ slots' \in [Slots -> Nat]
           /\ UNCHANGED <<workflows, attempts>>
  <1>1. PICK l \in Leases, w \in Workflows, t \in Tasks, s \in Slots, d \in Worktrees :
            AcquireWorkflowLease(l, w, t, s, d)
    BY DEF LeaseAcquired
  <1> DEFINE new == [state |-> "active", workflow |-> w, task |-> t, slot |-> s,
                     worktree |-> d, generation |-> slots[s] + 1]
  <1>2. /\ leases[l].state = "absent"
        /\ AdmitsWork(workflows[w])
        /\ \A k \in Leases : Holds(k) => leases[k].slot # s /\ leases[k].worktree # d
        /\ leases' = [leases EXCEPT ![l] = new]
        /\ slots' = [slots EXCEPT ![s] = slots[s] + 1]
        /\ UNCHANGED <<workflows, attempts>>
    BY <1>1 DEF AcquireWorkflowLease, Holds
  <1>3. slots[s] \in Nat /\ slots' \in [Slots -> Nat]
    BY <1>2 DEF LeaseTables
  <1>4. new \in LeaseRecord
    BY <1>3 DEF LeaseRecord, LeaseStates
  <1>5. leases' \in [Leases -> LeaseRecord \cup {NoLease}]
    BY <1>2, <1>4 DEF LeaseTables
  <1>6. /\ leases'[l] = new
        /\ \A k \in Leases : k # l => leases'[k] = leases[k]
        /\ slots'[s] = slots[s] + 1
        /\ \A q \in Slots : q # s => slots'[q] = slots[q]
    BY <1>2 DEF LeaseTables
  <1>7. /\ new.state = "active" /\ new.slot = s /\ new.worktree = d /\ new.workflow = w
        /\ new.generation = slots[s] + 1
    OBVIOUS
  <1> HIDE DEF new
  <1>8. ~Holds(l)
    BY <1>2 DEF Holds, HoldsLease
  <1>9. OneHolder'
    <2>1. ASSUME NEW k \in Leases, k # l, HoldsLease(leases'[k].state)
          PROVE  leases'[k].slot # s /\ leases'[k].worktree # d /\ Holds(k)
      BY <1>2, <1>6, <2>1 DEF Holds
    <2> QED
      BY <1>6, <1>7, <2>1 DEF LeaseCore, OneHolder, Holds
  <1>10. ASSUME NEW k \in Leases, k # l, leases[k].state # "absent"
         PROVE  /\ leases[k].slot \in Slots
                /\ leases[k].generation \in Nat
                /\ leases[k].generation >= 1
                /\ leases[k].generation <= slots[leases[k].slot]
                /\ slots[leases[k].slot] \in Nat
    BY <1>10, LeaseFields DEF LeaseCore, GenerationsBelow, LeaseRecord, LeaseTables
  <1>11. GenerationsBelow'
    <2>1. ASSUME NEW k \in Leases, leases'[k].state # "absent"
          PROVE  leases'[k].generation \in 1..slots'[leases'[k].slot]
      <3>1. CASE k = l
        BY <1>3, <1>6, <1>7, <3>1
      <3>2. CASE k # l
        BY <1>3, <1>6, <1>10, <2>1, <3>2
      <3> QED
        BY <3>1, <3>2
    <2> QED
      BY <2>1 DEF GenerationsBelow
  <1>12. HolderIsNewest'
    <2>1. ASSUME NEW k \in Leases, k # l
          PROVE  /\ leases'[k].slot = s => leases'[k].generation < slots[s] + 1
                 /\ leases'[k].slot = s /\ leases'[k].state # "absent" =>
                        leases'[k].generation # new.generation
      <3>1. CASE leases[k].state = "absent"
        BY <1>3, <1>6, <2>1, <3>1, LeaseFields DEF NoLease
      <3>2. CASE leases[k].state # "absent"
        BY <1>3, <1>6, <1>7, <1>10, <2>1, <3>2
      <3> QED
        BY <3>1, <3>2
    <2>2. ASSUME NEW k \in Leases, leases'[k].state # "absent"
          PROVE  /\ HoldsLease(leases'[k].state) => leases'[k].generation = slots'[leases'[k].slot]
                 /\ \A j \in Leases : j # k /\ leases'[j].slot = leases'[k].slot =>
                        leases'[j].generation # leases'[k].generation
      <3>1. CASE k = l
        <4>1. leases'[k].generation = slots'[leases'[k].slot]
          BY <1>6, <1>7, <3>1
        <4>2. ASSUME NEW j \in Leases, j # k, leases'[j].slot = leases'[k].slot
              PROVE  leases'[j].generation # leases'[k].generation
          <5>1. leases'[j].generation < slots[s] + 1
            BY <1>6, <1>7, <2>1, <3>1, <4>2
          <5>2. leases'[j].generation \in Nat
            BY <1>6, <3>1, <4>2, LeaseFields DEF LeaseRecord, NoLease
          <5> QED
            BY <1>3, <1>6, <1>7, <3>1, <5>1, <5>2
        <4> QED
          BY <4>1, <4>2
      <3>2. CASE k # l
        <4>1. leases[k].state # "absent" /\ leases'[k] = leases[k]
          BY <1>6, <2>2, <3>2
        <4>2. HoldsLease(leases[k].state) => leases[k].slot # s /\ leases[k].generation = slots[leases[k].slot]
          BY <1>2, <4>1 DEF Holds, LeaseCore, HolderIsNewest
        <4>3. HoldsLease(leases'[k].state) => leases'[k].generation = slots'[leases'[k].slot]
          BY <1>6, <1>10, <3>2, <4>1, <4>2
        <4>4. ASSUME NEW j \in Leases, j # k, leases'[j].slot = leases'[k].slot
              PROVE  leases'[j].generation # leases'[k].generation
          <5>1. CASE j = l
            BY <1>6, <1>7, <2>1, <2>2, <3>2, <4>4, <5>1
          <5>2. CASE j # l
            BY <1>6, <3>2, <4>1, <4>4, <5>2 DEF LeaseCore, HolderIsNewest
          <5> QED
            BY <5>1, <5>2
        <4> QED
          BY <4>3, <4>4
      <3> QED
        BY <3>1, <3>2
    <2> QED
      BY <2>2 DEF HolderIsNewest, Holds
  <1>13. ASSUME NEW r \in Requests, Unsettled(r)
         PROVE  /\ attempts[r].lease \in Leases /\ Holds(attempts[r].lease)
                /\ leases'[attempts[r].lease] = leases[attempts[r].lease]
    BY <1>6, <1>8, <1>13, AttemptFields DEF LeaseCore, LeaseOutlivesAttempt, AttemptRecord
  <1>14. LeaseOutlivesAttempt' /\ OneTurnPerWorktree'
    BY <1>2, <1>13 DEF LeaseCore, LeaseOutlivesAttempt, OneTurnPerWorktree, Holds, Unsettled
  <1>15. CancelledQuiet'
    <2>1. workflows[w] # "cancelled"
      BY <1>2 DEF AdmitsWork
    <2> QED
      BY <1>2, <1>6, <1>7, <2>1 DEF LeaseCore, CancelledQuiet, HoldingLeases, Unsettled
  <1> QED
    BY <1>2, <1>3, <1>5, <1>9, <1>11, <1>12, <1>14, <1>15 DEF LeaseCore

\* A new attempt is under an active lease of a workflow that admits work, in
\* a worktree where no other is unsettled.
LEMMA AdmitKeeps ==
    ASSUME LeaseTables, LeaseCore, AttemptAdmitted
    PROVE  /\ LeaseCore'
           /\ attempts' \in [Requests -> AttemptRecord \cup {NoAttempt}]
           /\ UNCHANGED <<workflows, slots, leases>>
  <1>1. PICK r \in Requests, l \in Leases, g \in Nat, c \in Nat, purpose \in Purposes :
            AdmitWorkflowAttempt(r, l, g, c, purpose)
    BY DEF AttemptAdmitted
  <1> DEFINE new == [phase |-> "admitted", workflow |-> leases[l].workflow,
                     task |-> leases[l].task, lease |-> l,
                     generation |-> g, contract |-> c, purpose |-> purpose]
  <1>2. /\ leases[l].state = "active" /\ leases[l].generation = g
        /\ AdmitsWork(workflows[leases[l].workflow])
        /\ ~WorktreeBusy(leases[l].worktree)
        /\ attempts' = [attempts EXCEPT ![r] = new]
        /\ UNCHANGED <<workflows, slots, leases>>
    BY <1>1 DEF AdmitWorkflowAttempt
  <1>3. leases[l] \in LeaseRecord
    BY <1>2, LeaseFields
  <1>4. new \in AttemptRecord
    BY <1>3 DEF LeaseRecord, AttemptRecord, DispatchPhases, ActivePhases
  <1>5. attempts' \in [Requests -> AttemptRecord \cup {NoAttempt}]
    BY <1>2, <1>4 DEF LeaseTables
  <1>6. attempts'[r] = new /\ \A q \in Requests : q # r => attempts'[q] = attempts[q]
    BY <1>2 DEF LeaseTables
  <1>7. new.lease = l /\ new.generation = g /\ new.workflow = leases[l].workflow
    OBVIOUS
  <1> HIDE DEF new
  <1>8. OneHolder' /\ GenerationsBelow' /\ HolderIsNewest'
    BY <1>2 DEF LeaseCore, OneHolder, GenerationsBelow, HolderIsNewest, Holds
  <1>9. Holds(l)
    BY <1>2 DEF Holds, HoldsLease
  <1>10. LeaseOutlivesAttempt'
    BY <1>2, <1>6, <1>7, <1>9 DEF LeaseCore, LeaseOutlivesAttempt, Unsettled, Holds
  <1>11. OneTurnPerWorktree'
    <2>1. ASSUME NEW q \in Requests, q # r, HoldsReservation(attempts'[q].phase)
          PROVE  leases[attempts[q].lease].worktree # leases[l].worktree
      BY <1>2, <1>6, <2>1 DEF WorktreeBusy
    <2> QED
      BY <1>2, <1>6, <1>7, <2>1 DEF LeaseCore, OneTurnPerWorktree, Unsettled
  <1>12. CancelledQuiet'
    BY <1>2, <1>6, <1>7 DEF LeaseCore, CancelledQuiet, HoldingLeases, Unsettled, AdmitsWork
  <1> QED
    BY <1>2, <1>5, <1>8, <1>10, <1>11, <1>12 DEF LeaseCore

----------------------------------------------------------------------------
(* The theorems.                                                           *)

\* A new database satisfies the invariant: there is nothing in it.
LEMMA InitLeaseInv == Init => LeaseInv
  <1> SUFFICES ASSUME Init PROVE LeaseInv
    OBVIOUS
  <1>1. LeaseTables
    BY DEF Init, LeaseTables
  <1>2. /\ \A l \in Leases : leases[l].state = "absent" /\ ~Holds(l)
        /\ \A r \in Requests : ~Unsettled(r)
        /\ \A w \in Workflows : workflows[w] # "cancelled"
        /\ todo = {}
    BY DEF Init, NoLease, NoAttempt, Holds, HoldsLease, Unsettled, HoldsReservation,
           DispatchPhases, ActivePhases, TerminalPhases
  <1> QED
    BY <1>1, <1>2 DEF LeaseInv, OneHolder, GenerationsBelow, HolderIsNewest,
       LeaseOutlivesAttempt, OneTurnPerWorktree, CancelledQuiet, TodoActive

\* Every step of the store keeps it.
LEMMA StepLeaseInv == LeaseInv /\ [Next]_vars => LeaseInv'
  <1> SUFFICES ASSUME LeaseInv, [Next]_vars PROVE LeaseInv'
    OBVIOUS
  <1>1. LeaseTables /\ LeaseCore /\ TodoActive
    BY DEF LeaseInv, LeaseCore
  <1>2. todo' \in SUBSET Leases /\ (writer' # "recovering" => todo' = {}) /\ TodoActive'
    BY <1>1, TodoStep
  <1>3. NothingMoves \/ PhaseMoves \/ LeaseAcquired \/ LeaseMoves \/ AttemptAdmitted \/ RowsMove
    BY <1>1, EveryShape, WorkflowAssumption
  <1>4. /\ LeaseCore'
        /\ workflows' \in [Workflows -> WorkflowPhases \cup {"absent"}]
        /\ slots' \in [Slots -> Nat]
        /\ leases' \in [Leases -> LeaseRecord \cup {NoLease}]
        /\ attempts' \in [Requests -> AttemptRecord \cup {NoAttempt}]
    <2>1. CASE NothingMoves
      BY <1>1, <2>1, NothingKeeps DEF NothingMoves, LeaseTables
    <2>2. CASE PhaseMoves
      BY <1>1, <2>2, PhaseKeeps DEF PhaseMoves, LeaseTables
    <2>3. CASE LeaseAcquired
      BY <1>1, <2>3, AcquireKeeps DEF LeaseTables
    <2>4. CASE LeaseMoves
      BY <1>1, <2>4, LeaseKeeps DEF LeaseMoves, LeaseTables
    <2>5. CASE AttemptAdmitted
      BY <1>1, <2>5, AdmitKeeps DEF LeaseTables
    <2>6. CASE RowsMove
      BY <1>1, <2>6, RowsKeep DEF RowsMove, LeaseTables
    <2> QED
      BY <1>3, <2>1, <2>2, <2>3, <2>4, <2>5, <2>6
  <1> QED
    BY <1>2, <1>4 DEF LeaseInv, LeaseCore, LeaseTables

\* The inductive invariant of the lease tables.
THEOREM LeaseInvariance == Spec => []LeaseInv
  BY InitLeaseInv, StepLeaseInv, PTL DEF Spec

\* acquire_workflow_lease never gives a slot or a worktree to two holders.
THEOREM SlotAndWorktree == Spec => []OneHolder
  <1>1. LeaseInv => OneHolder
    BY DEF LeaseInv
  <1> QED
    BY <1>1, LeaseInvariance, PTL

\* The holder of a slot has its newest generation, and nobody else has it.
THEOREM GenerationFences == Spec => []HolderIsNewest
  <1>1. LeaseInv => HolderIsNewest
    BY DEF LeaseInv
  <1> QED
    BY <1>1, LeaseInvariance, PTL

\* change_workflow_lease and recover_workflows never end a lease over a turn
\* that may still have a process.
THEOREM LeaseCoversTurn == Spec => []LeaseOutlivesAttempt
  <1>1. LeaseInv => LeaseOutlivesAttempt
    BY DEF LeaseInv
  <1> QED
    BY <1>1, LeaseInvariance, PTL

\* Two unsettled turns never share a worktree.
THEOREM TurnsApart == Spec => []OneTurnPerWorktree
  <1>1. LeaseInv => OneTurnPerWorktree
    BY DEF LeaseInv
  <1> QED
    BY <1>1, LeaseInvariance, PTL

\* A cancelled workflow has neither a reservation nor an unsettled turn.
THEOREM CancelIsOver == Spec => []CancelledQuiet
  <1>1. LeaseInv => CancelledQuiet
    BY DEF LeaseInv
  <1> QED
    BY <1>1, LeaseInvariance, PTL

\* No step writes a lease that has ended.
THEOREM EndedLeasesStay == Spec => EndedLeaseFinal
  <1>1. ASSUME LeaseInv, [Next]_vars
        PROVE  \A l \in Leases :
                   leases[l].state \in {"released", "revoked"} => leases'[l] = leases[l]
    <2> SUFFICES ASSUME NEW l \in Leases, leases[l].state \in {"released", "revoked"}
                 PROVE  leases'[l] = leases[l]
      OBVIOUS
    <2>1. LeaseTables /\ TodoActive
      BY <1>1 DEF LeaseInv
    <2>2. NothingMoves \/ PhaseMoves \/ LeaseAcquired \/ LeaseMoves \/ AttemptAdmitted \/ RowsMove
      BY <1>1, <2>1, EveryShape, WorkflowAssumption
    <2>3. CASE NothingMoves \/ PhaseMoves \/ RowsMove
      BY <2>3 DEF NothingMoves, PhaseMoves, RowsMove
    <2>4. CASE LeaseAcquired
      BY <2>1, <2>4 DEF LeaseAcquired, AcquireWorkflowLease, LeaseTables
    <2>5. CASE LeaseMoves
      BY <2>1, <2>5 DEF LeaseMoves, LeaseTables, Holds, HoldsLease
    <2>6. CASE AttemptAdmitted
      BY <2>6 DEF AttemptAdmitted, AdmitWorkflowAttempt
    <2> QED
      BY <2>2, <2>3, <2>4, <2>5, <2>6
  <1>2. [Next]_vars /\ LeaseInv =>
           [\A l \in Leases :
               leases[l].state \in {"released", "revoked"} => leases'[l] = leases[l]]_vars
    BY <1>1
  <1> QED
    BY <1>2, LeaseInvariance, PTL DEF Spec, EndedLeaseFinal

----------------------------------------------------------------------------
(* Tasks and receipts.                                                     *)

Progresses == {"pending", "running", "candidate_collected", "accepted", "failed"}

TaskRecord ==
    [contract: Nat, progress: Progresses, turns: Nat, repairs: Nat,
     candidate: Digests \cup {None}]

ReceiptRecord ==
    [task: Tasks \cup {None}, subject: SUBSET Digests, contracts: SUBSET (Tasks \X Nat),
     request: Requests \cup {None}, verdict: Verdicts]

TaskTables == tasks \in [Workflows -> [Tasks -> TaskRecord]]

ReceiptTables == receipts \in [Workflows -> [ReceiptKinds -> Seq(ReceiptRecord)]]

\* An attempt belongs to the task and workflow of the lease it names, also
\* when both are long over.
AttemptsPlaced ==
    \A r \in Requests : attempts[r].phase # "absent" =>
        /\ leases[attempts[r].lease].state # "absent"
        /\ leases[attempts[r].lease].workflow = attempts[r].workflow
        /\ leases[attempts[r].lease].task = attempts[r].task

\* What an admitted candidate says of its turn, in a table of attempts.
CandidateStands(w, c, rows) ==
    c.verdict = "admitted" =>
        /\ c.request \in Requests /\ c.task \in Tasks
        /\ rows[c.request].phase = "completed"
        /\ rows[c.request].workflow = w /\ rows[c.request].task = c.task
        /\ rows[c.request].purpose # "review"
        /\ c.contracts = {Contract(c.task, rows[c.request].contract)}

\* What a review that passed says of its turn.
ReviewStands(w, v, rows) ==
    v.verdict = "pass" =>
        /\ v.request \in Requests /\ v.task \in Tasks
        /\ rows[v.request].phase = "completed"
        /\ rows[v.request].workflow = w /\ rows[v.request].task = v.task
        /\ rows[v.request].purpose = "review"
        /\ v.contracts = {Contract(v.task, rows[v.request].contract)}

CandidatesStand ==
    \A w \in Workflows : \A i \in DOMAIN receipts[w]["candidate"] :
        CandidateStands(w, receipts[w]["candidate"][i], attempts)

ReviewsStand ==
    \A w \in Workflows : \A i \in DOMAIN receipts[w]["review"] :
        ReviewStands(w, receipts[w]["review"][i], attempts)

\* A task that says so has a candidate, of this contract or of an earlier one.
CollectedHasCandidate ==
    \A w \in Workflows, t \in Tasks : tasks[w][t].progress = "candidate_collected" =>
        \E c \in Admitted(w) : c.task = t

\* What a recovering writer has done so far: an active lease that is not on
\* its list any more has turns, and they have settled.
RecoveredSoFar ==
    writer = "recovering" =>
        \A l \in Leases : leases[l].state = "active" /\ l \notin todo =>
            Under(l) # {} /\ Settled(l)

\* The inductive invariant of the tasks and receipts, over that of the leases.
AcceptanceInv ==
    /\ LeaseInv
    /\ TaskTables
    /\ ReceiptTables
    /\ AttemptsPlaced
    /\ CandidatesStand
    /\ ReviewsStand
    /\ CollectedHasCandidate
    /\ CandidateEarned
    /\ AcceptedIsEarned
    /\ TurnsCharged
    /\ RecoveredSoFar

----------------------------------------------------------------------------
(* What no step takes away.                                                *)

\* An attempt that is there keeps what it was admitted with, and its end.
AttemptKept(r) ==
    /\ attempts'[r].phase # "absent"
    /\ attempts'[r].lease = attempts[r].lease
    /\ attempts'[r].workflow = attempts[r].workflow
    /\ attempts'[r].task = attempts[r].task
    /\ attempts'[r].contract = attempts[r].contract
    /\ attempts'[r].purpose = attempts[r].purpose
    /\ attempts[r].phase = "completed" => attempts'[r].phase = "completed"

\* A lease that is there keeps its slot, task, workflow and generation.
LeaseKept(l) ==
    /\ leases'[l].state # "absent"
    /\ leases'[l].slot = leases[l].slot
    /\ leases'[l].task = leases[l].task
    /\ leases'[l].workflow = leases[l].workflow
    /\ leases'[l].generation = leases[l].generation

\* Rows of attempts and leases are never removed or given to another.
LEMMA RowsKept ==
    ASSUME LeaseInv, [Next]_vars
    PROVE  /\ \A r \in Requests : attempts[r].phase # "absent" => AttemptKept(r)
           /\ \A l \in Leases : leases[l].state # "absent" => LeaseKept(l)
  <1>1. LeaseTables /\ TodoActive
    BY DEF LeaseInv
  <1>2. NothingMoves \/ PhaseMoves \/ LeaseAcquired \/ LeaseMoves \/ AttemptAdmitted \/ RowsMove
    BY <1>1, EveryShape, WorkflowAssumption
  <1>3. CASE NothingMoves \/ PhaseMoves
    BY <1>3 DEF NothingMoves, PhaseMoves, AttemptKept, LeaseKept
  <1>4. CASE LeaseAcquired
    BY <1>1, <1>4 DEF LeaseAcquired, AcquireWorkflowLease, LeaseTables, AttemptKept, LeaseKept
  <1>5. CASE LeaseMoves
    <2>1. PICK l \in Leases, state \in LeaseStates :
              Holds(l) /\ leases' = [leases EXCEPT ![l].state = state]
      BY <1>5 DEF LeaseMoves
    <2>2. UNCHANGED attempts
      BY <1>5 DEF LeaseMoves
    <2>3. leases[l] \in LeaseRecord
      BY <1>1, <2>1, LeaseFields
    <2>4. ASSUME NEW k \in Leases, leases[k].state # "absent"
          PROVE  LeaseKept(k)
      BY <1>1, <2>1, <2>3, <2>4 DEF LeaseTables, LeaseRecord, LeaseStates, LeaseKept
    <2> QED
      BY <2>2, <2>4 DEF AttemptKept
  <1>6. CASE AttemptAdmitted
    BY <1>1, <1>6 DEF AttemptAdmitted, AdmitWorkflowAttempt, LeaseTables, AttemptKept, LeaseKept
  <1>7. CASE RowsMove
    <2>1. ASSUME NEW r \in Requests, attempts[r].phase # "absent"
          PROVE  AttemptKept(r)
      BY <1>7, <2>1 DEF RowsMove, AttemptKept, Unsettled, HoldsReservation, IsTerminal,
                        TerminalPhases
    <2> QED
      BY <1>7, <2>1 DEF RowsMove, LeaseKept
  <1> QED
    BY <1>2, <1>3, <1>4, <1>5, <1>6, <1>7

\* A receipt is appended to one kind of one workflow, or none is.
ReceiptMoves ==
    \/ UNCHANGED receipts
    \/ \E w \in Workflows, k \in ReceiptKinds, x \in ReceiptRecord :
          /\ receipts' = [receipts EXCEPT ![w][k] = Append(@, x)]
          /\ k = "candidate" => CandidateStands(w, x, attempts)
          /\ k = "review" => ReviewStands(w, x, attempts)

\* A task of a workflow changes in one of four ways.
TaskMoves(w, t) ==
    \/ tasks'[w][t] = tasks[w][t]
    \/ AddContractGeneration(w, t)
    \/ \E r \in Requests, l \in Leases, generation \in Nat, contract \in Nat,
          purpose \in Purposes \ {"review"} :
            /\ leases[l].workflow = w /\ leases[l].task = t
            /\ AdmitWorkflowAttempt(r, l, generation, contract, purpose)
    \/ \E l \in Leases, generation \in Nat, r \in Requests, d \in Digests :
            \E verdict \in {"admitted", "refused"} :
                leases[l].task = t /\ RecordCandidate(w, l, generation, r, d, verdict)
    \/ \E d \in Digests : AcceptWorkflowCandidate(w, t, d)

\* Which steps a workflow's phase can take.
LEMMA PhaseSteps ==
    ASSUME LeaseInv, [Next]_vars, NEW w \in Workflows
    PROVE  \/ workflows'[w] = workflows[w]
           \/ PrepareWorkflow(w)
           \/ \E phase \in AskedPhases : TransitionWorkflow(w, phase)
           \/ AcceptWorkflow(w)
  <1>1. LeaseTables /\ TodoActive
    BY DEF LeaseInv
  <1>2. ASSUME NEW v \in Workflows, WorkflowStep(v)
        PROVE  \/ workflows'[w] = workflows[w]
               \/ PrepareWorkflow(w)
               \/ \E phase \in AskedPhases : TransitionWorkflow(w, phase)
    <2>1. CASE PrepareWorkflow(v)
      BY <1>1, <2>1 DEF PrepareWorkflow, LeaseTables
    <2>2. ASSUME NEW phase \in AskedPhases, TransitionWorkflow(v, phase)
          PROVE  \/ workflows'[w] = workflows[w]
                 \/ TransitionWorkflow(w, phase)
      BY <1>1, <2>2 DEF TransitionWorkflow, LeaseTables
    <2>3. ASSUME NEW t \in Tasks, AddContractGeneration(v, t)
          PROVE  workflows' = workflows
      BY <2>3 DEF AddContractGeneration
    <2>4. ASSUME NEW l \in Leases, NEW t \in Tasks, NEW s \in Slots, NEW d \in Worktrees,
                 AcquireWorkflowLease(l, v, t, s, d)
          PROVE  workflows' = workflows
      BY <2>4 DEF AcquireWorkflowLease
    <2> QED
      BY <1>2, <2>1, <2>2, <2>3, <2>4 DEF WorkflowStep
  <1>3. ASSUME NEW v \in Workflows, AcceptStep(v)
        PROVE  workflows'[w] = workflows[w] \/ AcceptWorkflow(w)
    <2>1. CASE AcceptWorkflow(v)
      BY <1>1, <2>1 DEF AcceptWorkflow, LeaseTables
    <2> QED
      BY <1>3, <2>1 DEF AcceptStep, AcceptWorkflowCandidate
  <1>4. ASSUME NEW v \in Workflows, ReceiptStep(v)
        PROVE  workflows' = workflows
    BY <1>4, ReceiptShape DEF NothingMoves
  <1>5. ASSUME NEW l \in Leases, LeaseStep(l) \/ RecoverLease(l)
        PROVE  workflows' = workflows
    BY <1>5 DEF LeaseStep, ChangeWorkflowLease, AdmitWorkflowAttempt, RecoverLease
  <1>6. ASSUME NEW r \in Requests, DispatchStep(r)
        PROVE  workflows' = workflows
    BY <1>6 DEF DispatchStep, ClaimDispatch, FinishDispatch, CancelDispatch, MoveDispatch
  <1>7. CASE RecoverDispatches \/ Ready \/ Crash \/ UNCHANGED vars
    BY <1>7 DEF RecoverDispatches, Ready, Crash, vars
  <1> QED
    BY <1>2, <1>3, <1>4, <1>5, <1>6, <1>7 DEF Next

\* Which steps a task can take.
LEMMA TaskSteps ==
    ASSUME LeaseInv, TaskTables, [Next]_vars, NEW w \in Workflows, NEW t \in Tasks
    PROVE  TaskMoves(w, t)
  <1>1. LeaseTables
    BY DEF LeaseInv
  <1>2. ASSUME NEW v \in Workflows, WorkflowStep(v)
        PROVE  TaskMoves(w, t)
    <2>1. ASSUME NEW u \in Tasks, AddContractGeneration(v, u)
          PROVE  TaskMoves(w, t)
      BY <2>1 DEF AddContractGeneration, TaskTables, TaskMoves
    <2>2. CASE UNCHANGED tasks
      BY <2>2 DEF TaskMoves
    <2>3. PrepareWorkflow(v) => UNCHANGED tasks
      BY DEF PrepareWorkflow
    <2>4. \A phase \in AskedPhases : TransitionWorkflow(v, phase) => UNCHANGED tasks
      BY DEF TransitionWorkflow
    <2>5. \A l \in Leases, u \in Tasks, s \in Slots, d \in Worktrees :
              AcquireWorkflowLease(l, v, u, s, d) => UNCHANGED tasks
      BY DEF AcquireWorkflowLease
    <2> QED
      BY <1>2, <2>1, <2>2, <2>3, <2>4, <2>5 DEF WorkflowStep
  <1>3. ASSUME NEW v \in Workflows, AcceptStep(v)
        PROVE  TaskMoves(w, t)
    <2>1. ASSUME NEW u \in Tasks, NEW d \in Digests, AcceptWorkflowCandidate(v, u, d)
          PROVE  TaskMoves(w, t)
      BY <2>1 DEF AcceptWorkflowCandidate, TaskTables, TaskMoves
    <2>2. CASE AcceptWorkflow(v)
      BY <2>2 DEF AcceptWorkflow, TaskMoves
    <2> QED
      BY <1>3, <2>1, <2>2 DEF AcceptStep
  <1>4. ASSUME NEW v \in Workflows, ReceiptStep(v)
        PROVE  TaskMoves(w, t)
    <2>1. ASSUME NEW l \in Leases, NEW g \in Generations, NEW r \in Requests, NEW d \in Digests,
                 NEW verdict \in {"admitted", "refused"},
                 RecordCandidate(v, l, g, r, d, verdict)
          PROVE  TaskMoves(w, t)
      <3>1. g \in Nat
        BY <1>1, LeaseFields DEF Generations, LeaseRecord, NoLease
      <3>2. tasks' = [tasks EXCEPT ![v][leases[l].task].progress =
                          Collected(v, leases[l].task, verdict)]
        BY <2>1 DEF RecordCandidate
      <3>3. CASE v = w /\ leases[l].task = t
        BY <2>1, <3>1, <3>3 DEF TaskMoves
      <3>4. CASE ~(v = w /\ leases[l].task = t)
        <4>1. tasks'[w][t] = tasks[w][t]
          BY <3>2, <3>4 DEF TaskTables
        <4> QED
          BY <4>1 DEF TaskMoves
      <3> QED
        BY <3>3, <3>4
    <2>2. CASE UNCHANGED tasks
      BY <2>2 DEF TaskMoves
    <2> QED
      BY <1>4, <2>1, <2>2 DEF ReceiptStep, RecordReview, RecordVerification, RecordIntegration,
                              RecordSelection
  <1>5. ASSUME NEW l \in Leases, LeaseStep(l)
        PROVE  TaskMoves(w, t)
    <2>1. ASSUME NEW r \in Requests, NEW g \in Generations, NEW c \in 1..MaxContracts,
                 NEW purpose \in AskedPurposes, AdmitWorkflowAttempt(r, l, g, c, purpose)
          PROVE  TaskMoves(w, t)
      <3>1. g \in Nat
        BY <1>1, LeaseFields DEF Generations, LeaseRecord, NoLease
      <3>2. c \in Nat /\ purpose \in Purposes
        BY WorkflowAssumption
      <3>3. tasks' = [tasks EXCEPT ![leases[l].workflow][leases[l].task] =
                          IF purpose = "review" THEN @ ELSE Charged(@, purpose)]
        BY <2>1 DEF AdmitWorkflowAttempt
      <3>4. CASE leases[l].workflow = w /\ leases[l].task = t /\ purpose # "review"
        BY <2>1, <3>1, <3>2, <3>4 DEF TaskMoves
      <3>5. CASE ~(leases[l].workflow = w /\ leases[l].task = t /\ purpose # "review")
        <4>1. tasks'[w][t] = tasks[w][t]
          BY <3>3, <3>5 DEF TaskTables
        <4> QED
          BY <4>1 DEF TaskMoves
      <3> QED
        BY <3>4, <3>5
    <2>2. ASSUME NEW event \in LeaseEvents, NEW g \in Generations, ChangeWorkflowLease(l, event, g)
          PROVE  TaskMoves(w, t)
      BY <2>2 DEF ChangeWorkflowLease, TaskMoves
    <2> QED
      BY <1>5, <2>1, <2>2 DEF LeaseStep
  <1>6. ASSUME NEW r \in Requests, DispatchStep(r)
        PROVE  TaskMoves(w, t)
    BY <1>6 DEF DispatchStep, ClaimDispatch, FinishDispatch, CancelDispatch, MoveDispatch, TaskMoves
  <1>7. CASE RecoverDispatches \/ Ready \/ Crash \/ UNCHANGED vars \/ \E l \in Leases : RecoverLease(l)
    BY <1>7 DEF RecoverDispatches, Ready, Crash, vars, RecoverLease, TaskMoves
  <1> QED
    BY <1>2, <1>3, <1>4, <1>5, <1>6, <1>7 DEF Next

\* What a task looks like after each of its steps.
LEMMA TaskEffects ==
    ASSUME LeaseInv, TaskTables, NEW w \in Workflows, NEW t \in Tasks, TaskMoves(w, t)
    PROVE  \/ tasks'[w][t] = tasks[w][t]
           \/ /\ ~EndedPhase(workflows[w])
              /\ tasks'[w][t] = [tasks[w][t] EXCEPT !.contract = @ + 1, !.progress = "pending",
                                                    !.candidate = None]
           \/ /\ AttemptAdmitted /\ AdmitsWork(workflows[w])
              /\ \E purpose \in Purposes : tasks'[w][t] = Charged(tasks[w][t], purpose)
           \/ \E l \in Leases, g \in Nat, r \in Requests, d \in Digests,
                 verdict \in {"admitted", "refused"} :
                /\ leases[l].task = t /\ RecordCandidate(w, l, g, r, d, verdict)
                /\ leases[l].state = "active" /\ leases[l].workflow = w
                /\ tasks'[w][t] = [tasks[w][t] EXCEPT !.progress = Collected(w, t, verdict)]
           \/ /\ AdmitsWork(workflows[w])
              /\ \E d \in Digests :
                    /\ AcceptWorkflowCandidate(w, t, d)
                    /\ tasks'[w][t] = [tasks[w][t] EXCEPT !.progress = "accepted", !.candidate = d]
  <1>1. tasks[w] \in [Tasks -> TaskRecord] /\ tasks[w][t] \in TaskRecord
    BY DEF TaskTables
  <1>2. CASE AddContractGeneration(w, t)
    BY <1>1, <1>2 DEF AddContractGeneration, TaskTables, TaskRecord
  <1>3. ASSUME NEW r \in Requests, NEW l \in Leases, NEW g \in Nat, NEW c \in Nat,
               NEW purpose \in Purposes \ {"review"},
               leases[l].workflow = w, leases[l].task = t,
               AdmitWorkflowAttempt(r, l, g, c, purpose)
        PROVE  /\ AttemptAdmitted /\ AdmitsWork(workflows[w])
               /\ tasks'[w][t] = Charged(tasks[w][t], purpose)
    <2>1. AttemptAdmitted
      BY <1>3 DEF AttemptAdmitted
    <2>2. /\ AdmitsWork(workflows[w])
          /\ tasks' = [tasks EXCEPT ![w][t] = Charged(@, purpose)]
      BY <1>3 DEF AdmitWorkflowAttempt
    <2> QED
      BY <1>1, <2>1, <2>2 DEF TaskTables
  <1>4. ASSUME NEW l \in Leases, NEW g \in Nat, NEW r \in Requests, NEW d \in Digests,
               NEW verdict \in {"admitted", "refused"},
               leases[l].task = t, RecordCandidate(w, l, g, r, d, verdict)
        PROVE  /\ leases[l].state = "active" /\ leases[l].workflow = w
               /\ tasks'[w][t] = [tasks[w][t] EXCEPT !.progress = Collected(w, t, verdict)]
    <2>1. /\ leases[l].state = "active" /\ leases[l].workflow = w
          /\ tasks' = [tasks EXCEPT ![w][t].progress = Collected(w, t, verdict)]
      BY <1>4 DEF RecordCandidate
    <2> QED
      BY <1>1, <2>1 DEF TaskTables
  <1>5. ASSUME NEW d \in Digests, AcceptWorkflowCandidate(w, t, d)
        PROVE  /\ AdmitsWork(workflows[w])
               /\ tasks'[w][t] = [tasks[w][t] EXCEPT !.progress = "accepted", !.candidate = d]
    BY <1>1, <1>5 DEF AcceptWorkflowCandidate, TaskTables, TaskRecord
  <1> DEFINE
        Recorded == \E l \in Leases, g \in Nat, r \in Requests, d \in Digests,
                       verdict \in {"admitted", "refused"} :
                /\ leases[l].task = t /\ RecordCandidate(w, l, g, r, d, verdict)
                /\ leases[l].state = "active" /\ leases[l].workflow = w
                /\ tasks'[w][t] = [tasks[w][t] EXCEPT !.progress = Collected(w, t, verdict)]
        Admits == /\ AttemptAdmitted /\ AdmitsWork(workflows[w])
                  /\ \E purpose \in Purposes : tasks'[w][t] = Charged(tasks[w][t], purpose)
        Accepts == /\ AdmitsWork(workflows[w])
                   /\ \E d \in Digests :
                        /\ AcceptWorkflowCandidate(w, t, d)
                        /\ tasks'[w][t] = [tasks[w][t] EXCEPT !.progress = "accepted", !.candidate = d]
  <1>6. ASSUME NEW r \in Requests, NEW l \in Leases, NEW g \in Nat, NEW c \in Nat,
               NEW purpose \in Purposes \ {"review"},
               leases[l].workflow = w, leases[l].task = t,
               AdmitWorkflowAttempt(r, l, g, c, purpose)
        PROVE  Admits
    BY <1>3, <1>6
  <1>7. ASSUME NEW l \in Leases, NEW g \in Nat, NEW r \in Requests, NEW d \in Digests,
               NEW verdict \in {"admitted", "refused"},
               leases[l].task = t, RecordCandidate(w, l, g, r, d, verdict)
        PROVE  Recorded
    BY <1>4, <1>7
  <1>8. ASSUME NEW d \in Digests, AcceptWorkflowCandidate(w, t, d)
        PROVE  Accepts
    BY <1>5, <1>8
  <1> HIDE DEF Recorded, Admits, Accepts
  <1>9. tasks'[w][t] = tasks[w][t] \/ AddContractGeneration(w, t) \/ Admits \/ Recorded \/ Accepts
    BY <1>6, <1>7, <1>8 DEF TaskMoves
  <1>10. CASE tasks'[w][t] = tasks[w][t]
    BY <1>10
  <1>11. CASE Admits
    BY <1>11 DEF Admits
  <1>12. CASE Recorded
    BY <1>12 DEF Recorded
  <1>13. CASE Accepts
    BY <1>13 DEF Accepts
  <1> QED
    BY <1>2, <1>9, <1>10, <1>11, <1>12, <1>13

\* A recorded candidate stands on its turn.
LEMMA CandidateRecorded ==
    ASSUME LeaseInv, ReceiptTables, AttemptsPlaced, NEW w \in Workflows, NEW l \in Leases, NEW g,
           NEW r \in Requests, NEW d \in Digests, NEW verdict \in {"admitted", "refused"},
           RecordCandidate(w, l, g, r, d, verdict)
    PROVE  \E x \in ReceiptRecord :
               /\ receipts' = [receipts EXCEPT ![w]["candidate"] = Append(@, x)]
               /\ x.task = leases[l].task /\ x.verdict = verdict
               /\ CandidateStands(w, x, attempts)
  <1> DEFINE t == leases[l].task
             x == Receipt(t, {d}, {Contract(t, attempts[r].contract)}, r, verdict)
  <1>1. LeaseTables
    BY DEF LeaseInv
  <1>2. /\ leases[l].state = "active" /\ leases[l].workflow = w
        /\ attempts[r].phase # "absent" /\ attempts[r].lease = l
        /\ attempts[r].purpose # "review"
        /\ verdict = "admitted" => attempts[r].phase = "completed"
        /\ receipts' = [receipts EXCEPT ![w]["candidate"] = Append(@, x)]
    BY DEF RecordCandidate, Under, AppendReceipt
  <1>3. t \in Tasks
    BY <1>1, <1>2, LeaseFields DEF LeaseRecord
  <1>4. attempts[r].contract \in Nat
    BY <1>1, <1>2, AttemptFields DEF AttemptRecord
  <1>5. attempts[r].task = t /\ attempts[r].workflow = w
    BY <1>2 DEF AttemptsPlaced
  <1>6. x \in ReceiptRecord
    BY <1>3, <1>4 DEF ReceiptRecord, Receipt, Contract, Verdicts
  <1>7. x.task = t /\ x.verdict = verdict /\ x.request = r
        /\ x.contracts = {Contract(t, attempts[r].contract)}
    BY DEF Receipt
  <1> HIDE DEF x
  <1>8. CandidateStands(w, x, attempts)
    BY <1>2, <1>3, <1>5, <1>7 DEF CandidateStands
  <1> QED
    BY <1>2, <1>6, <1>7, <1>8

\* A recorded review stands on its turn.
LEMMA ReviewRecorded ==
    ASSUME LeaseInv, NEW w \in Workflows, NEW r \in Requests, NEW d \in Digests,
           NEW verdict \in {"pass", "changes_requested", "blocked"}, RecordReview(w, r, d, verdict)
    PROVE  \E x \in ReceiptRecord :
               /\ receipts' = [receipts EXCEPT ![w]["review"] = Append(@, x)]
               /\ ReviewStands(w, x, attempts)
  <1> DEFINE t == attempts[r].task
             x == Receipt(t, {d}, {Contract(t, attempts[r].contract)}, r, verdict)
  <1>1. LeaseTables
    BY DEF LeaseInv
  <1>2. /\ attempts[r].phase # "absent" /\ attempts[r].workflow = w
        /\ attempts[r].purpose = "review"
        /\ verdict # "blocked" => attempts[r].phase = "completed"
        /\ receipts' = [receipts EXCEPT ![w]["review"] = Append(@, x)]
    BY DEF RecordReview, AppendReceipt
  <1>3. t \in Tasks /\ attempts[r].contract \in Nat
    BY <1>1, <1>2, AttemptFields DEF AttemptRecord
  <1>4. x \in ReceiptRecord
    BY <1>3 DEF ReceiptRecord, Receipt, Contract, Verdicts
  <1>5. x.task = t /\ x.verdict = verdict /\ x.request = r
        /\ x.contracts = {Contract(t, attempts[r].contract)}
    BY DEF Receipt
  <1> HIDE DEF x
  <1>6. ReviewStands(w, x, attempts)
    BY <1>2, <1>3, <1>5 DEF ReviewStands
  <1> QED
    BY <1>2, <1>4, <1>6

\* Every step appends one receipt at most, and what it appends stands.
LEMMA ReceiptSteps ==
    ASSUME LeaseInv, TaskTables, ReceiptTables, AttemptsPlaced, [Next]_vars
    PROVE  ReceiptMoves
  <1>1. ASSUME NEW w \in Workflows, ReceiptStep(w)
        PROVE  ReceiptMoves
    <2>1. ASSUME NEW l \in Leases, NEW g \in Generations, NEW r \in Requests, NEW d \in Digests,
                 NEW verdict \in {"admitted", "refused"},
                 RecordCandidate(w, l, g, r, d, verdict)
          PROVE  ReceiptMoves
      <3>1. PICK x \in ReceiptRecord :
                /\ receipts' = [receipts EXCEPT ![w]["candidate"] = Append(@, x)]
                /\ CandidateStands(w, x, attempts)
        BY <2>1, CandidateRecorded
      <3> QED
        BY <3>1 DEF ReceiptMoves, ReceiptKinds
    <2>2. ASSUME NEW r \in Requests, NEW d \in Digests,
                 NEW verdict \in {"pass", "changes_requested", "blocked"},
                 RecordReview(w, r, d, verdict)
          PROVE  ReceiptMoves
      BY <2>2, ReviewRecorded DEF ReceiptMoves, ReceiptKinds
    <2>3. ASSUME NEW task \in Tasks \cup {None}, NEW subject \in SUBSET Digests,
                 NEW verdict \in {"passed", "failed"},
                 NEW contracts \in ContractsNamed(w, "candidate") \cup ContractsNamed(w, "integration"),
                 RecordVerification(w, task, subject, contracts, verdict)
          PROVE  ReceiptMoves
      <3>1. contracts \in SUBSET (Tasks \X Nat)
        <4>1. ASSUME NEW k \in ReceiptKinds, NEW i \in DOMAIN receipts[w][k]
              PROVE  receipts[w][k][i].contracts \in SUBSET (Tasks \X Nat)
          <5>1. receipts[w][k] \in Seq(ReceiptRecord)
            BY DEF ReceiptTables
          <5>2. receipts[w][k][i] \in ReceiptRecord
            BY <5>1, <4>1
          <5> QED
            BY <5>2 DEF ReceiptRecord
        <4> QED
          BY <4>1 DEF ContractsNamed, ReceiptKinds
      <3> DEFINE x == Receipt(task, subject, contracts, None, verdict)
      <3>2. x \in ReceiptRecord
        BY <3>1 DEF ReceiptRecord, Receipt, Verdicts
      <3>3. receipts' = [receipts EXCEPT ![w]["verification"] = Append(@, x)]
        BY <2>3 DEF RecordVerification, AppendReceipt
      <3> HIDE DEF x
      <3> QED
        BY <3>2, <3>3 DEF ReceiptMoves, ReceiptKinds
    <2>4. ASSUME NEW applied \in SUBSET Digests, NEW verdict \in {"clean", "conflicts"},
                 RecordIntegration(w, applied, verdict)
          PROVE  ReceiptMoves
      <3> DEFINE x == Receipt(None, applied, ContractsOf(w, AcceptedTasks(w)), None, verdict)
      <3>1. ContractsOf(w, AcceptedTasks(w)) \in SUBSET (Tasks \X Nat)
        BY DEF ContractsOf, AcceptedTasks, Contract, TaskTables, TaskRecord
      <3>2. x \in ReceiptRecord
        BY <3>1 DEF ReceiptRecord, Receipt, Verdicts
      <3>3. receipts' = [receipts EXCEPT ![w]["integration"] = Append(@, x)]
        BY <2>4 DEF RecordIntegration, AppendReceipt
      <3> HIDE DEF x
      <3> QED
        BY <3>2, <3>3 DEF ReceiptMoves, ReceiptKinds
    <2>5. ASSUME NEW winner \in {{}} \cup {{d} : d \in Digests}, RecordSelection(w, winner)
          PROVE  ReceiptMoves
      <3> DEFINE x == Receipt(None, winner, {}, None, "selected")
      <3>1. x \in ReceiptRecord
        BY DEF ReceiptRecord, Receipt, Verdicts
      <3>2. receipts' = [receipts EXCEPT ![w]["selection"] = Append(@, x)]
        BY <2>5 DEF RecordSelection, AppendReceipt
      <3> HIDE DEF x
      <3> QED
        BY <3>1, <3>2 DEF ReceiptMoves, ReceiptKinds
    <2> QED
      BY <1>1, <2>1, <2>2, <2>3, <2>4, <2>5 DEF ReceiptStep
  <1>2. ASSUME NEW w \in Workflows, WorkflowStep(w)
        PROVE  UNCHANGED receipts
    BY <1>2 DEF WorkflowStep, PrepareWorkflow, TransitionWorkflow, AddContractGeneration,
                AcquireWorkflowLease
  <1>3. ASSUME NEW w \in Workflows, AcceptStep(w)
        PROVE  UNCHANGED receipts
    BY <1>3 DEF AcceptStep, AcceptWorkflowCandidate, AcceptWorkflow
  <1>4. ASSUME NEW l \in Leases, LeaseStep(l) \/ RecoverLease(l)
        PROVE  UNCHANGED receipts
    BY <1>4 DEF LeaseStep, ChangeWorkflowLease, AdmitWorkflowAttempt, RecoverLease
  <1>5. ASSUME NEW r \in Requests, DispatchStep(r)
        PROVE  UNCHANGED receipts
    BY <1>5 DEF DispatchStep, ClaimDispatch, FinishDispatch, CancelDispatch, MoveDispatch
  <1>6. CASE RecoverDispatches \/ Ready \/ Crash \/ UNCHANGED vars
    BY <1>6 DEF RecoverDispatches, Ready, Crash, vars, ReceiptMoves
  <1> QED
    BY <1>1, <1>2, <1>3, <1>4, <1>5, <1>6 DEF Next, ReceiptMoves

\* The stored receipts stay where they are.
LEMMA ReceiptsGrow ==
    ASSUME ReceiptTables, ReceiptMoves
    PROVE  /\ ReceiptTables'
           /\ \A w \in Workflows, k \in ReceiptKinds : \A i \in DOMAIN receipts[w][k] :
                  /\ i \in DOMAIN receipts'[w][k]
                  /\ receipts'[w][k][i] = receipts[w][k][i]
           /\ \A w \in Workflows, k \in ReceiptKinds : \A i \in DOMAIN receipts'[w][k] :
                  \/ i \in DOMAIN receipts[w][k]
                  \/ /\ k = "candidate" => CandidateStands(w, receipts'[w][k][i], attempts)
                     /\ k = "review" => ReviewStands(w, receipts'[w][k][i], attempts)
  <1>1. CASE UNCHANGED receipts
    BY <1>1 DEF ReceiptTables
  <1>2. ASSUME NEW v \in Workflows, NEW j \in ReceiptKinds, NEW x \in ReceiptRecord,
               receipts' = [receipts EXCEPT ![v][j] = Append(@, x)],
               j = "candidate" => CandidateStands(v, x, attempts),
               j = "review" => ReviewStands(v, x, attempts)
        PROVE  /\ ReceiptTables'
               /\ \A w \in Workflows, k \in ReceiptKinds : \A i \in DOMAIN receipts[w][k] :
                      /\ i \in DOMAIN receipts'[w][k]
                      /\ receipts'[w][k][i] = receipts[w][k][i]
               /\ \A w \in Workflows, k \in ReceiptKinds : \A i \in DOMAIN receipts'[w][k] :
                      \/ i \in DOMAIN receipts[w][k]
                      \/ /\ k = "candidate" => CandidateStands(w, receipts'[w][k][i], attempts)
                         /\ k = "review" => ReviewStands(w, receipts'[w][k][i], attempts)
    <2>1. receipts[v][j] \in Seq(ReceiptRecord)
      BY DEF ReceiptTables
    <2>2. Append(receipts[v][j], x) \in Seq(ReceiptRecord)
      BY <2>1
    <2>3. ReceiptTables'
      BY <1>2, <2>2 DEF ReceiptTables
    <2>4. receipts'[v][j] = Append(receipts[v][j], x)
      BY <1>2 DEF ReceiptTables
    <2>5. \A w \in Workflows, k \in ReceiptKinds :
              ~(w = v /\ k = j) => receipts'[w][k] = receipts[w][k]
      BY <1>2 DEF ReceiptTables
    <2>6. /\ \A i \in DOMAIN receipts[v][j] :
                /\ i \in DOMAIN receipts'[v][j]
                /\ receipts'[v][j][i] = receipts[v][j][i]
          /\ \A i \in DOMAIN receipts'[v][j] :
                i \in DOMAIN receipts[v][j] \/ receipts'[v][j][i] = x
      BY <2>1, <2>4
    <2> QED
      BY <1>2, <2>3, <2>5, <2>6
  <1> QED
    BY <1>1, <1>2 DEF ReceiptMoves

----------------------------------------------------------------------------
(* Every step keeps the invariant of tasks and receipts.                   *)

\* The parts of the tables the tasks and receipts rest on.
LEMMA TablesOf ==
    ASSUME AcceptanceInv
    PROVE  LeaseInv /\ LeaseTables /\ TaskTables /\ ReceiptTables /\ AttemptsPlaced
  BY DEF AcceptanceInv, LeaseInv

\* The actions that write tasks.
LEMMA TaskActions ==
    ASSUME [Next]_vars
    PROVE  \/ UNCHANGED tasks
           \/ \E w \in Workflows, t \in Tasks : AddContractGeneration(w, t)
           \/ \E r \in Requests, l \in Leases, g \in Generations, c \in 1..MaxContracts,
                 purpose \in AskedPurposes : AdmitWorkflowAttempt(r, l, g, c, purpose)
           \/ \E w \in Workflows, l \in Leases, g \in Generations, r \in Requests, d \in Digests :
                 \E verdict \in {"admitted", "refused"} : RecordCandidate(w, l, g, r, d, verdict)
           \/ \E w \in Workflows, t \in Tasks, d \in Digests : AcceptWorkflowCandidate(w, t, d)
  <1>1. ASSUME NEW w \in Workflows, WorkflowStep(w)
        PROVE  UNCHANGED tasks \/ \E t \in Tasks : AddContractGeneration(w, t)
    BY <1>1 DEF WorkflowStep, PrepareWorkflow, TransitionWorkflow, AcquireWorkflowLease
  <1>2. ASSUME NEW w \in Workflows, ReceiptStep(w)
        PROVE  \/ UNCHANGED tasks
               \/ \E l \in Leases, g \in Generations, r \in Requests, d \in Digests :
                    \E verdict \in {"admitted", "refused"} : RecordCandidate(w, l, g, r, d, verdict)
    BY <1>2 DEF ReceiptStep, RecordReview, RecordVerification, RecordIntegration,
                RecordSelection
  <1>3. ASSUME NEW w \in Workflows, AcceptStep(w)
        PROVE  \/ UNCHANGED tasks
               \/ \E t \in Tasks, d \in Digests : AcceptWorkflowCandidate(w, t, d)
    BY <1>3 DEF AcceptStep, AcceptWorkflow
  <1>4. ASSUME NEW l \in Leases, LeaseStep(l)
        PROVE  \/ UNCHANGED tasks
               \/ \E r \in Requests, g \in Generations, c \in 1..MaxContracts,
                     purpose \in AskedPurposes : AdmitWorkflowAttempt(r, l, g, c, purpose)
    BY <1>4 DEF LeaseStep, ChangeWorkflowLease
  <1>5. ASSUME NEW r \in Requests, DispatchStep(r)
        PROVE  UNCHANGED tasks
    BY <1>5 DEF DispatchStep, ClaimDispatch, FinishDispatch, CancelDispatch, MoveDispatch
  <1>6. ASSUME NEW l \in Leases, RecoverLease(l)
        PROVE  UNCHANGED tasks
    BY <1>6 DEF RecoverLease
  <1>7. RecoverDispatches \/ Ready \/ Crash \/ UNCHANGED vars => UNCHANGED tasks
    BY DEF RecoverDispatches, Ready, Crash, vars
  <1> QED
    BY ZenonT(60), <1>1, <1>2, <1>3, <1>4, <1>5, <1>6, <1>7 DEF Next

\* charge_turn counts the turn and touches neither contract nor candidate.
LEMMA ChargedTask ==
    ASSUME NEW task \in TaskRecord, NEW purpose
    PROVE  /\ Charged(task, purpose) \in TaskRecord
           /\ Charged(task, purpose).contract = task.contract
           /\ Charged(task, purpose).candidate = task.candidate
           /\ Charged(task, purpose).turns = task.turns + 1
           /\ Charged(task, purpose).repairs =
                  IF purpose = "repair" THEN task.repairs + 1 ELSE task.repairs
           /\ Charged(task, purpose).progress \in {task.progress, "running"}
           /\ Mode = "compare" /\ task.progress = "candidate_collected" =>
                  Charged(task, purpose).progress = "candidate_collected"
  <1> DEFINE kept     == purpose = "answer" \/ (Mode = "compare" /\ task.progress = "candidate_collected")
             progress == IF kept THEN task.progress ELSE "running"
             repairs  == IF purpose = "repair" THEN task.repairs + 1 ELSE task.repairs
  <1>2. Charged(task, purpose) =
            [task EXCEPT !.turns = task.turns + 1, !.repairs = repairs, !.progress = progress]
    BY DEF Charged
  <1>3. progress \in Progresses /\ repairs \in Nat /\ task.turns + 1 \in Nat
    BY DEF TaskRecord, Progresses
  <1>4. /\ progress \in {task.progress, "running"}
        /\ Mode = "compare" /\ task.progress = "candidate_collected" =>
               progress = "candidate_collected"
    OBVIOUS
  <1>5. repairs = IF purpose = "repair" THEN task.repairs + 1 ELSE task.repairs
    OBVIOUS
  <1> HIDE DEF progress, repairs, kept
  <1>6. /\ Charged(task, purpose) \in TaskRecord
        /\ Charged(task, purpose).repairs = repairs
    BY <1>2, <1>3 DEF TaskRecord
  <1> QED
    BY <1>2, <1>3, <1>4, <1>5, <1>6 DEF TaskRecord

\* A task written back into the table.
LEMMA TaskWritten ==
    ASSUME TaskTables, NEW w \in Workflows, NEW t \in Tasks, NEW task \in TaskRecord,
           tasks' = [tasks EXCEPT ![w] = [@ EXCEPT ![t] = task]]
    PROVE  TaskTables'
  BY DEF TaskTables

\* Tasks stay in their types.
LEMMA TasksTyped ==
    ASSUME AcceptanceInv, [Next]_vars
    PROVE  TaskTables'
  <1>1. LeaseTables /\ TaskTables
    BY TablesOf
  <1>2. ASSUME NEW w \in Workflows, NEW t \in Tasks
        PROVE  tasks[w][t] \in TaskRecord
    BY <1>1 DEF TaskTables
  <1>3. ASSUME NEW w \in Workflows, NEW t \in Tasks, AddContractGeneration(w, t)
        PROVE  TaskTables'
    <2> DEFINE task == [tasks[w][t] EXCEPT !.contract = @ + 1, !.progress = "pending",
                                           !.candidate = None]
    <2>1. tasks' = [tasks EXCEPT ![w] = [@ EXCEPT ![t] = task]]
      BY <1>3 DEF AddContractGeneration
    <2>2. tasks[w][t] \in TaskRecord
      BY <1>2
    <2>3. tasks[w][t].contract + 1 \in Nat /\ "pending" \in Progresses
      BY <2>2 DEF TaskRecord, Progresses
    <2>4. task \in TaskRecord
      BY <2>2, <2>3 DEF TaskRecord
    <2> HIDE DEF task
    <2> QED
      BY <1>1, <2>1, <2>4, TaskWritten
  <1>4. ASSUME NEW r \in Requests, NEW l \in Leases, NEW g \in Generations,
               NEW c \in 1..MaxContracts, NEW purpose \in AskedPurposes,
               AdmitWorkflowAttempt(r, l, g, c, purpose)
        PROVE  TaskTables'
    <2>1. leases[l].workflow \in Workflows /\ leases[l].task \in Tasks
      BY <1>1, <1>4, LeaseFields DEF AdmitWorkflowAttempt, LeaseRecord
    <2>2. PICK w \in Workflows, t \in Tasks : w = leases[l].workflow /\ t = leases[l].task
      BY <2>1
    <2>3. tasks' = [tasks EXCEPT ![w][t] = IF purpose = "review" THEN @ ELSE Charged(@, purpose)]
      BY <1>4, <2>2 DEF AdmitWorkflowAttempt
    <2>4. Charged(tasks[w][t], purpose) \in TaskRecord
      BY <1>2, ChargedTask
    <2> QED
      BY <1>1, <2>3, <2>4 DEF TaskTables
  <1>5. ASSUME NEW w \in Workflows, NEW l \in Leases, NEW g \in Generations, NEW r \in Requests,
               NEW d \in Digests, NEW verdict \in {"admitted", "refused"},
               RecordCandidate(w, l, g, r, d, verdict)
        PROVE  TaskTables'
    <2>1. leases[l].task \in Tasks
      BY <1>1, <1>5, LeaseFields DEF RecordCandidate, LeaseRecord
    <2>2. PICK t \in Tasks : t = leases[l].task
      BY <2>1
    <2>3. tasks' = [tasks EXCEPT ![w][t].progress = Collected(w, t, verdict)]
      BY <1>5, <2>2 DEF RecordCandidate
    <2>4. Collected(w, t, verdict) \in Progresses
      BY <1>2 DEF Collected, TaskRecord, Progresses
    <2> DEFINE task == [tasks[w][t] EXCEPT !.progress = Collected(w, t, verdict)]
    <2>5. tasks' = [tasks EXCEPT ![w] = [@ EXCEPT ![t] = task]]
      BY <2>3
    <2>6. task \in TaskRecord
      BY <1>2, <2>4 DEF TaskRecord
    <2> HIDE DEF task
    <2> QED
      BY <1>1, <2>5, <2>6, TaskWritten
  <1>6. ASSUME NEW w \in Workflows, NEW t \in Tasks, NEW d \in Digests,
               AcceptWorkflowCandidate(w, t, d)
        PROVE  TaskTables'
    BY SMTT(30), <1>1, <1>6 DEF AcceptWorkflowCandidate, TaskTables, TaskRecord, Progresses
  <1>7. CASE UNCHANGED tasks
    BY <1>1, <1>7 DEF TaskTables
  <1> QED
    BY <1>3, <1>4, <1>5, <1>6, <1>7, TaskActions

\* An attempt is admitted under a lease of its own task and workflow, and
\* neither is given to another.
LEMMA PlacedStep ==
    ASSUME AcceptanceInv, [Next]_vars
    PROVE  AttemptsPlaced'
  <1>1. LeaseInv /\ LeaseTables /\ AttemptsPlaced
    BY TablesOf
  <1>2. /\ \A r \in Requests : attempts[r].phase # "absent" => AttemptKept(r)
        /\ \A l \in Leases : leases[l].state # "absent" => LeaseKept(l)
    BY <1>1, RowsKept
  <1>3. ASSUME NEW r \in Requests, attempts[r].phase # "absent"
        PROVE  /\ attempts'[r].lease \in Leases
               /\ leases'[attempts'[r].lease].state # "absent"
               /\ leases'[attempts'[r].lease].workflow = attempts'[r].workflow
               /\ leases'[attempts'[r].lease].task = attempts'[r].task
    <2>1. attempts[r].lease \in Leases
      BY <1>1, <1>3, AttemptFields DEF AttemptRecord
    <2> QED
      BY <1>1, <1>2, <1>3, <2>1 DEF AttemptKept, LeaseKept, AttemptsPlaced
  <1>4. NothingMoves \/ PhaseMoves \/ LeaseAcquired \/ LeaseMoves \/ AttemptAdmitted \/ RowsMove
    BY <1>1, EveryShape, WorkflowAssumption DEF LeaseInv
  <1>5. ASSUME NEW r \in Requests, attempts[r].phase = "absent", attempts'[r].phase # "absent"
        PROVE  /\ leases'[attempts'[r].lease].state # "absent"
               /\ leases'[attempts'[r].lease].workflow = attempts'[r].workflow
               /\ leases'[attempts'[r].lease].task = attempts'[r].task
    <2>1. AttemptAdmitted
      <3>1. ~Unsettled(r)
        BY <1>5, NotAbsent DEF Unsettled, HoldsReservation
      <3> QED
        BY <1>4, <1>5, <3>1 DEF NothingMoves, PhaseMoves, LeaseAcquired, AcquireWorkflowLease,
                                LeaseMoves, RowsMove
    <2>2. PICK q \in Requests, l \in Leases, g \in Nat, c \in Nat, purpose \in Purposes :
              AdmitWorkflowAttempt(q, l, g, c, purpose)
      BY <2>1 DEF AttemptAdmitted
    <2>3. /\ leases[l].state = "active" /\ UNCHANGED leases
          /\ attempts' = [attempts EXCEPT ![q] =
                [phase |-> "admitted", workflow |-> leases[l].workflow, task |-> leases[l].task,
                 lease |-> l, generation |-> g, contract |-> c, purpose |-> purpose]]
      BY <2>2 DEF AdmitWorkflowAttempt
    <2> QED
      BY <1>1, <1>5, <2>3 DEF LeaseTables
  <1> QED
    BY <1>3, <1>5 DEF AttemptsPlaced

\* The receipts of a table of attempts stand in a later one.
LEMMA StillStands ==
    ASSUME NEW a, NEW b, NEW w, NEW c,
           \A r \in Requests : a[r].phase = "completed" =>
               /\ b[r].phase = "completed" /\ b[r].workflow = a[r].workflow
               /\ b[r].task = a[r].task /\ b[r].purpose = a[r].purpose
               /\ b[r].contract = a[r].contract
    PROVE  /\ CandidateStands(w, c, a) => CandidateStands(w, c, b)
           /\ ReviewStands(w, c, a) => ReviewStands(w, c, b)
  BY DEF CandidateStands, ReviewStands

\* Stored receipts go on standing on their turns.
LEMMA StandsStep ==
    ASSUME AcceptanceInv, [Next]_vars
    PROVE  CandidatesStand' /\ ReviewsStand'
  <1>1. LeaseInv /\ TaskTables /\ ReceiptTables /\ AttemptsPlaced
    BY TablesOf
  <1>2. ReceiptMoves
    BY <1>1, ReceiptSteps
  <1>3. \A r \in Requests : attempts[r].phase = "completed" =>
            /\ attempts'[r].phase = "completed" /\ attempts'[r].workflow = attempts[r].workflow
            /\ attempts'[r].task = attempts[r].task /\ attempts'[r].purpose = attempts[r].purpose
            /\ attempts'[r].contract = attempts[r].contract
    BY <1>1, RowsKept DEF AttemptKept
  <1>4. ASSUME NEW w \in Workflows, NEW i \in DOMAIN receipts'[w]["candidate"]
        PROVE  CandidateStands(w, receipts'[w]["candidate"][i], attempts')
    <2>1. CandidateStands(w, receipts'[w]["candidate"][i], attempts)
      BY <1>1, <1>2, ReceiptsGrow DEF AcceptanceInv, CandidatesStand, ReceiptKinds
    <2> QED
      BY <1>3, <2>1, StillStands
  <1>5. ASSUME NEW w \in Workflows, NEW i \in DOMAIN receipts'[w]["review"]
        PROVE  ReviewStands(w, receipts'[w]["review"][i], attempts')
    <2>1. ReviewStands(w, receipts'[w]["review"][i], attempts)
      BY <1>1, <1>2, ReceiptsGrow DEF AcceptanceInv, ReviewsStand, ReceiptKinds
    <2> QED
      BY <1>3, <2>1, StillStands
  <1> QED
    BY <1>4, <1>5 DEF CandidatesStand, ReviewsStand

\* Admitted candidates stay.
LEMMA AdmittedGrows ==
    ASSUME ReceiptTables, ReceiptMoves, NEW w \in Workflows, NEW c \in Admitted(w)
    PROVE  c \in Admitted(w)'
  <1>1. PICK i \in DOMAIN receipts[w]["candidate"] :
            /\ receipts[w]["candidate"][i].verdict = "admitted"
            /\ c = receipts[w]["candidate"][i]
    BY DEF Admitted
  <1>2. i \in DOMAIN receipts'[w]["candidate"]
        /\ receipts'[w]["candidate"][i] = receipts[w]["candidate"][i]
    BY ReceiptsGrow DEF ReceiptKinds
  <1> QED
    BY <1>1, <1>2 DEF Admitted

\* A task becomes collected only with an admitted candidate.
LEMMA CollectedStep ==
    ASSUME AcceptanceInv, [Next]_vars
    PROVE  CollectedHasCandidate'
  <1>1. LeaseInv /\ TaskTables /\ ReceiptTables /\ AttemptsPlaced /\ CollectedHasCandidate
    BY TablesOf DEF AcceptanceInv
  <1>2. ReceiptMoves
    BY <1>1, ReceiptSteps
  <1>3. ASSUME NEW w \in Workflows, NEW t \in Tasks,
               tasks'[w][t].progress = "candidate_collected"
        PROVE  \E c \in Admitted(w)' : c.task = t
    <2>1. CASE \E c \in Admitted(w) : c.task = t
      BY <1>1, <1>2, <2>1, AdmittedGrows
    <2>2. tasks[w][t] \in TaskRecord
      BY <1>1 DEF TaskTables
    <2>3. CASE tasks[w][t].progress = "candidate_collected"
      BY <1>1, <2>1, <2>3 DEF CollectedHasCandidate
    <2>4. ASSUME NEW purpose \in Purposes, tasks'[w][t] = Charged(tasks[w][t], purpose)
          PROVE  tasks[w][t].progress = "candidate_collected"
      <3>1. Charged(tasks[w][t], purpose).progress \in {tasks[w][t].progress, "running"}
        BY <2>2, ChargedTask
      <3> QED
        BY <1>3, <2>4, <3>1
    <2>5. ASSUME NEW l \in Leases, NEW g \in Nat, NEW r \in Requests, NEW d \in Digests,
                 NEW verdict \in {"admitted", "refused"},
                 leases[l].task = t, RecordCandidate(w, l, g, r, d, verdict),
                 tasks'[w][t] = [tasks[w][t] EXCEPT !.progress = Collected(w, t, verdict)]
          PROVE  \E c \in Admitted(w)' : c.task = t
      <3>1. CASE verdict = "admitted"
        <4>1. PICK x \in ReceiptRecord :
                  /\ receipts' = [receipts EXCEPT ![w]["candidate"] = Append(@, x)]
                  /\ x.task = leases[l].task /\ x.verdict = verdict
          BY SMTT(30), <1>1, <2>5, CandidateRecorded
        <4>2. receipts[w]["candidate"] \in Seq(ReceiptRecord)
          BY <1>1 DEF ReceiptTables, ReceiptKinds
        <4>3. receipts'[w]["candidate"] = Append(receipts[w]["candidate"], x)
          BY <1>1, <4>1 DEF ReceiptTables, ReceiptKinds
        <4>4. \E i \in DOMAIN receipts'[w]["candidate"] : receipts'[w]["candidate"][i] = x
          BY SMTT(30), <4>2, <4>3
        <4>5. x \in Admitted(w)'
          BY <3>1, <4>1, <4>4 DEF Admitted
        <4> QED
          BY <2>5, <4>1, <4>5
      <3>2. CASE verdict # "admitted"
        <4>1. tasks'[w][t].progress = Collected(w, t, verdict)
          BY <2>2, <2>5 DEF TaskRecord
        <4>2. \E c \in Admitted(w) : c.task = t
          BY <1>3, <3>2, <4>1 DEF Collected
        <4> QED
          BY <2>1, <4>2
      <3> QED
        BY <3>1, <3>2
    <2>6. CASE tasks'[w][t] = [tasks[w][t] EXCEPT !.contract = @ + 1, !.progress = "pending",
                                                  !.candidate = None]
      BY <1>3, <2>2, <2>6 DEF TaskRecord
    <2>7. ASSUME NEW d \in Digests,
                 tasks'[w][t] = [tasks[w][t] EXCEPT !.progress = "accepted", !.candidate = d]
          PROVE  FALSE
      BY <1>3, <2>2, <2>7 DEF TaskRecord
    <2>8. CASE tasks'[w][t] = tasks[w][t]
      BY <1>3, <2>3, <2>8
    <2>9. TaskMoves(w, t)
      BY <1>1, TaskSteps
    <2>10. CASE \E l \in Leases, g \in Nat, r \in Requests, d \in Digests,
                  verdict \in {"admitted", "refused"} :
                /\ leases[l].task = t /\ RecordCandidate(w, l, g, r, d, verdict)
                /\ leases[l].state = "active" /\ leases[l].workflow = w
                /\ tasks'[w][t] = [tasks[w][t] EXCEPT !.progress = Collected(w, t, verdict)]
      BY <2>5, <2>10
    <2> QED
      BY <1>1, <2>3, <2>4, <2>6, <2>7, <2>8, <2>9, <2>10, TaskEffects
  <1> QED
    BY <1>3 DEF CollectedHasCandidate

\* The gate of a candidate finds the turns it was earned by.
LEMMA GateEarns ==
    ASSUME AcceptanceInv, NEW w \in Workflows, NEW t \in Tasks, NEW d, GateCandidate(w, t, d)
    PROVE  \E r, q \in Requests :
               /\ \A p \in {r, q} : /\ attempts[p].phase = "completed"
                                    /\ attempts[p].workflow = w /\ attempts[p].task = t
                                    /\ attempts[p].contract = tasks[w][t].contract
               /\ attempts[r].purpose # "review" /\ attempts[q].purpose = "review"
               /\ SlotOf(r) # SlotOf(q)
               /\ \E i \in DOMAIN receipts[w]["review"] :
                      /\ receipts[w]["review"][i].request = q
                      /\ receipts[w]["review"][i].verdict = "pass"
                      /\ receipts[w]["review"][i].subject = {d}
  <1> DEFINE cs == receipts[w]["candidate"]
             vs == receipts[w]["review"]
  <1>1. PICK i \in DOMAIN cs :
            /\ cs[i].verdict = "admitted" /\ cs[i].task = t
            /\ cs[i].contracts = ContractsOf(w, {t})
            /\ \E j \in DOMAIN vs :
                  /\ vs[j].subject = {d} /\ vs[j].verdict = "pass" /\ vs[j].task = t
                  /\ vs[j].contracts = cs[i].contracts
                  /\ SlotOf(vs[j].request) # SlotOf(cs[i].request)
    BY DEF GateCandidate, LatestIs
  <1>2. PICK j \in DOMAIN vs :
            /\ vs[j].subject = {d} /\ vs[j].verdict = "pass" /\ vs[j].task = t
            /\ vs[j].contracts = cs[i].contracts
            /\ SlotOf(vs[j].request) # SlotOf(cs[i].request)
    BY <1>1
  <1>3. CandidateStands(w, cs[i], attempts) /\ ReviewStands(w, vs[j], attempts)
    BY DEF AcceptanceInv, CandidatesStand, ReviewsStand
  <1>4. ContractsOf(w, {t}) = {Contract(t, tasks[w][t].contract)}
    BY DEF ContractsOf
  <1>5. ASSUME NEW a, NEW b, {Contract(t, a)} = {Contract(t, b)}
        PROVE  a = b
    <2>1. Contract(t, a) = Contract(t, b)
      BY <1>5
    <2> QED
      BY <2>1 DEF Contract
  <1>6. /\ attempts[cs[i].request].contract = tasks[w][t].contract
        /\ attempts[vs[j].request].contract = tasks[w][t].contract
    BY <1>1, <1>2, <1>3, <1>4, <1>5 DEF CandidateStands, ReviewStands
  <1> QED
    BY <1>1, <1>2, <1>3, <1>6 DEF CandidateStands, ReviewStands

\* The gate of a candidate finds a verification of the task's contract.
LEMMA GateVerifies ==
    ASSUME NEW w, NEW t, NEW d, GateCandidate(w, t, d)
    PROVE  Verified(w, t, {d}, ContractsOf(w, {t}))
  BY DEF GateCandidate, LatestIs, Verified

\* A verification stays on record.
LEMMA VerifiedStays ==
    ASSUME AcceptanceInv, [Next]_vars, NEW w \in Workflows, NEW task, NEW subject,
           NEW contracts, Verified(w, task, subject, contracts)
    PROVE  \E i \in DOMAIN receipts'[w]["verification"] :
               /\ receipts'[w]["verification"][i].task = task
               /\ receipts'[w]["verification"][i].subject = subject
               /\ receipts'[w]["verification"][i].contracts = contracts
               /\ receipts'[w]["verification"][i].verdict = "passed"
  <1>1. \A i \in DOMAIN receipts[w]["verification"] :
            /\ i \in DOMAIN receipts'[w]["verification"]
            /\ receipts'[w]["verification"][i] = receipts[w]["verification"][i]
    BY TablesOf, ReceiptSteps, ReceiptsGrow DEF ReceiptKinds
  <1> QED
    BY <1>1 DEF Verified

\* What was earned stays earned while the task keeps contract and candidate.
LEMMA EarnedStays ==
    ASSUME AcceptanceInv, [Next]_vars, NEW w \in Workflows, NEW t \in Tasks, Earned(w, t),
           tasks'[w][t].contract = tasks[w][t].contract,
           tasks'[w][t].candidate = tasks[w][t].candidate
    PROVE  Earned(w, t)'
  <1>1. LeaseInv /\ LeaseTables /\ TaskTables /\ ReceiptTables /\ AttemptsPlaced
    BY TablesOf
  <1>2. PICK r \in Requests, q \in Requests :
            /\ \A p \in {r, q} : /\ attempts[p].phase = "completed"
                                 /\ attempts[p].workflow = w /\ attempts[p].task = t
                                 /\ attempts[p].contract = tasks[w][t].contract
            /\ attempts[r].purpose # "review" /\ attempts[q].purpose = "review"
            /\ SlotOf(r) # SlotOf(q)
            /\ \E i \in DOMAIN receipts[w]["review"] :
                   /\ receipts[w]["review"][i].request = q
                   /\ receipts[w]["review"][i].verdict = "pass"
                   /\ receipts[w]["review"][i].subject = {tasks[w][t].candidate}
    BY DEF Earned, Worked
  <1>3. /\ \A p \in Requests : attempts[p].phase # "absent" => AttemptKept(p)
        /\ \A l \in Leases : leases[l].state # "absent" => LeaseKept(l)
    BY <1>1, RowsKept
  <1>4. ASSUME NEW p \in Requests, attempts[p].phase = "completed"
        PROVE  leases'[attempts'[p].lease].slot = leases[attempts[p].lease].slot
    <2>1. attempts[p].lease \in Leases
      BY <1>1, <1>4, AttemptFields DEF AttemptRecord
    <2> QED
      BY <1>1, <1>3, <1>4, <2>1 DEF AttemptsPlaced, AttemptKept, LeaseKept
  <1>5. SlotOf(r)' # SlotOf(q)'
    BY <1>2, <1>4 DEF SlotOf
  <1>6. \A p \in {r, q} : /\ attempts'[p].phase = "completed"
                          /\ attempts'[p].workflow = w /\ attempts'[p].task = t
                          /\ attempts'[p].contract = tasks'[w][t].contract
                          /\ attempts'[p].purpose = attempts[p].purpose
    BY <1>2, <1>3 DEF AttemptKept
  <1>7. \E i \in DOMAIN receipts'[w]["review"] :
            /\ receipts'[w]["review"][i].request = q
            /\ receipts'[w]["review"][i].verdict = "pass"
            /\ receipts'[w]["review"][i].subject = {tasks'[w][t].candidate}
    <2>1. ReceiptMoves
      BY <1>1, ReceiptSteps
    <2>2. \A i \in DOMAIN receipts[w]["review"] :
              /\ i \in DOMAIN receipts'[w]["review"]
              /\ receipts'[w]["review"][i] = receipts[w]["review"][i]
      BY <1>1, <2>1, ReceiptsGrow DEF ReceiptKinds
    <2> QED
      BY <1>2, <2>2
  <1>8. Worked(w, t)'
    BY <1>2, <1>5, <1>6, <1>7 DEF Worked
  <1>9. ContractsOf(w, {t})' = ContractsOf(w, {t})
    BY DEF ContractsOf
  <1>10. Verified(w, t, {tasks[w][t].candidate}, ContractsOf(w, {t}))
    BY DEF Earned
  <1>11. {tasks'[w][t].candidate} = {tasks[w][t].candidate}
    OBVIOUS
  <1>12. \E i \in DOMAIN receipts'[w]["verification"] :
             /\ receipts'[w]["verification"][i].task = t
             /\ receipts'[w]["verification"][i].subject = {tasks[w][t].candidate}
             /\ receipts'[w]["verification"][i].contracts = ContractsOf(w, {t})
             /\ receipts'[w]["verification"][i].verdict = "passed"
    BY <1>10, VerifiedStays
  <1>13. Verified(w, t, {tasks[w][t].candidate}, ContractsOf(w, {t}))'
    BY <1>9, <1>11, <1>12 DEF Verified
  <1> QED
    BY <1>8, <1>13 DEF Earned

\* A candidate is accepted by its gate, and loses the acceptance with its
\* contract.
LEMMA EarnedStep ==
    ASSUME AcceptanceInv, [Next]_vars
    PROVE  CandidateEarned'
  <1>1. LeaseInv /\ TaskTables /\ CandidateEarned
    BY TablesOf DEF AcceptanceInv
  <1>2. ASSUME NEW w \in Workflows, NEW t \in Tasks, tasks'[w][t].candidate # None
        PROVE  Earned(w, t)'
    <2>1. tasks[w][t] \in TaskRecord
      BY <1>1 DEF TaskTables
    <2>2. TaskMoves(w, t)
      BY <1>1, TaskSteps
    <2>3. CASE /\ tasks'[w][t].contract = tasks[w][t].contract
               /\ tasks'[w][t].candidate = tasks[w][t].candidate
      BY <1>1, <1>2, <2>3, EarnedStays DEF CandidateEarned
    <2>4. ASSUME NEW purpose \in Purposes, tasks'[w][t] = Charged(tasks[w][t], purpose)
          PROVE  /\ tasks'[w][t].contract = tasks[w][t].contract
                 /\ tasks'[w][t].candidate = tasks[w][t].candidate
      BY <2>1, <2>4, ChargedTask
    <2>5. ASSUME NEW p, tasks'[w][t] = [tasks[w][t] EXCEPT !.progress = p]
          PROVE  /\ tasks'[w][t].contract = tasks[w][t].contract
                 /\ tasks'[w][t].candidate = tasks[w][t].candidate
      BY <2>1, <2>5 DEF TaskRecord
    <2>6. CASE tasks'[w][t] = [tasks[w][t] EXCEPT !.contract = @ + 1, !.progress = "pending",
                                                  !.candidate = None]
      BY <1>2, <2>1, <2>6 DEF TaskRecord
    <2>7. ASSUME NEW d \in Digests, AcceptWorkflowCandidate(w, t, d),
                 tasks'[w][t] = [tasks[w][t] EXCEPT !.progress = "accepted", !.candidate = d]
          PROVE  Earned(w, t)'
      <3>1. /\ tasks'[w][t].candidate = d
            /\ tasks'[w][t].contract = tasks[w][t].contract
        BY <2>1, <2>7 DEF TaskRecord
      <3>2. GateCandidate(w, t, d) /\ UNCHANGED <<leases, attempts, receipts>>
        BY <2>7 DEF AcceptWorkflowCandidate
      <3>3. Worked(w, t)'
        BY <3>1, <3>2, GateEarns DEF Worked, SlotOf
      <3>4. Verified(w, t, {d}, ContractsOf(w, {t}))
        BY <3>2, GateVerifies
      <3>5. Verified(w, t, {tasks[w][t].candidate}, ContractsOf(w, {t}))'
        BY <3>1, <3>2, <3>4 DEF Verified, ContractsOf
      <3> QED
        BY <3>3, <3>5 DEF Earned
    <2>8. CASE tasks'[w][t] = tasks[w][t]
      BY <2>3, <2>8
    <2>9. CASE \E purpose \in Purposes : tasks'[w][t] = Charged(tasks[w][t], purpose)
      BY <2>3, <2>4, <2>9
    <2>10. CASE \E l \in Leases, g \in Nat, r \in Requests, d \in Digests,
                  verdict \in {"admitted", "refused"} :
                /\ leases[l].task = t /\ RecordCandidate(w, l, g, r, d, verdict)
                /\ leases[l].state = "active" /\ leases[l].workflow = w
                /\ tasks'[w][t] = [tasks[w][t] EXCEPT !.progress = Collected(w, t, verdict)]
      BY <2>3, <2>5, <2>10
    <2>11. CASE \E d \in Digests :
                /\ AcceptWorkflowCandidate(w, t, d)
                /\ tasks'[w][t] = [tasks[w][t] EXCEPT !.progress = "accepted", !.candidate = d]
      BY ZenonT(30), <2>7, <2>11
    <2> QED
      BY ZenonT(60), <1>1, <2>2, <2>6, <2>8, <2>9, <2>10, <2>11, TaskEffects
  <1> QED
    BY <1>2 DEF CandidateEarned

\* The integration gate finds the integration of what counts and the
\* verification of its tree.
LEMMA GateIntegrates ==
    ASSUME NEW w, IntegrationGate(w)
    PROVE  Integrated(w, Counted(w))
  <1> DEFINE is == receipts[w]["integration"]
             subject == CandidatesOf(w, Counted(w))
             contracts == ContractsOf(w, Counted(w))
  <1>1. PICK i \in DOMAIN is :
            /\ is[i].subject = subject /\ is[i].verdict = "clean"
            /\ is[i].contracts = contracts
            /\ LatestIs(receipts[w]["verification"],
                   LAMBDA v : v.subject = is[i].subject /\ v.task = None,
                   LAMBDA v : v.verdict = "passed" /\ v.contracts = is[i].contracts)
    BY DEF IntegrationGate, LatestIs
  <1>2. Verified(w, None, subject, contracts)
    BY <1>1 DEF Verified, LatestIs
  <1> QED
    BY <1>1, <1>2 DEF Integrated

\* A task of an accepted workflow keeps its contract and its candidate.
LEMMA AcceptedTasksKept ==
    ASSUME AcceptanceInv, [Next]_vars, NEW w \in Workflows, workflows[w] = "accepted",
           NEW t \in Tasks
    PROVE  /\ tasks'[w][t].contract = tasks[w][t].contract
           /\ tasks'[w][t].candidate = tasks[w][t].candidate
  <1>1. LeaseInv /\ TaskTables /\ tasks[w][t] \in TaskRecord
    BY TablesOf DEF TaskTables
  <1>2. TaskMoves(w, t)
    BY <1>1, TaskSteps
  <1>3. ~AdmitsWork(workflows[w]) /\ EndedPhase(workflows[w])
    BY DEF AdmitsWork, EndedPhase
  <1>4. ASSUME NEW p, tasks'[w][t] = [tasks[w][t] EXCEPT !.progress = p]
        PROVE  /\ tasks'[w][t].contract = tasks[w][t].contract
               /\ tasks'[w][t].candidate = tasks[w][t].candidate
    BY <1>1, <1>4 DEF TaskRecord
  <1>5. CASE \E l \in Leases, g \in Nat, r \in Requests, d \in Digests,
                  verdict \in {"admitted", "refused"} :
                /\ leases[l].task = t /\ RecordCandidate(w, l, g, r, d, verdict)
                /\ leases[l].state = "active" /\ leases[l].workflow = w
                /\ tasks'[w][t] = [tasks[w][t] EXCEPT !.progress = Collected(w, t, verdict)]
    BY <1>4, <1>5
  <1>6. CASE tasks'[w][t] = tasks[w][t]
    BY <1>6
  <1> QED
    BY ZenonT(60), <1>1, <1>2, <1>3, <1>5, <1>6, TaskEffects

\* accept_workflow is the only way to accepted, and nothing that it stands on
\* is lost after it.
LEMMA AcceptedStep ==
    ASSUME AcceptanceInv, [Next]_vars, CandidateEarned'
    PROVE  AcceptedIsEarned'
  <1>1. LeaseInv /\ TaskTables /\ ReceiptTables /\ AttemptsPlaced
    BY TablesOf DEF AcceptanceInv
  <1>2. ReceiptMoves
    BY <1>1, ReceiptSteps
  <1>3. ASSUME NEW w \in Workflows, workflows'[w] = "accepted"
        PROVE  workflows[w] = "accepted" \/ AcceptWorkflow(w)
    <2>1. ~PrepareWorkflow(w)
      BY <1>1, <1>3 DEF PrepareWorkflow, LeaseInv, LeaseTables
    <2>2. ASSUME NEW phase \in AskedPhases
          PROVE  ~TransitionWorkflow(w, phase)
      BY <1>1, <1>3 DEF TransitionWorkflow, LeaseInv, LeaseTables
    <2> QED
      BY <1>1, <1>3, <2>1, <2>2, PhaseSteps
  <1>4. ASSUME NEW w \in Workflows, workflows[w] = "accepted"
        PROVE  \E ts \in SUBSET (Standing(w)') :
                   /\ ts # {} /\ (Mode = "cooperate" => ts = Tasks)
                   /\ \A t \in ts : Earned(w, t)'
                   /\ Integrated(w, ts)'
    <2>1. PICK ts \in SUBSET Standing(w) :
              /\ ts # {} /\ (Mode = "cooperate" => ts = Tasks)
              /\ \A t \in ts : Earned(w, t)
              /\ Integrated(w, ts)
      BY <1>4 DEF AcceptanceInv, AcceptedIsEarned
    <2>2. Standing(w) \subseteq Tasks
      BY DEF Standing, AcceptedTasks
    <2>3. ASSUME NEW t \in Tasks
          PROVE  /\ tasks'[w][t].contract = tasks[w][t].contract
                 /\ tasks'[w][t].candidate = tasks[w][t].candidate
      BY <1>4, AcceptedTasksKept
    <2>4. ASSUME NEW kind \in ReceiptKinds, NEW i \in DOMAIN receipts[w][kind]
          PROVE  /\ i \in DOMAIN receipts'[w][kind]
                 /\ receipts'[w][kind][i] = receipts[w][kind][i]
      BY <1>1, <1>2, ReceiptsGrow
    <2>5. ASSUME NEW t \in Standing(w)
          PROVE  t \in Standing(w)'
      <3>1. t \in Tasks /\ tasks'[w][t].candidate # None
        BY <2>2, <2>3 DEF Standing, AcceptedTasks
      <3>2. CASE Mode = "cooperate"
        BY <3>1, <3>2 DEF Standing, AcceptedTasks
      <3>3. CASE Mode # "cooperate"
        <4>1. PICK i \in DOMAIN receipts[w]["selection"] :
                  receipts[w]["selection"][i].subject = {tasks[w][t].candidate}
          BY <3>3 DEF Standing
        <4>2. "selection" \in ReceiptKinds
          BY DEF ReceiptKinds
        <4> QED
          BY <2>3, <2>4, <3>1, <4>1, <4>2 DEF Standing, AcceptedTasks
      <3> QED
        BY <3>2, <3>3
    <2>6. ASSUME NEW t \in ts
          PROVE  Earned(w, t)'
      BY <2>1, <2>2, <2>3, EarnedStays
    <2>7. /\ CandidatesOf(w, ts)' = CandidatesOf(w, ts)
          /\ ContractsOf(w, ts)' = ContractsOf(w, ts)
      BY <2>2, <2>3 DEF CandidatesOf, ContractsOf
    <2>8. \E i \in DOMAIN receipts'[w]["integration"] :
              /\ receipts'[w]["integration"][i].subject = CandidatesOf(w, ts)
              /\ receipts'[w]["integration"][i].contracts = ContractsOf(w, ts)
              /\ receipts'[w]["integration"][i].verdict = "clean"
      <3>1. "integration" \in ReceiptKinds
        BY DEF ReceiptKinds
      <3> QED
        BY <2>1, <2>4, <3>1 DEF Integrated
    <2>9. Verified(w, None, CandidatesOf(w, ts), ContractsOf(w, ts))
      BY <2>1 DEF Integrated
    <2>10. \E i \in DOMAIN receipts'[w]["verification"] :
               /\ receipts'[w]["verification"][i].task = None
               /\ receipts'[w]["verification"][i].subject = CandidatesOf(w, ts)
               /\ receipts'[w]["verification"][i].contracts = ContractsOf(w, ts)
               /\ receipts'[w]["verification"][i].verdict = "passed"
      BY <2>9, VerifiedStays
    <2>11. Integrated(w, ts)'
      BY <2>7, <2>8, <2>10 DEF Integrated, Verified
    <2> QED
      BY <2>1, <2>5, <2>6, <2>11
  <1>5. ASSUME NEW w \in Workflows, AcceptWorkflow(w)
        PROVE  \E ts \in SUBSET (Standing(w)') :
                   /\ ts # {} /\ (Mode = "cooperate" => ts = Tasks)
                   /\ \A t \in ts : Earned(w, t)'
                   /\ Integrated(w, ts)'
    <2>1. /\ Counted(w) # {} /\ \A t \in Counted(w) : tasks[w][t].candidate # None
          /\ IntegrationGate(w) /\ UNCHANGED <<tasks, receipts>>
      BY <1>5 DEF AcceptWorkflow
    <2>2. Counted(w) \subseteq Tasks /\ (Mode = "cooperate" => Counted(w) = Tasks)
      BY DEF Counted
    <2>3. Counted(w) \subseteq Standing(w)
      BY <2>1, <2>2 DEF Standing, AcceptedTasks, Counted, LatestIs
    <2>4. Standing(w)' = Standing(w)
      BY <2>1 DEF Standing, AcceptedTasks
    <2>5. \A t \in Counted(w) : Earned(w, t)'
      BY <2>1, <2>2 DEF CandidateEarned
    <2>6. Integrated(w, Counted(w))
      BY <2>1, GateIntegrates
    <2>7. ASSUME NEW ts, Integrated(w, ts)
          PROVE  Integrated(w, ts)'
      BY <2>1, <2>7 DEF Integrated, Verified, CandidatesOf, ContractsOf
    <2>8. PICK ts \in SUBSET Standing(w) : ts = Counted(w)
      BY <2>3
    <2> QED
      BY <2>1, <2>2, <2>4, <2>5, <2>6, <2>7, <2>8
  <1> QED
    BY <1>3, <1>4, <1>5 DEF AcceptedIsEarned

WorkerTurns(w, t) ==
    {r \in Requests : /\ attempts[r].phase # "absent"
                      /\ attempts[r].workflow = w /\ attempts[r].task = t
                      /\ attempts[r].purpose # "review"}

RepairTurns(w, t) == {r \in WorkerTurns(w, t) : attempts[r].purpose = "repair"}

Spent(w, t) == <<tasks[w][t].turns, tasks[w][t].repairs>>

\* A turn is charged in the transaction that admits it, and only there.
LEMMA ChargedStep ==
    ASSUME AcceptanceInv, [Next]_vars
    PROVE  TurnsCharged'
  <1>1. LeaseInv /\ LeaseTables /\ TaskTables /\ TurnsCharged
    BY TablesOf DEF AcceptanceInv
  <1>2. ASSUME NEW w \in Workflows, NEW t \in Tasks
        PROVE  /\ tasks'[w][t].turns <= MaxTurns
               /\ tasks'[w][t].turns = Cardinality(WorkerTurns(w, t)')
               /\ tasks'[w][t].repairs <= MaxRepairs
               /\ tasks'[w][t].repairs = Cardinality(RepairTurns(w, t)')
    <2>1. /\ tasks[w][t] \in TaskRecord /\ tasks[w][t].turns \in Nat
          /\ tasks[w][t].turns <= MaxTurns
          /\ tasks[w][t].turns = Cardinality(WorkerTurns(w, t))
          /\ tasks[w][t].repairs \in Nat /\ tasks[w][t].repairs <= MaxRepairs
          /\ tasks[w][t].repairs = Cardinality(RepairTurns(w, t))
      BY <1>1 DEF TaskTables, TaskRecord, TurnsCharged, WorkerTurns, RepairTurns
    <2>2. CASE ~AttemptAdmitted
      <3>1. NothingMoves \/ PhaseMoves \/ LeaseAcquired \/ LeaseMoves \/ RowsMove
        BY <1>1, <2>2, EveryShape, WorkflowAssumption DEF LeaseInv
      <3>2. WorkerTurns(w, t)' = WorkerTurns(w, t) /\ RepairTurns(w, t)' = RepairTurns(w, t)
        <4>1. CASE UNCHANGED attempts
          BY <4>1 DEF WorkerTurns, RepairTurns
        <4>2. CASE RowsMove
          <5>1. ASSUME NEW r \in Requests
                PROVE  (attempts'[r].phase = "absent") <=> (attempts[r].phase = "absent")
            BY <4>2, NotAbsent DEF RowsMove, Unsettled, HoldsReservation
          <5> QED
            BY <4>2, <5>1 DEF RowsMove, WorkerTurns, RepairTurns
        <4> QED
          BY <3>1, <4>1, <4>2 DEF NothingMoves, PhaseMoves, LeaseAcquired,
                                  AcquireWorkflowLease, LeaseMoves
      <3>3. Spent(w, t)' = Spent(w, t)
        <4>1. TaskMoves(w, t)
          BY <1>1, TaskSteps
        <4>2. ASSUME NEW p, tasks'[w][t] = [tasks[w][t] EXCEPT !.progress = p]
              PROVE  Spent(w, t)' = Spent(w, t)
          BY <2>1, <4>2 DEF TaskRecord, Spent
        <4>3. ASSUME NEW d, tasks'[w][t] = [tasks[w][t] EXCEPT !.progress = "accepted", !.candidate = d]
              PROVE  Spent(w, t)' = Spent(w, t)
          BY <2>1, <4>3 DEF TaskRecord, Spent
        <4>4. CASE tasks'[w][t] = [tasks[w][t] EXCEPT !.contract = @ + 1, !.progress = "pending",
                                                      !.candidate = None]
          BY <2>1, <4>4 DEF TaskRecord, Spent
        <4>5. CASE \E l \in Leases, g \in Nat, r \in Requests, d \in Digests,
                      verdict \in {"admitted", "refused"} :
                      /\ leases[l].task = t /\ RecordCandidate(w, l, g, r, d, verdict)
                      /\ leases[l].state = "active" /\ leases[l].workflow = w
                      /\ tasks'[w][t] = [tasks[w][t] EXCEPT !.progress = Collected(w, t, verdict)]
          BY <4>2, <4>5
        <4>6. CASE \E d \in Digests :
                    /\ AcceptWorkflowCandidate(w, t, d)
                    /\ tasks'[w][t] = [tasks[w][t] EXCEPT !.progress = "accepted", !.candidate = d]
          BY <4>3, <4>6
        <4>7. CASE tasks'[w][t] = tasks[w][t]
          BY <4>7 DEF Spent
        <4> QED
          BY ZenonT(60), <1>1, <2>2, <4>1, <4>4, <4>5, <4>6, <4>7, TaskEffects
      <3> QED
        BY <2>1, <3>2, <3>3 DEF Spent
    <2>3. CASE AttemptAdmitted
      <3>1. PICK r \in Requests, l \in Leases, g \in Nat, c \in Nat, purpose \in Purposes :
                AdmitWorkflowAttempt(r, l, g, c, purpose)
        BY <2>3 DEF AttemptAdmitted
      <3>2. /\ attempts[r].phase = "absent"
            /\ purpose # "review" => WithinBudget(tasks[leases[l].workflow][leases[l].task], purpose)
            /\ tasks' = [tasks EXCEPT ![leases[l].workflow][leases[l].task] =
                             IF purpose = "review" THEN @ ELSE Charged(@, purpose)]
            /\ attempts' = [attempts EXCEPT ![r] =
                   [phase |-> "admitted", workflow |-> leases[l].workflow, task |-> leases[l].task,
                    lease |-> l, generation |-> g, contract |-> c, purpose |-> purpose]]
        BY <3>1 DEF AdmitWorkflowAttempt
      <3>3. /\ \A q \in Requests : q # r => attempts'[q] = attempts[q]
            /\ attempts'[r].phase = "admitted" /\ attempts'[r].workflow = leases[l].workflow
            /\ attempts'[r].task = leases[l].task /\ attempts'[r].purpose = purpose
        BY <1>1, <3>2 DEF LeaseTables
      <3>4. r \notin WorkerTurns(w, t) /\ r \notin RepairTurns(w, t)
        BY <3>2 DEF WorkerTurns, RepairTurns
      <3>5. CASE leases[l].workflow = w /\ leases[l].task = t /\ purpose # "review"
        <4>1. WorkerTurns(w, t)' = WorkerTurns(w, t) \cup {r}
          BY <3>3, <3>5 DEF WorkerTurns
        <4>2. IsFiniteSet(WorkerTurns(w, t)) /\ IsFiniteSet(RepairTurns(w, t))
          BY WorkflowAssumption, FS_Subset DEF WorkerTurns, RepairTurns
        <4>3. Cardinality(WorkerTurns(w, t)') = Cardinality(WorkerTurns(w, t)) + 1
          BY <3>4, <4>1, <4>2, FS_AddElement
        <4>4. tasks'[w][t] = Charged(tasks[w][t], purpose)
          BY <1>1, <3>2, <3>5 DEF TaskTables
        <4>5. /\ tasks'[w][t].turns = tasks[w][t].turns + 1
              /\ tasks'[w][t].repairs =
                     IF purpose = "repair" THEN tasks[w][t].repairs + 1 ELSE tasks[w][t].repairs
          BY <2>1, <4>4, ChargedTask
        <4>6. /\ tasks[w][t].turns < MaxTurns
              /\ purpose = "repair" => tasks[w][t].repairs < MaxRepairs
          BY <3>2, <3>5 DEF WithinBudget
        <4>7. /\ tasks'[w][t].turns <= MaxTurns
              /\ tasks'[w][t].turns = Cardinality(WorkerTurns(w, t)')
          BY <2>1, <4>3, <4>5, <4>6, WorkflowAssumption
        <4>8. CASE purpose = "repair"
          <5>1. RepairTurns(w, t)' = RepairTurns(w, t) \cup {r}
            BY <3>3, <3>5, <4>8 DEF WorkerTurns, RepairTurns
          <5>2. Cardinality(RepairTurns(w, t)') = Cardinality(RepairTurns(w, t)) + 1
            BY <3>4, <4>2, <5>1, FS_AddElement
          <5> QED
            BY <2>1, <4>5, <4>6, <4>7, <4>8, <5>2, WorkflowAssumption
        <4>9. CASE purpose # "repair"
          <5>1. RepairTurns(w, t)' = RepairTurns(w, t)
            BY <3>2, <3>3, <4>9 DEF WorkerTurns, RepairTurns
          <5> QED
            BY <2>1, <4>5, <4>7, <4>9, <5>1
        <4> QED
          BY <4>8, <4>9
      <3>6. CASE ~(leases[l].workflow = w /\ leases[l].task = t /\ purpose # "review")
        <4>1. WorkerTurns(w, t)' = WorkerTurns(w, t) /\ RepairTurns(w, t)' = RepairTurns(w, t)
          BY <3>2, <3>3, <3>6 DEF WorkerTurns, RepairTurns
        <4>2. tasks'[w][t] = tasks[w][t]
          BY <1>1, <3>2, <3>6 DEF TaskTables
        <4> QED
          BY <2>1, <4>1, <4>2
      <3> QED
        BY <3>5, <3>6
    <2> QED
      BY <2>2, <2>3
  <1> QED
    BY <1>2 DEF TurnsCharged, WorkerTurns, RepairTurns

\* recover_workflows leaves a lease active only over turns that have settled.
LEMMA RecoveredStep ==
    ASSUME AcceptanceInv, [Next]_vars
    PROVE  RecoveredSoFar'
  <1>1. LeaseTables /\ RecoveredSoFar
    BY TablesOf DEF AcceptanceInv
  <1>2. CASE RecoverDispatches
    BY <1>2 DEF RecoverDispatches, RecoveredSoFar
  <1>3. CASE Ready \/ Crash
    BY <1>3 DEF Ready, Crash, RecoveredSoFar
  <1>4. CASE UNCHANGED vars
    BY <1>1, <1>4 DEF vars, RecoveredSoFar, Under, Settled
  <1>5. CASE Open /\ UNCHANGED <<writer, todo>>
    BY <1>5 DEF Open, RecoveredSoFar
  <1>6. ASSUME NEW l \in Leases, RecoverLease(l)
        PROVE  RecoveredSoFar'
    <2>1. /\ writer = "recovering" /\ l \in todo /\ todo' = todo \ {l} /\ UNCHANGED attempts
          /\ leases' = [leases EXCEPT ![l].state = RecoveredLease(l)]
      BY <1>6 DEF RecoverLease
    <2>2. leases[l].state = "active" /\ leases[l] \in LeaseRecord
      BY <1>1, <2>1, LeaseFields DEF AcceptanceInv, LeaseInv, TodoActive
    <2>3. /\ \A k \in Leases : k # l => leases'[k] = leases[k]
          /\ leases'[l].generation = leases[l].generation
          /\ leases'[l].state = RecoveredLease(l)
      BY <1>1, <2>1, <2>2 DEF LeaseTables, LeaseRecord
    <2>4. ASSUME NEW k \in Leases
          PROVE  Under(k)' = Under(k) /\ (Settled(k)' <=> Settled(k))
      BY <2>1, <2>3 DEF Under, Settled
    <2>5. ASSUME NEW k \in Leases, leases'[k].state = "active", k \notin todo'
          PROVE  Under(k) # {} /\ Settled(k)
      <3>1. CASE k = l
        BY <2>3, <2>5, <3>1 DEF RecoveredLease
      <3>2. CASE k # l
        BY <1>1, <2>1, <2>3, <2>5, <3>2 DEF RecoveredSoFar
      <3> QED
        BY <3>1, <3>2
    <2> QED
      BY <2>4, <2>5 DEF RecoveredSoFar
  <1> QED
    BY <1>2, <1>3, <1>4, <1>5, <1>6, StepKinds

\* An empty database has no receipts and no turns.
LEMMA InitAcceptanceInv == Init => AcceptanceInv
  <1> SUFFICES ASSUME Init PROVE AcceptanceInv
    OBVIOUS
  <1>1. LeaseInv
    BY InitLeaseInv
  <1>2. NewTask \in TaskRecord
    BY DEF NewTask, TaskRecord, Progresses
  <1>3. TaskTables
    BY <1>2 DEF Init, TaskTables
  <1>4. ReceiptTables
    BY DEF Init, ReceiptTables
  <1>5. \A r \in Requests : attempts[r].phase = "absent"
    BY DEF Init, NoAttempt
  <1>6. \A w \in Workflows : receipts[w]["candidate"] = <<>> /\ receipts[w]["review"] = <<>>
    BY DEF Init, ReceiptKinds
  <1>7. AttemptsPlaced
    BY <1>5 DEF AttemptsPlaced
  <1>8. CandidatesStand /\ ReviewsStand
    BY <1>6 DEF CandidatesStand, ReviewsStand
  <1>9. \A w \in Workflows, t \in Tasks :
            /\ tasks[w][t].progress = "pending" /\ tasks[w][t].candidate = None
            /\ tasks[w][t].turns = 0 /\ tasks[w][t].repairs = 0
    BY DEF Init, NewTask
  <1>10. CollectedHasCandidate /\ CandidateEarned
    BY <1>9 DEF CollectedHasCandidate, CandidateEarned
  <1>11. AcceptedIsEarned /\ RecoveredSoFar
    BY DEF Init, AcceptedIsEarned, RecoveredSoFar
  <1>12. TurnsCharged
    <2>1. \A w \in Workflows, t \in Tasks : WorkerTurns(w, t) = {} /\ RepairTurns(w, t) = {}
      BY <1>5 DEF WorkerTurns, RepairTurns
    <2>2. Cardinality({}) = 0 /\ 0 <= MaxTurns /\ 0 <= MaxRepairs
      BY FS_EmptySet, WorkflowAssumption
    <2>3. ASSUME NEW w \in Workflows, NEW t \in Tasks
          PROVE  /\ tasks[w][t].turns <= MaxTurns
                 /\ tasks[w][t].turns = Cardinality(WorkerTurns(w, t))
                 /\ tasks[w][t].repairs <= MaxRepairs
                 /\ tasks[w][t].repairs = Cardinality(RepairTurns(w, t))
      BY <1>9, <2>1, <2>2
    <2> QED
      BY <2>3 DEF TurnsCharged, WorkerTurns, RepairTurns
  <1> QED
    BY <1>1, <1>3, <1>4, <1>7, <1>8, <1>10, <1>11, <1>12 DEF AcceptanceInv

\* Every step of the store keeps the invariant of tasks and receipts.
LEMMA StepAcceptanceInv == AcceptanceInv /\ [Next]_vars => AcceptanceInv'
  <1> SUFFICES ASSUME AcceptanceInv, [Next]_vars PROVE AcceptanceInv'
    OBVIOUS
  <1>1. LeaseInv'
    BY TablesOf, StepLeaseInv
  <1>2. ReceiptTables'
    BY TablesOf, ReceiptSteps, ReceiptsGrow
  <1>3. CandidateEarned' /\ AcceptedIsEarned'
    BY EarnedStep, AcceptedStep
  <1> QED
    BY <1>1, <1>2, <1>3, TasksTyped, PlacedStep, StandsStep, CollectedStep, ChargedStep,
       RecoveredStep DEF AcceptanceInv

\* The inductive invariant of tasks, receipts and gates.
THEOREM AcceptanceInvariance == Spec => []AcceptanceInv
  BY InitAcceptanceInv, StepAcceptanceInv, PTL DEF Spec

\* gate_candidate reads receipts of any age; what it accepts was earned under
\* the contract the task has now.
THEOREM CandidatesAreEarned == Spec => []CandidateEarned
  <1>1. AcceptanceInv => CandidateEarned
    BY DEF AcceptanceInv
  <1> QED
    BY <1>1, AcceptanceInvariance, PTL

\* An accepted workflow has earned its acceptance, and keeps it.
THEOREM AcceptanceIsEarned == Spec => []AcceptedIsEarned
  <1>1. AcceptanceInv => AcceptedIsEarned
    BY DEF AcceptanceInv
  <1> QED
    BY <1>1, AcceptanceInvariance, PTL

\* charge_turn counts every worker turn once, over contracts and restarts, and
\* never past the budget.
THEOREM TurnsAreCharged == Spec => []TurnsCharged
  <1>1. AcceptanceInv => TurnsCharged
    BY DEF AcceptanceInv
  <1> QED
    BY <1>1, AcceptanceInvariance, PTL

\* When the writer opens, what recover_workflows left active has turns, and
\* they have settled, however often it was interrupted.
THEOREM RecoveryIsComplete == Spec => RecoveredLeases
  <1>1. ASSUME AcceptanceInv, [Next]_vars, writer = "recovering", writer' = "open"
        PROVE  \A l \in Leases : leases[l].state = "active" => Under(l) # {} /\ Settled(l)
    <2>1. Ready
      BY <1>1, StepKinds DEF RecoverDispatches, Crash, RecoverLease, vars, Open
    <2> QED
      BY <1>1, <2>1 DEF Ready, AcceptanceInv, RecoveredSoFar
  <1>2. AcceptanceInv /\ [Next]_vars =>
           [writer = "recovering" /\ writer' = "open" =>
               \A l \in Leases : leases[l].state = "active" => Under(l) # {} /\ Settled(l)]_vars
    BY <1>1
  <1> QED
    BY <1>2, AcceptanceInvariance, PTL DEF Spec, RecoveredLeases

\* record_workflow_receipt looks at no phase: it is the ended leases that keep
\* a late result from a cancelled workflow.
THEOREM CancelledIsFrozen == Spec => CancelledFrozen
  <1>1. ASSUME AcceptanceInv, [Next]_vars, NEW w \in Workflows, workflows[w] = "cancelled"
        PROVE  workflows'[w] = "cancelled" /\ tasks'[w] = tasks[w]
    <2>1. LeaseInv /\ LeaseTables /\ TaskTables /\ TaskTables' /\ CancelledQuiet
      BY <1>1, TablesOf, TasksTyped DEF LeaseInv
    <2>2. workflows'[w] = "cancelled"
      <3>1. ~PrepareWorkflow(w) /\ ~AcceptWorkflow(w)
        BY <1>1 DEF PrepareWorkflow, AcceptWorkflow
      <3>2. ASSUME NEW phase \in AskedPhases
            PROVE  ~TransitionWorkflow(w, phase)
        BY <1>1 DEF TransitionWorkflow, CanTransitionTo
      <3> QED
        BY <1>1, <2>1, <3>1, <3>2, PhaseSteps
    <2>3. ASSUME NEW t \in Tasks
          PROVE  tasks'[w][t] = tasks[w][t]
      <3>1. ~AdmitsWork(workflows[w]) /\ EndedPhase(workflows[w])
        BY <1>1 DEF AdmitsWork, EndedPhase
      <3>2. \A l \in Leases : ~(leases[l].state = "active" /\ leases[l].workflow = w)
        BY <1>1, <2>1 DEF CancelledQuiet, HoldingLeases, HoldsLease
      <3>3. TaskMoves(w, t)
        BY <1>1, <2>1, TaskSteps
      <3> QED
        BY <2>1, <3>1, <3>2, <3>3, TaskEffects
    <2>4. tasks'[w] = tasks[w]
      BY <2>1, <2>3 DEF TaskTables
    <2> QED
      BY <2>2, <2>4
  <1>2. AcceptanceInv /\ [Next]_vars =>
           [\A w \in Workflows :
               workflows[w] = "cancelled" => workflows'[w] = "cancelled" /\ tasks'[w] = tasks[w]]_vars
    BY <1>1
  <1> QED
    BY <1>2, AcceptanceInvariance, PTL DEF Spec, CancelledFrozen

\* In compare mode neither a competitor's turn nor its refused candidate hides
\* a candidate that was collected.
THEOREM CollectedIsKept == Spec => CollectedStays
  <1>1. ASSUME AcceptanceInv, [Next]_vars, NEW w \in Workflows, NEW t \in Tasks,
               Mode = "compare", tasks[w][t].progress = "candidate_collected",
               tasks'[w][t].contract = tasks[w][t].contract
        PROVE  tasks'[w][t].progress \in {"candidate_collected", "accepted"}
    <2>1. LeaseInv /\ TaskTables /\ tasks[w][t] \in TaskRecord
      BY <1>1, TablesOf DEF TaskTables
    <2>2. TaskMoves(w, t)
      BY <1>1, <2>1, TaskSteps
    <2>3. \E c \in Admitted(w) : c.task = t
      BY <1>1 DEF AcceptanceInv, CollectedHasCandidate
    <2>4. ASSUME NEW purpose \in Purposes, tasks'[w][t] = Charged(tasks[w][t], purpose)
          PROVE  tasks'[w][t].progress = "candidate_collected"
      BY <1>1, <2>1, <2>4, ChargedTask
    <2>5. ASSUME NEW verdict \in {"admitted", "refused"},
                 tasks'[w][t] = [tasks[w][t] EXCEPT !.progress = Collected(w, t, verdict)]
          PROVE  tasks'[w][t].progress = "candidate_collected"
      <3>1. Collected(w, t, verdict) = "candidate_collected"
        BY <1>1, <2>3 DEF Collected
      <3> QED
        BY <2>1, <2>5, <3>1 DEF TaskRecord
    <2>6. tasks'[w][t] # [tasks[w][t] EXCEPT !.contract = @ + 1, !.progress = "pending",
                                             !.candidate = None]
      <3>1. tasks[w][t].contract \in Nat
        BY <2>1 DEF TaskRecord
      <3>2. [tasks[w][t] EXCEPT !.contract = @ + 1, !.progress = "pending",
                                !.candidate = None].contract = tasks[w][t].contract + 1
        BY <2>1 DEF TaskRecord
      <3>3. tasks'[w][t].contract # tasks[w][t].contract + 1
        BY <1>1, <3>1
      <3> QED
        BY <3>2, <3>3
    <2>7. ASSUME NEW d, tasks'[w][t] = [tasks[w][t] EXCEPT !.progress = "accepted", !.candidate = d]
          PROVE  tasks'[w][t].progress = "accepted"
      BY <2>1, <2>7 DEF TaskRecord
    <2>8. CASE \E l \in Leases, g \in Nat, r \in Requests, d \in Digests,
                  verdict \in {"admitted", "refused"} :
                /\ leases[l].task = t /\ RecordCandidate(w, l, g, r, d, verdict)
                /\ leases[l].state = "active" /\ leases[l].workflow = w
                /\ tasks'[w][t] = [tasks[w][t] EXCEPT !.progress = Collected(w, t, verdict)]
      BY <2>5, <2>8
    <2>9. CASE \E d \in Digests :
                /\ AcceptWorkflowCandidate(w, t, d)
                /\ tasks'[w][t] = [tasks[w][t] EXCEPT !.progress = "accepted", !.candidate = d]
      BY <2>7, <2>9
    <2>10. CASE \E purpose \in Purposes : tasks'[w][t] = Charged(tasks[w][t], purpose)
      BY <2>4, <2>10
    <2> QED
      BY <1>1, <2>1, <2>2, <2>6, <2>8, <2>9, <2>10, TaskEffects
  <1>2. AcceptanceInv /\ [Next]_vars =>
           [\A w \in Workflows, t \in Tasks :
               /\ Mode = "compare" /\ tasks[w][t].progress = "candidate_collected"
               /\ tasks'[w][t].contract = tasks[w][t].contract
               => tasks'[w][t].progress \in {"candidate_collected", "accepted"}]_vars
    BY <1>1
  <1> QED
    BY <1>2, AcceptanceInvariance, PTL DEF Spec, CollectedStays
=============================================================================
