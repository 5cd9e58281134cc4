----------------------- MODULE WorkflowService_proofs -----------------------
(***************************************************************************)
(* Proofs about WorkflowService: one coordinator per workflow, turns that  *)
(* are never left without theirs, and what a finished start leaves.        *)
(*                                                                         *)
(* OneCoordinator and TurnsOwned are not inductive.  What they need beside *)
(* themselves is what the code relies on across its awaits: a registered   *)
(* coordinator lives; a coordinator with a turn ahead of it holds the      *)
(* lease; a call carries what it saw under the lifecycle gate, and a       *)
(* parked attempt keeps its lease quarantined.                             *)
(***************************************************************************)
EXTENDS WorkflowService, TLAPS

RunPcs == {"steps", "leased", "turn", "settle", "after", "escalate", "integrate", "verify",
           "error", "fail", "failing", "stop", "pausing", "recheck", "finish", "cancelling",
           "ending", "removing", "gone"}

RunRecords == [w : Workflows, pc : RunPcs, control : {"run", "pause", "cancel"},
               at : {"drive", "run", "tail"}, erred : BOOLEAN, read : WorkflowPhases]

CallPcs == {"idle", "read", "leases", "plan", "block", "workspace", "launch", "unlaunched",
            "commit", "request", "signal", "finish", "cancelled"}

CallRecords == [kind : {"none", "start", "pause", "cancel"}, w : Workflows, pc : CallPcs,
                read : WorkflowPhases]

StoredTypeOK ==
    /\ phase \in [Workflows -> WorkflowPhases]
    /\ lease \in [Workflows -> {"free", "active", "quarantined"}]
    /\ attempt \in [Workflows -> {"none", "running", "parked", "terminal"}]
    /\ execution \in [Workflows -> {"none", "running", "stopped"}]

MemoryTypeOK ==
    /\ daemon \in [state : {"down", "starting", "serving", "stopping", "draining"},
                   setup : {"ok", "error"}, next : 1..(N + 1)]
    /\ active \in [Workflows -> RunIds \cup {NoRun}]
    /\ runs \in [RunIds -> RunRecords]
    /\ call \in CallRecords

\* A registered coordinator lives and drives the workflow it is registered for.
ActiveLive ==
    \A w \in Workflows : active[w] # NoRun => Live(active[w]) /\ runs[active[w]].w = w

\* Coordinators and calls exist in a daemon that came up.
MemoryInUse ==
    /\ \A i \in RunIds : Live(i) => daemon.state \in {"serving", "stopping", "draining"}
    /\ call # NoCall => Serving

\* TurnsOwned in every state of a daemon that has started.
RunningOwned ==
    \A w \in Workflows : daemon.state # "down" /\ attempt[w] = "running" =>
        /\ active[w] # NoRun /\ runs[active[w]].pc = "turn"
        /\ AdmitsWork(phase[w]) \/ phase[w] = "cancel_requested"

\* A parked attempt has no coordinator beside it and its lease is quarantined.
ParkedAlone ==
    \A w \in Workflows : attempt[w] = "parked" =>
        active[w] = NoRun /\ lease[w] = "quarantined"

\* The lease a coordinator took is there until it settles it.
LeaseHeld ==
    \A i \in RunIds : runs[i].pc \in {"leased", "turn"} => lease[runs[i].w] = "active"

\* What a call saw before its last await still holds.
CallClaims ==
    /\ call.kind = "start" /\ call.pc # "read" => active[call.w] = NoRun
    /\ call.kind = "start" /\ call.pc \in {"plan", "workspace", "launch"}
          => attempt[call.w] # "parked"
    /\ call.kind = "pause" /\ call.pc = "commit" => active[call.w] = NoRun
    /\ call.kind = "cancel" /\ call.pc \in {"finish", "cancelled"} => active[call.w] = NoRun

\* Behind the cursor of the walk nothing is left to reconcile.
WalkSettles ==
    daemon.state = "starting" =>
        /\ \A w \in Workflows :
              w < daemon.next => phase[w] \notin {"running", "integrating", "cancel_requested"}
        /\ \A w \in Workflows : execution[w] # "running"

ServiceInv ==
    /\ StoredTypeOK /\ MemoryTypeOK /\ OneCoordinator /\ ActiveLive /\ MemoryInUse
    /\ RunningOwned /\ ParkedAlone /\ LeaseHeld /\ CallClaims /\ WalkSettles

----------------------------------------------------------------------------
(* Coordinator steps.                                                      *)

\* A step of a coordinator keeps its workflow and leaves the others alone.
RunMoved(i) ==
    /\ runs' \in [RunIds -> RunRecords]
    /\ runs'[i].w = runs[i].w /\ runs'[i].pc # "gone"
    /\ \A j \in RunIds : j # i => runs'[j] = runs[j]

\* All that the invariant can see of a step of coordinator i.
CoordinatorMove(i) ==
    /\ Live(i) /\ RunMoved(i)
    /\ UNCHANGED <<daemon, active, call>>
    /\ StoredTypeOK'
    /\ \A v \in Workflows \ {runs[i].w} :
          /\ phase'[v] = phase[v] /\ lease'[v] = lease[v]
          /\ attempt'[v] = attempt[v] /\ execution'[v] = execution[v]
    /\ attempt'[runs[i].w] # "parked"
    /\ runs'[i].pc \in {"leased", "turn"} => lease'[runs[i].w] = "active"
    /\ attempt'[runs[i].w] = "running" =>
          /\ runs'[i].pc = "turn"
          /\ AdmitsWork(phase'[runs[i].w]) \/ phase'[runs[i].w] = "cancel_requested"

LEMMA GotoMoves ==
    ASSUME runs \in [RunIds -> RunRecords], NEW i \in RunIds, NEW pc \in RunPcs \ {"gone"},
           Goto(i, pc)
    PROVE  RunMoved(i) /\ runs'[i].pc = pc
  BY DEF Goto, RunMoved, RunRecords

LEMMA ErredMoves ==
    ASSUME runs \in [RunIds -> RunRecords], NEW i \in RunIds, NEW pc \in RunPcs \ {"gone"},
           NEW erred \in BOOLEAN, runs' = [runs EXCEPT ![i].pc = pc, ![i].erred = erred]
    PROVE  RunMoved(i) /\ runs'[i].pc = pc
  <1>1. runs[i] \in RunRecords
    OBVIOUS
  <1>2. runs' = [runs EXCEPT ![i] = [runs[i] EXCEPT !.pc = pc, !.erred = erred]]
    OBVIOUS
  <1>3. [runs[i] EXCEPT !.pc = pc, !.erred = erred] \in RunRecords
    BY <1>1 DEF RunRecords
  <1>4. runs' \in [RunIds -> RunRecords]
    BY <1>2, <1>3
  <1>5. runs'[i].w = runs[i].w /\ runs'[i].pc = pc
    BY <1>1, <1>2 DEF RunRecords
  <1> QED
    BY <1>2, <1>4, <1>5 DEF RunMoved

LEMMA AtMoves ==
    ASSUME runs \in [RunIds -> RunRecords], NEW i \in RunIds, NEW pc \in RunPcs \ {"gone"},
           NEW at \in {"drive", "run", "tail"}, runs' = [runs EXCEPT ![i].pc = pc, ![i].at = at]
    PROVE  RunMoved(i) /\ runs'[i].pc = pc
  BY DEF RunMoved, RunRecords

LEMMA ReadMoves ==
    ASSUME runs \in [RunIds -> RunRecords], NEW i \in RunIds, NEW pc \in RunPcs \ {"gone"},
           NEW read \in WorkflowPhases,
           \/ runs' = [runs EXCEPT ![i].pc = pc, ![i].read = read]
           \/ runs' = [runs EXCEPT ![i].read = read, ![i].pc = pc]
    PROVE  RunMoved(i) /\ runs'[i].pc = pc
  BY DEF RunMoved, RunRecords

LEMMA NewRunType ==
    ASSUME NEW w \in Workflows
    PROVE  /\ NewRun(w) \in RunRecords
           /\ NewRun(w).w = w /\ NewRun(w).pc = "steps"
  BY DEF NewRun, RunRecords, RunPcs, WorkflowPhases

LEMMA GoneType ==
    Gone \in RunRecords /\ Gone.pc = "gone"
  <1>1. 1 \in Workflows
    BY WorkflowServiceAssumption DEF Workflows
  <1>2. NewRun(1) \in RunRecords
    BY <1>1, NewRunType
  <1> QED
    BY <1>2 DEF Gone, RunRecords, RunPcs

\* What a coordinator can rely on.
LEMMA LiveFacts ==
    ASSUME ServiceInv, NEW i \in RunIds, Live(i)
    PROVE  /\ runs[i] \in RunRecords /\ runs[i].w \in Workflows
           /\ active[runs[i].w] = i
           /\ attempt[runs[i].w] # "parked"
           /\ attempt[runs[i].w] = "running" =>
                 /\ runs[i].pc = "turn"
                 /\ AdmitsWork(phase[runs[i].w]) \/ phase[runs[i].w] = "cancel_requested"
           /\ daemon.state \in {"serving", "stopping", "draining"}
  <1>1. runs[i] \in RunRecords /\ runs[i].w \in Workflows
    BY DEF ServiceInv, MemoryTypeOK, RunRecords
  <1>2. active[runs[i].w] = i /\ i # NoRun
    BY DEF ServiceInv, OneCoordinator, RunIds, NoRun
  <1>3. daemon.state \in {"serving", "stopping", "draining"}
    BY DEF ServiceInv, MemoryInUse
  <1> QED
    BY <1>1, <1>2, <1>3 DEF ServiceInv, ParkedAlone, RunningOwned

LEMMA MovedType ==
    ASSUME StoredTypeOK, NEW w \in Workflows, NEW to \in WorkflowPhases
    PROVE  /\ Moved(w, to) \in [Workflows -> WorkflowPhases]
           /\ \A v \in Workflows \ {w} : Moved(w, to)[v] = phase[v]
           /\ Moved(w, to)[w] = IF Legal(w, to) THEN to ELSE phase[w]
  BY DEF StoredTypeOK, Moved

\* Steps that change neither a lease nor an attempt.
LEMMA PhaseSteps ==
    ASSUME ServiceInv, NEW i \in RunIds, Live(i), runs[i].pc # "turn",
           UNCHANGED <<lease, attempt, daemon, active, call>>,
           phase' \in [Workflows -> WorkflowPhases],
           execution' \in [Workflows -> {"none", "running", "stopped"}],
           \A v \in Workflows \ {runs[i].w} :
               phase'[v] = phase[v] /\ execution'[v] = execution[v],
           RunMoved(i), runs'[i].pc \notin {"leased", "turn"}
    PROVE  CoordinatorMove(i)
  BY LiveFacts DEF CoordinatorMove, ServiceInv, StoredTypeOK

LEMMA BeginStepMoves ==
    ASSUME ServiceInv, NEW i \in RunIds, BeginStep(i)
    PROVE  CoordinatorMove(i)
  <1> DEFINE w == runs[i].w
  <1>1. Live(i) /\ runs[i].pc = "steps"
    BY DEF BeginStep, Live
  <1>2. w \in Workflows /\ attempt[w] # "parked" /\ attempt[w] # "running"
    BY <1>1, LiveFacts
  <1>3. runs \in [RunIds -> RunRecords] /\ StoredTypeOK
    BY DEF ServiceInv, MemoryTypeOK
  <1>4. CASE Goto(i, "leased") /\ lease' = [lease EXCEPT ![w] = "active"]
    <2>1. RunMoved(i) /\ runs'[i].pc = "leased"
      BY <1>3, <1>4, GotoMoves DEF RunPcs
    <2> QED
      BY <1>1, <1>2, <1>3, <1>4, <2>1 DEF BeginStep, CoordinatorMove, StoredTypeOK
  <1>5. CASE Goto(i, "error") /\ UNCHANGED lease
    <2>1. RunMoved(i) /\ runs'[i].pc = "error"
      BY <1>3, <1>5, GotoMoves DEF RunPcs
    <2> QED
      BY <1>1, <1>2, <1>3, <1>5, <2>1 DEF BeginStep, CoordinatorMove, StoredTypeOK
  <1> QED
    BY <1>4, <1>5 DEF BeginStep

LEMMA AdmitTurnMoves ==
    ASSUME ServiceInv, NEW i \in RunIds, AdmitTurn(i)
    PROVE  CoordinatorMove(i)
  <1> DEFINE w == runs[i].w
  <1>1. Live(i) /\ runs[i].pc = "leased"
    BY DEF AdmitTurn, Live
  <1>2. w \in Workflows /\ attempt[w] # "parked" /\ attempt[w] # "running"
    BY <1>1, LiveFacts
  <1>3. runs \in [RunIds -> RunRecords] /\ StoredTypeOK /\ lease[w] = "active"
    BY <1>1 DEF ServiceInv, MemoryTypeOK, LeaseHeld
  <1>4. CASE /\ AdmitsWork(phase[w]) /\ attempt' = [attempt EXCEPT ![w] = "running"]
             /\ Goto(i, "turn")
    <2>1. RunMoved(i) /\ runs'[i].pc = "turn"
      BY <1>3, <1>4, GotoMoves DEF RunPcs
    <2> QED
      BY <1>1, <1>2, <1>3, <1>4, <2>1 DEF AdmitTurn, CoordinatorMove, StoredTypeOK
  <1>5. CASE attempt[w] = "terminal" /\ Goto(i, "turn") /\ UNCHANGED attempt
    <2>1. RunMoved(i) /\ runs'[i].pc = "turn"
      BY <1>3, <1>5, GotoMoves DEF RunPcs
    <2> QED
      BY <1>1, <1>2, <1>3, <1>5, <2>1 DEF AdmitTurn, CoordinatorMove, StoredTypeOK
  <1>6. CASE /\ runs' = [runs EXCEPT ![i].pc = "settle", ![i].erred = TRUE]
             /\ UNCHANGED attempt
    <2>1. RunMoved(i) /\ runs'[i].pc = "settle"
      BY ZenonT(60), <1>3, <1>6 DEF RunMoved, RunRecords, RunPcs
    <2> QED
      BY <1>1, <1>2, <1>3, <1>6, <2>1 DEF AdmitTurn, CoordinatorMove, StoredTypeOK
  <1> QED
    BY <1>4, <1>5, <1>6 DEF AdmitTurn

LEMMA CollectTurnMoves ==
    ASSUME ServiceInv, NEW i \in RunIds, NEW erred \in BOOLEAN, CollectTurn(i, erred)
    PROVE  CoordinatorMove(i)
  <1>1. Live(i) /\ runs[i].w \in Workflows /\ attempt[runs[i].w] = "terminal"
    BY LiveFacts DEF CollectTurn, Live
  <1>2. runs \in [RunIds -> RunRecords]
    BY DEF ServiceInv, MemoryTypeOK
  <1>3. RunMoved(i) /\ runs'[i].pc = "settle"
    BY <1>2, ErredMoves, Zenon DEF CollectTurn, RunPcs
  <1> QED
    BY <1>1, <1>3 DEF CollectTurn, CoordinatorMove, ServiceInv, StoredTypeOK, stored

LEMMA SettleLeaseMoves ==
    ASSUME ServiceInv, NEW i \in RunIds, SettleLease(i)
    PROVE  CoordinatorMove(i)
  <1>1. Live(i) /\ runs[i].w \in Workflows
    BY LiveFacts DEF SettleLease, Live
  <1>2. runs \in [RunIds -> RunRecords]
    BY DEF ServiceInv, MemoryTypeOK
  <1>3. PICK pc \in {"error", "after"} :
            runs' = [runs EXCEPT ![i].pc = pc, ![i].erred = FALSE]
    BY DEF SettleLease
  <1>4. RunMoved(i) /\ runs'[i].pc = pc
    BY <1>2, <1>3, ErredMoves, Zenon DEF RunPcs
  <1> QED
    BY <1>1, <1>3, <1>4 DEF SettleLease, CoordinatorMove, ServiceInv, StoredTypeOK

LEMMA AfterStepsMoves ==
    ASSUME ServiceInv, NEW i \in RunIds, AfterSteps(i)
    PROVE  CoordinatorMove(i)
  <1>1. Live(i) /\ runs[i].w \in Workflows /\ runs[i].pc # "turn"
    BY LiveFacts DEF AfterSteps, Live
  <1>2. runs \in [RunIds -> RunRecords] /\ StoredTypeOK
    BY DEF ServiceInv, MemoryTypeOK
  <1>3. PICK pc \in {"stop", "steps", "escalate", "fail", "integrate"} : Goto(i, pc)
    BY <1>1, <1>2 DEF AfterSteps
  <1>4. RunMoved(i) /\ runs'[i].pc = pc
    BY <1>2, <1>3, GotoMoves DEF RunPcs
  <1> QED
    BY <1>1, <1>2, <1>3, <1>4, PhaseSteps DEF AfterSteps, StoredTypeOK, stored

LEMMA EscalateMoves ==
    ASSUME ServiceInv, NEW i \in RunIds, Escalate(i)
    PROVE  CoordinatorMove(i)
  <1>1. Live(i) /\ runs[i].w \in Workflows /\ runs[i].pc # "turn"
    BY LiveFacts DEF Escalate, Live
  <1>2. runs \in [RunIds -> RunRecords] /\ StoredTypeOK
    BY DEF ServiceInv, MemoryTypeOK
  <1>3. PICK pc \in {"recheck", "error"} : Goto(i, pc)
    BY <1>1, <1>2 DEF Escalate
  <1>4. RunMoved(i) /\ runs'[i].pc = pc
    BY <1>2, <1>3, GotoMoves DEF RunPcs
  <1>5. /\ phase' \in [Workflows -> WorkflowPhases]
        /\ \A v \in Workflows \ {runs[i].w} : phase'[v] = phase[v]
    BY <1>1, <1>2, MovedType DEF Escalate, WorkflowPhases, StoredTypeOK
  <1> QED
    BY <1>1, <1>2, <1>3, <1>4, <1>5, PhaseSteps DEF Escalate, StoredTypeOK

LEMMA IntegrateMoves ==
    ASSUME ServiceInv, NEW i \in RunIds, Integrate(i)
    PROVE  CoordinatorMove(i)
  <1>1. Live(i) /\ runs[i].w \in Workflows /\ runs[i].pc # "turn"
    BY LiveFacts DEF Integrate, Live
  <1>2. runs \in [RunIds -> RunRecords] /\ StoredTypeOK
    BY DEF ServiceInv, MemoryTypeOK
  <1>3. PICK pc \in {"verify", "error"} : Goto(i, pc)
    BY <1>1, <1>2 DEF Integrate
  <1>4. RunMoved(i) /\ runs'[i].pc = pc
    BY <1>2, <1>3, GotoMoves DEF RunPcs
  <1>5. /\ phase' \in [Workflows -> WorkflowPhases]
        /\ \A v \in Workflows \ {runs[i].w} : phase'[v] = phase[v]
    BY <1>1, <1>2, MovedType DEF Integrate, WorkflowPhases, StoredTypeOK
  <1> QED
    BY <1>1, <1>2, <1>3, <1>4, <1>5, PhaseSteps DEF Integrate, StoredTypeOK

LEMMA VerifyMoves ==
    ASSUME ServiceInv, NEW i \in RunIds, Verify(i)
    PROVE  CoordinatorMove(i)
  <1>1. Live(i) /\ runs[i].w \in Workflows /\ runs[i].pc # "turn"
    BY LiveFacts DEF Verify, Live
  <1>2. runs \in [RunIds -> RunRecords] /\ StoredTypeOK
    BY DEF ServiceInv, MemoryTypeOK
  <1>3. PICK pc \in {"recheck", "error"} : Goto(i, pc)
    BY <1>1, <1>2 DEF Verify
  <1>4. RunMoved(i) /\ runs'[i].pc = pc
    BY <1>2, <1>3, GotoMoves DEF RunPcs
  <1>5. /\ phase' \in [Workflows -> WorkflowPhases]
        /\ \A v \in Workflows \ {runs[i].w} : phase'[v] = phase[v]
    BY <1>1, <1>2, MovedType DEF Verify, WorkflowPhases, StoredTypeOK
  <1> QED
    BY <1>1, <1>2, <1>3, <1>4, <1>5, PhaseSteps DEF Verify, StoredTypeOK

LEMMA HandleErrorMoves ==
    ASSUME ServiceInv, NEW i \in RunIds, HandleError(i)
    PROVE  CoordinatorMove(i)
  <1>1. Live(i) /\ runs[i].w \in Workflows /\ runs[i].pc # "turn"
    BY LiveFacts DEF HandleError, Live
  <1>2. runs \in [RunIds -> RunRecords] /\ StoredTypeOK
    BY DEF ServiceInv, MemoryTypeOK
  <1>3. PICK pc \in {"stop", "fail"} : 
            \E at \in {"drive", "run", "tail"} : runs' = [runs EXCEPT ![i].pc = pc, ![i].at = at]
    BY <1>1, <1>2 DEF HandleError
  <1>4. RunMoved(i) /\ runs'[i].pc = pc
    BY <1>2, <1>3, AtMoves DEF RunPcs
  <1> QED
    BY <1>1, <1>2, <1>3, <1>4, PhaseSteps DEF HandleError, StoredTypeOK, stored

LEMMA CommitFailedMoves ==
    ASSUME ServiceInv, NEW i \in RunIds, CommitFailed(i)
    PROVE  CoordinatorMove(i)
  <1>1. Live(i) /\ runs[i].w \in Workflows /\ runs[i].pc # "turn"
    BY LiveFacts DEF CommitFailed, Live
  <1>2. runs \in [RunIds -> RunRecords] /\ StoredTypeOK
    BY DEF ServiceInv, MemoryTypeOK
  <1>3. PICK pc \in {"recheck"} : 
            runs' = [runs EXCEPT ![i].pc = pc, ![i].read = "running"]
    BY <1>1, <1>2 DEF CommitFailed
  <1>4. RunMoved(i) /\ runs'[i].pc = pc
    BY <1>2, <1>3, ReadMoves DEF RunPcs, WorkflowPhases
  <1>5. /\ phase' \in [Workflows -> WorkflowPhases]
        /\ \A v \in Workflows \ {runs[i].w} : phase'[v] = phase[v]
    BY <1>1, <1>2, MovedType DEF CommitFailed, WorkflowPhases, StoredTypeOK, FailedFrom
  <1> QED
    BY <1>1, <1>2, <1>3, <1>4, <1>5, PhaseSteps DEF CommitFailed, StoredTypeOK

LEMMA StopPausedMoves ==
    ASSUME ServiceInv, NEW i \in RunIds, StopPaused(i)
    PROVE  CoordinatorMove(i)
  <1>1. Live(i) /\ runs[i].w \in Workflows /\ runs[i].pc # "turn"
    BY LiveFacts DEF StopPaused, Live
  <1>2. runs \in [RunIds -> RunRecords] /\ StoredTypeOK
    BY DEF ServiceInv, MemoryTypeOK
  <1>3. PICK pc \in {"pausing", "recheck"} : Goto(i, pc)
    BY <1>1, <1>2 DEF StopPaused
  <1>4. RunMoved(i) /\ runs'[i].pc = pc
    BY <1>2, <1>3, GotoMoves DEF RunPcs
  <1> QED
    BY <1>1, <1>2, <1>3, <1>4, PhaseSteps DEF StopPaused, StoredTypeOK, stored

LEMMA CommitPausedMoves ==
    ASSUME ServiceInv, NEW i \in RunIds, CommitPaused(i)
    PROVE  CoordinatorMove(i)
  <1>1. Live(i) /\ runs[i].w \in Workflows /\ runs[i].pc # "turn"
    BY LiveFacts DEF CommitPaused, Live
  <1>2. runs \in [RunIds -> RunRecords] /\ StoredTypeOK
    BY DEF ServiceInv, MemoryTypeOK
  <1>3. PICK pc \in {"recheck", "error"} : Goto(i, pc)
    BY <1>1, <1>2 DEF CommitPaused, StopErred
  <1>4. RunMoved(i) /\ runs'[i].pc = pc
    BY <1>2, <1>3, GotoMoves DEF RunPcs
  <1>5. /\ phase' \in [Workflows -> WorkflowPhases]
        /\ \A v \in Workflows \ {runs[i].w} : phase'[v] = phase[v]
    BY <1>1, <1>2, MovedType DEF CommitPaused, WorkflowPhases, StoredTypeOK
  <1> QED
    BY <1>1, <1>2, <1>3, <1>4, <1>5, PhaseSteps DEF CommitPaused, StoredTypeOK

LEMMA StopCancelledMoves ==
    ASSUME ServiceInv, NEW i \in RunIds, StopCancelled(i)
    PROVE  CoordinatorMove(i)
  <1>1. Live(i) /\ runs[i].w \in Workflows /\ runs[i].pc # "turn"
    BY LiveFacts DEF StopCancelled, Live
  <1>2. runs \in [RunIds -> RunRecords] /\ StoredTypeOK
    BY DEF ServiceInv, MemoryTypeOK
  <1>3. PICK pc \in {"ending", "finish", "error", "recheck"} : Goto(i, pc)
    BY <1>1, <1>2 DEF StopCancelled, StopErred
  <1>4. RunMoved(i) /\ runs'[i].pc = pc
    BY <1>2, <1>3, GotoMoves DEF RunPcs
  <1>5. /\ phase' \in [Workflows -> WorkflowPhases]
        /\ \A v \in Workflows \ {runs[i].w} : phase'[v] = phase[v]
    BY <1>1, <1>2, MovedType DEF StopCancelled, WorkflowPhases, StoredTypeOK
  <1> QED
    BY <1>1, <1>2, <1>3, <1>4, <1>5, PhaseSteps DEF StopCancelled, StoredTypeOK

LEMMA RunCommitsCancelledMoves ==
    ASSUME ServiceInv, NEW i \in RunIds, RunCommitsCancelled(i)
    PROVE  CoordinatorMove(i)
  <1>1. Live(i) /\ runs[i].w \in Workflows /\ runs[i].pc # "turn"
    BY LiveFacts DEF RunCommitsCancelled, Live
  <1>2. runs \in [RunIds -> RunRecords] /\ StoredTypeOK
    BY DEF ServiceInv, MemoryTypeOK
  <1>3. PICK pc \in {"ending", "error", "recheck"} : Goto(i, pc)
    BY <1>1, <1>2 DEF RunCommitsCancelled, FinishErred, StopErred
  <1>4. RunMoved(i) /\ runs'[i].pc = pc
    BY <1>2, <1>3, GotoMoves DEF RunPcs
  <1>5. /\ phase' \in [Workflows -> WorkflowPhases]
        /\ \A v \in Workflows \ {runs[i].w} : phase'[v] = phase[v]
    BY <1>1, <1>2, MovedType DEF RunCommitsCancelled, WorkflowPhases, StoredTypeOK
  <1> QED
    BY <1>1, <1>2, <1>3, <1>4, <1>5, PhaseSteps DEF RunCommitsCancelled, StoredTypeOK

LEMMA RecheckMoves ==
    ASSUME ServiceInv, NEW i \in RunIds, Recheck(i)
    PROVE  CoordinatorMove(i)
  <1>1. Live(i) /\ runs[i].w \in Workflows /\ runs[i].pc # "turn"
    BY LiveFacts DEF Recheck, Live
  <1>2. runs \in [RunIds -> RunRecords] /\ StoredTypeOK
    BY DEF ServiceInv, MemoryTypeOK
  <1>3. PICK pc \in {"finish", "ending"} : 
            \E at \in {"drive", "run", "tail"} : runs' = [runs EXCEPT ![i].pc = pc, ![i].at = at]
    BY <1>1, <1>2 DEF Recheck
  <1>4. RunMoved(i) /\ runs'[i].pc = pc
    BY <1>2, <1>3, AtMoves DEF RunPcs
  <1> QED
    BY <1>1, <1>2, <1>3, <1>4, PhaseSteps DEF Recheck, StoredTypeOK, stored

LEMMA EndExecutionMoves ==
    ASSUME ServiceInv, NEW i \in RunIds, EndExecution(i)
    PROVE  CoordinatorMove(i)
  <1>1. Live(i) /\ runs[i].w \in Workflows /\ runs[i].pc # "turn"
    BY LiveFacts DEF EndExecution, Live
  <1>2. runs \in [RunIds -> RunRecords] /\ StoredTypeOK
    BY DEF ServiceInv, MemoryTypeOK
  <1>3. PICK pc \in {"removing"} : Goto(i, pc)
    BY <1>1, <1>2 DEF EndExecution
  <1>4. RunMoved(i) /\ runs'[i].pc = pc
    BY <1>2, <1>3, GotoMoves DEF RunPcs
  <1> QED
    BY <1>1, <1>2, <1>3, <1>4, PhaseSteps DEF EndExecution, StoredTypeOK, stored

LEMMA ReadToFailMoves ==
    ASSUME ServiceInv, NEW i \in RunIds, ReadToFail(i)
    PROVE  CoordinatorMove(i)
  <1>1. Live(i) /\ runs[i].w \in Workflows /\ runs[i].pc # "turn"
    BY LiveFacts DEF ReadToFail, Live
  <1>2. runs \in [RunIds -> RunRecords] /\ StoredTypeOK
    BY DEF ServiceInv, MemoryTypeOK
  <1>3. RunMoved(i) /\ runs'[i].pc \in {"stop", "failing"}
    <2>1. CASE runs' = [runs EXCEPT ![i].pc = "stop", ![i].at = "run"]
      BY <1>2, <2>1, AtMoves DEF RunPcs
    <2>2. CASE runs' = [runs EXCEPT ![i].pc = "failing", ![i].read = phase[runs[i].w]]
      BY <1>1, <1>2, <2>2, ReadMoves DEF RunPcs, StoredTypeOK
    <2> QED
      BY <2>1, <2>2 DEF ReadToFail
  <1> QED
    BY <1>1, <1>2, <1>3, PhaseSteps DEF ReadToFail, StoredTypeOK, stored

LEMMA RunRevokesMoves ==
    ASSUME ServiceInv, NEW i \in RunIds, RunRevokes(i)
    PROVE  CoordinatorMove(i)
  <1>1. Live(i) /\ runs[i].w \in Workflows /\ ~Unsettled(runs[i].w)
    BY LiveFacts DEF RunRevokes, Live, Unsettled
  <1>2. runs \in [RunIds -> RunRecords] /\ StoredTypeOK
    BY DEF ServiceInv, MemoryTypeOK
  <1>3. RunMoved(i) /\ runs'[i].pc = "cancelling"
    <2>1. runs' = [runs EXCEPT ![i].read = phase[runs[i].w], ![i].pc = "cancelling"]
      BY <1>1 DEF RunRevokes
    <2> QED
      BY <1>1, <1>2, <2>1, ReadMoves DEF RunPcs, StoredTypeOK
  <1> QED
    BY <1>1, <1>2, <1>3 DEF RunRevokes, RevokeLeases, CoordinatorMove, StoredTypeOK

LEMMA CoordinatorMoves ==
    ASSUME ServiceInv, NEW i \in RunIds, CoordinatorStep(i), ~RemoveActive(i)
    PROVE  CoordinatorMove(i)
  BY BeginStepMoves, AdmitTurnMoves, CollectTurnMoves, SettleLeaseMoves, AfterStepsMoves,
     EscalateMoves, IntegrateMoves, VerifyMoves, HandleErrorMoves, ReadToFailMoves,
     CommitFailedMoves, StopPausedMoves, CommitPausedMoves, StopCancelledMoves,
     RunRevokesMoves, RunCommitsCancelledMoves, RecheckMoves, EndExecutionMoves
     DEF CoordinatorStep

LEMMA CoordinatorKeepsInv ==
    ASSUME ServiceInv, NEW i \in RunIds, CoordinatorMove(i)
    PROVE  ServiceInv'
  <1> DEFINE w == runs[i].w
  <1>1. /\ w \in Workflows /\ active[w] = i /\ i # NoRun
        /\ daemon.state \in {"serving", "stopping", "draining"}
    BY LiveFacts DEF CoordinatorMove, RunIds, NoRun
  <1>2. /\ UNCHANGED <<daemon, active, call>> /\ Live(i) /\ runs'[i].w = w
        /\ runs'[i].pc # "gone" /\ \A j \in RunIds : j # i => runs'[j] = runs[j]
    BY DEF CoordinatorMove, RunMoved
  <1>3. StoredTypeOK' /\ MemoryTypeOK'
    BY <1>2 DEF CoordinatorMove, ServiceInv, MemoryTypeOK, RunMoved
  <1>4. \A j \in RunIds : j # i /\ Live(j) => runs[j].w # w
    BY <1>1 DEF ServiceInv, OneCoordinator
  <1>5. OneCoordinator'
    BY <1>1, <1>2 DEF ServiceInv, OneCoordinator, Live
  <1>6. ActiveLive'
    <2> SUFFICES ASSUME NEW v \in Workflows, active[v] # NoRun
                 PROVE  runs'[active[v]].pc # "gone" /\ runs'[active[v]].w = v
      BY <1>2 DEF ActiveLive, Live
    <2>1. active[v] \in RunIds
      BY DEF ServiceInv, MemoryTypeOK
    <2> QED
      BY <1>2, <2>1 DEF ServiceInv, ActiveLive, Live
  <1>7. MemoryInUse'
    BY <1>1, <1>2 DEF ServiceInv, MemoryInUse, Live, Serving
  <1>8. RunningOwned'
    <2> SUFFICES ASSUME NEW v \in Workflows, daemon.state # "down", attempt'[v] = "running"
                 PROVE  /\ active[v] # NoRun /\ runs'[active[v]].pc = "turn"
                        /\ AdmitsWork(phase'[v]) \/ phase'[v] = "cancel_requested"
      BY <1>2 DEF RunningOwned
    <2>1. CASE v = w
      BY <1>1, <2>1 DEF CoordinatorMove
    <2>2. CASE v # w
      <3>1. active[v] # i
        BY <1>1, <1>2, <2>2 DEF ServiceInv, ActiveLive
      <3>2. attempt[v] = "running" /\ phase'[v] = phase[v]
        BY <2>2 DEF CoordinatorMove
      <3>3. active[v] # NoRun /\ active[v] \in RunIds
        BY <3>2 DEF ServiceInv, MemoryTypeOK, RunningOwned
      <3> QED
        BY <1>2, <3>1, <3>2, <3>3 DEF ServiceInv, RunningOwned
    <2> QED
      BY <2>1, <2>2
  <1>9. ParkedAlone'
    BY <1>1, <1>2 DEF ServiceInv, ParkedAlone, CoordinatorMove
  <1>10. LeaseHeld'
    <2> SUFFICES ASSUME NEW j \in RunIds, runs'[j].pc \in {"leased", "turn"}
                 PROVE  lease'[runs'[j].w] = "active"
      BY DEF LeaseHeld
    <2>1. CASE j = i
      BY <1>2, <2>1 DEF CoordinatorMove
    <2>2. CASE j # i
      <3>1. runs'[j] = runs[j] /\ runs[j].w # w /\ runs[j].w \in Workflows
        BY <1>2, <1>4, <2>2 DEF Live, ServiceInv, MemoryTypeOK, RunRecords
      <3> QED
        BY <3>1 DEF ServiceInv, LeaseHeld, CoordinatorMove
    <2> QED
      BY <2>1, <2>2
  <1>11. CallClaims'
    <2>1. call.w \in Workflows
      BY DEF ServiceInv, MemoryTypeOK, CallRecords
    <2> QED
      BY <1>1, <1>2, <2>1 DEF ServiceInv, CallClaims, CoordinatorMove
  <1>12. WalkSettles'
    BY <1>1, <1>2 DEF WalkSettles
  <1> QED
    BY <1>3, <1>5, <1>6, <1>7, <1>8, <1>9, <1>10, <1>11, <1>12 DEF ServiceInv

LEMMA RemoveActiveKeepsInv ==
    ASSUME ServiceInv, NEW i \in RunIds, RemoveActive(i)
    PROVE  ServiceInv'
  <1> DEFINE w == runs[i].w
  <1>1. /\ w \in Workflows /\ active[w] = i /\ i # NoRun /\ runs[i].pc = "removing"
        /\ daemon.state \in {"serving", "stopping", "draining"} /\ attempt[w] # "running"
    BY LiveFacts DEF RemoveActive, Live, RunIds, NoRun
  <1>2. Gone \in RunRecords /\ Gone.pc = "gone"
    BY GoneType
  <1>3. /\ UNCHANGED <<phase, lease, attempt, execution, daemon, call>>
        /\ active' = [active EXCEPT ![w] = NoRun]
        /\ runs' = [runs EXCEPT ![i] = Gone]
    BY DEF RemoveActive, stored
  <1>4. StoredTypeOK' /\ MemoryTypeOK'
    BY <1>2, <1>3 DEF ServiceInv, StoredTypeOK, MemoryTypeOK
  <1>5. /\ runs'[i].pc = "gone" /\ \A j \in RunIds : j # i => runs'[j] = runs[j]
        /\ active'[w] = NoRun /\ \A v \in Workflows : v # w => active'[v] = active[v]
    BY <1>1, <1>2, <1>3 DEF ServiceInv, MemoryTypeOK
  <1>6. \A j \in RunIds : j # i /\ Live(j) => runs[j].w # w /\ runs[j].w \in Workflows
    BY <1>1 DEF ServiceInv, OneCoordinator, MemoryTypeOK, RunRecords
  <1>7. \A v \in Workflows : v # w => active[v] # i
    BY <1>1 DEF ServiceInv, ActiveLive
  <1>8. \A v \in Workflows : active[v] # NoRun => active[v] \in RunIds
    BY DEF ServiceInv, MemoryTypeOK
  <1>9. OneCoordinator' /\ LeaseHeld'
    BY <1>3, <1>5, <1>6 DEF ServiceInv, OneCoordinator, LeaseHeld, Live
  <1>10. ActiveLive'
    BY <1>1, <1>3, <1>5, <1>7, <1>8 DEF ServiceInv, ActiveLive, Live
  <1>11. MemoryInUse'
    BY <1>3, <1>5 DEF ServiceInv, MemoryInUse, Live, Serving
  <1>12. RunningOwned'
    BY <1>1, <1>3, <1>5, <1>7, <1>8 DEF ServiceInv, RunningOwned
  <1>13. ParkedAlone'
    BY <1>1, <1>3, <1>5 DEF ServiceInv, ParkedAlone
  <1>14. CallClaims' /\ WalkSettles'
    <2>1. call.w \in Workflows
      BY DEF ServiceInv, MemoryTypeOK, CallRecords
    <2> QED
      BY <1>1, <1>3, <1>5, <2>1 DEF ServiceInv, CallClaims, WalkSettles
  <1> QED
    BY <1>4, <1>9, <1>10, <1>11, <1>12, <1>13, <1>14 DEF ServiceInv

----------------------------------------------------------------------------
(* Calls.                                                                  *)

\* A step of a call, launching aside, only tells a coordinator something.
RunsKept ==
    /\ runs' \in [RunIds -> RunRecords]
    /\ \A j \in RunIds : runs'[j].w = runs[j].w /\ runs'[j].pc = runs[j].pc

\* All that the invariant can see of a step of a call.  Under a running turn
\* a call only records the request to cancel; it ends a lease only where no
\* coordinator is registered.
CallMove ==
    /\ call # NoCall /\ call' \in CallRecords /\ CallClaims' /\ RunsKept
    /\ UNCHANGED <<daemon, active>>
    /\ StoredTypeOK'
    /\ \A v \in Workflows \ {call.w} :
          /\ phase'[v] = phase[v] /\ lease'[v] = lease[v]
          /\ attempt'[v] = attempt[v] /\ execution'[v] = execution[v]
    /\ \/ lease'[call.w] = lease[call.w] /\ attempt'[call.w] = attempt[call.w]
       \/ active[call.w] = NoRun /\ attempt'[call.w] = "none"
    /\ attempt[call.w] = "running" => phase'[call.w] \in {phase[call.w], "cancel_requested"}

LEMMA CallKeepsInv ==
    ASSUME ServiceInv, CallMove
    PROVE  ServiceInv'
  <1>1. call.w \in Workflows /\ Serving
    BY DEF ServiceInv, MemoryTypeOK, CallRecords, MemoryInUse, CallMove
  <1>2. /\ UNCHANGED <<daemon, active>>
        /\ \A j \in RunIds : runs'[j].w = runs[j].w /\ runs'[j].pc = runs[j].pc
    BY DEF CallMove, RunsKept
  <1>3. StoredTypeOK' /\ MemoryTypeOK' /\ CallClaims'
    BY <1>2 DEF CallMove, ServiceInv, MemoryTypeOK, RunsKept
  <1>4. \A v \in Workflows : active[v] # NoRun => active[v] \in RunIds
    BY DEF ServiceInv, MemoryTypeOK
  <1>5. OneCoordinator'
    BY <1>2 DEF ServiceInv, OneCoordinator, Live
  <1>6. ActiveLive'
    BY <1>2, <1>4 DEF ServiceInv, ActiveLive, Live
  <1>7. MemoryInUse' /\ WalkSettles'
    BY <1>1, <1>2 DEF ServiceInv, MemoryInUse, WalkSettles, Live, Serving
  <1>8. RunningOwned'
    <2> SUFFICES ASSUME NEW v \in Workflows, daemon.state # "down", attempt'[v] = "running"
                 PROVE  /\ active[v] # NoRun /\ runs'[active[v]].pc = "turn"
                        /\ AdmitsWork(phase'[v]) \/ phase'[v] = "cancel_requested"
      BY <1>2 DEF RunningOwned
    <2>1. attempt[v] = "running" /\ phase'[v] \in {phase[v], "cancel_requested"}
      BY <1>1 DEF CallMove
    <2> QED
      BY <1>2, <1>4, <2>1 DEF ServiceInv, RunningOwned
  <1>9. ParkedAlone'
    BY <1>1, <1>2 DEF ServiceInv, ParkedAlone, CallMove
  <1>10. LeaseHeld'
    <2> SUFFICES ASSUME NEW j \in RunIds, runs[j].pc \in {"leased", "turn"}
                 PROVE  lease'[runs[j].w] = "active"
      BY <1>2 DEF LeaseHeld
    <2>1. /\ runs[j].w \in Workflows /\ active[runs[j].w] = j /\ j # NoRun
          /\ lease[runs[j].w] = "active"
      BY LiveFacts DEF Live, ServiceInv, LeaseHeld, RunIds, NoRun
    <2> QED
      BY <1>1, <2>1 DEF CallMove
  <1> QED
    BY <1>3, <1>5, <1>6, <1>7, <1>8, <1>9, <1>10 DEF ServiceInv

\* The calls that return, and those that go on.
LEMMA ReturnCalls ==
    ASSUME Return
    PROVE  call' \in CallRecords /\ CallClaims'
  <1>1. 1 \in Workflows
    BY WorkflowServiceAssumption DEF Workflows
  <1> QED
    BY <1>1 DEF Return, NoCall, CallRecords, CallPcs, CallClaims, WorkflowPhases

LEMMA StepCalls ==
    ASSUME MemoryTypeOK, NEW pc \in CallPcs, Step(pc)
    PROVE  /\ call' \in CallRecords
           /\ call'.kind = call.kind /\ call'.w = call.w /\ call'.pc = pc
           /\ call'.read = call.read
  BY DEF MemoryTypeOK, CallRecords, Step

LEMMA SignalKeepsRuns ==
    ASSUME ServiceInv, NEW w \in Workflows, NEW control \in {"pause", "cancel"},
           Signal(w, control)
    PROVE  RunsKept
  <1>1. runs \in [RunIds -> RunRecords] /\ (Signalled(w) => active[w] \in RunIds)
    BY DEF ServiceInv, MemoryTypeOK, Signalled
  <1> QED
    BY <1>1 DEF Signal, RunsKept, RunRecords

\* A call under way, and what its position tells.
LEMMA CallFacts ==
    ASSUME ServiceInv
    PROVE  /\ call \in CallRecords /\ call.w \in Workflows
           /\ runs \in [RunIds -> RunRecords] /\ StoredTypeOK /\ MemoryTypeOK
           /\ \A kind, pc : At(kind, pc) /\ pc # "idle" => call # NoCall
           /\ call # NoCall /\ active[call.w] = NoRun => attempt[call.w] # "running"
           /\ Signalled(call.w) <=> active[call.w] # NoRun
  <1>1. /\ call \in CallRecords /\ call.w \in Workflows
        /\ runs \in [RunIds -> RunRecords] /\ StoredTypeOK /\ MemoryTypeOK
    BY DEF ServiceInv, MemoryTypeOK, CallRecords
  <1>2. \A kind, pc : At(kind, pc) /\ pc # "idle" => call # NoCall
    BY DEF At, NoCall
  <1>3. call # NoCall /\ active[call.w] = NoRun => attempt[call.w] # "running"
    BY <1>1 DEF ServiceInv, MemoryInUse, Serving, RunningOwned
  <1>4. Signalled(call.w) <=> active[call.w] # NoRun
    BY <1>1 DEF ServiceInv, ActiveLive, Signalled
  <1> QED
    BY <1>1, <1>2, <1>3, <1>4

\* A step that leaves the stored state alone.
LEMMA QuietCalls ==
    ASSUME ServiceInv, call # NoCall, call' \in CallRecords, CallClaims', RunsKept,
           UNCHANGED <<stored, daemon, active>>
    PROVE  CallMove
  BY DEF CallMove, ServiceInv, StoredTypeOK, stored

\* A step that moves the phase of a workflow without a running turn.
LEMMA PhaseCalls ==
    ASSUME ServiceInv, call # NoCall, call' \in CallRecords, CallClaims',
           UNCHANGED <<lease, attempt, execution, daemon, active, runs>>,
           NEW to \in WorkflowPhases, phase' = Moved(call.w, to),
           \/ attempt[call.w] # "running"
           \/ to = "cancel_requested"
           \/ ~Legal(call.w, to)
    PROVE  CallMove
  <1>1. call.w \in Workflows /\ StoredTypeOK /\ runs \in [RunIds -> RunRecords]
    BY CallFacts
  <1>2. /\ phase' \in [Workflows -> WorkflowPhases]
        /\ \A v \in Workflows \ {call.w} : phase'[v] = phase[v]
        /\ phase'[call.w] = IF Legal(call.w, to) THEN to ELSE phase[call.w]
    BY <1>1, MovedType
  <1>3. RunsKept
    BY <1>1 DEF RunsKept
  <1> QED
    BY <1>1, <1>2, <1>3 DEF CallMove, StoredTypeOK

LEMMA StartLooksMoves ==
    ASSUME ServiceInv, StartLooks
    PROVE  CallMove
  <1>1. call # NoCall /\ RunsKept
    BY CallFacts DEF StartLooks, RunsKept
  <1>2. call' \in CallRecords /\ CallClaims'
    <2>1. CASE Return
      BY <2>1, ReturnCalls
    <2>2. CASE active[call.w] = NoRun /\ Step("leases")
      <3>1. /\ call' \in CallRecords
            /\ call'.kind = call.kind /\ call'.w = call.w /\ call'.pc = "leases"
        BY <2>2, CallFacts, StepCalls DEF CallPcs
      <3> QED
        BY <2>2, <3>1 DEF StartLooks, At, CallClaims
    <2> QED
      BY <2>1, <2>2 DEF StartLooks
  <1> QED
    BY <1>1, <1>2, QuietCalls DEF StartLooks

LEMMA SettleRecoveredLeasesMoves ==
    ASSUME ServiceInv, SettleRecoveredLeases
    PROVE  CallMove
  <1> DEFINE w == call.w
  <1>1. /\ call # NoCall /\ RunsKept /\ w \in Workflows /\ StoredTypeOK
        /\ At("start", "leases")
    BY CallFacts DEF SettleRecoveredLeases, RunsKept
  <1>2. active[w] = NoRun
    BY <1>1 DEF At, ServiceInv, CallClaims
  <1>3. CASE lease[w] # "quarantined"
    <2>1. attempt[w] # "parked"
      BY <1>1, <1>3 DEF ServiceInv, ParkedAlone
    <2>2. /\ call' \in CallRecords
          /\ call'.kind = "start" /\ call'.w = w /\ call'.pc = "plan"
      BY <1>1, <1>3, CallFacts, StepCalls DEF SettleRecoveredLeases, CallPcs, At
    <2>3. UNCHANGED <<stored, daemon, active>>
      BY <1>3 DEF SettleRecoveredLeases, stored
    <2>4. CallClaims'
      BY <1>2, <2>1, <2>2, <2>3 DEF CallClaims, stored
    <2> QED
      BY <1>1, <2>2, <2>3, <2>4, QuietCalls
  <1>4. CASE lease[w] = "quarantined"
    <2>1. RevokeLeases(w) /\ Step(IF Unsettled(w) THEN "block" ELSE "plan")
      BY <1>4 DEF SettleRecoveredLeases
    <2>2. /\ call' \in CallRecords
          /\ call'.kind = "start" /\ call'.w = w
          /\ call'.pc = IF Unsettled(w) THEN "block" ELSE "plan"
      BY <1>1, <2>1, CallFacts, StepCalls DEF CallPcs, At
    <2>3. UNCHANGED <<phase, execution, daemon, active>>
      BY DEF SettleRecoveredLeases
    <2>4. /\ lease' \in [Workflows -> {"free", "active", "quarantined"}]
          /\ attempt' \in [Workflows -> {"none", "running", "parked", "terminal"}]
          /\ \A v \in Workflows \ {w} : lease'[v] = lease[v] /\ attempt'[v] = attempt[v]
          /\ Unsettled(w) => lease'[w] = lease[w] /\ attempt'[w] = attempt[w]
          /\ ~Unsettled(w) => attempt'[w] = "none"
      BY <1>1, <2>1 DEF RevokeLeases, StoredTypeOK
    <2>5. CallClaims'
      BY <1>2, <2>2, <2>3, <2>4 DEF CallClaims
    <2> QED
      BY <1>1, <1>2, <2>2, <2>3, <2>4, <2>5 DEF CallMove, StoredTypeOK
  <1> QED
    BY <1>3, <1>4

LEMMA PlanParallelismMoves ==
    ASSUME ServiceInv, PlanParallelism
    PROVE  CallMove
  <1> DEFINE w == call.w
  <1>1. /\ call # NoCall /\ RunsKept /\ At("start", "plan")
    BY CallFacts DEF PlanParallelism, RunsKept
  <1>2. active[w] = NoRun /\ attempt[w] # "parked" /\ attempt[w] # "running"
    BY <1>1, CallFacts DEF At, ServiceInv, CallClaims
  <1>3. UNCHANGED <<lease, attempt, execution, daemon, active, runs>>
    BY DEF PlanParallelism
  <1>4. call' \in CallRecords /\ CallClaims'
    <2>1. CASE Return
      BY <2>1, ReturnCalls
    <2>2. CASE Step("block") \/ Step("workspace")
      <3>1. /\ call' \in CallRecords /\ call'.kind = "start" /\ call'.w = w
        BY <1>1, <2>2, CallFacts, StepCalls DEF CallPcs, At
      <3> QED
        BY <1>2, <1>3, <3>1 DEF CallClaims
    <2> QED
      BY <2>1, <2>2 DEF PlanParallelism
  <1>5. CASE UNCHANGED phase
    BY <1>1, <1>3, <1>4, <1>5, QuietCalls DEF stored
  <1>6. CASE phase' = Moved(w, "running")
    BY <1>1, <1>2, <1>3, <1>4, <1>6, PhaseCalls DEF WorkflowPhases
  <1> QED
    BY <1>5, <1>6 DEF PlanParallelism

LEMMA BlockThroughRunningMoves ==
    ASSUME ServiceInv, BlockThroughRunning
    PROVE  CallMove
  <1> DEFINE w == call.w
  <1>1. /\ call # NoCall /\ call.kind = "start" /\ call.pc = "block"
        /\ phase' = Moved(w, "running")
        /\ UNCHANGED <<lease, attempt, execution, daemon, active, runs>>
    BY CallFacts DEF BlockThroughRunning, At
  <1>2. active[w] = NoRun /\ attempt[w] # "running"
    BY <1>1, CallFacts DEF ServiceInv, CallClaims
  <1>3. call' \in CallRecords /\ CallClaims'
    <2>1. CASE Return
      BY <2>1, ReturnCalls
    <2>2. CASE call' = [call EXCEPT !.read = "running"]
      <3>1. /\ call' \in CallRecords
            /\ call'.kind = "start" /\ call'.w = w /\ call'.pc = "block"
        BY <1>1, <2>2, CallFacts DEF CallRecords, WorkflowPhases
      <3> QED
        BY <1>1, <1>2, <3>1 DEF CallClaims
    <2> QED
      BY <2>1, <2>2 DEF BlockThroughRunning
  <1> QED
    BY <1>1, <1>2, <1>3, PhaseCalls DEF WorkflowPhases

LEMMA BlockMoves ==
    ASSUME ServiceInv, Block
    PROVE  CallMove
  <1>1. /\ call # NoCall /\ call.kind = "start" /\ call.pc = "block"
        /\ phase' = Moved(call.w, "blocked")
        /\ UNCHANGED <<lease, attempt, execution, daemon, active, runs>> /\ Return
    BY CallFacts DEF Block, At
  <1>2. attempt[call.w] # "running"
    BY <1>1, CallFacts DEF ServiceInv, CallClaims
  <1> QED
    BY <1>1, <1>2, ReturnCalls, PhaseCalls DEF WorkflowPhases

LEMMA BeginExecutionMoves ==
    ASSUME ServiceInv, BeginExecution
    PROVE  CallMove
  <1> DEFINE w == call.w
  <1>1. /\ call # NoCall /\ RunsKept /\ call.kind = "start" /\ call.pc = "workspace"
        /\ UNCHANGED <<phase, lease, attempt, daemon, active, runs>>
        /\ w \in Workflows /\ StoredTypeOK
    BY CallFacts DEF BeginExecution, At, RunsKept
  <1>2. active[w] = NoRun /\ attempt[w] # "parked"
    BY <1>1 DEF ServiceInv, CallClaims
  <1>3. CASE Return /\ UNCHANGED execution
    BY <1>1, <1>3, ReturnCalls, QuietCalls DEF stored
  <1>4. CASE execution' = [execution EXCEPT ![w] = "running"] /\ Step("launch")
    <2>1. /\ call' \in CallRecords
          /\ call'.kind = "start" /\ call'.w = w /\ call'.pc = "launch"
      BY <1>1, <1>4, CallFacts, StepCalls DEF CallPcs
    <2>2. CallClaims'
      BY <1>1, <1>2, <2>1 DEF CallClaims
    <2> QED
      BY <1>1, <1>4, <2>1, <2>2 DEF CallMove, StoredTypeOK
  <1> QED
    BY <1>3, <1>4 DEF BeginExecution

LEMMA UnlaunchedMoves ==
    ASSUME ServiceInv, Unlaunched
    PROVE  CallMove
  <1>1. /\ call # NoCall /\ call.kind = "start" /\ call.pc = "unlaunched"
        /\ phase' = Moved(call.w, "paused")
        /\ UNCHANGED <<lease, attempt, execution, daemon, active, runs>> /\ Return
    BY CallFacts DEF Unlaunched, At
  <1>2. attempt[call.w] # "running"
    BY <1>1, CallFacts DEF ServiceInv, CallClaims
  <1> QED
    BY <1>1, <1>2, ReturnCalls, PhaseCalls DEF WorkflowPhases

LEMMA PauseSignalsMoves ==
    ASSUME ServiceInv, PauseSignals
    PROVE  CallMove
  <1> DEFINE w == call.w
  <1>1. /\ call # NoCall /\ call.kind = "pause" /\ w \in Workflows /\ StoredTypeOK
        /\ UNCHANGED <<stored, daemon, active>>
    BY CallFacts DEF PauseSignals, At
  <1>2. RunsKept
    BY <1>1, SignalKeepsRuns DEF PauseSignals
  <1>3. call' \in CallRecords /\ CallClaims'
    <2>1. CASE Return
      BY <2>1, ReturnCalls
    <2>2. CASE ~Signalled(w) /\ call' = [call EXCEPT !.pc = "commit", !.read = phase[w]]
      <3>1. phase[w] \in WorkflowPhases /\ active[w] = NoRun
        BY <1>1, <2>2, CallFacts DEF StoredTypeOK
      <3>2. /\ call' \in CallRecords
            /\ call'.kind = "pause" /\ call'.w = w /\ call'.pc = "commit"
        BY <1>1, <2>2, <3>1, CallFacts DEF CallRecords, CallPcs
      <3> QED
        BY <1>1, <3>1, <3>2 DEF CallClaims
    <2> QED
      BY <2>1, <2>2 DEF PauseSignals
  <1> QED
    BY <1>1, <1>2, <1>3, QuietCalls

LEMMA PauseCommitsMoves ==
    ASSUME ServiceInv, PauseCommits
    PROVE  CallMove
  <1>1. /\ call # NoCall /\ call.kind = "pause" /\ call.pc = "commit" /\ Return /\ RunsKept
        /\ UNCHANGED <<lease, attempt, execution, daemon, active, runs>>
    BY CallFacts DEF PauseCommits, At, RunsKept
  <1>2. attempt[call.w] # "running"
    BY <1>1, CallFacts DEF ServiceInv, CallClaims
  <1>3. call' \in CallRecords /\ CallClaims'
    BY <1>1, ReturnCalls
  <1>4. CASE phase' = Moved(call.w, "paused")
    BY <1>1, <1>2, <1>3, <1>4, PhaseCalls DEF WorkflowPhases
  <1>5. CASE phase' = phase
    BY <1>1, <1>3, <1>5, QuietCalls DEF stored
  <1> QED
    BY <1>4, <1>5 DEF PauseCommits

LEMMA CancelSignalsMoves ==
    ASSUME ServiceInv, CancelSignals
    PROVE  CallMove
  <1> DEFINE w == call.w
  <1>1. /\ call # NoCall /\ call.kind = "cancel" /\ w \in Workflows
        /\ UNCHANGED <<lease, attempt, execution, daemon, active>>
    BY CallFacts DEF CancelSignals, At
  <1>2. UNCHANGED runs => RunsKept
    BY CallFacts DEF RunsKept
  <1>3. ASSUME NEW pc \in {"signal", "request"}, Step(pc)
        PROVE  call' \in CallRecords /\ CallClaims'
    BY <1>1, <1>3, CallFacts, StepCalls DEF CallPcs, CallClaims
  <1>4. CASE Return /\ UNCHANGED <<phase, runs>>
    BY <1>1, <1>2, <1>4, ReturnCalls, QuietCalls DEF stored
  <1>5. CASE Return /\ phase' = Moved(w, "cancelled") /\ UNCHANGED runs
    <2>1. attempt[w] # "running" \/ ~Legal(w, "cancelled")
      <3> SUFFICES ASSUME attempt[w] = "running"
                   PROVE  ~Legal(w, "cancelled")
        OBVIOUS
      <3>1. daemon.state # "down"
        BY <1>1 DEF ServiceInv, MemoryInUse, Serving
      <3>2. /\ active[w] \in RunIds /\ active[w] # NoRun /\ runs[active[w]].pc = "turn"
            /\ AdmitsWork(phase[w]) \/ phase[w] = "cancel_requested"
        BY <1>1, <3>1 DEF ServiceInv, RunningOwned, MemoryTypeOK
      <3>3. lease[w] = "active"
        BY <1>1, <3>2 DEF ServiceInv, LeaseHeld, ActiveLive
      <3> QED
        BY <3>2, <3>3 DEF Legal, CanTransitionTo, AdmitsWork
    <2> QED
      BY <1>1, <1>5, <2>1, ReturnCalls, PhaseCalls DEF WorkflowPhases
  <1>6. CASE Step("signal") /\ UNCHANGED <<phase, runs>>
    BY <1>1, <1>2, <1>3, <1>6, QuietCalls DEF stored
  <1>7. CASE Signal(w, "cancel") /\ Step("request") /\ UNCHANGED phase
    BY <1>1, <1>3, <1>7, SignalKeepsRuns, QuietCalls DEF stored
  <1> QED
    BY <1>4, <1>5, <1>6, <1>7 DEF CancelSignals

LEMMA CancelRequestsMoves ==
    ASSUME ServiceInv, CancelRequests
    PROVE  CallMove
  <1> DEFINE w == call.w
  <1>1. /\ call # NoCall /\ call.kind = "cancel" /\ w \in Workflows /\ RunsKept
        /\ UNCHANGED <<lease, attempt, execution, daemon, active, runs>>
    BY CallFacts DEF CancelRequests, At, RunsKept
  <1>2. call' \in CallRecords /\ CallClaims'
    <2>1. CASE Return
      BY <2>1, ReturnCalls
    <2>2. CASE Step("signal")
      BY <1>1, <2>2, CallFacts, StepCalls DEF CallPcs, CallClaims
    <2> QED
      BY <2>1, <2>2 DEF CancelRequests
  <1>3. CASE phase' = phase
    BY <1>1, <1>2, <1>3, QuietCalls DEF stored
  <1>4. CASE phase' = Moved(w, "cancel_requested")
    BY <1>1, <1>2, <1>4, PhaseCalls DEF WorkflowPhases
  <1> QED
    BY <1>3, <1>4 DEF CancelRequests

LEMMA CancelSignalsAgainMoves ==
    ASSUME ServiceInv, CancelSignalsAgain
    PROVE  CallMove
  <1> DEFINE w == call.w
  <1>1. /\ call # NoCall /\ call.kind = "cancel" /\ w \in Workflows
        /\ UNCHANGED <<stored, daemon, active>>
    BY CallFacts DEF CancelSignalsAgain, At
  <1>2. RunsKept
    BY <1>1, SignalKeepsRuns DEF CancelSignalsAgain
  <1>3. call' \in CallRecords /\ CallClaims'
    <2>1. CASE Return
      BY <2>1, ReturnCalls
    <2>2. CASE ~Signalled(w) /\ Step("finish")
      <3>1. active[w] = NoRun
        BY <2>2, CallFacts
      <3> QED
        BY <1>1, <2>2, <3>1, CallFacts, StepCalls DEF CallPcs, CallClaims
    <2> QED
      BY <2>1, <2>2 DEF CancelSignalsAgain
  <1> QED
    BY <1>1, <1>2, <1>3, QuietCalls

LEMMA CancelRevokesMoves ==
    ASSUME ServiceInv, CancelRevokes
    PROVE  CallMove
  <1> DEFINE w == call.w
  <1>1. /\ call # NoCall /\ call.kind = "cancel" /\ call.pc = "finish" /\ w \in Workflows
        /\ RunsKept /\ StoredTypeOK
        /\ UNCHANGED <<phase, execution, daemon, active>>
    BY CallFacts DEF CancelRevokes, At, RunsKept
  <1>2. active[w] = NoRun
    BY <1>1 DEF ServiceInv, CallClaims
  <1>3. call' \in CallRecords /\ CallClaims'
    <2>1. CASE Return
      BY <2>1, ReturnCalls
    <2>2. CASE Step("cancelled")
      BY <1>1, <1>2, <2>2, CallFacts, StepCalls DEF CallPcs, CallClaims
    <2> QED
      BY <2>1, <2>2 DEF CancelRevokes
  <1>4. /\ lease' \in [Workflows -> {"free", "active", "quarantined"}]
        /\ attempt' \in [Workflows -> {"none", "running", "parked", "terminal"}]
        /\ \A v \in Workflows \ {w} : lease'[v] = lease[v] /\ attempt'[v] = attempt[v]
        /\ Unsettled(w) => lease'[w] = lease[w] /\ attempt'[w] = attempt[w]
        /\ ~Unsettled(w) => attempt'[w] = "none"
    BY <1>1 DEF CancelRevokes, RevokeLeases, StoredTypeOK
  <1> QED
    BY <1>1, <1>2, <1>3, <1>4 DEF CallMove, StoredTypeOK

LEMMA CancelCommitsMoves ==
    ASSUME ServiceInv, CancelCommits
    PROVE  CallMove
  <1>1. /\ call # NoCall /\ call.kind = "cancel" /\ call.pc = "cancelled"
        /\ phase' = Moved(call.w, "cancelled")
        /\ UNCHANGED <<lease, attempt, execution, daemon, active, runs>> /\ Return
    BY CallFacts DEF CancelCommits, At
  <1>2. attempt[call.w] # "running"
    BY <1>1, CallFacts DEF ServiceInv, CallClaims
  <1> QED
    BY <1>1, <1>2, ReturnCalls, PhaseCalls DEF WorkflowPhases

\* The one step of a call that registers a coordinator: nothing of an earlier
\* one is left, and no attempt waits for the operator.
LEMMA LaunchKeepsInv ==
    ASSUME ServiceInv, Launch
    PROVE  ServiceInv'
  <1> DEFINE w == call.w
  <1>1. /\ call # NoCall /\ call.kind = "start" /\ call.pc = "launch" /\ w \in Workflows
        /\ runs \in [RunIds -> RunRecords] /\ UNCHANGED <<stored, daemon>>
    BY CallFacts DEF Launch, At
  <1>2. active[w] = NoRun /\ attempt[w] # "parked" /\ attempt[w] # "running"
    BY <1>1, CallFacts DEF ServiceInv, CallClaims
  <1>3. CASE ~Accepting /\ Step("unlaunched") /\ UNCHANGED <<active, runs>>
    <2>1. call' \in CallRecords /\ CallClaims' /\ RunsKept
      BY <1>1, <1>2, <1>3, CallFacts, StepCalls DEF CallPcs, CallClaims, RunsKept
    <2> QED
      BY <1>1, <1>3, <2>1, QuietCalls, CallKeepsInv
  <1>4. CASE /\ Accepting
             /\ \E i \in RunIds : /\ ~Live(i)
                                  /\ runs' = [runs EXCEPT ![i] = NewRun(w)]
                                  /\ active' = [active EXCEPT ![w] = i]
             /\ Return
    <2>1. PICK i \in RunIds : /\ ~Live(i)
                              /\ runs' = [runs EXCEPT ![i] = NewRun(w)]
                              /\ active' = [active EXCEPT ![w] = i]
      BY <1>4
    <2>2. /\ runs'[i].w = w /\ runs'[i].pc = "steps" /\ i # NoRun
          /\ \A j \in RunIds : j # i => runs'[j] = runs[j]
          /\ active'[w] = i /\ \A v \in Workflows : v # w => active'[v] = active[v]
      BY <1>1, <2>1, NewRunType DEF ServiceInv, MemoryTypeOK, RunIds, NoRun
    <2>3. call' \in CallRecords /\ CallClaims' /\ call' = NoCall
      BY <1>4, ReturnCalls DEF Return
    <2>4. StoredTypeOK' /\ MemoryTypeOK'
      BY <1>1, <2>1, <2>3, NewRunType DEF ServiceInv, StoredTypeOK, MemoryTypeOK, stored
    <2>5. \A j \in RunIds : Live(j) => runs[j].w # w /\ runs[j].w \in Workflows
      BY <1>1, <1>2 DEF ServiceInv, OneCoordinator, RunRecords, RunIds, NoRun
    <2>6. \A v \in Workflows : active[v] # NoRun => active[v] \in RunIds /\ active[v] # i
      BY <2>1 DEF ServiceInv, MemoryTypeOK, ActiveLive
    <2>7. OneCoordinator' /\ LeaseHeld'
      BY <1>1, <2>2, <2>5 DEF ServiceInv, OneCoordinator, LeaseHeld, Live, stored
    <2>8. ActiveLive'
      BY <2>2, <2>6 DEF ServiceInv, ActiveLive, Live
    <2>9. MemoryInUse'
      BY <1>1, <1>4, <2>2, <2>3 DEF ServiceInv, MemoryInUse, Live, Accepting
    <2>10. RunningOwned' /\ ParkedAlone'
      BY <1>1, <1>2, <2>2, <2>6 DEF ServiceInv, RunningOwned, ParkedAlone, stored
    <2>11. WalkSettles'
      BY <1>1 DEF ServiceInv, WalkSettles, stored
    <2> QED
      BY <2>3, <2>4, <2>7, <2>8, <2>9, <2>10, <2>11 DEF ServiceInv
  <1> QED
    BY <1>2, <1>3, <1>4 DEF Launch

LEMMA CallStepKeepsInv ==
    ASSUME ServiceInv, CallStep
    PROVE  ServiceInv'
  <1>1. CASE Launch
    BY <1>1, LaunchKeepsInv
  <1>2. CASE ~Launch
    <2>1. CallMove
      BY <1>2, StartLooksMoves, SettleRecoveredLeasesMoves, PlanParallelismMoves,
         BlockThroughRunningMoves, BlockMoves, BeginExecutionMoves, UnlaunchedMoves,
         PauseSignalsMoves, PauseCommitsMoves, CancelSignalsMoves, CancelRequestsMoves,
         CancelSignalsAgainMoves, CancelRevokesMoves, CancelCommitsMoves
         DEF CallStep
    <2> QED
      BY <2>1, CallKeepsInv
  <1> QED
    BY <1>1, <1>2

LEMMA NewCallKeepsInv ==
    ASSUME ServiceInv, NEW kind \in {"start", "pause", "cancel"}, NEW w \in Workflows,
           Call(kind, w)
    PROVE  ServiceInv'
  <1>1. Serving /\ UNCHANGED <<phase, lease, attempt, execution, daemon, active, runs>>
    BY DEF Call, stored
  <1>2. call' \in CallRecords /\ CallClaims'
    <2>1. CASE UNCHANGED call
      BY <1>1, <2>1 DEF ServiceInv, MemoryTypeOK, CallClaims
    <2>2. CASE call' = [kind |-> kind, w |-> w, pc |-> "read", read |-> phase[w]]
      BY <2>2 DEF ServiceInv, StoredTypeOK, CallRecords, CallPcs, CallClaims
    <2> QED
      BY <2>1, <2>2 DEF Call
  <1>3. StoredTypeOK' /\ MemoryTypeOK' /\ WalkSettles'
    BY <1>1, <1>2 DEF ServiceInv, StoredTypeOK, MemoryTypeOK, WalkSettles
  <1>4. OneCoordinator' /\ ActiveLive' /\ LeaseHeld'
    BY <1>1 DEF ServiceInv, OneCoordinator, ActiveLive, LeaseHeld, Live
  <1>5. MemoryInUse' /\ RunningOwned' /\ ParkedAlone'
    BY <1>1 DEF ServiceInv, MemoryInUse, RunningOwned, ParkedAlone, Live, Serving
  <1> QED
    BY <1>2, <1>3, <1>4, <1>5 DEF ServiceInv

----------------------------------------------------------------------------
(* The ends of attempts, and the daemon.                                   *)

\* A turn that ends, or the operator's settling of a parked attempt.
LEMMA SettledKeepsInv ==
    ASSUME ServiceInv, NEW w \in Workflows, TurnEnds(w) \/ OperatorSettles(w)
    PROVE  ServiceInv'
  <1>1. /\ attempt' = [attempt EXCEPT ![w] = "terminal"]
        /\ UNCHANGED <<phase, lease, execution, daemon, active, runs, call>>
    BY DEF TurnEnds, OperatorSettles, memory
  <1>2. \A v \in Workflows : attempt'[v] \in {attempt[v], "terminal"}
    BY <1>1 DEF ServiceInv, StoredTypeOK
  <1>3. StoredTypeOK' /\ MemoryTypeOK' /\ WalkSettles'
    BY <1>1 DEF ServiceInv, StoredTypeOK, MemoryTypeOK, WalkSettles
  <1>4. OneCoordinator' /\ ActiveLive' /\ LeaseHeld'
    BY <1>1 DEF ServiceInv, OneCoordinator, ActiveLive, LeaseHeld, Live
  <1>5. MemoryInUse' /\ RunningOwned' /\ ParkedAlone'
    BY <1>1, <1>2 DEF ServiceInv, MemoryInUse, RunningOwned, ParkedAlone, Live, Serving
  <1>6. CallClaims'
    <2>1. call.w \in Workflows
      BY CallFacts
    <2> QED
      BY <1>1, <1>2, <2>1 DEF ServiceInv, CallClaims
  <1> QED
    BY <1>3, <1>4, <1>5, <1>6 DEF ServiceInv

\* Before the service is up there is no coordinator, no call and no running
\* turn, and only the stored state, which the walk changes, can matter.
Quiet ==
    /\ \A i \in RunIds : runs[i].pc = "gone"
    /\ \A w \in Workflows : active[w] = NoRun
    /\ call = NoCall

LEMMA QuietBefore ==
    ASSUME ServiceInv, daemon.state \in {"down", "starting"}
    PROVE  /\ Quiet
           /\ daemon.state = "starting" => \A w \in Workflows : attempt[w] # "running"
  <1>1. \A i \in RunIds : runs[i].pc = "gone"
    BY DEF ServiceInv, MemoryInUse, Live
  <1>2. \A w \in Workflows : active[w] = NoRun
    BY <1>1 DEF ServiceInv, ActiveLive, MemoryTypeOK, Live
  <1>3. call = NoCall
    BY DEF ServiceInv, MemoryInUse, Serving
  <1> QED
    BY <1>1, <1>2, <1>3 DEF Quiet, ServiceInv, RunningOwned

\* What is left to show of a step into or within such a state.
LEMMA QuietKeepsInv ==
    ASSUME Quiet', StoredTypeOK', MemoryTypeOK', WalkSettles',
           daemon'.state # "down" => \A w \in Workflows : attempt'[w] # "running",
           \A w \in Workflows : attempt'[w] = "parked" => lease'[w] = "quarantined"
    PROVE  ServiceInv'
  <1>1. OneCoordinator' /\ ActiveLive' /\ LeaseHeld' /\ MemoryInUse'
    BY DEF Quiet, OneCoordinator, ActiveLive, LeaseHeld, MemoryInUse, Live
  <1>2. RunningOwned' /\ ParkedAlone' /\ CallClaims'
    BY DEF Quiet, RunningOwned, ParkedAlone, CallClaims, NoCall
  <1> QED
    BY <1>1, <1>2 DEF ServiceInv

LEMMA StartKeepsInv ==
    ASSUME ServiceInv, NEW setup \in {"ok", "error"}, Start(setup)
    PROVE  ServiceInv'
  <1>1. Quiet /\ UNCHANGED <<phase, active, runs, call>>
    BY QuietBefore DEF Start
  <1>2. Quiet'
    BY <1>1 DEF Quiet
  <1>3. daemon' = [state |-> "starting", setup |-> setup, next |-> 1]
    BY DEF Start
  <1>4. MemoryTypeOK'
    BY <1>1, <1>3, WorkflowServiceAssumption DEF ServiceInv, MemoryTypeOK
  <1>5. PICK claimed \in SUBSET {w \in Workflows : attempt[w] = "running"} :
            /\ attempt' = [w \in Workflows |->
                             CASE w \in claimed -> "parked"
                               [] attempt[w] = "running" /\ w \notin claimed -> "terminal"
                               [] OTHER -> attempt[w]]
            /\ lease' = [w \in Workflows |->
                           CASE w \in claimed -> "quarantined"
                             [] lease[w] = "active" /\ attempt[w] = "none" -> "free"
                             [] OTHER -> lease[w]]
    BY DEF Start
  <1>6. \A w \in Workflows :
            /\ w \in claimed => attempt'[w] = "parked" /\ lease'[w] = "quarantined"
            /\ w \notin claimed /\ attempt[w] = "running" => attempt'[w] = "terminal"
            /\ attempt[w] # "running" => attempt'[w] = attempt[w]
            /\ w \notin claimed /\ attempt[w] # "none" => lease'[w] = lease[w]
            /\ lease'[w] \in {lease[w], "quarantined", "free"}
    BY <1>5
  <1>7. \A w \in Workflows : /\ attempt'[w] # "running"
                             /\ attempt'[w] = "parked" => lease'[w] = "quarantined"
    BY <1>6 DEF ServiceInv, ParkedAlone
  <1>8. \A w \in Workflows : execution'[w] \in {"none", "stopped"}
    BY DEF Start, ServiceInv, StoredTypeOK
  <1>9. StoredTypeOK'
    <2>1. /\ attempt' \in [Workflows -> {"none", "running", "parked", "terminal"}]
          /\ lease' \in [Workflows -> {"free", "active", "quarantined"}]
      BY <1>5, <1>6 DEF ServiceInv, StoredTypeOK
    <2>2. execution' \in [Workflows -> {"none", "running", "stopped"}]
      BY DEF Start, ServiceInv, StoredTypeOK
    <2> QED
      BY <1>1, <2>1, <2>2 DEF ServiceInv, StoredTypeOK
  <1>10. WalkSettles'
    BY <1>3, <1>8 DEF WalkSettles, Workflows
  <1> QED
    BY <1>2, <1>4, <1>7, <1>9, <1>10, QuietKeepsInv

\* The walk: one workflow is settled, or looked at again.
LEMMA ReconcileKeepsInv ==
    ASSUME ServiceInv, Reconcile
    PROVE  ServiceInv'
  <1>1. /\ daemon.state = "starting" /\ UNCHANGED <<execution, active, runs, call>>
        /\ daemon.next \in 1..(N + 1) /\ daemon.setup \in {"ok", "error"}
        /\ N \in Nat
    BY WorkflowServiceAssumption DEF Reconcile, ReconcileRunning, ReconcileCancel,
       ReconcileOther, Walking, stored, ServiceInv, MemoryTypeOK
  <1>2. Quiet /\ \A w \in Workflows : attempt[w] # "running"
    BY <1>1, QuietBefore
  <1>3. Quiet'
    BY <1>1, <1>2 DEF Quiet
  <1>4. StoredTypeOK /\ MemoryTypeOK /\ WalkSettles /\ ParkedAlone
    BY DEF ServiceInv
  <1>5. \A w \in Workflows : execution'[w] # "running"
    BY <1>1, <1>4 DEF WalkSettles
  <1> DEFINE w == daemon.next
             open == {"running", "integrating", "cancel_requested"}
  <1>6. ASSUME phase' \in [Workflows -> WorkflowPhases],
               UNCHANGED <<lease, attempt>>,
               \/ daemon' = daemon /\ \A v \in Workflows \ {w} : phase'[v] = phase[v]
               \/ /\ w <= N /\ daemon' = [daemon EXCEPT !.next = @ + 1]
                  /\ phase'[w] \notin open
                  /\ \A v \in Workflows \ {w} : phase'[v] = phase[v]
               \/ daemon' = [daemon EXCEPT !.state = "serving", !.next = 1]
        PROVE  ServiceInv'
    <2>1. StoredTypeOK'
      BY <1>1, <1>4, <1>6 DEF StoredTypeOK
    <2>2. MemoryTypeOK' /\ WalkSettles'
      <3>1. CASE daemon' = daemon /\ \A v \in Workflows \ {w} : phase'[v] = phase[v]
        BY <1>1, <1>4, <1>5, <3>1 DEF MemoryTypeOK, WalkSettles, Workflows
      <3>2. CASE /\ w <= N /\ daemon' = [daemon EXCEPT !.next = @ + 1]
                 /\ phase'[w] \notin open
                 /\ \A v \in Workflows \ {w} : phase'[v] = phase[v]
        <4>1. /\ daemon'.state = "starting" /\ daemon'.next = w + 1
              /\ daemon'.setup = daemon.setup /\ w + 1 \in 1..(N + 1)
          BY <1>1, <1>4, <3>2 DEF MemoryTypeOK
        <4>2. daemon' \in [state : {"down", "starting", "serving", "stopping", "draining"},
                           setup : {"ok", "error"}, next : 1..(N + 1)]
          BY <1>1, <1>4, <3>2, <4>1 DEF MemoryTypeOK
        <4>3. \A v \in Workflows : v < w + 1 => v = w \/ v < w
          BY <1>1 DEF Workflows
        <4> QED
          BY <1>1, <1>4, <1>5, <3>2, <4>1, <4>2, <4>3 DEF MemoryTypeOK, WalkSettles
      <3>3. CASE daemon' = [daemon EXCEPT !.state = "serving", !.next = 1]
        <4>1. 1 \in 1..(N + 1)
          BY <1>1
        <4> QED
          BY <1>1, <1>4, <3>3, <4>1 DEF MemoryTypeOK, WalkSettles
      <3> QED
        BY <1>6, <3>1, <3>2, <3>3
    <2> QED
      BY <1>2, <1>3, <1>4, <1>6, <2>1, <2>2, QuietKeepsInv DEF ParkedAlone
  <1>7. CASE ReconcileRunning
    <2>1. w \in Workflows /\ w <= N
      BY <1>1, <1>7 DEF ReconcileRunning, Walking, Workflows
    <2>2. CASE Walking("running") /\ phase' = Moved(w, "blocked")
                 /\ daemon' = [daemon EXCEPT !.next = @ + 1]
      <3>1. Legal(w, "blocked")
        BY <2>2 DEF Walking, Legal, CanTransitionTo
      <3>2. /\ phase' \in [Workflows -> WorkflowPhases] /\ phase'[w] = "blocked"
            /\ \A v \in Workflows \ {w} : phase'[v] = phase[v]
        BY <1>4, <2>1, <2>2, <3>1, MovedType DEF WorkflowPhases
      <3> QED
        BY <1>6, <1>7, <2>1, <2>2, <3>2 DEF ReconcileRunning
    <2>3. CASE phase' = Moved(w, "running") /\ UNCHANGED daemon
      <3>1. /\ phase' \in [Workflows -> WorkflowPhases]
            /\ \A v \in Workflows \ {w} : phase'[v] = phase[v]
        BY <1>4, <2>1, <2>3, MovedType DEF WorkflowPhases
      <3> QED
        BY <1>6, <1>7, <2>3, <3>1 DEF ReconcileRunning
    <2> QED
      BY <1>7, <2>2, <2>3 DEF ReconcileRunning
  <1>8. CASE ReconcileCancel
    <2>1. w \in Workflows /\ w <= N /\ Walking("cancel_requested")
      BY <1>1, <1>8 DEF ReconcileCancel, Walking, Workflows
    <2>2. CASE lease[w] = "free"
      <3>1. Legal(w, "cancelled")
        BY <2>1, <2>2 DEF Walking, Legal, CanTransitionTo
      <3>2. /\ phase' = Moved(w, "cancelled") /\ UNCHANGED <<lease, attempt>>
            /\ daemon' = [daemon EXCEPT !.next = @ + 1]
        BY <1>8, <2>2 DEF ReconcileCancel
      <3>3. /\ phase' \in [Workflows -> WorkflowPhases] /\ phase'[w] = "cancelled"
            /\ \A v \in Workflows \ {w} : phase'[v] = phase[v]
        BY <1>4, <2>1, <3>1, <3>2, MovedType DEF WorkflowPhases
      <3> QED
        BY <1>6, <2>1, <3>2, <3>3
    <2>3. CASE lease[w] # "free"
      <3>1. /\ RevokeLeases(w) /\ UNCHANGED phase
            /\ daemon' \in {daemon, [daemon EXCEPT !.state = "serving", !.setup = "error"]}
        BY <1>8, <2>3 DEF ReconcileCancel
      <3>2. /\ lease' \in [Workflows -> {"free", "active", "quarantined"}]
            /\ attempt' \in [Workflows -> {"none", "running", "parked", "terminal"}]
            /\ \A v \in Workflows : \/ lease'[v] = lease[v] /\ attempt'[v] = attempt[v]
                                    \/ attempt'[v] = "none"
        BY <1>4, <2>1, <3>1 DEF RevokeLeases, StoredTypeOK
      <3>3. StoredTypeOK'
        BY <1>1, <1>4, <3>1, <3>2 DEF StoredTypeOK
      <3>4. MemoryTypeOK' /\ WalkSettles'
        BY <1>1, <1>4, <1>5, <3>1 DEF MemoryTypeOK, WalkSettles
      <3> QED
        BY <1>2, <1>3, <1>4, <3>2, <3>3, <3>4, QuietKeepsInv DEF ParkedAlone
    <2> QED
      BY <2>2, <2>3
  <1>9. CASE ReconcileOther
    BY <1>4, <1>6, <1>9 DEF ReconcileOther, StoredTypeOK, stored
  <1> QED
    BY <1>7, <1>8, <1>9 DEF Reconcile

\* A step that changes nothing of the coordinators but what they are told.
LEMMA ShutdownKeepsInv ==
    ASSUME ServiceInv, BeginShutdown \/ DropServer
    PROVE  ServiceInv'
  <1>1. /\ UNCHANGED <<phase, lease, attempt, execution, active>>
        /\ daemon.state \in {"serving", "stopping"}
        /\ \/ daemon' = [daemon EXCEPT !.state = "stopping"] /\ UNCHANGED call
           \/ daemon' = [daemon EXCEPT !.state = "draining"] /\ Return
    BY DEF BeginShutdown, DropServer, stored, Return
  <1>2. RunsKept
    <2>1. CASE BeginShutdown
      <3>1. runs' = [i \in RunIds |->
                  IF active[runs[i].w] = i THEN [runs[i] EXCEPT !.control = "pause"] ELSE runs[i]]
        BY <2>1 DEF BeginShutdown
      <3>2. \A i \in RunIds : /\ runs'[i] \in RunRecords
                              /\ runs'[i].w = runs[i].w /\ runs'[i].pc = runs[i].pc
        BY <3>1 DEF ServiceInv, MemoryTypeOK, RunRecords
      <3> QED
        BY <3>1, <3>2 DEF RunsKept
    <2>2. CASE DropServer
      BY <2>2 DEF DropServer, RunsKept, ServiceInv, MemoryTypeOK
    <2> QED
      BY <2>1, <2>2
  <1>3. call' \in CallRecords /\ CallClaims'
    BY <1>1, ReturnCalls DEF ServiceInv, MemoryTypeOK, CallClaims
  <1>4. /\ daemon' \in [state : {"down", "starting", "serving", "stopping", "draining"},
                       setup : {"ok", "error"}, next : 1..(N + 1)]
        /\ daemon'.state \in {"stopping", "draining"}
        /\ daemon'.state = "draining" => call' = NoCall
    BY <1>1 DEF ServiceInv, MemoryTypeOK, Return
  <1>5. StoredTypeOK' /\ MemoryTypeOK' /\ WalkSettles'
    BY <1>1, <1>2, <1>3, <1>4 DEF ServiceInv, StoredTypeOK, MemoryTypeOK, RunsKept, WalkSettles
  <1>6. \A w \in Workflows : active[w] # NoRun => active[w] \in RunIds
    BY DEF ServiceInv, MemoryTypeOK
  <1>7. OneCoordinator' /\ ActiveLive' /\ LeaseHeld'
    BY <1>1, <1>2, <1>6 DEF ServiceInv, OneCoordinator, ActiveLive, LeaseHeld, Live, RunsKept
  <1>8. MemoryInUse'
    BY <1>1, <1>2, <1>4 DEF MemoryInUse, Serving
  <1>9. RunningOwned' /\ ParkedAlone'
    BY <1>1, <1>2, <1>6 DEF ServiceInv, RunningOwned, ParkedAlone, RunsKept
  <1> QED
    BY <1>3, <1>5, <1>7, <1>8, <1>9 DEF ServiceInv

LEMMA DownKeepsInv ==
    ASSUME ServiceInv, Exit \/ Crash
    PROVE  ServiceInv'
  <1>1. /\ Down /\ UNCHANGED <<phase, lease, execution>>
        /\ attempt' \in [Workflows -> {"none", "running", "parked", "terminal"}]
        /\ \A w \in Workflows : attempt'[w] \in {attempt[w], "terminal"}
    BY DEF Exit, Crash, Down, ServiceInv, StoredTypeOK
  <1>2. call' = NoCall /\ call' \in CallRecords
    BY <1>1, ReturnCalls DEF Down, Return
  <1>3. Quiet'
    BY <1>1, <1>2, GoneType DEF Down, Quiet
  <1>4. /\ daemon' \in [state : {"down", "starting", "serving", "stopping", "draining"},
                       setup : {"ok", "error"}, next : 1..(N + 1)]
        /\ daemon'.state = "down"
    BY <1>1 DEF Down, ServiceInv, MemoryTypeOK
  <1>5. MemoryTypeOK'
    BY <1>1, <1>2, <1>4, GoneType DEF Down, MemoryTypeOK
  <1>6. StoredTypeOK' /\ WalkSettles'
    BY <1>1, <1>4 DEF ServiceInv, StoredTypeOK, WalkSettles
  <1> QED
    BY <1>1, <1>3, <1>4, <1>5, <1>6, QuietKeepsInv DEF ServiceInv, ParkedAlone

----------------------------------------------------------------------------
(* The theorems.                                                           *)

LEMMA ServiceInitInv ==
    ASSUME ServiceInit
    PROVE  ServiceInv
  <1>1. 1 \in Workflows /\ 1 \in 1..(N + 1)
    BY WorkflowServiceAssumption DEF Workflows
  <1>2. call \in CallRecords
    BY <1>1 DEF ServiceInit, NoCall, CallRecords, CallPcs, WorkflowPhases
  <1>3. StoredTypeOK /\ MemoryTypeOK
    BY <1>1, <1>2, GoneType, WorkflowServiceAssumption
    DEF ServiceInit, StoredTypeOK, MemoryTypeOK
  <1>4. OneCoordinator /\ ActiveLive /\ MemoryInUse /\ LeaseHeld
    BY GoneType DEF ServiceInit, OneCoordinator, ActiveLive, MemoryInUse, LeaseHeld, Live
  <1>5. RunningOwned /\ ParkedAlone /\ CallClaims /\ WalkSettles
    BY DEF ServiceInit, RunningOwned, ParkedAlone, CallClaims, WalkSettles, NoCall
  <1> QED
    BY <1>3, <1>4, <1>5 DEF ServiceInv

LEMMA ServiceStepInv ==
    ASSUME ServiceInv, [ServiceNext]_serviceVars
    PROVE  ServiceInv'
  <1>1. ASSUME NEW kind \in {"start", "pause", "cancel"}, NEW w \in Workflows, Call(kind, w)
        PROVE  ServiceInv'
    BY <1>1, NewCallKeepsInv
  <1>2. CASE CallStep
    BY <1>2, CallStepKeepsInv
  <1>3. ASSUME NEW i \in RunIds, CoordinatorStep(i)
        PROVE  ServiceInv'
    BY <1>3, RemoveActiveKeepsInv, CoordinatorMoves, CoordinatorKeepsInv
  <1>4. ASSUME NEW w \in Workflows, TurnEnds(w) \/ OperatorSettles(w)
        PROVE  ServiceInv'
    BY <1>4, SettledKeepsInv
  <1>5. ASSUME NEW setup \in {"ok", "error"}, Start(setup)
        PROVE  ServiceInv'
    BY <1>5, StartKeepsInv
  <1>6. CASE Reconcile
    BY <1>6, ReconcileKeepsInv
  <1>7. CASE BeginShutdown \/ DropServer
    BY <1>7, ShutdownKeepsInv
  <1>8. CASE Exit \/ Crash
    BY <1>8, DownKeepsInv
  <1>9. CASE UNCHANGED serviceVars
    <2>1. UNCHANGED <<phase, lease, attempt, execution, daemon, active, runs, call>>
      BY <1>9 DEF serviceVars, stored, memory
    <2>2. StoredTypeOK' /\ MemoryTypeOK' /\ WalkSettles'
      BY <2>1 DEF ServiceInv, StoredTypeOK, MemoryTypeOK, WalkSettles
    <2>3. OneCoordinator' /\ ActiveLive' /\ LeaseHeld' /\ MemoryInUse'
      BY <2>1 DEF ServiceInv, OneCoordinator, ActiveLive, LeaseHeld, MemoryInUse, Live, Serving
    <2>4. RunningOwned' /\ ParkedAlone' /\ CallClaims'
      BY <2>1 DEF ServiceInv, RunningOwned, ParkedAlone, CallClaims
    <2> QED
      BY <2>2, <2>3, <2>4 DEF ServiceInv
  <1> QED
    BY <1>1, <1>2, <1>3, <1>4, <1>5, <1>6, <1>7, <1>8, <1>9 DEF ServiceNext

\* The inductive invariant: for every number of workflows, of coordinators, of
\* calls and of restarts, whatever phases an earlier daemon left.
THEOREM ServiceInvariance == ServiceSpec => []ServiceInv
  BY ServiceInitInv, ServiceStepInv, PTL DEF ServiceSpec

\* service.rs registers a coordinator under the lock of the runs and removes it
\* as the last thing its task does: no workflow ever has two.
THEOREM OneCoordinatorOnly == ServiceSpec => []OneCoordinator
  <1>1. ServiceInv => OneCoordinator
    BY DEF ServiceInv
  <1> QED
    BY <1>1, ServiceInvariance, PTL

\* No pause, cancel, start, reconciliation or shutdown takes the workflow away
\* from under a turn that runs, and no coordinator is launched beside an
\* attempt that a restart parked.
THEOREM TurnsAreOwned == ServiceSpec => []TurnsOwned
  <1>1. ServiceInv => TurnsOwned
    BY DEF ServiceInv, RunningOwned, ParkedAlone, ActiveLive, TurnsOwned, Signalled
  <1> QED
    BY <1>1, ServiceInvariance, PTL

\* The walk of startup.rs comes to its end only with every workflow out of the
\* phases in which only a live daemon may leave one.
THEOREM StartupIsSettled == ServiceSpec => StartupSettles
  <1>1. ASSUME ServiceInv, [ServiceNext]_serviceVars,
               daemon.state = "starting", daemon'.state = "serving", daemon'.setup = "ok"
        PROVE  \A w \in Workflows :
                   /\ phase'[w] \notin {"running", "integrating", "cancel_requested"}
                   /\ execution'[w] # "running"
    <2>1. daemon.next > N /\ UNCHANGED <<phase, execution>>
      <3>1. daemon' # daemon /\ Quiet /\ daemon \in [state : {"starting"}, setup : {"ok", "error"},
                                                      next : 1..(N + 1)]
        BY <1>1, QuietBefore DEF ServiceInv, MemoryTypeOK
      <3>2. ~CallStep
        BY <3>1 DEF Quiet, NoCall, CallStep, At, StartLooks, SettleRecoveredLeases,
           PlanParallelism, BlockThroughRunning, Block, BeginExecution, Launch, Unlaunched,
           PauseSignals, PauseCommits, CancelSignals, CancelRequests, CancelSignalsAgain,
           CancelRevokes, CancelCommits
      <3>3. ASSUME NEW i \in RunIds, CoordinatorStep(i)
            PROVE  FALSE
        BY <1>1, <3>1, <3>3, CoordinatorMoves DEF CoordinatorMove, RemoveActive
      <3>4. Reconcile
        BY <1>1, <3>1, <3>2, <3>3 DEF ServiceNext, Call, TurnEnds, OperatorSettles, Start,
           BeginShutdown, DropServer, Exit, Crash, Down, memory, serviceVars
      <3>5. ReconcileOther
        BY <1>1, <3>1, <3>4 DEF Reconcile, ReconcileRunning, ReconcileCancel
      <3> QED
        BY <1>1, <3>1, <3>5 DEF ReconcileOther, stored
    <2>2. \A w \in Workflows : w < daemon.next
      BY <1>1, <2>1, WorkflowServiceAssumption DEF Workflows, ServiceInv, MemoryTypeOK
    <2> QED
      BY <1>1, <2>1, <2>2 DEF ServiceInv, WalkSettles
  <1> QED
    BY <1>1, ServiceInvariance, PTL DEF ServiceSpec, StartupSettles
=============================================================================
