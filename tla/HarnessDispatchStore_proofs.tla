-------------------- MODULE HarnessDispatchStore_proofs --------------------
(***************************************************************************)
(* Proofs about HarnessDispatchStore, for every set of requests,           *)
(* directories, contents and clock readings and every number of restarts.  *)
(*                                                                         *)
(* The argument has two layers.  The first says what each action does to   *)
(* the one row it writes, with the phase edges looked up; the second shows *)
(* that every such change keeps the conjuncts of IInv.                     *)
(***************************************************************************)
EXTENDS HarnessDispatchStore, TLAPS

----------------------------------------------------------------------------
(* The edges, looked up.                                                   *)

\* attempt::apply lets only an admitted attempt be claimed.
LEMMA ClaimEdges ==
    ASSUME NEW p \in DispatchPhases, ClaimEdge(p).kind = "changed"
    PROVE  p = "admitted"
           /\ ClaimEdge(p) = Changed("running", Same, "running", "mint", NoCode)
  BY DEF ClaimEdge, Changed, Refused, IsTerminal

\* attempt::apply lets only a claimed attempt be finished, and a cancelled
\* one only as cancelled.
LEMMA FinishEdges ==
    ASSUME NEW p \in DispatchPhases, NEW o \in Outcomes,
           FinishEdge(p, o).kind = "changed"
    PROVE  LET s == FinishedStatuses(o)
           IN  \/ p = "running"
                  /\ FinishEdge(p, o) = Changed(s[1], s[2], s[3], "require", NoCode)
               \/ p = "cancel_requested"
                  /\ FinishEdge(p, o)
                       = Changed("cancelled", "cancelled", "stopped", "require", NoCode)
  BY DEF FinishEdge, Changed, Refused

\* What attempt::apply does with an operator's cancel.
LEMMA CancelEdges ==
    ASSUME NEW p \in DispatchPhases, CancelEdge(p).kind = "changed"
    PROVE  \/ p = "admitted"
              /\ CancelEdge(p) = Changed("cancelled", "cancelled", "failed", "keep", NoCode)
           \/ p = "running"
              /\ CancelEdge(p) = Changed("cancel_requested", Same, Same, "keep", NoCode)
           \/ p = "recovery_pending"
              /\ CancelEdge(p) = Changed("cancelled", "cancelled", "stopped", "keep", NoCode)
  BY DEF CancelEdge, Changed, Refused, Unchanged

\* What attempt::apply does with an active attempt at startup.
LEMMA RecoverEdges ==
    ASSUME NEW p \in ActivePhases
    PROVE  \/ p = "admitted"
              /\ RecoverEdge(p) = Changed("failed", "blocked", "failed", "keep", "interrupted")
           \/ p \in {"running", "cancel_requested"}
              /\ RecoverEdge(p)
                   = Changed("recovery_pending", "blocked", "stale", "clear", "interrupted")
  BY DEF RecoverEdge, ActivePhases

----------------------------------------------------------------------------
(* What each action does to the row it writes.                             *)

\* commit_transition writes only for an intact row and a legal edge.
LEMMA EdgeReplies ==
    ASSUME NEW r \in Requests, NEW edge,
           edge.kind \in {"changed", "unchanged", "refused"},
           edge.kind = "refused" => edge.code # "changed",
           EdgeReply(r, edge) = "changed"
    PROVE  r \notin defective /\ Exists(r) /\ edge.kind = "changed"
  BY DEF EdgeReply, Load

\* An intact row that exists has one of the eight phases.
LEMMA PhaseOfRow ==
    ASSUME TypeOK, NEW r \in Requests, Exists(r)
    PROVE  rows[r].phase \in DispatchPhases
  BY DEF TypeOK, Row, Exists

\* claim_harness_dispatch moves an intact admitted row to running.
LEMMA ClaimEffect ==
    ASSUME TypeOK, NEW r \in Requests, NEW ts \in Nat, Claim(r, ts)
    PROVE  /\ r \notin defective /\ rows[r].phase = "admitted"
           /\ Write(r, Committed(rows[r], Changed("running", Same, "running", "mint", NoCode),
                                 Len(claims) + 1, NoReport, ts),
                    "started", NoCode, NoReport, NoFence)
  <1> DEFINE edge == ClaimEdge(rows[r].phase)
  <1>1. edge.kind \in {"changed", "unchanged", "refused"}
        /\ (edge.kind = "refused" => edge.code # "changed")
    BY DEF ClaimEdge, Changed, Refused
  <1>2. r \notin defective /\ Exists(r) /\ edge.kind = "changed"
    BY <1>1, EdgeReplies DEF Claim, ClaimReply
  <1>3. rows[r].phase \in DispatchPhases
    BY <1>2, PhaseOfRow
  <1> QED
    BY <1>2, <1>3, ClaimEdges DEF Claim

\* finish_harness_dispatch ends an intact claimed row under its own fence.
LEMMA FinishEffect ==
    ASSUME TypeOK, NEW r \in Requests, NEW fence \in 1..Len(claims),
           NEW report \in Report, NEW ts \in Nat,
           Finish(r, fence, report, ts)
    PROVE  /\ r \notin defective
           /\ rows[r].fence = fence
           /\ ValidFinish(report)
           /\ LET s == FinishedStatuses(report.outcome)
                  edge == IF rows[r].phase = "running"
                          THEN Changed(s[1], s[2], s[3], "require", NoCode)
                          ELSE Changed("cancelled", "cancelled", "stopped", "require", NoCode)
              IN  /\ rows[r].phase \in {"running", "cancel_requested"}
                  /\ Write(r, Committed(rows[r], edge, fence, report, ts),
                           "finished", report.error, report, fence)
  <1> DEFINE edge == FinishEdge(rows[r].phase, report.outcome)
  <1>0. report.outcome \in Outcomes
    BY DEF Report
  <1>1. edge.kind \in {"changed", "unchanged", "refused"}
        /\ (edge.kind = "refused" => edge.code # "changed")
    BY DEF FinishEdge, Changed, Refused
  <1>2. ValidFinish(report) /\ Load(r) = "loaded"
    BY DEF Finish, FinishReply, Load
  <1>3. ~(IsTerminal(rows[r].phase) /\ rows[r].fence = fence)
    BY <1>2 DEF Finish, FinishReply
  <1>4. IF edge.kind = "changed" /\ ~FenceHeld(rows[r], fence)
        THEN FinishReply(r, fence, report) = "stale_fence"
        ELSE FinishReply(r, fence, report) = EdgeReply(r, edge)
    BY <1>2, <1>3 DEF FinishReply
  <1>5. EdgeReply(r, edge) = "changed"
    BY <1>4 DEF Finish
  <1>6. r \notin defective /\ Exists(r) /\ edge.kind = "changed"
    BY <1>1, <1>5, EdgeReplies
  <1>7. rows[r].fence = fence
    BY <1>4, <1>6 DEF Finish, FenceHeld
  <1>8. rows[r].phase \in DispatchPhases
    BY <1>6, PhaseOfRow
  <1>9. edge.error = NoCode
    BY <1>0, <1>6, <1>8, FinishEdges DEF Changed
  <1>10. ProducedCode(edge, report) = report.error
    BY <1>9 DEF ProducedCode
  <1>11. Write(r, Committed(rows[r], edge, fence, report, ts),
               "finished", report.error, report, fence)
    BY <1>7, <1>10 DEF Finish
  <1> QED
    BY <1>0, <1>2, <1>6, <1>7, <1>8, <1>11, FinishEdges

\* cancel_harness_dispatch of an intact row, by the phase it finds.
LEMMA CancelEffect ==
    ASSUME TypeOK, NEW r \in Requests, NEW ts \in Nat, Cancel(r, ts)
    PROVE  /\ r \notin defective
           /\ \/ /\ rows[r].phase = "running"
                 /\ Write(r, Committed(rows[r],
                                       Changed("cancel_requested", Same, Same, "keep", NoCode),
                                       rows[r].fence, NoReport, ts),
                          "cancel_requested", NoCode, NoReport, NoFence)
              \/ /\ rows[r].phase \in {"admitted", "recovery_pending"}
                 /\ \E run \in {"failed", "stopped"} :
                      Write(r, Committed(rows[r],
                                         Changed("cancelled", "cancelled", run, "keep", NoCode),
                                         rows[r].fence, NoReport, ts),
                            "finished", NoCode, NoReport, NoFence)
  <1> DEFINE edge == CancelEdge(rows[r].phase)
  <1>1. edge.kind \in {"changed", "unchanged", "refused"}
        /\ (edge.kind = "refused" => edge.code # "changed")
    BY DEF CancelEdge, Changed, Refused, Unchanged
  <1>2. r \notin defective /\ Exists(r) /\ edge.kind = "changed"
    BY <1>1, EdgeReplies DEF Cancel, CancelReply
  <1>3. rows[r].phase \in DispatchPhases
    BY <1>2, PhaseOfRow
  <1>4. Write(r, Committed(rows[r], edge, rows[r].fence, NoReport, ts),
              CancelEventType(edge), NoCode, NoReport, NoFence)
    BY DEF Cancel
  <1>5. CASE rows[r].phase = "running"
    <2>1. edge = Changed("cancel_requested", Same, Same, "keep", NoCode)
      BY <1>2, <1>3, <1>5, CancelEdges
    <2>2. CancelEventType(edge) = "cancel_requested"
      BY <2>1 DEF CancelEventType, Changed
    <2> QED BY <1>2, <1>4, <1>5, <2>1, <2>2
  <1>6. CASE rows[r].phase # "running"
    <2>1. PICK run \in {"failed", "stopped"} :
             edge = Changed("cancelled", "cancelled", run, "keep", NoCode)
      BY <1>2, <1>3, <1>6, CancelEdges
    <2>2. rows[r].phase \in {"admitted", "recovery_pending"}
      BY <1>2, <1>3, <1>6, CancelEdges
    <2>3. CancelEventType(edge) = "finished"
      BY <2>1 DEF CancelEventType, Changed
    <2> QED BY <1>2, <1>4, <2>1, <2>2, <2>3
  <1> QED BY <1>5, <1>6

----------------------------------------------------------------------------
(* A step as seen by one row.                                              *)

\* The row and the event a move of any kind writes.
Moves(r, type, e) ==
    /\ rows'[r] \in Row
    /\ e \in Event
    /\ events'[r] = Append(events[r], e)
    /\ e.type = type /\ e.from = rows[r].phase /\ e.to = rows'[r].phase
    /\ rows'[r].version = rows[r].version + 1
    /\ e.at = rows'[r].updatedAt
    /\ rows[r].updatedAt <= rows'[r].updatedAt
    /\ r \notin defective

\* A move that reports no outcome.
Silent(r, e) ==
    /\ e.outcome = NoOutcome
    /\ rows'[r].outcome = rows[r].outcome
    /\ rows'[r].process = rows[r].process

AdmitMove(r) == \E e :
    /\ Moves(r, "admitted", e)
    /\ Silent(r, e)
    /\ rows[r].phase = "absent" /\ rows'[r].phase = "admitted"
    /\ rows'[r].task = "in_progress" /\ rows'[r].run = "preparing"
    /\ rows'[r].fence = NoFence /\ rows'[r].error = NoCode
    /\ rows'[r].outcome = NoOutcome
    /\ epoch' = epoch /\ claims' = claims

ClaimMove(r) == \E e :
    /\ Moves(r, "started", e)
    /\ Silent(r, e)
    /\ rows[r].phase = "admitted" /\ rows'[r].phase = "running"
    /\ rows'[r].task = rows[r].task /\ rows'[r].run = "running"
    /\ rows'[r].fence = Len(claims) + 1 /\ rows'[r].error = rows[r].error
    /\ rows'[r].resource = rows[r].resource
    /\ rows'[r].content = rows[r].content
    /\ epoch' = epoch
    /\ claims' = Append(claims, [request |-> r, epoch |-> epoch])

FinishMove(r) == \E e :
    /\ Moves(r, "finished", e)
    /\ rows[r].phase \in {"running", "cancel_requested"}
    /\ LET s == FinishedStatuses(e.outcome)
       IN  IF rows[r].phase = "running"
           THEN rows'[r].phase = s[1] /\ rows'[r].task = s[2] /\ rows'[r].run = s[3]
           ELSE /\ rows'[r].phase = "cancelled" /\ rows'[r].task = "cancelled"
                /\ rows'[r].run = "stopped"
    /\ e.outcome \in Outcomes /\ e.process \in Processes
    /\ e.outcome = "completed" => IsCleanCompletion(e.error, e.process)
    /\ rows'[r].outcome = e.outcome
    /\ rows'[r].process = e.process
    /\ rows'[r].error = (IF e.error # NoCode THEN e.error ELSE rows[r].error)
    /\ e.by = rows[r].fence /\ e.epoch = epoch
    /\ rows'[r].fence = rows[r].fence
    /\ rows'[r].resource = rows[r].resource
    /\ rows'[r].content = rows[r].content
    /\ epoch' = epoch /\ claims' = claims

CancelMove(r) == \E e : \E type \in {"cancel_requested", "finished"} :
    /\ Moves(r, type, e)
    /\ Silent(r, e)
    /\ IF type = "cancel_requested"
       THEN /\ rows[r].phase = "running" /\ rows'[r].phase = "cancel_requested"
            /\ rows'[r].task = rows[r].task /\ rows'[r].run = rows[r].run
       ELSE /\ rows[r].phase \in {"admitted", "recovery_pending"}
            /\ rows'[r].phase = "cancelled" /\ rows'[r].task = "cancelled"
            /\ rows'[r].run \in {"failed", "stopped"}
    /\ rows'[r].fence = rows[r].fence /\ rows'[r].error = rows[r].error
    /\ rows'[r].resource = rows[r].resource
    /\ rows'[r].content = rows[r].content
    /\ epoch' = epoch /\ claims' = claims

RecoverMove(r) == \E e :
    /\ Moves(r, "recovered", e)
    /\ Silent(r, e)
    /\ IF rows[r].phase = "admitted"
       THEN /\ rows'[r].phase = "failed" /\ rows'[r].run = "failed"
            /\ rows'[r].fence = rows[r].fence
       ELSE /\ rows[r].phase \in {"running", "cancel_requested"}
            /\ rows'[r].phase = "recovery_pending" /\ rows'[r].run = "stale"
            /\ rows'[r].fence = NoFence
    /\ rows'[r].task = "blocked"
    /\ rows'[r].resource = rows[r].resource
    /\ rows'[r].content = rows[r].content
    /\ claims' = claims

\* The row is not written; if the generation changes it was not active, and
\* a claim made in this step was another row's.
Stays(r) ==
    /\ rows'[r] = rows[r] /\ events'[r] = events[r]
    /\ \/ epoch' = epoch
       \/ rows[r].phase \notin ActivePhases \/ r \in defective
    /\ \/ claims' = claims
       \/ \E q \in Requests : claims' = Append(claims, [request |-> q, epoch |-> epoch])

RowStep(r) ==
    AdmitMove(r) \/ ClaimMove(r) \/ FinishMove(r) \/ CancelMove(r) \/ RecoverMove(r)
       \/ Stays(r)

\* Field by field, the row commit_transition makes of another.
Rewritten(old, new, to, task, run, code, fence, report) ==
    /\ new.phase = to
    /\ new.fence = fence
    /\ new.version = old.version + 1
    /\ new.task = (IF task = Same THEN old.task ELSE task)
    /\ new.run = (IF run = Same THEN old.run ELSE run)
    /\ new.outcome = (IF report = NoReport THEN old.outcome ELSE report.outcome)
    /\ new.process = (IF report = NoReport THEN old.process ELSE report.process)
    /\ new.error = (IF report.error # NoCode THEN report.error
                    ELSE IF code # NoCode THEN code ELSE old.error)
    /\ new.resource = old.resource
    /\ new.content = old.content
    /\ old.updatedAt <= new.updatedAt

\* The row commit_transition writes is a row, and what its fields are.
LEMMA CommittedRow ==
    ASSUME NEW row \in Row, NEW to \in DispatchPhases,
           NEW task \in TaskStatus \cup {Same}, NEW run \in RunStatus \cup {Same},
           NEW effect, NEW code \in Codes,
           NEW fence \in Nat, NEW report \in Report \cup {NoReport}, NEW ts \in Nat
    PROVE  LET new == Committed(row, Changed(to, task, run, effect, code), fence, report, ts)
           IN  new \in Row /\ Rewritten(row, new, to, task, run, code, fence, report)
  <1> DEFINE edge == Changed(to, task, run, effect, code)
             new  == Committed(row, edge, fence, report, ts)
  <1>1. edge.to = to /\ edge.task = task /\ edge.run = run /\ edge.error = code
    BY DEF Changed
  <1>2. UpdatedAt(ts, row) \in Nat /\ row.updatedAt <= UpdatedAt(ts, row)
    BY DEF UpdatedAt, Later, Row
  <1>3. report.error \in Codes
        /\ (report # NoReport => report.outcome \in Outcomes /\ report.process \in Processes)
    BY DEF Report, NoReport, Codes, NoCode
  <1> HIDE DEF edge
  <1>4. ProducedCode(edge, report) = (IF report.error # NoCode THEN report.error ELSE code)
    BY <1>1 DEF ProducedCode
  <1> DEFINE newTask == IF task = Same THEN row.task ELSE task
             newRun == IF run = Same THEN row.run ELSE run
             newOutcome == IF report = NoReport THEN row.outcome ELSE report.outcome
             newProcess == IF report = NoReport THEN row.process ELSE report.process
             newError == IF report.error # NoCode THEN report.error
                         ELSE IF code # NoCode THEN code ELSE row.error
             newAt == UpdatedAt(ts, row)
  <1>5. new = [phase |-> to, fence |-> fence, version |-> row.version + 1,
               task |-> newTask, run |-> newRun, outcome |-> newOutcome,
               error |-> newError, process |-> newProcess, resource |-> row.resource,
               content |-> row.content, updatedAt |-> newAt]
    BY <1>1, <1>4 DEF Committed
  <1>6. new \in Row
    <2>1. newTask \in TaskStatus /\ newRun \in RunStatus
      BY DEF Row
    <2>2. newOutcome \in Outcomes \cup {NoOutcome} /\ newProcess \in Processes \cup {NoProcess}
      BY <1>3 DEF Row
    <2>3. newError \in Codes /\ newAt \in Nat
      BY <1>2, <1>3 DEF Row
    <2> HIDE DEF newTask, newRun, newOutcome, newProcess, newError, newAt, new
    <2> QED BY <1>5, <2>1, <2>2, <2>3 DEF Row
  <1> HIDE DEF new
  <1>7. Rewritten(row, new, to, task, run, code, fence, report)
    BY <1>2, <1>5 DEF Row, Rewritten
  <1> QED
    BY <1>6, <1>7 DEF new, edge

\* The event written with a row is an event.
LEMMA EventOfType ==
    ASSUME NEW type \in EventTypes, NEW from \in DispatchPhases \cup {"absent"},
           NEW row \in Row, row.phase \in DispatchPhases, NEW code \in Codes,
           NEW report \in Report \cup {NoReport}, NEW by \in Nat, NEW generation \in Nat
    PROVE  LET e == EventOf(type, from, row, code, report, by, generation)
           IN  /\ e \in Event
               /\ e.type = type /\ e.from = from /\ e.to = row.phase
               /\ e.outcome = report.outcome /\ e.error = code
               /\ e.process = report.process /\ e.at = row.updatedAt
               /\ e.by = by /\ e.epoch = generation
  <1> report.outcome \in Outcomes \cup {NoOutcome}
      /\ report.process \in Processes \cup {NoProcess}
    BY DEF Report, NoReport
  <1> row.updatedAt \in Nat
    BY DEF Row
  <1> QED BY DEF EventOf, Event

\* Write changes its own row and log and no other.
LEMMA WriteOne ==
    ASSUME TypeOK, NEW r \in Requests, NEW row, NEW type, NEW code, NEW report, NEW by,
           Write(r, row, type, code, report, by)
    PROVE  /\ rows'[r] = row
           /\ events'[r] = Append(events[r],
                                  EventOf(type, rows[r].phase, row, code, report, by, epoch))
           /\ \A q \in Requests \ {r} : rows'[q] = rows[q] /\ events'[q] = events[q]
  BY DEF Write, TypeOK

\* Facts about the constants of the model that the provers need spelled out.
LEMMA Literals ==
    /\ NoCode \in Codes /\ "interrupted" \in Codes
    /\ NoReport \in Report \cup {NoReport}
    /\ NoReport.error = NoCode /\ NoReport.outcome = NoOutcome
    /\ \A ts \in Timestamps : ts \in Nat
    /\ Same \notin TaskStatus /\ Same \notin RunStatus
    /\ NoFence \in Nat
  BY StoreAssumption
     DEF Codes, NoReport, NoCode, Same, TaskStatus, RunStatus, NoFence

\* A report's fields, and that no report is the empty one.
LEMMA ReportFields ==
    ASSUME NEW report \in Report
    PROVE  /\ report.outcome \in Outcomes /\ report.error \in Codes
           /\ report.process \in Processes /\ report # NoReport
  <1>1. report.outcome \in Outcomes /\ report.error \in Codes /\ report.process \in Processes
    BY DEF Report, Codes, NoCode
  <1>2. NoReport.outcome \notin Outcomes
    BY DEF NoReport, NoOutcome, Outcomes
  <1> QED BY <1>1, <1>2

\* Admission as its row and the others see it.
LEMMA AdmitStep ==
    ASSUME TypeOK, Uncoded, NEW r \in Requests, NEW res \in Resources,
           NEW fp \in Fingerprints, NEW ts \in Nat, Admit(r, res, fp, ts)
    PROVE  AdmitMove(r) /\ \A q \in Requests \ {r} : Stays(q)
  <1> DEFINE row == AdmittedRow(res, fp, ts)
             e == EventOf("admitted", rows[r].phase, row, NoCode, NoReport, NoFence, epoch)
  <1>1. Write(r, row, "admitted", NoCode, NoReport, NoFence)
    BY DEF Admit
  <1>2. r \notin defective /\ rows[r].phase = "absent"
    BY DEF Admit, AdmitReply, Load, Exists
  <1>3. /\ row.phase = "admitted" /\ row.fence = NoFence /\ row.version = 1
        /\ row.task = "in_progress" /\ row.run = "preparing" /\ row.outcome = NoOutcome
        /\ row.error = NoCode /\ row.process = NoProcess /\ row.updatedAt = ts
    BY DEF AdmittedRow
  <1>4. row \in Row
    <2>1. "admitted" \in DispatchPhases /\ "in_progress" \in TaskStatus
          /\ "preparing" \in RunStatus
      BY DEF DispatchPhases, ActivePhases, TaskStatus, RunStatus
    <2> QED BY <2>1, Literals DEF Row, AdmittedRow
  <1> HIDE DEF row
  <1>5. row.phase \in DispatchPhases
    BY <1>3 DEF DispatchPhases, ActivePhases
  <1>6. /\ e \in Event /\ e.type = "admitted" /\ e.from = rows[r].phase
        /\ e.to = row.phase /\ e.outcome = NoOutcome /\ e.at = row.updatedAt
    <2>1. rows[r].phase \in DispatchPhases \cup {"absent"} /\ epoch \in Nat
      BY <1>2 DEF TypeOK
    <2>2. "admitted" \in EventTypes
      BY DEF EventTypes
    <2> QED BY <1>4, <1>5, <2>1, <2>2, EventOfType, Literals
  <1>7. rows'[r] = row /\ events'[r] = Append(events[r], e)
        /\ \A q \in Requests \ {r} : rows'[q] = rows[q] /\ events'[q] = events[q]
    BY <1>1, WriteOne
  <1> HIDE DEF e
  <1>8. rows[r].version = 0 /\ rows[r].updatedAt = 0 /\ rows[r].outcome = NoOutcome
        /\ rows[r].process = NoProcess
    BY <1>2 DEF Uncoded, Exists, NoRow
  <1>9. 0 <= ts
    BY Literals
  <1>10. Moves(r, "admitted", e)
    BY <1>2, <1>3, <1>4, <1>6, <1>7, <1>8, <1>9 DEF Moves
  <1>11. epoch' = epoch /\ claims' = claims
    BY DEF Admit
  <1>12. AdmitMove(r)
    BY <1>2, <1>3, <1>6, <1>7, <1>8, <1>10, <1>11 DEF AdmitMove, Silent
  <1> QED BY <1>7, <1>11, <1>12 DEF Stays

\* What an event repeats of the call that caused it.
Reported(e, said, report, by, generation) ==
    /\ e.outcome = report.outcome /\ e.error = said /\ e.process = report.process
    /\ e.by = by /\ e.epoch = generation

\* A committed transition as its row sees it, whatever the edge.
LEMMA CommittedMoves ==
    ASSUME TypeOK, NEW r \in Requests, r \notin defective,
           rows[r].phase \in DispatchPhases,
           NEW to \in DispatchPhases, NEW task \in TaskStatus \cup {Same},
           NEW run \in RunStatus \cup {Same}, NEW effect, NEW code \in Codes,
           NEW fence \in Nat, NEW report \in Report \cup {NoReport},
           NEW ts \in Nat, NEW type \in EventTypes, NEW said \in Codes,
           NEW by \in Nat, NEW generation \in Nat,
           rows'[r] = Committed(rows[r], Changed(to, task, run, effect, code),
                                fence, report, ts),
           events'[r] = Append(events[r],
                               EventOf(type, rows[r].phase, rows'[r], said, report, by,
                                       generation))
    PROVE  LET e == EventOf(type, rows[r].phase, rows'[r], said, report, by, generation)
           IN  /\ Moves(r, type, e)
               /\ report = NoReport => Silent(r, e)
               /\ Reported(e, said, report, by, generation)
               /\ Rewritten(rows[r], rows'[r], to, task, run, code, fence, report)
  <1> DEFINE e == EventOf(type, rows[r].phase, rows'[r], said, report, by, generation)
  <1>1. rows[r] \in Row /\ ts \in Nat
    BY Literals DEF TypeOK
  <1>2. rows'[r] \in Row
        /\ Rewritten(rows[r], rows'[r], to, task, run, code, fence, report)
    <2> DEFINE new == Committed(rows[r], Changed(to, task, run, effect, code),
                                fence, report, ts)
    <2>1. new \in Row /\ Rewritten(rows[r], new, to, task, run, code, fence, report)
      BY <1>1, CommittedRow
    <2>2. rows'[r] = new
      OBVIOUS
    <2> HIDE DEF new
    <2> QED BY <2>1, <2>2
  <1>3. /\ e \in Event
        /\ e.type = type /\ e.from = rows[r].phase /\ e.to = rows'[r].phase
        /\ e.outcome = report.outcome /\ e.error = said
        /\ e.process = report.process /\ e.at = rows'[r].updatedAt
        /\ e.by = by /\ e.epoch = generation
    BY SMTT(30), <1>2, EventOfType DEF Rewritten
  <1> HIDE DEF e
  <1>4. events'[r] = Append(events[r], e)
    BY DEF e
  <1>5. Moves(r, type, e)
    BY <1>2, <1>3, <1>4 DEF Moves, Rewritten
  <1>6. report = NoReport => Silent(r, e)
    BY <1>2, <1>3, Literals DEF Silent, Rewritten
  <1>7. Reported(e, said, report, by, generation)
    BY <1>3 DEF Reported
  <1> QED BY <1>2, <1>5, <1>6, <1>7 DEF e

\* A claim as its row and the others see it.
LEMMA ClaimStep ==
    ASSUME TypeOK, NEW r \in Requests, NEW ts \in Nat, Claim(r, ts)
    PROVE  ClaimMove(r) /\ \A q \in Requests \ {r} : Stays(q)
  <1> DEFINE new == Committed(rows[r], Changed("running", Same, "running", "mint", NoCode),
                              Len(claims) + 1, NoReport, ts)
             e == EventOf("started", rows[r].phase, new, NoCode, NoReport, NoFence, epoch)
  <1>1. /\ r \notin defective /\ rows[r].phase = "admitted"
        /\ Write(r, new, "started", NoCode, NoReport, NoFence)
    BY ClaimEffect
  <1>2. /\ rows'[r] = new
        /\ events'[r] = Append(events[r], e)
        /\ \A q \in Requests \ {r} : rows'[q] = rows[q] /\ events'[q] = events[q]
    BY <1>1, WriteOne
  <1>3. /\ epoch' = epoch
        /\ claims' = Append(claims, [request |-> r, epoch |-> epoch])
    BY DEF Claim
  <1>4. Len(claims) + 1 \in Nat /\ epoch \in Nat
    BY DEF TypeOK
  <1>5. /\ "running" \in DispatchPhases /\ "running" \in RunStatus
        /\ "started" \in EventTypes /\ rows[r].phase \in DispatchPhases
    BY <1>1 DEF DispatchPhases, ActivePhases, RunStatus, EventTypes
  <1>6. e = EventOf("started", rows[r].phase, rows'[r], NoCode, NoReport, NoFence, epoch)
    BY <1>2
  <1>7. /\ Moves(r, "started", e)
        /\ Silent(r, e)
        /\ Rewritten(rows[r], rows'[r], "running", Same, "running", NoCode,
                     Len(claims) + 1, NoReport)
    <2> DEFINE fence == Len(claims) + 1
               ev == EventOf("started", rows[r].phase, rows'[r], NoCode, NoReport,
                             NoFence, epoch)
    <2>1. /\ rows'[r] = Committed(rows[r],
                                  Changed("running", Same, "running", "mint", NoCode),
                                  fence, NoReport, ts)
          /\ events'[r] = Append(events[r], ev)
      BY <1>2
    <2>2. r \notin defective /\ fence \in Nat /\ NoFence \in Nat /\ NoCode \in Codes
      BY <1>1, <1>4, Literals
    <2>3. Same \in TaskStatus \cup {Same} /\ "running" \in RunStatus \cup {Same}
          /\ NoReport \in Report \cup {NoReport}
      BY <1>5
    <2> HIDE DEF new, e, fence, ev
    <2>4. /\ Moves(r, "started", ev)
          /\ Silent(r, ev)
          /\ Rewritten(rows[r], rows'[r], "running", Same, "running", NoCode,
                       fence, NoReport)
      BY <1>4, <1>5, <2>1, <2>2, <2>3, CommittedMoves DEF ev
    <2> QED BY <1>6, <2>4 DEF fence, ev
  <1> HIDE DEF e
  <1> HIDE DEF new
  <1>8. ClaimMove(r)
    BY <1>1, <1>3, <1>5, <1>7, Literals DEF ClaimMove, Rewritten
  <1> QED BY <1>2, <1>3, <1>8 DEF Stays

\* A finish as its row and the others see it.
LEMMA FinishStep ==
    ASSUME TypeOK, NEW r \in Requests, NEW fence \in 1..Len(claims),
           NEW report \in Report, NEW ts \in Nat,
           Finish(r, fence, report, ts)
    PROVE  FinishMove(r) /\ \A q \in Requests \ {r} : Stays(q)
  <1> DEFINE s == FinishedStatuses(report.outcome)
             t == IF rows[r].phase = "running" THEN s ELSE <<"cancelled", "cancelled", "stopped">>
             new == Committed(rows[r], Changed(t[1], t[2], t[3], "require", NoCode),
                              fence, report, ts)
             e == EventOf("finished", rows[r].phase, new, report.error, report, fence, epoch)
  <1>1. /\ r \notin defective
        /\ rows[r].phase \in {"running", "cancel_requested"}
        /\ rows[r].fence = fence
        /\ ValidFinish(report)
        /\ Write(r, new, "finished", report.error, report, fence)
    <2>1. CASE rows[r].phase = "running"
      BY <2>1, FinishEffect
    <2>2. CASE rows[r].phase # "running"
      <3>1. t[1] = "cancelled" /\ t[2] = "cancelled" /\ t[3] = "stopped"
        BY <2>2
      <3> QED BY <2>2, <3>1, FinishEffect
    <2> QED BY <2>1, <2>2
  <1>2. /\ rows'[r] = new
        /\ events'[r] = Append(events[r], e)
        /\ \A q \in Requests \ {r} : rows'[q] = rows[q] /\ events'[q] = events[q]
    BY <1>1, WriteOne
  <1>3. epoch' = epoch /\ claims' = claims
    BY DEF Finish
  <1>4. fence \in Nat /\ epoch \in Nat
    BY DEF TypeOK
  <1>5. /\ "finished" \in EventTypes /\ rows[r].phase \in DispatchPhases
        /\ t[1] \in DispatchPhases /\ t[2] \in TaskStatus /\ t[3] \in RunStatus
    <2>1. s[1] \in DispatchPhases /\ s[2] \in TaskStatus /\ s[3] \in RunStatus
      BY ReportFields DEF FinishedStatuses, Outcomes, DispatchPhases, TerminalPhases,
                          TaskStatus, RunStatus
    <2>2. /\ "cancelled" \in DispatchPhases /\ "cancelled" \in TaskStatus
          /\ "stopped" \in RunStatus /\ "finished" \in EventTypes
          /\ {"running", "cancel_requested"} \subseteq DispatchPhases
      BY DEF DispatchPhases, ActivePhases, TerminalPhases, TaskStatus, RunStatus, EventTypes
    <2> HIDE DEF s
    <2> QED BY <1>1, <2>1, <2>2
  <1>6. e = EventOf("finished", rows[r].phase, rows'[r], report.error, report, fence, epoch)
    BY <1>2
  <1>7. /\ Moves(r, "finished", e)
        /\ e.outcome = report.outcome /\ e.error = report.error
        /\ e.process = report.process /\ e.by = fence /\ e.epoch = epoch
        /\ Rewritten(rows[r], rows'[r], t[1], t[2], t[3], NoCode, fence, report)
    <2> DEFINE to == t[1]
               task == t[2]
               run == t[3]
               ev == EventOf("finished", rows[r].phase, rows'[r], report.error, report,
                             fence, epoch)
    <2>1. /\ to \in DispatchPhases /\ task \in TaskStatus \cup {Same}
          /\ run \in RunStatus \cup {Same}
      BY <1>5
    <2>2. /\ rows'[r] = Committed(rows[r], Changed(to, task, run, "require", NoCode),
                                  fence, report, ts)
          /\ events'[r] = Append(events[r], ev)
      BY <1>2
    <2>3. report \in Report \cup {NoReport} /\ report.error \in Codes
      BY ReportFields
    <2> HIDE DEF e, t, s, to, task, run
    <2>4. /\ Moves(r, "finished", ev)
          /\ Reported(ev, report.error, report, fence, epoch)
          /\ Rewritten(rows[r], rows'[r], to, task, run, NoCode, fence, report)
      <3>1. r \notin defective /\ rows[r].phase \in DispatchPhases
        BY <1>1, <1>5
      <3>2. "finished" \in EventTypes /\ NoCode \in Codes
        BY <1>5, Literals
      <3> HIDE DEF ev
      <3> QED BY ZenonT(60), <3>1, <3>2, <1>4, <2>1, <2>2, <2>3, CommittedMoves DEF ev
    <2> QED BY <1>6, <2>4 DEF to, task, run, Reported
  <1>8. e.outcome = "completed" => IsCleanCompletion(e.error, e.process)
    <2> HIDE DEF e
    <2> QED BY <1>1, <1>7 DEF ValidFinish
  <1>9. IF rows[r].phase = "running"
        THEN t[1] = s[1] /\ t[2] = s[2] /\ t[3] = s[3]
        ELSE t[1] = "cancelled" /\ t[2] = "cancelled" /\ t[3] = "stopped"
    OBVIOUS
  <1>10. FinishMove(r)
    <2> HIDE DEF e, t, new
    <2> QED BY <1>1, <1>3, <1>5, <1>7, <1>8, <1>9, Literals, ReportFields
            DEF FinishMove, Rewritten
  <1> QED
    <2> HIDE DEF e, new
    <2> QED BY <1>2, <1>3, <1>10 DEF Stays

\* A transition without a report, as its row sees it: the case of
\* CommittedMoves that cancel and recovery share.
LEMMA SilentMoves ==
    ASSUME TypeOK, NEW r \in Requests, r \notin defective,
           rows[r].phase \in DispatchPhases,
           NEW to \in DispatchPhases, NEW task \in TaskStatus \cup {Same},
           NEW run \in RunStatus \cup {Same}, NEW effect, NEW code \in Codes,
           NEW fence \in Nat, NEW ts \in Nat, NEW type \in EventTypes,
           NEW said \in Codes, NEW generation \in Nat,
           rows'[r] = Committed(rows[r], Changed(to, task, run, effect, code),
                                fence, NoReport, ts),
           events'[r] = Append(events[r],
                               EventOf(type, rows[r].phase, rows'[r], said, NoReport,
                                       NoFence, generation))
    PROVE  \E e : /\ Moves(r, type, e)
                  /\ Silent(r, e)
                  /\ Rewritten(rows[r], rows'[r], to, task, run, code, fence, NoReport)
  <1> DEFINE ev == EventOf(type, rows[r].phase, rows'[r], said, NoReport, NoFence, generation)
  <1>1. NoReport \in Report \cup {NoReport} /\ NoFence \in Nat
    BY Literals
  <1>2. events'[r] = Append(events[r], ev)
    OBVIOUS
  <1> HIDE DEF ev
  <1>3. /\ Moves(r, type, ev)
        /\ Silent(r, ev)
        /\ Rewritten(rows[r], rows'[r], to, task, run, code, fence, NoReport)
    BY <1>1, <1>2, CommittedMoves DEF ev
  <1> QED BY <1>3

\* A cancel as its row and the others see it.
LEMMA CancelStep ==
    ASSUME TypeOK, NEW r \in Requests, NEW ts \in Nat, Cancel(r, ts)
    PROVE  CancelMove(r) /\ \A q \in Requests \ {r} : Stays(q)
  <1>1. epoch' = epoch /\ claims' = claims
    BY DEF Cancel
  <1>2. rows[r].fence \in Nat /\ epoch \in Nat
    BY DEF TypeOK, Row
  <1>3. r \notin defective
    BY CancelEffect
  <1>4. /\ "cancel_requested" \in DispatchPhases /\ "cancelled" \in DispatchPhases
        /\ {"running", "admitted", "recovery_pending"} \subseteq DispatchPhases
        /\ "cancelled" \in TaskStatus /\ {"failed", "stopped"} \subseteq RunStatus
        /\ "cancel_requested" \in EventTypes /\ "finished" \in EventTypes
    BY DEF DispatchPhases, ActivePhases, TerminalPhases, TaskStatus, RunStatus, EventTypes
  <1>5. CASE rows[r].phase = "running"
    <2> DEFINE new == Committed(rows[r],
                                Changed("cancel_requested", Same, Same, "keep", NoCode),
                                rows[r].fence, NoReport, ts)
    <2>1. Write(r, new, "cancel_requested", NoCode, NoReport, NoFence)
      BY <1>5, CancelEffect
    <2>2. /\ rows'[r] = new
          /\ events'[r] = Append(events[r],
                 EventOf("cancel_requested", rows[r].phase, rows'[r], NoCode, NoReport,
                         NoFence, epoch))
          /\ \A q \in Requests \ {r} : rows'[q] = rows[q] /\ events'[q] = events[q]
      BY <2>1, WriteOne
    <2>3. PICK e : /\ Moves(r, "cancel_requested", e)
                   /\ Silent(r, e)
                   /\ Rewritten(rows[r], rows'[r], "cancel_requested", Same, Same, NoCode,
                                rows[r].fence, NoReport)
      BY SMTT(30), <1>2, <1>3, <1>4, <1>5, <2>2, SilentMoves, Literals
    <2> HIDE DEF new
    <2>4. CancelMove(r)
      <3> DEFINE type == "cancel_requested"
      <3>1. type \in {"cancel_requested", "finished"} /\ type = "cancel_requested"
        OBVIOUS
      <3> QED BY <1>1, <1>5, <2>3, <3>1, Literals DEF CancelMove, Rewritten
    <2> QED BY <1>1, <2>2, <2>4 DEF Stays
  <1>6. CASE rows[r].phase # "running"
    <2>1. PICK run \in {"failed", "stopped"} :
             Write(r, Committed(rows[r], Changed("cancelled", "cancelled", run, "keep", NoCode),
                                rows[r].fence, NoReport, ts),
                   "finished", NoCode, NoReport, NoFence)
      BY <1>6, CancelEffect
    <2>2. rows[r].phase \in {"admitted", "recovery_pending"}
      BY <1>6, CancelEffect
    <2>3. /\ rows'[r] = Committed(rows[r],
                                  Changed("cancelled", "cancelled", run, "keep", NoCode),
                                  rows[r].fence, NoReport, ts)
          /\ events'[r] = Append(events[r],
                 EventOf("finished", rows[r].phase, rows'[r], NoCode, NoReport,
                         NoFence, epoch))
          /\ \A q \in Requests \ {r} : rows'[q] = rows[q] /\ events'[q] = events[q]
      BY <2>1, WriteOne
    <2>4. rows[r].phase \in DispatchPhases /\ run \in RunStatus
      BY <1>4, <2>2
    <2>5. PICK e : /\ Moves(r, "finished", e)
                   /\ Silent(r, e)
                   /\ Rewritten(rows[r], rows'[r], "cancelled", "cancelled", run, NoCode,
                                rows[r].fence, NoReport)
      BY SMTT(30), <1>2, <1>3, <1>4, <2>3, <2>4, SilentMoves, Literals
    <2>6. CancelMove(r)
      <3> DEFINE type == "finished"
      <3>1. type \in {"cancel_requested", "finished"} /\ type # "cancel_requested"
        OBVIOUS
      <3> QED BY <1>1, <1>4, <2>2, <2>4, <2>5, <3>1, Literals DEF CancelMove, Rewritten
    <2> QED BY <1>1, <2>3, <2>6 DEF Stays
  <1> QED BY <1>5, <1>6

\* Reopening as each row sees it: an intact active one is recovered, every
\* other stays.
LEMMA OpenStep ==
    ASSUME TypeOK, NEW ts \in Nat, Open(ts), NEW r \in Requests
    PROVE  RecoverMove(r) \/ Stays(r)
  <1>1. claims' = claims /\ epoch \in Nat /\ epoch + 1 \in Nat
    BY DEF Open, TypeOK
  <1>2. CASE ~Recoverable(r)
    <2>1. rows'[r] = rows[r] /\ events'[r] = events[r]
      BY <1>2 DEF Open
    <2>2. rows[r].phase \notin ActivePhases \/ r \in defective
      BY <1>2 DEF Recoverable, Load, Exists, ActivePhases
    <2> QED BY <1>1, <2>1, <2>2 DEF Stays
  <1>3. CASE Recoverable(r)
    <2> DEFINE fence == IF RecoverEdge(rows[r].phase).fence = "clear"
                        THEN NoFence ELSE rows[r].fence
    <2>1. r \notin defective /\ rows[r].phase \in ActivePhases
      BY <1>3 DEF Recoverable, Load
    <2>2. /\ rows'[r] = Committed(rows[r], RecoverEdge(rows[r].phase), fence, NoReport, ts)
          /\ events'[r] = Append(events[r],
                 EventOf("recovered", rows[r].phase, rows'[r],
                         RecoverEdge(rows[r].phase).error, NoReport, NoFence, epoch + 1))
      BY <1>3 DEF Open, Recovered
    <2>3. /\ {"failed", "recovery_pending"} \subseteq DispatchPhases
          /\ rows[r].phase \in DispatchPhases
          /\ "blocked" \in TaskStatus /\ {"failed", "stale"} \subseteq RunStatus
          /\ "recovered" \in EventTypes
      BY <2>1 DEF DispatchPhases, ActivePhases, TerminalPhases, TaskStatus, RunStatus,
                  EventTypes
    <2>4. rows[r].fence \in Nat
      BY DEF TypeOK, Row
    <2>5. CASE rows[r].phase = "admitted"
      <3>1. RecoverEdge(rows[r].phase)
              = Changed("failed", "blocked", "failed", "keep", "interrupted")
        BY <2>1, <2>5, RecoverEdges
      <3>2. RecoverEdge(rows[r].phase).error = "interrupted" /\ fence = rows[r].fence
        BY <3>1 DEF Changed
      <3>3. PICK e : /\ Moves(r, "recovered", e)
                     /\ Silent(r, e)
                     /\ Rewritten(rows[r], rows'[r], "failed", "blocked", "failed",
                                  "interrupted", rows[r].fence, NoReport)
        <4> HIDE DEF fence
        <4> QED BY <1>1, <2>1, <2>2, <2>3, <2>4, <3>1, <3>2, SilentMoves, Literals
      <3> QED BY <1>1, <2>3, <2>5, <3>3, Literals DEF RecoverMove, Rewritten
    <2>6. CASE rows[r].phase # "admitted"
      <3>1. /\ rows[r].phase \in {"running", "cancel_requested"}
            /\ RecoverEdge(rows[r].phase)
                  = Changed("recovery_pending", "blocked", "stale", "clear", "interrupted")
        BY <2>1, <2>6, RecoverEdges
      <3>2. RecoverEdge(rows[r].phase).error = "interrupted" /\ fence = NoFence
        BY <3>1 DEF Changed
      <3>3. PICK e : /\ Moves(r, "recovered", e)
                     /\ Silent(r, e)
                     /\ Rewritten(rows[r], rows'[r], "recovery_pending", "blocked", "stale",
                                  "interrupted", NoFence, NoReport)
        <4> HIDE DEF fence
        <4> QED BY <1>1, <2>1, <2>2, <2>3, <3>1, <3>2, SilentMoves, Literals
      <3> QED BY <1>1, <2>3, <2>6, <3>1, <3>3, Literals DEF RecoverMove, Rewritten
    <2> QED BY <2>5, <2>6
  <1> QED BY <1>2, <1>3

\* The transactions with any reading of the clock at all: none of what
\* follows depends on which readings there are.
AnyClockNext ==
    \/ \E r \in Requests, res \in Resources, fp \in Fingerprints, ts \in Nat :
          Admit(r, res, fp, ts)
    \/ \E r \in Requests, ts \in Nat : Claim(r, ts)
    \/ \E r \in Requests, fence \in 1..Len(claims), report \in Report, ts \in Nat :
          Finish(r, fence, report, ts)
    \/ \E r \in Requests, ts \in Nat : Cancel(r, ts)
    \/ \E ts \in Nat : Open(ts)
    \/ Crash
    \/ \E found \in BOOLEAN : Detect(found)
    \/ \E r \in Requests : Corrupt(r)

LEMMA ClockReadings == [Next]_vars => [AnyClockNext]_vars
  BY StoreAssumption DEF Next, AnyClockNext

\* Every step of the program is, for every row, one of the moves above.
LEMMA EveryStep ==
    ASSUME TypeOK, Uncoded, [AnyClockNext]_vars, NEW r \in Requests
    PROVE  RowStep(r)
  <1>1. CASE \E q \in Requests, res \in Resources, fp \in Fingerprints, ts \in Nat :
                Admit(q, res, fp, ts)
    BY <1>1, AdmitStep DEF RowStep
  <1>2. CASE \E q \in Requests, ts \in Nat : Claim(q, ts)
    BY <1>2, ClaimStep DEF RowStep
  <1>3. CASE \E q \in Requests, fence \in 1..Len(claims), report \in Report,
                ts \in Nat : Finish(q, fence, report, ts)
    BY <1>3, FinishStep DEF RowStep
  <1>4. CASE \E q \in Requests, ts \in Nat : Cancel(q, ts)
    BY <1>4, CancelStep DEF RowStep
  <1>5. CASE \E ts \in Nat : Open(ts)
    BY <1>5, OpenStep DEF RowStep
  <1>6. CASE UNCHANGED <<rows, events, claims, epoch>>
    BY <1>6 DEF RowStep, Stays
  <1> QED
    BY <1>1, <1>2, <1>3, <1>4, <1>5, <1>6 DEF AnyClockNext, vars, Crash, Detect, Corrupt

\* What a step does to the variables as a whole.
LEMMA Shape ==
    ASSUME TypeOK, [AnyClockNext]_vars
    PROVE  /\ rows' = [r \in Requests |-> rows'[r]]
           /\ events' = [r \in Requests |-> events'[r]]
           /\ defective \subseteq defective' /\ defective' \subseteq Requests
           /\ detected' \in BOOLEAN /\ open' \in BOOLEAN
           /\ epoch' \in Nat
           /\ \/ claims' = claims
              \/ \E q \in Requests : claims' = Append(claims, [request |-> q, epoch |-> epoch])
  <1> USE DEF TypeOK
  <1>1. ASSUME NEW q \in Requests, NEW res \in Resources, NEW fp \in Fingerprints,
               NEW ts \in Nat, Admit(q, res, fp, ts)
        PROVE  UNCHANGED <<defective, detected, open, claims, epoch>>
               /\ rows' = [r \in Requests |-> rows'[r]]
               /\ events' = [r \in Requests |-> events'[r]]
    BY <1>1 DEF Admit, Write
  <1>2. ASSUME NEW q \in Requests, NEW ts \in Nat, Claim(q, ts)
        PROVE  /\ UNCHANGED <<defective, detected, open, epoch>>
               /\ claims' = Append(claims, [request |-> q, epoch |-> epoch])
               /\ rows' = [r \in Requests |-> rows'[r]]
               /\ events' = [r \in Requests |-> events'[r]]
    BY <1>2 DEF Claim, Write
  <1>3. ASSUME NEW q \in Requests, NEW fence \in 1..Len(claims), NEW report \in Report,
               NEW ts \in Nat, Finish(q, fence, report, ts)
        PROVE  UNCHANGED <<defective, detected, open, claims, epoch>>
               /\ rows' = [r \in Requests |-> rows'[r]]
               /\ events' = [r \in Requests |-> events'[r]]
    BY <1>3 DEF Finish, Write
  <1>4. ASSUME NEW q \in Requests, NEW ts \in Nat, Cancel(q, ts)
        PROVE  UNCHANGED <<defective, detected, open, claims, epoch>>
               /\ rows' = [r \in Requests |-> rows'[r]]
               /\ events' = [r \in Requests |-> events'[r]]
    BY <1>4 DEF Cancel, Write
  <1>5. ASSUME NEW ts \in Nat, Open(ts)
        PROVE  /\ UNCHANGED <<defective, detected, claims>>
               /\ open' \in BOOLEAN /\ epoch' \in Nat
               /\ rows' = [r \in Requests |-> rows'[r]]
               /\ events' = [r \in Requests |-> events'[r]]
    <2>1. open' \in BOOLEAN
      BY <1>5, Zenon DEF Open
    <2> QED BY <1>5, <2>1 DEF Open
  <1>6. CASE Crash
    BY <1>6 DEF Crash
  <1>7. CASE \E found \in BOOLEAN : Detect(found)
    BY <1>7 DEF Detect
  <1>8. CASE \E q \in Requests : Corrupt(q)
    BY <1>8 DEF Corrupt
  <1>9. CASE UNCHANGED vars
    BY <1>9 DEF vars
  <1>10. CASE \E ts \in Nat : Open(ts)
    BY <1>5, <1>10
  <1>11. CASE \E q \in Requests, res \in Resources, fp \in Fingerprints, ts \in Nat :
                Admit(q, res, fp, ts)
    BY <1>1, <1>11
  <1>12. CASE \E q \in Requests, ts \in Nat : Claim(q, ts)
    BY <1>2, <1>12
  <1>13. CASE \E q \in Requests, fence \in 1..Len(claims), report \in Report,
                ts \in Nat : Finish(q, fence, report, ts)
    BY <1>3, <1>13
  <1>14. CASE \E q \in Requests, ts \in Nat : Cancel(q, ts)
    BY <1>4, <1>14
  <1> HIDE DEF TypeOK
  <1> QED
    BY <1>6, <1>7, <1>8, <1>9, <1>10, <1>11, <1>12, <1>13, <1>14 DEF AnyClockNext

----------------------------------------------------------------------------
(* Every move keeps every conjunct of IInv.                                *)

\* A move writes a row and an event of the right kind.
LEMMA TypeStep ==
    ASSUME TypeOK, Uncoded, [AnyClockNext]_vars
    PROVE  TypeOK'
  <1>1. ASSUME NEW r \in Requests PROVE rows'[r] \in Row /\ events'[r] \in Seq(Event)
    <2>1. RowStep(r)
      BY EveryStep
    <2>2. events[r] \in Seq(Event) /\ rows[r] \in Row
      BY DEF TypeOK
    <2>3. CASE Stays(r)
      BY <2>2, <2>3 DEF Stays
    <2>4. CASE \E type, e : Moves(r, type, e)
      BY <2>2, <2>4 DEF Moves
    <2> QED
      BY <2>1, <2>3, <2>4 DEF RowStep, AdmitMove, ClaimMove, FinishMove, CancelMove, RecoverMove
  <1>2. claims' \in Seq([request : Requests, epoch : Nat])
    <2>1. ASSUME NEW q \in Requests,
                 claims' = Append(claims, [request |-> q, epoch |-> epoch])
          PROVE  claims' \in Seq([request : Requests, epoch : Nat])
      <3>1. [request |-> q, epoch |-> epoch] \in [request : Requests, epoch : Nat]
        BY DEF TypeOK
      <3> QED BY <2>1, <3>1 DEF TypeOK
    <2> QED BY <2>1, Shape DEF TypeOK
  <1> QED BY <1>1, <1>2, Shape DEF TypeOK

\* Appending to the claims leaves the earlier ones where they are.
LEMMA ClaimsGrow ==
    ASSUME TypeOK, [AnyClockNext]_vars, NEW i \in 1..Len(claims)
    PROVE  i \in 1..Len(claims') /\ claims'[i] = claims[i]
  <1>1. claims \in Seq([request : Requests, epoch : Nat])
    BY DEF TypeOK
  <1>2. CASE claims' = claims
    BY <1>2
  <1>3. ASSUME NEW q \in Requests, claims' = Append(claims, [request |-> q, epoch |-> epoch])
        PROVE  i \in 1..Len(claims') /\ claims'[i] = claims[i]
    BY <1>1, <1>3
  <1> QED BY <1>2, <1>3, Shape

\* The row and the events of an attempt end in the same phase.
LEMMA LogStep ==
    ASSUME TypeOK, Uncoded, LogReplays, [AnyClockNext]_vars
    PROVE  LogReplays'
  <1> SUFFICES ASSUME NEW r \in Requests
               PROVE  /\ rows'[r].version = Len(events'[r])
                      /\ \A i \in 1..Len(events'[r]) :
                            events'[r][i].from = (IF i = 1 THEN "absent" ELSE events'[r][i - 1].to)
                      /\ rows'[r].phase = (IF events'[r] = << >> THEN "absent"
                                           ELSE Last(events'[r]).to)
    BY DEF LogReplays, Last
  <1>1. RowStep(r)
    BY EveryStep
  <1>2. CASE Stays(r)
    BY <1>2 DEF Stays, LogReplays, Last
  <1>3. CASE \E type, e : Moves(r, type, e)
    <2>1. PICK type, e : Moves(r, type, e)
      BY <1>3
    <2>2. /\ events[r] \in Seq(Event) /\ e \in Event /\ rows[r].version = Len(events[r])
          /\ events'[r] = Append(events[r], e)
          /\ e.from = rows[r].phase /\ e.to = rows'[r].phase
          /\ rows'[r].version = rows[r].version + 1
      BY <2>1 DEF TypeOK, Moves, LogReplays
    <2>3. /\ Len(events'[r]) = Len(events[r]) + 1 /\ Len(events[r]) \in Nat
          /\ \A i \in 1..Len(events[r]) : events'[r][i] = events[r][i]
          /\ events'[r][Len(events[r]) + 1] = e
          /\ events'[r] # << >>
      BY <2>2
    <2>4. rows[r].phase = (IF Len(events[r]) = 0 THEN "absent" ELSE events[r][Len(events[r])].to)
      BY <2>2 DEF LogReplays, Last
    <2>5. ASSUME NEW i \in 1..Len(events'[r])
          PROVE  events'[r][i].from = (IF i = 1 THEN "absent" ELSE events'[r][i - 1].to)
      <3>1. CASE i = Len(events[r]) + 1
        BY <2>2, <2>3, <2>4, <3>1
      <3>2. CASE i \in 1..Len(events[r])
        BY SMTT(30), <2>3, <3>2 DEF LogReplays
      <3> QED BY <2>3, <3>1, <3>2
    <2> QED BY <2>2, <2>3, <2>5 DEF Last
  <1> QED
    BY <1>1, <1>2, <1>3
       DEF RowStep, AdmitMove, ClaimMove, FinishMove, CancelMove, RecoverMove

\* An attempt gets its first code when it ends or is recovered.
LEMMA UncodedStep ==
    ASSUME TypeOK, Uncoded, [AnyClockNext]_vars
    PROVE  Uncoded'
  <1> SUFFICES ASSUME NEW r \in Requests
               PROVE  /\ rows'[r].phase = "absent" => rows'[r] = NoRow
                      /\ rows'[r].phase \in ActivePhases =>
                            rows'[r].error = NoCode /\ rows'[r].outcome = NoOutcome
    BY DEF Uncoded, Exists, NoRow
  <1>0. /\ rows[r].phase = "absent" => rows[r] = NoRow
        /\ rows[r].phase \in ActivePhases =>
              rows[r].error = NoCode /\ rows[r].outcome = NoOutcome
    BY DEF Uncoded, Exists
  <1>1. RowStep(r)
    BY EveryStep
  <1>2. CASE AdmitMove(r)
    BY <1>2 DEF AdmitMove
  <1>3. CASE ClaimMove(r)
    BY <1>0, <1>3 DEF ClaimMove, Silent, ActivePhases
  <1>4. CASE FinishMove(r)
    <2>1. PICK o \in Outcomes : rows'[r].phase \in {FinishedStatuses(o)[1], "cancelled"}
      BY <1>4 DEF FinishMove
    <2>2. rows'[r].phase \in TerminalPhases
      BY <2>1 DEF FinishedStatuses, Outcomes, TerminalPhases
    <2> QED BY <2>2 DEF ActivePhases, TerminalPhases
  <1>5. CASE CancelMove(r)
    BY <1>0, <1>5 DEF CancelMove, Silent, ActivePhases
  <1>6. CASE RecoverMove(r)
    BY <1>6 DEF RecoverMove, ActivePhases
  <1>7. CASE Stays(r)
    BY <1>0, <1>7 DEF Stays
  <1> QED BY <1>1, <1>2, <1>3, <1>4, <1>5, <1>6, <1>7 DEF RowStep

\* The statuses a finish writes are those its phase allows.
LEMMA FinishedAllowed ==
    ASSUME NEW o \in Outcomes
    PROVE  LET s == FinishedStatuses(o)
           IN  /\ s[1] \in TerminalPhases
               /\ <<s[2], s[3]>> \in AllowedStatuses(s[1])
               /\ s[1] = "completed" => o = "completed"
               /\ s[3] = "succeeded" => o = "completed"
  BY DEF FinishedStatuses, Outcomes, AllowedStatuses, TerminalPhases

\* Every phase but completed excludes a succeeded Run.
LEMMA SuccessPhase ==
    ASSUME NEW p \in DispatchPhases, NEW t, <<t, "succeeded">> \in AllowedStatuses(p)
    PROVE  p = "completed"
  BY DEF AllowedStatuses, DispatchPhases, ActivePhases, TerminalPhases

\* The statuses and the evidence of a row the program writes load again.
LEMMA RowsStep ==
    ASSUME TypeOK, Uncoded, RowsLoad, [AnyClockNext]_vars
    PROVE  RowsLoad'
  <1> SUFFICES ASSUME NEW r \in Requests
               PROVE  /\ rows'[r].phase # "absent" =>
                            <<rows'[r].task, rows'[r].run>> \in AllowedStatuses(rows'[r].phase)
                      /\ rows'[r].phase = "completed" =>
                            /\ rows'[r].outcome = "completed"
                            /\ IsCleanCompletion(rows'[r].error, rows'[r].process)
    BY DEF RowsLoad, Exists
  <1>0. /\ rows[r].phase # "absent" =>
              <<rows[r].task, rows[r].run>> \in AllowedStatuses(rows[r].phase)
        /\ rows[r].phase = "completed" =>
              /\ rows[r].outcome = "completed"
              /\ IsCleanCompletion(rows[r].error, rows[r].process)
    BY DEF RowsLoad, Exists
  <1>1. RowStep(r)
    BY EveryStep
  <1>2. CASE AdmitMove(r)
    BY <1>2 DEF AdmitMove, AllowedStatuses
  <1>3. CASE ClaimMove(r)
    <2>1. rows[r].task = "in_progress"
      BY <1>0, <1>3 DEF ClaimMove, AllowedStatuses
    <2> QED BY <1>3, <2>1 DEF ClaimMove, AllowedStatuses
  <1>4. CASE FinishMove(r)
    <2>1. PICK e : /\ e.outcome \in Outcomes
                   /\ e.outcome = "completed" => IsCleanCompletion(e.error, e.process)
                   /\ rows'[r].outcome = e.outcome /\ rows'[r].process = e.process
                   /\ rows'[r].error = (IF e.error # NoCode THEN e.error ELSE rows[r].error)
                   /\ \/ /\ rows'[r].phase = FinishedStatuses(e.outcome)[1]
                         /\ rows'[r].task = FinishedStatuses(e.outcome)[2]
                         /\ rows'[r].run = FinishedStatuses(e.outcome)[3]
                      \/ /\ rows'[r].phase = "cancelled" /\ rows'[r].task = "cancelled"
                         /\ rows'[r].run = "stopped"
      BY <1>4 DEF FinishMove
    <2>2. rows[r].error = NoCode
      BY <1>4 DEF FinishMove, Uncoded, ActivePhases
    <2>3. <<rows'[r].task, rows'[r].run>> \in AllowedStatuses(rows'[r].phase)
      <3>1. <<"cancelled", "stopped">> \in AllowedStatuses("cancelled")
        BY DEF AllowedStatuses
      <3> QED BY <2>1, <3>1, FinishedAllowed
    <2>4. rows'[r].phase = "completed" => e.outcome = "completed"
      BY <2>1, FinishedAllowed
    <2>5. rows'[r].phase = "completed" => IsCleanCompletion(rows'[r].error, rows'[r].process)
      BY <2>1, <2>2, <2>4 DEF IsCleanCompletion
    <2> QED BY <2>1, <2>3, <2>4, <2>5
  <1>5. CASE CancelMove(r)
    BY <1>0, <1>5 DEF CancelMove, AllowedStatuses
  <1>6. CASE RecoverMove(r)
    BY <1>6 DEF RecoverMove, AllowedStatuses
  <1>7. CASE Stays(r)
    BY <1>0, <1>7 DEF Stays
  <1> QED BY <1>1, <1>2, <1>3, <1>4, <1>5, <1>6, <1>7 DEF RowStep

\* The phase a finish ends in is terminal.
LEMMA FinishEnds ==
    ASSUME NEW r \in Requests, FinishMove(r)
    PROVE  rows'[r].phase \in TerminalPhases
  <1>1. PICK o \in Outcomes : rows'[r].phase \in {FinishedStatuses(o)[1], "cancelled"}
    BY DEF FinishMove
  <1> QED BY <1>1, FinishedAllowed DEF TerminalPhases

\* A fence is minted by the claim and belongs to the row until it is cleared.
LEMMA FenceStep ==
    ASSUME TypeOK, Uncoded, FenceColumn, FenceKept, [AnyClockNext]_vars
    PROVE  FenceColumn' /\ FenceKept'
  <1> SUFFICES ASSUME NEW r \in Requests
               PROVE  /\ rows'[r].phase \in {"absent", "admitted", "recovery_pending"}
                            => rows'[r].fence = NoFence
                      /\ rows'[r].phase \in {"running", "cancel_requested", "completed"}
                            => rows'[r].fence # NoFence
                      /\ rows'[r].fence # NoFence
                            => rows'[r].fence \in 1..Len(claims')
                               /\ claims'[rows'[r].fence].request = r
    BY DEF FenceColumn, FenceKept
  <1>0. /\ rows[r].phase \in {"absent", "admitted", "recovery_pending"}
              => rows[r].fence = NoFence
        /\ rows[r].phase \in {"running", "cancel_requested", "completed"}
              => rows[r].fence # NoFence
        /\ rows[r].fence # NoFence
              => rows[r].fence \in 1..Len(claims) /\ claims[rows[r].fence].request = r
    BY DEF FenceColumn, FenceKept
  <1>1. rows[r].fence # NoFence
          => rows[r].fence \in 1..Len(claims') /\ claims'[rows[r].fence].request = r
    BY <1>0, ClaimsGrow
  <1>2. RowStep(r)
    BY EveryStep
  <1>3. CASE AdmitMove(r)
    BY <1>3 DEF AdmitMove
  <1>4. CASE ClaimMove(r)
    <2>1. /\ claims' = Append(claims, [request |-> r, epoch |-> epoch])
          /\ claims \in Seq([request : Requests, epoch : Nat])
          /\ rows'[r].fence = Len(claims) + 1 /\ rows'[r].phase = "running"
      BY <1>4 DEF ClaimMove, TypeOK
    <2>2. Len(claims') = Len(claims) + 1 /\ Len(claims) \in Nat
          /\ claims'[Len(claims) + 1] = [request |-> r, epoch |-> epoch]
      BY <2>1
    <2> QED BY <2>1, <2>2 DEF NoFence
  <1>5. CASE FinishMove(r)
    <2>1. rows'[r].phase \in TerminalPhases
      BY <1>5, FinishEnds
    <2>2. rows'[r].fence = rows[r].fence /\ rows[r].phase \in {"running", "cancel_requested"}
      BY <1>5 DEF FinishMove
    <2> QED BY <1>0, <1>1, <2>1, <2>2 DEF TerminalPhases
  <1>6. CASE CancelMove(r)
    BY <1>0, <1>1, <1>6 DEF CancelMove
  <1>7. CASE RecoverMove(r)
    BY <1>0, <1>1, <1>7 DEF RecoverMove
  <1>8. CASE Stays(r)
    BY <1>0, <1>1, <1>8 DEF Stays
  <1> QED BY <1>2, <1>3, <1>4, <1>5, <1>6, <1>7, <1>8 DEF RowStep

\* Only recovery changes the generation, and it takes every claim away.
LEMMA CurrentStep ==
    ASSUME TypeOK, Uncoded, FenceColumn, ClaimsCurrent, [AnyClockNext]_vars
    PROVE  ClaimsCurrent'
  <1> SUFFICES ASSUME NEW r \in Requests, rows'[r].phase \in {"running", "cancel_requested"},
                      r \notin defective
               PROVE  claims'[rows'[r].fence].epoch = epoch'
    BY Shape DEF ClaimsCurrent
  <1>1. RowStep(r)
    BY EveryStep
  <1>2. rows[r].phase \in {"running", "cancel_requested"} =>
           /\ rows[r].fence \in 1..Len(claims)
           /\ claims[rows[r].fence].epoch = epoch
           /\ claims'[rows[r].fence] = claims[rows[r].fence]
    BY ClaimsGrow DEF FenceColumn, ClaimsCurrent
  <1>3. CASE ClaimMove(r)
    <2>1. /\ claims' = Append(claims, [request |-> r, epoch |-> epoch])
          /\ claims \in Seq([request : Requests, epoch : Nat])
          /\ rows'[r].fence = Len(claims) + 1 /\ epoch' = epoch
      BY <1>3 DEF ClaimMove, TypeOK
    <2>2. claims'[Len(claims) + 1] = [request |-> r, epoch |-> epoch]
      BY <2>1
    <2> QED BY <2>1, <2>2
  <1>4. CASE FinishMove(r)
    BY <1>4, FinishEnds DEF TerminalPhases
  <1>5. CASE CancelMove(r)
    BY <1>2, <1>5 DEF CancelMove
  <1>6. CASE Stays(r)
    BY <1>2, <1>6 DEF Stays, ActivePhases
  <1> QED
    BY <1>1, <1>3, <1>4, <1>5, <1>6 DEF RowStep, AdmitMove, RecoverMove

\* The events a step leaves: those there were, and perhaps one more.
LEMMA NewEvents ==
    ASSUME TypeOK, NEW r \in Requests, NEW e \in Event,
           events'[r] = Append(events[r], e), NEW i \in 1..Len(events'[r])
    PROVE  \/ i \in 1..Len(events[r]) /\ events'[r][i] = events[r][i]
           \/ events'[r][i] = e
  <1>1. events[r] \in Seq(Event)
    BY DEF TypeOK
  <1> QED BY <1>1

\* No move leads from a cancelled attempt to any other end.
LEMMA CancelWinsStep ==
    ASSUME TypeOK, Uncoded, CancelWins, [AnyClockNext]_vars
    PROVE  CancelWins'
  <1> SUFFICES ASSUME NEW r \in Requests, NEW i \in 1..Len(events'[r]),
                      events'[r][i].type = "cancel_requested"
               PROVE  rows'[r].phase \in {"cancel_requested", "recovery_pending", "cancelled"}
    BY DEF CancelWins
  <1>1. RowStep(r)
    BY EveryStep
  <1>2. CASE Stays(r)
    BY <1>2 DEF Stays, CancelWins
  <1>3. ASSUME NEW type, NEW e, Moves(r, type, e), type # "cancel_requested"
        PROVE  rows[r].phase \in {"cancel_requested", "recovery_pending", "cancelled"}
    <2>1. e \in Event /\ e.type # "cancel_requested" /\ events'[r] = Append(events[r], e)
      BY <1>3 DEF Moves
    <2>2. i \in 1..Len(events[r]) /\ events'[r][i] = events[r][i]
      BY <2>1, NewEvents
    <2> QED BY <2>2 DEF CancelWins
  <1>4. CASE FinishMove(r)
    <2>1. rows[r].phase \in {"cancel_requested", "recovery_pending", "cancelled"}
      BY <1>3, <1>4 DEF FinishMove
    <2> QED BY <1>4, <2>1 DEF FinishMove
  <1>5. CASE CancelMove(r)
    BY <1>5 DEF CancelMove
  <1>6. CASE RecoverMove(r)
    <2>1. rows[r].phase \in {"cancel_requested", "recovery_pending", "cancelled"}
      BY <1>3, <1>6 DEF RecoverMove
    <2> QED BY <1>6, <2>1 DEF RecoverMove
  <1>7. CASE ClaimMove(r)
    <2>1. rows[r].phase \in {"cancel_requested", "recovery_pending", "cancelled"}
      BY <1>3, <1>7 DEF ClaimMove
    <2> QED BY <1>7, <2>1 DEF ClaimMove
  <1>8. CASE AdmitMove(r)
    <2>1. rows[r].phase \in {"cancel_requested", "recovery_pending", "cancelled"}
      BY <1>3, <1>8 DEF AdmitMove
    <2> QED BY <1>8, <2>1 DEF AdmitMove
  <1> QED BY <1>1, <1>2, <1>4, <1>5, <1>6, <1>7, <1>8 DEF RowStep

\* A finish carries the row's own fence, which is a claim of this generation.
LEMMA ReportStep ==
    ASSUME TypeOK, Uncoded, FenceColumn, ClaimsCurrent, ReportFromClaimant, [AnyClockNext]_vars
    PROVE  ReportFromClaimant'
  <1> SUFFICES ASSUME NEW r \in Requests, NEW i \in 1..Len(events'[r]),
                      events'[r][i].outcome # NoOutcome
               PROVE  /\ events'[r][i].by \in 1..Len(claims')
                      /\ claims'[events'[r][i].by].request = r
                      /\ claims'[events'[r][i].by].epoch = events'[r][i].epoch
    BY DEF ReportFromClaimant
  <1>1. RowStep(r)
    BY EveryStep
  <1>2. CASE i \in 1..Len(events[r]) /\ events'[r][i] = events[r][i]
    BY <1>2, ClaimsGrow DEF ReportFromClaimant
  <1>3. CASE Stays(r)
    BY <1>2, <1>3 DEF Stays
  <1>4. ASSUME NEW type, NEW e, Moves(r, type, e), Silent(r, e)
        PROVE  i \in 1..Len(events[r]) /\ events'[r][i] = events[r][i]
    <2>1. e \in Event /\ e.outcome = NoOutcome /\ events'[r] = Append(events[r], e)
      BY <1>4 DEF Moves, Silent
    <2> QED BY <2>1, NewEvents
  <1>5. CASE FinishMove(r)
    <2>1. PICK e : /\ e \in Event /\ events'[r] = Append(events[r], e)
                   /\ e.by = rows[r].fence /\ e.epoch = epoch
                   /\ rows[r].phase \in {"running", "cancel_requested"}
                   /\ r \notin defective
      BY <1>5 DEF FinishMove, Moves
    <2>2. /\ e.by \in 1..Len(claims) /\ claims[e.by].request = r
          /\ claims[e.by].epoch = e.epoch
      BY <2>1 DEF FenceColumn, ClaimsCurrent
    <2>3. e.by \in 1..Len(claims') /\ claims'[e.by] = claims[e.by]
      BY <2>2, ClaimsGrow
    <2>4. CASE events'[r][i] = e
      BY <2>2, <2>3, <2>4
    <2> QED BY <1>2, <2>1, <2>4, NewEvents
  <1>6. CASE AdmitMove(r) \/ ClaimMove(r) \/ CancelMove(r) \/ RecoverMove(r)
    BY <1>2, <1>4, <1>6 DEF AdmitMove, ClaimMove, CancelMove, RecoverMove
  <1> QED BY <1>1, <1>3, <1>5, <1>6 DEF RowStep

\* A Run succeeds by a finish from running, and nothing touches it again.
LEMMA SuccessStep ==
    ASSUME TypeOK, Uncoded, RowsLoad, FenceColumn, FenceKept, ClaimsCurrent,
           SuccessIsEarned, [AnyClockNext]_vars
    PROVE  SuccessIsEarned'
  <1> SUFFICES ASSUME NEW r \in Requests, rows'[r].run = "succeeded"
               PROVE  LET last == Last(events'[r])
                      IN  /\ last.type = "finished" /\ last.from = "running"
                          /\ last.outcome = "completed"
                          /\ IsCleanCompletion(last.error, last.process)
                          /\ last.epoch = claims'[rows'[r].fence].epoch
    BY DEF SuccessIsEarned, Last
  <1>1. RowStep(r)
    BY EveryStep
  <1>2. CASE Stays(r)
    <2>1. rows[r].run = "succeeded"
      BY <1>2 DEF Stays
    <2>2. rows[r].phase \in DispatchPhases
      <3>1. rows[r].phase # "absent"
        BY <2>1 DEF Uncoded, Exists, NoRow
      <3> QED BY <3>1 DEF TypeOK, Row
    <2>3. <<rows[r].task, "succeeded">> \in AllowedStatuses(rows[r].phase)
      BY <2>1, <2>2 DEF RowsLoad, Exists, DispatchPhases, ActivePhases, TerminalPhases
    <2>4. rows[r].phase = "completed"
      BY <2>2, <2>3, SuccessPhase
    <2>5. rows[r].fence \in 1..Len(claims)
      BY <2>4 DEF FenceKept, FenceColumn
    <2>6. claims'[rows[r].fence] = claims[rows[r].fence]
      BY <2>5, ClaimsGrow
    <2> QED BY <1>2, <2>1, <2>6 DEF Stays, SuccessIsEarned, Last
  <1>3. CASE FinishMove(r)
    <2>1. PICK e : /\ Moves(r, "finished", e)
                   /\ e.outcome \in Outcomes
                   /\ e.outcome = "completed" => IsCleanCompletion(e.error, e.process)
                   /\ rows[r].phase \in {"running", "cancel_requested"}
                   /\ IF rows[r].phase = "running"
                      THEN rows'[r].run = FinishedStatuses(e.outcome)[3]
                      ELSE rows'[r].run = "stopped"
                   /\ e.epoch = epoch /\ rows'[r].fence = rows[r].fence /\ claims' = claims
      BY <1>3 DEF FinishMove
    <2>2. rows[r].phase = "running" /\ e.outcome = "completed"
      BY <2>1, FinishedAllowed
    <2>3. claims[rows[r].fence].epoch = epoch
      BY <2>1 DEF ClaimsCurrent, Moves
    <2>4. e \in Event /\ events'[r] = Append(events[r], e) /\ events[r] \in Seq(Event)
          /\ e.type = "finished" /\ e.from = "running"
      BY <2>1, <2>2 DEF Moves, TypeOK
    <2>5. Last(events'[r]) = e
      BY <2>4 DEF Last
    <2> QED BY <2>1, <2>2, <2>3, <2>4, <2>5
  <1>4. CASE CancelMove(r)
    <2>1. rows[r].phase = "running" => rows[r].run = "running"
      BY DEF RowsLoad, Exists, AllowedStatuses
    <2> QED BY <1>4, <2>1 DEF CancelMove
  <1>5. CASE AdmitMove(r) \/ ClaimMove(r) \/ RecoverMove(r)
    BY <1>5 DEF AdmitMove, ClaimMove, RecoverMove
  <1> QED BY <1>1, <1>2, <1>3, <1>4, <1>5 DEF RowStep

\* A row that reserves after a step other than its admission reserved the
\* same directory before it.
LEMMA KeepsReservation ==
    ASSUME NEW r \in Requests,
           ClaimMove(r) \/ FinishMove(r) \/ CancelMove(r) \/ RecoverMove(r) \/ Stays(r),
           HoldsReservation(rows'[r].phase)
    PROVE  HoldsReservation(rows[r].phase) /\ rows'[r].resource = rows[r].resource
  <1>1. CASE FinishMove(r)
    <2>1. rows'[r].phase \in TerminalPhases
      BY <1>1, FinishEnds
    <2> QED BY <2>1 DEF HoldsReservation, IsTerminal
  <1>2. CASE ClaimMove(r)
    BY <1>2 DEF ClaimMove, HoldsReservation, IsTerminal, DispatchPhases, ActivePhases,
                TerminalPhases
  <1>3. CASE CancelMove(r)
    BY <1>3 DEF CancelMove, HoldsReservation, IsTerminal, DispatchPhases, ActivePhases,
                TerminalPhases
  <1>4. CASE RecoverMove(r)
    BY <1>4 DEF RecoverMove, HoldsReservation, IsTerminal, DispatchPhases, ActivePhases,
                TerminalPhases
  <1>5. CASE Stays(r)
    BY <1>5 DEF Stays
  <1> QED BY <1>1, <1>2, <1>3, <1>4, <1>5

\* Admission looks for a reservation in the transaction that makes one.
LEMMA ReservationStep ==
    ASSUME TypeOK, Uncoded, OneReservation, [AnyClockNext]_vars
    PROVE  OneReservation'
  <1>1. CASE \E a \in Requests, res \in Resources, fp \in Fingerprints, ts \in Nat :
                Admit(a, res, fp, ts)
    <2>1. PICK a \in Requests, res \in Resources, fp \in Fingerprints, ts \in Nat :
             Admit(a, res, fp, ts)
      BY <1>1
    <2>2. \A q \in Requests \ {a} : rows'[q] = rows[q]
      BY <2>1, AdmitStep DEF Stays
    <2>3. rows'[a].resource = res
      <3>1. Write(a, AdmittedRow(res, fp, ts), "admitted", NoCode, NoReport, NoFence)
        BY <2>1 DEF Admit
      <3>2. rows'[a] = AdmittedRow(res, fp, ts)
        BY <3>1, WriteOne
      <3> QED BY <3>2 DEF AdmittedRow
    <2>4. ~\E q \in Requests : HoldsReservation(rows[q].phase) /\ rows[q].resource = res
      <3>1. AdmitReply(a, res, fp) = "changed"
        BY <2>1 DEF Admit
      <3>2. ~IsReserved(res)
        BY <3>1 DEF AdmitReply, Load
      <3> QED BY <3>2 DEF IsReserved, Reserved
    <2> QED BY <2>2, <2>3, <2>4 DEF OneReservation
  <1>2. CASE ~\E a \in Requests, res \in Resources, fp \in Fingerprints, ts \in Nat :
                Admit(a, res, fp, ts)
    <2>1. ASSUME NEW r \in Requests
          PROVE  ClaimMove(r) \/ FinishMove(r) \/ CancelMove(r) \/ RecoverMove(r) \/ Stays(r)
      <3>1. CASE \E q \in Requests, ts \in Nat : Claim(q, ts)
        BY <3>1, ClaimStep
      <3>2. CASE \E q \in Requests, fence \in 1..Len(claims), report \in Report,
                    ts \in Nat : Finish(q, fence, report, ts)
        BY <3>2, FinishStep
      <3>3. CASE \E q \in Requests, ts \in Nat : Cancel(q, ts)
        BY <3>3, CancelStep
      <3>4. CASE \E ts \in Nat : Open(ts)
        BY <3>4, OpenStep
      <3>5. CASE UNCHANGED <<rows, events, claims, epoch>>
        BY <3>5 DEF Stays
      <3> QED
        BY <1>2, <3>1, <3>2, <3>3, <3>4, <3>5 DEF AnyClockNext, vars, Crash, Detect, Corrupt
    <2>2. \A r \in Requests : HoldsReservation(rows'[r].phase) =>
             HoldsReservation(rows[r].phase) /\ rows'[r].resource = rows[r].resource
      BY <2>1, KeepsReservation
    <2> QED BY <2>2 DEF OneReservation
  <1> QED BY <1>1, <1>2

----------------------------------------------------------------------------
(* The theorems.                                                           *)

\* The empty table satisfies the invariant.
LEMMA InitIInv == Init => IInv
  <1> SUFFICES ASSUME Init PROVE IInv
    OBVIOUS
  <1>1. TypeOK
    <2>1. NoRow \in Row
      BY DEF NoRow, Row, TaskStatus, RunStatus, Codes, NoFence, NoCode
    <2>2. detected \in BOOLEAN /\ open \in BOOLEAN
      BY Zenon DEF Init
    <2>3. << >> \in Seq(Event) /\ << >> \in Seq([request : Requests, epoch : Nat])
      OBVIOUS
    <2>4. rows \in [Requests -> Row] /\ events \in [Requests -> Seq(Event)]
      BY <2>1, <2>3 DEF Init
    <2>5. defective \subseteq Requests /\ epoch \in Nat
          /\ claims \in Seq([request : Requests, epoch : Nat])
      BY <2>3 DEF Init
    <2> QED BY <2>2, <2>4, <2>5 DEF TypeOK
  <1>2. \A r \in Requests : rows[r] = NoRow /\ events[r] = << >>
    BY DEF Init
  <1>3. OneReservation /\ FenceColumn /\ RowsLoad /\ Uncoded /\ ClaimsCurrent /\ FenceKept
    BY <1>2 DEF NoRow, OneReservation, FenceColumn, RowsLoad, Uncoded, ClaimsCurrent, FenceKept,
               HoldsReservation, Exists, DispatchPhases, ActivePhases, TerminalPhases
  <1>4. LogReplays /\ CancelWins /\ ReportFromClaimant
    BY <1>2 DEF LogReplays, CancelWins, ReportFromClaimant, NoRow
  <1>5. SuccessIsEarned
    BY <1>2 DEF SuccessIsEarned, NoRow
  <1> QED BY <1>1, <1>3, <1>4, <1>5 DEF IInv

\* No step leads out of the invariant.
LEMMA StepIInv == IInv /\ [AnyClockNext]_vars => IInv'
  <1> SUFFICES ASSUME IInv, [AnyClockNext]_vars PROVE IInv'
    OBVIOUS
  <1>1. TypeOK /\ Uncoded
    BY DEF IInv
  <1>2. TypeOK' /\ Uncoded'
    BY <1>1, TypeStep, UncodedStep
  <1>3. OneReservation' /\ LogReplays' /\ RowsLoad' /\ CancelWins'
    BY <1>1, ReservationStep, LogStep, RowsStep, CancelWinsStep DEF IInv
  <1>4. FenceColumn' /\ FenceKept' /\ ClaimsCurrent'
    BY <1>1, FenceStep, CurrentStep DEF IInv
  <1>5. ReportFromClaimant' /\ SuccessIsEarned'
    BY <1>1, ReportStep, SuccessStep DEF IInv
  <1> QED BY <1>2, <1>3, <1>4, <1>5 DEF IInv

\* Every reachable table satisfies the inductive invariant, for any number of
\* requests, directories and restarts.
THEOREM Invariance == Spec => []IInv
  BY InitIInv, StepIInv, ClockReadings, PTL DEF Spec

\* The table keeps its types.
THEOREM TypeCorrect == Spec => []TypeOK
  <1>1. IInv => TypeOK
    BY DEF IInv
  <1> QED BY <1>1, Invariance, PTL

\* Two attempts never reserve the same working directory.
THEOREM Reservation == Spec => []OneReservation
  <1>1. IInv => OneReservation
    BY DEF IInv
  <1> QED BY <1>1, Invariance, PTL

\* A cancel that was committed while the attempt ran decides how it ends.
THEOREM CancelDecides == Spec => []CancelWins
  <1>1. IInv => CancelWins
    BY DEF IInv
  <1> QED BY <1>1, Invariance, PTL

\* Only the executor that claimed an attempt, in the generation that did,
\* finishes it.
THEOREM Fencing == Spec => []ReportFromClaimant
  <1>1. IInv => ReportFromClaimant
    BY DEF IInv
  <1> QED BY <1>1, Invariance, PTL

\* A Run succeeds only on clean, current and uncancelled evidence.
THEOREM Success == Spec => []SuccessIsEarned
  <1>1. IInv => SuccessIsEarned
    BY DEF IInv
  <1> QED BY <1>1, Invariance, PTL

\* The rows the program writes are rows its loader accepts.
THEOREM RowsStayLoadable == Spec => []RowsLoad
  <1>1. IInv => RowsLoad
    BY DEF IInv
  <1> QED BY <1>1, Invariance, PTL

\* Version, phase and event log of a row agree.
THEOREM LogAgrees == Spec => []LogReplays
  <1>1. IInv => LogReplays
    BY DEF IInv
  <1> QED BY <1>1, Invariance, PTL

\* The event a step appends is not earlier than the row was.
LEMMA TimeStep ==
    ASSUME TypeOK, Uncoded, TimeMonotone, [AnyClockNext]_vars
    PROVE  TimeMonotone'
  <1> SUFFICES ASSUME NEW r \in Requests
               PROVE  /\ \A i \in 2..Len(events'[r]) : events'[r][i - 1].at <= events'[r][i].at
                      /\ events'[r] # << >> => rows'[r].updatedAt = Last(events'[r]).at
    BY DEF TimeMonotone, Last
  <1>1. RowStep(r)
    BY EveryStep
  <1>2. CASE Stays(r)
    BY <1>2 DEF Stays, TimeMonotone, Last
  <1>3. CASE \E type, e : Moves(r, type, e)
    <2>1. PICK type, e : Moves(r, type, e)
      BY <1>3
    <2>2. /\ events[r] \in Seq(Event) /\ e \in Event
          /\ events'[r] = Append(events[r], e)
          /\ e.at = rows'[r].updatedAt /\ rows[r].updatedAt <= rows'[r].updatedAt
      BY <2>1 DEF TypeOK, Moves
    <2>3. /\ Len(events'[r]) = Len(events[r]) + 1 /\ Len(events[r]) \in Nat
          /\ \A i \in 1..Len(events[r]) : events'[r][i] = events[r][i]
          /\ events'[r][Len(events[r]) + 1] = e
      BY <2>2
    <2>4. Len(events[r]) # 0 => rows[r].updatedAt = events[r][Len(events[r])].at
      BY <2>2 DEF TimeMonotone, Last
    <2>5. ASSUME NEW i \in 2..Len(events'[r])
          PROVE  events'[r][i - 1].at <= events'[r][i].at
      <3>1. CASE i = Len(events[r]) + 1
        BY <2>2, <2>3, <2>4, <3>1
      <3>2. CASE i \in 2..Len(events[r])
        BY <2>3, <3>2 DEF TimeMonotone
      <3> QED BY <2>3, <3>1, <3>2
    <2> QED BY <2>2, <2>3, <2>5 DEF Last
  <1> QED
    BY <1>1, <1>2, <1>3
       DEF RowStep, AdmitMove, ClaimMove, FinishMove, CancelMove, RecoverMove

\* Neither a row nor its events go back in time, whatever clock readings the
\* transactions are given (commit_transition raises an earlier timestamp).
THEOREM TimeForward == Spec => []TimeMonotone
  <1>1. Init => TimeMonotone
    BY DEF Init, TimeMonotone
  <1>2. IInv /\ TimeMonotone /\ [AnyClockNext]_vars => TimeMonotone'
    BY TimeStep DEF IInv
  <1> QED BY <1>1, <1>2, Invariance, ClockReadings, PTL DEF Spec

\* A step leaves a row that has ended as it is.
LEMMA TerminalStep ==
    ASSUME IInv, [AnyClockNext]_vars, NEW r \in Requests, IsTerminal(rows[r].phase)
    PROVE  rows'[r] = rows[r]
  <1>1. RowStep(r)
    BY EveryStep DEF IInv
  <1> QED
    BY <1>1 DEF RowStep, AdmitMove, ClaimMove, FinishMove, CancelMove, RecoverMove, Stays,
                IsTerminal, TerminalPhases

\* Only a finish takes a claimed row out of the phases that hold a directory.
LEMMA ReleaseStep ==
    ASSUME IInv, [AnyClockNext]_vars, NEW r \in Requests,
           rows[r].phase \in {"running", "cancel_requested"},
           ~HoldsReservation(rows'[r].phase)
    PROVE  rows'[r].process # NoProcess
  <1>1. RowStep(r)
    BY EveryStep DEF IInv
  <1>2. CASE FinishMove(r)
    <2>1. PICK e : e.outcome \in Outcomes /\ rows'[r].outcome = e.outcome
                   /\ rows'[r].process = e.process /\ e.process \in Processes
      BY <1>2 DEF FinishMove
    <2> QED BY <2>1 DEF Processes, NoProcess
  <1>3. CASE ~FinishMove(r)
    BY <1>1, <1>3
       DEF RowStep, AdmitMove, ClaimMove, CancelMove, RecoverMove, Stays,
           HoldsReservation, IsTerminal, DispatchPhases, ActivePhases, TerminalPhases
  <1> QED BY <1>2, <1>3

\* The step that makes the writer ready is the recovery of every intact
\* active row.
LEMMA RecoveryStep ==
    ASSUME IInv, [AnyClockNext]_vars, ~open, open', NEW r \in Requests
    PROVE  IF r \in defective THEN rows'[r] = rows[r] ELSE rows'[r].phase \notin ActivePhases
  <1>1. PICK ts \in Nat : Open(ts)
    BY DEF AnyClockNext, vars, Admit, Claim, Finish, Cancel, Crash, Detect, Corrupt
  <1>2. CASE ~Recoverable(r)
    <2>1. rows'[r] = rows[r]
      BY <1>1, <1>2 DEF Open
    <2>2. r \in defective \/ rows[r].phase \notin ActivePhases
      BY <1>2 DEF Recoverable, Load, Exists, ActivePhases
    <2> QED BY <2>1, <2>2
  <1>3. CASE Recoverable(r)
    <2>1. r \notin defective /\ rows[r].phase \in ActivePhases
      BY <1>3 DEF Recoverable, Load
    <2>2. rows'[r].phase = RecoverEdge(rows[r].phase).to
      BY <1>1, <1>3 DEF Open, Recovered, Committed
    <2>3. RecoverEdge(rows[r].phase).to \in {"failed", "recovery_pending"}
      BY <2>1, RecoverEdges DEF Changed
    <2> QED BY <2>1, <2>2, <2>3 DEF ActivePhases
  <1> QED BY <1>2, <1>3

\* An attempt that has ended is never written again.
THEOREM TerminalFinal == Spec => TerminalRowsFinal
  <1>1. IInv /\ [AnyClockNext]_vars =>
           [\A r \in Requests : IsTerminal(rows[r].phase) => rows'[r] = rows[r]]_vars
    BY TerminalStep
  <1> QED BY <1>1, Invariance, ClockReadings, PTL DEF Spec, TerminalRowsFinal

\* A directory in which a process may run is not given free without the
\* report that the process ended.
THEOREM ReleaseOnExit == Spec => ReleaseNeedsExit
  <1>1. IInv /\ [AnyClockNext]_vars =>
           [\A r \in Requests :
              rows[r].phase \in {"running", "cancel_requested"}
              /\ ~HoldsReservation(rows'[r].phase)
              => rows'[r].process # NoProcess]_vars
    BY ReleaseStep
  <1> QED BY <1>1, Invariance, ClockReadings, PTL DEF Spec, ReleaseNeedsExit

\* However many generations there were and wherever the last one was killed:
\* when the writer reports ready, no intact attempt is active any more, and
\* recovery has not written a quarantined one.
THEOREM ReadyIsSettled == Spec => RecoverySettles
  <1>1. IInv /\ [AnyClockNext]_vars =>
           [~open /\ open' =>
              \A r \in Requests : IF r \in defective THEN rows'[r] = rows[r]
                                  ELSE rows'[r].phase \notin ActivePhases]_vars
    BY RecoveryStep
  <1> QED BY <1>1, Invariance, ClockReadings, PTL DEF Spec, RecoverySettles
=============================================================================
