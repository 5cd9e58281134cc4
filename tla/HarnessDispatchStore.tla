----------------------- MODULE HarnessDispatchStore -----------------------
(***************************************************************************)
(* The durable half of harness dispatch: the harness_dispatches table and  *)
(* the writer transactions that change it (vibemux_store/src/              *)
(* harness_dispatch.rs and harness_dispatch/dispatch_rows.rs).             *)
(*                                                                         *)
(* A transaction is one step: SQLite runs it with IMMEDIATE behaviour on   *)
(* the single writer's connection.  Each operation has a reply, a function *)
(* of the stored row and the arguments, and an effect, taken only when the *)
(* reply is "changed"; every other reply writes nothing.  The callers are  *)
(* arbitrary: any fence ever minted may be presented at any time, as an    *)
(* executor of an earlier daemon generation would.                         *)
(***************************************************************************)
EXTENDS DispatchPhase, Sequences

CONSTANTS Requests,      \* request ids
          Resources,     \* reservation keys: hashes of working directories
          Fingerprints,  \* digests of a request's content
          Timestamps,    \* readings of the wall clock, which may go back
          MaxRestarts    \* bound: how often the database is reopened

ASSUME StoreAssumption ==
    /\ Timestamps \subseteq Nat
    /\ MaxRestarts \in Nat

VARIABLES rows,       \* the table, with the Task and Run each row owns
          defective,  \* rows whose stored form no longer passes validation
          detected,   \* the registry says the harness is installed
          open,       \* the writer has recovered and reported ready
          events,     \* the canonical events, per request
          claims,     \* history: every claim made; a fence is an index in it
          epoch       \* history: how often the store was opened

vars == <<rows, defective, detected, open, events, claims, epoch>>

NoFence == 0

Nothing == "nothing"

Row == [phase     : DispatchPhases \cup {"absent"},
        fence     : Nat,
        version   : Nat,
        task      : TaskStatus,
        run       : RunStatus,
        outcome   : Outcomes \cup {NoOutcome},
        error     : Codes,
        process   : Processes \cup {NoProcess},
        resource  : Resources \cup {Nothing},
        content   : Fingerprints \cup {Nothing},
        updatedAt : Nat]

\* A request without a row; its other fields carry nothing.
NoRow ==
    [phase |-> "absent", fence |-> NoFence, version |-> 0, task |-> "open",
     run |-> "preparing", outcome |-> NoOutcome, error |-> NoCode,
     process |-> NoProcess, resource |-> Nothing, content |-> Nothing,
     updatedAt |-> 0]

EventTypes == {"admitted", "started", "cancel_requested", "finished", "recovered"}

\* The payloads of the dispatch events, with two history fields: the
\* generation that wrote the event and the fence its caller presented.
Event == [type : EventTypes, from : DispatchPhases \cup {"absent"},
          to : DispatchPhases, outcome : Outcomes \cup {NoOutcome},
          error : Codes, process : Processes \cup {NoProcess},
          at : Nat, epoch : Nat, by : Nat]

\* The executor's fenced report, as the store's interface admits it.
Report == [outcome : Outcomes, error : {NoCode, "cancelled", "fault"},
           process : Processes]

NoReport == [outcome |-> NoOutcome, error |-> NoCode, process |-> NoProcess]

Exists(r) == rows[r].phase # "absent"

----------------------------------------------------------------------------
(* Loading and committing a row.                                           *)

\* dispatch_rows::load_existing: what it fails with, or "loaded".
Load(r) == IF r \in defective THEN "defective"
           ELSE IF Exists(r)  THEN "loaded"
           ELSE "not_found"

\* transition.task_status / run_status applied through transitioned().
LegalEdge(row, edge) ==
    /\ edge.task = Same \/ TaskCanTransition(row.task, edge.task)
    /\ edge.run  = Same \/ RunCanTransition(row.run, edge.run)

Later(a, b) == IF a > b THEN a ELSE b

\* A timestamp earlier than the row's last update is raised to it.
UpdatedAt(ts, row) == Later(ts, row.updatedAt)

\* The code this transition produced: the executor's, else the edge's.
ProducedCode(edge, report) ==
    IF report.error # NoCode THEN report.error ELSE edge.error

\* The row commit_transition writes; a transition that produced no code
\* keeps the code recorded earlier.
Committed(row, edge, fence, report, ts) ==
    [phase     |-> edge.to,
     fence     |-> fence,
     version   |-> row.version + 1,
     task      |-> IF edge.task = Same THEN row.task ELSE edge.task,
     run       |-> IF edge.run  = Same THEN row.run  ELSE edge.run,
     outcome   |-> IF report = NoReport THEN row.outcome ELSE report.outcome,
     error     |-> IF ProducedCode(edge, report) # NoCode
                   THEN ProducedCode(edge, report) ELSE row.error,
     process   |-> IF report = NoReport THEN row.process ELSE report.process,
     resource  |-> row.resource,
     content   |-> row.content,
     updatedAt |-> UpdatedAt(ts, row)]

EventOf(type, from, row, code, report, by, generation) ==
    [type |-> type, from |-> from, to |-> row.phase, outcome |-> report.outcome,
     error |-> code, process |-> report.process, at |-> row.updatedAt,
     epoch |-> generation, by |-> by]

\* The event of a cancel depends on where it leads.
CancelEventType(edge) ==
    IF edge.to = "cancel_requested" THEN "cancel_requested" ELSE "finished"

\* Row and event are written in the same transaction.
Write(r, row, type, code, report, by) ==
    /\ rows'   = [rows   EXCEPT ![r] = row]
    /\ events' = [events EXCEPT ![r] =
                    Append(@, EventOf(type, rows[r].phase, row, code, report, by, epoch))]

\* How commit_transition answers for an edge that needs no fence.
EdgeReply(r, edge) ==
    CASE Load(r) # "loaded"                               -> Load(r)
      [] Load(r) = "loaded" /\ edge.kind = "refused"   -> edge.code
      [] Load(r) = "loaded" /\ edge.kind = "unchanged" -> "unchanged"
      [] Load(r) = "loaded" /\ edge.kind = "changed"   ->
            IF LegalEdge(rows[r], edge) THEN "changed" ELSE "projection_mismatch"

----------------------------------------------------------------------------
(* admit_harness_dispatch                                                  *)

Reserved(res) ==
    \E q \in Requests : HoldsReservation(rows[q].phase) /\ rows[q].resource = res

\* Mutant: only an attempt whose process may run blocks the directory.
ReservedByRunning(res) ==
    \E q \in Requests : rows[q].phase \in {"running", "cancel_requested"}
                        /\ rows[q].resource = res

IsReserved(res) == Reserved(res)

AdmitReply(r, res, fp) ==
    CASE Load(r) = "defective" -> "defective"
      [] Load(r) = "loaded"    -> IF rows[r].content = fp THEN "unchanged" ELSE "conflict"
      [] Load(r) = "not_found" -> IF ~detected THEN "not_detected"
                                  ELSE IF IsReserved(res) THEN "busy"
                                  ELSE "changed"

\* admitted_entities and the record: Task in_progress, Run preparing.
AdmittedRow(res, fp, ts) ==
    [phase |-> "admitted", fence |-> NoFence, version |-> 1, task |-> "in_progress",
     run |-> "preparing", outcome |-> NoOutcome, error |-> NoCode,
     process |-> NoProcess, resource |-> res, content |-> fp, updatedAt |-> ts]

Admit(r, res, fp, ts) ==
    /\ open
    /\ AdmitReply(r, res, fp) = "changed"
    /\ Write(r, AdmittedRow(res, fp, ts), "admitted", NoCode, NoReport, NoFence)
    /\ UNCHANGED <<defective, detected, open, claims, epoch>>

----------------------------------------------------------------------------
(* claim_harness_dispatch                                                  *)

ClaimReply(r) == EdgeReply(r, ClaimEdge(rows[r].phase))

\* The fence is fresh: no earlier claim of any request had it.
Claim(r, ts) ==
    /\ open
    /\ ClaimReply(r) = "changed"
    /\ Write(r, Committed(rows[r], ClaimEdge(rows[r].phase), Len(claims) + 1, NoReport, ts),
             "started", NoCode, NoReport, NoFence)
    /\ claims' = Append(claims, [request |-> r, epoch |-> epoch])
    /\ UNCHANGED <<defective, detected, open, epoch>>

----------------------------------------------------------------------------
(* finish_harness_dispatch                                                 *)

\* Mutant: completion is taken on the executor's word.
ValidFinishOnTrust(report) ==
    report.outcome \in {"failed", "unverified"} => report.error # NoCode

\* validate_finish.
ValidFinish(report) ==
    /\ report.outcome = "completed" => IsCleanCompletion(report.error, report.process)
    /\ report.outcome \in {"failed", "unverified"} => report.error # NoCode

\* records_finish: the terminal row holds exactly this report.
RecordsFinish(row, report) ==
    /\ row.outcome = report.outcome
    /\ row.error   = report.error
    /\ row.process = report.process

\* FenceEffect::Require.
FenceHeld(row, fence) == row.fence = fence

FinishReply(r, fence, report) ==
    CASE ~ValidFinish(report) -> "invalid_request"
      [] ValidFinish(report) /\ Load(r) # "loaded" -> Load(r)
      [] ValidFinish(report) /\ Load(r) = "loaded" ->
            IF IsTerminal(rows[r].phase) /\ rows[r].fence = fence
            THEN IF RecordsFinish(rows[r], report) THEN "unchanged" ELSE "conflict"
            ELSE LET edge == FinishEdge(rows[r].phase, report.outcome)
                 IN  IF edge.kind = "changed" /\ ~FenceHeld(rows[r], fence)
                     THEN "stale_fence" ELSE EdgeReply(r, edge)

Finish(r, fence, report, ts) ==
    /\ open
    /\ FinishReply(r, fence, report) = "changed"
    /\ LET edge == FinishEdge(rows[r].phase, report.outcome)
       IN  Write(r, Committed(rows[r], edge, rows[r].fence, report, ts),
                 "finished", ProducedCode(edge, report), report, fence)
    /\ UNCHANGED <<defective, detected, open, claims, epoch>>

----------------------------------------------------------------------------
(* cancel_harness_dispatch                                                 *)

CancelReply(r) == EdgeReply(r, CancelEdge(rows[r].phase))

Cancel(r, ts) ==
    /\ open
    /\ CancelReply(r) = "changed"
    /\ LET edge == CancelEdge(rows[r].phase)
       IN  Write(r, Committed(rows[r], edge, rows[r].fence, NoReport, ts),
                 CancelEventType(edge), NoCode, NoReport, NoFence)
    /\ UNCHANGED <<defective, detected, open, claims, epoch>>

----------------------------------------------------------------------------
(* recover_harness_dispatches, and the life of the writer around it        *)

\* Mutant: an attempt that was admitted and never claimed is forgotten.
RecoverableIfClaimed(r) ==
    Load(r) = "loaded" /\ rows[r].phase \in {"running", "cancel_requested"}

\* active_request_keys, less the rows that are quarantined.
Recoverable(r) == Load(r) = "loaded" /\ rows[r].phase \in ActivePhases

Recovered(r, ts) ==
    LET edge  == RecoverEdge(rows[r].phase)
        fence == IF edge.fence = "clear" THEN NoFence ELSE rows[r].fence
    IN  Committed(rows[r], edge, fence, NoReport, ts)

\* writer_loop opens the store and recovers every row in one transaction
\* before it reports ready.
Open(ts) ==
    /\ ~open
    /\ epoch < MaxRestarts
    /\ open' = TRUE
    /\ epoch' = epoch + 1
    /\ rows' = [r \in Requests |-> IF Recoverable(r) THEN Recovered(r, ts) ELSE rows[r]]
    /\ events' = [r \in Requests |->
                    IF Recoverable(r)
                    THEN Append(events[r],
                           EventOf("recovered", rows[r].phase, Recovered(r, ts),
                                   RecoverEdge(rows[r].phase).error, NoReport, NoFence,
                                   epoch + 1))
                    ELSE events[r]]
    /\ UNCHANGED <<defective, detected, claims>>

\* The daemon exits or is killed between two transactions.
Crash ==
    /\ open
    /\ open' = FALSE
    /\ UNCHANGED <<rows, defective, detected, events, claims, epoch>>

\* commit_harness_snapshot: a detection refresh finds the harness or loses it.
Detect(found) ==
    /\ open
    /\ detected' = found
    /\ UNCHANGED <<rows, defective, open, events, claims, epoch>>

\* Outside the program: a stored row is damaged.
Corrupt(r) ==
    /\ Exists(r)
    /\ defective' = defective \cup {r}
    /\ UNCHANGED <<rows, detected, open, events, claims, epoch>>

----------------------------------------------------------------------------
Init ==
    /\ rows = [r \in Requests |-> NoRow]
    /\ defective = {}
    /\ detected = FALSE
    /\ open = FALSE
    /\ events = [r \in Requests |-> << >>]
    /\ claims = << >>
    /\ epoch = 0

Next ==
    \/ \E r \in Requests, res \in Resources, fp \in Fingerprints, ts \in Timestamps :
          Admit(r, res, fp, ts)
    \/ \E r \in Requests, ts \in Timestamps : Claim(r, ts)
    \/ \E r \in Requests, fence \in 1..Len(claims), report \in Report, ts \in Timestamps :
          Finish(r, fence, report, ts)
    \/ \E r \in Requests, ts \in Timestamps : Cancel(r, ts)
    \/ \E ts \in Timestamps : Open(ts)
    \/ Crash
    \/ \E found \in BOOLEAN : Detect(found)
    \/ \E r \in Requests : Corrupt(r)

Spec == Init /\ [][Next]_vars

----------------------------------------------------------------------------
(* What the table promises.                                                *)

TypeOK ==
    /\ rows \in [Requests -> Row]
    /\ defective \subseteq Requests
    /\ detected \in BOOLEAN
    /\ open \in BOOLEAN
    /\ events \in [Requests -> Seq(Event)]
    /\ claims \in Seq([request : Requests, epoch : Nat])
    /\ epoch \in Nat

\* A working directory is reserved by at most one attempt, quarantined rows
\* included: the partial unique index on resource_key never has to refuse
\* an insert that is_reserved let through.
OneReservation ==
    \A r, q \in Requests :
        /\ HoldsReservation(rows[r].phase)
        /\ HoldsReservation(rows[q].phase)
        /\ rows[r].resource = rows[q].resource
        => r = q

\* The table's CHECK of claim_fence against phase, and what a fence is for:
\* an attempt whose process may run has the fence of a claim of its own.
FenceColumn ==
    \A r \in Requests :
        /\ rows[r].phase \in {"absent", "admitted", "recovery_pending"}
              => rows[r].fence = NoFence
        /\ rows[r].phase \in {"running", "cancel_requested"}
              => rows[r].fence # NoFence
        /\ rows[r].fence # NoFence
              => rows[r].fence \in 1..Len(claims) /\ claims[rows[r].fence].request = r

\* Every row the transactions write passes dispatch_rows::load again: the
\* Task and Run agree with the phase and a completed row still carries its
\* evidence, so that recovery never quarantines a row the program wrote.
RowsLoad ==
    \A r \in Requests :
        /\ Exists(r) => <<rows[r].task, rows[r].run>> \in AllowedStatuses(rows[r].phase)
        /\ rows[r].phase = "completed" =>
              /\ rows[r].outcome = "completed"
              /\ IsCleanCompletion(rows[r].error, rows[r].process)

Last(seq) == seq[Len(seq)]

\* The row is the replay of its events: one version per event, each event
\* starting where the one before it ended, the last ending at the row.
LogReplays ==
    \A r \in Requests :
        /\ rows[r].version = Len(events[r])
        /\ \A i \in 1..Len(events[r]) :
              events[r][i].from = (IF i = 1 THEN "absent" ELSE events[r][i - 1].to)
        /\ rows[r].phase = (IF events[r] = << >> THEN "absent" ELSE Last(events[r]).to)

\* Neither the row nor its events go back in time although the clock may.
TimeMonotone ==
    \A r \in Requests :
        /\ \A i \in 2..Len(events[r]) : events[r][i - 1].at <= events[r][i].at
        /\ events[r] # << >> => rows[r].updatedAt = Last(events[r]).at

\* A Run succeeds only by a finish of the attempt it was claimed for, in the
\* daemon generation that claimed it, that was not cancelled, with a clean
\* exit and no error: never on recovery, cancellation or a stale report.
SuccessIsEarned ==
    \A r \in Requests :
        rows[r].run = "succeeded" =>
            LET last == Last(events[r])
            IN  /\ last.type = "finished" /\ last.from = "running"
                /\ last.outcome = "completed"
                /\ IsCleanCompletion(last.error, last.process)
                /\ last.epoch = claims[rows[r].fence].epoch

\* Once a cancel of a running attempt is committed the attempt ends as
\* cancelled or is parked for the operator, whatever the executor reports
\* afterwards.
CancelWins ==
    \A r \in Requests : \A i \in 1..Len(events[r]) :
        events[r][i].type = "cancel_requested" =>
            rows[r].phase \in {"cancel_requested", "recovery_pending", "cancelled"}

\* A report is accepted only from the executor that claimed this attempt,
\* in the generation that claimed it: the executor of a crashed daemon
\* cannot finish what recovery parked, and no executor finishes another's.
ReportFromClaimant ==
    \A r \in Requests : \A i \in 1..Len(events[r]) :
        events[r][i].outcome # NoOutcome =>
            /\ events[r][i].by \in 1..Len(claims)
            /\ claims[events[r][i].by].request = r
            /\ claims[events[r][i].by].epoch = events[r][i].epoch

\* What has ended stays as it ended: no later claim, finish, cancel or
\* recovery writes a terminal row.
TerminalRowsFinal ==
    [][\A r \in Requests : IsTerminal(rows[r].phase) => rows'[r] = rows[r]]_vars

\* While its vendor process may be alive an attempt gives its directory
\* free only with the report that the process ended; a restart parks it.
ReleaseNeedsExit ==
    [][\A r \in Requests :
          rows[r].phase \in {"running", "cancel_requested"}
          /\ ~HoldsReservation(rows'[r].phase)
          => rows'[r].process # NoProcess]_vars

\* When the writer reports ready nothing of an earlier generation is active
\* any more, except the quarantined rows, which recovery left untouched.
RecoverySettles ==
    [][~open /\ open' =>
          \A r \in Requests : IF r \in defective THEN rows'[r] = rows[r]
                                ELSE rows'[r].phase \notin ActivePhases]_vars

----------------------------------------------------------------------------
(* The inductive invariant behind the safety properties.                   *)

\* An attempt that has not ended carries no code and no report yet, so the
\* code of a terminal row is its report's own.
Uncoded ==
    \A r \in Requests :
        /\ ~Exists(r) => rows[r] = NoRow
        /\ rows[r].phase \in ActivePhases =>
              rows[r].error = NoCode /\ rows[r].outcome = NoOutcome

\* A claimed intact row was claimed by the generation that is running, or
\* that ran last: recovery takes every claim of an older one away.
ClaimsCurrent ==
    \A r \in Requests :
        rows[r].phase \in {"running", "cancel_requested"} /\ r \notin defective =>
            claims[rows[r].fence].epoch = epoch

\* A finish leaves the fence, so that its repetition is recognised.
FenceKept ==
    \A r \in Requests : rows[r].phase = "completed" => rows[r].fence # NoFence

\* No step of the program, from any state in which all of this holds, leads
\* out of it.
IInv ==
    /\ TypeOK
    /\ OneReservation
    /\ FenceColumn
    /\ RowsLoad
    /\ LogReplays
    /\ CancelWins
    /\ ReportFromClaimant
    /\ SuccessIsEarned
    /\ Uncoded
    /\ ClaimsCurrent
    /\ FenceKept
=============================================================================
