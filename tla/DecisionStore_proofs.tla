------------------------ MODULE DecisionStore_proofs ------------------------
(***************************************************************************)
(* Proofs about DecisionStore, for every set of decisions and requests and *)
(* every clock: a decision is bound to the one dispatch it was made for.   *)
(*                                                                         *)
(* A decided admission is an admission of HarnessDispatchStore, so its     *)
(* invariant IInv carries over; DecisionInv adds what the two tables know  *)
(* of each other.  The uniqueness of a consumption rests on the row: the   *)
(* first use of a decision must find its request without a dispatch, while *)
(* every request that consumed one has a dispatch, for ever.               *)
(***************************************************************************)
EXTENDS DecisionStore, HarnessDispatchStore_proofs

DecisionRow ==
    [status : {"absent", "resolved", "escalated"}, choice : Fingerprints \cup {Nothing},
     createdAt : Nat, consumedBy : Requests \cup {Nothing}, consumedAt : Nat]

\* The rows are rows, a resolved one has a choice, and only a resolved one
\* is consumed.
DecisionTypeOK ==
    /\ decisions \in [Decisions -> DecisionRow]
    /\ \A d \in Decisions :
          /\ decisions[d].status = "resolved" => decisions[d].choice \in Fingerprints
          /\ Consumed(d) => decisions[d].status = "resolved"

DecisionInv == IInv /\ DecisionTypeOK /\ DecisionsBound

----------------------------------------------------------------------------
(* What the dispatch table keeps of a request that has a row.              *)

\* Once admitted, a request keeps its row, its content and the event of its
\* admission.
Kept(r) ==
    /\ Exists(r)'
    /\ rows'[r].content = rows[r].content
    /\ events'[r][1] = events[r][1]

LEMMA RowsKept ==
    ASSUME IInv, [AnyClockNext]_vars, NEW r \in Requests, Exists(r)
    PROVE  Kept(r)
  <1>1. RowStep(r) /\ ~AdmitMove(r)
    BY EveryStep DEF IInv, AdmitMove, Exists
  <1>2. events[r] \in Seq(Event) /\ events[r] # << >>
    BY DEF IInv, TypeOK, LogReplays, Exists
  <1>3. CASE Stays(r)
    BY <1>3 DEF Stays, Kept, Exists
  <1>4. CASE \E type, e : Moves(r, type, e)
    <2>1. PICK type, e : Moves(r, type, e)
      BY <1>4
    <2>2. events'[r] = Append(events[r], e) /\ e \in Event
      BY <2>1 DEF Moves
    <2>3. events'[r][1] = events[r][1]
      BY <1>2, <2>2
    <2>4. rows'[r].phase \in DispatchPhases
      BY <2>1 DEF Moves, Event
    <2>5. CASE ~Stays(r)
      <3>1. rows'[r].content = rows[r].content
        BY <1>1, <2>5 DEF RowStep, ClaimMove, FinishMove, CancelMove, RecoverMove
      <3>2. QED
        BY <2>3, <2>4, <3>1 DEF Kept, Exists, DispatchPhases, ActivePhases, TerminalPhases
    <2>6. QED
      BY <1>3, <2>5
  <1>5. QED
    BY <1>1, <1>3, <1>4 DEF RowStep, ClaimMove, FinishMove, CancelMove, RecoverMove

\* A decision whose row did not change stays bound when its dispatch is kept.
Bound(d) ==
    LET row == decisions[d] IN
    /\ row.status = "resolved"
    /\ Exists(row.consumedBy)
    /\ rows[row.consumedBy].content = row.choice
    /\ events[row.consumedBy][1].at = row.consumedAt
    /\ row.createdAt <= row.consumedAt
    /\ row.consumedAt < row.createdAt + DecisionTtl

LEMMA BoundKept ==
    ASSUME DecisionInv, [AnyClockNext]_vars, NEW d \in Decisions,
           decisions'[d] = decisions[d], Consumed(d)
    PROVE  Bound(d)'
  <1>1. Bound(d) /\ decisions[d].consumedBy \in Requests
    BY DEF DecisionInv, DecisionsBound, DecisionTypeOK, DecisionRow, Bound, Consumed
  <1>2. Kept(decisions[d].consumedBy)
    BY <1>1, RowsKept DEF DecisionInv, Bound
  <1>3. QED
    BY <1>1, <1>2 DEF Kept, Bound, Exists

----------------------------------------------------------------------------
(* One lemma per action.                                                   *)

\* A transaction of the dispatch table leaves every decision bound.
LEMMA TableStep ==
    ASSUME DecisionInv, [AnyClockNext]_vars, decisions' = decisions
    PROVE  DecisionInv'
  <1>1. IInv'
    BY StepIInv DEF DecisionInv
  <1>2. DecisionTypeOK'
    BY DEF DecisionInv, DecisionTypeOK, Consumed
  <1>3. DecisionsBound'
    <2>1. SUFFICES ASSUME NEW d \in Decisions, Consumed(d)'
                   PROVE  /\ Bound(d)'
                          /\ \A e \in Decisions :
                                decisions'[e].consumedBy = decisions'[d].consumedBy => e = d
      BY DEF DecisionsBound, Bound
    <2>2. Consumed(d)
      BY <2>1 DEF Consumed
    <2>3. QED
      BY <2>2, BoundKept DEF DecisionInv, DecisionsBound
  <1>4. QED
    BY <1>1, <1>2, <1>3 DEF DecisionInv

\* record_decision inserts a row nobody has consumed.
LEMMA RecordStep ==
    ASSUME DecisionInv, NEW d \in Decisions, NEW status, NEW choice, NEW now \in Nat,
           \/ status = "resolved" /\ choice \in Fingerprints
           \/ status = "escalated" /\ choice = Nothing,
           RecordDecision(d, status, choice, now)
    PROVE  DecisionInv'
  <1> DEFINE row == RecordedRow(status, choice, now)
  <1>1. /\ row \in DecisionRow /\ row.status = status /\ row.choice = choice
        /\ row.consumedBy = Nothing
    BY DEF RecordedRow, DecisionRow
  <1> HIDE DEF row
  <1>2. UNCHANGED vars /\ decisions' = [decisions EXCEPT ![d] = row]
    BY DEF RecordDecision, row
  <1>3. /\ decisions'[d] = row
        /\ \A e \in Decisions \ {d} : decisions'[e] = decisions[e]
        /\ decisions' \in [Decisions -> DecisionRow]
    BY <1>1, <1>2 DEF DecisionInv, DecisionTypeOK
  <1>4. IInv'
    BY <1>2, StepIInv DEF DecisionInv
  <1>5. DecisionTypeOK'
    BY <1>1, <1>3 DEF DecisionInv, DecisionTypeOK, Consumed
  <1>6. DecisionsBound'
    <2>1. SUFFICES ASSUME NEW e \in Decisions, Consumed(e)'
                   PROVE  /\ Bound(e)'
                          /\ \A c \in Decisions :
                                decisions'[c].consumedBy = decisions'[e].consumedBy => c = e
      BY DEF DecisionsBound, Bound
    <2>2. e # d /\ Consumed(e) /\ decisions'[e] = decisions[e]
      BY <1>1, <1>3, <2>1 DEF Consumed
    <2>3. Bound(e)'
      BY <1>2, <2>2, BoundKept
    <2>4. QED
      BY <1>1, <1>3, <2>1, <2>2, <2>3 DEF DecisionInv, DecisionsBound, Consumed
  <1>7. QED
    BY <1>4, <1>5, <1>6 DEF DecisionInv

\* What a decided admission has established when it commits: the decision is
\* fresh and of this very content, and the request is admitted for the first
\* time.
LEMMA DecidedEffect ==
    ASSUME DecisionInv, NEW d \in Decisions, NEW r \in Requests, NEW res \in Resources,
           NEW fp \in Fingerprints, NEW now \in Readings, AdmitDecided(d, r, res, fp, now)
    PROVE  /\ ~Consumed(d) /\ decisions[d].status = "resolved"
           /\ decisions[d].choice = fp
           /\ decisions[d].createdAt <= now /\ now < decisions[d].createdAt + DecisionTtl
           /\ ~Exists(r)
           /\ Admit(r, res, fp, now)
  <1> DEFINE binding == CheckDispatchable(d, r, fp, now)
             admitted == AdmitReply(r, res, fp)
  <1>1. decisions[d] \in DecisionRow /\ now \in Nat
    BY DecisionAssumption DEF DecisionInv, DecisionTypeOK
  <1>2. binding # "consumed"
    BY <1>1 DEF CheckDispatchable, DecisionRow, Consumed
  <1>3. binding \in {"fresh", "replay"} /\ HarnessOf[decisions[d].choice] = HarnessOf[fp]
        /\ Settle(binding, admitted) = "consumed"
    BY <1>2 DEF AdmitDecided, DecidedReply
  <1>4. admitted \in {"defective", "unchanged", "conflict", "not_detected", "busy", "changed"}
    BY DEF AdmitReply, Load
  <1> HIDE DEF binding, admitted
  <1>5. binding = "fresh" /\ admitted = "changed"
    BY <1>3, <1>4 DEF Settle
  <1>6. /\ decisions[d].status = "resolved" /\ ~Consumed(d) /\ ~IsExpired(d, now)
        /\ PromptOf[decisions[d].choice] = PromptOf[fp]
        /\ ConfigOf[decisions[d].choice] = ConfigOf[fp]
    BY <1>1, <1>5 DEF binding, CheckDispatchable, DecisionRow, Consumed
  <1>7. decisions[d].choice = fp
    <2>1. decisions[d].choice \in Fingerprints
      BY <1>6 DEF DecisionInv, DecisionTypeOK
    <2>2. QED
      BY <1>3, <1>6, <2>1, DecisionAssumption
  <1>8. decisions[d].createdAt <= now /\ now < decisions[d].createdAt + DecisionTtl
    BY <1>1, <1>6, DecisionAssumption DEF IsExpired, DecisionRow
  <1>9. ~Exists(r)
    BY <1>5 DEF admitted, AdmitReply, Load
  <1>10. Admit(r, res, fp, now)
    BY <1>5 DEF AdmitDecided, Admit, admitted
  <1>11. QED
    BY <1>6, <1>7, <1>8, <1>9, <1>10

\* A decided admission binds its decision to the dispatch it admits.
LEMMA DecidedStep ==
    ASSUME DecisionInv, NEW d \in Decisions, NEW r \in Requests, NEW res \in Resources,
           NEW fp \in Fingerprints, NEW now \in Readings, AdmitDecided(d, r, res, fp, now)
    PROVE  DecisionInv'
  <1> DEFINE row == ConsumedRow(decisions[d], r, now)
  <1>1. /\ ~Consumed(d) /\ decisions[d].status = "resolved" /\ decisions[d].choice = fp
        /\ decisions[d].createdAt <= now /\ now < decisions[d].createdAt + DecisionTtl
        /\ ~Exists(r)
        /\ Admit(r, res, fp, now)
    BY DecidedEffect
  <1>2. now \in Nat /\ r # Nothing
    BY DecisionAssumption
  <1>3. [AnyClockNext]_vars
    BY <1>1, <1>2 DEF AnyClockNext
  <1>4. /\ row \in DecisionRow
        /\ row.status = "resolved" /\ row.choice = fp
        /\ row.createdAt = decisions[d].createdAt
        /\ row.consumedBy = r /\ row.consumedAt = now
    BY <1>1, <1>2 DEF ConsumedRow, DecisionInv, DecisionTypeOK, DecisionRow
  <1>5. decisions' = [decisions EXCEPT ![d] = row]
    BY DEF AdmitDecided
  <1> HIDE DEF row
  <1>6. /\ decisions'[d] = row
        /\ \A e \in Decisions \ {d} : decisions'[e] = decisions[e]
        /\ decisions' \in [Decisions -> DecisionRow]
    BY <1>4, <1>5 DEF DecisionInv, DecisionTypeOK
  <1>7. IInv'
    BY <1>3, StepIInv DEF DecisionInv
  <1>8. DecisionTypeOK'
    BY <1>4, <1>6 DEF DecisionInv, DecisionTypeOK, Consumed
  <1>9. Bound(d)'
    <2>1. rows'[r] = AdmittedRow(res, fp, now)
          /\ events'[r] = Append(events[r],
                EventOf("admitted", rows[r].phase, AdmittedRow(res, fp, now), NoCode,
                        NoReport, NoFence, epoch))
      BY <1>1, WriteOne DEF Admit, DecisionInv, IInv
    <2>2. events[r] = << >>
      <3>1. rows[r].version = 0
        BY <1>1 DEF DecisionInv, IInv, Uncoded, NoRow
      <3>2. events[r] \in Seq(Event) /\ Len(events[r]) = 0
        BY <3>1 DEF DecisionInv, IInv, TypeOK, LogReplays
      <3>3. QED
        BY <3>2
    <2>3. events'[r][1].at = now
      BY <2>1, <2>2 DEF EventOf, AdmittedRow
    <2>4. rows'[r].phase = "admitted" /\ rows'[r].content = fp
      BY <2>1 DEF AdmittedRow
    <2>5. QED
      BY <1>1, <1>4, <1>6, <2>3, <2>4 DEF Bound, Exists
  <1>10. ASSUME NEW e \in Decisions \ {d}, Consumed(e)
         PROVE  Bound(e)' /\ decisions[e].consumedBy # r
    BY <1>1, <1>3, <1>6, <1>10, BoundKept DEF DecisionInv, DecisionsBound
  <1>11. DecisionsBound'
    <2>1. SUFFICES ASSUME NEW e \in Decisions, Consumed(e)'
                   PROVE  /\ Bound(e)'
                          /\ \A c \in Decisions :
                                decisions'[c].consumedBy = decisions'[e].consumedBy => c = e
      BY DEF DecisionsBound, Bound
    <2>2. CASE e = d
      BY <1>2, <1>4, <1>6, <1>9, <1>10, <2>2 DEF Consumed
    <2>3. CASE e # d
      <3>1. Consumed(e) /\ decisions'[e] = decisions[e]
        BY <1>6, <2>1, <2>3 DEF Consumed
      <3>2. QED
        BY <1>4, <1>6, <1>10, <2>3, <3>1 DEF DecisionInv, DecisionsBound
    <2>4. QED
      BY <2>2, <2>3
  <1>12. QED
    BY <1>7, <1>8, <1>11 DEF DecisionInv

----------------------------------------------------------------------------
(* The theorems.                                                           *)

LEMMA DecisionInit_Inv == DecisionInit => DecisionInv
  <1> SUFFICES ASSUME DecisionInit PROVE DecisionInv
    OBVIOUS
  <1>1. IInv
    BY InitIInv DEF DecisionInit
  <1>2. NoDecision \in DecisionRow /\ NoDecision.consumedBy = Nothing
        /\ NoDecision.status = "absent"
    BY DEF NoDecision, DecisionRow
  <1>3. decisions \in [Decisions -> DecisionRow]
        /\ \A d \in Decisions : decisions[d] = NoDecision
    BY <1>2 DEF DecisionInit
  <1>4. QED
    BY <1>1, <1>2, <1>3 DEF DecisionInv, DecisionTypeOK, DecisionsBound, Consumed

LEMMA DecisionNext_Inv == DecisionInv /\ [DecisionNext]_decisionVars => DecisionInv'
  <1> SUFFICES ASSUME DecisionInv, [DecisionNext]_decisionVars PROVE DecisionInv'
    OBVIOUS
  <1>1. CASE Next /\ UNCHANGED decisions
    BY <1>1, TableStep, ClockReadings
  <1>2. CASE UNCHANGED decisionVars
    BY <1>2, TableStep DEF decisionVars
  <1>3. ASSUME NEW d \in Decisions, NEW choice \in Fingerprints, NEW now \in Timestamps,
               RecordDecision(d, "resolved", choice, now)
        PROVE  DecisionInv'
    BY <1>3, RecordStep, StoreAssumption
  <1>4. ASSUME NEW d \in Decisions, NEW now \in Timestamps,
               RecordDecision(d, "escalated", Nothing, now)
        PROVE  DecisionInv'
    BY <1>4, RecordStep, StoreAssumption
  <1>5. QED
    BY <1>1, <1>2, <1>3, <1>4, DecidedStep DEF DecisionNext

\* Both tables satisfy the invariant in every reachable state.
THEOREM DecisionInvariance == DecisionSpec => []DecisionInv
  BY DecisionInit_Inv, DecisionNext_Inv, PTL DEF DecisionSpec

\* A consumed decision is resolved, was used within its lifetime, and has the
\* dispatch of its own content in the table, which no other decision claims:
\* admit_decided_dispatch never leaves one table without the other, and the
\* UNIQUE consumed_request_id never refuses.
THEOREM DecisionsAreBound == DecisionSpec => []DecisionsBound
  <1>1. DecisionInv => DecisionsBound
    BY DEF DecisionInv
  <1>2. QED
    BY <1>1, DecisionInvariance, PTL

\* The request that consumed a decision is answered as a replay at any later
\* time, expired or parked or with the harness gone, and every other request
\* is refused the decision.
THEOREM RepeatsAreRecognised == DecisionSpec => []RepeatRecognised
  <1>1. ASSUME DecisionInv, NEW d \in Decisions, NEW res \in Resources, NEW now \in Readings,
               Consumed(d), NEW r \in Requests
        PROVE  DecidedReply(d, r, res, decisions[d].choice, now) =
                  IF r # decisions[d].consumedBy THEN "already_consumed"
                  ELSE IF r \in defective THEN "defective" ELSE "replayed"
    <2> DEFINE fp == decisions[d].choice
    <2>1. /\ decisions[d].status = "resolved" /\ decisions[d].consumedBy # Nothing
          /\ Exists(decisions[d].consumedBy)
          /\ rows[decisions[d].consumedBy].content = fp
      BY <1>1 DEF DecisionInv, DecisionsBound, Consumed
    <2>2. CASE r # decisions[d].consumedBy
      <3>1. CheckDispatchable(d, r, fp, now) = "already_consumed"
        BY <1>1, <2>1, <2>2 DEF CheckDispatchable
      <3>2. QED
        BY <2>2, <3>1 DEF DecidedReply
    <2>3. CASE r = decisions[d].consumedBy
      <3>1. CheckDispatchable(d, r, fp, now) = "replay"
        BY <1>1, <2>1, <2>3 DEF CheckDispatchable
      <3>2. AdmitReply(r, res, fp) = IF r \in defective THEN "defective" ELSE "unchanged"
        BY <2>1, <2>3 DEF AdmitReply, Load
      <3>3. QED
        BY <2>3, <3>1, <3>2 DEF DecidedReply, Settle
    <2>4. QED
      BY <2>2, <2>3
  <1>2. DecisionInv => RepeatRecognised
    BY <1>1 DEF RepeatRecognised
  <1>3. QED
    BY <1>2, DecisionInvariance, PTL

----------------------------------------------------------------------------
(* What HarnessDispatchStore promises, with decided admissions among its   *)
(* transactions.                                                           *)

\* Every step is a transaction of the dispatch table or leaves it alone.
LEMMA DecisionStepsTable ==
    DecisionInv /\ [DecisionNext]_decisionVars => [AnyClockNext]_vars
  <1> SUFFICES ASSUME DecisionInv, [DecisionNext]_decisionVars PROVE [AnyClockNext]_vars
    OBVIOUS
  <1>1. ASSUME NEW d \in Decisions, NEW r \in Requests, NEW res \in Resources,
               NEW fp \in Fingerprints, NEW now \in Readings, AdmitDecided(d, r, res, fp, now)
        PROVE  AnyClockNext
    <2>1. Admit(r, res, fp, now) /\ now \in Nat
      BY <1>1, DecidedEffect, DecisionAssumption
    <2>2. QED
      BY <2>1 DEF AnyClockNext
  <1>2. QED
    BY <1>1, ClockReadings DEF DecisionNext, decisionVars, RecordDecision

\* Decided admissions included, two attempts never reserve one directory, a
\* committed cancel decides, success is earned and the log replays.
THEOREM DecidedTableSafe ==
    DecisionSpec => [](OneReservation /\ CancelWins /\ SuccessIsEarned /\ LogReplays)
  <1>1. DecisionInv => OneReservation /\ CancelWins /\ SuccessIsEarned /\ LogReplays
    BY DEF DecisionInv, IInv
  <1>2. QED
    BY <1>1, DecisionInvariance, PTL

\* Decided admissions included, a directory is given free only with the exit
\* of its process.
THEOREM DecidedRelease == DecisionSpec => ReleaseNeedsExit
  <1>1. DecisionInv /\ [DecisionNext]_decisionVars =>
           [\A r \in Requests :
              rows[r].phase \in {"running", "cancel_requested"}
              /\ ~HoldsReservation(rows'[r].phase)
              => rows'[r].process # NoProcess]_vars
    BY DecisionStepsTable, ReleaseStep DEF DecisionInv
  <1>2. QED
    BY <1>1, DecisionInvariance, PTL DEF DecisionSpec, ReleaseNeedsExit

\* Decided admissions included, a ready writer has settled what an earlier
\* generation left.
THEOREM DecidedRecovery == DecisionSpec => RecoverySettles
  <1>1. DecisionInv /\ [DecisionNext]_decisionVars =>
           [~open /\ open' =>
              \A r \in Requests : IF r \in defective THEN rows'[r] = rows[r]
                                  ELSE rows'[r].phase \notin ActivePhases]_vars
    BY DecisionStepsTable, RecoveryStep DEF DecisionInv
  <1>2. QED
    BY <1>1, DecisionInvariance, PTL DEF DecisionSpec, RecoverySettles
=============================================================================
