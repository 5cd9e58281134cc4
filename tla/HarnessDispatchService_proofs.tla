-------------------- MODULE HarnessDispatchService_proofs --------------------
(***************************************************************************)
(* Proofs about HarnessDispatchService, for every set of clients, requests *)
(* and directories, every queue capacity, retry budget and number of       *)
(* restarts.                                                               *)
(*                                                                         *)
(* The service's transactions are the store's, so that what the store      *)
(* promises holds here as well.  What the service promises itself depends  *)
(* on what a late answer leaves in the queue: the invariant says which     *)
(* orders may still be there, and what the caller of each knows.           *)
(***************************************************************************)
EXTENDS HarnessDispatchService, HarnessDispatchStore_proofs

----------------------------------------------------------------------------
(* Types.                                                                  *)

Orders ==
    [op       : {"none", "admit", "claim", "finish", "cancel", "abort"},
     request  : Requests \cup {Nothing},
     resource : Resources \cup {Nothing},
     content  : Fingerprints \cup {Nothing},
     fence    : Nat,
     report   : Report \cup {NoReport}]

ReplyCodes == {"changed", "unchanged", "conflict", "defective", "not_found", "not_detected",
               "busy", "terminal", "invalid_transition", "projection_mismatch",
               "stale_fence", "invalid_request"}

Answers == [code : ReplyCodes \cup {Nothing, "queue_full", "timeout"},
            phase : DispatchPhases \cup {"absent"}, fence : Nat]

CallRecords == [state : {"idle", "ready", "waiting", "answered", "orphan"}, tries : Nat,
                body : Orders, answer : Answers]

Messages == [caller : Callers, body : Orders, awaited : BOOLEAN]

TaskPcs == {"none", "claiming", "claimed", "running", "finishing", "ending"}

ServiceTypeOK ==
    /\ queue \in Seq(Messages)
    /\ calls \in [Callers -> CallRecords]
    /\ accepting \in BOOLEAN
    /\ pc \in [Requests -> TaskPcs]
    /\ signal \in [Requests -> BOOLEAN]
    /\ fences \in [Requests -> Nat]
    /\ procs \subseteq 1..Len(claims)

----------------------------------------------------------------------------
(* The invariant.                                                          *)

InCall(c) == calls[c].state # "idle"

Claimed(phase) == phase \in {"running", "cancel_requested"}

\* A report on its way is one its row is waiting for, or has recorded.
Reportable(b, row) ==
    /\ b.report \in Report /\ ValidFinish(b.report)
    /\ b.fence # NoFence /\ row.fence = b.fence
    /\ \/ Claimed(row.phase)
       \/ IsTerminal(row.phase) /\ RecordsFinish(row, b.report)

\* What caller c may order, given the row of the request.
ValidOrder(c, b, row, accepts) ==
    /\ b.request \in Requests
    /\ c \in Clients  => b.op \in {"admit", "cancel", "abort"}
    /\ c \in Requests => b.op \in {"claim", "finish"} /\ b.request = c
    /\ b.op = "admit"  => b.resource \in Resources /\ b.content \in Fingerprints
    /\ b.op = "finish" => Reportable(b, row)
    /\ b.op = "abort"  => ~accepts

OrdersValid ==
    /\ \A i \in 1..Len(queue) :
          ValidOrder(queue[i].caller, queue[i].body, rows[queue[i].body.request], accepting)
    /\ \A c \in Callers :
          InCall(c) => ValidOrder(c, calls[c].body, rows[calls[c].body.request], accepting)

FinishQueued(r) ==
    \E i \in 1..Len(queue) : queue[i].body.op = "finish" /\ queue[i].body.request = r

\* An attempt reports once; what is repeated is the same report.
OneReport ==
    /\ \A i, j \in 1..Len(queue) :
          /\ queue[i].body.op = "finish" /\ queue[j].body.op = "finish"
          /\ queue[i].body.request = queue[j].body.request
          => queue[i].body = queue[j].body
    /\ \A i \in 1..Len(queue) : \A r \in Requests :
          /\ queue[i].body.op = "finish" /\ queue[i].body.request = r
          /\ InCall(r) /\ calls[r].body.op = "finish"
          => queue[i].body = calls[r].body

\* Where an attempt task is says which call it is in.
TaskCalls ==
    /\ \A c \in Callers : ~InCall(c) => calls[c] = Idle
    /\ \A c \in Clients : calls[c].state # "orphan"
    /\ \A r \in Requests :
          /\ InCall(r) /\ calls[r].state # "orphan" =>
                \/ pc[r] = "claiming"  /\ calls[r].body.op = "claim"
                \/ pc[r] = "finishing" /\ calls[r].body.op = "finish"
                                       /\ fences[r] = calls[r].body.fence
          /\ pc[r] \in {"claiming", "finishing"} => InCall(r)
          /\ calls[r].state = "orphan" => ~accepting /\ pc[r] = "none"

\* An awaited order is the last its caller made.
AwaitedLast ==
    \A i \in 1..Len(queue) : queue[i].awaited =>
        /\ calls[queue[i].caller].state = "waiting"
        /\ calls[queue[i].caller].body = queue[i].body
        /\ \A j \in 1..Len(queue) : j > i => queue[j].caller # queue[i].caller

ClaimLearnt(r) ==
    /\ calls[r].state = "answered" /\ calls[r].body.op = "claim"
    /\ calls[r].answer.code = "changed"

\* The task that made the claim, before it reports.
Claimant(r) == pc[r] \in {"claimed", "running"} \/ ClaimLearnt(r)

\* It has the fence of the row, and no report of it is on its way.
ClaimHeld ==
    \A r \in Requests :
        /\ Claimant(r) => Claimed(rows[r].phase) /\ ~FinishQueued(r)
        /\ pc[r] \in {"claimed", "running"} => fences[r] = rows[r].fence
        /\ ClaimLearnt(r) => calls[r].answer.fence = rows[r].fence

TriesBounded == \A c \in Callers : calls[c].tries <= MaxRetries

\* A claim nobody waits for any more has lapsed.
LostClaims ==
    accepting => \A i \in 1..Len(queue) :
        queue[i].body.op = "claim" /\ ~queue[i].awaited =>
            <<"claim", queue[i].body.request>> \in lapsed

\* RunningIsSupervised, with what the task was told.
Supervised ==
    \A r \in Requests : open /\ accepting /\ Claimed(rows[r].phase) =>
        \/ Claimant(r) \/ pc[r] = "finishing"
        \/ <<"claim", r>> \in lapsed
        \/ <<"finish", r>> \in lapsed

\* A report that was answered is recorded, or the task gave up.
FinishKnown ==
    \A r \in Requests : calls[r].state = "answered" /\ calls[r].body.op = "finish" =>
        IsTerminal(rows[r].phase) \/ <<"finish", r>> \in lapsed

\* A cancel that was repeated is followed by its repetition, unless the
\* canceller gave up.
LateCancels ==
    \A i \in 1..Len(queue) : queue[i].body.op = "cancel" /\ ~queue[i].awaited =>
        \/ <<"cancel", queue[i].body.request>> \in lapsed
        \/ /\ calls[queue[i].caller].state \in {"ready", "waiting"}
           /\ calls[queue[i].caller].body = queue[i].body

\* Client c is going to signal the attempt.
WillSignal(c, r) ==
    /\ calls[c].body.op = "cancel" /\ calls[c].body.request = r
    /\ \/ calls[c].state \in {"ready", "waiting"}
       \/ /\ calls[c].state = "answered" /\ Accepted(calls[c].answer.code)
          /\ calls[c].answer.phase = "cancel_requested"

\* A committed cancellation has reached the task, or somebody will pass it on.
CancelHeard ==
    \A r \in Requests : rows[r].phase = "cancel_requested" /\ Claimant(r) =>
        \/ signal[r] \/ <<"cancel", r>> \in lapsed
        \/ \E c \in Clients : WillSignal(c, r)

EpochsPast == \A f \in 1..Len(claims) : claims[f].epoch <= epoch

\* Without a daemon there is nothing in memory.
ClosedEmpty ==
    ~open => /\ queue = << >> /\ ~accepting
             /\ \A c \in Callers : calls[c] = Idle
             /\ \A r \in Requests : pc[r] = "none"

ServiceInv ==
    /\ IInv /\ defective = {} /\ ServiceTypeOK /\ EpochsPast /\ ClosedEmpty
    /\ OrdersValid /\ OneReport /\ TaskCalls /\ AwaitedLast /\ ClaimHeld /\ TriesBounded
    /\ LostClaims /\ Supervised /\ FinishKnown /\ LateCancels /\ CancelHeard
    /\ ShutdownSignalsAll /\ ProcessSupervised

----------------------------------------------------------------------------
(* Records and the queue.                                                  *)

LEMMA IdleFacts ==
    /\ Idle \in CallRecords /\ Idle.state = "idle" /\ Idle.body.op = "none"
    /\ Idle.tries = 0
  <1>1. NoAnswer \in Answers
    BY DEF NoAnswer, Answers, NoFence
  <1>2. Order("none", Nothing, Nothing, Nothing, NoFence, NoReport) \in Orders
    BY DEF Order, Orders, NoFence
  <1> QED
    BY <1>1, <1>2 DEF Idle, CallRecords, Order

LEMMA CallFacts ==
    ASSUME NEW b \in Orders
    PROVE  /\ Call(b) \in CallRecords /\ Call(b).state = "ready" /\ Call(b).body = b
           /\ Call(b).tries = 0
  <1>1. NoAnswer \in Answers
    BY DEF NoAnswer, Answers, NoFence
  <1> QED
    BY <1>1 DEF Call, CallRecords

\* A retry is the same call again, or its end with a code that is no success.
LEMMA RetryFacts ==
    ASSUME NEW call \in CallRecords, NEW code \in {"queue_full", "timeout"},
           call.tries <= MaxRetries
    PROVE  /\ Retry(call, code) \in CallRecords /\ Retry(call, code).body = call.body
           /\ Retry(call, code).tries <= MaxRetries
           /\ \/ Retry(call, code).state = "ready"
              \/ /\ Retry(call, code).state = "answered" /\ call.tries = MaxRetries
                 /\ Retry(call, code).answer.code = code
  <1>0. MaxRetries \in Nat /\ call.tries \in Nat
    BY ServiceAssumption DEF CallRecords
  <1>1. CASE call.tries < MaxRetries
    <2>1. Retry(call, code) = [call EXCEPT !.state = "ready", !.tries = @ + 1]
      BY <1>1 DEF Retry
    <2>2. call.tries + 1 \in Nat /\ call.tries + 1 <= MaxRetries
      BY <1>0, <1>1
    <2> QED
      BY <2>1, <2>2 DEF CallRecords
  <1>2. CASE ~(call.tries < MaxRetries)
    <2>1. [NoAnswer EXCEPT !.code = code] \in Answers /\ [NoAnswer EXCEPT !.code = code].code = code
      BY DEF NoAnswer, Answers, NoFence
    <2>2. Retry(call, code) = [call EXCEPT !.state = "answered",
                                           !.answer = [NoAnswer EXCEPT !.code = code]]
      BY <1>2 DEF Retry, Failed
    <2>3. call.tries = MaxRetries
      BY <1>0, <1>2
    <2> QED
      BY <2>1, <2>2, <2>3 DEF CallRecords
  <1> QED
    BY <1>1, <1>2

LEMMA TailFacts ==
    ASSUME queue \in Seq(Messages), queue # << >>
    PROVE  /\ Head(queue) = queue[1] /\ Head(queue) \in Messages /\ 1 \in 1..Len(queue)
           /\ Tail(queue) \in Seq(Messages) /\ Len(Tail(queue)) = Len(queue) - 1
           /\ \A i \in 1..Len(Tail(queue)) :
                 i + 1 \in 1..Len(queue) /\ Tail(queue)[i] = queue[i + 1]
  OBVIOUS

LEMMA AppendFacts ==
    ASSUME queue \in Seq(Messages), NEW m \in Messages
    PROVE  /\ Append(queue, m) \in Seq(Messages)
           /\ Len(Append(queue, m)) = Len(queue) + 1
           /\ \A i \in 1..Len(queue) : Append(queue, m)[i] = queue[i]
           /\ Append(queue, m)[Len(queue) + 1] = m
           /\ \A i \in 1..Len(Append(queue, m)) : i \in 1..Len(queue) \/ i = Len(queue) + 1
  OBVIOUS

\* The answers to some of the queued orders are not waited for any more.
LEMMA ForgottenFacts ==
    ASSUME queue \in Seq(Messages), NEW S,
           queue' = [i \in 1..Len(queue) |->
                       IF queue[i].caller \in S THEN [queue[i] EXCEPT !.awaited = FALSE]
                       ELSE queue[i]]
    PROVE  /\ queue' \in Seq(Messages) /\ Len(queue') = Len(queue)
           /\ \A i \in 1..Len(queue) :
                 /\ queue'[i].caller = queue[i].caller /\ queue'[i].body = queue[i].body
                 /\ queue[i].caller \in S => queue'[i].awaited = FALSE
                 /\ queue[i].caller \notin S => queue'[i] = queue[i]
  <1>1. \A i \in 1..Len(queue) : queue[i] \in Messages
    OBVIOUS
  <1>2. \A i \in 1..Len(queue) :
           /\ queue'[i] \in Messages
           /\ queue'[i].caller = queue[i].caller /\ queue'[i].body = queue[i].body
           /\ queue[i].caller \in S => queue'[i].awaited = FALSE
           /\ queue[i].caller \notin S => queue'[i] = queue[i]
    BY <1>1 DEF Messages
  <1>3. Len(queue) \in Nat
    OBVIOUS
  <1> QED
    BY <1>2, <1>3

----------------------------------------------------------------------------
(* Steps of the callers, which leave the store alone.                      *)

LEMMA StoreKept ==
    ASSUME ServiceInv, UNCHANGED vars
    PROVE  IInv' /\ defective' = {} /\ EpochsPast'
  <1>1. IInv'
    BY StepIInv DEF ServiceInv
  <1> QED
    BY <1>1 DEF ServiceInv, EpochsPast, vars

LEMMA CallerKinds ==
    /\ \A c \in Clients : c \in Callers /\ c \notin Requests
    /\ \A r \in Requests : r \in Callers /\ r \notin Clients
    /\ \A c \in Callers : c \in Clients \/ c \in Requests
  BY ServiceAssumption DEF Callers

LEMMA OrderFacts ==
    ASSUME ServiceInv
    PROVE  /\ \A i \in 1..Len(queue) :
                 /\ queue[i] \in Messages /\ queue[i].caller \in Callers
                 /\ queue[i].body \in Orders /\ queue[i].body.request \in Requests
                 /\ queue[i].awaited \in BOOLEAN
                 /\ queue[i].body.op \in {"claim", "finish"} =>
                       queue[i].caller \in Requests /\ queue[i].body.request = queue[i].caller
                 /\ queue[i].body.op \in {"admit", "cancel", "abort"} =>
                       queue[i].caller \in Clients
           /\ \A c \in Callers : InCall(c) =>
                 /\ calls[c].body \in Orders /\ calls[c].body.request \in Requests
                 /\ calls[c].body.op \in {"claim", "finish"} =>
                       c \in Requests /\ calls[c].body.request = c
                 /\ calls[c].body.op \in {"admit", "cancel", "abort"} => c \in Clients
  <1>1. \A i \in 1..Len(queue) : queue[i] \in Messages
    BY DEF ServiceInv, ServiceTypeOK
  <1>2. \A i \in 1..Len(queue) : queue[i].caller \in Callers /\ queue[i].body \in Orders
                                  /\ queue[i].awaited \in BOOLEAN
    BY <1>1 DEF Messages
  <1>3. \A c \in Callers : calls[c].body \in Orders
    BY DEF ServiceInv, ServiceTypeOK, CallRecords
  <1> QED
    BY <1>1, <1>2, <1>3, CallerKinds DEF ServiceInv, OrdersValid, ValidOrder

\* A client that is in no call makes one.
LEMMA NewCallKeepsInv ==
    ASSUME ServiceInv, NEW c \in Clients, NEW b \in Orders, open, calls[c] = Idle,
           calls' = [calls EXCEPT ![c] = Call(b)],
           ValidOrder(c, b, rows[b.request], accepting),
           UNCHANGED <<vars, queue, accepting, pc, signal, fences, procs, lapsed>>
    PROVE  ServiceInv'
  <1>1. IInv' /\ defective' = {} /\ EpochsPast'
    BY StoreKept
  <1>2. /\ UNCHANGED <<rows, open, claims, epoch>>
        /\ UNCHANGED <<queue, accepting, pc, signal, fences, procs, lapsed>>
    BY DEF vars
  <1>3. calls \in [Callers -> CallRecords] /\ c \in Callers
    BY CallerKinds DEF ServiceInv, ServiceTypeOK
  <1>4. /\ calls'[c].state = "ready" /\ calls'[c].body = b /\ calls'[c].tries = 0
        /\ calls' \in [Callers -> CallRecords]
        /\ \A d \in Callers : d # c => calls'[d] = calls[d]
    BY <1>3, CallFacts
  <1>5. calls[c].state = "idle" /\ calls[c].body.op = "none" /\ MaxRetries \in Nat
    BY IdleFacts, ServiceAssumption
  <1>6. ServiceTypeOK'
    BY <1>1, <1>2, <1>3, <1>4, <1>5, CallerKinds DEF ServiceInv, ServiceTypeOK
  <1>7. OrdersValid'
    BY <1>1, <1>2, <1>3, <1>4, <1>5, CallerKinds DEF ServiceInv, OrdersValid, InCall
  <1>8. OneReport'
    BY <1>1, <1>2, <1>3, <1>4, <1>5, CallerKinds DEF ServiceInv, OneReport, InCall
  <1>9. TaskCalls'
    BY <1>1, <1>2, <1>3, <1>4, <1>5, CallerKinds DEF ServiceInv, TaskCalls, InCall
  <1>10. AwaitedLast'
    BY <1>1, <1>2, <1>3, <1>4, <1>5, CallerKinds DEF ServiceInv, AwaitedLast
  <1>11. ClaimHeld'
    BY <1>1, <1>2, <1>3, <1>4, <1>5, CallerKinds DEF ServiceInv, ClaimHeld, Claimant, ClaimLearnt, FinishQueued
  <1>12. TriesBounded'
    BY <1>1, <1>2, <1>3, <1>4, <1>5, CallerKinds DEF ServiceInv, TriesBounded
  <1>13. LostClaims'
    BY <1>1, <1>2, <1>3, <1>4, <1>5, CallerKinds DEF ServiceInv, LostClaims
  <1>14. Supervised'
    BY <1>1, <1>2, <1>3, <1>4, <1>5, CallerKinds DEF ServiceInv, Supervised, Claimant, ClaimLearnt
  <1>15. FinishKnown'
    BY <1>1, <1>2, <1>3, <1>4, <1>5, CallerKinds DEF ServiceInv, FinishKnown
  <1>16. LateCancels'
    BY <1>1, <1>2, <1>3, <1>4, <1>5, CallerKinds DEF ServiceInv, LateCancels
  <1>17. CancelHeard'
    BY <1>1, <1>2, <1>3, <1>4, <1>5, CallerKinds DEF ServiceInv, CancelHeard, Claimant, ClaimLearnt, WillSignal
  <1>18. ClosedEmpty'
    BY <1>1, <1>2, <1>3, <1>4, <1>5, CallerKinds DEF ServiceInv, ClosedEmpty
  <1>19. ShutdownSignalsAll'
    BY <1>1, <1>2, <1>3, <1>4, <1>5, CallerKinds DEF ServiceInv, ShutdownSignalsAll, Registered
  <1>20. ProcessSupervised'
    BY <1>1, <1>2, <1>3, <1>4, <1>5, CallerKinds DEF ServiceInv, ProcessSupervised
  <1> QED
    BY <1>1, <1>6, <1>7, <1>8, <1>9, <1>10, <1>11, <1>12, <1>13, <1>14, <1>15, <1>16, <1>17, <1>18, <1>19, <1>20 DEF ServiceInv

LEMMA EnqueueKeepsInv ==
    ASSUME ServiceInv, NEW c \in Callers, Enqueue(c)
    PROVE  ServiceInv'
  <1>1. IInv' /\ defective' = {} /\ EpochsPast'
    BY StoreKept DEF Enqueue
  <1>2. /\ UNCHANGED <<rows, open, claims, epoch>> /\ open
        /\ UNCHANGED <<accepting, pc, signal, fences, procs, lapsed>>
    BY DEF vars, Enqueue
  <1>3. calls \in [Callers -> CallRecords] /\ MaxRetries \in Nat
    BY ServiceAssumption DEF ServiceInv, ServiceTypeOK
  <1>4. /\ calls[c].state = "ready"
        /\ calls'[c].state = "waiting" /\ calls'[c].body = calls[c].body
        /\ calls'[c].tries = calls[c].tries
        /\ calls' \in [Callers -> CallRecords]
        /\ \A d \in Callers : d # c => calls'[d] = calls[d]
    BY <1>3 DEF Enqueue, CallRecords
  <1> DEFINE m == [caller |-> c, body |-> calls[c].body, awaited |-> TRUE]
  <1>5. m \in Messages /\ m.caller = c /\ m.body = calls[c].body /\ m.awaited
    BY <1>3 DEF Messages, CallRecords
  <1>6. /\ queue' \in Seq(Messages) /\ Len(queue') = Len(queue) + 1 /\ Len(queue) \in Nat
        /\ \A i \in 1..Len(queue) : queue'[i] = queue[i]
        /\ queue'[Len(queue) + 1] = m
        /\ \A i \in 1..Len(queue') : i \in 1..Len(queue) \/ i = Len(queue) + 1
    BY <1>5, AppendFacts DEF Enqueue, ServiceInv, ServiceTypeOK
  <1> HIDE DEF m
  <1>7. ServiceTypeOK'
    BY <1>2, <1>3, <1>4, <1>5, <1>6, CallerKinds DEF ServiceInv, ServiceTypeOK
  <1>8. OrdersValid'
    BY <1>2, <1>3, <1>4, <1>5, <1>6, CallerKinds DEF ServiceInv, OrdersValid, InCall
  <1>9. OneReport'
    <2>1. \A i \in 1..Len(queue) :
            /\ queue[i].body.op = "finish" /\ m.body.op = "finish"
            /\ queue[i].body.request = m.body.request
            => queue[i].body = m.body
      BY <1>4, <1>5, OrderFacts DEF ServiceInv, OneReport, InCall
    <2>2. \A i, j \in 1..Len(queue') :
            /\ queue'[i].body.op = "finish" /\ queue'[j].body.op = "finish"
            /\ queue'[i].body.request = queue'[j].body.request
            => queue'[i].body = queue'[j].body
      BY <1>6, <2>1 DEF ServiceInv, OneReport
    <2>3. \A i \in 1..Len(queue') : \A r \in Requests :
            /\ queue'[i].body.op = "finish" /\ queue'[i].body.request = r
            /\ calls'[r].state # "idle" /\ calls'[r].body.op = "finish"
            => queue'[i].body = calls'[r].body
      <3> SUFFICES ASSUME NEW i \in 1..Len(queue'), NEW r \in Requests,
                          queue'[i].body.op = "finish", queue'[i].body.request = r,
                          calls'[r].state # "idle", calls'[r].body.op = "finish"
                   PROVE  queue'[i].body = calls'[r].body
        OBVIOUS
      <3>1. calls'[r].body = calls[r].body /\ InCall(r)
        BY <1>4, CallerKinds DEF InCall
      <3>2. CASE i \in 1..Len(queue)
        BY <1>6, <3>1, <3>2 DEF ServiceInv, OneReport
      <3>3. CASE i = Len(queue) + 1
        BY <1>4, <1>5, <1>6, <3>1, <3>3, OrderFacts DEF InCall
      <3> QED
        BY <1>6, <3>2, <3>3
    <2> QED
      BY <2>2, <2>3 DEF OneReport, InCall
  <1>10. TaskCalls'
    BY <1>2, <1>3, <1>4, <1>5, <1>6, CallerKinds DEF ServiceInv, TaskCalls, InCall
  <1>11. AwaitedLast'
    BY SMTT(30), <1>2, <1>3, <1>4, <1>5, <1>6, CallerKinds, OrderFacts DEF ServiceInv, AwaitedLast
  <1>12. ClaimHeld'
    BY <1>2, <1>3, <1>4, <1>5, <1>6, CallerKinds, OrderFacts DEF ServiceInv, ClaimHeld, Claimant, ClaimLearnt, FinishQueued, TaskCalls, InCall
  <1>13. TriesBounded'
    BY <1>2, <1>3, <1>4, <1>5, <1>6, CallerKinds DEF ServiceInv, TriesBounded
  <1>14. LostClaims'
    BY <1>2, <1>3, <1>4, <1>5, <1>6, CallerKinds DEF ServiceInv, LostClaims
  <1>15. Supervised'
    BY <1>2, <1>3, <1>4, <1>5, <1>6, CallerKinds DEF ServiceInv, Supervised, Claimant, ClaimLearnt
  <1>16. FinishKnown'
    BY <1>2, <1>3, <1>4, <1>5, <1>6, CallerKinds DEF ServiceInv, FinishKnown
  <1>17. LateCancels'
    <2> SUFFICES ASSUME NEW i \in 1..Len(queue'), queue'[i].body.op = "cancel",
                        ~queue'[i].awaited
                 PROVE  \/ <<"cancel", queue'[i].body.request>> \in lapsed
                        \/ /\ calls'[queue'[i].caller].state \in {"ready", "waiting"}
                           /\ calls'[queue'[i].caller].body = queue'[i].body
      BY <1>2 DEF LateCancels
    <2>1. i \in 1..Len(queue) /\ queue'[i] = queue[i]
      BY <1>5, <1>6
    <2>2. \/ <<"cancel", queue[i].body.request>> \in lapsed
          \/ /\ calls[queue[i].caller].state \in {"ready", "waiting"}
             /\ calls[queue[i].caller].body = queue[i].body
      BY <2>1 DEF ServiceInv, LateCancels
    <2> QED
      BY <1>4, <2>1, <2>2, OrderFacts
  <1>18. CancelHeard'
    BY <1>2, <1>3, <1>4, <1>5, <1>6, CallerKinds DEF ServiceInv, CancelHeard, Claimant, ClaimLearnt, WillSignal
  <1>19. ClosedEmpty'
    BY <1>2, <1>3, <1>4, <1>5, <1>6, CallerKinds DEF ServiceInv, ClosedEmpty
  <1>20. ShutdownSignalsAll'
    BY <1>2, <1>3, <1>4, <1>5, <1>6, CallerKinds DEF ServiceInv, ShutdownSignalsAll, Registered
  <1>21. ProcessSupervised'
    BY <1>2, <1>3, <1>4, <1>5, <1>6, CallerKinds DEF ServiceInv, ProcessSupervised
  <1> QED
    BY <1>1, <1>7, <1>8, <1>9, <1>10, <1>11, <1>12, <1>13, <1>14, <1>15, <1>16, <1>17, <1>18, <1>19, <1>20, <1>21 DEF ServiceInv

LEMMA QueueFullKeepsInv ==
    ASSUME ServiceInv, NEW c \in Callers, QueueFull(c)
    PROVE  ServiceInv'
  <1>1. IInv' /\ defective' = {} /\ EpochsPast'
    BY StoreKept DEF QueueFull
  <1>2. /\ UNCHANGED <<rows, open, claims, epoch>> /\ open
        /\ UNCHANGED <<queue, accepting, pc, signal, fences, procs>>
    BY DEF vars, QueueFull
  <1>3. calls \in [Callers -> CallRecords] /\ MaxRetries \in Nat
    BY ServiceAssumption DEF ServiceInv, ServiceTypeOK
  <1>4. /\ calls[c].state = "ready" /\ calls' = [calls EXCEPT ![c] = Retry(@, "queue_full")]
        /\ calls[c] \in CallRecords /\ calls[c].tries <= MaxRetries
    BY <1>3 DEF QueueFull, ServiceInv, TriesBounded
  <1>5. /\ calls' \in [Callers -> CallRecords]
        /\ \A d \in Callers : d # c => calls'[d] = calls[d]
        /\ calls'[c].body = calls[c].body /\ calls'[c].tries <= MaxRetries
        /\ \/ calls'[c].state = "ready"
           \/ /\ calls'[c].state = "answered" /\ calls[c].tries = MaxRetries
              /\ calls'[c].answer.code = "queue_full"
    BY <1>3, <1>4, RetryFacts
  <1>6. /\ lapsed \subseteq lapsed'
        /\ calls[c].tries = MaxRetries => <<calls[c].body.op, calls[c].body.request>> \in lapsed'
    BY DEF QueueFull, Lapses
  <1>7. InCall(c) /\ (c \in Requests => calls[c].body.request = c)
    BY <1>4 DEF InCall, ServiceInv, OrdersValid, ValidOrder
  <1>8. ServiceTypeOK'
    BY <1>2, <1>3, <1>4, <1>5, <1>6, <1>7, CallerKinds DEF ServiceInv, ServiceTypeOK
  <1>9. OrdersValid'
    BY <1>2, <1>3, <1>4, <1>5, <1>6, <1>7, CallerKinds DEF ServiceInv, OrdersValid, InCall
  <1>10. OneReport'
    BY <1>2, <1>3, <1>4, <1>5, <1>6, <1>7, CallerKinds DEF ServiceInv, OneReport, InCall
  <1>11. TaskCalls'
    BY <1>2, <1>3, <1>4, <1>5, <1>6, <1>7, CallerKinds DEF ServiceInv, TaskCalls, InCall
  <1>12. AwaitedLast'
    BY <1>2, <1>3, <1>4, <1>5, <1>6, <1>7, CallerKinds DEF ServiceInv, AwaitedLast
  <1>13. ClaimHeld'
    BY <1>2, <1>3, <1>4, <1>5, <1>6, <1>7, CallerKinds DEF ServiceInv, ClaimHeld, Claimant, ClaimLearnt, FinishQueued
  <1>14. TriesBounded'
    BY <1>2, <1>3, <1>4, <1>5, <1>6, <1>7, CallerKinds DEF ServiceInv, TriesBounded
  <1>15. LostClaims'
    BY <1>2, <1>3, <1>4, <1>5, <1>6, <1>7, CallerKinds DEF ServiceInv, LostClaims
  <1>16. Supervised'
    BY <1>2, <1>3, <1>4, <1>5, <1>6, <1>7, CallerKinds DEF ServiceInv, Supervised, Claimant, ClaimLearnt
  <1>17. FinishKnown'
    BY <1>2, <1>3, <1>4, <1>5, <1>6, <1>7, CallerKinds DEF ServiceInv, FinishKnown
  <1>18. LateCancels'
    BY <1>2, <1>3, <1>4, <1>5, <1>6, <1>7, CallerKinds DEF ServiceInv, LateCancels
  <1>19. CancelHeard'
    BY <1>2, <1>3, <1>4, <1>5, <1>6, <1>7, CallerKinds DEF ServiceInv, CancelHeard, Claimant, ClaimLearnt, WillSignal, Accepted
  <1>20. ClosedEmpty'
    BY <1>2, <1>3, <1>4, <1>5, <1>6, <1>7, CallerKinds DEF ServiceInv, ClosedEmpty
  <1>21. ShutdownSignalsAll'
    BY <1>2, <1>3, <1>4, <1>5, <1>6, <1>7, CallerKinds DEF ServiceInv, ShutdownSignalsAll, Registered
  <1>22. ProcessSupervised'
    BY <1>2, <1>3, <1>4, <1>5, <1>6, <1>7, CallerKinds DEF ServiceInv, ProcessSupervised
  <1> QED
    BY <1>1, <1>8, <1>9, <1>10, <1>11, <1>12, <1>13, <1>14, <1>15, <1>16, <1>17, <1>18, <1>19, <1>20, <1>21, <1>22 DEF ServiceInv

LEMMA ResponseTimeoutKeepsInv ==
    ASSUME ServiceInv, NEW c \in Callers, ResponseTimeout(c)
    PROVE  ServiceInv'
  <1>1. IInv' /\ defective' = {} /\ EpochsPast'
    BY StoreKept DEF ResponseTimeout
  <1>2. /\ UNCHANGED <<rows, open, claims, epoch>> /\ open
        /\ UNCHANGED <<accepting, pc, signal, fences, procs>>
    BY DEF vars, ResponseTimeout
  <1>3. calls \in [Callers -> CallRecords] /\ MaxRetries \in Nat
    BY ServiceAssumption DEF ServiceInv, ServiceTypeOK
  <1>4. /\ calls[c].state = "waiting" /\ calls' = [calls EXCEPT ![c] = Retry(@, "timeout")]
        /\ calls[c] \in CallRecords /\ calls[c].tries <= MaxRetries
    BY <1>3 DEF ResponseTimeout, ServiceInv, TriesBounded
  <1>5. /\ calls' \in [Callers -> CallRecords]
        /\ \A d \in Callers : d # c => calls'[d] = calls[d]
        /\ calls'[c].body = calls[c].body /\ calls'[c].tries <= MaxRetries
        /\ \/ calls'[c].state = "ready"
           \/ /\ calls'[c].state = "answered" /\ calls[c].tries = MaxRetries
              /\ calls'[c].answer.code = "timeout"
    BY <1>3, <1>4, RetryFacts
  <1>6. /\ lapsed \subseteq lapsed'
        /\ calls[c].tries = MaxRetries \/ calls[c].body.op = "claim"
              => <<calls[c].body.op, calls[c].body.request>> \in lapsed'
    BY DEF ResponseTimeout, Lapses
  <1>7. InCall(c) /\ (c \in Requests => calls[c].body.request = c)
    BY <1>4 DEF InCall, ServiceInv, OrdersValid, ValidOrder
  <1>8. /\ queue' \in Seq(Messages) /\ Len(queue') = Len(queue)
        /\ \A i \in 1..Len(queue) :
              /\ queue'[i].caller = queue[i].caller /\ queue'[i].body = queue[i].body
              /\ queue[i].caller = c => queue'[i].awaited = FALSE
              /\ queue[i].caller # c => queue'[i] = queue[i]
    <2>1. queue' = [i \in 1..Len(queue) |->
                      IF queue[i].caller \in {c} THEN [queue[i] EXCEPT !.awaited = FALSE]
                      ELSE queue[i]]
      BY DEF ResponseTimeout
    <2> QED
      BY <2>1, ForgottenFacts DEF ServiceInv, ServiceTypeOK
  <1>9. ServiceTypeOK'
    BY <1>2, <1>3, <1>4, <1>5, <1>6, <1>7, <1>8, CallerKinds DEF ServiceInv, ServiceTypeOK
  <1>10. OrdersValid'
    BY <1>2, <1>3, <1>4, <1>5, <1>6, <1>7, <1>8, CallerKinds DEF ServiceInv, OrdersValid, InCall
  <1>11. OneReport'
    <2>1. \A r \in Requests : calls'[r].state # "idle" /\ calls'[r].body.op = "finish" =>
            InCall(r) /\ calls'[r].body = calls[r].body
      BY <1>4, <1>5, CallerKinds DEF InCall
    <2> QED
      BY <1>8, <2>1 DEF ServiceInv, OneReport, InCall
  <1>12. TaskCalls'
    BY <1>2, <1>3, <1>4, <1>5, <1>6, <1>7, <1>8, CallerKinds DEF ServiceInv, TaskCalls, InCall
  <1>13. AwaitedLast'
    BY <1>2, <1>3, <1>4, <1>5, <1>6, <1>7, <1>8, CallerKinds DEF ServiceInv, AwaitedLast
  <1>14. ClaimHeld'
    BY SMTT(30), <1>2, <1>3, <1>4, <1>5, <1>6, <1>7, <1>8, CallerKinds DEF ServiceInv, ClaimHeld, Claimant, ClaimLearnt, FinishQueued
  <1>15. TriesBounded'
    BY <1>2, <1>3, <1>4, <1>5, <1>6, <1>7, <1>8, CallerKinds DEF ServiceInv, TriesBounded
  <1>16. LostClaims'
    BY <1>2, <1>3, <1>4, <1>5, <1>6, <1>7, <1>8, CallerKinds, OrderFacts DEF ServiceInv, LostClaims, AwaitedLast
  <1>17. Supervised'
    BY <1>2, <1>3, <1>4, <1>5, <1>6, <1>7, <1>8, CallerKinds DEF ServiceInv, Supervised, Claimant, ClaimLearnt
  <1>18. FinishKnown'
    BY <1>2, <1>3, <1>4, <1>5, <1>6, <1>7, <1>8, CallerKinds DEF ServiceInv, FinishKnown
  <1>19. LateCancels'
    <2> SUFFICES ASSUME NEW i \in 1..Len(queue), queue[i].body.op = "cancel",
                        ~queue'[i].awaited
                 PROVE  \/ <<"cancel", queue[i].body.request>> \in lapsed'
                        \/ /\ calls'[queue[i].caller].state \in {"ready", "waiting"}
                           /\ calls'[queue[i].caller].body = queue[i].body
      BY <1>8 DEF LateCancels
    <2>1. CASE queue[i].caller # c
      BY <1>5, <1>6, <1>8, <2>1, OrderFacts DEF ServiceInv, LateCancels
    <2>2. CASE queue[i].caller = c
      <3>1. \/ <<"cancel", queue[i].body.request>> \in lapsed
            \/ calls[c].body = queue[i].body
        BY <2>2 DEF ServiceInv, LateCancels, AwaitedLast
      <3> QED
        BY <1>5, <1>6, <2>2, <3>1
    <2> QED
      BY <2>1, <2>2
  <1>20. CancelHeard'
    BY <1>2, <1>3, <1>4, <1>5, <1>6, <1>7, <1>8, CallerKinds DEF ServiceInv, CancelHeard, Claimant, ClaimLearnt, WillSignal, Accepted
  <1>21. ClosedEmpty'
    BY <1>2, <1>3, <1>4, <1>5, <1>6, <1>7, <1>8, CallerKinds DEF ServiceInv, ClosedEmpty
  <1>22. ShutdownSignalsAll'
    BY <1>2, <1>3, <1>4, <1>5, <1>6, <1>7, <1>8, CallerKinds DEF ServiceInv, ShutdownSignalsAll, Registered
  <1>23. ProcessSupervised'
    BY <1>2, <1>3, <1>4, <1>5, <1>6, <1>7, <1>8, CallerKinds DEF ServiceInv, ProcessSupervised
  <1> QED
    BY <1>1, <1>9, <1>10, <1>11, <1>12, <1>13, <1>14, <1>15, <1>16, <1>17, <1>18, <1>19, <1>20, <1>21, <1>22, <1>23 DEF ServiceInv

\* A caller of an aborted task is a request, and the service stops.
LEMMA OrphanFacts ==
    ASSUME ServiceInv, NEW c \in Callers, calls[c].state = "orphan"
    PROVE  c \in Requests /\ ~accepting /\ pc[c] = "none" /\ InCall(c)
  BY CallerKinds DEF ServiceInv, TaskCalls, InCall

LEMMA OrphanCallKeepsInv ==
    ASSUME ServiceInv, NEW c \in Callers, OrphanCall(c)
    PROVE  ServiceInv'
  <1>1. IInv' /\ defective' = {} /\ EpochsPast'
    BY StoreKept DEF OrphanCall
  <1>2. /\ UNCHANGED <<rows, open, claims, epoch>> /\ open
        /\ UNCHANGED <<accepting, pc, signal, fences, procs, lapsed>>
    BY DEF vars, OrphanCall
  <1>3. calls \in [Callers -> CallRecords] /\ MaxRetries \in Nat
    BY ServiceAssumption DEF ServiceInv, ServiceTypeOK
  <1>4. /\ calls[c].state = "orphan" /\ calls'[c] = Idle /\ Idle.state = "idle"
        /\ Idle.body.op = "none" /\ Idle.tries = 0
        /\ calls' \in [Callers -> CallRecords]
        /\ \A d \in Callers : d # c => calls'[d] = calls[d]
    BY <1>3, IdleFacts DEF OrphanCall
  <1>5. c \in Requests /\ ~accepting /\ pc[c] = "none" /\ InCall(c)
    BY <1>4, OrphanFacts
  <1> DEFINE m == [caller |-> c, body |-> calls[c].body, awaited |-> FALSE]
  <1>6. m \in Messages /\ m.caller = c /\ m.body = calls[c].body /\ m.awaited = FALSE
    BY <1>3 DEF Messages, CallRecords
  <1> HIDE DEF m
  <1>7. /\ queue' \in Seq(Messages) /\ Len(queue) \in Nat
        /\ \A i \in 1..Len(queue) : i \in 1..Len(queue') /\ queue'[i] = queue[i]
        /\ \A i \in 1..Len(queue') : i \in 1..Len(queue) \/ (i = Len(queue) + 1 /\ queue'[i] = m)
    <2>1. queue \in Seq(Messages)
      BY DEF ServiceInv, ServiceTypeOK
    <2>2. CASE queue' = queue
      BY <2>1, <2>2
    <2>3. CASE queue' = Append(queue, m)
      BY <1>6, <2>1, <2>3, AppendFacts
    <2> QED
      BY <2>2, <2>3 DEF OrphanCall, m
  <1>8. \A i \in 1..Len(queue) : queue[i].awaited => queue[i].caller # c
    BY <1>4 DEF ServiceInv, AwaitedLast
  <1>9. ServiceTypeOK'
    BY <1>2, <1>3, <1>4, <1>5, <1>6, <1>7, <1>8, CallerKinds, OrderFacts DEF ServiceInv, ServiceTypeOK
  <1>10. OrdersValid'
    BY <1>2, <1>3, <1>4, <1>5, <1>6, <1>7, <1>8, CallerKinds, OrderFacts DEF ServiceInv, OrdersValid, InCall
  <1>11. OneReport'
    <2>1. \A i \in 1..Len(queue) :
            /\ queue[i].body.op = "finish" /\ m.body.op = "finish"
            /\ queue[i].body.request = m.body.request
            => queue[i].body = m.body
      BY <1>5, <1>6, OrderFacts DEF ServiceInv, OneReport
    <2>2. \A i, j \in 1..Len(queue') :
            /\ queue'[i].body.op = "finish" /\ queue'[j].body.op = "finish"
            /\ queue'[i].body.request = queue'[j].body.request
            => queue'[i].body = queue'[j].body
      BY <1>7, <2>1 DEF ServiceInv, OneReport
    <2>3. \A i \in 1..Len(queue') : \A r \in Requests :
            /\ queue'[i].body.op = "finish" /\ queue'[i].body.request = r
            /\ calls'[r].state # "idle" /\ calls'[r].body.op = "finish"
            => queue'[i].body = calls'[r].body
      <3> SUFFICES ASSUME NEW i \in 1..Len(queue'), NEW r \in Requests,
                          queue'[i].body.op = "finish", queue'[i].body.request = r,
                          calls'[r].state # "idle", calls'[r].body.op = "finish"
                   PROVE  queue'[i].body = calls'[r].body
        OBVIOUS
      <3>1. calls'[r] = calls[r] /\ InCall(r) /\ r # c
        BY <1>4, CallerKinds DEF InCall
      <3>2. CASE i \in 1..Len(queue)
        BY <1>7, <3>1, <3>2 DEF ServiceInv, OneReport
      <3>3. CASE queue'[i] = m
        BY <1>5, <1>6, <3>1, <3>3, OrderFacts
      <3> QED
        BY <1>7, <3>2, <3>3
    <2> QED
      BY <2>2, <2>3 DEF OneReport, InCall
  <1>12. TaskCalls'
    BY <1>2, <1>3, <1>4, <1>5, <1>6, <1>7, <1>8, CallerKinds, OrderFacts DEF ServiceInv, TaskCalls, InCall
  <1>13. AwaitedLast'
    BY <1>2, <1>3, <1>4, <1>5, <1>6, <1>7, <1>8, CallerKinds, OrderFacts DEF ServiceInv, AwaitedLast
  <1>14. ClaimHeld'
    BY <1>2, <1>3, <1>4, <1>5, <1>6, <1>7, <1>8, CallerKinds, OrderFacts DEF ServiceInv, ClaimHeld, Claimant, ClaimLearnt, FinishQueued, TaskCalls, InCall
  <1>15. TriesBounded'
    BY <1>2, <1>3, <1>4, <1>5, <1>6, <1>7, <1>8, CallerKinds, OrderFacts DEF ServiceInv, TriesBounded
  <1>16. LostClaims'
    BY <1>2, <1>3, <1>4, <1>5, <1>6, <1>7, <1>8, CallerKinds, OrderFacts DEF ServiceInv, LostClaims
  <1>17. Supervised'
    BY <1>2, <1>3, <1>4, <1>5, <1>6, <1>7, <1>8, CallerKinds, OrderFacts DEF ServiceInv, Supervised, Claimant, ClaimLearnt
  <1>18. FinishKnown'
    BY <1>2, <1>3, <1>4, <1>5, <1>6, <1>7, <1>8, CallerKinds, OrderFacts DEF ServiceInv, FinishKnown
  <1>19. LateCancels'
    BY SMTT(30), <1>2, <1>3, <1>4, <1>5, <1>6, <1>7, <1>8, CallerKinds, OrderFacts DEF ServiceInv, LateCancels
  <1>20. CancelHeard'
    BY <1>2, <1>3, <1>4, <1>5, <1>6, <1>7, <1>8, CallerKinds, OrderFacts DEF ServiceInv, CancelHeard, Claimant, ClaimLearnt, WillSignal
  <1>21. ClosedEmpty'
    BY <1>2, <1>3, <1>4, <1>5, <1>6, <1>7, <1>8, CallerKinds, OrderFacts DEF ServiceInv, ClosedEmpty
  <1>22. ShutdownSignalsAll'
    BY <1>2, <1>3, <1>4, <1>5, <1>6, <1>7, <1>8, CallerKinds, OrderFacts DEF ServiceInv, ShutdownSignalsAll, Registered
  <1>23. ProcessSupervised'
    BY <1>2, <1>3, <1>4, <1>5, <1>6, <1>7, <1>8, CallerKinds, OrderFacts DEF ServiceInv, ProcessSupervised
  <1> QED
    BY <1>1, <1>9, <1>10, <1>11, <1>12, <1>13, <1>14, <1>15, <1>16, <1>17, <1>18, <1>19, <1>20, <1>21, <1>22, <1>23 DEF ServiceInv

\* A client's call returns without a trace in the service.
LEMMA ReturnKeepsInv ==
    ASSUME ServiceInv, NEW c \in Callers, open, calls[c].state = "answered",
           calls[c].body.op \in {"admit", "abort"}, calls' = [calls EXCEPT ![c] = Idle],
           UNCHANGED <<vars, queue, accepting, pc, signal, fences, procs, lapsed>>
    PROVE  ServiceInv'
  <1>1. IInv' /\ defective' = {} /\ EpochsPast'
    BY StoreKept
  <1>2. /\ UNCHANGED <<rows, open, claims, epoch>> /\ open
        /\ UNCHANGED <<queue, accepting, pc, signal, fences, procs, lapsed>>
    BY DEF vars
  <1>3. calls \in [Callers -> CallRecords] /\ MaxRetries \in Nat
    BY ServiceAssumption DEF ServiceInv, ServiceTypeOK
  <1>4. /\ calls[c].state = "answered" /\ calls[c].body.op \in {"admit", "abort"} /\ InCall(c)
        /\ calls'[c] = Idle /\ Idle.state = "idle"
        /\ Idle.body.op = "none" /\ Idle.tries = 0
        /\ calls' \in [Callers -> CallRecords]
        /\ \A d \in Callers : d # c => calls'[d] = calls[d]
    BY <1>3, IdleFacts DEF InCall
  <1>5. c \in Clients /\ c \notin Requests
    BY <1>4, OrderFacts, CallerKinds
  <1>6. ServiceTypeOK'
    BY <1>2, <1>3, <1>4, <1>5, CallerKinds, OrderFacts DEF ServiceInv, ServiceTypeOK
  <1>7. OrdersValid'
    BY <1>2, <1>3, <1>4, <1>5, CallerKinds, OrderFacts DEF ServiceInv, OrdersValid, InCall
  <1>8. OneReport'
    BY <1>2, <1>3, <1>4, <1>5, CallerKinds, OrderFacts DEF ServiceInv, OneReport, InCall
  <1>9. TaskCalls'
    BY <1>2, <1>3, <1>4, <1>5, CallerKinds, OrderFacts DEF ServiceInv, TaskCalls, InCall
  <1>10. AwaitedLast'
    BY <1>2, <1>3, <1>4, <1>5, CallerKinds, OrderFacts DEF ServiceInv, AwaitedLast
  <1>11. ClaimHeld'
    BY <1>2, <1>3, <1>4, <1>5, CallerKinds, OrderFacts DEF ServiceInv, ClaimHeld, Claimant, ClaimLearnt, FinishQueued
  <1>12. TriesBounded'
    BY <1>2, <1>3, <1>4, <1>5, CallerKinds, OrderFacts DEF ServiceInv, TriesBounded
  <1>13. LostClaims'
    BY <1>2, <1>3, <1>4, <1>5, CallerKinds, OrderFacts DEF ServiceInv, LostClaims
  <1>14. Supervised'
    BY <1>2, <1>3, <1>4, <1>5, CallerKinds, OrderFacts DEF ServiceInv, Supervised, Claimant, ClaimLearnt
  <1>15. FinishKnown'
    BY <1>2, <1>3, <1>4, <1>5, CallerKinds, OrderFacts DEF ServiceInv, FinishKnown
  <1>16. LateCancels'
    BY <1>2, <1>3, <1>4, <1>5, CallerKinds, OrderFacts DEF ServiceInv, LateCancels
  <1>17. CancelHeard'
    BY <1>2, <1>3, <1>4, <1>5, CallerKinds, OrderFacts DEF ServiceInv, CancelHeard, Claimant, ClaimLearnt, WillSignal
  <1>18. ClosedEmpty'
    BY <1>2, <1>3, <1>4, <1>5, CallerKinds, OrderFacts DEF ServiceInv, ClosedEmpty
  <1>19. ShutdownSignalsAll'
    BY <1>2, <1>3, <1>4, <1>5, CallerKinds, OrderFacts DEF ServiceInv, ShutdownSignalsAll, Registered
  <1>20. ProcessSupervised'
    BY <1>2, <1>3, <1>4, <1>5, CallerKinds, OrderFacts DEF ServiceInv, ProcessSupervised
  <1> QED
    BY <1>1, <1>6, <1>7, <1>8, <1>9, <1>10, <1>11, <1>12, <1>13, <1>14, <1>15, <1>16, <1>17, <1>18, <1>19, <1>20 DEF ServiceInv

LEMMA CancelReturnKeepsInv ==
    ASSUME ServiceInv, NEW c \in Callers, CancelReturn(c)
    PROVE  ServiceInv'
  <1>1. IInv' /\ defective' = {} /\ EpochsPast'
    BY StoreKept DEF CancelReturn, Answered
  <1>2. /\ UNCHANGED <<rows, open, claims, epoch>> /\ open
        /\ UNCHANGED <<queue, accepting, pc, fences, procs, lapsed>>
    BY DEF vars, CancelReturn, Answered
  <1>3. calls \in [Callers -> CallRecords] /\ MaxRetries \in Nat
    BY ServiceAssumption DEF ServiceInv, ServiceTypeOK
  <1>4. /\ calls[c].state = "answered" /\ calls[c].body.op = "cancel" /\ InCall(c)
        /\ calls'[c] = Idle /\ Idle.state = "idle"
        /\ Idle.body.op = "none" /\ Idle.tries = 0
        /\ calls' \in [Callers -> CallRecords]
        /\ \A d \in Callers : d # c => calls'[d] = calls[d]
    BY <1>3, IdleFacts DEF InCall, CancelReturn, Answered
  <1>5. c \in Clients /\ c \notin Requests
    BY <1>4, OrderFacts, CallerKinds
  <1> DEFINE r == calls[c].body.request
             heard == /\ Accepted(calls[c].answer.code)
                      /\ calls[c].answer.phase = "cancel_requested" /\ pc[r] # "none"
  <1>6. /\ r \in Requests /\ signal' \in [Requests -> BOOLEAN]
        /\ \A q \in Requests : signal[q] => signal'[q]
        /\ heard => signal'[r]
    <2>1. r \in Requests /\ signal \in [Requests -> BOOLEAN]
      BY <1>4, OrderFacts DEF ServiceInv, ServiceTypeOK
    <2>2. signal' = IF heard THEN [signal EXCEPT ![r] = TRUE] ELSE signal
      BY DEF CancelReturn, Registered
    <2> QED
      BY <2>1, <2>2
  <1>7. ServiceTypeOK'
    BY <1>2, <1>3, <1>4, <1>5, <1>6, CallerKinds, OrderFacts DEF ServiceInv, ServiceTypeOK
  <1>8. OrdersValid'
    BY <1>2, <1>3, <1>4, <1>5, <1>6, CallerKinds, OrderFacts DEF ServiceInv, OrdersValid, InCall
  <1>9. OneReport'
    BY <1>2, <1>3, <1>4, <1>5, <1>6, CallerKinds, OrderFacts DEF ServiceInv, OneReport, InCall
  <1>10. TaskCalls'
    BY <1>2, <1>3, <1>4, <1>5, <1>6, CallerKinds, OrderFacts DEF ServiceInv, TaskCalls, InCall
  <1>11. AwaitedLast'
    BY <1>2, <1>3, <1>4, <1>5, <1>6, CallerKinds, OrderFacts DEF ServiceInv, AwaitedLast
  <1>12. ClaimHeld'
    BY <1>2, <1>3, <1>4, <1>5, <1>6, CallerKinds, OrderFacts DEF ServiceInv, ClaimHeld, Claimant, ClaimLearnt, FinishQueued
  <1>13. TriesBounded'
    BY <1>2, <1>3, <1>4, <1>5, <1>6, CallerKinds, OrderFacts DEF ServiceInv, TriesBounded
  <1>14. LostClaims'
    BY <1>2, <1>3, <1>4, <1>5, <1>6, CallerKinds, OrderFacts DEF ServiceInv, LostClaims
  <1>15. Supervised'
    BY <1>2, <1>3, <1>4, <1>5, <1>6, CallerKinds, OrderFacts DEF ServiceInv, Supervised, Claimant, ClaimLearnt
  <1>16. FinishKnown'
    BY <1>2, <1>3, <1>4, <1>5, <1>6, CallerKinds, OrderFacts DEF ServiceInv, FinishKnown
  <1>17. LateCancels'
    BY <1>2, <1>3, <1>4, <1>5, <1>6, CallerKinds, OrderFacts DEF ServiceInv, LateCancels
  <1>18. CancelHeard'
    <2> SUFFICES ASSUME NEW q \in Requests, rows[q].phase = "cancel_requested", Claimant(q)
                 PROVE  \/ signal'[q] \/ <<"cancel", q>> \in lapsed
                        \/ \E d \in Clients : WillSignal(d, q)'
      BY <1>2, <1>4, <1>5, CallerKinds DEF CancelHeard, Claimant, ClaimLearnt
    <2>1. \/ signal[q] \/ <<"cancel", q>> \in lapsed
          \/ \E d \in Clients : WillSignal(d, q)
      BY DEF ServiceInv, CancelHeard
    <2>2. ASSUME NEW d \in Clients, WillSignal(d, q), d # c
          PROVE  WillSignal(d, q)'
      BY <1>4, <2>2, CallerKinds DEF WillSignal
    <2>3. CASE WillSignal(c, q)
      <3>1. r = q /\ Accepted(calls[c].answer.code) /\ calls[c].answer.phase = "cancel_requested"
        BY <1>4, <2>3 DEF WillSignal
      <3>2. pc[q] # "none"
        BY CallerKinds DEF Claimant, ClaimLearnt, ServiceInv, TaskCalls, InCall
      <3> QED
        BY <1>6, <3>1, <3>2
    <2> QED
      BY <1>6, <2>1, <2>2, <2>3
  <1>19. ClosedEmpty'
    BY <1>2, <1>3, <1>4, <1>5, <1>6, CallerKinds, OrderFacts DEF ServiceInv, ClosedEmpty
  <1>20. ShutdownSignalsAll'
    BY <1>2, <1>3, <1>4, <1>5, <1>6, CallerKinds, OrderFacts DEF ServiceInv, ShutdownSignalsAll, Registered
  <1>21. ProcessSupervised'
    BY <1>2, <1>3, <1>4, <1>5, <1>6, CallerKinds, OrderFacts DEF ServiceInv, ProcessSupervised
  <1> QED
    BY <1>1, <1>7, <1>8, <1>9, <1>10, <1>11, <1>12, <1>13, <1>14, <1>15, <1>16, <1>17, <1>18, <1>19, <1>20, <1>21 DEF ServiceInv

LEMMA ClaimFacts ==
    ASSUME ServiceInv
    PROVE  /\ \A f \in 1..Len(claims) : claims[f].request \in Requests /\ claims[f].epoch \in Nat
           /\ \A f \in procs : f \in 1..Len(claims)
           /\ Len(claims) \in Nat /\ epoch \in Nat
  <1>1. claims \in Seq([request : Requests, epoch : Nat]) /\ epoch \in Nat
    BY DEF ServiceInv, IInv, TypeOK
  <1>2. ASSUME NEW S, claims \in Seq(S)
        PROVE  (\A f \in 1..Len(claims) : claims[f] \in S) /\ Len(claims) \in Nat
    BY <1>2
  <1>3. \A f \in 1..Len(claims) : claims[f] \in [request : Requests, epoch : Nat]
    BY <1>1, <1>2
  <1>4. Len(claims) \in Nat
    BY <1>1, <1>2
  <1>5. \A f \in 1..Len(claims) : claims[f].request \in Requests /\ claims[f].epoch \in Nat
    BY <1>3
  <1> QED
    BY <1>1, <1>4, <1>5 DEF ServiceInv, ServiceTypeOK

LEMMA OrderTypes ==
    ASSUME NEW r \in Requests, NEW op \in {"claim", "cancel", "abort"}
    PROVE  LET b == Order(op, r, Nothing, Nothing, NoFence, NoReport)
           IN  b \in Orders /\ b.op = op /\ b.request = r
  BY DEF Order, Orders, NoFence

\* launch registers the attempt and its task makes the claim.
LEMMA RegisterKeepsInv ==
    ASSUME ServiceInv, NEW c \in Callers, NEW r \in Requests, open, accepting, pc[r] = "none",
           calls[c].state = "answered", calls[c].body.op = "admit", Register(r),
           calls' = [calls EXCEPT ![c] = Idle, ![r] = ClaimCall(r)],
           UNCHANGED <<vars, queue, accepting, fences, procs, lapsed>>
    PROVE  ServiceInv'
  <1>1. IInv' /\ defective' = {} /\ EpochsPast'
    BY StoreKept
  <1>2. /\ UNCHANGED <<rows, open, claims, epoch>>
        /\ UNCHANGED <<queue, accepting, fences, procs, lapsed>>
    BY DEF vars
  <1>3. /\ calls \in [Callers -> CallRecords] /\ MaxRetries \in Nat
        /\ pc \in [Requests -> TaskPcs] /\ signal \in [Requests -> BOOLEAN]
    BY ServiceAssumption DEF ServiceInv, ServiceTypeOK
  <1>4. /\ InCall(c) /\ c \in Clients /\ c # r /\ r \in Callers
        /\ calls[r].state = "idle" /\ calls[r].body.op = "none"
    <2>1. InCall(c) /\ c \in Clients /\ c # r /\ r \in Callers
      BY OrderFacts, CallerKinds DEF InCall
    <2>2. ~InCall(r)
      BY <2>1 DEF ServiceInv, TaskCalls
    <2>3. calls[r] = Idle
      BY <2>1, <2>2 DEF ServiceInv, TaskCalls
    <2> QED
      BY <2>1, <2>3, IdleFacts
  <1> DEFINE b == Order("claim", r, Nothing, Nothing, NoFence, NoReport)
  <1>5. b \in Orders /\ b.op = "claim" /\ b.request = r
    BY OrderTypes
  <1>6. ValidOrder(r, b, rows[b.request], accepting)
    BY <1>5, CallerKinds DEF ValidOrder
  <1>7. ClaimCall(r) = Call(b)
    BY DEF ClaimCall
  <1> HIDE DEF b
  <1>8. /\ calls'[c] = Idle /\ Idle.state = "idle" /\ Idle.body.op = "none" /\ Idle.tries = 0
        /\ calls'[r].state = "ready" /\ calls'[r].body = b /\ calls'[r].tries = 0
        /\ calls' \in [Callers -> CallRecords]
        /\ \A d \in Callers : d # c /\ d # r => calls'[d] = calls[d]
    BY <1>3, <1>4, <1>5, <1>7, IdleFacts, CallFacts
  <1>9. /\ pc' \in [Requests -> TaskPcs] /\ signal' \in [Requests -> BOOLEAN]
        /\ pc'[r] = "claiming"
        /\ \A q \in Requests : q # r => pc'[q] = pc[q] /\ signal'[q] = signal[q]
    BY <1>3 DEF Register, TaskPcs
  <1>10. ServiceTypeOK'
    BY <1>2, <1>3, <1>4, <1>5, <1>6, <1>8, <1>9, CallerKinds, OrderFacts DEF ServiceInv, ServiceTypeOK
  <1>11. OrdersValid'
    <2>1. \A i \in 1..Len(queue) :
            ValidOrder(queue[i].caller, queue[i].body, rows[queue[i].body.request], accepting)
      BY DEF ServiceInv, OrdersValid
    <2>2. \A d \in Callers : d # c /\ d # r /\ calls'[d].state # "idle" =>
            ValidOrder(d, calls'[d].body, rows[calls'[d].body.request], accepting)
      BY <1>8 DEF ServiceInv, OrdersValid, InCall
    <2>3. \A d \in Callers : calls'[d].state # "idle" =>
            ValidOrder(d, calls'[d].body, rows[calls'[d].body.request], accepting)
      BY <1>6, <1>8, <2>2
    <2> QED
      BY <1>2, <2>1, <2>3 DEF OrdersValid, InCall
  <1>12. OneReport'
    BY <1>2, <1>3, <1>4, <1>5, <1>6, <1>8, <1>9, CallerKinds, OrderFacts DEF ServiceInv, OneReport, InCall
  <1>13. TaskCalls'
    BY <1>2, <1>3, <1>4, <1>5, <1>6, <1>8, <1>9, CallerKinds, OrderFacts DEF ServiceInv, TaskCalls, InCall
  <1>14. AwaitedLast'
    BY <1>2, <1>3, <1>4, <1>5, <1>6, <1>8, <1>9, CallerKinds, OrderFacts DEF ServiceInv, AwaitedLast
  <1>15. ClaimHeld'
    BY <1>2, <1>3, <1>4, <1>5, <1>6, <1>8, <1>9, CallerKinds, OrderFacts DEF ServiceInv, ClaimHeld, Claimant, ClaimLearnt, FinishQueued
  <1>16. TriesBounded'
    BY <1>2, <1>3, <1>4, <1>5, <1>6, <1>8, <1>9, CallerKinds, OrderFacts DEF ServiceInv, TriesBounded
  <1>17. LostClaims'
    BY <1>2, <1>3, <1>4, <1>5, <1>6, <1>8, <1>9, CallerKinds, OrderFacts DEF ServiceInv, LostClaims
  <1>18. Supervised'
    BY <1>2, <1>3, <1>4, <1>5, <1>6, <1>8, <1>9, CallerKinds, OrderFacts DEF ServiceInv, Supervised, Claimant, ClaimLearnt
  <1>19. FinishKnown'
    BY <1>2, <1>3, <1>4, <1>5, <1>6, <1>8, <1>9, CallerKinds, OrderFacts DEF ServiceInv, FinishKnown
  <1>20. LateCancels'
    BY <1>2, <1>3, <1>4, <1>5, <1>6, <1>8, <1>9, CallerKinds, OrderFacts DEF ServiceInv, LateCancels
  <1>21. CancelHeard'
    BY <1>2, <1>3, <1>4, <1>5, <1>6, <1>8, <1>9, CallerKinds, OrderFacts DEF ServiceInv, CancelHeard, Claimant, ClaimLearnt, WillSignal
  <1>22. ClosedEmpty'
    BY <1>2, <1>3, <1>4, <1>5, <1>6, <1>8, <1>9, CallerKinds, OrderFacts DEF ServiceInv, ClosedEmpty
  <1>23. ShutdownSignalsAll'
    BY <1>2, <1>3, <1>4, <1>5, <1>6, <1>8, <1>9, CallerKinds, OrderFacts DEF ServiceInv, ShutdownSignalsAll, Registered
  <1>24. ProcessSupervised'
    BY <1>2, <1>3, <1>4, <1>5, <1>6, <1>8, <1>9, CallerKinds, OrderFacts, ClaimFacts DEF ServiceInv, ProcessSupervised
  <1> QED
    BY <1>1, <1>10, <1>11, <1>12, <1>13, <1>14, <1>15, <1>16, <1>17, <1>18, <1>19, <1>20, <1>21, <1>22, <1>23, <1>24 DEF ServiceInv

\* launch of a service that stops withdraws the admission instead.
LEMMA AbortCallKeepsInv ==
    ASSUME ServiceInv, NEW c \in Callers, NEW r \in Requests, open, ~accepting,
           calls[c].state = "answered", calls[c].body.op = "admit",
           calls' = [calls EXCEPT ![c] = AbortCall(r)],
           UNCHANGED <<vars, queue, accepting, pc, signal, fences, procs, lapsed>>
    PROVE  ServiceInv'
  <1>1. IInv' /\ defective' = {} /\ EpochsPast'
    BY StoreKept
  <1>2. /\ UNCHANGED <<rows, open, claims, epoch>>
        /\ UNCHANGED <<queue, accepting, pc, signal, fences, procs, lapsed>>
    BY DEF vars
  <1>3. calls \in [Callers -> CallRecords] /\ MaxRetries \in Nat
    BY ServiceAssumption DEF ServiceInv, ServiceTypeOK
  <1>4. InCall(c) /\ c \in Clients /\ c \notin Requests
    BY OrderFacts, CallerKinds DEF InCall
  <1> DEFINE b == Order("abort", r, Nothing, Nothing, NoFence, NoReport)
  <1>5. b \in Orders /\ b.op = "abort" /\ b.request = r
    BY OrderTypes
  <1>6. ValidOrder(c, b, rows[b.request], accepting)
    BY <1>4, <1>5 DEF ValidOrder
  <1>7. AbortCall(r) = Call(b)
    BY DEF AbortCall
  <1> HIDE DEF b
  <1>8. /\ calls'[c].state = "ready" /\ calls'[c].body = b /\ calls'[c].tries = 0
        /\ calls' \in [Callers -> CallRecords]
        /\ \A d \in Callers : d # c => calls'[d] = calls[d]
    BY <1>3, <1>5, <1>7, CallFacts
  <1>9. ServiceTypeOK'
    BY <1>2, <1>3, <1>4, <1>5, <1>6, <1>8, CallerKinds, OrderFacts DEF ServiceInv, ServiceTypeOK
  <1>10. OrdersValid'
    BY <1>2, <1>3, <1>4, <1>5, <1>6, <1>8, CallerKinds, OrderFacts DEF ServiceInv, OrdersValid, InCall
  <1>11. OneReport'
    BY <1>2, <1>3, <1>4, <1>5, <1>6, <1>8, CallerKinds, OrderFacts DEF ServiceInv, OneReport, InCall
  <1>12. TaskCalls'
    BY <1>2, <1>3, <1>4, <1>5, <1>6, <1>8, CallerKinds, OrderFacts DEF ServiceInv, TaskCalls, InCall
  <1>13. AwaitedLast'
    BY <1>2, <1>3, <1>4, <1>5, <1>6, <1>8, CallerKinds, OrderFacts DEF ServiceInv, AwaitedLast
  <1>14. ClaimHeld'
    BY <1>2, <1>3, <1>4, <1>5, <1>6, <1>8, CallerKinds, OrderFacts DEF ServiceInv, ClaimHeld, Claimant, ClaimLearnt, FinishQueued
  <1>15. TriesBounded'
    BY <1>2, <1>3, <1>4, <1>5, <1>6, <1>8, CallerKinds, OrderFacts DEF ServiceInv, TriesBounded
  <1>16. LostClaims'
    BY <1>2, <1>3, <1>4, <1>5, <1>6, <1>8, CallerKinds, OrderFacts DEF ServiceInv, LostClaims
  <1>17. Supervised'
    BY <1>2, <1>3, <1>4, <1>5, <1>6, <1>8, CallerKinds, OrderFacts DEF ServiceInv, Supervised, Claimant, ClaimLearnt
  <1>18. FinishKnown'
    BY <1>2, <1>3, <1>4, <1>5, <1>6, <1>8, CallerKinds, OrderFacts DEF ServiceInv, FinishKnown
  <1>19. LateCancels'
    BY <1>2, <1>3, <1>4, <1>5, <1>6, <1>8, CallerKinds, OrderFacts DEF ServiceInv, LateCancels
  <1>20. CancelHeard'
    BY <1>2, <1>3, <1>4, <1>5, <1>6, <1>8, CallerKinds, OrderFacts DEF ServiceInv, CancelHeard, Claimant, ClaimLearnt, WillSignal
  <1>21. ClosedEmpty'
    BY <1>2, <1>3, <1>4, <1>5, <1>6, <1>8, CallerKinds, OrderFacts DEF ServiceInv, ClosedEmpty
  <1>22. ShutdownSignalsAll'
    BY <1>2, <1>3, <1>4, <1>5, <1>6, <1>8, CallerKinds, OrderFacts DEF ServiceInv, ShutdownSignalsAll, Registered
  <1>23. ProcessSupervised'
    BY <1>2, <1>3, <1>4, <1>5, <1>6, <1>8, CallerKinds, OrderFacts DEF ServiceInv, ProcessSupervised
  <1> QED
    BY <1>1, <1>9, <1>10, <1>11, <1>12, <1>13, <1>14, <1>15, <1>16, <1>17, <1>18, <1>19, <1>20, <1>21, <1>22, <1>23 DEF ServiceInv

LEMMA LaunchKeepsInv ==
    ASSUME ServiceInv, NEW c \in Callers, Launch(c)
    PROVE  ServiceInv'
  <1> DEFINE r == calls[c].body.request
  <1>1. /\ open /\ calls[c].state = "answered" /\ calls[c].body.op = "admit"
        /\ UNCHANGED <<vars, queue, accepting, fences, procs, lapsed>> /\ r \in Requests
    BY OrderFacts DEF Launch, Answered, InCall
  <1>2. CASE /\ accepting /\ ~Registered(r) /\ Register(r)
             /\ calls' = [calls EXCEPT ![c] = Idle, ![r] = ClaimCall(r)]
    BY <1>1, <1>2, RegisterKeepsInv DEF Registered
  <1>3. CASE /\ ~accepting /\ calls' = [calls EXCEPT ![c] = AbortCall(r)]
             /\ UNCHANGED <<pc, signal>>
    BY <1>1, <1>3, AbortCallKeepsInv
  <1>4. CASE calls' = [calls EXCEPT ![c] = Idle] /\ UNCHANGED <<pc, signal>>
    BY <1>1, <1>4, ReturnKeepsInv
  <1> QED
    BY <1>2, <1>3, <1>4 DEF Launch

LEMMA SubmitKeepsInv ==
    ASSUME ServiceInv, NEW c \in Clients, NEW r \in Requests, NEW res \in Resources,
           NEW fp \in Fingerprints, Submit(c, r, res, fp)
    PROVE  ServiceInv'
  <1> DEFINE b == Order("admit", r, res, fp, NoFence, NoReport)
  <1>1. /\ b \in Orders /\ b.op = "admit" /\ b.request = r /\ b.resource = res
        /\ b.content = fp
    BY DEF Order, Orders, NoFence
  <1>2. ValidOrder(c, b, rows[b.request], accepting)
    BY <1>1, CallerKinds DEF ValidOrder
  <1> QED
    BY <1>1, <1>2, NewCallKeepsInv DEF Submit

LEMMA RequestCancelKeepsInv ==
    ASSUME ServiceInv, NEW c \in Clients, NEW r \in Requests, RequestCancel(c, r)
    PROVE  ServiceInv'
  <1> DEFINE b == Order("cancel", r, Nothing, Nothing, NoFence, NoReport)
  <1>1. b \in Orders /\ b.op = "cancel" /\ b.request = r
    BY OrderTypes
  <1>2. ValidOrder(c, b, rows[b.request], accepting)
    BY <1>1, CallerKinds DEF ValidOrder
  <1> QED
    BY <1>1, <1>2, NewCallKeepsInv DEF RequestCancel

LEMMA CallerStepKeepsInv ==
    ASSUME ServiceInv, NEW c \in Callers, CallerStep(c)
    PROVE  ServiceInv'
  <1>1. CASE AbortReturn(c)
    BY <1>1, ReturnKeepsInv DEF AbortReturn, Answered
  <1> QED
    BY <1>1, EnqueueKeepsInv, QueueFullKeepsInv, OrphanCallKeepsInv, LaunchKeepsInv,
       CancelReturnKeepsInv DEF CallerStep

----------------------------------------------------------------------------
(* Steps of the attempt tasks.                                             *)

\* What is queued for others is untouched by a task that waits for nothing.
LEMMA QueueUntouched ==
    ASSUME ServiceInv, NEW r \in Requests, calls[r].state # "waiting",
           queue' = queue, lapsed' = lapsed,
           \A d \in Callers : d # r => calls'[d] = calls[d]
    PROVE  AwaitedLast' /\ LateCancels'
  <1>1. ASSUME NEW i \in 1..Len(queue), queue[i].awaited
        PROVE  calls'[queue[i].caller] = calls[queue[i].caller]
    BY <1>1, OrderFacts DEF ServiceInv, AwaitedLast
  <1>2. ASSUME NEW i \in 1..Len(queue), queue[i].body.op = "cancel"
        PROVE  calls'[queue[i].caller] = calls[queue[i].caller]
    BY <1>2, OrderFacts, CallerKinds
  <1>3. AwaitedLast'
    BY <1>1 DEF ServiceInv, AwaitedLast
  <1>4. LateCancels'
    BY <1>2 DEF ServiceInv, LateCancels
  <1> QED
    BY <1>3, <1>4

LEMMA ClaimReturnKeepsInv ==
    ASSUME ServiceInv, NEW r \in Requests, ClaimReturn(r)
    PROVE  ServiceInv'
  <1>1. IInv' /\ defective' = {} /\ EpochsPast'
    BY StoreKept DEF ClaimReturn, Answered
  <1>2. /\ UNCHANGED <<rows, open, claims, epoch>> /\ open
        /\ UNCHANGED <<queue, accepting, signal, procs, lapsed>>
    BY DEF vars, ClaimReturn, Answered
  <1>3. /\ calls \in [Callers -> CallRecords] /\ MaxRetries \in Nat /\ r \in Callers
        /\ pc \in [Requests -> TaskPcs] /\ fences \in [Requests -> Nat]
    BY ServiceAssumption, CallerKinds DEF ServiceInv, ServiceTypeOK
  <1>4. /\ calls[r].state = "answered" /\ calls[r].body.op = "claim" /\ InCall(r)
        /\ calls'[r] = Idle /\ Idle.state = "idle" /\ Idle.body.op = "none" /\ Idle.tries = 0
        /\ calls' \in [Callers -> CallRecords]
        /\ \A d \in Callers : d # r => calls'[d] = calls[d]
    BY <1>3, IdleFacts DEF ClaimReturn, Answered, InCall
  <1>5. pc[r] = "claiming"
    BY <1>4 DEF ServiceInv, TaskCalls
  <1>6. /\ pc' \in [Requests -> TaskPcs] /\ fences' \in [Requests -> Nat]
        /\ \A q \in Requests : q # r => pc'[q] = pc[q] /\ fences'[q] = fences[q]
        /\ \/ /\ calls[r].answer.code = "changed" /\ pc'[r] = "claimed"
              /\ fences'[r] = calls[r].answer.fence
           \/ /\ calls[r].answer.code # "changed" /\ pc'[r] = "ending"
    <2>1. calls[r].answer.fence \in Nat
      BY <1>3 DEF CallRecords, Answers
    <2> QED
      BY <1>3, <2>1 DEF ClaimReturn, TaskPcs
  <1>7. ServiceTypeOK'
    BY <1>2, <1>3, <1>4, <1>5, <1>6, CallerKinds DEF ServiceInv, ServiceTypeOK
  <1>8. OrdersValid'
    BY <1>2, <1>3, <1>4, <1>5, <1>6, CallerKinds DEF ServiceInv, OrdersValid, InCall
  <1>9. OneReport'
    <2>1. \A q \in Requests : calls'[q].state # "idle" => InCall(q) /\ calls'[q] = calls[q]
      BY <1>4, CallerKinds DEF InCall
    <2> QED
      BY <1>2, <2>1 DEF ServiceInv, OneReport, InCall
  <1>10. TaskCalls'
    BY <1>2, <1>3, <1>4, <1>5, <1>6, CallerKinds DEF ServiceInv, TaskCalls, InCall
  <1>11. AwaitedLast'
    BY <1>2, <1>4, QueueUntouched
  <1>12. ClaimHeld'
    BY <1>2, <1>3, <1>4, <1>5, <1>6, CallerKinds DEF ServiceInv, ClaimHeld, Claimant, ClaimLearnt, FinishQueued
  <1>13. TriesBounded'
    BY <1>2, <1>3, <1>4, <1>5, <1>6, CallerKinds DEF ServiceInv, TriesBounded
  <1>14. LostClaims'
    BY <1>2, <1>3, <1>4, <1>5, <1>6, CallerKinds DEF ServiceInv, LostClaims
  <1>15. Supervised'
    BY <1>2, <1>3, <1>4, <1>5, <1>6, CallerKinds DEF ServiceInv, Supervised, Claimant, ClaimLearnt
  <1>16. FinishKnown'
    BY <1>2, <1>3, <1>4, <1>5, <1>6, CallerKinds DEF ServiceInv, FinishKnown
  <1>17. LateCancels'
    BY <1>2, <1>4, QueueUntouched
  <1>18. CancelHeard'
    BY <1>2, <1>3, <1>4, <1>5, <1>6, CallerKinds DEF ServiceInv, CancelHeard, Claimant, ClaimLearnt, WillSignal
  <1>19. ClosedEmpty'
    BY <1>2, <1>3, <1>4, <1>5, <1>6, CallerKinds DEF ServiceInv, ClosedEmpty
  <1>20. ShutdownSignalsAll'
    BY <1>2, <1>3, <1>4, <1>5, <1>6, CallerKinds DEF ServiceInv, ShutdownSignalsAll, Registered
  <1>21. ProcessSupervised'
    BY <1>2, <1>3, <1>4, <1>5, <1>6, CallerKinds, ClaimFacts DEF ServiceInv, ProcessSupervised
  <1> QED
    BY <1>1, <1>7, <1>8, <1>9, <1>10, <1>11, <1>12, <1>13, <1>14, <1>15, <1>16, <1>17, <1>18, <1>19, <1>20, <1>21 DEF ServiceInv

\* What decide_outcome makes of a run is a report the store admits.
LEMMA DecidedReport ==
    ASSUME NEW exchange \in {NoCode, "cancelled", "fault"}, NEW terminal \in Terminals,
           NEW process \in Processes
    PROVE  LET decision == DecideOutcome(exchange, terminal, process)
               report   == [outcome |-> decision.outcome, error |-> decision.error,
                            process |-> process]
           IN  report \in Report /\ ValidFinish(report)
  <1> DEFINE decision == DecideOutcome(exchange, terminal, process)
  <1>1. /\ decision.outcome \in Outcomes /\ decision.error \in {NoCode, "cancelled", "fault"}
        /\ decision.outcome = "completed" => decision.error = NoCode /\ process = "clean"
        /\ decision.outcome \in {"failed", "unverified"} => decision.error # NoCode
    BY DEF DecideOutcome, Terminals, Processes, Outcomes, NoCode
  <1> HIDE DEF decision
  <1>2. \A o \in Outcomes, e \in {NoCode, "cancelled", "fault"} :
           [outcome |-> o, error |-> e, process |-> process] \in Report
    BY DEF Report
  <1> QED
    BY <1>1, <1>2 DEF ValidFinish, IsCleanCompletion, decision

\* A task whose process has ended, or never started, turns to its report.
LEMMA FinishingKeepsInv ==
    ASSUME ServiceInv, NEW r \in Requests, open, pc[r] \in {"claimed", "running"},
           NEW exchange \in {NoCode, "cancelled", "fault"}, NEW terminal \in Terminals,
           NEW process \in Processes, Finishing(r, exchange, terminal, process),
           procs' = procs \ {fences[r]},
           UNCHANGED <<vars, queue, accepting, signal, fences, lapsed>>
    PROVE  ServiceInv'
  <1>1. IInv' /\ defective' = {} /\ EpochsPast'
    BY StoreKept
  <1>2. /\ UNCHANGED <<rows, open, claims, epoch>>
        /\ UNCHANGED <<queue, accepting, signal, fences, lapsed>>
    BY DEF vars
  <1>3. /\ calls \in [Callers -> CallRecords] /\ MaxRetries \in Nat /\ r \in Callers
        /\ pc \in [Requests -> TaskPcs] /\ fences \in [Requests -> Nat]
    BY ServiceAssumption, CallerKinds DEF ServiceInv, ServiceTypeOK
  <1> DEFINE decision == DecideOutcome(exchange, terminal, process)
             report == [outcome |-> decision.outcome, error |-> decision.error,
                        process |-> process]
             b == Order("finish", r, Nothing, Nothing, fences[r], report)
  <1>4. report \in Report /\ ValidFinish(report)
    BY DecidedReport
  <1>5. /\ calls' = [calls EXCEPT ![r] = Call(b)]
        /\ pc' = [pc EXCEPT ![r] = "finishing"]
    BY DEF Finishing
  <1> HIDE DEF report
  <1>6. /\ b \in Orders /\ b.op = "finish" /\ b.request = r /\ b.fence = fences[r]
        /\ b.report = report
    BY <1>3, <1>4 DEF Order, Orders
  <1> HIDE DEF b
  <1>7. /\ calls'[r].state = "ready" /\ calls'[r].body = b /\ calls'[r].tries = 0
        /\ calls' \in [Callers -> CallRecords]
        /\ \A d \in Callers : d # r => calls'[d] = calls[d]
    BY <1>3, <1>5, <1>6, CallFacts
  <1>8. /\ pc' \in [Requests -> TaskPcs] /\ pc'[r] = "finishing"
        /\ \A q \in Requests : q # r => pc'[q] = pc[q]
    BY <1>3, <1>5 DEF TaskPcs
  <1>9. /\ fences[r] = rows[r].fence /\ Claimed(rows[r].phase) /\ ~FinishQueued(r)
        /\ calls[r].state = "idle"
    <2>1. calls[r].state # "orphan" /\ ~InCall(r)
      BY CallerKinds DEF ServiceInv, TaskCalls, InCall
    <2> QED
      BY <2>1 DEF ServiceInv, ClaimHeld, Claimant, InCall
  <1>10. ValidOrder(r, b, rows[b.request], accepting)
    <2>1. rows[r].fence # NoFence
      BY <1>9 DEF ServiceInv, IInv, FenceColumn, Claimed
    <2> QED
      BY <1>4, <1>6, <1>9, <2>1, CallerKinds DEF ValidOrder, Reportable
  <1>11. ServiceTypeOK'
    BY <1>2, <1>3, <1>6, <1>7, <1>8, <1>9, <1>10, CallerKinds DEF ServiceInv, ServiceTypeOK
  <1>12. OrdersValid'
    BY <1>2, <1>3, <1>6, <1>7, <1>8, <1>9, <1>10, CallerKinds DEF ServiceInv, OrdersValid, InCall
  <1>13. OneReport'
    BY <1>2, <1>3, <1>6, <1>7, <1>8, <1>9, <1>10, CallerKinds, OrderFacts DEF ServiceInv, OneReport, InCall, FinishQueued
  <1>14. TaskCalls'
    BY <1>2, <1>3, <1>6, <1>7, <1>8, <1>9, <1>10, CallerKinds DEF ServiceInv, TaskCalls, InCall
  <1>15. AwaitedLast'
    BY <1>2, <1>7, <1>9, QueueUntouched
  <1>16. ClaimHeld'
    BY <1>2, <1>3, <1>6, <1>7, <1>8, <1>9, <1>10, CallerKinds DEF ServiceInv, ClaimHeld, Claimant, ClaimLearnt, FinishQueued
  <1>17. TriesBounded'
    BY <1>2, <1>3, <1>6, <1>7, <1>8, <1>9, <1>10, CallerKinds DEF ServiceInv, TriesBounded
  <1>18. LostClaims'
    BY <1>2, <1>3, <1>6, <1>7, <1>8, <1>9, <1>10, CallerKinds DEF ServiceInv, LostClaims
  <1>19. Supervised'
    BY <1>2, <1>3, <1>6, <1>7, <1>8, <1>9, <1>10, CallerKinds DEF ServiceInv, Supervised, Claimant, ClaimLearnt
  <1>20. FinishKnown'
    BY <1>2, <1>3, <1>6, <1>7, <1>8, <1>9, <1>10, CallerKinds DEF ServiceInv, FinishKnown
  <1>21. LateCancels'
    BY <1>2, <1>7, <1>9, QueueUntouched
  <1>22. CancelHeard'
    BY <1>2, <1>3, <1>6, <1>7, <1>8, <1>9, <1>10, CallerKinds DEF ServiceInv, CancelHeard, Claimant, ClaimLearnt, WillSignal
  <1>23. ClosedEmpty'
    BY <1>2, <1>3, <1>6, <1>7, <1>8, <1>9, <1>10, CallerKinds DEF ServiceInv, ClosedEmpty
  <1>24. ShutdownSignalsAll'
    BY <1>2, <1>3, <1>6, <1>7, <1>8, <1>9, <1>10, CallerKinds DEF ServiceInv, ShutdownSignalsAll, Registered
  <1>25. ProcessSupervised'
    BY <1>2, <1>3, <1>6, <1>7, <1>8, <1>9, <1>10, CallerKinds, ClaimFacts DEF ServiceInv, ProcessSupervised
  <1> QED
    BY <1>1, <1>11, <1>12, <1>13, <1>14, <1>15, <1>16, <1>17, <1>18, <1>19, <1>20, <1>21, <1>22, <1>23, <1>24, <1>25 DEF ServiceInv

LEMMA ExchangeCodes ==
    /\ "cancelled" \in {NoCode, "cancelled", "fault"}
    /\ "fault" \in {NoCode, "cancelled", "fault"}
    /\ "none" \in Terminals /\ "unclean" \in Processes
  BY DEF Terminals, Processes

\* Before the spawn nothing runs under the task's fence.
LEMMA IdleTaskFacts ==
    ASSUME ServiceInv, NEW r \in Requests, open, pc[r] = "claimed"
    PROVE  /\ fences[r] \notin procs /\ fences[r] = rows[r].fence
           /\ fences[r] \in 1..Len(claims) /\ claims[fences[r]].request = r
           /\ claims[fences[r]].epoch = epoch
  <1>1. fences[r] = rows[r].fence /\ Claimed(rows[r].phase)
    BY DEF ServiceInv, ClaimHeld, Claimant
  <1>2. rows[r].fence \in 1..Len(claims) /\ claims[rows[r].fence].request = r
    BY <1>1 DEF ServiceInv, IInv, FenceColumn, Claimed
  <1>3. claims[rows[r].fence].epoch = epoch
    BY <1>1 DEF ServiceInv, IInv, ClaimsCurrent, Claimed
  <1> QED
    BY <1>1, <1>2, <1>3 DEF ServiceInv, ProcessSupervised

LEMMA SkipCancelledKeepsInv ==
    ASSUME ServiceInv, NEW r \in Requests, SkipCancelled(r)
    PROVE  ServiceInv'
  <1>1. procs' = procs \ {fences[r]}
    BY IdleTaskFacts DEF SkipCancelled
  <1> QED
    BY <1>1, FinishingKeepsInv, ExchangeCodes DEF SkipCancelled

LEMMA SpawnFailsKeepsInv ==
    ASSUME ServiceInv, NEW r \in Requests, SpawnFails(r)
    PROVE  ServiceInv'
  <1>1. procs' = procs \ {fences[r]}
    BY IdleTaskFacts DEF SpawnFails
  <1> QED
    BY <1>1, FinishingKeepsInv, ExchangeCodes DEF SpawnFails

LEMMA EndExchangeKeepsInv ==
    ASSUME ServiceInv, NEW r \in Requests, EndExchange(r)
    PROVE  ServiceInv'
  <1>1. PICK exchange \in {NoCode, "cancelled", "fault"}, terminal \in Evidence,
             process \in Processes : Finishing(r, exchange, terminal, process)
    BY DEF EndExchange
  <1>2. terminal \in Terminals
    BY ServiceAssumption
  <1> QED
    BY <1>1, <1>2, FinishingKeepsInv DEF EndExchange, Terminated

LEMMA SpawnKeepsInv ==
    ASSUME ServiceInv, NEW r \in Requests, Spawn(r)
    PROVE  ServiceInv'
  <1>1. IInv' /\ defective' = {} /\ EpochsPast'
    BY StoreKept DEF Spawn
  <1>2. /\ UNCHANGED <<rows, open, claims, epoch>> /\ open
        /\ UNCHANGED <<queue, calls, accepting, signal, fences, lapsed>>
    BY DEF vars, Spawn
  <1>3. /\ calls \in [Callers -> CallRecords] /\ MaxRetries \in Nat /\ r \in Callers
        /\ pc \in [Requests -> TaskPcs] /\ fences \in [Requests -> Nat]
    BY ServiceAssumption, CallerKinds DEF ServiceInv, ServiceTypeOK
  <1>4. /\ pc[r] = "claimed" /\ pc' \in [Requests -> TaskPcs] /\ pc'[r] = "running"
        /\ \A q \in Requests : q # r => pc'[q] = pc[q]
        /\ procs' = procs \cup {fences[r]}
    BY <1>3 DEF Spawn, TaskPcs
  <1>5. fences[r] \in 1..Len(claims) /\ claims[fences[r]].request = r
    BY <1>2, <1>4, IdleTaskFacts
  <1>6. ServiceTypeOK'
    BY <1>2, <1>3, <1>4, <1>5, CallerKinds DEF ServiceInv, ServiceTypeOK
  <1>7. OrdersValid'
    BY <1>2, <1>3, <1>4, <1>5, CallerKinds DEF ServiceInv, OrdersValid, InCall
  <1>8. OneReport'
    BY <1>2, <1>3, <1>4, <1>5, CallerKinds DEF ServiceInv, OneReport, InCall
  <1>9. TaskCalls'
    BY <1>2, <1>3, <1>4, <1>5, CallerKinds DEF ServiceInv, TaskCalls, InCall
  <1>10. AwaitedLast'
    BY <1>2, <1>3, <1>4, <1>5, CallerKinds DEF ServiceInv, AwaitedLast
  <1>11. ClaimHeld'
    BY <1>2, <1>3, <1>4, <1>5, CallerKinds DEF ServiceInv, ClaimHeld, Claimant, ClaimLearnt, FinishQueued
  <1>12. TriesBounded'
    BY <1>2, <1>3, <1>4, <1>5, CallerKinds DEF ServiceInv, TriesBounded
  <1>13. LostClaims'
    BY <1>2, <1>3, <1>4, <1>5, CallerKinds DEF ServiceInv, LostClaims
  <1>14. Supervised'
    BY <1>2, <1>3, <1>4, <1>5, CallerKinds DEF ServiceInv, Supervised, Claimant, ClaimLearnt
  <1>15. FinishKnown'
    BY <1>2, <1>3, <1>4, <1>5, CallerKinds DEF ServiceInv, FinishKnown
  <1>16. LateCancels'
    BY <1>2, <1>3, <1>4, <1>5, CallerKinds DEF ServiceInv, LateCancels
  <1>17. CancelHeard'
    BY <1>2, <1>3, <1>4, <1>5, CallerKinds DEF ServiceInv, CancelHeard, Claimant, ClaimLearnt, WillSignal
  <1>18. ClosedEmpty'
    BY <1>2, <1>3, <1>4, <1>5, CallerKinds DEF ServiceInv, ClosedEmpty
  <1>19. ShutdownSignalsAll'
    BY <1>2, <1>3, <1>4, <1>5, CallerKinds DEF ServiceInv, ShutdownSignalsAll, Registered
  <1>20. ProcessSupervised'
    BY <1>2, <1>3, <1>4, <1>5, CallerKinds, ClaimFacts DEF ServiceInv, ProcessSupervised
  <1> QED
    BY <1>1, <1>6, <1>7, <1>8, <1>9, <1>10, <1>11, <1>12, <1>13, <1>14, <1>15, <1>16, <1>17, <1>18, <1>19, <1>20 DEF ServiceInv

LEMMA FinishReturnKeepsInv ==
    ASSUME ServiceInv, NEW r \in Requests, FinishReturn(r)
    PROVE  ServiceInv'
  <1>1. IInv' /\ defective' = {} /\ EpochsPast'
    BY StoreKept DEF FinishReturn, Answered
  <1>2. /\ UNCHANGED <<rows, open, claims, epoch>> /\ open
        /\ UNCHANGED <<queue, accepting, signal, fences, procs, lapsed>>
    BY DEF vars, FinishReturn, Answered
  <1>3. /\ calls \in [Callers -> CallRecords] /\ MaxRetries \in Nat /\ r \in Callers
        /\ pc \in [Requests -> TaskPcs] /\ fences \in [Requests -> Nat]
    BY ServiceAssumption, CallerKinds DEF ServiceInv, ServiceTypeOK
  <1>4. /\ calls[r].state = "answered" /\ calls[r].body.op = "finish" /\ InCall(r)
        /\ calls'[r] = Idle /\ Idle.state = "idle" /\ Idle.body.op = "none" /\ Idle.tries = 0
        /\ calls' \in [Callers -> CallRecords]
        /\ \A d \in Callers : d # r => calls'[d] = calls[d]
    BY <1>3, IdleFacts DEF FinishReturn, Answered, InCall
  <1>5. pc[r] = "finishing"
    BY <1>4 DEF ServiceInv, TaskCalls
  <1>6. /\ pc' \in [Requests -> TaskPcs] /\ pc'[r] = "ending"
        /\ \A q \in Requests : q # r => pc'[q] = pc[q]
    BY <1>3 DEF FinishReturn, TaskPcs
  <1>7. ServiceTypeOK'
    BY <1>2, <1>3, <1>4, <1>5, <1>6, CallerKinds DEF ServiceInv, ServiceTypeOK
  <1>8. OrdersValid'
    BY <1>2, <1>3, <1>4, <1>5, <1>6, CallerKinds DEF ServiceInv, OrdersValid, InCall
  <1>9. OneReport'
    <2>1. \A q \in Requests : calls'[q].state # "idle" => InCall(q) /\ calls'[q] = calls[q]
      BY <1>4, CallerKinds DEF InCall
    <2> QED
      BY <1>2, <2>1 DEF ServiceInv, OneReport, InCall
  <1>10. TaskCalls'
    BY <1>2, <1>3, <1>4, <1>5, <1>6, CallerKinds DEF ServiceInv, TaskCalls, InCall
  <1>11. AwaitedLast'
    BY <1>2, <1>4, QueueUntouched
  <1>12. ClaimHeld'
    BY <1>2, <1>3, <1>4, <1>5, <1>6, CallerKinds DEF ServiceInv, ClaimHeld, Claimant, ClaimLearnt, FinishQueued
  <1>13. TriesBounded'
    BY <1>2, <1>3, <1>4, <1>5, <1>6, CallerKinds DEF ServiceInv, TriesBounded
  <1>14. LostClaims'
    BY <1>2, <1>3, <1>4, <1>5, <1>6, CallerKinds DEF ServiceInv, LostClaims
  <1>15. Supervised'
    BY <1>2, <1>3, <1>4, <1>5, <1>6, CallerKinds DEF ServiceInv, Supervised, Claimant, ClaimLearnt, FinishKnown, IsTerminal, TerminalPhases, Claimed
  <1>16. FinishKnown'
    BY <1>2, <1>3, <1>4, <1>5, <1>6, CallerKinds DEF ServiceInv, FinishKnown
  <1>17. LateCancels'
    BY <1>2, <1>4, QueueUntouched
  <1>18. CancelHeard'
    BY <1>2, <1>3, <1>4, <1>5, <1>6, CallerKinds DEF ServiceInv, CancelHeard, Claimant, ClaimLearnt, WillSignal
  <1>19. ClosedEmpty'
    BY <1>2, <1>3, <1>4, <1>5, <1>6, CallerKinds DEF ServiceInv, ClosedEmpty
  <1>20. ShutdownSignalsAll'
    BY <1>2, <1>3, <1>4, <1>5, <1>6, CallerKinds DEF ServiceInv, ShutdownSignalsAll, Registered
  <1>21. ProcessSupervised'
    BY <1>2, <1>3, <1>4, <1>5, <1>6, CallerKinds, ClaimFacts DEF ServiceInv, ProcessSupervised
  <1> QED
    BY <1>1, <1>7, <1>8, <1>9, <1>10, <1>11, <1>12, <1>13, <1>14, <1>15, <1>16, <1>17, <1>18, <1>19, <1>20, <1>21 DEF ServiceInv

LEMMA DeregisterKeepsInv ==
    ASSUME ServiceInv, NEW r \in Requests, Deregister(r)
    PROVE  ServiceInv'
  <1>1. IInv' /\ defective' = {} /\ EpochsPast'
    BY StoreKept DEF Deregister
  <1>2. /\ UNCHANGED <<rows, open, claims, epoch>> /\ open
        /\ UNCHANGED <<queue, calls, accepting, signal, procs, lapsed>>
    BY DEF vars, Deregister
  <1>3. /\ calls \in [Callers -> CallRecords] /\ MaxRetries \in Nat /\ r \in Callers
        /\ pc \in [Requests -> TaskPcs] /\ fences \in [Requests -> Nat]
    BY ServiceAssumption, CallerKinds DEF ServiceInv, ServiceTypeOK
  <1>4. /\ pc[r] = "ending" /\ pc' \in [Requests -> TaskPcs] /\ pc'[r] = "none"
        /\ fences' \in [Requests -> Nat]
        /\ \A q \in Requests : q # r => pc'[q] = pc[q] /\ fences'[q] = fences[q]
    BY <1>3 DEF Deregister, TaskPcs, NoFence
  <1>5. ServiceTypeOK'
    BY <1>2, <1>3, <1>4, CallerKinds DEF ServiceInv, ServiceTypeOK
  <1>6. OrdersValid'
    BY <1>2, <1>3, <1>4, CallerKinds DEF ServiceInv, OrdersValid, InCall
  <1>7. OneReport'
    BY <1>2, <1>3, <1>4, CallerKinds DEF ServiceInv, OneReport, InCall
  <1>8. TaskCalls'
    BY <1>2, <1>3, <1>4, CallerKinds DEF ServiceInv, TaskCalls, InCall
  <1>9. AwaitedLast'
    BY <1>2, <1>3, <1>4, CallerKinds DEF ServiceInv, AwaitedLast
  <1>10. ClaimHeld'
    BY <1>2, <1>3, <1>4, CallerKinds DEF ServiceInv, ClaimHeld, Claimant, ClaimLearnt, FinishQueued
  <1>11. TriesBounded'
    BY <1>2, <1>3, <1>4, CallerKinds DEF ServiceInv, TriesBounded
  <1>12. LostClaims'
    BY <1>2, <1>3, <1>4, CallerKinds DEF ServiceInv, LostClaims
  <1>13. Supervised'
    BY <1>2, <1>3, <1>4, CallerKinds DEF ServiceInv, Supervised, Claimant, ClaimLearnt
  <1>14. FinishKnown'
    BY <1>2, <1>3, <1>4, CallerKinds DEF ServiceInv, FinishKnown
  <1>15. LateCancels'
    BY <1>2, <1>3, <1>4, CallerKinds DEF ServiceInv, LateCancels
  <1>16. CancelHeard'
    BY <1>2, <1>3, <1>4, CallerKinds DEF ServiceInv, CancelHeard, Claimant, ClaimLearnt, WillSignal
  <1>17. ClosedEmpty'
    BY <1>2, <1>3, <1>4, CallerKinds DEF ServiceInv, ClosedEmpty
  <1>18. ShutdownSignalsAll'
    BY <1>2, <1>3, <1>4, CallerKinds DEF ServiceInv, ShutdownSignalsAll, Registered
  <1>19. ProcessSupervised'
    BY <1>2, <1>3, <1>4, CallerKinds, ClaimFacts DEF ServiceInv, ProcessSupervised
  <1> QED
    BY <1>1, <1>5, <1>6, <1>7, <1>8, <1>9, <1>10, <1>11, <1>12, <1>13, <1>14, <1>15, <1>16, <1>17, <1>18, <1>19 DEF ServiceInv

LEMMA AttemptStepKeepsInv ==
    ASSUME ServiceInv, NEW r \in Requests, AttemptStep(r)
    PROVE  ServiceInv'
  BY ClaimReturnKeepsInv, SkipCancelledKeepsInv, SpawnKeepsInv, SpawnFailsKeepsInv,
     EndExchangeKeepsInv, FinishReturnKeepsInv, DeregisterKeepsInv DEF AttemptStep

----------------------------------------------------------------------------
(* Shutdown, exit and restart.                                             *)

LEMMA BeginShutdownKeepsInv ==
    ASSUME ServiceInv, BeginShutdown
    PROVE  ServiceInv'
  <1>1. IInv' /\ defective' = {} /\ EpochsPast'
    BY StoreKept DEF BeginShutdown
  <1>2. /\ UNCHANGED <<rows, open, claims, epoch>> /\ open /\ accepting' = FALSE /\ accepting
        /\ UNCHANGED <<queue, calls, pc, fences, procs, lapsed>>
    BY DEF vars, BeginShutdown
  <1>3. /\ signal' \in [Requests -> BOOLEAN]
        /\ \A r \in Requests : signal[r] \/ pc[r] # "none" => signal'[r]
    BY DEF BeginShutdown, Registered
  <1>4. \A c, b, row : ValidOrder(c, b, row, TRUE) => ValidOrder(c, b, row, FALSE)
    BY DEF ValidOrder
  <1>5. accepting = TRUE
    BY <1>2 DEF ServiceInv, ServiceTypeOK
  <1>6. ServiceTypeOK'
    BY <1>2, <1>3, <1>4, <1>5, CallerKinds DEF ServiceInv, ServiceTypeOK
  <1>7. OrdersValid'
    BY <1>2, <1>3, <1>4, <1>5, CallerKinds DEF ServiceInv, OrdersValid, InCall
  <1>8. OneReport'
    BY <1>2, <1>3, <1>4, <1>5, CallerKinds DEF ServiceInv, OneReport, InCall
  <1>9. TaskCalls'
    BY <1>2, <1>3, <1>4, <1>5, CallerKinds DEF ServiceInv, TaskCalls, InCall
  <1>10. AwaitedLast'
    BY <1>2, <1>3, <1>4, <1>5, CallerKinds DEF ServiceInv, AwaitedLast
  <1>11. ClaimHeld'
    BY <1>2, <1>3, <1>4, <1>5, CallerKinds DEF ServiceInv, ClaimHeld, Claimant, ClaimLearnt, FinishQueued
  <1>12. TriesBounded'
    BY <1>2, <1>3, <1>4, <1>5, CallerKinds DEF ServiceInv, TriesBounded
  <1>13. LostClaims'
    BY <1>2, <1>3, <1>4, <1>5, CallerKinds DEF ServiceInv, LostClaims
  <1>14. Supervised'
    BY <1>2, <1>3, <1>4, <1>5, CallerKinds DEF ServiceInv, Supervised, Claimant, ClaimLearnt
  <1>15. FinishKnown'
    BY <1>2, <1>3, <1>4, <1>5, CallerKinds DEF ServiceInv, FinishKnown
  <1>16. LateCancels'
    BY <1>2, <1>3, <1>4, <1>5, CallerKinds DEF ServiceInv, LateCancels
  <1>17. CancelHeard'
    BY <1>2, <1>3, <1>4, <1>5, CallerKinds DEF ServiceInv, CancelHeard, Claimant, ClaimLearnt, WillSignal
  <1>18. ClosedEmpty'
    BY <1>2, <1>3, <1>4, <1>5, CallerKinds DEF ServiceInv, ClosedEmpty
  <1>19. ShutdownSignalsAll'
    BY <1>2, <1>3, <1>4, <1>5, CallerKinds DEF ServiceInv, ShutdownSignalsAll, Registered
  <1>20. ProcessSupervised'
    BY <1>2, <1>3, <1>4, <1>5, CallerKinds DEF ServiceInv, ProcessSupervised
  <1> QED
    BY <1>1, <1>6, <1>7, <1>8, <1>9, <1>10, <1>11, <1>12, <1>13, <1>14, <1>15, <1>16, <1>17, <1>18, <1>19, <1>20 DEF ServiceInv

LEMMA AbortTasksKeepsInv ==
    ASSUME ServiceInv, AbortTasks
    PROVE  ServiceInv'
  <1>1. IInv' /\ defective' = {} /\ EpochsPast'
    BY StoreKept DEF AbortTasks
  <1>2. /\ UNCHANGED <<rows, open, claims, epoch>> /\ open /\ ~accepting
        /\ UNCHANGED <<accepting, signal, lapsed>>
    BY DEF vars, AbortTasks
  <1>3. calls \in [Callers -> CallRecords] /\ MaxRetries \in Nat
    BY ServiceAssumption DEF ServiceInv, ServiceTypeOK
  <1>4. /\ Idle.state = "idle" /\ Idle.body.op = "none" /\ Idle.tries = 0 /\ Idle \in CallRecords
    BY IdleFacts
  <1>5. /\ pc' \in [Requests -> TaskPcs] /\ fences' \in [Requests -> Nat]
        /\ \A r \in Requests : pc'[r] = "none"
        /\ procs' \subseteq procs /\ \A r \in Requests : fences[r] \notin procs'
    BY DEF AbortTasks, Terminated, TaskPcs, NoFence
  <1>6. /\ calls' \in [Callers -> CallRecords]
        /\ \A c \in Clients : calls'[c] = calls[c]
        /\ \A r \in Requests :
              \/ calls'[r] = Idle
              \/ /\ calls'[r].state = "orphan" /\ calls[r].state = "ready"
                 /\ calls'[r].body = calls[r].body /\ calls'[r].tries = calls[r].tries
    <2>1. PICK late \in SUBSET {r \in Requests : calls[r].state = "ready"} :
            calls' = [c \in Callers |->
                        IF c \in late THEN [calls[c] EXCEPT !.state = "orphan"]
                        ELSE IF c \in Requests THEN Idle ELSE calls[c]]
      BY DEF AbortTasks
    <2>2. \A c \in Callers : c \in late =>
            /\ c \in Requests /\ calls[c].state = "ready"
            /\ calls'[c] \in CallRecords /\ calls'[c].state = "orphan"
            /\ calls'[c].body = calls[c].body /\ calls'[c].tries = calls[c].tries
      BY <1>3, <2>1 DEF CallRecords
    <2>3. \A c \in Callers : c \notin late =>
            calls'[c] = (IF c \in Requests THEN Idle ELSE calls[c])
      BY <2>1
    <2>4. \A c \in Callers : calls'[c] \in CallRecords
      BY <1>3, <1>4, <2>2, <2>3
    <2> QED
      BY <2>1, <2>2, <2>3, <2>4, CallerKinds
  <1>7. /\ queue' \in Seq(Messages) /\ Len(queue') = Len(queue)
        /\ \A i \in 1..Len(queue) :
              /\ queue'[i].caller = queue[i].caller /\ queue'[i].body = queue[i].body
              /\ queue[i].caller \in Requests => queue'[i].awaited = FALSE
              /\ queue[i].caller \notin Requests => queue'[i] = queue[i]
    BY ForgottenFacts DEF AbortTasks, ServiceInv, ServiceTypeOK
  <1>8. ServiceTypeOK'
    BY <1>2, <1>3, <1>4, <1>5, <1>6, <1>7, CallerKinds, OrderFacts DEF ServiceInv, ServiceTypeOK
  <1>9. OrdersValid'
    BY <1>2, <1>3, <1>4, <1>5, <1>6, <1>7, CallerKinds, OrderFacts DEF ServiceInv, OrdersValid, InCall
  <1>10. OneReport'
    <2>1. \A q \in Requests : calls'[q].state # "idle" => InCall(q) /\ calls'[q].body = calls[q].body
      BY <1>4, <1>6 DEF InCall
    <2> QED
      BY <1>7, <2>1 DEF ServiceInv, OneReport, InCall
  <1>11. TaskCalls'
    BY <1>2, <1>3, <1>4, <1>5, <1>6, <1>7, CallerKinds, OrderFacts DEF ServiceInv, TaskCalls, InCall
  <1>12. AwaitedLast'
    BY <1>2, <1>3, <1>4, <1>5, <1>6, <1>7, CallerKinds, OrderFacts DEF ServiceInv, AwaitedLast
  <1>13. ClaimHeld'
    BY <1>2, <1>3, <1>4, <1>5, <1>6, <1>7, CallerKinds, OrderFacts DEF ServiceInv, ClaimHeld, Claimant, ClaimLearnt, FinishQueued
  <1>14. TriesBounded'
    BY SMTT(30), <1>2, <1>3, <1>4, <1>5, <1>6, <1>7, CallerKinds, OrderFacts DEF ServiceInv, TriesBounded
  <1>15. LostClaims'
    BY <1>2, <1>3, <1>4, <1>5, <1>6, <1>7, CallerKinds, OrderFacts DEF ServiceInv, LostClaims
  <1>16. Supervised'
    BY <1>2, <1>3, <1>4, <1>5, <1>6, <1>7, CallerKinds, OrderFacts DEF ServiceInv, Supervised, Claimant, ClaimLearnt
  <1>17. FinishKnown'
    BY <1>2, <1>3, <1>4, <1>5, <1>6, <1>7, CallerKinds, OrderFacts DEF ServiceInv, FinishKnown
  <1>18. LateCancels'
    <2>1. \A i \in 1..Len(queue) : queue[i].body.op = "cancel" =>
            queue'[i] = queue[i] /\ calls'[queue[i].caller] = calls[queue[i].caller]
      BY <1>6, <1>7, CallerKinds, OrderFacts
    <2> QED
      BY <1>2, <1>7, <2>1 DEF ServiceInv, LateCancels
  <1>19. CancelHeard'
    BY <1>2, <1>3, <1>4, <1>5, <1>6, <1>7, CallerKinds, OrderFacts DEF ServiceInv, CancelHeard, Claimant, ClaimLearnt, WillSignal
  <1>20. ClosedEmpty'
    BY <1>2, <1>3, <1>4, <1>5, <1>6, <1>7, CallerKinds, OrderFacts DEF ServiceInv, ClosedEmpty
  <1>21. ShutdownSignalsAll'
    BY <1>2, <1>3, <1>4, <1>5, <1>6, <1>7, CallerKinds, OrderFacts DEF ServiceInv, ShutdownSignalsAll, Registered
  <1>22. ProcessSupervised'
    BY <1>2, <1>3, <1>4, <1>5, <1>6, <1>7, CallerKinds, OrderFacts, ClaimFacts DEF ServiceInv, ProcessSupervised
  <1> QED
    BY <1>1, <1>8, <1>9, <1>10, <1>11, <1>12, <1>13, <1>14, <1>15, <1>16, <1>17, <1>18, <1>19, <1>20, <1>21, <1>22 DEF ServiceInv

\* A service with nothing in memory satisfies what the invariant says of it.
LEMMA EmptyMemory ==
    ASSUME queue' = << >>, \A c \in Callers : calls'[c] = Idle,
           \A r \in Requests : pc'[r] = "none"
    PROVE  /\ OrdersValid' /\ OneReport' /\ TaskCalls' /\ AwaitedLast' /\ ClaimHeld'
           /\ TriesBounded' /\ LostClaims' /\ FinishKnown' /\ LateCancels' /\ CancelHeard'
           /\ ShutdownSignalsAll'
  <1>1. /\ Len(queue') = 0 /\ MaxRetries \in Nat /\ 1..Len(queue') = {}
    BY ServiceAssumption
  <1>2. \A c \in Callers : calls'[c].state = "idle" /\ calls'[c].tries = 0 /\ calls'[c] = Idle
    BY IdleFacts
  <1>3. OrdersValid' /\ OneReport' /\ AwaitedLast' /\ LostClaims' /\ LateCancels'
    BY <1>1, <1>2, CallerKinds
       DEF OrdersValid, OneReport, AwaitedLast, LostClaims, LateCancels, InCall
  <1>4. TaskCalls' /\ TriesBounded' /\ FinishKnown' /\ ShutdownSignalsAll'
    BY <1>1, <1>2, CallerKinds
       DEF TaskCalls, TriesBounded, FinishKnown, ShutdownSignalsAll, Registered, InCall
  <1>5. ClaimHeld' /\ CancelHeard'
    BY <1>1, <1>2, CallerKinds DEF ClaimHeld, CancelHeard, Claimant, ClaimLearnt
  <1> QED
    BY <1>3, <1>4, <1>5

LEMMA ExitKeepsInv ==
    ASSUME ServiceInv, Exit
    PROVE  ServiceInv'
  <1>1. IInv' /\ defective' = {} /\ EpochsPast'
    <2>1. IInv'
      BY StepIInv DEF ServiceInv, Exit, AnyClockNext
    <2> QED
      BY <2>1 DEF ServiceInv, EpochsPast, Exit, Crash
  <1>2. /\ open' = FALSE /\ claims' = claims /\ queue' = << >> /\ accepting' = FALSE
        /\ procs' \subseteq procs
    BY DEF Exit, Crash
  <1>3. /\ calls' = [c \in Callers |-> Idle] /\ pc' = [r \in Requests |-> "none"]
        /\ signal' = [r \in Requests |-> FALSE] /\ fences' = [r \in Requests |-> NoFence]
    BY DEF Exit
  <1>4. ServiceTypeOK'
    <2>1. /\ calls' \in [Callers -> CallRecords] /\ pc' \in [Requests -> TaskPcs]
          /\ signal' \in [Requests -> BOOLEAN] /\ fences' \in [Requests -> Nat]
      BY <1>3, IdleFacts DEF TaskPcs, NoFence
    <2>2. queue' \in Seq(Messages) /\ accepting' \in BOOLEAN
      <3>1. << >> \in Seq(Messages) /\ FALSE \in BOOLEAN
        OBVIOUS
      <3> QED
        BY <1>2, <3>1
    <2>3. procs' \subseteq 1..Len(claims')
      BY <1>2 DEF ServiceInv, ServiceTypeOK
    <2> QED
      BY <2>1, <2>2, <2>3 DEF ServiceTypeOK
  <1>5. ClosedEmpty' /\ Supervised' /\ ProcessSupervised'
    BY <1>2, <1>3 DEF ClosedEmpty, Supervised, ProcessSupervised
  <1> QED
    BY <1>1, <1>2, <1>3, <1>4, <1>5, EmptyMemory DEF ServiceInv

LEMMA RestartKeepsInv ==
    ASSUME ServiceInv, Restart
    PROVE  ServiceInv'
  <1>1. PICK ts \in Nat : Open(ts)
    BY StoreAssumption DEF Restart
  <1>2. AnyClockNext
    BY <1>1 DEF AnyClockNext
  <1>3. /\ ~open /\ open' /\ epoch' = epoch + 1 /\ claims' = claims /\ accepting' = TRUE
        /\ defective' = defective
        /\ UNCHANGED <<queue, calls, pc, signal, fences, procs, lapsed>>
    BY <1>1 DEF Open, Restart
  <1>4. IInv' /\ defective' = {} /\ EpochsPast'
    <2>1. IInv'
      BY <1>2, StepIInv DEF ServiceInv
    <2>2. EpochsPast'
      BY <1>3, ClaimFacts DEF ServiceInv, EpochsPast
    <2> QED
      BY <1>3, <2>1, <2>2 DEF ServiceInv
  <1>5. /\ queue' = << >> /\ \A c \in Callers : calls'[c] = Idle
        /\ \A r \in Requests : pc'[r] = "none"
    BY <1>3 DEF ServiceInv, ClosedEmpty
  <1>6. \A r \in Requests : rows'[r].phase \notin ActivePhases
    BY <1>2, <1>3, RecoveryStep DEF ServiceInv
  <1>7. ServiceTypeOK' /\ ClosedEmpty'
    BY <1>3 DEF ServiceInv, ServiceTypeOK, ClosedEmpty
  <1>8. Supervised'
    BY <1>6 DEF Supervised, Claimed, ActivePhases
  <1>9. ProcessSupervised'
    <2>1. \A f \in procs : claims[f].epoch # epoch + 1
      BY ClaimFacts DEF ServiceInv, EpochsPast
    <2> QED
      BY <1>3, <2>1 DEF ProcessSupervised
  <1> QED
    BY <1>4, <1>5, <1>7, <1>8, <1>9, EmptyMemory DEF ServiceInv

LEMMA StrayEndsKeepsInv ==
    ASSUME ServiceInv, NEW f \in 1..Len(claims), StrayEnds(f)
    PROVE  ServiceInv'
  <1>1. IInv' /\ defective' = {} /\ EpochsPast'
    BY StoreKept DEF StrayEnds
  <1>2. /\ UNCHANGED <<rows, open, claims, epoch>> /\ procs' \subseteq procs
        /\ UNCHANGED <<queue, calls, accepting, pc, signal, fences, lapsed>>
    BY DEF vars, StrayEnds
  <1>3. ServiceTypeOK'
    BY <1>2 DEF ServiceInv, ServiceTypeOK
  <1>4. OrdersValid'
    BY <1>2 DEF ServiceInv, OrdersValid, InCall
  <1>5. OneReport'
    BY <1>2 DEF ServiceInv, OneReport, InCall
  <1>6. TaskCalls'
    BY <1>2 DEF ServiceInv, TaskCalls, InCall
  <1>7. AwaitedLast'
    BY <1>2 DEF ServiceInv, AwaitedLast
  <1>8. ClaimHeld'
    BY <1>2 DEF ServiceInv, ClaimHeld, Claimant, ClaimLearnt, FinishQueued
  <1>9. TriesBounded'
    BY <1>2 DEF ServiceInv, TriesBounded
  <1>10. LostClaims'
    BY <1>2 DEF ServiceInv, LostClaims
  <1>11. Supervised'
    BY <1>2 DEF ServiceInv, Supervised, Claimant, ClaimLearnt
  <1>12. FinishKnown'
    BY <1>2 DEF ServiceInv, FinishKnown
  <1>13. LateCancels'
    BY <1>2 DEF ServiceInv, LateCancels
  <1>14. CancelHeard'
    BY <1>2 DEF ServiceInv, CancelHeard, Claimant, ClaimLearnt, WillSignal
  <1>15. ClosedEmpty'
    BY <1>2 DEF ServiceInv, ClosedEmpty
  <1>16. ShutdownSignalsAll'
    BY <1>2 DEF ServiceInv, ShutdownSignalsAll, Registered
  <1>17. ProcessSupervised'
    BY <1>2 DEF ServiceInv, ProcessSupervised
  <1> QED
    BY <1>1, <1>3, <1>4, <1>5, <1>6, <1>7, <1>8, <1>9, <1>10, <1>11, <1>12, <1>13, <1>14, <1>15, <1>16, <1>17 DEF ServiceInv

LEMMA RefreshKeepsInv ==
    ASSUME ServiceInv, Refresh
    PROVE  ServiceInv'
  <1>1. IInv' /\ defective' = {} /\ EpochsPast'
    <2>1. \E found \in BOOLEAN : Detect(found)
      BY ServiceAssumption DEF Refresh
    <2>2. IInv'
      BY <2>1, StepIInv DEF ServiceInv, AnyClockNext
    <2> QED
      BY <2>1, <2>2 DEF ServiceInv, EpochsPast, Detect
  <1>2. /\ UNCHANGED <<rows, open, claims, epoch>>
        /\ UNCHANGED <<queue, calls, accepting, pc, signal, fences, procs, lapsed>>
    BY DEF serviceVars, Refresh, Detect
  <1>3. ServiceTypeOK'
    BY <1>2 DEF ServiceInv, ServiceTypeOK
  <1>4. OrdersValid'
    BY <1>2 DEF ServiceInv, OrdersValid, InCall
  <1>5. OneReport'
    BY <1>2 DEF ServiceInv, OneReport, InCall
  <1>6. TaskCalls'
    BY <1>2 DEF ServiceInv, TaskCalls, InCall
  <1>7. AwaitedLast'
    BY <1>2 DEF ServiceInv, AwaitedLast
  <1>8. ClaimHeld'
    BY <1>2 DEF ServiceInv, ClaimHeld, Claimant, ClaimLearnt, FinishQueued
  <1>9. TriesBounded'
    BY <1>2 DEF ServiceInv, TriesBounded
  <1>10. LostClaims'
    BY <1>2 DEF ServiceInv, LostClaims
  <1>11. Supervised'
    BY <1>2 DEF ServiceInv, Supervised, Claimant, ClaimLearnt
  <1>12. FinishKnown'
    BY <1>2 DEF ServiceInv, FinishKnown
  <1>13. LateCancels'
    BY <1>2 DEF ServiceInv, LateCancels
  <1>14. CancelHeard'
    BY <1>2 DEF ServiceInv, CancelHeard, Claimant, ClaimLearnt, WillSignal
  <1>15. ClosedEmpty'
    BY <1>2 DEF ServiceInv, ClosedEmpty
  <1>16. ShutdownSignalsAll'
    BY <1>2 DEF ServiceInv, ShutdownSignalsAll, Registered
  <1>17. ProcessSupervised'
    BY <1>2 DEF ServiceInv, ProcessSupervised
  <1> QED
    BY <1>1, <1>3, <1>4, <1>5, <1>6, <1>7, <1>8, <1>9, <1>10, <1>11, <1>12, <1>13, <1>14, <1>15, <1>16, <1>17 DEF ServiceInv

----------------------------------------------------------------------------
(* The writer: what it does with an order, and what its caller learns.     *)

\* The row of the order b before and after it is carried out, and the reply.
Served(b, row, new, code) ==
    \/ /\ new = row
       /\ b.op = "claim"  => code # "changed"
       /\ b.op = "finish" => IsTerminal(row.phase)
       /\ b.op = "cancel" /\ row.phase = "cancel_requested" => Accepted(code)
    \/ b.op = "admit" /\ row.phase = "absent" /\ new.phase = "admitted"
    \/ b.op = "claim" /\ row.phase = "admitted" /\ new.phase = "running" /\ code = "changed"
    \/ /\ b.op = "finish" /\ Claimed(row.phase) /\ IsTerminal(new.phase)
       /\ new.fence = row.fence /\ RecordsFinish(new, b.report)
    \/ /\ b.op \in {"cancel", "abort"} /\ row.phase = "running"
       /\ new.phase = "cancel_requested" /\ new.fence = row.fence /\ code = "changed"
    \/ /\ b.op \in {"cancel", "abort"} /\ row.phase \in {"admitted", "recovery_pending"}
       /\ new.phase = "cancelled"

\* The transaction of an order leaves the other rows and the daemon alone.
Transaction(r) ==
    /\ [Next]_vars
    /\ defective' = defective /\ open' = open /\ epoch' = epoch
    /\ \A q \in Requests : q # r => rows'[q] = rows[q]

LEMMA OrderAtHead ==
    ASSUME ServiceInv, queue # << >>
    PROVE  /\ Head(queue) = queue[1] /\ 1 \in 1..Len(queue) /\ Head(queue) \in Messages
           /\ Head(queue).body.request \in Requests
           /\ ValidOrder(Head(queue).caller, Head(queue).body,
                         rows[Head(queue).body.request], accepting)
           /\ Head(queue).body.request \notin defective
  <1>1. Head(queue) = queue[1] /\ 1 \in 1..Len(queue) /\ Head(queue) \in Messages
    BY TailFacts DEF ServiceInv, ServiceTypeOK
  <1> QED
    BY <1>1 DEF ServiceInv, OrdersValid, ValidOrder

LEMMA StutterTransaction ==
    ASSUME UNCHANGED vars, NEW r
    PROVE  Transaction(r)
  BY DEF Transaction, vars

LEMMA ServedAdmit ==
    ASSUME ServiceInv, ServeAdmit
    PROVE  LET b == Head(queue).body
           IN  \E code \in ReplyCodes :
                 /\ Transaction(b.request) /\ AnswerHead(code)
                 /\ Served(b, rows[b.request], rows'[b.request], code)
  <1> DEFINE b == Head(queue).body
             r == b.request
             code == AdmitReply(r, b.resource, b.content)
  <1>1. /\ open /\ queue # << >> /\ b.op = "admit" /\ AnswerHead(code)
        /\ IF code = "changed"
           THEN \E ts \in Timestamps : Admit(r, b.resource, b.content, ts)
           ELSE UNCHANGED vars
    BY DEF ServeAdmit, AtHead
  <1>2. r \in Requests /\ b.resource \in Resources /\ b.content \in Fingerprints
    BY <1>1, OrderAtHead DEF ValidOrder
  <1>3. code \in ReplyCodes
    BY DEF AdmitReply, Load, ReplyCodes
  <1>4. TypeOK /\ Uncoded
    BY DEF ServiceInv, IInv
  <1> HIDE DEF code
  <1>5. CASE code = "changed"
    <2>1. PICK ts \in Timestamps : Admit(r, b.resource, b.content, ts)
      BY <1>1, <1>5
    <2>2. ts \in Nat
      BY StoreAssumption
    <2>3. AdmitMove(r) /\ \A q \in Requests \ {r} : Stays(q)
      BY <1>2, <1>4, <2>1, <2>2, AdmitStep
    <2>4. rows[r].phase = "absent" /\ rows'[r].phase = "admitted"
      BY <2>3 DEF AdmitMove
    <2>5. Transaction(r)
      BY <1>2, <2>1, <2>3 DEF Transaction, Next, Stays, Admit
    <2> QED
      BY <1>1, <1>3, <2>4, <2>5 DEF Served
  <1>6. CASE code # "changed"
    <2>1. UNCHANGED vars /\ rows'[r] = rows[r]
      BY <1>1, <1>6 DEF vars
    <2> QED
      BY <1>1, <1>3, <2>1, StutterTransaction DEF Served
  <1> QED
    BY <1>5, <1>6

LEMMA ServedClaim ==
    ASSUME ServiceInv, ServeClaim
    PROVE  LET b == Head(queue).body
           IN  \E code \in ReplyCodes :
                 /\ Transaction(b.request) /\ AnswerHead(code)
                 /\ Served(b, rows[b.request], rows'[b.request], code)
  <1> DEFINE b == Head(queue).body
             r == b.request
             code == ClaimReply(r)
  <1>1. /\ open /\ queue # << >> /\ b.op = "claim" /\ AnswerHead(code)
        /\ IF code = "changed" THEN \E ts \in Timestamps : Claim(r, ts) ELSE UNCHANGED vars
    BY DEF ServeClaim, AtHead
  <1>2. r \in Requests
    BY <1>1, OrderAtHead
  <1>3. code \in ReplyCodes
    BY DEF ClaimReply, EdgeReply, ClaimEdge, Changed, Refused, Load, ReplyCodes
  <1>4. TypeOK
    BY DEF ServiceInv, IInv
  <1> HIDE DEF code
  <1>5. CASE code = "changed"
    <2>1. PICK ts \in Timestamps : Claim(r, ts)
      BY <1>1, <1>5
    <2>2. ts \in Nat
      BY StoreAssumption
    <2>3. ClaimMove(r) /\ \A q \in Requests \ {r} : Stays(q)
      BY <1>2, <1>4, <2>1, <2>2, ClaimStep
    <2>4. rows[r].phase = "admitted" /\ rows'[r].phase = "running"
      BY <2>3 DEF ClaimMove
    <2>5. Transaction(r)
      BY <1>2, <2>1, <2>3 DEF Transaction, Next, Stays, Claim
    <2> QED
      BY <1>1, <1>3, <1>5, <2>4, <2>5 DEF Served
  <1>6. CASE code # "changed"
    <2>1. UNCHANGED vars /\ rows'[r] = rows[r]
      BY <1>1, <1>6 DEF vars
    <2> QED
      BY <1>1, <1>3, <1>6, <2>1, StutterTransaction DEF Served
  <1> QED
    BY <1>5, <1>6

\* A report that is on its way is taken, or was taken before.
LEMMA ReportReply ==
    ASSUME IInv, NEW r \in Requests, r \notin defective, NEW b, b.request = r,
           Reportable(b, rows[r])
    PROVE  /\ FinishReply(r, b.fence, b.report) \in {"changed", "unchanged"}
           /\ FinishReply(r, b.fence, b.report) = "changed" <=> Claimed(rows[r].phase)
  <1>1. Load(r) = "loaded"
    BY DEF Load, Exists, Reportable, Claimed, IsTerminal, TerminalPhases
  <1>2. CASE IsTerminal(rows[r].phase)
    <2>1. FinishReply(r, b.fence, b.report) = "unchanged"
      BY <1>1, <1>2 DEF FinishReply, Reportable, Claimed, IsTerminal, TerminalPhases
    <2> QED
      BY <1>2, <2>1 DEF Claimed, IsTerminal, TerminalPhases
  <1>3. CASE Claimed(rows[r].phase)
    <2> DEFINE edge == FinishEdge(rows[r].phase, b.report.outcome)
    <2>1. ~IsTerminal(rows[r].phase) /\ b.report.outcome \in Outcomes
      BY <1>3 DEF Claimed, IsTerminal, TerminalPhases, Reportable, Report
    <2>2. edge.kind = "changed" /\ LegalEdge(rows[r], edge)
      <3>1. rows[r].task = "in_progress" /\ rows[r].run = "running"
        BY <1>3 DEF IInv, RowsLoad, AllowedStatuses, Exists, Claimed
      <3> QED
        BY <1>3, <2>1, <3>1
           DEF FinishEdge, Changed, FinishedStatuses, LegalEdge, TaskCanTransition,
               RunCanTransition, Claimed, Outcomes
    <2>3. FinishReply(r, b.fence, b.report) = EdgeReply(r, edge)
      BY <1>1, <2>1, <2>2 DEF FinishReply, Reportable, FenceHeld
    <2>4. EdgeReply(r, edge) = "changed"
      BY <1>1, <2>2 DEF EdgeReply
    <2> QED
      BY <1>3, <2>3, <2>4
  <1> QED
    BY <1>2, <1>3 DEF Reportable

\* The row a finish leaves holds its report, to recognise its repetition.
LEMMA FinishRecorded ==
    ASSUME TypeOK, Uncoded, NEW r \in Requests, NEW fence \in 1..Len(claims),
           NEW report \in Report, NEW ts \in Nat, Finish(r, fence, report, ts)
    PROVE  RecordsFinish(rows'[r], report)
  <1> DEFINE edge == FinishEdge(rows[r].phase, report.outcome)
  <1>1. /\ rows[r].phase \in {"running", "cancel_requested"} /\ rows[r].error = NoCode
    BY FinishEffect DEF Uncoded, ActivePhases
  <1>2. edge.error = NoCode
    BY <1>1 DEF FinishEdge, Changed
  <1>3. rows'[r] = Committed(rows[r], edge, rows[r].fence, report, ts)
    BY DEF Finish, Write, TypeOK
  <1>4. report # NoReport
    BY ReportFields
  <1> HIDE DEF edge
  <1> QED
    BY <1>1, <1>2, <1>3, <1>4 DEF RecordsFinish, Committed, ProducedCode

LEMMA ServedFinish ==
    ASSUME ServiceInv, ServeFinish
    PROVE  LET b == Head(queue).body
           IN  \E code \in ReplyCodes :
                 /\ Transaction(b.request) /\ AnswerHead(code)
                 /\ Served(b, rows[b.request], rows'[b.request], code)
  <1> DEFINE b == Head(queue).body
             r == b.request
             code == FinishReply(r, b.fence, b.report)
  <1>1. /\ open /\ queue # << >> /\ b.op = "finish" /\ AnswerHead(code)
        /\ IF code = "changed"
           THEN \E ts \in Timestamps : Finish(r, b.fence, b.report, ts)
           ELSE UNCHANGED vars
    BY DEF ServeFinish, AtHead
  <1>2. r \in Requests /\ r \notin defective /\ Reportable(b, rows[r])
    BY <1>1, OrderAtHead DEF ValidOrder
  <1>3. IInv /\ TypeOK /\ Uncoded
    BY DEF ServiceInv, IInv
  <1>4. code \in {"changed", "unchanged"} /\ (code = "changed" <=> Claimed(rows[r].phase))
    BY <1>2, <1>3, ReportReply
  <1> HIDE DEF code
  <1>5. CASE code = "changed"
    <2>1. PICK ts \in Timestamps : Finish(r, b.fence, b.report, ts)
      BY <1>1, <1>5
    <2>2. ts \in Nat
      BY StoreAssumption
    <2>3. b.fence \in 1..Len(claims) /\ b.report \in Report
      BY <1>2, <1>3 DEF IInv, FenceColumn, Reportable
    <2>4. FinishMove(r) /\ \A q \in Requests \ {r} : Stays(q)
      BY <1>2, <1>3, <2>1, <2>2, <2>3, FinishStep
    <2>5. IsTerminal(rows'[r].phase) /\ rows'[r].fence = rows[r].fence
      BY <1>2, <2>4, FinishEnds DEF FinishMove, IsTerminal
    <2>6. RecordsFinish(rows'[r], b.report)
      BY <1>2, <1>3, <1>4, <1>5, <2>1, <2>2, <2>3, FinishRecorded
    <2>7. Transaction(r)
      BY <1>2, <2>1, <2>3, <2>4 DEF Transaction, Next, Stays, Finish
    <2> QED
      BY <1>1, <1>4, <1>5, <2>5, <2>6, <2>7 DEF Served, ReplyCodes
  <1>6. CASE code # "changed"
    <2>1. UNCHANGED vars /\ rows'[r] = rows[r]
      BY <1>1, <1>6 DEF vars
    <2>2. IsTerminal(rows[r].phase)
      BY <1>2, <1>4, <1>6 DEF Reportable
    <2> QED
      BY <1>1, <1>4, <1>6, <2>1, <2>2, StutterTransaction DEF Served, ReplyCodes
  <1> QED
    BY <1>5, <1>6

\* Whoever cancels a claimed attempt is told that the cancel is committed.
LEMMA CancelReplies ==
    ASSUME IInv, NEW r \in Requests, r \notin defective
    PROVE  /\ CancelReply(r) \in ReplyCodes
           /\ rows[r].phase = "cancel_requested" => CancelReply(r) = "unchanged"
  BY DEF CancelReply, EdgeReply, CancelEdge, Changed, Unchanged, Refused, Load, Exists, ReplyCodes

LEMMA ServedCancel ==
    ASSUME ServiceInv, ServeCancel
    PROVE  LET b == Head(queue).body
           IN  \E code \in ReplyCodes :
                 /\ Transaction(b.request) /\ AnswerHead(code)
                 /\ Served(b, rows[b.request], rows'[b.request], code)
  <1> DEFINE b == Head(queue).body
             r == b.request
             code == CancelReply(r)
  <1>1. /\ open /\ queue # << >> /\ b.op \in {"cancel", "abort"} /\ AnswerHead(code)
        /\ IF code = "changed" THEN \E ts \in Timestamps : Cancel(r, ts) ELSE UNCHANGED vars
    BY DEF ServeCancel, AtHead
  <1>2. r \in Requests /\ r \notin defective
    BY <1>1, OrderAtHead
  <1>3. IInv /\ TypeOK
    BY DEF ServiceInv, IInv
  <1>4. code \in ReplyCodes /\ (rows[r].phase = "cancel_requested" => Accepted(code))
    BY <1>2, <1>3, CancelReplies DEF Accepted
  <1> HIDE DEF code
  <1>5. CASE code = "changed"
    <2>1. PICK ts \in Timestamps : Cancel(r, ts)
      BY <1>1, <1>5
    <2>2. ts \in Nat
      BY StoreAssumption
    <2>3. CancelMove(r) /\ \A q \in Requests \ {r} : Stays(q)
      BY <1>2, <1>3, <2>1, <2>2, CancelStep
    <2>4. \/ /\ rows[r].phase = "running" /\ rows'[r].phase = "cancel_requested"
             /\ rows'[r].fence = rows[r].fence
          \/ rows[r].phase \in {"admitted", "recovery_pending"} /\ rows'[r].phase = "cancelled"
      BY <2>3 DEF CancelMove
    <2>5. Transaction(r)
      BY <1>2, <2>1, <2>3 DEF Transaction, Next, Stays, Cancel
    <2> QED
      BY <1>1, <1>4, <1>5, <2>4, <2>5 DEF Served
  <1>6. CASE code # "changed"
    <2>1. UNCHANGED vars /\ rows'[r] = rows[r]
      BY <1>1, <1>6 DEF vars
    <2> QED
      BY <1>1, <1>4, <2>1, StutterTransaction DEF Served
  <1> QED
    BY <1>5, <1>6

LEMMA ServedOrder ==
    ASSUME ServiceInv, Serve
    PROVE  /\ open /\ queue # << >>
           /\ LET b == Head(queue).body
              IN  \E code \in ReplyCodes :
                    /\ Transaction(b.request) /\ AnswerHead(code)
                    /\ Served(b, rows[b.request], rows'[b.request], code)
  <1>1. open /\ queue # << >>
    BY DEF Serve, ServeAdmit, ServeClaim, ServeFinish, ServeCancel, AtHead
  <1> QED
    BY <1>1, ServedAdmit, ServedClaim, ServedFinish, ServedCancel DEF Serve

\* The order leaves the queue, and its caller, if it still waits, is told.
LEMMA AnswerFacts ==
    ASSUME ServiceInv, queue # << >>, NEW code \in ReplyCodes, AnswerHead(code), TypeOK'
    PROVE  LET m == queue[1]
           IN  /\ queue' \in Seq(Messages) /\ Len(queue') = Len(queue) - 1
               /\ \A i \in 1..Len(queue') : i + 1 \in 1..Len(queue) /\ queue'[i] = queue[i + 1]
               /\ calls' \in [Callers -> CallRecords]
               /\ \A c \in Callers : /\ calls'[c].body = calls[c].body
                                     /\ calls'[c].tries = calls[c].tries
                                     /\ calls'[c] = calls[c] \/ (c = m.caller /\ m.awaited)
               /\ m.awaited =>
                     /\ calls[m.caller].state = "waiting" /\ calls[m.caller].body = m.body
                     /\ calls'[m.caller].state = "answered"
                     /\ calls'[m.caller].answer.code = code
                     /\ calls'[m.caller].answer.phase = rows'[m.body.request].phase
                     /\ calls'[m.caller].answer.fence = rows'[m.body.request].fence
                     /\ \A j \in 1..Len(queue') : queue'[j].caller # m.caller
               /\ UNCHANGED <<accepting, pc, signal, fences, procs, lapsed>>
  <1> DEFINE m == queue[1]
             answer == [code |-> code, phase |-> rows'[m.body.request].phase,
                        fence |-> rows'[m.body.request].fence]
  <1>1. Head(queue) = m /\ m \in Messages /\ 1 \in 1..Len(queue) /\ m.body.request \in Requests
    BY OrderAtHead
  <1>2. /\ queue' \in Seq(Messages) /\ Len(queue') = Len(queue) - 1
        /\ \A i \in 1..Len(queue') : i + 1 \in 1..Len(queue) /\ queue'[i] = queue[i + 1]
    BY TailFacts DEF AnswerHead, ServiceInv, ServiceTypeOK
  <1>3. calls \in [Callers -> CallRecords] /\ m.caller \in Callers
    BY <1>1 DEF ServiceInv, ServiceTypeOK, Messages
  <1>4. /\ calls' = (IF m.awaited
                     THEN [calls EXCEPT ![m.caller].state = "answered",
                                        ![m.caller].answer = answer]
                     ELSE calls)
        /\ UNCHANGED <<accepting, pc, signal, fences, procs, lapsed>>
    BY <1>1 DEF AnswerHead
  <1>5. answer \in Answers
    <2>1. rows'[m.body.request] \in Row
      BY <1>1 DEF TypeOK
    <2>2. /\ rows'[m.body.request].phase \in DispatchPhases \cup {"absent"}
          /\ rows'[m.body.request].fence \in Nat
      BY <2>1 DEF Row
    <2> QED
      BY <2>2 DEF Answers
  <1>6. /\ answer.code = code /\ answer.phase = rows'[m.body.request].phase
        /\ answer.fence = rows'[m.body.request].fence
    OBVIOUS
  <1> HIDE DEF answer, m
  <1>7. /\ calls' \in [Callers -> CallRecords]
        /\ \A c \in Callers : /\ calls'[c].body = calls[c].body
                              /\ calls'[c].tries = calls[c].tries
                              /\ calls'[c] = calls[c] \/ (c = m.caller /\ m.awaited)
        /\ m.awaited => /\ calls'[m.caller].state = "answered"
                        /\ calls'[m.caller].answer = answer
    BY <1>3, <1>4, <1>5 DEF CallRecords
  <1>8. m.awaited => /\ calls[m.caller].state = "waiting" /\ calls[m.caller].body = m.body
                     /\ \A j \in 1..Len(queue) : j > 1 => queue[j].caller # m.caller
    BY <1>1 DEF ServiceInv, AwaitedLast, m
  <1>9. Len(queue) \in Nat /\ Len(queue') \in Nat /\ \A j \in 1..Len(queue') : j + 1 > 1
    BY <1>2 DEF ServiceInv, ServiceTypeOK
  <1>10. m.awaited => \A j \in 1..Len(queue') : queue'[j].caller # m.caller
    BY <1>2, <1>8, <1>9
  <1> QED
    BY <1>2, <1>4, <1>6, <1>7, <1>8, <1>10 DEF m

LEMMA ServeKeepsInv ==
    ASSUME ServiceInv, Serve
    PROVE  ServiceInv'
  <1> DEFINE m == queue[1]
             r == m.body.request
  <1>0. open /\ queue # << >> /\ Head(queue) = m
    BY ServedOrder, OrderAtHead
  <1>2. PICK code \in ReplyCodes : /\ Transaction(r) /\ AnswerHead(code)
                                   /\ Served(m.body, rows[r], rows'[r], code)
    BY <1>0, ServedOrder
  <1>a. [AnyClockNext]_vars /\ TypeOK
    BY <1>2, ClockReadings DEF Transaction, ServiceInv, IInv
  <1>b. IInv'
    BY <1>a, StepIInv DEF ServiceInv
  <1>c. \A f \in 1..Len(claims) : f \in 1..Len(claims') /\ claims'[f] = claims[f]
    BY <1>a, ClaimsGrow
  <1>1. IInv' /\ defective' = {} /\ EpochsPast'
    <2>1. \/ claims' = claims
          \/ \E q \in Requests : claims' = Append(claims, [request |-> q, epoch |-> epoch])
      BY <1>a, Shape
    <2>2. claims \in Seq([request : Requests, epoch : Nat]) /\ epoch \in Nat
      BY <1>a DEF TypeOK
    <2>3. ASSUME NEW q \in Requests, claims' = Append(claims, [request |-> q, epoch |-> epoch]),
                 NEW f \in 1..Len(claims')
          PROVE  claims'[f].epoch <= epoch
      <3>1. /\ Len(claims') = Len(claims) + 1 /\ Len(claims) \in Nat
            /\ claims'[Len(claims) + 1] = [request |-> q, epoch |-> epoch]
        BY <2>2, <2>3
      <3>2. CASE f \in 1..Len(claims)
        BY <1>c, <3>2 DEF ServiceInv, EpochsPast
      <3>3. CASE f = Len(claims) + 1
        BY <2>2, <3>1, <3>3
      <3> QED
        BY <3>1, <3>2, <3>3
    <2>4. EpochsPast'
      BY <1>2, <2>1, <2>3 DEF ServiceInv, EpochsPast, Transaction
    <2> QED
      BY <1>2, <1>b, <2>4 DEF Transaction, ServiceInv
  <1>3. m = queue[1] /\ 1 \in 1..Len(queue) /\ r = m.body.request /\ r \in Requests
    BY <1>0, OrderAtHead
  <1> HIDE DEF m, r
  <1>4. /\ open /\ open' = open /\ epoch' = epoch
        /\ \A q \in Requests : q # r => rows'[q] = rows[q]
    BY <1>0, <1>2 DEF Transaction
  <1>5. Served(m.body, rows[r], rows'[r], code)
    BY <1>2
  <1>6. /\ queue' \in Seq(Messages) /\ Len(queue') = Len(queue) - 1
        /\ Len(queue) \in Nat /\ Len(queue') \in Nat
        /\ \A i \in 1..Len(queue') : i + 1 \in 1..Len(queue) /\ queue'[i] = queue[i + 1]
    BY <1>0, <1>2, <1>b, AnswerFacts DEF IInv, ServiceInv, ServiceTypeOK
  <1>7. /\ calls' \in [Callers -> CallRecords]
        /\ \A c \in Callers : /\ calls'[c].body = calls[c].body
                              /\ calls'[c].tries = calls[c].tries
                              /\ calls'[c] = calls[c] \/ (c = m.caller /\ m.awaited)
        /\ m.awaited =>
              /\ calls[m.caller].state = "waiting" /\ calls[m.caller].body = m.body
              /\ calls'[m.caller].state = "answered"
              /\ calls'[m.caller].answer.code = code
              /\ calls'[m.caller].answer.phase = rows'[r].phase
              /\ calls'[m.caller].answer.fence = rows'[r].fence
              /\ \A j \in 1..Len(queue') : queue'[j].caller # m.caller
    BY <1>0, <1>2, <1>3, <1>b, AnswerFacts DEF IInv
  <1>8. UNCHANGED <<accepting, pc, signal, fences, procs, lapsed>>
    BY <1>2 DEF AnswerHead
  <1>9. \A q \in Requests :
           /\ Claimant(q) => Claimant(q)'
           /\ Claimant(q)' => Claimant(q) \/ (q = r /\ m.body.op = "claim" /\ code = "changed")
    <2> SUFFICES ASSUME NEW q \in Requests
                 PROVE  /\ Claimant(q) => Claimant(q)'
                        /\ Claimant(q)' =>
                              Claimant(q) \/ (q = r /\ m.body.op = "claim" /\ code = "changed")
      OBVIOUS
    <2>1. CASE calls'[q] = calls[q]
      BY <1>8, <2>1 DEF Claimant, ClaimLearnt
    <2>2. CASE calls'[q] # calls[q]
      <3>1. q = m.caller /\ m.awaited
        BY <1>7, <2>2, CallerKinds
      <3>2. calls[q].state = "waiting" /\ calls[q].body = m.body /\ calls'[q].body = m.body
            /\ calls'[q].answer.code = code /\ r = q
        BY <1>3, <1>7, <3>1, CallerKinds DEF ServiceInv, OrdersValid, ValidOrder
      <3> QED
        BY <1>8, <3>2 DEF Claimant, ClaimLearnt
    <2> QED
      BY <2>1, <2>2
  <1>10. ServiceTypeOK'
    BY <1>4, <1>6, <1>7, <1>8, CallerKinds, <1>c DEF ServiceInv, ServiceTypeOK
  <1>11. OrdersValid'
    <2>1. ASSUME NEW c, NEW b, ValidOrder(c, b, rows[b.request], accepting),
                 b.op = "finish" /\ b.request = r /\ m.body.op = "finish" => b = m.body
          PROVE  ValidOrder(c, b, rows'[b.request], accepting)
      <3>1. CASE b.request # r \/ rows'[r] = rows[r] \/ b.op # "finish"
        BY <1>4, <2>1, <3>1 DEF ValidOrder
      <3>2. CASE b.request = r /\ b.op = "finish" /\ rows'[r] # rows[r]
        <4>1. Reportable(b, rows[r])
          BY <2>1, <3>2 DEF ValidOrder
        <4>2. Reportable(b, rows'[r])
          BY <1>5, <2>1, <3>2, <4>1
             DEF Served, Reportable, Claimed, IsTerminal, TerminalPhases
        <4> QED
          BY <2>1, <3>2, <4>2 DEF ValidOrder
      <3> QED
        BY <3>1, <3>2
    <2>2. \A i \in 1..Len(queue) :
            /\ ValidOrder(queue[i].caller, queue[i].body, rows[queue[i].body.request], accepting)
            /\ queue[i].body.op = "finish" /\ queue[i].body.request = r
               /\ m.body.op = "finish" => queue[i].body = m.body
      BY <1>3 DEF ServiceInv, OrdersValid, OneReport
    <2>3. \A i \in 1..Len(queue) :
            ValidOrder(queue[i].caller, queue[i].body, rows'[queue[i].body.request], accepting)
      BY <2>1, <2>2
    <2>4. \A c \in Callers : calls[c].state # "idle" =>
            /\ ValidOrder(c, calls[c].body, rows[calls[c].body.request], accepting)
            /\ calls[c].body.op = "finish" /\ calls[c].body.request = r
               /\ m.body.op = "finish" => calls[c].body = m.body
      BY <1>3, OrderFacts DEF ServiceInv, OrdersValid, OneReport, InCall
    <2>5. \A c \in Callers : calls[c].state # "idle" =>
            ValidOrder(c, calls[c].body, rows'[calls[c].body.request], accepting)
      BY <2>1, <2>4
    <2>6. \A c \in Callers : calls'[c].state # "idle" => calls[c].state # "idle"
      BY <1>7
    <2> QED
      BY <1>6, <1>7, <1>8, <2>3, <2>5, <2>6 DEF OrdersValid, InCall
  <1>12. OneReport'
    <2>1. \A c \in Requests : calls'[c].state # "idle" => InCall(c) /\ calls'[c].body = calls[c].body
      BY <1>7, CallerKinds DEF InCall
    <2>2. \A i, j \in 1..Len(queue') :
            /\ queue'[i].body.op = "finish" /\ queue'[j].body.op = "finish"
            /\ queue'[i].body.request = queue'[j].body.request
            => queue'[i].body = queue'[j].body
      <3> SUFFICES ASSUME NEW i \in 1..Len(queue'), NEW j \in 1..Len(queue'),
                          queue'[i].body.op = "finish", queue'[j].body.op = "finish",
                          queue'[i].body.request = queue'[j].body.request
                   PROVE  queue'[i].body = queue'[j].body
        OBVIOUS
      <3>1. /\ i + 1 \in 1..Len(queue) /\ queue'[i] = queue[i + 1]
            /\ j + 1 \in 1..Len(queue) /\ queue'[j] = queue[j + 1]
        BY <1>6
      <3> QED
        BY <3>1 DEF ServiceInv, OneReport
    <2>3. \A i \in 1..Len(queue') : \A q \in Requests :
            /\ queue'[i].body.op = "finish" /\ queue'[i].body.request = q
            /\ calls'[q].state # "idle" /\ calls'[q].body.op = "finish"
            => queue'[i].body = calls'[q].body
      <3> SUFFICES ASSUME NEW i \in 1..Len(queue'), NEW q \in Requests,
                          queue'[i].body.op = "finish", queue'[i].body.request = q,
                          calls'[q].state # "idle", calls'[q].body.op = "finish"
                   PROVE  queue'[i].body = calls'[q].body
        OBVIOUS
      <3>1. i + 1 \in 1..Len(queue) /\ queue'[i] = queue[i + 1]
        BY <1>6
      <3> QED
        BY <2>1, <3>1 DEF ServiceInv, OneReport
    <2> QED
      BY <2>2, <2>3 DEF OneReport, InCall
  <1>13. TaskCalls'
    <2>1. \A c \in Callers :
            /\ calls'[c].state = "idle" => calls'[c] = calls[c]
            /\ calls'[c].state = "orphan" => calls'[c] = calls[c]
            /\ calls'[c].state # "idle" <=> calls[c].state # "idle"
            /\ calls'[c].state # "orphan" => calls[c].state # "orphan"
            /\ calls'[c].body = calls[c].body
      BY <1>7
    <2> QED
      BY <1>8, <2>1, CallerKinds DEF ServiceInv, TaskCalls, InCall
  <1>14. AwaitedLast'
    <2> SUFFICES ASSUME NEW i \in 1..Len(queue'), queue'[i].awaited
                 PROVE  /\ calls'[queue'[i].caller].state = "waiting"
                        /\ calls'[queue'[i].caller].body = queue'[i].body
                        /\ \A j \in 1..Len(queue') : j > i => queue'[j].caller # queue'[i].caller
      BY DEF AwaitedLast
    <2>1. /\ i + 1 \in 1..Len(queue) /\ queue'[i] = queue[i + 1]
          /\ queue[i + 1].caller \in Callers
      BY <1>6, OrderFacts
    <2>2. /\ calls[queue'[i].caller].state = "waiting"
          /\ calls[queue'[i].caller].body = queue'[i].body
          /\ \A j \in 1..Len(queue) : j > i + 1 => queue[j].caller # queue'[i].caller
      BY <2>1 DEF ServiceInv, AwaitedLast
    <2>3. calls'[queue'[i].caller] = calls[queue'[i].caller]
      BY <1>7, <2>1
    <2>4. \A j \in 1..Len(queue') : j > i => queue'[j].caller # queue'[i].caller
      <3>1. \A j \in 1..Len(queue') : j > i => j + 1 > i + 1
        BY <1>6
      <3> QED
        BY <1>6, <2>2, <3>1
    <2> QED
      BY <2>2, <2>3, <2>4
  <1>15. ClaimHeld'
    <2> SUFFICES ASSUME NEW q \in Requests
                 PROVE  /\ Claimant(q)' => Claimed(rows'[q].phase) /\ ~FinishQueued(q)'
                        /\ pc'[q] \in {"claimed", "running"} => fences'[q] = rows'[q].fence
                        /\ ClaimLearnt(q)' => calls'[q].answer.fence = rows'[q].fence
      BY DEF ClaimHeld
    <2>1. FinishQueued(q)' => FinishQueued(q)
      BY <1>6 DEF FinishQueued
    <2>2. CASE Claimant(q)
      <3>1. Claimed(rows[q].phase) /\ ~FinishQueued(q)
        BY <2>2 DEF ServiceInv, ClaimHeld
      <3>2. Claimed(rows'[q].phase) /\ rows'[q].fence = rows[q].fence
        <4>1. CASE q # r \/ rows'[r] = rows[r]
          BY <1>4, <3>1, <4>1
        <4>2. CASE q = r /\ m.body.op = "finish"
          BY <1>3, <3>1, <4>2 DEF FinishQueued
        <4>3. CASE q = r /\ m.body.op # "finish" /\ rows'[r] # rows[r]
          BY <1>5, <3>1, <4>3 DEF Served, Claimed
        <4> QED
          BY <4>1, <4>2, <4>3
      <3>3. ClaimLearnt(q)' => ClaimLearnt(q) /\ calls'[q] = calls[q]
        <4>1. CASE calls'[q] = calls[q]
          BY <4>1 DEF ClaimLearnt
        <4>2. CASE calls'[q] # calls[q]
          <5>1. q = m.caller /\ m.awaited /\ calls[q].body = m.body
            BY <1>7, <4>2, CallerKinds
          <5>2. ASSUME ClaimLearnt(q)' PROVE m.body.op = "claim" /\ code = "changed" /\ q = r
            BY <1>3, <1>7, <5>1, <5>2, CallerKinds, OrderFacts DEF ClaimLearnt
          <5>3. ASSUME ClaimLearnt(q)' PROVE rows[r].phase = "admitted"
            BY <1>5, <5>2, <5>3 DEF Served
          <5> QED
            BY <3>1, <5>2, <5>3 DEF Claimed
        <4> QED
          BY <4>1, <4>2
      <3> QED
        BY <1>8, <2>1, <2>2, <3>1, <3>2, <3>3 DEF ServiceInv, ClaimHeld
    <2>3. CASE ~Claimant(q) /\ Claimant(q)'
      <3>1. ClaimLearnt(q)' /\ ~ClaimLearnt(q) /\ pc'[q] \notin {"claimed", "running"}
        BY <1>8, <2>3 DEF Claimant
      <3>2. /\ q = m.caller /\ m.awaited /\ m.body.op = "claim" /\ code = "changed"
            /\ q = r /\ calls'[q].answer.fence = rows'[r].fence
        <4>1. calls'[q] # calls[q]
          BY <3>1 DEF ClaimLearnt
        <4>2. q = m.caller /\ m.awaited
          BY <1>7, <4>1, CallerKinds
        <4> QED
          BY <1>3, <1>7, <3>1, <4>2, CallerKinds, OrderFacts DEF ClaimLearnt
      <3>3. rows[r].phase = "admitted" /\ rows'[r].phase = "running"
        BY <1>5, <3>2 DEF Served
      <3>4. ~FinishQueued(r)
        BY <3>3 DEF FinishQueued, ServiceInv, OrdersValid, ValidOrder, Reportable,
                    Claimed, IsTerminal, TerminalPhases
      <3> QED
        BY <2>1, <3>1, <3>2, <3>3, <3>4 DEF Claimed
    <2>4. CASE ~Claimant(q)'
      BY <2>4 DEF Claimant
    <2> QED
      BY <2>2, <2>3, <2>4
  <1>16. TriesBounded'
    BY <1>4, <1>6, <1>7, <1>8, CallerKinds DEF ServiceInv, TriesBounded
  <1>17. LostClaims'
    BY <1>6, <1>8 DEF ServiceInv, LostClaims
  <1>18. Supervised'
    <2> SUFFICES ASSUME NEW q \in Requests, open, accepting, Claimed(rows'[q].phase)
                 PROVE  \/ Claimant(q)' \/ pc[q] = "finishing"
                        \/ <<"claim", q>> \in lapsed \/ <<"finish", q>> \in lapsed
      BY <1>4, <1>8 DEF Supervised
    <2>1. CASE Claimed(rows[q].phase)
      BY <1>9, <2>1 DEF ServiceInv, Supervised
    <2>2. CASE ~Claimed(rows[q].phase)
      <3>1. q = r /\ m.body.op = "claim" /\ code = "changed"
        BY <1>4, <1>5, <2>2 DEF Served, Claimed, IsTerminal, TerminalPhases
      <3>2. m.caller = r /\ calls'[r].body = calls[r].body /\ m.awaited \in BOOLEAN
        BY <1>3, <1>7, <3>1, OrderFacts, CallerKinds
      <3>3. CASE m.awaited
        BY <1>7, <3>1, <3>2, <3>3 DEF Claimant, ClaimLearnt
      <3>4. CASE ~m.awaited
        BY <1>3, <3>1, <3>4 DEF ServiceInv, LostClaims
      <3> QED
        BY <3>3, <3>4
    <2> QED
      BY <2>1, <2>2
  <1>19. FinishKnown'
    <2> SUFFICES ASSUME NEW q \in Requests, calls'[q].state = "answered",
                        calls'[q].body.op = "finish"
                 PROVE  IsTerminal(rows'[q].phase) \/ <<"finish", q>> \in lapsed
      BY <1>8 DEF FinishKnown
    <2>1. CASE calls'[q] = calls[q]
      <3>1. IsTerminal(rows[q].phase) \/ <<"finish", q>> \in lapsed
        BY <2>1 DEF ServiceInv, FinishKnown
      <3>2. IsTerminal(rows[q].phase) => rows'[q] = rows[q]
        BY <1>4, <1>5 DEF Served, Claimed, IsTerminal, TerminalPhases
      <3> QED
        BY <3>1, <3>2
    <2>2. CASE calls'[q] # calls[q]
      <3>1. q = m.caller /\ m.awaited
        BY <1>7, <2>2, CallerKinds
      <3>2. q = r /\ m.body.op = "finish"
        BY <1>3, <1>7, <3>1, CallerKinds, OrderFacts
      <3> QED
        BY <1>5, <3>2 DEF Served
    <2> QED
      BY <2>1, <2>2
  <1>20. LateCancels'
    <2> SUFFICES ASSUME NEW i \in 1..Len(queue'), queue'[i].body.op = "cancel",
                        ~queue'[i].awaited
                 PROVE  \/ <<"cancel", queue'[i].body.request>> \in lapsed
                        \/ /\ calls'[queue'[i].caller].state \in {"ready", "waiting"}
                           /\ calls'[queue'[i].caller].body = queue'[i].body
      BY <1>8 DEF LateCancels
    <2>1. /\ i + 1 \in 1..Len(queue) /\ queue'[i] = queue[i + 1]
          /\ queue[i + 1].caller \in Callers
      BY <1>6, OrderFacts
    <2>2. \/ <<"cancel", queue'[i].body.request>> \in lapsed
          \/ /\ calls[queue'[i].caller].state \in {"ready", "waiting"}
             /\ calls[queue'[i].caller].body = queue'[i].body
      BY <2>1 DEF ServiceInv, LateCancels
    <2>3. calls'[queue'[i].caller] = calls[queue'[i].caller]
      BY <1>7, <2>1
    <2> QED
      BY <2>2, <2>3
  <1>21. CancelHeard'
    <2> SUFFICES ASSUME NEW q \in Requests, rows'[q].phase = "cancel_requested", Claimant(q)'
                 PROVE  \/ signal[q] \/ <<"cancel", q>> \in lapsed
                        \/ \E c \in Clients : WillSignal(c, q)'
      BY <1>8 DEF CancelHeard
    <2>1. Claimant(q)
      BY <1>5, <1>9 DEF Served
    <2>2. ASSUME NEW c \in Clients, WillSignal(c, q),
                 q = r /\ m.body.op = "cancel" => Accepted(code)
          PROVE  WillSignal(c, q)'
      <3>1. CASE calls'[c] = calls[c]
        BY <2>2, <3>1 DEF WillSignal
      <3>2. CASE calls'[c] # calls[c]
        <4>1. c = m.caller /\ m.awaited
          BY <1>7, <3>2, CallerKinds
        <4>2. /\ calls'[c].body = m.body /\ calls[c].body = m.body
              /\ calls'[c].state = "answered" /\ calls'[c].answer.code = code
              /\ calls'[c].answer.phase = rows'[r].phase
          BY <1>3, <1>7, <4>1, CallerKinds
        <4>3. q = r /\ m.body.op = "cancel"
          BY <1>3, <2>2, <4>2 DEF WillSignal
        <4> QED
          BY <1>3, <2>2, <4>2, <4>3 DEF WillSignal
      <3> QED
        BY <3>1, <3>2
    <2>3. CASE rows[q].phase = "cancel_requested"
      <3>1. q = r /\ m.body.op = "cancel" => Accepted(code)
        BY <1>5, <2>3 DEF Served, Claimed, Accepted
      <3>2. \/ signal[q] \/ <<"cancel", q>> \in lapsed
            \/ \E c \in Clients : WillSignal(c, q)
        BY <2>1, <2>3 DEF ServiceInv, CancelHeard
      <3> QED
        BY <2>2, <3>1, <3>2
    <2>4. CASE rows[q].phase # "cancel_requested"
      <3>1. q = r /\ m.body.op \in {"cancel", "abort"} /\ code = "changed"
        BY <1>4, <1>5, <2>4 DEF Served, IsTerminal, TerminalPhases
      <3>2. m.caller \in Clients /\ m.caller \in Callers /\ m.awaited \in BOOLEAN
        BY <1>3, <3>1, OrderFacts
      <3>3. CASE m.body.op = "abort"
        <4>1. ~accepting
          BY <1>3, <3>3 DEF ServiceInv, OrdersValid, ValidOrder
        <4>2. pc[q] # "none"
          BY <2>1, CallerKinds DEF Claimant, ClaimLearnt, ServiceInv, TaskCalls, InCall
        <4> QED
          BY <1>4, <4>1, <4>2 DEF ServiceInv, ShutdownSignalsAll, Registered
      <3>4. CASE m.body.op = "cancel" /\ m.awaited
        <4>1. PICK c \in Clients : c = m.caller
          BY <3>2
        <4>2. /\ calls'[c].body = m.body /\ calls'[c].state = "answered"
              /\ calls'[c].answer.code = code /\ calls'[c].answer.phase = rows'[r].phase
          BY <1>3, <1>7, <3>2, <3>4, <4>1
        <4>3. WillSignal(c, q)'
          BY <1>3, <3>1, <3>4, <4>2 DEF WillSignal, Accepted
        <4> QED
          BY <4>3
      <3>5. CASE m.body.op = "cancel" /\ ~m.awaited
        <4>1. \/ <<"cancel", r>> \in lapsed
              \/ /\ calls[m.caller].state \in {"ready", "waiting"}
                 /\ calls[m.caller].body = m.body
          BY <1>3, <3>5 DEF ServiceInv, LateCancels
        <4>2. CASE /\ calls[m.caller].state \in {"ready", "waiting"}
                   /\ calls[m.caller].body = m.body
          <5>1. WillSignal(m.caller, q)
            BY <1>3, <3>1, <3>5, <4>2 DEF WillSignal
          <5> QED
            BY <2>2, <3>1, <3>2, <5>1 DEF Accepted
        <4> QED
          BY <3>1, <4>1, <4>2
      <3> QED
        BY <3>1, <3>2, <3>3, <3>4, <3>5
    <2> QED
      BY <2>3, <2>4
  <1>22. ClosedEmpty'
    BY <1>4, <1>6, <1>7, <1>8, CallerKinds DEF ServiceInv, ClosedEmpty
  <1>23. ShutdownSignalsAll'
    BY <1>4, <1>6, <1>7, <1>8, CallerKinds DEF ServiceInv, ShutdownSignalsAll, Registered
  <1>24. ProcessSupervised'
    BY <1>4, <1>6, <1>7, <1>8, CallerKinds, <1>c, ClaimFacts DEF ServiceInv, ProcessSupervised
  <1> QED
    BY <1>1, <1>10, <1>11, <1>12, <1>13, <1>14, <1>15, <1>16, <1>17, <1>18, <1>19, <1>20, <1>21, <1>22, <1>23, <1>24 DEF ServiceInv

----------------------------------------------------------------------------
(* The service.                                                            *)

LEMMA ServiceInitInv == ServiceInit => ServiceInv
  <1> SUFFICES ASSUME ServiceInit PROVE ServiceInv
    OBVIOUS
  <1>1. IInv /\ defective = {} /\ ~open /\ claims = << >>
    BY InitIInv DEF ServiceInit, Init
  <1>2. /\ queue = << >> /\ Len(queue) = 0 /\ Len(claims) = 0 /\ procs = {} /\ MaxRetries \in Nat
        /\ accepting = FALSE
    BY <1>1, ServiceAssumption DEF ServiceInit
  <1>3. \A c \in Callers : /\ calls[c] = Idle /\ calls[c].state = "idle"
                           /\ calls[c].body.op = "none" /\ calls[c].tries = 0
    BY IdleFacts DEF ServiceInit
  <1>4. \A r \in Requests : pc[r] = "none" /\ calls[r].state = "idle"
    BY <1>3, CallerKinds DEF ServiceInit
  <1>5. ServiceTypeOK
    <2>1. << >> \in Seq(Messages) /\ FALSE \in BOOLEAN
      OBVIOUS
    <2>2. /\ calls \in [Callers -> CallRecords] /\ pc \in [Requests -> TaskPcs]
          /\ signal \in [Requests -> BOOLEAN] /\ fences \in [Requests -> Nat]
      BY IdleFacts DEF ServiceInit, TaskPcs, NoFence
    <2> QED
      BY <1>2, <2>1, <2>2 DEF ServiceTypeOK
  <1>6. EpochsPast /\ ClosedEmpty /\ Supervised /\ ProcessSupervised
    BY <1>1, <1>2, <1>3, <1>4 DEF EpochsPast, ClosedEmpty, Supervised, ProcessSupervised
  <1>7. OrdersValid /\ OneReport /\ AwaitedLast /\ LostClaims /\ LateCancels
    BY <1>2, <1>3, CallerKinds
       DEF OrdersValid, OneReport, AwaitedLast, LostClaims, LateCancels, InCall
  <1>8. TaskCalls /\ TriesBounded /\ FinishKnown /\ ShutdownSignalsAll
    BY <1>1, <1>2, <1>3, <1>4, CallerKinds
       DEF TaskCalls, TriesBounded, FinishKnown, ShutdownSignalsAll, InCall
  <1>9. ClaimHeld /\ CancelHeard
    BY <1>2, <1>4 DEF ClaimHeld, CancelHeard, Claimant, ClaimLearnt
  <1> QED
    BY <1>1, <1>5, <1>6, <1>7, <1>8, <1>9 DEF ServiceInv

LEMMA ServiceStutter ==
    ASSUME ServiceInv, UNCHANGED allVars
    PROVE  ServiceInv'
  <1>1. IInv' /\ defective' = {} /\ EpochsPast'
    BY StoreKept DEF allVars
  <1>2. /\ UNCHANGED <<rows, open, claims, epoch>>
        /\ UNCHANGED <<queue, calls, accepting, pc, signal, fences, procs, lapsed>>
    BY DEF allVars, serviceVars, vars
  <1>3. ServiceTypeOK'
    BY <1>2 DEF ServiceInv, ServiceTypeOK
  <1>4. OrdersValid'
    BY <1>2 DEF ServiceInv, OrdersValid, InCall
  <1>5. OneReport'
    BY <1>2 DEF ServiceInv, OneReport, InCall
  <1>6. TaskCalls'
    BY <1>2 DEF ServiceInv, TaskCalls, InCall
  <1>7. AwaitedLast'
    BY <1>2 DEF ServiceInv, AwaitedLast
  <1>8. ClaimHeld'
    BY <1>2 DEF ServiceInv, ClaimHeld, Claimant, ClaimLearnt, FinishQueued
  <1>9. TriesBounded'
    BY <1>2 DEF ServiceInv, TriesBounded
  <1>10. LostClaims'
    BY <1>2 DEF ServiceInv, LostClaims
  <1>11. Supervised'
    BY <1>2 DEF ServiceInv, Supervised, Claimant, ClaimLearnt
  <1>12. FinishKnown'
    BY <1>2 DEF ServiceInv, FinishKnown
  <1>13. LateCancels'
    BY <1>2 DEF ServiceInv, LateCancels
  <1>14. CancelHeard'
    BY <1>2 DEF ServiceInv, CancelHeard, Claimant, ClaimLearnt, WillSignal
  <1>15. ClosedEmpty'
    BY <1>2 DEF ServiceInv, ClosedEmpty
  <1>16. ShutdownSignalsAll'
    BY <1>2 DEF ServiceInv, ShutdownSignalsAll, Registered
  <1>17. ProcessSupervised'
    BY <1>2 DEF ServiceInv, ProcessSupervised
  <1> QED
    BY <1>1, <1>3, <1>4, <1>5, <1>6, <1>7, <1>8, <1>9, <1>10, <1>11, <1>12, <1>13, <1>14, <1>15, <1>16, <1>17 DEF ServiceInv

LEMMA ServiceStepInv == ServiceInv /\ [ServiceNext]_allVars => ServiceInv'
  <1> SUFFICES ASSUME ServiceInv, [ServiceNext]_allVars PROVE ServiceInv'
    OBVIOUS
  <1>1. CASE UNCHANGED allVars
    BY <1>1, ServiceStutter
  <1>2. CASE ServiceNext
    <2>1. CASE \E c \in Clients, r \in Requests, res \in Resources, fp \in Fingerprints :
                 Submit(c, r, res, fp)
      BY <2>1, SubmitKeepsInv
    <2>2. CASE \E c \in Clients, r \in Requests : RequestCancel(c, r)
      BY <2>2, RequestCancelKeepsInv
    <2>3. CASE \E c \in Callers : CallerStep(c) \/ ResponseTimeout(c)
      BY <2>3, CallerStepKeepsInv, ResponseTimeoutKeepsInv
    <2>4. CASE \E r \in Requests : AttemptStep(r)
      BY <2>4, AttemptStepKeepsInv
    <2>5. CASE Serve
      BY <2>5, ServeKeepsInv
    <2>6. CASE BeginShutdown \/ AbortTasks \/ Exit \/ Restart \/ Refresh
      BY <2>6, BeginShutdownKeepsInv, AbortTasksKeepsInv, ExitKeepsInv, RestartKeepsInv,
         RefreshKeepsInv
    <2>7. CASE \E f \in 1..Len(claims) : StrayEnds(f)
      BY <2>7, StrayEndsKeepsInv
    <2> QED
      BY <1>2, <2>1, <2>2, <2>3, <2>4, <2>5, <2>6, <2>7 DEF ServiceNext
  <1> QED
    BY <1>1, <1>2

\* What the service knows of every order on its way holds in every state it
\* reaches.
THEOREM ServiceInvariance == ServiceSpec => []ServiceInv
  BY ServiceInitInv, ServiceStepInv, PTL DEF ServiceSpec

\* Whoever registers an attempt does so before the service stops accepting,
\* and shutdown signals it: launch and begin_shutdown race for one lock.
THEOREM ShutdownMissesNobody == ServiceSpec => []ShutdownSignalsAll
  <1>1. ServiceInv => ShutdownSignalsAll
    BY DEF ServiceInv
  <1> QED BY <1>1, ServiceInvariance, PTL

\* A vendor process of the running daemon whose tree nobody has tried to end
\* has its attempt task in the exchange, through every abort, cancel, failure
\* and restart.  Whether ending it succeeds is left open.
THEOREM ProcessesAreSupervised == ServiceSpec => []ProcessSupervised
  <1>1. ServiceInv => ProcessSupervised
    BY DEF ServiceInv
  <1> QED BY <1>1, ServiceInvariance, PTL

\* The writer accepts every report an executor makes while its daemon lives,
\* first or repeated, cancelled or not.
THEOREM ReportsAreTaken == ServiceSpec => []FinishTaken
  <1>1. ASSUME ServiceInv, NEW i \in 1..Len(queue), queue[i].body.op = "finish"
        PROVE  Accepted(FinishReply(queue[i].body.request, queue[i].body.fence,
                                    queue[i].body.report))
    <2>1. /\ queue[i].body.request \in Requests
          /\ Reportable(queue[i].body, rows[queue[i].body.request])
      BY <1>1 DEF ServiceInv, OrdersValid, ValidOrder
    <2> QED
      BY <1>1, <2>1, ReportReply DEF ServiceInv, Accepted
  <1>2. ServiceInv => FinishTaken
    BY <1>1 DEF FinishTaken
  <1> QED BY <1>2, ServiceInvariance, PTL

\* A row that says its process may run has a task that answers for it, or
\* the service is stopping, or a call was given up.
THEOREM RunningRowsAreSupervised == ServiceSpec => []RunningIsSupervised
  <1>1. ASSUME ServiceInv, NEW r \in Requests, open, accepting, Claimed(rows[r].phase)
        PROVE  \/ pc[r] \in {"claimed", "running", "finishing"} /\ fences[r] = rows[r].fence
               \/ /\ pc[r] = "claiming" /\ calls[r].state = "answered"
                  /\ calls[r].answer.fence = rows[r].fence
               \/ <<"claim", r>> \in lapsed
               \/ <<"finish", r>> \in lapsed
    <2>1. CASE pc[r] \in {"claimed", "running"}
      BY <1>1, <2>1 DEF ServiceInv, ClaimHeld
    <2>2. CASE ClaimLearnt(r)
      <3>1. calls[r].answer.fence = rows[r].fence
        BY <1>1, <2>2 DEF ServiceInv, ClaimHeld
      <3>2. pc[r] = "claiming" /\ calls[r].state = "answered"
        BY <1>1, <2>2, CallerKinds DEF ServiceInv, TaskCalls, InCall, ClaimLearnt
      <3> QED
        BY <3>1, <3>2
    <2>3. CASE pc[r] = "finishing"
      <3>1. InCall(r) /\ calls[r].body.op = "finish" /\ fences[r] = calls[r].body.fence
        BY <1>1, <2>3, CallerKinds DEF ServiceInv, TaskCalls, InCall
      <3>2. calls[r].body.request = r
            /\ Reportable(calls[r].body, rows[calls[r].body.request])
        BY <1>1, <3>1, CallerKinds DEF ServiceInv, OrdersValid, ValidOrder
      <3> QED
        BY <2>3, <3>1, <3>2 DEF Reportable
    <2> QED
      BY <1>1, <2>1, <2>2, <2>3 DEF ServiceInv, Supervised, Claimant
  <1>2. ServiceInv => RunningIsSupervised
    BY <1>1 DEF RunningIsSupervised, Claimed
  <1> QED BY <1>2, ServiceInvariance, PTL

\* A committed cancellation reaches the attempt, whichever of several
\* cancels committed it and however often it was repeated.
THEOREM CancelsReachTheAttempt == ServiceSpec => []CancelSignalled
  <1>1. ASSUME ServiceInv, NEW r \in Requests, rows[r].phase = "cancel_requested",
               pc[r] \in {"claimed", "running"}, ~CancelUnderway(r)
        PROVE  signal[r] \/ <<"cancel", r>> \in lapsed
    <2>1. \/ signal[r] \/ <<"cancel", r>> \in lapsed
          \/ \E c \in Clients : WillSignal(c, r)
      BY <1>1 DEF ServiceInv, CancelHeard, Claimant
    <2>2. ~\E c \in Clients : WillSignal(c, r)
      BY <1>1, IdleFacts DEF CancelUnderway, WillSignal
    <2> QED
      BY <2>1, <2>2
  <1>2. ServiceInv => CancelSignalled
    BY <1>1 DEF CancelSignalled
  <1> QED BY <1>2, ServiceInvariance, PTL

----------------------------------------------------------------------------
(* The service's transactions are the store's.                             *)

LEMMA StoreStep == ServiceInv /\ [ServiceNext]_allVars => [Next]_vars
  <1> SUFFICES ASSUME ServiceInv, [ServiceNext]_allVars, ~UNCHANGED vars PROVE Next
    OBVIOUS
  <1>1. CASE Serve
    <2>1. \E r : Transaction(r)
      BY <1>1, ServedOrder
    <2> QED
      BY <2>1 DEF Transaction
  <1>2. CASE Exit
    BY <1>2 DEF Exit, Next
  <1>3. CASE Restart
    BY <1>3 DEF Restart, Next
  <1>4. CASE Refresh
    BY <1>4, ServiceAssumption DEF Refresh, Next
  <1>5. ASSUME NEW c \in Callers, CallerStep(c) \/ ResponseTimeout(c) PROVE UNCHANGED vars
    BY <1>5 DEF CallerStep, Enqueue, QueueFull, OrphanCall, Launch, AbortReturn, CancelReturn,
                ResponseTimeout
  <1>6. ASSUME NEW r \in Requests, AttemptStep(r) PROVE UNCHANGED vars
    BY <1>6 DEF AttemptStep, ClaimReturn, SkipCancelled, Spawn, SpawnFails, EndExchange,
                FinishReturn, Deregister
  <1> QED
    BY <1>1, <1>2, <1>3, <1>4, <1>5, <1>6
       DEF ServiceNext, allVars, Submit, RequestCancel, BeginShutdown, AbortTasks, StrayEnds

\* The service implements the store: whatever clients, tasks, timeouts and
\* restarts do, the table changes only as HarnessDispatchStore says, and so
\* keeps everything proved of it.
THEOREM ServiceImplementsStore == ServiceSpec => Spec
  <1>1. ServiceInit => Init
    BY DEF ServiceInit
  <1> QED BY <1>1, StoreStep, ServiceInvariance, PTL DEF ServiceSpec, Spec

----------------------------------------------------------------------------
(* The lease on a working directory.                                       *)

\* An attempt is claimed once, and not before it is admitted.
ClaimedOnce ==
    /\ \A f, g \in 1..Len(claims) : claims[f].request = claims[g].request => f = g
    /\ \A f \in 1..Len(claims) : rows[claims[f].request].phase \notin {"absent", "admitted"}

\* An attempt has a directory.
Placed == \A r \in Requests : Exists(r) => rows[r].resource \in Resources

\* A process is astray only after its task has turned to its report, or is
\* gone: no task is about to start one for the same claim.
StraysEnded ==
    /\ strays \subseteq 1..Len(claims)
    /\ \A r \in Requests : Claimant(r) => \A f \in strays : claims[f].request # r

LeaseInv == ClaimedOnce /\ Placed /\ StraysEnded

\* A row that was claimed stays claimed, or beyond, in its directory.
LEMMA RowsGoOn ==
    ASSUME IInv, [AnyClockNext]_vars, NEW r \in Requests
    PROVE  /\ rows[r].phase \notin {"absent", "admitted"} =>
                 rows'[r].phase \notin {"absent", "admitted"}
           /\ Exists(r) => rows'[r].resource = rows[r].resource
  <1>1. RowStep(r)
    BY EveryStep DEF IInv
  <1>2. CASE FinishMove(r)
    BY <1>2, FinishEnds DEF FinishMove, TerminalPhases
  <1>3. CASE ~FinishMove(r)
    BY <1>1, <1>3 DEF RowStep, AdmitMove, ClaimMove, CancelMove, RecoverMove, Stays, Exists
  <1> QED
    BY <1>2, <1>3

LEMMA PlacedStep ==
    ASSUME IInv, Placed, [AnyClockNext]_vars
    PROVE  Placed'
  <1> SUFFICES ASSUME NEW r \in Requests, rows'[r].phase # "absent"
               PROVE  rows'[r].resource \in Resources
    BY DEF Placed, Exists
  <1>1. CASE Exists(r)
    BY <1>1, RowsGoOn DEF Placed
  <1>2. CASE ~Exists(r)
    <2>1. RowStep(r) /\ TypeOK /\ Uncoded
      BY EveryStep DEF IInv
    <2>2. AdmitMove(r) /\ rows'[r] # rows[r]
      BY <1>2, <2>1
         DEF RowStep, ClaimMove, FinishMove, CancelMove, RecoverMove, Stays, Exists, AdmitMove
    <2>3. ASSUME NEW q \in Requests, NEW ts \in Nat, Claim(q, ts) PROVE FALSE
      BY <1>2, <2>1, <2>2, <2>3, ClaimStep DEF ClaimMove, Stays, Exists
    <2>4. ASSUME NEW q \in Requests, NEW fence \in 1..Len(claims), NEW report \in Report,
                 NEW ts \in Nat, Finish(q, fence, report, ts)
          PROVE  FALSE
      BY <1>2, <2>1, <2>2, <2>4, FinishStep DEF FinishMove, Stays, Exists
    <2>5. ASSUME NEW q \in Requests, NEW ts \in Nat, Cancel(q, ts) PROVE FALSE
      BY <1>2, <2>1, <2>2, <2>5, CancelStep DEF CancelMove, Stays, Exists
    <2>6. ASSUME NEW ts \in Nat, Open(ts) PROVE FALSE
      BY <1>2, <2>1, <2>2, <2>6, OpenStep DEF RecoverMove, Stays, Exists
    <2>7. PICK q \in Requests, res \in Resources, fp \in Fingerprints, ts \in Nat :
                 Admit(q, res, fp, ts)
      BY <2>2, <2>3, <2>4, <2>5, <2>6 DEF AnyClockNext, vars, Crash, Detect, Corrupt
    <2>8. q = r
      BY <2>1, <2>2, <2>7, AdmitStep DEF Stays
    <2>9. rows'[r] = AdmittedRow(res, fp, ts)
      BY <2>1, <2>7, <2>8 DEF Admit, Write, TypeOK
    <2> QED
      BY <2>9 DEF AdmittedRow
  <1> QED
    BY <1>1, <1>2

LEMMA ClaimedOnceStep ==
    ASSUME IInv, ClaimedOnce, [AnyClockNext]_vars
    PROVE  ClaimedOnce'
  <1>1. TypeOK /\ claims \in Seq([request : Requests, epoch : Nat]) /\ Len(claims) \in Nat
    BY DEF IInv, TypeOK
  <1>2. \A f \in 1..Len(claims) : claims[f].request \in Requests
    <2>1. ASSUME NEW S, claims \in Seq(S) PROVE \A f \in 1..Len(claims) : claims[f] \in S
      BY <2>1
    <2>2. \A f \in 1..Len(claims) : claims[f] \in [request : Requests, epoch : Nat]
      BY <1>1, <2>1
    <2> QED
      BY <2>2
  <1>3. \A f \in 1..Len(claims) : rows'[claims[f].request].phase \notin {"absent", "admitted"}
    BY <1>2, RowsGoOn DEF ClaimedOnce
  <1>4. CASE claims' = claims
    BY <1>3, <1>4 DEF ClaimedOnce
  <1>5. CASE claims' # claims
    <2>1. PICK q \in Requests, ts \in Nat : Claim(q, ts)
      BY <1>5 DEF AnyClockNext, vars, Admit, Finish, Cancel, Open, Crash, Detect, Corrupt
    <2>2. ClaimMove(q)
      BY <1>1, <2>1, ClaimStep
    <2>3. /\ rows[q].phase = "admitted" /\ rows'[q].phase = "running"
          /\ claims' = Append(claims, [request |-> q, epoch |-> epoch])
      BY <2>2 DEF ClaimMove
    <2>4. \A f \in 1..Len(claims) : claims[f].request # q
      BY <2>3 DEF ClaimedOnce
    <2>5. /\ Len(claims') = Len(claims) + 1
          /\ claims'[Len(claims) + 1].request = q
          /\ \A f \in 1..Len(claims) : claims'[f] = claims[f]
          /\ \A f \in 1..Len(claims') : f \in 1..Len(claims) \/ f = Len(claims) + 1
      BY <1>1, <2>3
    <2> QED
      BY <1>3, <2>3, <2>4, <2>5 DEF ClaimedOnce
  <1> QED
    BY <1>4, <1>5

\* Only the writer's answer to a claim makes a claimant.
LEMMA NoNewClaimant ==
    ASSUME ServiceInv, [ServiceNext]_allVars, ~Serve, NEW q \in Requests, Claimant(q)'
    PROVE  Claimant(q)
  <1>1. CASE UNCHANGED <<pc, calls>>
    BY <1>1 DEF Claimant, ClaimLearnt
  <1>2. calls \in [Callers -> CallRecords] /\ q \in Callers /\ q \notin Clients
        /\ pc \in [Requests -> TaskPcs] /\ calls[q].tries <= MaxRetries
    BY ServiceAssumption DEF ServiceInv, ServiceTypeOK, TriesBounded, Callers
  <1>3. Idle.state = "idle"
    BY IdleFacts
  <1>4. ASSUME NEW c \in Callers, NEW b, calls' = [calls EXCEPT ![c] = Call(b)], UNCHANGED pc
        PROVE  Claimant(q)
    BY <1>2, <1>4 DEF Claimant, ClaimLearnt, Call
  <1>5. ASSUME NEW c \in Callers, calls' = [calls EXCEPT ![c] = Idle], UNCHANGED pc
        PROVE  Claimant(q)
    BY <1>2, <1>3, <1>5 DEF Claimant, ClaimLearnt
  <1>6. ASSUME NEW c \in Callers, Enqueue(c) PROVE Claimant(q)
    BY <1>2, <1>6 DEF Enqueue, Claimant, ClaimLearnt, CallRecords
  <1>7. ASSUME NEW c \in Callers, QueueFull(c) \/ ResponseTimeout(c) PROVE Claimant(q)
    <2>1. PICK code \in {"queue_full", "timeout"} : calls' = [calls EXCEPT ![c] = Retry(@, code)]
      BY <1>7 DEF QueueFull, ResponseTimeout
    <2>2. UNCHANGED pc
      BY <1>7 DEF QueueFull, ResponseTimeout
    <2>3. CASE c # q
      BY <1>2, <2>1, <2>2, <2>3 DEF Claimant, ClaimLearnt
    <2>4. CASE c = q
      <3>1. calls'[q] = Retry(calls[q], code) /\ calls[q] \in CallRecords
        BY <1>2, <2>1, <2>4
      <3>2. calls'[q].state = "ready" \/ calls'[q].answer.code = code
        BY <1>2, <3>1, RetryFacts
      <3> QED
        BY <2>2, <3>2 DEF Claimant, ClaimLearnt
    <2> QED
      BY <2>3, <2>4
  <1>8. ASSUME NEW c \in Callers, CallerStep(c) PROVE Claimant(q)
    <2>1. CASE Launch(c)
      <3> DEFINE r == calls[c].body.request
      <3>1. CASE Register(r) /\ calls' = [calls EXCEPT ![c] = Idle, ![r] = ClaimCall(r)]
        BY <1>2, <1>3, <3>1 DEF Register, Claimant, ClaimLearnt, ClaimCall, Call
      <3>2. CASE UNCHANGED pc /\ calls' = [calls EXCEPT ![c] = AbortCall(r)]
        BY <1>4, <3>2 DEF AbortCall
      <3>3. CASE UNCHANGED pc /\ calls' = [calls EXCEPT ![c] = Idle]
        BY <1>5, <3>3
      <3> QED
        BY <2>1, <3>1, <3>2, <3>3 DEF Launch
    <2>2. CASE OrphanCall(c) \/ AbortReturn(c) \/ CancelReturn(c)
      BY <1>5, <2>2 DEF OrphanCall, AbortReturn, CancelReturn
    <2> QED
      BY <1>6, <1>7, <1>8, <2>1, <2>2 DEF CallerStep
  <1>9. ASSUME NEW r \in Requests, AttemptStep(r) PROVE Claimant(q)
    <2>1. CASE ClaimReturn(r)
      BY <1>2, <1>3, <2>1 DEF ClaimReturn, Answered, Claimant, ClaimLearnt
    <2>2. ASSUME NEW exchange, NEW terminal, NEW process, Finishing(r, exchange, terminal, process)
          PROVE  Claimant(q)
      BY <1>2, <2>2 DEF Finishing, Call, Claimant, ClaimLearnt
    <2>3. CASE SkipCancelled(r) \/ SpawnFails(r) \/ EndExchange(r)
      BY <2>2, <2>3 DEF SkipCancelled, SpawnFails, EndExchange
    <2>4. CASE Spawn(r) \/ Deregister(r)
      BY <1>2, <2>4 DEF Spawn, Deregister, Claimant, ClaimLearnt
    <2>5. CASE FinishReturn(r)
      BY <1>2, <1>3, <2>5 DEF FinishReturn, Claimant, ClaimLearnt
    <2> QED
      BY <1>9, <2>1, <2>3, <2>4, <2>5 DEF AttemptStep
  <1>10. CASE AbortTasks \/ Exit
    <2>1. pc'[q] = "none" /\ calls'[q].state \in {"idle", "orphan"}
      BY <1>2, <1>3, <1>10 DEF AbortTasks, Exit, CallRecords
    <2> QED
      BY <2>1 DEF Claimant, ClaimLearnt
  <1>11. CASE \/ \E c \in Clients, r \in Requests, res \in Resources, fp \in Fingerprints :
                    Submit(c, r, res, fp)
              \/ \E c \in Clients, r \in Requests : RequestCancel(c, r)
    BY <1>4, <1>11 DEF Submit, RequestCancel, Callers
  <1>12. CASE BeginShutdown \/ Restart \/ Refresh \/ UNCHANGED allVars
              \/ \E f \in 1..Len(claims) : StrayEnds(f)
    BY <1>1, <1>12 DEF BeginShutdown, Restart, Refresh, StrayEnds, allVars, serviceVars
  <1> QED
    BY <1>7, <1>8, <1>9, <1>10, <1>11, <1>12 DEF ServiceNext

\* A process goes astray when its task, no claimant any more, ends its tree.
LEMMA NewStrays ==
    ASSUME ServiceInv, ServiceInv', LeaseInv, [ServiceNext]_allVars,
           NEW f \in strays', f \notin strays
    PROVE  f \in procs /\ \A q \in Requests : Claimant(q)' => claims[f].request # q
  <1>1. CASE strays' = strays
    BY <1>1
  <1>2. ASSUME NEW r \in Requests, EndExchange(r)
        PROVE  f \in procs /\ \A q \in Requests : Claimant(q)' => claims[f].request # q
    <2>1. f \in procs /\ f = fences[r] /\ pc[r] = "running" /\ open
      BY <1>2 DEF EndExchange, Terminated
    <2>2. fences[r] = rows[r].fence /\ Claimed(rows[r].phase)
      BY <2>1 DEF ServiceInv, ClaimHeld, Claimant
    <2>3. claims[f].request = r
      BY <2>1, <2>2 DEF ServiceInv, IInv, FenceColumn, Claimed
    <2>4. PICK exchange, terminal, process : Finishing(r, exchange, terminal, process)
      BY <1>2 DEF EndExchange
    <2>5. calls \in [Callers -> CallRecords] /\ r \in Callers /\ pc \in [Requests -> TaskPcs]
      BY DEF ServiceInv, ServiceTypeOK, Callers
    <2>6. ~Claimant(r)'
      BY <2>4, <2>5 DEF Finishing, Call, Claimant, ClaimLearnt
    <2> QED
      BY <2>1, <2>3, <2>6
  <1>3. CASE AbortTasks
    <2>1. f \in procs
      BY <1>3 DEF AbortTasks, Terminated
    <2>2. ASSUME NEW q \in Requests PROVE ~Claimant(q)'
      <3>1. calls \in [Callers -> CallRecords] /\ q \in Callers
        BY DEF ServiceInv, ServiceTypeOK, Callers
      <3>2. pc'[q] = "none" /\ calls'[q].state \in {"idle", "orphan"}
        BY <1>3, <3>1, IdleFacts DEF AbortTasks, CallRecords
      <3> QED
        BY <3>2 DEF Claimant, ClaimLearnt
    <2> QED
      BY <2>1, <2>2
  <1>4. CASE ~AbortTasks /\ ~\E r \in Requests : EndExchange(r)
    <2>1. ASSUME NEW c \in Callers, CallerStep(c) \/ ResponseTimeout(c) PROVE strays' = strays
      BY <2>1 DEF CallerStep, Enqueue, QueueFull, OrphanCall, Launch, AbortReturn, CancelReturn,
                  ResponseTimeout
    <2>2. ASSUME NEW r \in Requests, AttemptStep(r) PROVE strays' = strays
      BY <1>4, <2>2 DEF AttemptStep, ClaimReturn, SkipCancelled, Spawn, SpawnFails, FinishReturn,
                        Deregister
    <2>3. CASE Serve
      BY <1>1, <2>3 DEF Serve, ServeAdmit, ServeClaim, ServeFinish, ServeCancel, AnswerHead
    <2>4. CASE BeginShutdown \/ Exit \/ Restart \/ Refresh \/ UNCHANGED allVars
      BY <1>1, <2>4 DEF BeginShutdown, Exit, Restart, Refresh, serviceVars, allVars
    <2>5. CASE \E g \in 1..Len(claims) : StrayEnds(g)
      BY <2>5 DEF StrayEnds
    <2>6. CASE \/ \E c \in Clients, r \in Requests, res \in Resources, fp \in Fingerprints :
                     Submit(c, r, res, fp)
               \/ \E c \in Clients, r \in Requests : RequestCancel(c, r)
      BY <1>1, <2>6 DEF Submit, RequestCancel
    <2> QED
      BY <1>1, <1>4, <2>1, <2>2, <2>3, <2>4, <2>5, <2>6 DEF ServiceNext
  <1> QED
    BY <1>2, <1>3, <1>4

LEMMA StraysStep ==
    ASSUME ServiceInv, ServiceInv', LeaseInv, [ServiceNext]_allVars
    PROVE  StraysEnded'
  <1>1. [AnyClockNext]_vars /\ IInv
    BY StoreStep, ClockReadings DEF ServiceInv
  <1>2. \A f \in 1..Len(claims) : f \in 1..Len(claims') /\ claims'[f] = claims[f]
    BY <1>1, ClaimsGrow DEF IInv
  <1>3. \A f \in strays' : f \in 1..Len(claims)
    BY NewStrays, ClaimFacts DEF LeaseInv, StraysEnded
  <1>4. ASSUME NEW q \in Requests, Claimant(q)', NEW f \in strays, claims[f].request = q
        PROVE  FALSE
    <2>1. f \in 1..Len(claims) /\ ~Claimant(q)
      BY <1>4 DEF LeaseInv, StraysEnded
    <2>2. Claimant(q)'
      BY <1>4
    <2>3. CASE ~Serve
      BY <2>1, <2>2, <2>3, NoNewClaimant
    <2>4. CASE Serve
      <3>1. PICK code \in ReplyCodes : AnswerHead(code) /\ open /\ queue # << >>
               /\ Served(queue[1].body, rows[queue[1].body.request],
                         rows'[queue[1].body.request], code)
        BY <2>4, ServedOrder, OrderAtHead
      <3>2. queue[1].awaited /\ q = queue[1].caller /\ calls[q].state = "waiting"
            /\ calls'[q].body = queue[1].body /\ calls'[q].answer.code = code
        <4>1. q \in Callers /\ pc' = pc /\ TypeOK'
          BY <2>1, <3>1 DEF Callers, AnswerHead, ServiceInv, IInv
        <4>2. calls'[q] # calls[q]
          BY <2>1, <2>2, <4>1 DEF Claimant, ClaimLearnt
        <4>3. /\ \A c \in Callers : /\ calls'[c].body = calls[c].body
                                    /\ calls'[c] = calls[c] \/ (c = queue[1].caller /\ queue[1].awaited)
              /\ queue[1].awaited => /\ calls[queue[1].caller].state = "waiting"
                                     /\ calls[queue[1].caller].body = queue[1].body
                                     /\ calls'[queue[1].caller].answer.code = code
          BY <3>1, <4>1, AnswerFacts
        <4> QED
          BY <4>1, <4>2, <4>3
      <3>3. queue[1].body.op = "claim" /\ code = "changed"
        BY <2>1, <2>2, <3>1, <3>2 DEF Claimant, ClaimLearnt, AnswerHead
      <3>4. queue[1].body.request = q
        BY <2>1, <3>1, <3>2, OrderAtHead DEF ValidOrder
      <3>5. rows[q].phase = "admitted"
        BY <3>1, <3>3, <3>4 DEF Served
      <3> QED
        BY <1>4, <2>1, <3>5 DEF LeaseInv, ClaimedOnce
    <2> QED
      BY <2>3, <2>4
  <1>5. \A q \in Requests : Claimant(q)' => \A f \in strays' : claims[f].request # q
    BY <1>4, NewStrays
  <1> QED
    BY <1>2, <1>3, <1>5 DEF StraysEnded

LEMMA LeaseInvariant == ServiceSpec => []LeaseInv
  <1>1. ServiceInit => LeaseInv
    BY DEF ServiceInit, Init, LeaseInv, ClaimedOnce, Placed, Exists, NoRow, StraysEnded
  <1>2. ServiceInv /\ LeaseInv /\ [ServiceNext]_allVars => LeaseInv'
    <2> SUFFICES ASSUME ServiceInv, LeaseInv, [ServiceNext]_allVars PROVE LeaseInv'
      OBVIOUS
    <2>1. IInv /\ [AnyClockNext]_vars
      BY StoreStep, ClockReadings DEF ServiceInv
    <2> QED
      BY <2>1, PlacedStep, ClaimedOnceStep, StraysStep, ServiceStepInv DEF LeaseInv
  <1> QED BY <1>1, <1>2, ServiceInvariance, PTL DEF ServiceSpec

\* The variables of the lease.
leaseHolder  == [d \in Resources |-> HolderOf(d)]
leaseParked  == {d \in Resources : \E r \in Requests :
                    rows[r].phase = "recovery_pending" /\ rows[r].resource = d}
leaseWorking == [d \in Resources |-> {r \in Requests : rows[r].resource = d
                    /\ \E f \in procs : claims[f].request = r}]
leaseAstray  == [d \in Resources |-> {r \in Requests : rows[r].resource = d
                    /\ \E f \in strays : claims[f].request = r}]

Holds(table, r, d) == HoldsReservation(table[r].phase) /\ table[r].resource = d

HolderIn(table, d) ==
    LET held == {r \in Requests : Holds(table, r, d)}
    IN  IF held = {} THEN "nobody" ELSE CHOOSE r \in held : TRUE

Alone(table) ==
    \A r, q \in Requests : \A d : Holds(table, r, d) /\ Holds(table, q, d) => r = q

\* Whoever holds the directory is its holder, because nobody else does.
LEMMA HolderFacts ==
    ASSUME NEW table, Alone(table), NEW d
    PROVE  /\ \A r \in Requests : Holds(table, r, d) => HolderIn(table, d) = r
           /\ (\A r \in Requests : ~Holds(table, r, d)) => HolderIn(table, d) = "nobody"
           /\ HolderIn(table, d) # "nobody" =>
                 HolderIn(table, d) \in Requests /\ Holds(table, HolderIn(table, d), d)
  <1> DEFINE held == {r \in Requests : Holds(table, r, d)}
  <1>1. CASE held = {}
    <2>1. HolderIn(table, d) = "nobody"
      BY <1>1 DEF HolderIn
    <2> QED
      BY <1>1, <2>1
  <1>2. CASE held # {}
    <2>1. HolderIn(table, d) = CHOOSE r \in held : TRUE
      BY <1>2 DEF HolderIn
    <2>2. HolderIn(table, d) \in held
      BY <1>2, <2>1
    <2> QED
      BY <1>2, <2>2 DEF Alone
  <1> QED
    BY <1>1, <1>2

LEMMA SameHolder ==
    ASSUME NEW table, NEW other, Alone(table), Alone(other), NEW d,
           \A r \in Requests : Holds(table, r, d) <=> Holds(other, r, d)
    PROVE  HolderIn(table, d) = HolderIn(other, d)
  <1>1. CASE \E r \in Requests : Holds(table, r, d)
    BY <1>1, HolderFacts
  <1>2. CASE \A r \in Requests : ~Holds(table, r, d)
    BY <1>2, HolderFacts
  <1> QED
    BY <1>1, <1>2

\* Both ends of a step, as the holders of the directories see them.
LEMMA HoldersBefore ==
    ASSUME ServiceInv
    PROVE  Alone(rows) /\ leaseHolder = [d \in Resources |-> HolderIn(rows, d)]
  <1>1. Alone(rows)
    BY DEF ServiceInv, IInv, OneReservation, Alone, Holds
  <1>2. \A d : HolderOf(d) = HolderIn(rows, d)
    BY DEF HolderOf, HolderIn, Holds
  <1> QED
    BY <1>1, <1>2 DEF leaseHolder

LEMMA HoldersAfter ==
    ASSUME ServiceInv'
    PROVE  Alone(rows') /\ leaseHolder' = [d \in Resources |-> HolderIn(rows', d)]
  <1>1. Alone(rows')
    BY DEF ServiceInv, IInv, OneReservation, Alone, Holds
  <1>2. \A d : HolderOf(d)' = HolderIn(rows', d)
    BY DEF HolderOf, HolderIn, Holds
  <1> QED
    BY <1>1, <1>2 DEF leaseHolder

\* Processes may end, or go astray when they are ended; no directory changes
\* hands.
LEMMA LeaseEnds ==
    ASSUME ServiceInv, ServiceInv', LeaseInv, procs' \subseteq procs,
           strays' \subseteq strays \cup (procs \ procs'),
           \A f \in procs \cup strays : claims'[f].request = claims[f].request,
           \A r \in Requests :
              /\ rows'[r].resource = rows[r].resource
              /\ HoldsReservation(rows'[r].phase) <=> HoldsReservation(rows[r].phase)
              /\ rows'[r].phase = "recovery_pending" <=> rows[r].phase = "recovery_pending"
    PROVE  Lease!LeaseNext
  <1>1. leaseHolder' = leaseHolder
    <2>1. \A d : HolderIn(rows', d) = HolderIn(rows, d)
      <3> TAKE d
      <3>1. \A r \in Requests : Holds(rows', r, d) <=> Holds(rows, r, d)
        BY DEF Holds
      <3> QED
        BY <3>1, HoldersBefore, HoldersAfter, SameHolder
    <2> QED
      BY <2>1, HoldersBefore, HoldersAfter
  <1>2. leaseParked' = leaseParked
    BY DEF leaseParked
  <1>3. /\ DOMAIN leaseWorking' = Resources
        /\ \A d \in Resources : leaseWorking'[d] \subseteq leaseWorking[d]
    BY DEF leaseWorking
  <1>4. ASSUME NEW d \in Resources, NEW r \in leaseAstray'[d], r \notin leaseAstray[d]
        PROVE  r \in leaseWorking[d] /\ r \notin leaseWorking'[d]
    <2>1. PICK f \in strays' : claims'[f].request = r
      BY <1>4 DEF leaseAstray
    <2>2. r \in Requests /\ rows[r].resource = d
      BY <1>4 DEF leaseAstray
    <2>3. f \notin strays
      BY <1>4, <2>1, <2>2 DEF leaseAstray
    <2>4. f \in procs /\ f \notin procs' /\ claims[f].request = r
      BY <2>1, <2>3
    <2>5. \A g \in procs' : claims'[g].request # r
      BY <2>4, ClaimFacts DEF LeaseInv, ClaimedOnce
    <2>6. r \notin leaseWorking'[d]
      BY <2>5 DEF leaseWorking
    <2> QED
      BY <2>2, <2>4, <2>6 DEF leaseWorking
  <1>5. /\ DOMAIN leaseAstray' = Resources
        /\ \A d \in Resources :
              leaseAstray'[d] \subseteq leaseAstray[d] \cup (leaseWorking[d] \ leaseWorking'[d])
    BY <1>4 DEF leaseAstray
  <1>6. Lease!End
    BY <1>1, <1>2, <1>3, <1>5
       DEF Lease!End, leaseHolder, leaseParked, leaseWorking, leaseAstray
  <1> QED
    BY <1>6 DEF Lease!LeaseNext

\* The processes are the same, and nobody moves one.
LEMMA WorkingSame ==
    ASSUME procs' = procs, strays' = strays,
           \A f \in procs \cup strays : claims'[f].request = claims[f].request,
           \A r \in Requests : \/ rows'[r].resource = rows[r].resource
                               \/ \A f \in procs \cup strays : claims[f].request # r
    PROVE  leaseWorking' = leaseWorking /\ leaseAstray' = leaseAstray
  BY DEF leaseWorking, leaseAstray

\* A process, astray or not, is the process of a claim.
LEMMA ProcessClaims ==
    ASSUME ServiceInv, LeaseInv
    PROVE  \A f \in procs \cup strays : f \in 1..Len(claims)
  BY ClaimFacts DEF LeaseInv, StraysEnded

\* Only the row of r changes, and it gives up or takes the directory d.
LEMMA HolderChanges ==
    ASSUME ServiceInv, ServiceInv', NEW r \in Requests, NEW d \in Resources,
           \A q \in Requests : q # r => rows'[q] = rows[q],
           \A e \in Resources : e # d => (Holds(rows', r, e) <=> Holds(rows, r, e))
    PROVE  \A e \in Resources : e # d => leaseHolder'[e] = leaseHolder[e]
  <1> SUFFICES ASSUME NEW e \in Resources, e # d
               PROVE  HolderIn(rows', e) = HolderIn(rows, e)
    BY HoldersBefore, HoldersAfter
  <1>1. \A q \in Requests : Holds(rows', q, e) <=> Holds(rows, q, e)
    BY DEF Holds
  <1> QED
    BY <1>1, HoldersBefore, HoldersAfter, SameHolder

LEMMA LeaseAcquires ==
    ASSUME ServiceInv, ServiceInv', LeaseInv, LeaseInv', NEW r \in Requests,
           rows[r].phase = "absent", rows'[r].phase = "admitted",
           \A q \in Requests : q # r => rows'[q] = rows[q], procs' = procs, strays' = strays,
           \A f \in procs \cup strays : claims'[f].request = claims[f].request
    PROVE  Lease!LeaseNext
  <1> DEFINE d == rows'[r].resource
  <1>1. d \in Resources
    BY DEF LeaseInv, Placed, Exists
  <1>2. ~HoldsReservation(rows[r].phase) /\ HoldsReservation(rows'[r].phase)
    BY DEF HoldsReservation, IsTerminal, DispatchPhases, ActivePhases, TerminalPhases
  <1>3. Holds(rows', r, d) /\ \A q \in Requests : ~Holds(rows, q, d)
    <2>1. Holds(rows', r, d)
      BY <1>2 DEF Holds
    <2>2. \A q \in Requests : q # r => ~Holds(rows', q, d)
      BY <2>1, HoldersAfter DEF Alone
    <2> QED
      BY <1>2, <2>1, <2>2 DEF Holds
  <1>4. leaseHolder[d] = "nobody" /\ leaseHolder'[d] = r
    BY <1>1, <1>3, HoldersBefore, HoldersAfter, HolderFacts
  <1>5. \A e \in Resources : e # d => leaseHolder'[e] = leaseHolder[e]
    BY <1>1, <1>2, HolderChanges DEF Holds
  <1>6. leaseHolder' = [leaseHolder EXCEPT ![d] = r]
    BY <1>1, <1>4, <1>5, HoldersBefore, HoldersAfter
  <1>7. leaseParked' = leaseParked
    BY DEF leaseParked
  <1>8. leaseWorking' = leaseWorking /\ leaseAstray' = leaseAstray
    <2>1. \A f \in procs \cup strays : claims[f].request # r
      BY ProcessClaims DEF LeaseInv, ClaimedOnce
    <2> QED
      BY <2>1, WorkingSame
  <1> HIDE DEF d
  <1>9. Lease!Acquire(d, r)
    BY <1>4, <1>6, <1>7, <1>8
       DEF Lease!Acquire, Lease!Nobody, leaseHolder, leaseParked, leaseWorking, leaseAstray
  <1> QED
    BY <1>1, <1>9 DEF Lease!LeaseNext

\* An attempt that has no process, and is not parked, gives its directory up.
LEMMA LeaseReleases ==
    ASSUME ServiceInv, ServiceInv', LeaseInv, NEW r \in Requests,
           HoldsReservation(rows[r].phase), rows[r].phase # "recovery_pending",
           ~HoldsReservation(rows'[r].phase), rows'[r].resource = rows[r].resource,
           \A q \in Requests : q # r => rows'[q] = rows[q], procs' = procs, strays' = strays,
           \A f \in procs \cup strays : claims'[f].request = claims[f].request,
           \A f \in procs : claims[f].request # r
    PROVE  Lease!LeaseNext
  <1> DEFINE d == rows[r].resource
  <1>1. d \in Resources /\ r # "nobody"
    BY ServiceAssumption DEF LeaseInv, Placed, Exists, HoldsReservation, DispatchPhases,
                             ActivePhases, TerminalPhases
  <1>2. Holds(rows, r, d) /\ \A q \in Requests : ~Holds(rows', q, d)
    <2>1. Holds(rows, r, d)
      BY DEF Holds
    <2>2. \A q \in Requests : q # r => ~Holds(rows, q, d)
      BY <2>1, HoldersBefore DEF Alone
    <2> QED
      BY <2>1, <2>2 DEF Holds
  <1>3. leaseHolder[d] = r /\ leaseHolder'[d] = "nobody"
    BY <1>1, <1>2, HoldersBefore, HoldersAfter, HolderFacts
  <1>4. \A e \in Resources : e # d => leaseHolder'[e] = leaseHolder[e]
    BY <1>1, HolderChanges DEF Holds
  <1>5. leaseHolder' = [leaseHolder EXCEPT ![d] = "nobody"]
    BY <1>1, <1>3, <1>4, HoldersBefore, HoldersAfter
  <1>6. leaseParked' = leaseParked /\ d \notin leaseParked
    <2>1. rows'[r].phase # "recovery_pending"
      BY DEF HoldsReservation, IsTerminal, DispatchPhases, TerminalPhases
    <2>2. HoldsReservation("recovery_pending")
      BY DEF HoldsReservation, IsTerminal, DispatchPhases, TerminalPhases
    <2>3. d \notin leaseParked
      BY <1>2, <2>2, HoldersBefore DEF leaseParked, Alone, Holds
    <2> QED
      BY <2>1, <2>3 DEF leaseParked
  <1>7. leaseWorking' = leaseWorking /\ leaseAstray' = leaseAstray /\ r \notin leaseWorking[d]
    <2>1. leaseWorking' = leaseWorking /\ leaseAstray' = leaseAstray
      BY WorkingSame
    <2> QED
      BY <1>1, <2>1 DEF leaseWorking
  <1> HIDE DEF d
  <1>8. Lease!Release(d)
    BY <1>1, <1>3, <1>5, <1>6, <1>7
       DEF Lease!Release, Lease!Nobody, leaseHolder, leaseParked, leaseWorking, leaseAstray
  <1> QED
    BY <1>1, <1>8 DEF Lease!LeaseNext

\* The operator cancels a parked attempt.
LEMMA LeaseIsGivenUp ==
    ASSUME ServiceInv, ServiceInv', NEW r \in Requests, NEW d \in Resources, rows[r].resource = d,
           rows[r].phase = "recovery_pending", ~HoldsReservation(rows'[r].phase),
           rows'[r].resource = rows[r].resource,
           \A q \in Requests : q # r => rows'[q] = rows[q], procs' = procs, strays' = strays,
           \A f \in procs \cup strays : claims'[f].request = claims[f].request
    PROVE  Lease!LeaseNext
  <1>1. HoldsReservation("recovery_pending") /\ rows'[r].phase # "recovery_pending"
    BY DEF HoldsReservation, IsTerminal, DispatchPhases, TerminalPhases
  <1>2. /\ Holds(rows, r, d) /\ \A q \in Requests : ~Holds(rows', q, d)
        /\ \A q \in Requests : q # r => ~Holds(rows, q, d)
    <2>1. Holds(rows, r, d)
      BY <1>1 DEF Holds
    <2>2. \A q \in Requests : q # r => ~Holds(rows, q, d)
      BY <2>1, HoldersBefore DEF Alone
    <2> QED
      BY <2>1, <2>2 DEF Holds
  <1>3. leaseHolder'[d] = "nobody"
    BY <1>2, HoldersAfter, HolderFacts
  <1>4. \A e \in Resources : e # d => leaseHolder'[e] = leaseHolder[e]
    BY HolderChanges DEF Holds
  <1>5. leaseHolder' = [leaseHolder EXCEPT ![d] = "nobody"]
    BY <1>3, <1>4, HoldersBefore, HoldersAfter
  <1>6. d \in leaseParked /\ leaseParked' = leaseParked \ {d}
    <2>1. d \in leaseParked
      BY DEF leaseParked
    <2>2. d \notin leaseParked'
      BY <1>1, <1>2 DEF leaseParked, Holds
    <2>3. \A e \in Resources : e # d => (e \in leaseParked' <=> e \in leaseParked)
      BY <1>1 DEF leaseParked
    <2>4. leaseParked' \subseteq Resources /\ leaseParked \subseteq Resources
      BY DEF leaseParked
    <2> QED
      BY <2>1, <2>2, <2>3, <2>4
  <1>7. leaseWorking' = leaseWorking /\ leaseAstray' = leaseAstray
    BY WorkingSame
  <1>8. Lease!GiveUp(d)
    BY <1>5, <1>6, <1>7
       DEF Lease!GiveUp, Lease!Nobody, leaseHolder, leaseParked, leaseWorking, leaseAstray
  <1>9. \E e \in Resources : Lease!GiveUp(e)
    BY <1>8
  <1> QED
    BY <1>9, Zenon DEF Lease!LeaseNext

\* The task of the holder starts its process.
LEMMA LeaseBegins ==
    ASSUME ServiceInv, ServiceInv', LeaseInv, NEW r \in Requests, NEW d \in Resources,
           rows[r].resource = d, Spawn(r)
    PROVE  Lease!LeaseNext
  <1>1. /\ open /\ pc[r] = "claimed" /\ procs' = procs \cup {fences[r]}
        /\ UNCHANGED <<rows, claims, strays>> /\ r # "nobody"
    BY ServiceAssumption DEF Spawn, vars
  <1>2. /\ fences[r] \notin procs /\ fences[r] \in 1..Len(claims)
        /\ claims[fences[r]].request = r
    BY <1>1, IdleTaskFacts
  <1>3. \A f \in procs : claims[f].request # r
    BY <1>2, ClaimFacts DEF LeaseInv, ClaimedOnce
  <1>4. Claimed(rows[r].phase)
    BY <1>1 DEF ServiceInv, ClaimHeld, Claimant
  <1>5. Holds(rows, r, d)
    BY <1>4 DEF Holds, HoldsReservation, IsTerminal, DispatchPhases, ActivePhases,
                TerminalPhases, Claimed
  <1>6. leaseHolder[d] = r
    BY <1>5, HoldersBefore, HolderFacts
  <1>7. leaseHolder' = leaseHolder /\ leaseParked' = leaseParked
    BY <1>1, HoldersBefore, HoldersAfter DEF leaseParked
  <1>8. d \notin leaseParked
    <2>1. HoldsReservation("recovery_pending")
      BY DEF HoldsReservation, IsTerminal, DispatchPhases, TerminalPhases
    <2> QED
      BY <1>4, <1>5, <2>1, HoldersBefore DEF leaseParked, Alone, Holds, Claimed
  <1>9. r \notin leaseWorking[d] \cup leaseAstray[d] /\ leaseAstray' = leaseAstray
    <2>1. \A f \in strays : claims[f].request # r
      BY <1>1 DEF LeaseInv, StraysEnded, Claimant
    <2> QED
      BY <1>1, <1>3, <2>1 DEF leaseWorking, leaseAstray
  <1>10. leaseWorking' = [leaseWorking EXCEPT ![d] = @ \cup {r}]
    <2>1. \A q \in Requests :
            (\E f \in procs' : claims'[f].request = q)
               <=> (q = r \/ \E f \in procs : claims[f].request = q)
      BY <1>1, <1>2
    <2>2. \A e \in Resources : e # d => leaseWorking'[e] = leaseWorking[e]
      BY <1>1, <2>1 DEF leaseWorking
    <2>3. leaseWorking'[d] = leaseWorking[d] \cup {r}
      BY <1>1, <2>1 DEF leaseWorking
    <2>4. /\ leaseWorking = [e \in Resources |-> leaseWorking[e]]
          /\ leaseWorking' = [e \in Resources |-> leaseWorking'[e]]
      BY DEF leaseWorking
    <2> QED
      BY <2>2, <2>3, <2>4
  <1>11. Lease!Begin(d)
    BY <1>1, <1>6, <1>7, <1>8, <1>9, <1>10
       DEF Lease!Begin, Lease!Nobody, leaseHolder, leaseParked, leaseWorking, leaseAstray
  <1>12. \E e \in Resources : Lease!Begin(e)
    BY <1>11
  <1> QED
    BY <1>12, Zenon DEF Lease!LeaseNext

\* A restart parks the claimed attempts and drops the ones not claimed.
LEMMA LeaseRecovers ==
    ASSUME ServiceInv, ServiceInv', LeaseInv, Restart
    PROVE  Lease!LeaseNext
  <1>1. PICK ts \in Nat : Open(ts)
    BY StoreAssumption DEF Restart
  <1>2. ~open /\ open' /\ claims' = claims /\ procs' = procs /\ strays' = strays /\ AnyClockNext
    BY <1>1 DEF Restart, Open, AnyClockNext
  <1>3. \A r \in Requests : Stays(r) \/ RecoverMove(r)
    BY <1>1, OpenStep DEF ServiceInv, IInv
  <1>4. \A r \in Requests : rows'[r].phase \notin ActivePhases
    BY <1>2, RecoveryStep DEF ServiceInv
  <1>5. \A r \in Requests :
           /\ rows'[r].resource = rows[r].resource
           /\ rows[r].phase = "admitted" => rows'[r].phase = "failed"
           /\ rows[r].phase \in {"running", "cancel_requested"} =>
                 rows'[r].phase = "recovery_pending"
           /\ rows[r].phase \notin ActivePhases => rows'[r].phase = rows[r].phase
    BY <1>3, <1>4 DEF Stays, RecoverMove, ActivePhases
  <1>6. \A r \in Requests : \A d :
           /\ Holds(rows', r, d) <=> Holds(rows, r, d) /\ rows[r].phase # "admitted"
           /\ Holds(rows', r, d) <=> rows'[r].phase = "recovery_pending" /\ rows'[r].resource = d
    <2>1. \A r \in Requests : rows[r].phase \in DispatchPhases \cup {"absent"}
      BY DEF ServiceInv, IInv, TypeOK, Row
    <2> QED
      BY <1>4, <1>5, <2>1 DEF Holds, HoldsReservation, IsTerminal, DispatchPhases, ActivePhases,
                              TerminalPhases
  <1> DEFINE released == {d \in Resources : \E r \in Requests :
                             rows[r].phase = "admitted" /\ rows[r].resource = d}
  <1>7. HoldsReservation("admitted") /\ HoldsReservation("recovery_pending")
    BY DEF HoldsReservation, IsTerminal, DispatchPhases, ActivePhases, TerminalPhases
  <1>8. released \in SUBSET (Resources \ leaseParked)
    BY <1>7, HoldersBefore DEF leaseParked, Alone, Holds
  <1>9. ASSUME NEW d \in released PROVE leaseHolder[d] \notin leaseWorking[d] \cup leaseAstray[d]
    <2>1. PICK r \in Requests : rows[r].phase = "admitted" /\ rows[r].resource = d
      BY <1>9
    <2>2. leaseHolder[d] = r
      BY <1>7, <2>1, HoldersBefore, HolderFacts DEF Holds
    <2>3. \A f \in procs \cup strays : claims[f].request # r
      BY <2>1, ProcessClaims DEF LeaseInv, ClaimedOnce
    <2> QED
      BY <2>2, <2>3 DEF leaseWorking, leaseAstray
  <1>10. leaseHolder' = [d \in Resources |-> IF d \in released THEN "nobody" ELSE leaseHolder[d]]
    <2>1. ASSUME NEW d \in released PROVE HolderIn(rows', d) = "nobody"
      <3>1. PICK r \in Requests : rows[r].phase = "admitted" /\ rows[r].resource = d
        BY <2>1
      <3>2. \A q \in Requests : Holds(rows, q, d) => q = r
        BY <1>7, <3>1, HoldersBefore DEF Alone, Holds
      <3>3. \A q \in Requests : ~Holds(rows', q, d)
        BY <1>6, <3>1, <3>2
      <3> QED
        BY <3>3, HoldersAfter, HolderFacts
    <2>2. ASSUME NEW d \in Resources, d \notin released
          PROVE  HolderIn(rows', d) = HolderIn(rows, d)
      <3>1. \A q \in Requests : Holds(rows', q, d) <=> Holds(rows, q, d)
        BY <1>6, <2>2 DEF Holds
      <3> QED
        BY <3>1, HoldersBefore, HoldersAfter, SameHolder
    <2> QED
      BY <2>1, <2>2, HoldersBefore, HoldersAfter
  <1>11. leaseParked' = {d \in Resources : leaseHolder'[d] # "nobody"}
    <2>1. ASSUME NEW d \in Resources
          PROVE  d \in leaseParked' <=> HolderIn(rows', d) # "nobody"
      <3>1. d \in leaseParked' <=> \E r \in Requests : Holds(rows', r, d)
        BY <1>6 DEF leaseParked
      <3>2. (\E r \in Requests : Holds(rows', r, d)) => HolderIn(rows', d) # "nobody"
        BY HoldersAfter, HolderFacts, ServiceAssumption
      <3>3. HolderIn(rows', d) # "nobody" => \E r \in Requests : Holds(rows', r, d)
        BY HoldersAfter, HolderFacts
      <3> QED
        BY <3>1, <3>2, <3>3
    <2>2. leaseParked' \subseteq Resources
      BY DEF leaseParked
    <2> QED
      BY <2>1, <2>2, HoldersAfter
  <1>12. leaseWorking' = leaseWorking /\ leaseAstray' = leaseAstray
    BY <1>2, <1>5, WorkingSame
  <1> HIDE DEF released
  <1>13. Lease!Recover
    BY <1>8, <1>9, <1>10, <1>11, <1>12
       DEF Lease!Recover, Lease!Nobody, leaseHolder, leaseParked, leaseWorking, leaseAstray
  <1> QED
    BY <1>13 DEF Lease!LeaseNext

\* While its report is on its way, an attempt has no process but astray.
LEMMA ReportedIsGone ==
    ASSUME ServiceInv, LeaseInv, open, NEW r \in Requests, FinishQueued(r),
           Claimed(rows[r].phase)
    PROVE  \A f \in procs : claims[f].request # r
  <1> SUFFICES ASSUME NEW f \in procs, claims[f].request = r PROVE FALSE
    OBVIOUS
  <1>1. rows[r].fence \in 1..Len(claims) /\ claims[rows[r].fence].request = r
    BY DEF ServiceInv, IInv, FenceColumn, Claimed
  <1>2. claims[rows[r].fence].epoch = epoch
    BY DEF ServiceInv, IInv, ClaimsCurrent, Claimed
  <1>3. f = rows[r].fence
    BY <1>1, ClaimFacts DEF LeaseInv, ClaimedOnce
  <1>4. pc[r] = "running"
    BY <1>2, <1>3 DEF ServiceInv, ProcessSupervised
  <1> QED
    BY <1>4 DEF ServiceInv, ClaimHeld, Claimant

LEMMA LeaseServes ==
    ASSUME ServiceInv, ServiceInv', LeaseInv, LeaseInv', Serve
    PROVE  Lease!LeaseNext
  <1> DEFINE b == Head(queue).body
  <1>1. PICK r \in Requests : r = b.request
    BY ServedOrder, OrderAtHead
  <1>2. PICK code \in ReplyCodes : /\ Transaction(r) /\ AnswerHead(code)
                                   /\ Served(b, rows[r], rows'[r], code)
    BY <1>1, ServedOrder
  <1>3. open /\ (b.op = "finish" => FinishQueued(r))
    BY <1>1, ServedOrder, OrderAtHead DEF FinishQueued
  <1> HIDE DEF b
  <1>4. /\ \A q \in Requests : q # r => rows'[q] = rows[q]
        /\ procs' = procs /\ strays' = strays /\ [AnyClockNext]_vars
    BY <1>2, ClockReadings DEF Transaction, AnswerHead
  <1>5. \A f \in procs \cup strays : claims'[f].request = claims[f].request
    BY <1>4, ClaimsGrow, ProcessClaims DEF ServiceInv, IInv
  <1>6. rows[r].phase # "absent" => rows'[r].resource = rows[r].resource /\ rows[r].resource \in Resources
    BY <1>4, RowsGoOn DEF ServiceInv, LeaseInv, Placed, Exists
  <1> USE DEF HoldsReservation, IsTerminal, DispatchPhases, ActivePhases, TerminalPhases
  <1>7. CASE rows'[r] = rows[r]
    <2>1. \A q \in Requests : rows'[q] = rows[q]
      BY <1>4, <1>7
    <2> QED
      BY <1>4, <1>5, <2>1, LeaseEnds
  <1>8. CASE rows[r].phase = "absent" /\ rows'[r].phase = "admitted"
    BY <1>4, <1>5, <1>8, LeaseAcquires
  <1>9. CASE \/ rows[r].phase = "admitted" /\ rows'[r].phase = "running"
             \/ rows[r].phase = "running" /\ rows'[r].phase = "cancel_requested"
    <2>1. \A q \in Requests :
            /\ rows'[q].resource = rows[q].resource
            /\ HoldsReservation(rows'[q].phase) <=> HoldsReservation(rows[q].phase)
            /\ rows'[q].phase = "recovery_pending" <=> rows[q].phase = "recovery_pending"
      BY <1>4, <1>6, <1>9
    <2> QED
      BY <1>4, <1>5, <2>1, LeaseEnds
  <1>10. CASE b.op = "finish" /\ Claimed(rows[r].phase) /\ IsTerminal(rows'[r].phase)
    <2>1. \A f \in procs : claims[f].request # r
      BY <1>3, <1>10, ReportedIsGone
    <2>2. HoldsReservation(rows[r].phase) /\ ~HoldsReservation(rows'[r].phase)
          /\ rows[r].phase \notin {"absent", "recovery_pending"}
      BY <1>10 DEF Claimed
    <2> QED
      BY <1>4, <1>5, <1>6, <2>1, <2>2, LeaseReleases
  <1>11. CASE rows[r].phase = "admitted" /\ rows'[r].phase = "cancelled"
    <2>1. \A f \in procs : claims[f].request # r
      BY <1>11, ClaimFacts DEF LeaseInv, ClaimedOnce
    <2>2. HoldsReservation(rows[r].phase) /\ ~HoldsReservation(rows'[r].phase)
          /\ rows[r].phase \notin {"absent", "recovery_pending"}
      BY <1>11
    <2> QED
      BY <1>4, <1>5, <1>6, <2>1, <2>2, LeaseReleases
  <1>12. CASE rows[r].phase = "recovery_pending" /\ rows'[r].phase = "cancelled"
    <2>1. ~HoldsReservation(rows'[r].phase) /\ rows[r].phase # "absent"
      BY <1>12
    <2> QED
      BY <1>4, <1>5, <1>6, <1>12, <2>1, LeaseIsGivenUp
  <1> QED
    BY <1>2, <1>7, <1>8, <1>9, <1>10, <1>11, <1>12 DEF Served

LEMMA LeaseStep ==
    ASSUME ServiceInv, ServiceInv', LeaseInv, LeaseInv', [ServiceNext]_allVars
    PROVE  Lease!LeaseNext \/ UNCHANGED Lease!leaseVars
  <1>1. CASE /\ UNCHANGED <<rows, claims>> /\ procs' \subseteq procs
             /\ strays' \subseteq strays \cup (procs \ procs')
    BY <1>1, LeaseEnds
  <1>2. CASE Serve
    BY <1>2, LeaseServes
  <1>3. CASE Restart
    BY <1>3, LeaseRecovers
  <1>4. ASSUME NEW r \in Requests, Spawn(r) PROVE Lease!LeaseNext
    <2>1. Claimed(rows[r].phase)
      BY <1>4 DEF Spawn, ServiceInv, ClaimHeld, Claimant
    <2>2. rows[r].resource \in Resources
      BY <2>1 DEF LeaseInv, Placed, Exists, Claimed
    <2> QED
      BY <1>4, <2>2, LeaseBegins
  <1>5. CASE Exit
    BY <1>1, <1>5 DEF Exit, Crash
  <1>6. CASE Refresh
    BY <1>1, <1>6 DEF Refresh, Detect, serviceVars
  <1>7. ASSUME NEW c \in Callers, CallerStep(c) \/ ResponseTimeout(c)
        PROVE  UNCHANGED <<rows, claims, procs, strays>>
    BY <1>7 DEF CallerStep, Enqueue, QueueFull, OrphanCall, Launch, AbortReturn, CancelReturn,
                ResponseTimeout, vars
  <1>8. ASSUME NEW r \in Requests, AttemptStep(r), ~Spawn(r)
        PROVE  /\ UNCHANGED <<rows, claims>> /\ procs' \subseteq procs
               /\ strays' \subseteq strays \cup (procs \ procs')
    BY <1>8 DEF AttemptStep, ClaimReturn, SkipCancelled, SpawnFails, EndExchange, Terminated,
                FinishReturn, Deregister, vars
  <1>9. CASE BeginShutdown \/ AbortTasks \/ \E f \in 1..Len(claims) : StrayEnds(f)
    BY <1>1, <1>9 DEF BeginShutdown, AbortTasks, Terminated, StrayEnds, vars
  <1>10. CASE \/ \E c \in Clients, r \in Requests, res \in Resources, fp \in Fingerprints :
                    Submit(c, r, res, fp)
              \/ \E c \in Clients, r \in Requests : RequestCancel(c, r)
    BY <1>1, <1>10 DEF Submit, RequestCancel, vars
  <1>11. CASE UNCHANGED allVars
    BY <1>1, <1>11 DEF allVars, serviceVars, vars
  <1> QED
    BY <1>1, <1>2, <1>3, <1>4, <1>5, <1>6, <1>7, <1>8, <1>9, <1>10, <1>11 DEF ServiceNext

LEMMA LeaseStart == ServiceInit => Lease!LeaseInit
  <1> SUFFICES ASSUME ServiceInit PROVE Lease!LeaseInit
    OBVIOUS
  <1>1. \A r \in Requests : rows[r].phase = "absent"
    BY DEF ServiceInit, Init, NoRow
  <1>2. ~HoldsReservation("absent") /\ procs = {} /\ strays = {}
    BY DEF HoldsReservation, DispatchPhases, ActivePhases, TerminalPhases, ServiceInit
  <1>3. leaseHolder = [d \in Resources |-> "nobody"]
    BY <1>1, <1>2, HoldersBefore, HolderFacts, ServiceInitInv DEF Holds
  <1>4. /\ leaseParked = {} /\ leaseWorking = [d \in Resources |-> {}]
        /\ leaseAstray = [d \in Resources |-> {}]
    BY <1>1, <1>2 DEF leaseParked, leaseWorking, leaseAstray
  <1> QED
    BY <1>3, <1>4 DEF Lease!LeaseInit, Lease!Nobody, leaseHolder, leaseParked, leaseWorking, leaseAstray

\* Harness dispatch implements the lease on a working directory: no process
\* starts but for the holder and none twice, a lease in good standing ends
\* only after its process tree was terminated (which a member may outlive),
\* and what a restart interrupts is parked until the operator gives it up,
\* whatever became of its process.
THEOREM DispatchKeepsTheLease == ServiceSpec => ImplementsLease
  <1>1. ServiceInv /\ ServiceInv' /\ LeaseInv /\ LeaseInv' /\ [ServiceNext]_allVars =>
           [Lease!LeaseNext]_(Lease!leaseVars)
    BY LeaseStep
  <1> QED
    BY <1>1, LeaseStart, ServiceInvariance, LeaseInvariant, PTL
       DEF ServiceSpec, ImplementsLease, Lease!LeaseSpec
=============================================================================
