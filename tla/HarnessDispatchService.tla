---------------------- MODULE HarnessDispatchService ----------------------
(***************************************************************************)
(* Harness dispatch as the daemon runs it: clients that submit and cancel, *)
(* one attempt task per request with its vendor process, and the bounded   *)
(* queue in front of the single writer, whose transactions are those of    *)
(* HarnessDispatchStore (vibemuxd/src/harness_dispatch/mod.rs, executor.rs *)
(* and native_process.rs; vibemuxd/src/lib.rs for the queue).              *)
(*                                                                         *)
(* A caller puts a request into the queue and waits.  A full queue and a   *)
(* late answer are retried; the request whose answer was late stays in the *)
(* queue and is carried out all the same, and nobody hears of it.          *)
(***************************************************************************)
EXTENDS HarnessDispatchStore

CONSTANTS Clients,        \* callers of the service's interface
          QueueCapacity,  \* bound: the code has 64
          MaxRetries,     \* Len(WRITER_RETRY_DELAYS): the code has 3
          Late,           \* whether the writer may miss the response timeout
          Findings,       \* what a refresh may find out about the harness
          Evidence        \* the terminal evidence a vendor may give

ASSUME ServiceAssumption ==
    /\ QueueCapacity \in Nat \ {0}
    /\ MaxRetries \in Nat
    /\ Late \in BOOLEAN
    /\ Findings \subseteq BOOLEAN
    /\ Evidence \subseteq Terminals
    /\ Clients \cap Requests = {}
    /\ "nobody" \notin Requests

VARIABLES queue,      \* the writer's bounded channel
          calls,      \* the writer call each caller is in
          accepting,  \* AttemptRegistry.accepting
          pc,         \* the attempt task of a request; "none": not registered
          signal,     \* the value of its cancel channel
          fences,     \* the claim an attempt task holds
          procs,      \* claims whose vendor process is alive, not yet terminated
          strays,     \* claims whose process outlived the end of its tree
          lapsed      \* history: calls whose fate the caller never learnt

serviceVars == <<queue, calls, accepting, pc, signal, fences, procs, strays, lapsed>>
allVars     == <<vars, serviceVars>>

Callers == Clients \cup Requests    \* an attempt task calls as its request

Order(op, r, res, fp, fence, report) ==
    [op |-> op, request |-> r, resource |-> res, content |-> fp,
     fence |-> fence, report |-> report]

NoAnswer == [code |-> Nothing, phase |-> "absent", fence |-> NoFence]

\* The caller is in no call; the other fields carry nothing.
Idle == [state |-> "idle", tries |-> 0, answer |-> NoAnswer,
         body |-> Order("none", Nothing, Nothing, Nothing, NoFence, NoReport)]

Accepted(code) == code \in {"changed", "unchanged"}

----------------------------------------------------------------------------
(* call_writer and WriterHandle::enqueue                                   *)

\* The call c starts, at its first try.
Call(body) == [state |-> "ready", tries |-> 0, body |-> body, answer |-> NoAnswer]

Failed(call, code) ==
    [call EXCEPT !.state = "answered", !.answer = [NoAnswer EXCEPT !.code = code]]

\* Mutant: the caller repeats its request until the writer takes it.
RetryForever(call, code) == [call EXCEPT !.state = "ready"]

\* QueueFull and ResponseTimeout are repeated until the delays run out.
Retry(call, code) ==
    IF call.tries < MaxRetries
    THEN [call EXCEPT !.state = "ready", !.tries = @ + 1]
    ELSE Failed(call, code)

\* The calls of which the caller will not know whether they were carried
\* out: those it gives up, and a claim that it repeats.
Lapses(call, code) ==
    IF call.tries = MaxRetries \/ (call.body.op = "claim" /\ code = "timeout")
    THEN {<<call.body.op, call.body.request>>} ELSE {}

Enqueue(c) ==
    /\ open
    /\ calls[c].state = "ready"
    /\ Len(queue) < QueueCapacity
    /\ queue' = Append(queue, [caller |-> c, body |-> calls[c].body, awaited |-> TRUE])
    /\ calls' = [calls EXCEPT ![c].state = "waiting"]
    /\ UNCHANGED <<vars, accepting, pc, signal, fences, procs, strays, lapsed>>

QueueFull(c) ==
    /\ open
    /\ calls[c].state = "ready"
    /\ Len(queue) >= QueueCapacity
    /\ calls' = [calls EXCEPT ![c] = Retry(@, "queue_full")]
    /\ lapsed' = lapsed \cup Lapses(calls[c], "queue_full")
    /\ UNCHANGED <<vars, queue, accepting, pc, signal, fences, procs, strays>>

\* The answer does not come in time; the request stays where it is.
ResponseTimeout(c) ==
    /\ Late
    /\ open
    /\ calls[c].state = "waiting"
    /\ calls' = [calls EXCEPT ![c] = Retry(@, "timeout")]
    /\ lapsed' = lapsed \cup Lapses(calls[c], "timeout")
    /\ queue' = [i \in 1..Len(queue) |->
                    IF queue[i].caller = c THEN [queue[i] EXCEPT !.awaited = FALSE]
                    ELSE queue[i]]
    /\ UNCHANGED <<vars, accepting, pc, signal, fences, procs, strays>>

----------------------------------------------------------------------------
(* writer_loop: the request at the head is carried out and answered.       *)

\* Takes the head off the queue and answers with the code, the phase the
\* record has after the transaction and the fence of a claim.
AnswerHead(code) ==
    LET m == Head(queue)
        answer == [code |-> code, phase |-> rows'[m.body.request].phase,
                   fence |-> rows'[m.body.request].fence]
    IN  /\ queue' = Tail(queue)
        /\ calls' = IF m.awaited
                    THEN [calls EXCEPT ![m.caller].state = "answered",
                                       ![m.caller].answer = answer]
                    ELSE calls
        /\ UNCHANGED <<accepting, pc, signal, fences, procs, strays, lapsed>>

AtHead(op) == open /\ queue # << >> /\ Head(queue).body.op = op

ServeAdmit ==
    /\ AtHead("admit")
    /\ LET b == Head(queue).body
           code == AdmitReply(b.request, b.resource, b.content)
       IN  /\ IF code = "changed"
              THEN \E ts \in Timestamps : Admit(b.request, b.resource, b.content, ts)
              ELSE UNCHANGED vars
           /\ AnswerHead(code)

ServeClaim ==
    /\ AtHead("claim")
    /\ LET b == Head(queue).body
           code == ClaimReply(b.request)
       IN  /\ IF code = "changed"
              THEN \E ts \in Timestamps : Claim(b.request, ts)
              ELSE UNCHANGED vars
           /\ AnswerHead(code)

ServeFinish ==
    /\ AtHead("finish")
    /\ LET b == Head(queue).body
           code == FinishReply(b.request, b.fence, b.report)
       IN  /\ IF code = "changed"
              THEN \E ts \in Timestamps : Finish(b.request, b.fence, b.report, ts)
              ELSE UNCHANGED vars
           /\ AnswerHead(code)

ServeCancel ==
    /\ AtHead("cancel") \/ AtHead("abort")
    /\ LET b == Head(queue).body
           code == CancelReply(b.request)
       IN  /\ IF code = "changed"
              THEN \E ts \in Timestamps : Cancel(b.request, ts)
              ELSE UNCHANGED vars
           /\ AnswerHead(code)

Serve == ServeAdmit \/ ServeClaim \/ ServeFinish \/ ServeCancel

----------------------------------------------------------------------------
(* submit_bound and launch                                                 *)

\* The gates before the admission (configuration, route, a detection that
\* may be stale by the time the store checks it again) only refuse earlier.
Submit(c, r, res, fp) ==
    /\ open
    /\ calls[c] = Idle
    /\ accepting
    /\ calls' = [calls EXCEPT ![c] = Call(Order("admit", r, res, fp, NoFence, NoReport))]
    /\ UNCHANGED <<vars, queue, accepting, pc, signal, fences, procs, strays, lapsed>>

Answered(c, op) == open /\ calls[c].state = "answered" /\ calls[c].body.op = op

Registered(r) == pc[r] # "none"

\* The registry's lock makes the test and the registration one step.
Register(r) ==
    /\ pc' = [pc EXCEPT ![r] = "claiming"]
    /\ signal' = [signal EXCEPT ![r] = FALSE]

ClaimCall(r) == Call(Order("claim", r, Nothing, Nothing, NoFence, NoReport))
AbortCall(r) == Call(Order("abort", r, Nothing, Nothing, NoFence, NoReport))

\* Mutant: whether the service still accepts was tested at submission.
LaunchUnchecked(c) ==
    /\ Answered(c, "admit")
    /\ LET r == calls[c].body.request
           admitted == Accepted(calls[c].answer.code) /\ calls[c].answer.phase = "admitted"
       IN  IF admitted /\ ~Registered(r)
           THEN /\ Register(r)
                /\ calls' = [calls EXCEPT ![c] = Idle, ![r] = ClaimCall(r)]
           ELSE /\ calls' = [calls EXCEPT ![c] = Idle]
                /\ UNCHANGED <<pc, signal>>
    /\ UNCHANGED <<vars, queue, accepting, fences, procs, strays, lapsed>>

\* A fresh admission, or the repetition of one that has not been claimed,
\* starts the attempt task; a service that shuts down cancels it instead.
Launch(c) ==
    /\ Answered(c, "admit")
    /\ LET r == calls[c].body.request
           admitted == Accepted(calls[c].answer.code) /\ calls[c].answer.phase = "admitted"
       IN  \/ /\ admitted /\ accepting /\ ~Registered(r)
              /\ Register(r)
              /\ calls' = [calls EXCEPT ![c] = Idle, ![r] = ClaimCall(r)]
           \/ /\ admitted /\ ~accepting
              /\ calls' = [calls EXCEPT ![c] = AbortCall(r)]
              /\ UNCHANGED <<pc, signal>>
           \/ /\ ~admitted \/ (accepting /\ Registered(r))
              /\ calls' = [calls EXCEPT ![c] = Idle]
              /\ UNCHANGED <<pc, signal>>
    /\ UNCHANGED <<vars, queue, accepting, fences, procs, strays, lapsed>>

\* The answer to the cancel that launch made is not looked at.
AbortReturn(c) ==
    /\ Answered(c, "abort")
    /\ calls' = [calls EXCEPT ![c] = Idle]
    /\ UNCHANGED <<vars, queue, accepting, pc, signal, fences, procs, strays, lapsed>>

----------------------------------------------------------------------------
(* cancel                                                                  *)

RequestCancel(c, r) ==
    /\ open
    /\ calls[c] = Idle
    /\ calls' = [calls EXCEPT ![c] =
                   Call(Order("cancel", r, Nothing, Nothing, NoFence, NoReport))]
    /\ UNCHANGED <<vars, queue, accepting, pc, signal, fences, procs, strays, lapsed>>

\* Mutant: only the caller whose cancel changed the row signals.
CancelReturnIfChanged(c) ==
    /\ Answered(c, "cancel")
    /\ LET r == calls[c].body.request
           answer == calls[c].answer
       IN  signal' = IF answer.code = "changed" /\ answer.phase = "cancel_requested"
                        /\ pc[r] \in {"running"}
                     THEN [signal EXCEPT ![r] = TRUE] ELSE signal
    /\ calls' = [calls EXCEPT ![c] = Idle]
    /\ UNCHANGED <<vars, queue, accepting, pc, fences, procs, strays, lapsed>>

\* A committed cancellation signals the attempt that is registered now.
CancelReturn(c) ==
    /\ Answered(c, "cancel")
    /\ LET r == calls[c].body.request
           answer == calls[c].answer
       IN  signal' = IF /\ Accepted(answer.code)
                        /\ answer.phase = "cancel_requested"
                        /\ Registered(r)
                     THEN [signal EXCEPT ![r] = TRUE] ELSE signal
    /\ calls' = [calls EXCEPT ![c] = Idle]
    /\ UNCHANGED <<vars, queue, accepting, pc, fences, procs, strays, lapsed>>

----------------------------------------------------------------------------
(* run_attempt                                                             *)

\* A claim that fails launches nothing.
ClaimReturn(r) ==
    /\ Answered(r, "claim")
    /\ IF calls[r].answer.code = "changed"
       THEN /\ pc' = [pc EXCEPT ![r] = "claimed"]
            /\ fences' = [fences EXCEPT ![r] = calls[r].answer.fence]
       ELSE /\ pc' = [pc EXCEPT ![r] = "ending"]
            /\ fences' = fences
    /\ calls' = [calls EXCEPT ![r] = Idle]
    /\ UNCHANGED <<vars, queue, accepting, signal, procs, strays, lapsed>>

\* The attempt task turns to its finish call, with this evidence.
Finishing(r, exchange, terminal, process) ==
    LET decision == DecideOutcome(exchange, terminal, process)
        report   == [outcome |-> decision.outcome, error |-> decision.error,
                     process |-> process]
    IN  /\ pc' = [pc EXCEPT ![r] = "finishing"]
        /\ calls' = [calls EXCEPT ![r] =
                       Call(Order("finish", r, Nothing, Nothing, fences[r], report))]

\* Mutant: nothing was started, so nothing is reported.
SkipCancelledSilently(r) ==
    /\ open
    /\ pc[r] = "claimed"
    /\ signal[r]
    /\ pc' = [pc EXCEPT ![r] = "ending"]
    /\ UNCHANGED <<vars, queue, calls, accepting, signal, fences, procs, strays, lapsed>>

\* execute: a cancel that came before the process starts nothing.
SkipCancelled(r) ==
    /\ open
    /\ pc[r] = "claimed"
    /\ signal[r]
    /\ Finishing(r, "cancelled", "none", "unclean")
    /\ UNCHANGED <<vars, queue, accepting, signal, fences, procs, strays, lapsed>>

\* NativeProcess::spawn, up to the release of the contained trampoline.
Spawn(r) ==
    /\ open
    /\ pc[r] = "claimed"
    /\ ~signal[r]
    /\ pc' = [pc EXCEPT ![r] = "running"]
    /\ procs' = procs \cup {fences[r]}
    /\ UNCHANGED <<vars, queue, calls, accepting, signal, fences, strays, lapsed>>

\* Mutant: a process that did not start has nothing to report.
SpawnFailsSilently(r) ==
    /\ open
    /\ pc[r] = "claimed"
    /\ ~signal[r]
    /\ pc' = [pc EXCEPT ![r] = "ending"]
    /\ UNCHANGED <<vars, queue, calls, accepting, signal, fences, procs, strays, lapsed>>

\* The executable, its containment or its pipes fail before the trampoline is
\* released.  A release that fails half way is Spawn and the end of a faulty
\* exchange.
SpawnFails(r) ==
    /\ open
    /\ pc[r] = "claimed"
    /\ ~signal[r]
    /\ Finishing(r, "fault", "none", "unclean")
    /\ UNCHANGED <<vars, queue, accepting, signal, fences, procs, strays, lapsed>>

\* How run_exchange and NativeProcess::finish can end: an exchange that
\* fails is killed; only a signalled one ends as cancelled.
ExchangeEnds(r, exchange, process) ==
    /\ exchange = "cancelled" => signal[r]
    /\ exchange = "fault" => process = "unclean"

\* What is left of a process tree that was terminated, one claim each.
\* finish and drop ignore a kill that fails, reap gives up after two
\* deadlines, and a member may have left the group: any of them may live on.
Terminated(trees) ==
    /\ procs' = procs \ trees
    /\ \E left \in SUBSET (procs \cap trees) : strays' = strays \cup left

\* Mutant: the process is left to exit by itself.
EndExchangeWithoutKill(r) ==
    /\ open
    /\ pc[r] = "running"
    /\ UNCHANGED <<procs, strays>>
    /\ \E exchange \in {NoCode, "cancelled", "fault"}, terminal \in Evidence,
          process \in Processes :
            /\ ExchangeEnds(r, exchange, process)
            /\ Finishing(r, exchange, terminal, process)
    /\ UNCHANGED <<vars, queue, accepting, signal, fences, lapsed>>

\* The tree is terminated before the evidence is reported; what came of that
\* is not part of the evidence.
EndExchange(r) ==
    /\ open
    /\ pc[r] = "running"
    /\ Terminated({fences[r]})
    /\ \E exchange \in {NoCode, "cancelled", "fault"}, terminal \in Evidence,
          process \in Processes :
            /\ ExchangeEnds(r, exchange, process)
            /\ Finishing(r, exchange, terminal, process)
    /\ UNCHANGED <<vars, queue, accepting, signal, fences, lapsed>>

\* Whatever the writer said: what it could not take is left to recovery.
FinishReturn(r) ==
    /\ Answered(r, "finish")
    /\ pc' = [pc EXCEPT ![r] = "ending"]
    /\ calls' = [calls EXCEPT ![r] = Idle]
    /\ UNCHANGED <<vars, queue, accepting, signal, fences, procs, strays, lapsed>>

Deregister(r) ==
    /\ open
    /\ pc[r] = "ending"
    /\ pc' = [pc EXCEPT ![r] = "none"]
    /\ fences' = [fences EXCEPT ![r] = NoFence]
    /\ UNCHANGED <<vars, queue, calls, accepting, signal, procs, strays, lapsed>>

----------------------------------------------------------------------------
(* Shutdown, exit and restart                                              *)

BeginShutdown ==
    /\ open
    /\ accepting
    /\ accepting' = FALSE
    /\ signal' = [r \in Requests |-> signal[r] \/ Registered(r)]
    /\ UNCHANGED <<vars, queue, calls, pc, fences, procs, strays, lapsed>>

\* Mutant: the aborted task leaves its process running.
AbortTasksOnly ==
    /\ open
    /\ ~accepting
    /\ \E r \in Requests : Registered(r)
    /\ pc' = [r \in Requests |-> "none"]
    /\ fences' = [r \in Requests |-> NoFence]
    /\ calls' = [c \in Callers |-> IF c \in Requests THEN Idle ELSE calls[c]]
    /\ queue' = [i \in 1..Len(queue) |->
                    IF queue[i].caller \in Requests THEN [queue[i] EXCEPT !.awaited = FALSE]
                    ELSE queue[i]]
    /\ UNCHANGED <<vars, accepting, signal, procs, strays, lapsed>>

\* Tasks that outlast the grace period are aborted, which drops their process
\* trees.  A request already queued stays queued, and a blocking call that has
\* not put its request into the queue yet still will.
AbortTasks ==
    /\ open
    /\ ~accepting
    /\ \E r \in Requests : Registered(r)
    /\ pc' = [r \in Requests |-> "none"]
    /\ Terminated({fences[r] : r \in Requests})
    /\ fences' = [r \in Requests |-> NoFence]
    /\ \E late \in SUBSET {r \in Requests : calls[r].state = "ready"} :
          calls' = [c \in Callers |->
                      IF c \in late THEN [calls[c] EXCEPT !.state = "orphan"]
                      ELSE IF c \in Requests THEN Idle ELSE calls[c]]
    /\ queue' = [i \in 1..Len(queue) |->
                    IF queue[i].caller \in Requests THEN [queue[i] EXCEPT !.awaited = FALSE]
                    ELSE queue[i]]
    /\ UNCHANGED <<vars, accepting, signal, lapsed>>

\* The blocking call of an aborted task runs to its end; nobody hears of it.
OrphanCall(c) ==
    /\ open
    /\ calls[c].state = "orphan"
    /\ queue' = IF Len(queue) < QueueCapacity
                THEN Append(queue, [caller |-> c, body |-> calls[c].body, awaited |-> FALSE])
                ELSE queue
    /\ calls' = [calls EXCEPT ![c] = Idle]
    /\ UNCHANGED <<vars, accepting, pc, signal, fences, procs, strays, lapsed>>

\* The daemon ends, orderly or killed; whatever was in memory is lost, and
\* any of the vendor processes may outlive it.
Exit ==
    /\ Crash
    /\ \E left \in SUBSET procs : procs' = left
    /\ queue' = << >>
    /\ calls' = [c \in Callers |-> Idle]
    /\ accepting' = FALSE
    /\ pc' = [r \in Requests |-> "none"]
    /\ signal' = [r \in Requests |-> FALSE]
    /\ fences' = [r \in Requests |-> NoFence]
    /\ UNCHANGED <<strays, lapsed>>

\* Recovery, then the writer reports ready and the service accepts.
Restart ==
    /\ \E ts \in Timestamps : Open(ts)
    /\ accepting' = TRUE
    /\ UNCHANGED <<queue, calls, pc, signal, fences, procs, strays, lapsed>>

\* A process nobody supervises, an earlier daemon's or a stray, ends by itself.
StrayEnds(f) ==
    /\ \/ f \in strays
       \/ f \in procs /\ ~\E r \in Requests : fences[r] = f
    /\ procs' = procs \ {f}
    /\ strays' = strays \ {f}
    /\ UNCHANGED <<vars, queue, calls, accepting, pc, signal, fences, lapsed>>

\* The registry of harnesses is refreshed through the same writer.
Refresh ==
    /\ \E found \in Findings : found # detected /\ Detect(found)
    /\ UNCHANGED serviceVars

----------------------------------------------------------------------------
ServiceInit ==
    /\ Init
    /\ queue = << >>
    /\ calls = [c \in Callers |-> Idle]
    /\ accepting = FALSE
    /\ pc = [r \in Requests |-> "none"]
    /\ signal = [r \in Requests |-> FALSE]
    /\ fences = [r \in Requests |-> NoFence]
    /\ procs = {}
    /\ strays = {}
    /\ lapsed = {}

\* The steps a caller takes when it is its turn.
CallerStep(c) ==
    \/ Enqueue(c) \/ QueueFull(c) \/ OrphanCall(c)
    \/ Launch(c) \/ AbortReturn(c) \/ CancelReturn(c)

AttemptStep(r) ==
    \/ ClaimReturn(r) \/ SkipCancelled(r) \/ Spawn(r) \/ SpawnFails(r)
    \/ EndExchange(r) \/ FinishReturn(r) \/ Deregister(r)

ServiceNext ==
    \/ \E c \in Clients, r \in Requests, res \in Resources, fp \in Fingerprints :
          Submit(c, r, res, fp)
    \/ \E c \in Clients, r \in Requests : RequestCancel(c, r)
    \/ \E c \in Callers : CallerStep(c) \/ ResponseTimeout(c)
    \/ \E r \in Requests : AttemptStep(r)
    \/ Serve
    \/ BeginShutdown \/ AbortTasks \/ Exit \/ Restart \/ Refresh
    \/ \E f \in 1..Len(claims) : StrayEnds(f)

ServiceSpec == ServiceInit /\ [][ServiceNext]_allVars

\* The writer thread, the runtime's tasks and blocking callers are scheduled;
\* an exchange ends at its deadline at the latest.  Clients owe nothing.
Fairness ==
    /\ WF_allVars(Serve)
    /\ \A c \in Callers : WF_allVars(CallerStep(c))
    /\ \A r \in Requests : WF_allVars(AttemptStep(r))

FairServiceSpec == ServiceSpec /\ Fairness

----------------------------------------------------------------------------
(* What the service promises.                                              *)

\* While its generation runs, a vendor process whose tree nobody has tried to
\* end has an attempt task that is in its exchange: no path through abort,
\* cancel or failure forgets one.  A stray is a process that was not
\* forgotten and lived on.
ProcessSupervised ==
    \A f \in procs : open /\ claims[f].epoch = epoch =>
        LET r == claims[f].request IN pc[r] = "running" /\ fences[r] = f

\* No executor's report is ever refused while its daemon lives, whatever
\* cancels were committed and however often the report was repeated after
\* a late answer: run_attempt may ignore the answer to its finish.
FinishTaken ==
    \A i \in 1..Len(queue) :
        LET b == queue[i].body
        IN  b.op = "finish" => Accepted(FinishReply(b.request, b.fence, b.report))

\* A row that says its process may run has an attempt task that holds its
\* fence and will report, or is about to learn it, unless the service was
\* shut down, the report could not be delivered, or the answer to the claim
\* came too late.
RunningIsSupervised ==
    \A r \in Requests :
        open /\ accepting /\ rows[r].phase \in {"running", "cancel_requested"} =>
            \/ pc[r] \in {"claimed", "running", "finishing"} /\ fences[r] = rows[r].fence
            \/ pc[r] = "claiming" /\ calls[r].state = "answered"
               /\ calls[r].answer.fence = rows[r].fence
            \/ <<"claim", r>> \in lapsed
            \/ <<"finish", r>> \in lapsed

CancelUnderway(r) ==
    \E c \in Clients : calls[c] # Idle /\ calls[c].body.op \in {"cancel", "abort"}
                       /\ calls[c].body.request = r

\* A committed cancellation reaches the attempt: once no cancel is under way
\* any more, the attempt is signalled, unless a canceller gave up waiting.
CancelSignalled ==
    \A r \in Requests :
        /\ rows[r].phase = "cancel_requested"
        /\ pc[r] \in {"claimed", "running"}
        /\ ~CancelUnderway(r)
        => signal[r] \/ <<"cancel", r>> \in lapsed

\* Shutdown misses no attempt: whoever registers does so before the service
\* stops accepting and is signalled, or is turned away.
ShutdownSignalsAll ==
    open /\ ~accepting => \A r \in Requests : Registered(r) => signal[r]

\* Every writer call returns: the retries are bounded and the queue drains.
CallersReturn ==
    \A c \in Callers : calls[c] # Idle ~> calls[c] = Idle

\* A claimed attempt comes to rest in this daemon's life, unless the daemon
\* ends, its report is not taken or its claim's answer was lost.
AttemptsSettle ==
    \A r \in Requests :
        (open /\ rows[r].phase \in {"running", "cancel_requested"}) ~>
            \/ rows[r].phase \notin {"running", "cancel_requested"}
            \/ ~accepting
            \/ <<"claim", r>> \in lapsed
            \/ <<"finish", r>> \in lapsed

----------------------------------------------------------------------------
(* The reservations of the table and the live processes are leases.        *)

HolderOf(d) ==
    LET held == {r \in Requests : HoldsReservation(rows[r].phase) /\ rows[r].resource = d}
    IN  IF held = {} THEN "nobody" ELSE CHOOSE r \in held : TRUE

Lease == INSTANCE WorkingDirectoryLease WITH
    holder  <- [d \in Resources |-> HolderOf(d)],
    parked  <- {d \in Resources : \E r \in Requests :
                   rows[r].phase = "recovery_pending" /\ rows[r].resource = d},
    working <- [d \in Resources |-> {r \in Requests : rows[r].resource = d
                   /\ \E f \in procs : claims[f].request = r}],
    astray  <- [d \in Resources |-> {r \in Requests : rows[r].resource = d
                   /\ \E f \in strays : claims[f].request = r}]

\* Harness dispatch implements the lease on a working directory: nobody works
\* there without it, it ends only after the holder's process tree was
\* terminated, and a restart ends none whose holder may be at work, astray or
\* not.
ImplementsLease == Lease!LeaseSpec

=============================================================================
