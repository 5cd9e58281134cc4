---------------------------- MODULE WriterQueue ----------------------------
(***************************************************************************)
(* The bounded queue in front of the writer thread, one atomic operation   *)
(* per step: how a request is counted, published, refused and rolled back, *)
(* what health reports of it, and how the writer ends.                     *)
(* (vibemuxd/src/lib.rs: SharedWriterState, the two enqueue functions,     *)
(* health, shutdown, Drop for WriterWorker and writer_loop.)               *)
(*                                                                         *)
(* Callers hold a WriterHandle, whose reference to the channel is weak:    *)
(* it is upgraded for the length of one enqueue.  Owner holds the          *)
(* WriterWorker.  What a request does to the store is not modelled here    *)
(* (see HarnessDispatchService); a request is served or it is not.         *)
(***************************************************************************)
EXTENDS Naturals, Sequences, FiniteSets

CONSTANTS Callers,   \* threads that hold a WriterHandle
          Owner,     \* the thread that holds the WriterWorker
          Capacity,  \* of the channel; start_with_config refuses 0
          MaxCalls   \* bound: calls one caller makes

ASSUME QueueAssumption ==
    /\ Owner \notin Callers
    /\ IsFiniteSet(Callers)
    /\ Capacity \in Nat \ {0}
    /\ MaxCalls \in Nat

VARIABLES pending, watermark,  \* SharedWriterState
          queue,               \* the channel
          at,                  \* where each thread is in its call
          req,                 \* the request it is making
          depth,               \* what its fetch_add returned, plus one, until it is marked
          result,              \* how its last call ended
          worker,              \* where writer_loop is
          item,                \* the request it has taken
          sample,              \* what it has loaded for a health answer
          served               \* history: the requests served

callerVars  == <<at, req, depth, result>>
workerVars  == <<worker, item, sample>>
queueVars   == <<pending, watermark, queue, callerVars, workerVars, served>>

Threads  == Callers \cup {Owner}
Kinds    == {"work", "health", "shutdown"}
Requests == [from : Threads, n : 0..MaxCalls + 1, kind : Kinds]

NoSample == [depth |-> 0, peak |-> 0]

MaxOf(a, b) == IF a > b THEN a ELSE b

\* Mutant: handles keep a strong reference.
HoldsSenderStrongly(t) ==
    IF t = Owner THEN at[t] \notin {"joining", "ended"} ELSE TRUE

\* The threads that keep the channel's sending side alive.
HoldsSender(t) ==
    IF t = Owner THEN at[t] \notin {"joining", "ended"}
                 ELSE at[t] \in {"counting", "marking", "publishing", "rolling"}

SenderAlive == \E t \in Threads : HoldsSender(t)

\* The WriterWorker and the writer thread each own the telemetry.
SharedAlive == at[Owner] # "ended" \/ worker # "stopped"

\* checked_sub keeps the floor.
Decremented(n) == IF n > 0 THEN n - 1 ELSE 0

----------------------------------------------------------------------------
(* enqueue, of a handle and of the worker                                  *)

Begin(t, kind) ==
    /\ at' = [at EXCEPT ![t] = "counting"]
    /\ req' = [req EXCEPT ![t] = [from |-> t, n |-> @.n + 1, kind |-> kind]]
    /\ result' = [result EXCEPT ![t] = "none"]
    /\ UNCHANGED <<pending, watermark, queue, depth, workerVars, served>>

Call(t) ==
    /\ t \in Callers
    /\ at[t] = "idle"
    /\ req[t].n < MaxCalls
    /\ SenderAlive
    /\ \E kind \in {"work", "health"} : Begin(t, kind)

\* The upgrade fails.
CallStopped(t) ==
    /\ t \in Callers
    /\ at[t] = "idle"
    /\ req[t].n < MaxCalls
    /\ ~SenderAlive
    /\ req' = [req EXCEPT ![t] = [from |-> t, n |-> @.n + 1, kind |-> @.kind]]
    /\ result' = [result EXCEPT ![t] = "stopped"]
    /\ UNCHANGED <<pending, watermark, queue, at, depth, workerVars, served>>

\* WriterWorker::shutdown
Shutdown(t) ==
    /\ t = Owner
    /\ at[t] = "idle"
    /\ Begin(t, "shutdown")

\* record_enqueue: fetch_add, skipped when the telemetry is gone.
Count(t) ==
    /\ at[t] = "counting"
    /\ IF SharedAlive
       THEN /\ pending' = pending + 1
            /\ depth' = [depth EXCEPT ![t] = pending + 1]
            /\ at' = [at EXCEPT ![t] = "marking"]
       ELSE /\ at' = [at EXCEPT ![t] = "publishing"]
            /\ UNCHANGED <<pending, depth>>
    /\ UNCHANGED <<watermark, queue, req, result, workerVars, served>>

\* record_enqueue: fetch_max
Mark(t) ==
    /\ at[t] = "marking"
    /\ watermark' = MaxOf(watermark, depth[t])
    /\ depth' = [depth EXCEPT ![t] = 0]
    /\ at' = [at EXCEPT ![t] = "publishing"]
    /\ UNCHANGED <<pending, queue, req, result, workerVars, served>>

\* try_send
Publish(t) ==
    /\ at[t] = "publishing"
    /\ worker # "stopped"
    /\ Len(queue) < Capacity
    /\ queue' = Append(queue, req[t])
    /\ at' = [at EXCEPT ![t] = "waiting"]
    /\ UNCHANGED <<pending, watermark, req, depth, result, workerVars, served>>

\* A handle's health call that meets a full queue still answers.
Refusal(t) ==
    CASE worker = "stopped" -> "stopped"
      [] req[t].kind = "health" -> "saturated"
      [] OTHER -> "full"

Refuse(t) ==
    /\ at[t] = "publishing"
    /\ worker = "stopped" \/ Len(queue) = Capacity
    /\ result' = [result EXCEPT ![t] = Refusal(t)]
    /\ at' = [at EXCEPT ![t] = "rolling"]
    /\ UNCHANGED <<pending, watermark, queue, req, depth, workerVars, served>>

\* Mutant: a refused request stays counted.
RollBackNothing(t) ==
    /\ at[t] = "rolling"
    /\ at' = [at EXCEPT ![t] = IF t = Owner THEN "dropping" ELSE "idle"]
    /\ UNCHANGED <<pending, watermark, queue, req, depth, result, workerVars, served>>

\* record_dequeue, and the error is returned; the owner of a worker that
\* could not be shut down drops it.
RollBack(t) ==
    /\ at[t] = "rolling"
    /\ pending' = IF SharedAlive THEN Decremented(pending) ELSE pending
    /\ at' = [at EXCEPT ![t] = IF t = Owner THEN "dropping" ELSE "idle"]
    /\ UNCHANGED <<watermark, queue, req, depth, result, workerVars, served>>

\* Where a thread goes when its wait ends.
AfterWait(t) == IF t = Owner THEN "taking" ELSE "idle"

\* Mutant: the deadline is reported as the end of the writer.
TimeoutAsStopped(t) ==
    /\ at[t] = "waiting"
    /\ at' = [at EXCEPT ![t] = AfterWait(t)]
    /\ result' = [result EXCEPT ![t] = "stopped"]
    /\ UNCHANGED <<pending, watermark, queue, req, depth, workerVars, served>>

\* receive: the deadline passes; the request stays where it is.
Timeout(t) ==
    /\ at[t] = "waiting"
    /\ at' = [at EXCEPT ![t] = AfterWait(t)]
    /\ result' = [result EXCEPT ![t] = "late"]
    /\ UNCHANGED <<pending, watermark, queue, req, depth, workerVars, served>>

----------------------------------------------------------------------------
(* The end of the WriterWorker                                             *)

\* shutdown, after the answer: sender.take().
TakeSender(t) ==
    /\ t = Owner
    /\ at[t] = "taking"
    /\ at' = [at EXCEPT ![t] = "joining"]
    /\ UNCHANGED <<pending, watermark, queue, req, depth, result, workerVars, served>>

\* shutdown: thread.join()
Join(t) ==
    /\ t = Owner
    /\ at[t] = "joining"
    /\ worker = "stopped"
    /\ at' = [at EXCEPT ![t] = "ended"]
    /\ UNCHANGED <<pending, watermark, queue, req, depth, result, workerVars, served>>

\* Drop for WriterWorker: a Shutdown that is not counted, if there is room.
DropWorker(t) ==
    /\ t = Owner
    /\ at[t] \in {"idle", "dropping"}
    /\ queue' = IF worker # "stopped" /\ Len(queue) < Capacity
                THEN Append(queue, [from |-> t, n |-> 0, kind |-> "shutdown"])
                ELSE queue
    /\ at' = [at EXCEPT ![t] = "releasing"]
    /\ UNCHANGED <<pending, watermark, req, depth, result, workerVars, served>>

\* ... and the last strong sender goes; the thread is left to itself.
ReleaseSender(t) ==
    /\ t = Owner
    /\ at[t] = "releasing"
    /\ at' = [at EXCEPT ![t] = "ended"]
    /\ UNCHANGED <<pending, watermark, queue, req, depth, result, workerVars, served>>

----------------------------------------------------------------------------
(* writer_loop                                                             *)

Receive ==
    /\ worker = "receiving"
    /\ queue # << >>
    /\ item' = Head(queue)
    /\ queue' = Tail(queue)
    /\ worker' = "taken"
    /\ UNCHANGED <<pending, watermark, callerVars, sample, served>>

\* recv: every sender is gone and the queue is drained.
Disconnected ==
    /\ worker = "receiving"
    /\ queue = << >>
    /\ ~SenderAlive
    /\ worker' = "stopping"
    /\ UNCHANGED <<pending, watermark, queue, callerVars, item, sample, served>>

\* record_processed
RecordProcessed ==
    /\ worker = "taken"
    /\ pending' = Decremented(pending)
    /\ worker' = "serving"
    /\ UNCHANGED <<watermark, queue, callerVars, item, sample, served>>

\* The answer reaches the thread that still waits for it.
Answer ==
    LET waits == {t \in Threads : at[t] = "waiting" /\ req[t] = item}
    IN  /\ at' = [t \in Threads |-> IF t \in waits THEN AfterWait(t) ELSE at[t]]
        /\ result' = [t \in Threads |-> IF t \in waits THEN "answered" ELSE result[t]]
        /\ served' = served \cup {item}
        /\ UNCHANGED <<req, depth>>

ServeWork ==
    /\ worker = "serving"
    /\ item.kind = "work"
    /\ Answer
    /\ worker' = "receiving"
    /\ UNCHANGED <<pending, watermark, queue, item, sample>>

ServeShutdown ==
    /\ worker = "serving"
    /\ item.kind = "shutdown"
    /\ Answer
    /\ worker' = "stopping"
    /\ UNCHANGED <<pending, watermark, queue, item, sample>>

\* Health: snapshot loads the one and then the other.
LoadDepth ==
    /\ worker = "serving"
    /\ item.kind = "health"
    /\ sample' = [sample EXCEPT !.depth = pending]
    /\ worker' = "sampled"
    /\ UNCHANGED <<pending, watermark, queue, callerVars, item, served>>

LoadPeak ==
    /\ worker = "sampled"
    /\ sample' = [sample EXCEPT !.peak = watermark]
    /\ worker' = "loaded"
    /\ UNCHANGED <<pending, watermark, queue, callerVars, item, served>>

AnswerHealth ==
    /\ worker = "loaded"
    /\ Answer
    /\ worker' = "resetting"
    /\ UNCHANGED <<pending, watermark, queue, item, sample>>

\* reset_watermark: a plain store of the depth loaded before.
ResetWatermark ==
    /\ worker = "resetting"
    /\ watermark' = sample.depth
    /\ sample' = NoSample
    /\ worker' = "receiving"
    /\ UNCHANGED <<pending, queue, callerVars, item, served>>

\* The loop's locals are dropped, the receiver with what it still holds:
\* whoever waits for an answer learns that none will come.
Stop ==
    /\ worker = "stopping"
    /\ worker' = "stopped"
    /\ queue' = << >>
    /\ at' = [t \in Threads |-> IF at[t] = "waiting" THEN AfterWait(t) ELSE at[t]]
    /\ result' = [t \in Threads |-> IF at[t] = "waiting" THEN "stopped" ELSE result[t]]
    /\ UNCHANGED <<pending, watermark, req, depth, item, sample, served>>

----------------------------------------------------------------------------
QueueInit ==
    /\ pending = 0
    /\ watermark = 0
    /\ queue = << >>
    /\ at = [t \in Threads |-> "idle"]
    /\ req = [t \in Threads |-> [from |-> t, n |-> 0, kind |-> "work"]]
    /\ depth = [t \in Threads |-> 0]
    /\ result = [t \in Threads |-> "none"]
    /\ worker = "receiving"
    /\ item = [from |-> Owner, n |-> 0, kind |-> "work"]
    /\ sample = NoSample
    /\ served = {}

\* The rest of a call once it has begun.
CallStep(t) ==
    \/ Count(t) \/ Mark(t) \/ Publish(t) \/ Refuse(t) \/ RollBack(t) \/ Timeout(t)
    \/ TakeSender(t) \/ Join(t) \/ ReleaseSender(t)

WorkerStep ==
    \/ Receive \/ Disconnected \/ RecordProcessed
    \/ ServeWork \/ ServeShutdown
    \/ LoadDepth \/ LoadPeak \/ AnswerHealth \/ ResetWatermark \/ Stop

QueueNext ==
    \/ \E t \in Threads :
          Call(t) \/ CallStopped(t) \/ Shutdown(t) \/ DropWorker(t) \/ CallStep(t)
    \/ WorkerStep

QueueSpec == QueueInit /\ [][QueueNext]_queueVars

\* The writer thread runs, every call that has begun goes on (its deadline
\* is a timer), and a worker whose shutdown was refused is dropped on return.
FairQueueSpec ==
    /\ QueueSpec
    /\ WF_queueVars(WorkerStep)
    /\ \A t \in Threads : WF_queueVars(CallStep(t))
    /\ WF_queueVars(at[Owner] = "dropping" /\ DropWorker(Owner))

----------------------------------------------------------------------------
(* Properties                                                              *)

\* The places of a channel whose requests were counted on their way in.
Counted(q) == {i \in DOMAIN q : q[i].n > 0}

\* The calls between their count and their publish or rollback.
CountedCalls == {t \in Threads : at[t] \in {"marking", "publishing", "rolling"}}

\* pending is exactly the requests that wait and the calls that are between
\* their count and their publish or rollback: neither a refusal nor a fast
\* worker leaves phantom depth, and the floor of record_dequeue is never what
\* keeps it right.  It ends with the uncounted Shutdown of Drop.
PendingExact ==
    (worker \notin {"stopping", "stopped"} /\ ~(worker = "serving" /\ item.n = 0)) =>
        pending = Cardinality(Counted(queue))
                  + (IF worker = "taken" /\ item.n > 0 THEN 1 ELSE 0)
                  + Cardinality(CountedCalls)

\* A call that ends with QueueFull or WorkerStopped was not served, before or
\* after: repeating it repeats nothing.  Only a late answer leaves that open.
RefusedNotServed ==
    \A t \in Threads :
        result[t] \in {"full", "saturated", "stopped"} => req[t] \notin served

\* However the WriterWorker ends, with its Shutdown refused by a full queue
\* too, the writer thread comes to an end and releases the database.
WorkerStops == (at[Owner] \in {"taking", "dropping", "releasing", "joining", "ended"})
                  ~> (worker = "stopped")
=============================================================================
