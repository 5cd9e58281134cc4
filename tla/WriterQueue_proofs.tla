------------------------- MODULE WriterQueue_proofs -------------------------
(***************************************************************************)
(* Proofs about WriterQueue, for every finite set of callers, every        *)
(* capacity and every number of calls.                                     *)
(*                                                                         *)
(* QueueInv is inductive.  PendingExact needs to know which requests were  *)
(* never counted (only the Shutdown of Drop, after which the writer only   *)
(* stops); RefusedNotServed needs to know that a call that has not been    *)
(* published, or was refused, is nowhere in the channel, and that numbers  *)
(* of calls are not used twice.                                            *)
(***************************************************************************)
EXTENDS WriterQueue, FiniteSetTheorems, TLAPS

Places  == {"idle", "counting", "marking", "publishing", "rolling", "waiting",
            "taking", "joining", "dropping", "releasing", "ended"}
Stages  == {"receiving", "taken", "serving", "sampled", "loaded", "resetting",
            "stopping", "stopped"}
Refused == {"full", "saturated", "stopped"}

QueueTypeOK ==
    /\ pending \in Nat
    /\ watermark \in Nat
    /\ queue \in Seq(Requests)
    /\ at \in [Threads -> Places]
    /\ req \in [Threads -> Requests]
    /\ depth \in [Threads -> Nat]
    /\ result \in [Threads -> Refused \cup {"none", "late", "answered"}]
    /\ worker \in Stages
    /\ item \in Requests
    /\ sample \in [depth : Nat, peak : Nat]
    /\ served \in SUBSET Requests

\* A thread makes requests of its own, a caller no more than it may and the
\* owner one, its Shutdown.
OwnRequests ==
    /\ \A t \in Threads : req[t].from = t
    /\ \A t \in Callers : req[t].n <= MaxCalls
    /\ req[Owner].n <= 1
    /\ at[Owner] = "idle" => req[Owner].n = 0 /\ result[Owner] = "none"

\* A call under way has its number, and no outcome before it is refused.
CallsNumbered ==
    \A t \in Threads :
        /\ at[t] \in {"counting", "marking", "publishing", "rolling", "waiting", "dropping"}
              => req[t].n > 0
        /\ at[t] \in {"counting", "marking", "publishing", "waiting"} => result[t] = "none"

\* The worker has taken item and has not answered it.
Holding == worker \in {"taken", "serving", "sampled", "loaded"}

\* Only the Shutdown of Drop goes uncounted.
UncountedIsShutdown ==
    /\ \A i \in 1..Len(queue) : queue[i].n = 0 => queue[i].kind = "shutdown"
    /\ Holding /\ item.n = 0 => item.kind = "shutdown"

\* No request bears a number its thread has not come to.
NumbersUsed ==
    /\ \A i \in 1..Len(queue) : queue[i].n <= req[queue[i].from].n
    /\ Holding => item.n <= req[item.from].n
    /\ \A r \in served : r.n <= req[r.from].n

\* A call that is not published yet, or was refused, is nowhere on its way.
NotHandedOver ==
    \A t \in Threads :
        (at[t] \in {"counting", "marking", "publishing", "rolling"} \/ result[t] \in Refused)
            => /\ \A i \in 1..Len(queue) : queue[i] # req[t]
               /\ Holding => item # req[t]
               /\ req[t] \notin served

\* Whoever waits has not been served: the answer ends the wait.
WaitingUnserved == \A t \in Threads : at[t] = "waiting" => req[t] \notin served

QueueInv ==
    /\ QueueTypeOK
    /\ OwnRequests
    /\ CallsNumbered
    /\ UncountedIsShutdown
    /\ NumbersUsed
    /\ NotHandedOver
    /\ WaitingUnserved
    /\ PendingExact

----------------------------------------------------------------------------
(* One lemma per action, one step per conjunct; PendingExact comes after.    *)

\* All of QueueInv but the count.
CallInv ==
    /\ QueueTypeOK /\ OwnRequests /\ CallsNumbered /\ UncountedIsShutdown
    /\ NumbersUsed /\ NotHandedOver /\ WaitingUnserved

\* What a channel that is not empty yields.
LEMMA HeadTailType ==
    ASSUME NEW S, NEW q \in Seq(S), q # << >>
    PROVE  Head(q) \in S /\ Tail(q) \in Seq(S)
  OBVIOUS

\* A call begins with a number of its own.
LEMMA CallKeeps ==
    ASSUME QueueInv, NEW t \in Threads, Call(t)
    PROVE  CallInv'
  <1>1. QueueTypeOK'
    BY QueueAssumption DEF QueueInv, QueueTypeOK, Threads, workerVars, Call, Begin, Places,
           Stages, Refused, Requests, Kinds, OwnRequests
  <1>2. OwnRequests'
    BY QueueAssumption DEF QueueInv, QueueTypeOK, Threads, workerVars, Call, Begin, OwnRequests,
           Requests
  <1>3. CallsNumbered'
    BY QueueAssumption DEF QueueInv, QueueTypeOK, Threads, workerVars, Call, Begin,
           CallsNumbered, Requests, OwnRequests
  <1>4. UncountedIsShutdown'
    BY QueueAssumption DEF QueueInv, QueueTypeOK, Threads, workerVars, Call, Begin,
           UncountedIsShutdown, Holding, Requests, CallsNumbered
  <1>5. NumbersUsed'
    <2>1. \A u \in Threads : req'[u] \in Requests /\ req[u].n <= req'[u].n
      BY SMTT(30), QueueAssumption, <1>1 DEF QueueInv, QueueTypeOK, Call, Begin, Requests, Threads
    <2>2. \A r \in Requests : r.n <= req[r.from].n => r.n <= req'[r.from].n
      BY <2>1 DEF QueueInv, QueueTypeOK, Requests
    <2>3. /\ \A i \in 1..Len(queue) : queue[i] \in Requests
          /\ UNCHANGED <<queue, worker, item, served>>
      BY DEF QueueInv, QueueTypeOK, Call, Begin, workerVars
    <2>4. QED
      BY <2>2, <2>3 DEF QueueInv, QueueTypeOK, NumbersUsed, Holding
  <1>6. NotHandedOver'
    BY SMTT(30), QueueAssumption DEF QueueInv, QueueTypeOK, Threads, workerVars, Call, Begin,
           NotHandedOver, Holding, Requests, OwnRequests, Refused,
           NumbersUsed, CallsNumbered, WaitingUnserved
  <1>7. WaitingUnserved'
    BY QueueAssumption DEF QueueInv, QueueTypeOK, Threads, workerVars, Call, Begin,
           WaitingUnserved, Holding, NotHandedOver, Requests,
           OwnRequests, Refused
  <1>8. QED
    BY <1>1, <1>2, <1>3, <1>4, <1>5, <1>6, <1>7 DEF CallInv

\* An upgrade that fails uses up a number nobody has seen.
LEMMA CallStoppedKeeps ==
    ASSUME QueueInv, NEW t \in Threads, CallStopped(t)
    PROVE  CallInv'
  <1>1. QueueTypeOK'
    BY SMTT(30), QueueAssumption DEF QueueInv, QueueTypeOK, Threads, workerVars, CallStopped, Places,
           Stages, Refused, Requests, Kinds, OwnRequests
  <1>2. OwnRequests'
    BY QueueAssumption DEF QueueInv, QueueTypeOK, Threads, workerVars, CallStopped, OwnRequests,
           Requests
  <1>3. CallsNumbered'
    BY QueueAssumption DEF QueueInv, QueueTypeOK, Threads, workerVars, CallStopped,
           CallsNumbered, Requests, OwnRequests
  <1>4. UncountedIsShutdown'
    BY QueueAssumption DEF QueueInv, QueueTypeOK, Threads, workerVars, CallStopped,
           UncountedIsShutdown, Holding, Requests, CallsNumbered
  <1>5. NumbersUsed'
    <2>1. \A u \in Threads : req'[u] \in Requests /\ req[u].n <= req'[u].n
      BY SMTT(30), QueueAssumption, <1>1 DEF QueueInv, QueueTypeOK, CallStopped, Requests, Threads
    <2>2. \A r \in Requests : r.n <= req[r.from].n => r.n <= req'[r.from].n
      BY <2>1 DEF QueueInv, QueueTypeOK, Requests
    <2>3. /\ \A i \in 1..Len(queue) : queue[i] \in Requests
          /\ UNCHANGED <<queue, worker, item, served>>
      BY DEF QueueInv, QueueTypeOK, CallStopped, workerVars
    <2>4. QED
      BY <2>2, <2>3 DEF QueueInv, QueueTypeOK, NumbersUsed, Holding
  <1>6. NotHandedOver'
    BY SMTT(30), QueueAssumption DEF QueueInv, QueueTypeOK, Threads, workerVars, CallStopped,
           NotHandedOver, Holding, Requests, OwnRequests, Refused,
           NumbersUsed, CallsNumbered, WaitingUnserved
  <1>7. WaitingUnserved'
    BY QueueAssumption DEF QueueInv, QueueTypeOK, Threads, workerVars, CallStopped,
           WaitingUnserved, Holding, NotHandedOver, Requests,
           OwnRequests, Refused
  <1>8. QED
    BY <1>1, <1>2, <1>3, <1>4, <1>5, <1>6, <1>7 DEF CallInv

\* The owner's Shutdown is its first request.
LEMMA ShutdownKeeps ==
    ASSUME QueueInv, NEW t \in Threads, Shutdown(t)
    PROVE  CallInv'
  <1>1. QueueTypeOK'
    BY QueueAssumption DEF QueueInv, QueueTypeOK, Threads, workerVars, Shutdown, Begin, Places,
           Stages, Refused, Requests, Kinds, OwnRequests
  <1>2. OwnRequests'
    BY QueueAssumption DEF QueueInv, QueueTypeOK, Threads, workerVars, Shutdown, Begin,
           OwnRequests, Requests
  <1>3. CallsNumbered'
    BY QueueAssumption DEF QueueInv, QueueTypeOK, Threads, workerVars, Shutdown, Begin,
           CallsNumbered, Requests, OwnRequests
  <1>4. UncountedIsShutdown'
    BY QueueAssumption DEF QueueInv, QueueTypeOK, Threads, workerVars, Shutdown, Begin,
           UncountedIsShutdown, Holding, Requests, CallsNumbered
  <1>5. NumbersUsed'
    <2>1. \A u \in Threads : req'[u] \in Requests /\ req[u].n <= req'[u].n
      BY QueueAssumption, <1>1 DEF QueueInv, QueueTypeOK, Shutdown, Begin, Requests, Threads
    <2>2. \A r \in Requests : r.n <= req[r.from].n => r.n <= req'[r.from].n
      BY <2>1 DEF QueueInv, QueueTypeOK, Requests
    <2>3. /\ \A i \in 1..Len(queue) : queue[i] \in Requests
          /\ UNCHANGED <<queue, worker, item, served>>
      BY DEF QueueInv, QueueTypeOK, Shutdown, Begin, workerVars
    <2>4. QED
      BY <2>2, <2>3 DEF QueueInv, QueueTypeOK, NumbersUsed, Holding
  <1>6. NotHandedOver'
    BY SMTT(30), QueueAssumption DEF QueueInv, QueueTypeOK, Threads, workerVars, Shutdown, Begin,
           NotHandedOver, Holding, Requests, OwnRequests, Refused,
           NumbersUsed, CallsNumbered, WaitingUnserved
  <1>7. WaitingUnserved'
    BY QueueAssumption DEF QueueInv, QueueTypeOK, Threads, workerVars, Shutdown, Begin,
           WaitingUnserved, Holding, NotHandedOver, Requests,
           OwnRequests, Refused
  <1>8. QED
    BY <1>1, <1>2, <1>3, <1>4, <1>5, <1>6, <1>7 DEF CallInv

\* The count moves the call on.
LEMMA CountKeeps ==
    ASSUME QueueInv, NEW t \in Threads, Count(t)
    PROVE  CallInv'
  <1>1. QueueTypeOK'
    <2>1. CASE SharedAlive
      <3>1. pending + 1 \in Nat
        BY DEF QueueInv, QueueTypeOK
      <3>2. /\ pending' = pending + 1
            /\ depth' = [depth EXCEPT ![t] = pending + 1]
            /\ at' = [at EXCEPT ![t] = "marking"]
        BY <2>1 DEF Count
      <3>3. QED
        BY <3>1, <3>2 DEF QueueInv, QueueTypeOK, Count, workerVars, Places
    <2>2. CASE ~SharedAlive
      BY <2>2 DEF QueueInv, QueueTypeOK, Count, workerVars, Places
    <2>3. QED
      BY <2>1, <2>2
  <1>2. OwnRequests'
    BY QueueAssumption DEF QueueInv, QueueTypeOK, Threads, workerVars, Count, SharedAlive,
           OwnRequests, Requests
  <1>3. CallsNumbered'
    BY QueueAssumption DEF QueueInv, QueueTypeOK, Threads, workerVars, Count, SharedAlive,
           CallsNumbered, Requests, OwnRequests
  <1>4. UncountedIsShutdown'
    BY QueueAssumption DEF QueueInv, QueueTypeOK, Threads, workerVars, Count, SharedAlive,
           UncountedIsShutdown, Holding, Requests, CallsNumbered
  <1>5. NumbersUsed'
    BY QueueAssumption DEF QueueInv, QueueTypeOK, Threads, workerVars, Count, SharedAlive,
           NumbersUsed, Holding, Requests, OwnRequests
  <1>6. NotHandedOver'
    BY SMTT(30), QueueAssumption DEF QueueInv, QueueTypeOK, Threads, workerVars, Count, SharedAlive,
           NotHandedOver, Holding, Requests, OwnRequests, Refused,
           NumbersUsed, CallsNumbered, WaitingUnserved
  <1>7. WaitingUnserved'
    BY QueueAssumption DEF QueueInv, QueueTypeOK, Threads, workerVars, Count, SharedAlive,
           WaitingUnserved, Holding, NotHandedOver, Requests,
           OwnRequests, Refused
  <1>8. QED
    BY <1>1, <1>2, <1>3, <1>4, <1>5, <1>6, <1>7 DEF CallInv

\* Nor does the watermark touch a request.
LEMMA MarkKeeps ==
    ASSUME QueueInv, NEW t \in Threads, Mark(t)
    PROVE  CallInv'
  <1>1. QueueTypeOK'
    BY QueueAssumption DEF QueueInv, QueueTypeOK, Threads, workerVars, Mark, MaxOf, Places,
           Stages, Refused, Requests, Kinds, OwnRequests
  <1>2. OwnRequests'
    BY QueueAssumption DEF QueueInv, QueueTypeOK, Threads, workerVars, Mark, MaxOf, OwnRequests,
           Requests
  <1>3. CallsNumbered'
    BY QueueAssumption DEF QueueInv, QueueTypeOK, Threads, workerVars, Mark, MaxOf,
           CallsNumbered, Requests, OwnRequests
  <1>4. UncountedIsShutdown'
    BY QueueAssumption DEF QueueInv, QueueTypeOK, Threads, workerVars, Mark, MaxOf,
           UncountedIsShutdown, Holding, Requests, CallsNumbered
  <1>5. NumbersUsed'
    BY QueueAssumption DEF QueueInv, QueueTypeOK, Threads, workerVars, Mark, MaxOf, NumbersUsed,
           Holding, Requests, OwnRequests
  <1>6. NotHandedOver'
    BY QueueAssumption DEF QueueInv, QueueTypeOK, Threads, workerVars, Mark, MaxOf,
           NotHandedOver, Holding, Requests, OwnRequests, Refused,
           NumbersUsed, CallsNumbered, WaitingUnserved
  <1>7. WaitingUnserved'
    BY QueueAssumption DEF QueueInv, QueueTypeOK, Threads, workerVars, Mark, MaxOf,
           WaitingUnserved, Holding, NotHandedOver, Requests,
           OwnRequests, Refused
  <1>8. QED
    BY <1>1, <1>2, <1>3, <1>4, <1>5, <1>6, <1>7 DEF CallInv

\* The request enters the channel, and its thread waits.
LEMMA PublishKeeps ==
    ASSUME QueueInv, NEW t \in Threads, Publish(t)
    PROVE  CallInv'
  <1>1. QueueTypeOK'
    BY SMTT(30), QueueAssumption DEF QueueInv, QueueTypeOK, Threads, workerVars, Publish, Places, Stages,
           Refused, Requests, Kinds, OwnRequests
  <1>2. OwnRequests'
    BY QueueAssumption DEF QueueInv, QueueTypeOK, Threads, workerVars, Publish, OwnRequests,
           Requests
  <1>3. CallsNumbered'
    BY QueueAssumption DEF QueueInv, QueueTypeOK, Threads, workerVars, Publish, CallsNumbered,
           Requests, OwnRequests
  <1>4. UncountedIsShutdown'
    BY QueueAssumption DEF QueueInv, QueueTypeOK, Threads, workerVars, Publish,
           UncountedIsShutdown, Holding, Requests, CallsNumbered
  <1>5. NumbersUsed'
    BY SMTT(30), QueueAssumption DEF QueueInv, QueueTypeOK, Threads, workerVars, Publish, NumbersUsed,
           Holding, Requests, OwnRequests
  <1>6. NotHandedOver'
    <2>1. /\ queue' = Append(queue, req[t]) /\ queue \in Seq(Requests)
          /\ UNCHANGED <<req, result, worker, item, served>>
          /\ at'[t] = "waiting" /\ result[t] = "none"
          /\ \A u \in Threads \ {t} : at'[u] = at[u]
      BY DEF QueueInv, QueueTypeOK, Publish, workerVars, CallsNumbered
    <2>2. \A i \in 1..Len(queue') : queue'[i] = req[t] \/ (i \in 1..Len(queue) /\ queue'[i] = queue[i])
      BY <2>1
    <2>3. \A u \in Threads \ {t} : req[u] # req[t]
      BY DEF QueueInv, OwnRequests
    <2>4. QED
      BY <2>1, <2>2, <2>3 DEF QueueInv, NotHandedOver, Holding, Refused
  <1>7. WaitingUnserved'
    BY QueueAssumption DEF QueueInv, QueueTypeOK, Threads, workerVars, Publish, WaitingUnserved,
           Holding, NotHandedOver, Requests, OwnRequests, Refused
  <1>8. QED
    BY <1>1, <1>2, <1>3, <1>4, <1>5, <1>6, <1>7 DEF CallInv

\* A refused request was never in the channel.
LEMMA RefuseKeeps ==
    ASSUME QueueInv, NEW t \in Threads, Refuse(t)
    PROVE  CallInv'
  <1>1. QueueTypeOK'
    BY QueueAssumption DEF QueueInv, QueueTypeOK, Threads, workerVars, Refuse, Refusal, Places,
           Stages, Refused, Requests, Kinds, OwnRequests
  <1>2. OwnRequests'
    BY QueueAssumption DEF QueueInv, QueueTypeOK, Threads, workerVars, Refuse, Refusal,
           OwnRequests, Requests
  <1>3. CallsNumbered'
    BY QueueAssumption DEF QueueInv, QueueTypeOK, Threads, workerVars, Refuse, Refusal,
           CallsNumbered, Requests, OwnRequests
  <1>4. UncountedIsShutdown'
    BY QueueAssumption DEF QueueInv, QueueTypeOK, Threads, workerVars, Refuse, Refusal,
           UncountedIsShutdown, Holding, Requests, CallsNumbered
  <1>5. NumbersUsed'
    BY QueueAssumption DEF QueueInv, QueueTypeOK, Threads, workerVars, Refuse, Refusal,
           NumbersUsed, Holding, Requests, OwnRequests
  <1>6. NotHandedOver'
    BY QueueAssumption DEF QueueInv, QueueTypeOK, Threads, workerVars, Refuse, Refusal,
           NotHandedOver, Holding, Requests, OwnRequests, Refused,
           NumbersUsed, CallsNumbered, WaitingUnserved
  <1>7. WaitingUnserved'
    BY QueueAssumption DEF QueueInv, QueueTypeOK, Threads, workerVars, Refuse, Refusal,
           WaitingUnserved, Holding, NotHandedOver, Requests,
           OwnRequests, Refused
  <1>8. QED
    BY <1>1, <1>2, <1>3, <1>4, <1>5, <1>6, <1>7 DEF CallInv

\* The rollback keeps the refusal.
LEMMA RollBackKeeps ==
    ASSUME QueueInv, NEW t \in Threads, RollBack(t)
    PROVE  CallInv'
  <1>1. QueueTypeOK'
    BY QueueAssumption DEF QueueInv, QueueTypeOK, Threads, workerVars, RollBack, SharedAlive,
           Decremented, Places, Stages, Refused, Requests, Kinds,
           OwnRequests
  <1>2. OwnRequests'
    BY QueueAssumption DEF QueueInv, QueueTypeOK, Threads, workerVars, RollBack, SharedAlive,
           Decremented, OwnRequests, Requests
  <1>3. CallsNumbered'
    BY QueueAssumption DEF QueueInv, QueueTypeOK, Threads, workerVars, RollBack, SharedAlive,
           Decremented, CallsNumbered, Requests, OwnRequests
  <1>4. UncountedIsShutdown'
    BY QueueAssumption DEF QueueInv, QueueTypeOK, Threads, workerVars, RollBack, SharedAlive,
           Decremented, UncountedIsShutdown, Holding, Requests,
           CallsNumbered
  <1>5. NumbersUsed'
    BY QueueAssumption DEF QueueInv, QueueTypeOK, Threads, workerVars, RollBack, SharedAlive,
           Decremented, NumbersUsed, Holding, Requests, OwnRequests
  <1>6. NotHandedOver'
    BY QueueAssumption DEF QueueInv, QueueTypeOK, Threads, workerVars, RollBack, SharedAlive,
           Decremented, NotHandedOver, Holding, Requests, OwnRequests,
           Refused, NumbersUsed, CallsNumbered, WaitingUnserved
  <1>7. WaitingUnserved'
    BY QueueAssumption DEF QueueInv, QueueTypeOK, Threads, workerVars, RollBack, SharedAlive,
           Decremented, WaitingUnserved, Holding, NotHandedOver,
           Requests, OwnRequests, Refused
  <1>8. QED
    BY <1>1, <1>2, <1>3, <1>4, <1>5, <1>6, <1>7 DEF CallInv

\* A late answer is no refusal.
LEMMA TimeoutKeeps ==
    ASSUME QueueInv, NEW t \in Threads, Timeout(t)
    PROVE  CallInv'
  <1>1. QueueTypeOK'
    BY QueueAssumption DEF QueueInv, QueueTypeOK, Threads, workerVars, Timeout, AfterWait,
           Places, Stages, Refused, Requests, Kinds, OwnRequests
  <1>2. OwnRequests'
    BY QueueAssumption DEF QueueInv, QueueTypeOK, Threads, workerVars, Timeout, AfterWait,
           OwnRequests, Requests
  <1>3. CallsNumbered'
    BY QueueAssumption DEF QueueInv, QueueTypeOK, Threads, workerVars, Timeout, AfterWait,
           CallsNumbered, Requests, OwnRequests
  <1>4. UncountedIsShutdown'
    BY QueueAssumption DEF QueueInv, QueueTypeOK, Threads, workerVars, Timeout, AfterWait,
           UncountedIsShutdown, Holding, Requests, CallsNumbered
  <1>5. NumbersUsed'
    BY QueueAssumption DEF QueueInv, QueueTypeOK, Threads, workerVars, Timeout, AfterWait,
           NumbersUsed, Holding, Requests, OwnRequests
  <1>6. NotHandedOver'
    BY QueueAssumption DEF QueueInv, QueueTypeOK, Threads, workerVars, Timeout, AfterWait,
           NotHandedOver, Holding, Requests, OwnRequests, Refused,
           NumbersUsed, CallsNumbered, WaitingUnserved
  <1>7. WaitingUnserved'
    BY QueueAssumption DEF QueueInv, QueueTypeOK, Threads, workerVars, Timeout, AfterWait,
           WaitingUnserved, Holding, NotHandedOver, Requests,
           OwnRequests, Refused
  <1>8. QED
    BY <1>1, <1>2, <1>3, <1>4, <1>5, <1>6, <1>7 DEF CallInv

\* The sender goes.
LEMMA TakeSenderKeeps ==
    ASSUME QueueInv, NEW t \in Threads, TakeSender(t)
    PROVE  CallInv'
  <1>1. QueueTypeOK'
    BY QueueAssumption DEF QueueInv, QueueTypeOK, Threads, workerVars, TakeSender, Places,
           Stages, Refused, Requests, Kinds, OwnRequests
  <1>2. OwnRequests'
    BY QueueAssumption DEF QueueInv, QueueTypeOK, Threads, workerVars, TakeSender, OwnRequests,
           Requests
  <1>3. CallsNumbered'
    BY QueueAssumption DEF QueueInv, QueueTypeOK, Threads, workerVars, TakeSender, CallsNumbered,
           Requests, OwnRequests
  <1>4. UncountedIsShutdown'
    BY QueueAssumption DEF QueueInv, QueueTypeOK, Threads, workerVars, TakeSender,
           UncountedIsShutdown, Holding, Requests, CallsNumbered
  <1>5. NumbersUsed'
    BY QueueAssumption DEF QueueInv, QueueTypeOK, Threads, workerVars, TakeSender, NumbersUsed,
           Holding, Requests, OwnRequests
  <1>6. NotHandedOver'
    BY QueueAssumption DEF QueueInv, QueueTypeOK, Threads, workerVars, TakeSender, NotHandedOver,
           Holding, Requests, OwnRequests, Refused, NumbersUsed,
           CallsNumbered, WaitingUnserved
  <1>7. WaitingUnserved'
    BY QueueAssumption DEF QueueInv, QueueTypeOK, Threads, workerVars, TakeSender,
           WaitingUnserved, Holding, NotHandedOver, Requests,
           OwnRequests, Refused
  <1>8. QED
    BY <1>1, <1>2, <1>3, <1>4, <1>5, <1>6, <1>7 DEF CallInv

\* The owner ends.
LEMMA JoinKeeps ==
    ASSUME QueueInv, NEW t \in Threads, Join(t)
    PROVE  CallInv'
  <1>1. QueueTypeOK'
    BY QueueAssumption DEF QueueInv, QueueTypeOK, Threads, workerVars, Join, Places, Stages,
           Refused, Requests, Kinds, OwnRequests
  <1>2. OwnRequests'
    BY QueueAssumption DEF QueueInv, QueueTypeOK, Threads, workerVars, Join, OwnRequests,
           Requests
  <1>3. CallsNumbered'
    BY QueueAssumption DEF QueueInv, QueueTypeOK, Threads, workerVars, Join, CallsNumbered,
           Requests, OwnRequests
  <1>4. UncountedIsShutdown'
    BY QueueAssumption DEF QueueInv, QueueTypeOK, Threads, workerVars, Join, UncountedIsShutdown,
           Holding, Requests, CallsNumbered
  <1>5. NumbersUsed'
    BY QueueAssumption DEF QueueInv, QueueTypeOK, Threads, workerVars, Join, NumbersUsed,
           Holding, Requests, OwnRequests
  <1>6. NotHandedOver'
    BY QueueAssumption DEF QueueInv, QueueTypeOK, Threads, workerVars, Join, NotHandedOver,
           Holding, Requests, OwnRequests, Refused, NumbersUsed,
           CallsNumbered, WaitingUnserved
  <1>7. WaitingUnserved'
    BY QueueAssumption DEF QueueInv, QueueTypeOK, Threads, workerVars, Join, WaitingUnserved,
           Holding, NotHandedOver, Requests, OwnRequests, Refused
  <1>8. QED
    BY <1>1, <1>2, <1>3, <1>4, <1>5, <1>6, <1>7 DEF CallInv

\* Drop's Shutdown bears the number of no call.
LEMMA DropWorkerKeeps ==
    ASSUME QueueInv, NEW t \in Threads, DropWorker(t)
    PROVE  CallInv'
  <1>1. QueueTypeOK'
    <2>1. queue' \in Seq(Requests)
      <3>1. [from |-> t, n |-> 0, kind |-> "shutdown"] \in Requests
        BY QueueAssumption DEF Requests, Kinds
      <3>2. QED
        BY <3>1 DEF QueueInv, QueueTypeOK, DropWorker
    <2>2. QED
      BY <2>1 DEF QueueInv, QueueTypeOK, DropWorker, workerVars, Places
  <1>2. OwnRequests'
    BY QueueAssumption DEF QueueInv, QueueTypeOK, Threads, workerVars, DropWorker, OwnRequests,
           Requests
  <1>3. CallsNumbered'
    BY QueueAssumption DEF QueueInv, QueueTypeOK, Threads, workerVars, DropWorker, CallsNumbered,
           Requests, OwnRequests
  <1>4. UncountedIsShutdown'
    BY QueueAssumption DEF QueueInv, QueueTypeOK, Threads, workerVars, DropWorker,
           UncountedIsShutdown, Holding, Requests, CallsNumbered
  <1>5. NumbersUsed'
    BY SMTT(30), QueueAssumption DEF QueueInv, QueueTypeOK, Threads, workerVars, DropWorker, NumbersUsed,
           Holding, Requests, OwnRequests
  <1>6. NotHandedOver'
    BY SMTT(30), QueueAssumption DEF QueueInv, QueueTypeOK, Threads, workerVars, DropWorker, NotHandedOver,
           Holding, Requests, OwnRequests, Refused, NumbersUsed,
           CallsNumbered, WaitingUnserved
  <1>7. WaitingUnserved'
    BY QueueAssumption DEF QueueInv, QueueTypeOK, Threads, workerVars, DropWorker,
           WaitingUnserved, Holding, NotHandedOver, Requests,
           OwnRequests, Refused
  <1>8. QED
    BY <1>1, <1>2, <1>3, <1>4, <1>5, <1>6, <1>7 DEF CallInv

\* The last sender goes.
LEMMA ReleaseSenderKeeps ==
    ASSUME QueueInv, NEW t \in Threads, ReleaseSender(t)
    PROVE  CallInv'
  <1>1. QueueTypeOK'
    BY QueueAssumption DEF QueueInv, QueueTypeOK, Threads, workerVars, ReleaseSender, Places,
           Stages, Refused, Requests, Kinds, OwnRequests
  <1>2. OwnRequests'
    BY QueueAssumption DEF QueueInv, QueueTypeOK, Threads, workerVars, ReleaseSender,
           OwnRequests, Requests
  <1>3. CallsNumbered'
    BY QueueAssumption DEF QueueInv, QueueTypeOK, Threads, workerVars, ReleaseSender,
           CallsNumbered, Requests, OwnRequests
  <1>4. UncountedIsShutdown'
    BY QueueAssumption DEF QueueInv, QueueTypeOK, Threads, workerVars, ReleaseSender,
           UncountedIsShutdown, Holding, Requests, CallsNumbered
  <1>5. NumbersUsed'
    BY QueueAssumption DEF QueueInv, QueueTypeOK, Threads, workerVars, ReleaseSender,
           NumbersUsed, Holding, Requests, OwnRequests
  <1>6. NotHandedOver'
    BY QueueAssumption DEF QueueInv, QueueTypeOK, Threads, workerVars, ReleaseSender,
           NotHandedOver, Holding, Requests, OwnRequests, Refused,
           NumbersUsed, CallsNumbered, WaitingUnserved
  <1>7. WaitingUnserved'
    BY QueueAssumption DEF QueueInv, QueueTypeOK, Threads, workerVars, ReleaseSender,
           WaitingUnserved, Holding, NotHandedOver, Requests,
           OwnRequests, Refused
  <1>8. QED
    BY <1>1, <1>2, <1>3, <1>4, <1>5, <1>6, <1>7 DEF CallInv

\* The worker takes the head of the channel.
LEMMA ReceiveKeeps ==
    ASSUME QueueInv, Receive
    PROVE  CallInv'
  <1>1. QueueTypeOK'
    <2>1. item' \in Requests /\ queue' \in Seq(Requests)
      BY HeadTailType DEF QueueInv, QueueTypeOK, Receive
    <2>2. QED
      BY <2>1 DEF QueueInv, QueueTypeOK, Receive, callerVars, Stages
  <1>2. OwnRequests'
    BY QueueAssumption DEF QueueInv, QueueTypeOK, Threads, callerVars, Receive, OwnRequests,
           Requests
  <1>3. CallsNumbered'
    BY QueueAssumption DEF QueueInv, QueueTypeOK, Threads, callerVars, Receive, CallsNumbered,
           Requests, OwnRequests
  <1>4. UncountedIsShutdown'
    BY QueueAssumption DEF QueueInv, QueueTypeOK, Threads, callerVars, Receive,
           UncountedIsShutdown, Holding, Requests, CallsNumbered
  <1>5. NumbersUsed'
    <2>1. /\ \A i \in 1..Len(queue') : i + 1 \in 1..Len(queue) /\ queue'[i] = queue[i + 1]
          /\ 1 \in 1..Len(queue) /\ item' = queue[1]
      BY DEF QueueInv, QueueTypeOK, Receive
    <2>2. UNCHANGED <<req, served>>
      BY DEF Receive, callerVars
    <2>3. QED
      BY <2>1, <2>2 DEF QueueInv, QueueTypeOK, NumbersUsed, Holding
  <1>6. NotHandedOver'
    BY SMTT(30), QueueAssumption DEF QueueInv, QueueTypeOK, Threads, callerVars, Receive, NotHandedOver,
           Holding, Requests, OwnRequests, Refused, NumbersUsed,
           CallsNumbered, WaitingUnserved
  <1>7. WaitingUnserved'
    BY QueueAssumption DEF QueueInv, QueueTypeOK, Threads, callerVars, Receive, WaitingUnserved,
           Holding, NotHandedOver, Requests, OwnRequests, Refused
  <1>8. QED
    BY <1>1, <1>2, <1>3, <1>4, <1>5, <1>6, <1>7 DEF CallInv

\* Nothing is left to serve.
LEMMA DisconnectedKeeps ==
    ASSUME QueueInv, Disconnected
    PROVE  CallInv'
  <1>1. QueueTypeOK'
    BY QueueAssumption DEF QueueInv, QueueTypeOK, Threads, callerVars, Disconnected, Places,
           Stages, Refused, Requests, Kinds, OwnRequests
  <1>2. OwnRequests'
    BY QueueAssumption DEF QueueInv, QueueTypeOK, Threads, callerVars, Disconnected, OwnRequests,
           Requests
  <1>3. CallsNumbered'
    BY QueueAssumption DEF QueueInv, QueueTypeOK, Threads, callerVars, Disconnected,
           CallsNumbered, Requests, OwnRequests
  <1>4. UncountedIsShutdown'
    BY QueueAssumption DEF QueueInv, QueueTypeOK, Threads, callerVars, Disconnected,
           UncountedIsShutdown, Holding, Requests, CallsNumbered
  <1>5. NumbersUsed'
    BY QueueAssumption DEF QueueInv, QueueTypeOK, Threads, callerVars, Disconnected, NumbersUsed,
           Holding, Requests, OwnRequests
  <1>6. NotHandedOver'
    BY QueueAssumption DEF QueueInv, QueueTypeOK, Threads, callerVars, Disconnected,
           NotHandedOver, Holding, Requests, OwnRequests, Refused,
           NumbersUsed, CallsNumbered, WaitingUnserved
  <1>7. WaitingUnserved'
    BY QueueAssumption DEF QueueInv, QueueTypeOK, Threads, callerVars, Disconnected,
           WaitingUnserved, Holding, NotHandedOver, Requests,
           OwnRequests, Refused
  <1>8. QED
    BY <1>1, <1>2, <1>3, <1>4, <1>5, <1>6, <1>7 DEF CallInv

\* The worker counts down.
LEMMA RecordProcessedKeeps ==
    ASSUME QueueInv, RecordProcessed
    PROVE  CallInv'
  <1>1. QueueTypeOK'
    BY QueueAssumption DEF QueueInv, QueueTypeOK, Threads, callerVars, RecordProcessed,
           Decremented, Places, Stages, Refused, Requests, Kinds,
           OwnRequests
  <1>2. OwnRequests'
    BY QueueAssumption DEF QueueInv, QueueTypeOK, Threads, callerVars, RecordProcessed,
           Decremented, OwnRequests, Requests
  <1>3. CallsNumbered'
    BY QueueAssumption DEF QueueInv, QueueTypeOK, Threads, callerVars, RecordProcessed,
           Decremented, CallsNumbered, Requests, OwnRequests
  <1>4. UncountedIsShutdown'
    BY QueueAssumption DEF QueueInv, QueueTypeOK, Threads, callerVars, RecordProcessed,
           Decremented, UncountedIsShutdown, Holding, Requests,
           CallsNumbered
  <1>5. NumbersUsed'
    BY QueueAssumption DEF QueueInv, QueueTypeOK, Threads, callerVars, RecordProcessed,
           Decremented, NumbersUsed, Holding, Requests, OwnRequests
  <1>6. NotHandedOver'
    BY QueueAssumption DEF QueueInv, QueueTypeOK, Threads, callerVars, RecordProcessed,
           Decremented, NotHandedOver, Holding, Requests, OwnRequests,
           Refused, NumbersUsed, CallsNumbered, WaitingUnserved
  <1>7. WaitingUnserved'
    BY QueueAssumption DEF QueueInv, QueueTypeOK, Threads, callerVars, RecordProcessed,
           Decremented, WaitingUnserved, Holding, NotHandedOver,
           Requests, OwnRequests, Refused
  <1>8. QED
    BY <1>1, <1>2, <1>3, <1>4, <1>5, <1>6, <1>7 DEF CallInv

\* What is served was in the worker's hands, and whoever waits for it is told.
LEMMA ServeWorkKeeps ==
    ASSUME QueueInv, ServeWork
    PROVE  CallInv'
  <1>1. QueueTypeOK'
    BY QueueAssumption DEF QueueInv, QueueTypeOK, Threads, callerVars, ServeWork, Answer,
           AfterWait, Places, Stages, Refused, Requests, Kinds,
           OwnRequests
  <1>2. OwnRequests'
    BY QueueAssumption DEF QueueInv, QueueTypeOK, Threads, callerVars, ServeWork, Answer,
           AfterWait, OwnRequests, Requests
  <1>3. CallsNumbered'
    BY QueueAssumption DEF QueueInv, QueueTypeOK, Threads, callerVars, ServeWork, Answer,
           AfterWait, CallsNumbered, Requests, OwnRequests
  <1>4. UncountedIsShutdown'
    BY QueueAssumption DEF QueueInv, QueueTypeOK, Threads, callerVars, ServeWork, Answer,
           AfterWait, UncountedIsShutdown, Holding, Requests,
           CallsNumbered
  <1>5. NumbersUsed'
    BY QueueAssumption DEF QueueInv, QueueTypeOK, Threads, callerVars, ServeWork, Answer,
           AfterWait, NumbersUsed, Holding, Requests, OwnRequests
  <1>6. NotHandedOver'
    BY QueueAssumption DEF QueueInv, QueueTypeOK, Threads, callerVars, ServeWork, Answer,
           AfterWait, NotHandedOver, Holding, Requests, OwnRequests,
           Refused, NumbersUsed, CallsNumbered, WaitingUnserved
  <1>7. WaitingUnserved'
    BY QueueAssumption DEF QueueInv, QueueTypeOK, Threads, callerVars, ServeWork, Answer,
           AfterWait, WaitingUnserved, Holding, NotHandedOver,
           Requests, OwnRequests, Refused
  <1>8. QED
    BY <1>1, <1>2, <1>3, <1>4, <1>5, <1>6, <1>7 DEF CallInv

\* The same for the Shutdown.
LEMMA ServeShutdownKeeps ==
    ASSUME QueueInv, ServeShutdown
    PROVE  CallInv'
  <1>1. QueueTypeOK'
    BY QueueAssumption DEF QueueInv, QueueTypeOK, Threads, callerVars, ServeShutdown, Answer,
           AfterWait, Places, Stages, Refused, Requests, Kinds,
           OwnRequests
  <1>2. OwnRequests'
    BY QueueAssumption DEF QueueInv, QueueTypeOK, Threads, callerVars, ServeShutdown, Answer,
           AfterWait, OwnRequests, Requests
  <1>3. CallsNumbered'
    BY QueueAssumption DEF QueueInv, QueueTypeOK, Threads, callerVars, ServeShutdown, Answer,
           AfterWait, CallsNumbered, Requests, OwnRequests
  <1>4. UncountedIsShutdown'
    BY QueueAssumption DEF QueueInv, QueueTypeOK, Threads, callerVars, ServeShutdown, Answer,
           AfterWait, UncountedIsShutdown, Holding, Requests,
           CallsNumbered
  <1>5. NumbersUsed'
    BY QueueAssumption DEF QueueInv, QueueTypeOK, Threads, callerVars, ServeShutdown, Answer,
           AfterWait, NumbersUsed, Holding, Requests, OwnRequests
  <1>6. NotHandedOver'
    BY QueueAssumption DEF QueueInv, QueueTypeOK, Threads, callerVars, ServeShutdown, Answer,
           AfterWait, NotHandedOver, Holding, Requests, OwnRequests,
           Refused, NumbersUsed, CallsNumbered, WaitingUnserved
  <1>7. WaitingUnserved'
    BY QueueAssumption DEF QueueInv, QueueTypeOK, Threads, callerVars, ServeShutdown, Answer,
           AfterWait, WaitingUnserved, Holding, NotHandedOver,
           Requests, OwnRequests, Refused
  <1>8. QED
    BY <1>1, <1>2, <1>3, <1>4, <1>5, <1>6, <1>7 DEF CallInv

\* A health answer loads the depth.
LEMMA LoadDepthKeeps ==
    ASSUME QueueInv, LoadDepth
    PROVE  CallInv'
  <1>1. QueueTypeOK'
    BY QueueAssumption DEF QueueInv, QueueTypeOK, Threads, callerVars, LoadDepth, Places, Stages,
           Refused, Requests, Kinds, OwnRequests
  <1>2. OwnRequests'
    BY QueueAssumption DEF QueueInv, QueueTypeOK, Threads, callerVars, LoadDepth, OwnRequests,
           Requests
  <1>3. CallsNumbered'
    BY QueueAssumption DEF QueueInv, QueueTypeOK, Threads, callerVars, LoadDepth, CallsNumbered,
           Requests, OwnRequests
  <1>4. UncountedIsShutdown'
    BY QueueAssumption DEF QueueInv, QueueTypeOK, Threads, callerVars, LoadDepth,
           UncountedIsShutdown, Holding, Requests, CallsNumbered
  <1>5. NumbersUsed'
    BY QueueAssumption DEF QueueInv, QueueTypeOK, Threads, callerVars, LoadDepth, NumbersUsed,
           Holding, Requests, OwnRequests
  <1>6. NotHandedOver'
    BY QueueAssumption DEF QueueInv, QueueTypeOK, Threads, callerVars, LoadDepth, NotHandedOver,
           Holding, Requests, OwnRequests, Refused, NumbersUsed,
           CallsNumbered, WaitingUnserved
  <1>7. WaitingUnserved'
    BY QueueAssumption DEF QueueInv, QueueTypeOK, Threads, callerVars, LoadDepth,
           WaitingUnserved, Holding, NotHandedOver, Requests,
           OwnRequests, Refused
  <1>8. QED
    BY <1>1, <1>2, <1>3, <1>4, <1>5, <1>6, <1>7 DEF CallInv

\* ... and the watermark.
LEMMA LoadPeakKeeps ==
    ASSUME QueueInv, LoadPeak
    PROVE  CallInv'
  <1>1. QueueTypeOK'
    BY QueueAssumption DEF QueueInv, QueueTypeOK, Threads, callerVars, LoadPeak, Places, Stages,
           Refused, Requests, Kinds, OwnRequests
  <1>2. OwnRequests'
    BY QueueAssumption DEF QueueInv, QueueTypeOK, Threads, callerVars, LoadPeak, OwnRequests,
           Requests
  <1>3. CallsNumbered'
    BY QueueAssumption DEF QueueInv, QueueTypeOK, Threads, callerVars, LoadPeak, CallsNumbered,
           Requests, OwnRequests
  <1>4. UncountedIsShutdown'
    BY QueueAssumption DEF QueueInv, QueueTypeOK, Threads, callerVars, LoadPeak,
           UncountedIsShutdown, Holding, Requests, CallsNumbered
  <1>5. NumbersUsed'
    BY QueueAssumption DEF QueueInv, QueueTypeOK, Threads, callerVars, LoadPeak, NumbersUsed,
           Holding, Requests, OwnRequests
  <1>6. NotHandedOver'
    BY QueueAssumption DEF QueueInv, QueueTypeOK, Threads, callerVars, LoadPeak, NotHandedOver,
           Holding, Requests, OwnRequests, Refused, NumbersUsed,
           CallsNumbered, WaitingUnserved
  <1>7. WaitingUnserved'
    BY QueueAssumption DEF QueueInv, QueueTypeOK, Threads, callerVars, LoadPeak, WaitingUnserved,
           Holding, NotHandedOver, Requests, OwnRequests, Refused
  <1>8. QED
    BY <1>1, <1>2, <1>3, <1>4, <1>5, <1>6, <1>7 DEF CallInv

\* Health is answered like the rest.
LEMMA AnswerHealthKeeps ==
    ASSUME QueueInv, AnswerHealth
    PROVE  CallInv'
  <1>1. QueueTypeOK'
    BY QueueAssumption DEF QueueInv, QueueTypeOK, Threads, callerVars, AnswerHealth, Answer,
           AfterWait, Places, Stages, Refused, Requests, Kinds,
           OwnRequests
  <1>2. OwnRequests'
    BY QueueAssumption DEF QueueInv, QueueTypeOK, Threads, callerVars, AnswerHealth, Answer,
           AfterWait, OwnRequests, Requests
  <1>3. CallsNumbered'
    BY QueueAssumption DEF QueueInv, QueueTypeOK, Threads, callerVars, AnswerHealth, Answer,
           AfterWait, CallsNumbered, Requests, OwnRequests
  <1>4. UncountedIsShutdown'
    BY QueueAssumption DEF QueueInv, QueueTypeOK, Threads, callerVars, AnswerHealth, Answer,
           AfterWait, UncountedIsShutdown, Holding, Requests,
           CallsNumbered
  <1>5. NumbersUsed'
    BY QueueAssumption DEF QueueInv, QueueTypeOK, Threads, callerVars, AnswerHealth, Answer,
           AfterWait, NumbersUsed, Holding, Requests, OwnRequests
  <1>6. NotHandedOver'
    BY QueueAssumption DEF QueueInv, QueueTypeOK, Threads, callerVars, AnswerHealth, Answer,
           AfterWait, NotHandedOver, Holding, Requests, OwnRequests,
           Refused, NumbersUsed, CallsNumbered, WaitingUnserved
  <1>7. WaitingUnserved'
    BY QueueAssumption DEF QueueInv, QueueTypeOK, Threads, callerVars, AnswerHealth, Answer,
           AfterWait, WaitingUnserved, Holding, NotHandedOver,
           Requests, OwnRequests, Refused
  <1>8. QED
    BY <1>1, <1>2, <1>3, <1>4, <1>5, <1>6, <1>7 DEF CallInv

\* The watermark is stored.
LEMMA ResetWatermarkKeeps ==
    ASSUME QueueInv, ResetWatermark
    PROVE  CallInv'
  <1>1. QueueTypeOK'
    BY QueueAssumption DEF QueueInv, QueueTypeOK, Threads, callerVars, ResetWatermark, NoSample,
           Places, Stages, Refused, Requests, Kinds, OwnRequests
  <1>2. OwnRequests'
    BY QueueAssumption DEF QueueInv, QueueTypeOK, Threads, callerVars, ResetWatermark, NoSample,
           OwnRequests, Requests
  <1>3. CallsNumbered'
    BY QueueAssumption DEF QueueInv, QueueTypeOK, Threads, callerVars, ResetWatermark, NoSample,
           CallsNumbered, Requests, OwnRequests
  <1>4. UncountedIsShutdown'
    BY QueueAssumption DEF QueueInv, QueueTypeOK, Threads, callerVars, ResetWatermark, NoSample,
           UncountedIsShutdown, Holding, Requests, CallsNumbered
  <1>5. NumbersUsed'
    BY QueueAssumption DEF QueueInv, QueueTypeOK, Threads, callerVars, ResetWatermark, NoSample,
           NumbersUsed, Holding, Requests, OwnRequests
  <1>6. NotHandedOver'
    BY QueueAssumption DEF QueueInv, QueueTypeOK, Threads, callerVars, ResetWatermark, NoSample,
           NotHandedOver, Holding, Requests, OwnRequests, Refused,
           NumbersUsed, CallsNumbered, WaitingUnserved
  <1>7. WaitingUnserved'
    BY QueueAssumption DEF QueueInv, QueueTypeOK, Threads, callerVars, ResetWatermark, NoSample,
           WaitingUnserved, Holding, NotHandedOver, Requests,
           OwnRequests, Refused
  <1>8. QED
    BY <1>1, <1>2, <1>3, <1>4, <1>5, <1>6, <1>7 DEF CallInv

\* Whoever waits when the receiver goes was not served, and never will be.
LEMMA StopKeeps ==
    ASSUME QueueInv, Stop
    PROVE  CallInv'
  <1>1. QueueTypeOK'
    BY QueueAssumption DEF QueueInv, QueueTypeOK, Threads, callerVars, Stop, AfterWait, Places,
           Stages, Refused, Requests, Kinds, OwnRequests
  <1>2. OwnRequests'
    BY QueueAssumption DEF QueueInv, QueueTypeOK, Threads, callerVars, Stop, AfterWait,
           OwnRequests, Requests
  <1>3. CallsNumbered'
    BY QueueAssumption DEF QueueInv, QueueTypeOK, Threads, callerVars, Stop, AfterWait,
           CallsNumbered, Requests, OwnRequests
  <1>4. UncountedIsShutdown'
    BY QueueAssumption DEF QueueInv, QueueTypeOK, Threads, callerVars, Stop, AfterWait,
           UncountedIsShutdown, Holding, Requests, CallsNumbered
  <1>5. NumbersUsed'
    BY QueueAssumption DEF QueueInv, QueueTypeOK, Threads, callerVars, Stop, AfterWait,
           NumbersUsed, Holding, Requests, OwnRequests
  <1>6. NotHandedOver'
    BY QueueAssumption DEF QueueInv, QueueTypeOK, Threads, callerVars, Stop, AfterWait,
           NotHandedOver, Holding, Requests, OwnRequests, Refused,
           NumbersUsed, CallsNumbered, WaitingUnserved
  <1>7. WaitingUnserved'
    BY QueueAssumption DEF QueueInv, QueueTypeOK, Threads, callerVars, Stop, AfterWait,
           WaitingUnserved, Holding, NotHandedOver, Requests,
           OwnRequests, Refused
  <1>8. QED
    BY <1>1, <1>2, <1>3, <1>4, <1>5, <1>6, <1>7 DEF CallInv

----------------------------------------------------------------------------
(* The count.                                                              *)

\* A channel counts finitely many.
LEMMA CountedFinite ==
    ASSUME NEW q \in Seq(Requests)
    PROVE  IsFiniteSet(Counted(q)) /\ Cardinality(Counted(q)) \in Nat
  <1>1. Len(q) \in Int /\ 1 \in Int
    OBVIOUS
  <1>2. IsFiniteSet(1..Len(q))
    BY <1>1, FS_Interval
  <1>3. Counted(q) \in SUBSET (1..Len(q))
    BY DEF Counted
  <1>4. IsFiniteSet(Counted(q))
    BY <1>2, <1>3, FS_Subset
  <1>5. QED
    BY <1>4, FS_CardinalityType

\* What is counted can be counted.
LEMMA CountsFinite ==
    ASSUME QueueTypeOK
    PROVE  /\ IsFiniteSet(Counted(queue)) /\ Cardinality(Counted(queue)) \in Nat
           /\ IsFiniteSet(CountedCalls) /\ Cardinality(CountedCalls) \in Nat
  <1>1. IsFiniteSet(Counted(queue)) /\ Cardinality(Counted(queue)) \in Nat
    BY CountedFinite DEF QueueTypeOK
  <1>2. IsFiniteSet(Threads) /\ CountedCalls \in SUBSET Threads
    BY QueueAssumption, FS_AddElement DEF Threads, CountedCalls
  <1>3. QED
    BY <1>1, <1>2, FS_Subset, FS_CardinalityType

\* A request that enters the channel adds itself, if it was counted.
LEMMA AppendCounts ==
    ASSUME NEW q \in Seq(Requests), NEW r \in Requests
    PROVE  Cardinality(Counted(Append(q, r)))
              = Cardinality(Counted(q)) + (IF r.n > 0 THEN 1 ELSE 0)
  <1> DEFINE last == Len(q) + 1
  <1>1. IsFiniteSet(Counted(q)) /\ Cardinality(Counted(q)) \in Nat
    BY CountedFinite
  <1>2. Counted(Append(q, r)) = IF r.n > 0 THEN Counted(q) \cup {last} ELSE Counted(q)
    BY DEF Counted
  <1>3. last \notin Counted(q)
    BY DEF Counted
  <1>4. Cardinality(Counted(q) \cup {last}) = Cardinality(Counted(q)) + 1
    BY <1>1, <1>3, FS_AddElement
  <1>5. QED
    BY <1>1, <1>2, <1>4

\* The head of the channel takes itself away, if it was counted: the places
\* of the others move up by one.
LEMMA TailCounts ==
    ASSUME NEW q \in Seq(Requests), q # << >>
    PROVE  Cardinality(Counted(q))
              = Cardinality(Counted(Tail(q))) + (IF Head(q).n > 0 THEN 1 ELSE 0)
  <1> DEFINE rest == Counted(q) \ {1}
             up   == [i \in Counted(Tail(q)) |-> i + 1]
  <1>1. IsFiniteSet(Counted(q)) /\ Cardinality(Counted(q)) \in Nat
    BY CountedFinite
  <1>2. IsFiniteSet(Counted(Tail(q)))
    BY CountedFinite, HeadTailType
  <1>3. Cardinality(rest) = Cardinality(Counted(Tail(q)))
    <2>1. \A i \in Counted(Tail(q)) : i \in Nat /\ up[i] = i + 1 /\ up[i] \in rest
      BY DEF Counted
    <2>2. \A k \in rest : k - 1 \in Counted(Tail(q)) /\ up[k - 1] = k
      BY DEF Counted
    <2>3. up \in [Counted(Tail(q)) -> rest]
      BY <2>1
    <2>4. \A i, j \in Counted(Tail(q)) : up[i] = up[j] => i = j
      BY <2>1
    <2>5. up \in Injection(Counted(Tail(q)), rest)
      BY <2>3, <2>4 DEF Injection, IsInjective
    <2>6. up \in Surjection(Counted(Tail(q)), rest)
      BY <2>2, <2>3 DEF Surjection
    <2>7. QED
      BY <2>5, <2>6, <1>2, FS_Bijection DEF ExistsBijection, Bijection
  <1>4. 1 \in Counted(q) <=> Head(q).n > 0
    BY DEF Counted
  <1>5. Cardinality(rest) = IF 1 \in Counted(q) THEN Cardinality(Counted(q)) - 1
                                                ELSE Cardinality(Counted(q))
    BY <1>1, FS_RemoveElement
  <1>6. QED
    BY <1>1, <1>3, <1>4, <1>5

\* A thread enters or leaves the counted part of its call.
LEMMA CallsChange ==
    ASSUME QueueTypeOK, NEW t \in Threads, NEW place \in Places,
           at' = [at EXCEPT ![t] = place]
    PROVE  LET inside == {"marking", "publishing", "rolling"}
           IN  Cardinality(CountedCalls') =
                   IF at[t] \in inside
                   THEN IF place \in inside THEN Cardinality(CountedCalls)
                                            ELSE Cardinality(CountedCalls) - 1
                   ELSE IF place \in inside THEN Cardinality(CountedCalls) + 1
                                            ELSE Cardinality(CountedCalls)
  <1> DEFINE inside == {"marking", "publishing", "rolling"}
  <1>1. IsFiniteSet(CountedCalls) /\ Cardinality(CountedCalls) \in Nat
    BY CountsFinite
  <1>2. t \in CountedCalls <=> at[t] \in inside
    BY DEF CountedCalls
  <1>3. CountedCalls' = IF place \in inside THEN CountedCalls \cup {t} ELSE CountedCalls \ {t}
    BY DEF CountedCalls, QueueTypeOK
  <1>4. /\ Cardinality(CountedCalls \cup {t}) =
              IF t \in CountedCalls THEN Cardinality(CountedCalls) ELSE Cardinality(CountedCalls) + 1
        /\ Cardinality(CountedCalls \ {t}) =
              IF t \in CountedCalls THEN Cardinality(CountedCalls) - 1 ELSE Cardinality(CountedCalls)
    BY <1>1, FS_AddElement, FS_RemoveElement
  <1>5. QED
    BY <1>2, <1>3, <1>4

\* A step that touches neither the count nor what is counted.
LEMMA SameCount ==
    ASSUME PendingExact, pending' = pending, queue' = queue,
           Cardinality(CountedCalls') = Cardinality(CountedCalls),
           \/ worker' \in {"stopping", "stopped"}
           \/ worker' = worker /\ item' = item
           \/ /\ worker \notin {"taken", "stopping", "stopped"}
              /\ ~(worker = "serving" /\ item.n = 0)
              /\ worker' \notin {"taken"}
    PROVE  PendingExact'
  BY DEF PendingExact, Counted

\* The actions that move no request: the count stands.
LEMMA QuietStep ==
    ASSUME QueueInv, NEW t \in Threads,
           \/ Call(t) \/ CallStopped(t) \/ Shutdown(t) \/ Mark(t) \/ Refuse(t)
           \/ Timeout(t) \/ TakeSender(t) \/ Join(t) \/ ReleaseSender(t)
    PROVE  PendingExact'
  <1>1. UNCHANGED <<pending, queue, worker, item>>
    BY DEF Call, Begin, CallStopped, Shutdown, Mark, Refuse, Timeout, TakeSender, Join,
           ReleaseSender, workerVars
  <1>2. CountedCalls' = CountedCalls
    BY DEF QueueInv, QueueTypeOK, CountedCalls, Call, Begin, CallStopped, Shutdown, Mark,
           Refuse, Timeout, AfterWait, TakeSender, Join, ReleaseSender
  <1>3. QED
    BY <1>1, <1>2, SameCount DEF QueueInv

\* fetch_add counts the call that makes it.
LEMMA CountExact ==
    ASSUME QueueInv, NEW t \in Threads, Count(t)
    PROVE  PendingExact'
  <1>1. CASE worker \in {"stopping", "stopped"}
    BY <1>1 DEF Count, PendingExact, workerVars
  <1>2. CASE worker \notin {"stopping", "stopped"}
    <2>1. /\ pending' = pending + 1
          /\ at' = [at EXCEPT ![t] = "marking"]
          /\ at[t] = "counting"
          /\ UNCHANGED <<queue, worker, item>>
      BY <1>2 DEF Count, SharedAlive, workerVars
    <2>2. Cardinality(CountedCalls') = Cardinality(CountedCalls) + 1
      BY <2>1, CallsChange DEF QueueInv, Places
    <2>3. /\ Cardinality(Counted(queue)) \in Nat
          /\ Cardinality(CountedCalls) \in Nat
      BY CountsFinite DEF QueueInv
    <2>4. QED
      BY <2>1, <2>2, <2>3 DEF QueueInv, PendingExact
  <1>3. QED
    BY <1>1, <1>2

\* try_send hands the count over from the call to the channel.
LEMMA PublishExact ==
    ASSUME QueueInv, NEW t \in Threads, Publish(t)
    PROVE  PendingExact'
  <1>1. /\ queue' = Append(queue, req[t])
        /\ at' = [at EXCEPT ![t] = "waiting"]
        /\ at[t] = "publishing"
        /\ UNCHANGED <<pending, worker, item>>
    BY DEF Publish, workerVars
  <1>2. queue \in Seq(Requests) /\ req[t] \in Requests /\ req[t].n > 0
    BY <1>1 DEF QueueInv, QueueTypeOK, CallsNumbered
  <1>3. Cardinality(Counted(queue')) = Cardinality(Counted(queue)) + 1
    BY <1>1, <1>2, AppendCounts
  <1>4. Cardinality(CountedCalls') = Cardinality(CountedCalls) - 1
    BY <1>1, CallsChange DEF QueueInv, Places
  <1>5. /\ Cardinality(Counted(queue)) \in Nat
        /\ Cardinality(CountedCalls) \in Nat
    BY CountsFinite DEF QueueInv
  <1>6. QED
    BY <1>1, <1>3, <1>4, <1>5 DEF QueueInv, PendingExact

\* record_dequeue takes back what its own call has counted: the count is not
\* at its floor.
LEMMA RollBackExact ==
    ASSUME QueueInv, NEW t \in Threads, RollBack(t)
    PROVE  PendingExact'
  <1>1. CASE worker \in {"stopping", "stopped"} \/ (worker = "serving" /\ item.n = 0)
    BY <1>1 DEF RollBack, PendingExact, workerVars
  <1>2. CASE ~(worker \in {"stopping", "stopped"} \/ (worker = "serving" /\ item.n = 0))
    <2>1. /\ pending' = Decremented(pending)
          /\ UNCHANGED <<queue, worker, item>>
          /\ at[t] = "rolling"
      BY <1>2 DEF RollBack, SharedAlive, workerVars
    <2>2. Cardinality(CountedCalls') = Cardinality(CountedCalls) - 1
      BY <2>1, CallsChange DEF QueueInv, Places, RollBack
    <2>3. /\ Cardinality(Counted(queue)) \in Nat
          /\ Cardinality(CountedCalls) \in Nat
          /\ IsFiniteSet(CountedCalls)
      BY CountsFinite DEF QueueInv
    <2>4. Cardinality(CountedCalls) > 0
      <3>1. t \in CountedCalls
        BY <2>1 DEF CountedCalls
      <3>2. QED
        BY <3>1, <2>3, FS_EmptySet
    <2>5. pending = Cardinality(Counted(queue))
                      + (IF worker = "taken" /\ item.n > 0 THEN 1 ELSE 0)
                      + Cardinality(CountedCalls)
      BY <1>2 DEF QueueInv, PendingExact
    <2>6. pending' = pending - 1
      BY <2>1, <2>3, <2>4, <2>5 DEF Decremented
    <2>7. QED
      BY <2>1, <2>2, <2>3, <2>5, <2>6 DEF PendingExact
  <1>3. QED
    BY <1>1, <1>2

\* The Shutdown of Drop is not counted and does not count.
LEMMA DropExact ==
    ASSUME QueueInv, NEW t \in Threads, DropWorker(t)
    PROVE  PendingExact'
  <1> DEFINE last == [from |-> t, n |-> 0, kind |-> "shutdown"]
  <1>1. last \in Requests /\ queue \in Seq(Requests)
    BY QueueAssumption DEF QueueInv, QueueTypeOK, Requests, Kinds
  <1>2. Cardinality(Counted(Append(queue, last))) = Cardinality(Counted(queue))
    BY <1>1, AppendCounts, CountsFinite DEF QueueInv
  <1>3. Cardinality(Counted(queue')) = Cardinality(Counted(queue))
    BY <1>2 DEF DropWorker
  <1>4. Cardinality(CountedCalls') = Cardinality(CountedCalls)
    BY CallsChange DEF QueueInv, Places, DropWorker
  <1>5. UNCHANGED <<pending, worker, item>>
    BY DEF DropWorker, workerVars
  <1>6. QED
    BY <1>3, <1>4, <1>5 DEF QueueInv, PendingExact

\* recv hands the count over from the channel to the worker.
LEMMA ReceiveExact ==
    ASSUME QueueInv, Receive
    PROVE  PendingExact'
  <1>1. /\ queue \in Seq(Requests) /\ queue # << >>
        /\ queue' = Tail(queue) /\ item' = Head(queue)
        /\ worker = "receiving" /\ worker' = "taken"
        /\ UNCHANGED <<pending, at>>
    BY DEF QueueInv, QueueTypeOK, Receive, callerVars
  <1>2. Cardinality(Counted(queue)) = Cardinality(Counted(queue'))
                                        + (IF item'.n > 0 THEN 1 ELSE 0)
    BY <1>1, TailCounts
  <1>3. CountedCalls' = CountedCalls
    BY <1>1 DEF CountedCalls
  <1>4. /\ Cardinality(Counted(queue')) \in Nat
        /\ Cardinality(CountedCalls) \in Nat
    BY <1>1, HeadTailType, CountedFinite, CountsFinite DEF QueueInv
  <1>5. QED
    BY <1>1, <1>2, <1>3, <1>4 DEF QueueInv, PendingExact

\* record_processed takes back what it has taken; an uncounted Shutdown ends
\* the claim instead.
LEMMA ProcessedExact ==
    ASSUME QueueInv, RecordProcessed
    PROVE  PendingExact'
  <1>1. /\ worker = "taken" /\ worker' = "serving"
        /\ pending' = Decremented(pending)
        /\ UNCHANGED <<queue, item, at>>
    BY DEF RecordProcessed, callerVars
  <1>2. CountedCalls' = CountedCalls
    BY <1>1 DEF CountedCalls
  <1>3. /\ Cardinality(Counted(queue)) \in Nat
        /\ Cardinality(CountedCalls) \in Nat
        /\ item.n \in Nat
    BY CountsFinite DEF QueueInv, QueueTypeOK, Requests
  <1>4. CASE item.n = 0
    BY <1>1, <1>4 DEF PendingExact
  <1>5. CASE item.n > 0
    <2>1. pending = Cardinality(Counted(queue)) + 1 + Cardinality(CountedCalls)
      BY <1>1, <1>5 DEF QueueInv, PendingExact
    <2>2. QED
      BY <1>1, <1>2, <1>3, <1>5, <2>1 DEF PendingExact, Decremented
  <1>6. QED
    BY <1>3, <1>4, <1>5

\* The rest of the worker's steps move no request either.
LEMMA WorkerQuiet ==
    ASSUME QueueInv,
           \/ Disconnected \/ ServeWork \/ ServeShutdown \/ LoadDepth \/ LoadPeak
           \/ AnswerHealth \/ ResetWatermark
    PROVE  PendingExact'
  <1>1. UNCHANGED <<pending, queue>>
    BY DEF Disconnected, ServeWork, ServeShutdown, LoadDepth, LoadPeak, AnswerHealth,
           ResetWatermark
  <1>2. CountedCalls' = CountedCalls
    <2>1. CASE ServeWork \/ ServeShutdown \/ AnswerHealth
      BY <2>1 DEF QueueInv, QueueTypeOK, CountedCalls, ServeWork, ServeShutdown, AnswerHealth,
             Answer, AfterWait
    <2>2. CASE Disconnected \/ LoadDepth \/ LoadPeak \/ ResetWatermark
      BY <2>2 DEF CountedCalls, Disconnected, LoadDepth, LoadPeak, ResetWatermark, callerVars
    <2>3. QED
      BY <2>1, <2>2
  <1>3. \/ worker' \in {"stopping", "stopped"}
        \/ /\ worker \notin {"taken", "stopping", "stopped"}
           /\ ~(worker = "serving" /\ item.n = 0)
           /\ worker' \notin {"taken"}
    BY DEF QueueInv, UncountedIsShutdown, Holding, Disconnected, ServeWork, ServeShutdown,
           LoadDepth, LoadPeak, AnswerHealth, ResetWatermark
  <1>4. QED
    BY <1>1, <1>2, <1>3, SameCount DEF QueueInv

----------------------------------------------------------------------------
(* The invariant and what follows from it                                  *)

LEMMA QueueInit_Inv == QueueInit => QueueInv
  <1> SUFFICES ASSUME QueueInit PROVE QueueInv
    OBVIOUS
  <1>1. QueueTypeOK
    BY QueueAssumption DEF QueueInit, QueueTypeOK, Requests, Kinds, Threads, Places, Stages,
         Refused, NoSample
  <1>2. OwnRequests /\ CallsNumbered /\ UncountedIsShutdown
    BY QueueAssumption DEF QueueInit, OwnRequests, CallsNumbered, UncountedIsShutdown, Holding,
         Threads
  <1>3. NumbersUsed /\ NotHandedOver /\ WaitingUnserved
    BY DEF QueueInit, NumbersUsed, NotHandedOver, WaitingUnserved, Holding, Refused
  <1>4. PendingExact
    <2>1. Counted(queue) = {} /\ CountedCalls = {} /\ pending = 0 /\ worker = "receiving"
      BY DEF QueueInit, Counted, CountedCalls
    <2>2. QED
      BY <2>1, FS_EmptySet DEF PendingExact
  <1>5. QED
    BY <1>1, <1>2, <1>3, <1>4 DEF QueueInv

LEMMA QueueNext_Inv == QueueInv /\ [QueueNext]_queueVars => QueueInv'
  <1> SUFFICES ASSUME QueueInv, [QueueNext]_queueVars PROVE QueueInv'
    OBVIOUS
  <1>1. ASSUME NEW t \in Threads,
               Call(t) \/ CallStopped(t) \/ Shutdown(t) \/ DropWorker(t) \/ CallStep(t)
        PROVE  CallInv' /\ PendingExact'
    BY <1>1, CallKeeps, CallStoppedKeeps, ShutdownKeeps, DropWorkerKeeps, CountKeeps,
       MarkKeeps, PublishKeeps, RefuseKeeps, RollBackKeeps, TimeoutKeeps, TakeSenderKeeps,
       JoinKeeps, ReleaseSenderKeeps, QuietStep, CountExact, PublishExact, RollBackExact,
       DropExact DEF CallStep
  <1>2. ASSUME WorkerStep
        PROVE  CallInv' /\ PendingExact'
    <2>1. CASE Stop
      <3>1. PendingExact'
        BY <2>1 DEF Stop, PendingExact
      <3>2. QED
        BY <2>1, <3>1, StopKeeps
    <2>2. CASE ~Stop
      BY <1>2, <2>2, ReceiveKeeps, DisconnectedKeeps, RecordProcessedKeeps, ServeWorkKeeps,
         ServeShutdownKeeps, LoadDepthKeeps, LoadPeakKeeps, AnswerHealthKeeps,
         ResetWatermarkKeeps, ReceiveExact, ProcessedExact, WorkerQuiet DEF WorkerStep
    <2>3. QED
      BY <2>1, <2>2
  <1>3. ASSUME UNCHANGED queueVars
        PROVE  CallInv' /\ PendingExact'
    <2>1. CallInv'
      BY <1>3 DEF queueVars, callerVars, workerVars, QueueInv, CallInv, QueueTypeOK,
           OwnRequests, CallsNumbered, UncountedIsShutdown, NumbersUsed, NotHandedOver,
           WaitingUnserved, Holding
    <2>2. PendingExact'
      BY <1>3 DEF queueVars, callerVars, workerVars, QueueInv, PendingExact, Counted,
           CountedCalls
    <2>3. QED
      BY <2>1, <2>2
  <1>4. QED
    BY <1>1, <1>2, <1>3 DEF QueueNext, QueueInv, CallInv

\* QueueInv holds of every reachable state of the queue: of the counters, the
\* channel, the calls and writer_loop together.
THEOREM QueueInvariance == QueueSpec => []QueueInv
  BY QueueInit_Inv, QueueNext_Inv, PTL DEF QueueSpec

\* The depth that health reports is exact: every request in the channel, the
\* one the worker has just taken and every call between its fetch_add and its
\* try_send or rollback is counted once, however they interleave.
THEOREM PendingIsExact == QueueSpec => []PendingExact
  <1>1. QueueInv => PendingExact
    BY DEF QueueInv
  <1>2. QED
    BY <1>1, QueueInvariance, PTL

\* A call that was told QueueFull or WorkerStopped has not been served and
\* never will be: the caller may repeat it.
THEOREM RefusedIsNotServed == QueueSpec => []RefusedNotServed
  <1>1. QueueInv => RefusedNotServed
    BY DEF QueueInv, NotHandedOver, RefusedNotServed, Refused
  <1>2. QED
    BY <1>1, QueueInvariance, PTL
=============================================================================
