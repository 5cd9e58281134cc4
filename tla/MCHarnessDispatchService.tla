--------------------- MODULE MCHarnessDispatchService ---------------------
(***************************************************************************)
(* HarnessDispatchService for TLC.  Each configuration turns one of the    *)
(* hard things on: late answers (Progress), concurrent and repeated calls  *)
(* of two clients (Repeat), two requests for one directory across restarts *)
(* (Contention).                                                           *)
(***************************************************************************)
EXTENDS HarnessDispatchService, TLC

\* The log of the table and the calls that lapsed are history: no step reads
\* them, and the lease does not speak of them.
WithoutHistory ==
    <<rows, defective, detected, open, claims, epoch,
      queue, calls, accepting, pc, signal, fences, procs, strays>>

\* No step but its own end reads or changes a stray, and neither the promises
\* about callers and attempts nor their fairness speak of it: states that
\* differ in strays alone go on alike.
WithoutStrays ==
    <<rows, events, defective, detected, open, claims, epoch,
      queue, calls, accepting, pc, signal, fences, procs, lapsed>>

ServiceSymmetry == Permutations(Requests) \cup Permutations(Clients)
=============================================================================
