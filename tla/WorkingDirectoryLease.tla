----------------------- MODULE WorkingDirectoryLease -----------------------
(***************************************************************************)
(* What harness dispatch promises about a working directory, without       *)
(* queue, table or tasks: a request holds the directory before its vendor  *)
(* process works there and until the process was ended.  Ending it is not  *)
(* verified: a process may go astray, work on, and the lease may end over  *)
(* it.  A restart parks the lease of an interrupted request, because its   *)
(* process may still be at work, astray or not; only an operator gives up  *)
(* a parked lease.                                                         *)
(***************************************************************************)
CONSTANTS Requests, Resources

VARIABLES holder,   \* the request that holds a directory, if any
          parked,   \* directories whose holder was interrupted
          working,  \* requests with a process at work, per directory
          astray    \* requests with a process that outlived its end

leaseVars == <<holder, parked, working, astray>>

Nobody == "nobody"

LeaseInit ==
    /\ holder  = [d \in Resources |-> Nobody]
    /\ parked  = {}
    /\ working = [d \in Resources |-> {}]
    /\ astray  = [d \in Resources |-> {}]

Acquire(d, r) ==
    /\ holder[d] = Nobody
    /\ holder' = [holder EXCEPT ![d] = r]
    /\ UNCHANGED <<parked, working, astray>>

\* A process starts only for the holder of a lease that is not parked, and
\* only once.
Begin(d) ==
    /\ holder[d] # Nobody
    /\ d \notin parked
    /\ holder[d] \notin working[d] \cup astray[d]
    /\ working' = [working EXCEPT ![d] = @ \cup {holder[d]}]
    /\ UNCHANGED <<holder, parked, astray>>

\* Processes end: one by itself, or several with the daemon.  One that was to
\* end may go astray.
End ==
    /\ \A d \in Resources :
          /\ working'[d] \subseteq working[d]
          /\ astray'[d] \subseteq astray[d] \cup (working[d] \ working'[d])
    /\ DOMAIN working' = Resources /\ DOMAIN astray' = Resources
    /\ UNCHANGED <<holder, parked>>

\* A lease in good standing ends only after its process was ended.
Release(d) ==
    /\ holder[d] # Nobody
    /\ d \notin parked
    /\ holder[d] \notin working[d]
    /\ holder' = [holder EXCEPT ![d] = Nobody]
    /\ UNCHANGED <<parked, working, astray>>

\* The operator's decision, whether or not the process is still there.
GiveUp(d) ==
    /\ d \in parked
    /\ holder' = [holder EXCEPT ![d] = Nobody]
    /\ parked' = parked \ {d}
    /\ UNCHANGED <<working, astray>>

\* A restart: every lease is parked, or released if nothing works for it.
Recover ==
    /\ \E released \in SUBSET (Resources \ parked) :
          /\ \A d \in released : holder[d] \notin working[d] \cup astray[d]
          /\ holder' = [d \in Resources |-> IF d \in released THEN Nobody ELSE holder[d]]
          /\ parked' = {d \in Resources : holder'[d] # Nobody}
    /\ UNCHANGED <<working, astray>>

LeaseNext ==
    \/ \E d \in Resources, r \in Requests : Acquire(d, r)
    \/ \E d \in Resources : Begin(d) \/ Release(d) \/ GiveUp(d)
    \/ End
    \/ Recover

LeaseSpec == LeaseInit /\ [][LeaseNext]_leaseVars

=============================================================================
