----------------------------- MODULE WriterLock -----------------------------
(***************************************************************************)
(* The lock files that make one daemon the only writer of a project's      *)
(* database, and the operator's recovery of what a killed daemon left.     *)
(* (vibemuxd/src/lib.rs: LifecycleLock, CompatibilityLock and the start    *)
(* and end of the writer; vibemuxd/src/recovery.rs and                     *)
(* vibemux_cli/src/recovery.rs: inspect and recover.)                      *)
(*                                                                         *)
(* A daemon takes the lock at the legacy path first and then its own; an   *)
(* older release knows only the legacy path.  A lock file holds the nonce  *)
(* of its owner, which is unique and names its process; here the nonce is  *)
(* the generation itself.  File operations are separate steps.             *)
(***************************************************************************)
EXTENDS Naturals

CONSTANTS Generations,  \* starts of a daemon, each a process of its own
          Old           \* those of a release that has only the legacy lock

ASSUME LockAssumption ==
    /\ Old \subseteq Generations
    /\ "free" \notin Generations
    /\ "blank" \notin Generations

VARIABLES file,   \* what each lock file holds: "free" if there is none
          stage,  \* where a generation is
          held,   \* how many of its locks a generation has acquired
          step,   \* where the recovery command is
          snap    \* the contents it has read

lockVars == <<file, stage, held, step, snap>>

Paths == {"legacy", "current"}

\* The n-th lock a generation takes.
LockPath(n) == IF n = 1 THEN "legacy" ELSE "current"

LocksOf(g) == IF g \in Old THEN 1 ELSE 2

Stages == {"new", "creating", "taking", "locked", "open", "releasing", "removing",
           "gone", "killed"}

\* process_is_present, for the process that generation g was.
Present(g) == stage[g] \notin {"new", "gone", "killed"}

----------------------------------------------------------------------------
(* LifecycleLock::acquire_path, for the next lock                          *)

NextPath(g) == LockPath(held[g] + 1)

\* create_new: fails when the file exists, whoever made it.
Create(g) ==
    /\ stage[g] \in {"new", "taking"}
    /\ file[NextPath(g)] = "free"
    /\ file' = [file EXCEPT ![NextPath(g)] = "blank"]
    /\ stage' = [stage EXCEPT ![g] = "creating"]
    /\ UNCHANGED <<held, step, snap>>

\* Mutant: a lock file that exists counts as acquired.
LockHeldIgnored(g) ==
    /\ stage[g] \in {"new", "taking"}
    /\ file[NextPath(g)] # "free"
    /\ stage' = [stage EXCEPT ![g] = "locked"]
    /\ UNCHANGED <<file, held, step, snap>>

LockHeld(g) ==
    /\ stage[g] \in {"new", "taking"}
    /\ file[NextPath(g)] # "free"
    /\ stage' = [stage EXCEPT ![g] = "releasing"]
    /\ UNCHANGED <<file, held, step, snap>>

WriteNonce(g) ==
    /\ stage[g] = "creating"
    /\ file' = [file EXCEPT ![NextPath(g)] = g]
    /\ held' = [held EXCEPT ![g] = @ + 1]
    /\ stage' = [stage EXCEPT ![g] = IF held[g] + 1 = LocksOf(g) THEN "locked" ELSE "taking"]
    /\ UNCHANGED <<step, snap>>

\* The nonce cannot be written or synced: the file just made is removed.
WriteFails(g) ==
    /\ stage[g] = "creating"
    /\ file' = [file EXCEPT ![NextPath(g)] = "free"]
    /\ stage' = [stage EXCEPT ![g] = "releasing"]
    /\ UNCHANGED <<held, step, snap>>

----------------------------------------------------------------------------
(* The writer thread's hold on the database                                *)

OpenStore(g) ==
    /\ stage[g] = "locked"
    /\ stage' = [stage EXCEPT ![g] = "open"]
    /\ UNCHANGED <<file, held, step, snap>>

\* The store does not open or recover, or the start times out.
OpenFails(g) ==
    /\ stage[g] = "locked"
    /\ stage' = [stage EXCEPT ![g] = "releasing"]
    /\ UNCHANGED <<file, held, step, snap>>

\* writer_loop ends: the store is dropped before the locks.
CloseStore(g) ==
    /\ stage[g] = "open"
    /\ stage' = [stage EXCEPT ![g] = "releasing"]
    /\ UNCHANGED <<file, held, step, snap>>

\* LifecycleLock::drop, the lock taken last first: is_held, and only then
\* the removal; a file with another nonce is left alone.
CheckHeld(g) ==
    /\ stage[g] = "releasing"
    /\ held[g] > 0
    /\ IF file[LockPath(held[g])] = g
       THEN stage' = [stage EXCEPT ![g] = "removing"] /\ held' = held
       ELSE held' = [held EXCEPT ![g] = @ - 1] /\ stage' = stage
    /\ UNCHANGED <<file, step, snap>>

RemoveLock(g) ==
    /\ stage[g] = "removing"
    /\ file' = [file EXCEPT ![LockPath(held[g])] = "free"]
    /\ held' = [held EXCEPT ![g] = @ - 1]
    /\ stage' = [stage EXCEPT ![g] = "releasing"]
    /\ UNCHANGED <<step, snap>>

Leave(g) ==
    /\ stage[g] = "releasing"
    /\ held[g] = 0
    /\ stage' = [stage EXCEPT ![g] = "gone"]
    /\ UNCHANGED <<file, held, step, snap>>

\* The process is killed; its files stay.
Kill(g) ==
    /\ Present(g)
    /\ stage' = [stage EXCEPT ![g] = "killed"]
    /\ UNCHANGED <<file, held, step, snap>>

----------------------------------------------------------------------------
(* daemon recover: one command at a time.  build_recovery_plan reads the   *)
(* two locks one after the other; a lock that does not parse blocks it.    *)

NoSnap == [p \in Paths |-> "free"]

ReadCurrent ==
    /\ step = "idle"
    /\ file["current"] # "blank"
    /\ snap' = [snap EXCEPT !["current"] = file["current"]]
    /\ step' = "read"
    /\ UNCHANGED <<file, stage, held>>

ReadLegacy ==
    /\ step = "read"
    /\ IF file["legacy"] = "blank"
       THEN snap' = NoSnap /\ step' = "idle"
       ELSE snap' = [snap EXCEPT !["legacy"] = file["legacy"]] /\ step' = "planned"
    /\ UNCHANGED <<file, stage, held>>

\* The processes the snapshots name.
Owners == {snap[p] : p \in Paths} \ {"free"}

\* Mutant: a lock whose owner does not answer is taken for stale.
ConfirmUnseen ==
    /\ step = "planned"
    /\ IF \E g \in Generations : Owners = {g}
       THEN snap' = snap /\ step' = "compare_current"
       ELSE snap' = NoSnap /\ step' = "idle"
    /\ UNCHANGED <<file, stage, held>>

\* All artifacts name the same process and that process is absent.
Confirm ==
    /\ step = "planned"
    /\ IF \E g \in Generations : Owners = {g} /\ ~Present(g)
       THEN snap' = snap /\ step' = "compare_current"
       ELSE snap' = NoSnap /\ step' = "idle"
    /\ UNCHANGED <<file, stage, held>>

\* remove_if_unchanged: the file is read again, then removed.
Compare(at, p, delete, next) ==
    /\ step = at
    /\ \/ snap[p] = "free"       /\ step' = next   /\ snap' = snap
       \/ snap[p] # "free" /\ file[p] = snap[p]  /\ step' = delete /\ snap' = snap
       \/ snap[p] # "free" /\ file[p] # snap[p]  /\ step' = "idle" /\ snap' = NoSnap
    /\ UNCHANGED <<file, stage, held>>

Delete(at, p, next) ==
    /\ step = at
    /\ file' = [file EXCEPT ![p] = "free"]
    /\ step' = next
    /\ UNCHANGED <<stage, held, snap>>

CompareCurrent == Compare("compare_current", "current", "delete_current", "compare_legacy")
DeleteCurrent  == Delete("delete_current", "current", "compare_legacy")
CompareLegacy  == Compare("compare_legacy", "legacy", "delete_legacy", "done")
DeleteLegacy   == Delete("delete_legacy", "legacy", "done")

\* The command reports, or is interrupted with its work half done.
EndCommand ==
    /\ step # "idle"
    /\ step' = "idle"
    /\ snap' = NoSnap
    /\ UNCHANGED <<file, stage, held>>

----------------------------------------------------------------------------
LockInit ==
    /\ file  = [p \in Paths |-> "free"]
    /\ stage = [g \in Generations |-> "new"]
    /\ held  = [g \in Generations |-> 0]
    /\ step  = "idle"
    /\ snap  = NoSnap

DaemonStep(g) ==
    \/ Create(g) \/ LockHeld(g) \/ WriteNonce(g) \/ WriteFails(g)
    \/ OpenStore(g) \/ OpenFails(g) \/ CloseStore(g)
    \/ CheckHeld(g) \/ RemoveLock(g) \/ Leave(g)

RecoverStep ==
    \/ ReadCurrent \/ ReadLegacy \/ Confirm
    \/ CompareCurrent \/ DeleteCurrent \/ CompareLegacy \/ DeleteLegacy \/ EndCommand

LockNext ==
    \/ \E g \in Generations : DaemonStep(g) \/ Kill(g)
    \/ RecoverStep

LockSpec == LockInit /\ [][LockNext]_lockVars

----------------------------------------------------------------------------
(* The single-writer promise.                                              *)

\* At most one generation has the database open, of this release or an older
\* one, whatever was killed and recovered in between (ADR 018, ADR 019).
SingleWriter ==
    \A g, h \in Generations : stage[g] = "open" /\ stage[h] = "open" => g = h

\* A present process never loses a lock it holds, neither to another start
\* nor to a recovery that read the files before it came.
LocksKept ==
    \A g \in Generations : Present(g) =>
        \A n \in 1..held[g] : file[LockPath(n)] = g

LockTypeOK ==
    /\ file \in [Paths -> Generations \cup {"free", "blank"}]
    /\ stage \in [Generations -> Stages]
    /\ held \in [Generations -> 0..2]
    /\ step \in {"idle", "read", "planned", "compare_current", "delete_current",
                 "compare_legacy", "delete_legacy", "done"}
    /\ snap \in [Paths -> Generations \cup {"free"}]

\* A generation that makes a file has it to itself; the database is open
\* only under all the locks.
StagesAgree ==
    \A g \in Generations :
        /\ stage[g] = "new" => held[g] = 0
        /\ stage[g] = "taking" => held[g] = 1 /\ LocksOf(g) = 2
        /\ stage[g] = "creating" => held[g] < LocksOf(g) /\ file[NextPath(g)] = "blank"
        /\ stage[g] \in {"locked", "open"} => held[g] = LocksOf(g)
        /\ stage[g] = "removing" => held[g] > 0

SoleCreator ==
    \A g, h \in Generations :
        stage[g] = "creating" /\ stage[h] = "creating" /\ held[g] = held[h] => g = h

\* What the command is about to remove belongs to an absent process, and a
\* file about to be deleted is still the one that was compared.
StaleOnly ==
    /\ step \in {"compare_current", "delete_current", "compare_legacy", "delete_legacy"} =>
          \A p \in Paths : snap[p] # "free" => ~Present(snap[p]) /\ stage[snap[p]] # "new"
    /\ step = "delete_current" => snap["current"] # "free" /\ file["current"] = snap["current"]
    /\ step = "delete_legacy"  => snap["legacy"] # "free" /\ file["legacy"] = snap["legacy"]

\* A nonce is that of a process that has started.
NoncesUsed ==
    /\ \A p \in Paths : file[p] \in Generations => stage[file[p]] # "new"
    /\ \A p \in Paths : snap[p] \in Generations => stage[snap[p]] # "new"

\* The inductive invariant behind SingleWriter and LocksKept.
LockInv ==
    /\ LockTypeOK
    /\ LocksKept
    /\ StagesAgree
    /\ SoleCreator
    /\ StaleOnly
    /\ NoncesUsed
=============================================================================
