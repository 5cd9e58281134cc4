------------------------- MODULE WriterLock_proofs -------------------------
(***************************************************************************)
(* Proofs about WriterLock, for every set of generations, old and new, and *)
(* every interleaving of starts, kills and recovery commands.              *)
(*                                                                         *)
(* LockInv is inductive.  Its heart is StaleOnly: the file the recovery    *)
(* command deletes is that of an absent process, which cannot come back,   *)
(* and no start overwrites a file that exists; so the file compared is     *)
(* still the file deleted, although the two are separate steps.            *)
(***************************************************************************)
EXTENDS WriterLock, TLAPS

----------------------------------------------------------------------------
(* One lemma per action, one step per conjunct of LockInv.                 *)

\* create_new: the path was free, so nobody loses a lock or shares the new file.
LEMMA CreateKeeps ==
    ASSUME LockInv, NEW g \in Generations, Create(g)
    PROVE  LockInv'
  <1>1. LockTypeOK'
    BY LockAssumption, SMTT(5) DEF LockInv, LockTypeOK, Paths, Create,
         Stages, NextPath, LockPath
  <1>2. LocksKept'
    BY LockAssumption, SMTT(5) DEF LockInv, LockTypeOK, Paths, Create,
         LocksKept, Present, StagesAgree, NextPath, LockPath
  <1>3. StagesAgree'
    BY LockAssumption, SMTT(5) DEF LockInv, LockTypeOK, Paths, Create,
         StagesAgree, LocksOf, NextPath, LockPath
  <1>4. SoleCreator'
    BY LockAssumption, SMTT(5) DEF LockInv, LockTypeOK, Paths, Create,
         SoleCreator, NextPath, LockPath, StagesAgree, LocksOf
  <1>5. StaleOnly'
    BY LockAssumption, SMTT(5) DEF LockInv, LockTypeOK, Paths, Create,
         StaleOnly, Present
  <1>6. NoncesUsed'
    BY LockAssumption, SMTT(5) DEF LockInv, LockTypeOK, Paths, Create,
         NoncesUsed
  <1>7. QED
    BY <1>1, <1>2, <1>3, <1>4, <1>5, <1>6 DEF LockInv

\* A start that finds a lock file changes no file.
LEMMA LockHeldKeeps ==
    ASSUME LockInv, NEW g \in Generations, LockHeld(g)
    PROVE  LockInv'
  <1>1. LockTypeOK'
    BY LockAssumption, SMTT(5) DEF LockInv, LockTypeOK, Paths, LockHeld,
         Stages
  <1>2. LocksKept'
    BY LockAssumption, SMTT(5) DEF LockInv, LockTypeOK, Paths, LockHeld,
         LocksKept, Present, StagesAgree, NextPath, LockPath
  <1>3. StagesAgree'
    BY LockAssumption, SMTT(5) DEF LockInv, LockTypeOK, Paths, LockHeld,
         StagesAgree, NextPath, LockPath
  <1>4. SoleCreator'
    BY LockAssumption, SMTT(5) DEF LockInv, LockTypeOK, Paths, LockHeld,
         SoleCreator
  <1>5. StaleOnly'
    BY LockAssumption, SMTT(5) DEF LockInv, LockTypeOK, Paths, LockHeld,
         StaleOnly, Present
  <1>6. NoncesUsed'
    BY LockAssumption, SMTT(5) DEF LockInv, LockTypeOK, Paths, LockHeld,
         NoncesUsed
  <1>7. QED
    BY <1>1, <1>2, <1>3, <1>4, <1>5, <1>6 DEF LockInv

\* The nonce goes into the file this start created and nobody else holds.
LEMMA WriteNonceKeeps ==
    ASSUME LockInv, NEW g \in Generations, WriteNonce(g)
    PROVE  LockInv'
  <1>1. LockTypeOK'
    BY LockAssumption, SMTT(5) DEF LockInv, LockTypeOK, Paths, WriteNonce,
         Stages, NextPath, LockPath, StagesAgree, LocksOf
  <1>2. LocksKept'
    BY LockAssumption, SMTT(5) DEF LockInv, LockTypeOK, Paths, WriteNonce,
         LocksKept, Present, StagesAgree, NextPath, LockPath
  <1>3. StagesAgree'
    BY LockAssumption, SMTT(5) DEF LockInv, LockTypeOK, Paths, WriteNonce,
         StagesAgree, LocksOf, SoleCreator, NextPath, LockPath
  <1>4. SoleCreator'
    BY LockAssumption, SMTT(5) DEF LockInv, LockTypeOK, Paths, WriteNonce,
         SoleCreator
  <1>5. StaleOnly'
    BY LockAssumption, SMTT(5) DEF LockInv, LockTypeOK, Paths, WriteNonce,
         StaleOnly, Present, NoncesUsed, StagesAgree, LocksOf, NextPath,
         LockPath
  <1>6. NoncesUsed'
    BY LockAssumption, SMTT(5) DEF LockInv, LockTypeOK, Paths, WriteNonce,
         NoncesUsed
  <1>7. QED
    BY <1>1, <1>2, <1>3, <1>4, <1>5, <1>6 DEF LockInv

\* The file removed after a failed write is the one just created.
LEMMA WriteFailsKeeps ==
    ASSUME LockInv, NEW g \in Generations, WriteFails(g)
    PROVE  LockInv'
  <1>1. LockTypeOK'
    BY LockAssumption, SMTT(5) DEF LockInv, LockTypeOK, Paths, WriteFails,
         Stages, NextPath, LockPath
  <1>2. LocksKept'
    BY LockAssumption, SMTT(5) DEF LockInv, LockTypeOK, Paths, WriteFails,
         LocksKept, Present, StagesAgree, NextPath, LockPath
  <1>3. StagesAgree'
    BY LockAssumption, SMTT(5) DEF LockInv, LockTypeOK, Paths, WriteFails,
         StagesAgree, LocksOf, SoleCreator, NextPath, LockPath
  <1>4. SoleCreator'
    BY LockAssumption, SMTT(5) DEF LockInv, LockTypeOK, Paths, WriteFails,
         SoleCreator
  <1>5. StaleOnly'
    BY LockAssumption, SMTT(5) DEF LockInv, LockTypeOK, Paths, WriteFails,
         StaleOnly, Present, NoncesUsed, StagesAgree, LocksOf, NextPath,
         LockPath
  <1>6. NoncesUsed'
    BY LockAssumption, SMTT(5) DEF LockInv, LockTypeOK, Paths, WriteFails,
         NoncesUsed
  <1>7. QED
    BY <1>1, <1>2, <1>3, <1>4, <1>5, <1>6 DEF LockInv

\* The database is opened under all the locks.
LEMMA OpenStoreKeeps ==
    ASSUME LockInv, NEW g \in Generations, OpenStore(g)
    PROVE  LockInv'
  <1>1. LockTypeOK'
    BY LockAssumption, SMTT(5) DEF LockInv, LockTypeOK, Paths, OpenStore,
         Stages
  <1>2. LocksKept'
    BY LockAssumption, SMTT(5) DEF LockInv, LockTypeOK, Paths, OpenStore,
         LocksKept, Present
  <1>3. StagesAgree'
    BY LockAssumption, SMTT(5) DEF LockInv, LockTypeOK, Paths, OpenStore,
         StagesAgree, NextPath, LockPath
  <1>4. SoleCreator'
    BY LockAssumption, SMTT(5) DEF LockInv, LockTypeOK, Paths, OpenStore,
         SoleCreator
  <1>5. StaleOnly'
    BY LockAssumption, SMTT(5) DEF LockInv, LockTypeOK, Paths, OpenStore,
         StaleOnly, Present
  <1>6. NoncesUsed'
    BY LockAssumption, SMTT(5) DEF LockInv, LockTypeOK, Paths, OpenStore,
         NoncesUsed
  <1>7. QED
    BY <1>1, <1>2, <1>3, <1>4, <1>5, <1>6 DEF LockInv

\* A start that fails after its locks goes to release them.
LEMMA OpenFailsKeeps ==
    ASSUME LockInv, NEW g \in Generations, OpenFails(g)
    PROVE  LockInv'
  <1>1. LockTypeOK'
    BY LockAssumption, SMTT(5) DEF LockInv, LockTypeOK, Paths, OpenFails,
         Stages
  <1>2. LocksKept'
    BY LockAssumption, SMTT(5) DEF LockInv, LockTypeOK, Paths, OpenFails,
         LocksKept, Present
  <1>3. StagesAgree'
    BY LockAssumption, SMTT(5) DEF LockInv, LockTypeOK, Paths, OpenFails,
         StagesAgree, NextPath, LockPath
  <1>4. SoleCreator'
    BY LockAssumption, SMTT(5) DEF LockInv, LockTypeOK, Paths, OpenFails,
         SoleCreator
  <1>5. StaleOnly'
    BY LockAssumption, SMTT(5) DEF LockInv, LockTypeOK, Paths, OpenFails,
         StaleOnly, Present
  <1>6. NoncesUsed'
    BY LockAssumption, SMTT(5) DEF LockInv, LockTypeOK, Paths, OpenFails,
         NoncesUsed
  <1>7. QED
    BY <1>1, <1>2, <1>3, <1>4, <1>5, <1>6 DEF LockInv

\* The database is closed before any lock is released.
LEMMA CloseStoreKeeps ==
    ASSUME LockInv, NEW g \in Generations, CloseStore(g)
    PROVE  LockInv'
  <1>1. LockTypeOK'
    BY LockAssumption, SMTT(5) DEF LockInv, LockTypeOK, Paths, CloseStore,
         Stages
  <1>2. LocksKept'
    BY LockAssumption, SMTT(5) DEF LockInv, LockTypeOK, Paths, CloseStore,
         LocksKept, Present
  <1>3. StagesAgree'
    BY LockAssumption, SMTT(5) DEF LockInv, LockTypeOK, Paths, CloseStore,
         StagesAgree, NextPath, LockPath
  <1>4. SoleCreator'
    BY LockAssumption, SMTT(5) DEF LockInv, LockTypeOK, Paths, CloseStore,
         SoleCreator
  <1>5. StaleOnly'
    BY LockAssumption, SMTT(5) DEF LockInv, LockTypeOK, Paths, CloseStore,
         StaleOnly, Present
  <1>6. NoncesUsed'
    BY LockAssumption, SMTT(5) DEF LockInv, LockTypeOK, Paths, CloseStore,
         NoncesUsed
  <1>7. QED
    BY <1>1, <1>2, <1>3, <1>4, <1>5, <1>6 DEF LockInv

\* is_held gives up a lock only when the file holds another nonce.
LEMMA CheckHeldKeeps ==
    ASSUME LockInv, NEW g \in Generations, CheckHeld(g)
    PROVE  LockInv'
  <1>1. LockTypeOK'
    BY LockAssumption, SMTT(5) DEF LockInv, LockTypeOK, Paths, CheckHeld,
         Stages
  <1>2. LocksKept'
    BY LockAssumption, SMTT(5) DEF LockInv, LockTypeOK, Paths, CheckHeld,
         LocksKept, Present
  <1>3. StagesAgree'
    BY LockAssumption, SMTT(5) DEF LockInv, LockTypeOK, Paths, CheckHeld,
         StagesAgree, NextPath, LockPath
  <1>4. SoleCreator'
    BY LockAssumption, SMTT(5) DEF LockInv, LockTypeOK, Paths, CheckHeld,
         SoleCreator
  <1>5. StaleOnly'
    BY LockAssumption, SMTT(5) DEF LockInv, LockTypeOK, Paths, CheckHeld,
         StaleOnly, Present
  <1>6. NoncesUsed'
    BY LockAssumption, SMTT(5) DEF LockInv, LockTypeOK, Paths, CheckHeld,
         NoncesUsed
  <1>7. QED
    BY <1>1, <1>2, <1>3, <1>4, <1>5, <1>6 DEF LockInv

\* The drop removes the file it has just checked, its own.
LEMMA RemoveLockKeeps ==
    ASSUME LockInv, NEW g \in Generations, RemoveLock(g)
    PROVE  LockInv'
  <1>1. LockTypeOK'
    BY LockAssumption, SMTT(5) DEF LockInv, LockTypeOK, Paths, RemoveLock,
         Stages, NextPath, LockPath, StagesAgree, LocksOf
  <1>2. LocksKept'
    BY LockAssumption, SMTT(5) DEF LockInv, LockTypeOK, Paths, RemoveLock,
         LocksKept, Present, StagesAgree, NextPath, LockPath
  <1>3. StagesAgree'
    BY LockAssumption, SMTT(5) DEF LockInv, LockTypeOK, Paths, RemoveLock,
         StagesAgree, LocksOf, LocksKept, Present, NextPath, LockPath
  <1>4. SoleCreator'
    BY LockAssumption, SMTT(5) DEF LockInv, LockTypeOK, Paths, RemoveLock,
         SoleCreator
  <1>5. StaleOnly'
    BY LockAssumption, SMTT(5) DEF LockInv, LockTypeOK, Paths, RemoveLock,
         StaleOnly, Present, NoncesUsed, StagesAgree, LocksOf, LocksKept,
         NextPath, LockPath
  <1>6. NoncesUsed'
    BY LockAssumption, SMTT(5) DEF LockInv, LockTypeOK, Paths, RemoveLock,
         NoncesUsed
  <1>7. QED
    BY <1>1, <1>2, <1>3, <1>4, <1>5, <1>6 DEF LockInv

\* A process that leaves holds nothing.
LEMMA LeaveKeeps ==
    ASSUME LockInv, NEW g \in Generations, Leave(g)
    PROVE  LockInv'
  <1>1. LockTypeOK'
    BY LockAssumption, SMTT(5) DEF LockInv, LockTypeOK, Paths, Leave, Stages
  <1>2. LocksKept'
    BY LockAssumption, SMTT(5) DEF LockInv, LockTypeOK, Paths, Leave,
         LocksKept, Present
  <1>3. StagesAgree'
    BY LockAssumption, SMTT(5) DEF LockInv, LockTypeOK, Paths, Leave,
         StagesAgree, NextPath, LockPath
  <1>4. SoleCreator'
    BY LockAssumption, SMTT(5) DEF LockInv, LockTypeOK, Paths, Leave,
         SoleCreator
  <1>5. StaleOnly'
    BY LockAssumption, SMTT(5) DEF LockInv, LockTypeOK, Paths, Leave,
         StaleOnly, Present
  <1>6. NoncesUsed'
    BY LockAssumption, SMTT(5) DEF LockInv, LockTypeOK, Paths, Leave,
         NoncesUsed
  <1>7. QED
    BY <1>1, <1>2, <1>3, <1>4, <1>5, <1>6 DEF LockInv

\* A killed process is absent: its files become stale, its promises end.
LEMMA KillKeeps ==
    ASSUME LockInv, NEW g \in Generations, Kill(g)
    PROVE  LockInv'
  <1>1. LockTypeOK'
    BY LockAssumption, SMTT(5) DEF LockInv, LockTypeOK, Paths, Kill, Stages
  <1>2. LocksKept'
    BY LockAssumption, SMTT(5) DEF LockInv, LockTypeOK, Paths, Kill,
         LocksKept, Present
  <1>3. StagesAgree'
    BY LockAssumption, SMTT(5) DEF LockInv, LockTypeOK, Paths, Kill,
         StagesAgree, NextPath, LockPath
  <1>4. SoleCreator'
    BY LockAssumption, SMTT(5) DEF LockInv, LockTypeOK, Paths, Kill,
         SoleCreator
  <1>5. StaleOnly'
    BY LockAssumption, SMTT(5) DEF LockInv, LockTypeOK, Paths, Kill,
         StaleOnly, Present
  <1>6. NoncesUsed'
    BY LockAssumption, SMTT(5) DEF LockInv, LockTypeOK, Paths, Kill,
         NoncesUsed
  <1>7. QED
    BY <1>1, <1>2, <1>3, <1>4, <1>5, <1>6 DEF LockInv

\* Reading the lock at the current path changes no file.
LEMMA ReadCurrentKeeps ==
    ASSUME LockInv, ReadCurrent
    PROVE  LockInv'
  <1>1. LockTypeOK'
    BY LockAssumption, SMTT(5) DEF LockInv, LockTypeOK, Paths, ReadCurrent,
         Stages
  <1>2. LocksKept'
    BY LockAssumption, SMTT(5) DEF LockInv, LockTypeOK, Paths, ReadCurrent,
         LocksKept, Present
  <1>3. StagesAgree'
    BY LockAssumption, SMTT(5) DEF LockInv, LockTypeOK, Paths, ReadCurrent,
         StagesAgree, NextPath, LockPath
  <1>4. SoleCreator'
    BY LockAssumption, SMTT(5) DEF LockInv, LockTypeOK, Paths, ReadCurrent,
         SoleCreator
  <1>5. StaleOnly'
    BY LockAssumption, SMTT(5) DEF LockInv, LockTypeOK, Paths, ReadCurrent,
         StaleOnly
  <1>6. NoncesUsed'
    BY LockAssumption, SMTT(5) DEF LockInv, LockTypeOK, Paths, ReadCurrent,
         NoncesUsed
  <1>7. QED
    BY <1>1, <1>2, <1>3, <1>4, <1>5, <1>6 DEF LockInv

\* Reading the lock at the legacy path changes no file.
LEMMA ReadLegacyKeeps ==
    ASSUME LockInv, ReadLegacy
    PROVE  LockInv'
  <1>1. LockTypeOK'
    BY LockAssumption, SMTT(5) DEF LockInv, LockTypeOK, Paths, ReadLegacy,
         NoSnap, Stages
  <1>2. LocksKept'
    BY LockAssumption, SMTT(5) DEF LockInv, LockTypeOK, Paths, ReadLegacy,
         NoSnap, LocksKept, Present
  <1>3. StagesAgree'
    BY LockAssumption, SMTT(5) DEF LockInv, LockTypeOK, Paths, ReadLegacy,
         NoSnap, StagesAgree, NextPath, LockPath
  <1>4. SoleCreator'
    BY LockAssumption, SMTT(5) DEF LockInv, LockTypeOK, Paths, ReadLegacy,
         NoSnap, SoleCreator
  <1>5. StaleOnly'
    BY LockAssumption, SMTT(5) DEF LockInv, LockTypeOK, Paths, ReadLegacy,
         NoSnap, StaleOnly
  <1>6. NoncesUsed'
    BY LockAssumption, SMTT(5) DEF LockInv, LockTypeOK, Paths, ReadLegacy,
         NoSnap, NoncesUsed
  <1>7. QED
    BY <1>1, <1>2, <1>3, <1>4, <1>5, <1>6 DEF LockInv

\* The command goes on only with the files of one absent process.
LEMMA ConfirmKeeps ==
    ASSUME LockInv, Confirm
    PROVE  LockInv'
  <1>1. LockTypeOK'
    BY LockAssumption, SMTT(5) DEF LockInv, LockTypeOK, Paths, Confirm,
         Owners, NoSnap, Stages
  <1>2. LocksKept'
    BY LockAssumption, SMTT(5) DEF LockInv, LockTypeOK, Paths, Confirm,
         Owners, NoSnap, LocksKept, Present
  <1>3. StagesAgree'
    BY LockAssumption, SMTT(5) DEF LockInv, LockTypeOK, Paths, Confirm,
         Owners, NoSnap, StagesAgree, NextPath, LockPath
  <1>4. SoleCreator'
    BY LockAssumption, SMTT(5) DEF LockInv, LockTypeOK, Paths, Confirm,
         Owners, NoSnap, SoleCreator
  <1>5. StaleOnly'
    BY LockAssumption, SMTT(5) DEF LockInv, LockTypeOK, Paths, Confirm,
         Owners, NoSnap, StaleOnly, Present, NoncesUsed
  <1>6. NoncesUsed'
    BY LockAssumption, SMTT(5) DEF LockInv, LockTypeOK, Paths, Confirm,
         Owners, NoSnap, NoncesUsed
  <1>7. QED
    BY <1>1, <1>2, <1>3, <1>4, <1>5, <1>6 DEF LockInv

\* remove_if_unchanged compares the current lock with its snapshot.
LEMMA CompareCurrentKeeps ==
    ASSUME LockInv, CompareCurrent
    PROVE  LockInv'
  <1>1. LockTypeOK'
    BY LockAssumption, SMTT(5) DEF LockInv, LockTypeOK, Paths,
         CompareCurrent, Compare, NoSnap, Stages
  <1>2. LocksKept'
    BY LockAssumption, SMTT(5) DEF LockInv, LockTypeOK, Paths,
         CompareCurrent, Compare, NoSnap, LocksKept, Present
  <1>3. StagesAgree'
    BY LockAssumption, SMTT(5) DEF LockInv, LockTypeOK, Paths,
         CompareCurrent, Compare, NoSnap, StagesAgree, NextPath, LockPath
  <1>4. SoleCreator'
    BY LockAssumption, SMTT(5) DEF LockInv, LockTypeOK, Paths,
         CompareCurrent, Compare, NoSnap, SoleCreator
  <1>5. StaleOnly'
    BY LockAssumption, SMTT(5) DEF LockInv, LockTypeOK, Paths,
         CompareCurrent, Compare, NoSnap, StaleOnly, Present
  <1>6. NoncesUsed'
    BY LockAssumption, SMTT(5) DEF LockInv, LockTypeOK, Paths,
         CompareCurrent, Compare, NoSnap, NoncesUsed
  <1>7. QED
    BY <1>1, <1>2, <1>3, <1>4, <1>5, <1>6 DEF LockInv

\* The current lock that is removed is the compared, stale one.
LEMMA DeleteCurrentKeeps ==
    ASSUME LockInv, DeleteCurrent
    PROVE  LockInv'
  <1>1. LockTypeOK'
    BY LockAssumption, SMTT(5) DEF LockInv, LockTypeOK, Paths,
         DeleteCurrent, Delete, Stages
  <1>2. LocksKept'
    BY LockAssumption, SMTT(5) DEF LockInv, LockTypeOK, Paths,
         DeleteCurrent, Delete, LocksKept, Present, StaleOnly
  <1>3. StagesAgree'
    BY LockAssumption, SMTT(5) DEF LockInv, LockTypeOK, Paths,
         DeleteCurrent, Delete, StagesAgree, NextPath, StaleOnly
  <1>4. SoleCreator'
    BY LockAssumption, SMTT(5) DEF LockInv, LockTypeOK, Paths,
         DeleteCurrent, Delete, SoleCreator
  <1>5. StaleOnly'
    BY LockAssumption, SMTT(5) DEF LockInv, LockTypeOK, Paths,
         DeleteCurrent, Delete, StaleOnly, Present
  <1>6. NoncesUsed'
    BY LockAssumption, SMTT(5) DEF LockInv, LockTypeOK, Paths,
         DeleteCurrent, Delete, NoncesUsed
  <1>7. QED
    BY <1>1, <1>2, <1>3, <1>4, <1>5, <1>6 DEF LockInv

\* remove_if_unchanged compares the legacy lock with its snapshot.
LEMMA CompareLegacyKeeps ==
    ASSUME LockInv, CompareLegacy
    PROVE  LockInv'
  <1>1. LockTypeOK'
    BY LockAssumption, SMTT(5) DEF LockInv, LockTypeOK, Paths,
         CompareLegacy, Compare, NoSnap, Stages
  <1>2. LocksKept'
    BY LockAssumption, SMTT(5) DEF LockInv, LockTypeOK, Paths,
         CompareLegacy, Compare, NoSnap, LocksKept, Present
  <1>3. StagesAgree'
    BY LockAssumption, SMTT(5) DEF LockInv, LockTypeOK, Paths,
         CompareLegacy, Compare, NoSnap, StagesAgree, NextPath, LockPath
  <1>4. SoleCreator'
    BY LockAssumption, SMTT(5) DEF LockInv, LockTypeOK, Paths,
         CompareLegacy, Compare, NoSnap, SoleCreator
  <1>5. StaleOnly'
    BY LockAssumption, SMTT(5) DEF LockInv, LockTypeOK, Paths,
         CompareLegacy, Compare, NoSnap, StaleOnly, Present
  <1>6. NoncesUsed'
    BY LockAssumption, SMTT(5) DEF LockInv, LockTypeOK, Paths,
         CompareLegacy, Compare, NoSnap, NoncesUsed
  <1>7. QED
    BY <1>1, <1>2, <1>3, <1>4, <1>5, <1>6 DEF LockInv

\* The legacy lock that is removed is the compared, stale one.
LEMMA DeleteLegacyKeeps ==
    ASSUME LockInv, DeleteLegacy
    PROVE  LockInv'
  <1>1. LockTypeOK'
    BY LockAssumption, SMTT(5) DEF LockInv, LockTypeOK, Paths, DeleteLegacy,
         Delete, Stages
  <1>2. LocksKept'
    BY LockAssumption, SMTT(5) DEF LockInv, LockTypeOK, Paths, DeleteLegacy,
         Delete, LocksKept, Present, StaleOnly
  <1>3. StagesAgree'
    BY LockAssumption, SMTT(5) DEF LockInv, LockTypeOK, Paths, DeleteLegacy,
         Delete, StagesAgree, NextPath, StaleOnly
  <1>4. SoleCreator'
    BY LockAssumption, SMTT(5) DEF LockInv, LockTypeOK, Paths, DeleteLegacy,
         Delete, SoleCreator
  <1>5. StaleOnly'
    BY LockAssumption, SMTT(5) DEF LockInv, LockTypeOK, Paths, DeleteLegacy,
         Delete, StaleOnly
  <1>6. NoncesUsed'
    BY LockAssumption, SMTT(5) DEF LockInv, LockTypeOK, Paths, DeleteLegacy,
         Delete, NoncesUsed
  <1>7. QED
    BY <1>1, <1>2, <1>3, <1>4, <1>5, <1>6 DEF LockInv

\* A command that ends, or is interrupted, changes no file.
LEMMA EndCommandKeeps ==
    ASSUME LockInv, EndCommand
    PROVE  LockInv'
  <1>1. LockTypeOK'
    BY LockAssumption, SMTT(5) DEF LockInv, LockTypeOK, Paths, EndCommand,
         NoSnap, Stages
  <1>2. LocksKept'
    BY LockAssumption, SMTT(5) DEF LockInv, LockTypeOK, Paths, EndCommand,
         NoSnap, LocksKept, Present
  <1>3. StagesAgree'
    BY LockAssumption, SMTT(5) DEF LockInv, LockTypeOK, Paths, EndCommand,
         NoSnap, StagesAgree, NextPath, LockPath
  <1>4. SoleCreator'
    BY LockAssumption, SMTT(5) DEF LockInv, LockTypeOK, Paths, EndCommand,
         NoSnap, SoleCreator
  <1>5. StaleOnly'
    BY LockAssumption, SMTT(5) DEF LockInv, LockTypeOK, Paths, EndCommand,
         NoSnap, StaleOnly
  <1>6. NoncesUsed'
    BY LockAssumption, SMTT(5) DEF LockInv, LockTypeOK, Paths, EndCommand,
         NoSnap, NoncesUsed
  <1>7. QED
    BY <1>1, <1>2, <1>3, <1>4, <1>5, <1>6 DEF LockInv

----------------------------------------------------------------------------
(* The theorems.                                                           *)

\* A step that changes nothing keeps the invariant.
LEMMA StutterKeepsLocks ==
    ASSUME LockInv, UNCHANGED lockVars
    PROVE  LockInv'
  BY DEF LockInv, LockTypeOK, LocksKept, StagesAgree, SoleCreator, StaleOnly,
         NoncesUsed, Present, NextPath, lockVars

\* Before the first start there is no lock and nobody holds one.
LEMMA LockInitKeeps ==
    ASSUME LockInit
    PROVE  LockInv
  BY LockAssumption, SMTT(10)
     DEF LockInit, LockInv, LockTypeOK, LocksKept, StagesAgree, SoleCreator, StaleOnly,
         NoncesUsed, Present, NextPath, NoSnap, Paths, Stages, LockPath, LocksOf

\* No step of a daemon, a kill or the recovery command breaks the invariant.
LEMMA LockNextKeeps ==
    ASSUME LockInv, [LockNext]_lockVars
    PROVE  LockInv'
  <1>1. CASE UNCHANGED lockVars
    BY <1>1, StutterKeepsLocks
  <1>2. CASE \E g \in Generations : DaemonStep(g) \/ Kill(g)
    <2>1. PICK g \in Generations : DaemonStep(g) \/ Kill(g)
      BY <1>2
    <2>2. QED
      BY <2>1, CreateKeeps, LockHeldKeeps, WriteNonceKeeps, WriteFailsKeeps,
         OpenStoreKeeps, OpenFailsKeeps, CloseStoreKeeps, CheckHeldKeeps,
         RemoveLockKeeps, LeaveKeeps, KillKeeps
      DEF DaemonStep
  <1>3. CASE RecoverStep
    BY <1>3, ReadCurrentKeeps, ReadLegacyKeeps, ConfirmKeeps, CompareCurrentKeeps,
       DeleteCurrentKeeps, CompareLegacyKeeps, DeleteLegacyKeeps, EndCommandKeeps
    DEF RecoverStep
  <1>4. QED
    BY <1>1, <1>2, <1>3 DEF LockNext

\* The inductive invariant of the lock files, in every state of every run.
THEOREM LockInvariance == LockSpec => []LockInv
  BY LockInitKeeps, LockNextKeeps, PTL DEF LockSpec

\* Two daemons never have the database open at once: each would hold the
\* legacy lock, and the file holds one nonce.
THEOREM OneWriter == LockSpec => []SingleWriter
  <1>1. ASSUME LockInv
        PROVE  SingleWriter
    <2>1. SUFFICES ASSUME NEW g \in Generations, NEW h \in Generations,
                          stage[g] = "open", stage[h] = "open"
                   PROVE  g = h
      BY DEF SingleWriter
    <2>2. ASSUME NEW k \in Generations, stage[k] = "open"
          PROVE  file["legacy"] = k
      <3>1. held[k] = LocksOf(k) /\ Present(k)
        BY <1>1, <2>2 DEF LockInv, StagesAgree, Present
      <3>2. 1 \in 1..held[k]
        BY <3>1 DEF LocksOf
      <3>3. file[LockPath(1)] = k
        BY <1>1, <3>1, <3>2 DEF LockInv, LocksKept
      <3>4. QED
        BY <3>3 DEF LockPath
    <2>3. QED
      BY <2>1, <2>2
  <1>2. QED
    BY <1>1, LockInvariance, PTL

\* No start, release or recovery takes a lock from a process that is there.
THEOREM LocksStay == LockSpec => []LocksKept
  <1>1. LockInv => LocksKept
    BY DEF LockInv
  <1>2. QED
    BY <1>1, LockInvariance, PTL
=============================================================================
