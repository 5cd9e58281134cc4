---------------------------- MODULE MCWriterLock ----------------------------
(* WriterLock for TLC: three starts of this release and one of an older. *)
EXTENDS WriterLock, TLC

LockSymmetry == Permutations(Generations \ Old)
=============================================================================
