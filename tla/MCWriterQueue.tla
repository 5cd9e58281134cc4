--------------------------- MODULE MCWriterQueue ---------------------------
(***************************************************************************)
(* WriterQueue for TLC: a queue that is full as soon as one request waits, *)
(* with callers and an owner that ends at any time.                        *)
(***************************************************************************)
EXTENDS WriterQueue
=============================================================================
