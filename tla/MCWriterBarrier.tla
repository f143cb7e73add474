--------------------------- MODULE MCWriterBarrier ---------------------------
(* WriterBarrier for TLC; the flows are told apart only by Drains.            *)
EXTENDS WriterBarrier
=============================================================================
