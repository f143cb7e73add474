--------------------------- MODULE MCRetentionTrim ---------------------------
(* The instance of RetentionTrim for TLC: one job that was published twice.  *)
EXTENDS RetentionTrim

OneJob == [e \in {1, 2} |-> "a"]
=============================================================================
