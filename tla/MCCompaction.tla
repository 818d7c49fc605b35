---------------------------- MODULE MCCompaction ----------------------------
(* Instances of Compaction for TLC; the configurations give all constants.  *)
EXTENDS Compaction
=============================================================================
