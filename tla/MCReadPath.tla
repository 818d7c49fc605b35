----------------------------- MODULE MCReadPath -----------------------------
(* Instances of ReadPath for TLC; the configurations give all constants.    *)
EXTENDS ReadPath
=============================================================================
