----------------------------- MODULE MCContexts -----------------------------
(* Instances of Contexts for TLC.                                           *)
EXTENDS Contexts

MCThreads == {"t1", "t2"}
MCOneThread == {"t1"}
=============================================================================
