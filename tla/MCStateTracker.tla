--------------------------- MODULE MCStateTracker ---------------------------
(***************************************************************************)
(* Instances of StateTracker: threads that call every function, in every   *)
(* order.                                                                  *)
(***************************************************************************)
EXTENDS StateTracker

CONSTANTS t1, t2, c1, c2, d1, d2, v1, v2

MCThreads  == {t1, t2}
MCContexts == {c1, c2}
MCDisplays == {d1, d2}
MCValues   == {v1, v2}
Symmetry ==
    Permutations(MCThreads) \cup Permutations(MCContexts)
    \cup Permutations(MCDisplays) \cup Permutations(MCValues)
=============================================================================
