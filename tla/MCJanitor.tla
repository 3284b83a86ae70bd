------------------------------ MODULE MCJanitor ------------------------------
(* Instances of Janitor for TLC.                                            *)
EXTENDS Janitor

\* Two clients and two regions: contexts are created while others end, and a
\* region is used again.
MCClients == {"c1", "c2"}
MCRegions == {"r1", "r2"}
=============================================================================
