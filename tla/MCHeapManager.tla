--------------------------- MODULE MCHeapManager ---------------------------
(* Instances of HeapManager for TLC.                                        *)
EXTENDS HeapManager

\* Two threads of one process and one of another, whose small numbers give
\* three different call ids.
MCClients == {"c1", "c2", "c3"}
MCPid == [c \in MCClients |-> IF c = "c3" THEN 2 ELSE 1]
MCTid == [c \in MCClients |-> IF c = "c2" THEN 2 ELSE 1]

\* Two threads of one process.
MCTwo    == {"c1", "c2"}
MCTwoPid == [c \in MCTwo |-> 1]
MCTwoTid == [c \in MCTwo |-> IF c = "c2" THEN 2 ELSE 1]

\* One thread in each of two processes.
MCTwoPids == [c \in MCTwo |-> IF c = "c2" THEN 2 ELSE 1]
MCTwoTids == [c \in MCTwo |-> 1]

\* pthread_self() is an address near 2^47 in an unsigned long of 2^64: scaled
\* to 2^16, near 2^12, a thread's stack apart.
MCAddressTid == [c \in MCTwo |-> IF c = "c2" THEN 3840 ELSE 3856]
=============================================================================
