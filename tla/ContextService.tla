--------------------------- MODULE ContextService ---------------------------
(***************************************************************************)
(* What heap manager and janitor together promise a client that creates a  *)
(* context: a region that is its alone, served from before it hears of it  *)
(* until it has given it up, where every call gets its one answer.  A      *)
(* context that cannot be had costs a region, which nobody gets again.     *)
(***************************************************************************)
CONSTANTS
    Clients, Regions,
    Nowhere,        \* the lease of a client that has none
    MayRefuse

VARIABLES
    lease,      \* each client's region
    phase,      \* "out", "asked", "in", "calling" or "leaving"
    served,     \* the regions in which calls are answered
    lost,       \* the regions that cannot be had again
    answered    \* the regions in which a result lies

vars == <<lease, phase, served, lost, answered>>

Init ==
    /\ lease = [c \in Clients |-> Nowhere]
    /\ phase = [c \in Clients |-> "out"]
    /\ served = {} /\ lost = {} /\ answered = {}

Becomes(c, here, there) == phase[c] = here /\ phase' = [phase EXCEPT ![c] = there]

Ask(c) ==
    /\ Becomes(c, "out", "asked")
    /\ \E r \in Regions \ (lost \cup {lease[d] : d \in Clients}) :
         lease' = [lease EXCEPT ![c] = r]
    /\ UNCHANGED <<served, lost, answered>>

Serve(c) ==
    /\ phase[c] = "asked"
    /\ served' = served \cup {lease[c]}
    /\ UNCHANGED <<lease, phase, lost, answered>>

Welcome(c) ==
    /\ lease[c] \in served
    /\ Becomes(c, "asked", "in")
    /\ UNCHANGED <<lease, served, lost, answered>>

Refuse(c) ==
    /\ MayRefuse
    /\ Becomes(c, "asked", "out")
    /\ lost' = lost \cup {lease[c]}
    /\ lease' = [lease EXCEPT ![c] = Nowhere]
    /\ UNCHANGED <<served, answered>>

Call(c) ==
    /\ lease[c] \in served
    /\ Becomes(c, "in", "calling")
    /\ UNCHANGED <<lease, served, lost, answered>>

Answer(c) ==
    /\ phase[c] = "calling" /\ lease[c] \in served \ answered
    /\ answered' = answered \cup {lease[c]}
    /\ UNCHANGED <<lease, phase, served, lost>>

Return(c) ==
    /\ lease[c] \in answered
    /\ Becomes(c, "calling", "in")
    /\ answered' = answered \ {lease[c]}
    /\ UNCHANGED <<lease, served, lost>>

Leave(c) ==
    /\ Becomes(c, "in", "leaving")
    /\ UNCHANGED <<lease, served, lost, answered>>

Dismiss(c) ==
    /\ phase[c] = "leaving"
    /\ served' = served \ {lease[c]}
    /\ UNCHANGED <<lease, phase, lost, answered>>

\* The service cannot let the client go.
Keep(c) ==
    /\ MayRefuse /\ lease[c] \in served
    /\ Becomes(c, "leaving", "in")
    /\ UNCHANGED <<lease, served, lost, answered>>

Release(c) ==
    /\ lease[c] \notin served
    /\ Becomes(c, "leaving", "out")
    /\ lease' = [lease EXCEPT ![c] = Nowhere]
    /\ UNCHANGED <<served, lost, answered>>

Next == \E c \in Clients :
    \/ Ask(c) \/ Serve(c) \/ Welcome(c) \/ Refuse(c) \/ Call(c) \/ Answer(c)
    \/ Return(c) \/ Leave(c) \/ Dismiss(c) \/ Keep(c) \/ Release(c)

Spec == Init /\ [][Next]_vars
=============================================================================
