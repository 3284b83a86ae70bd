------------------------------ MODULE Allocator ------------------------------
(***************************************************************************)
(* What the heap manager promises the threads that call gvAlloc and gvFree:*)
(* every call is served once, at some moment between its start and its     *)
(* return, and the caller gets the outcome of its own call.  A block that  *)
(* was handed out is not handed out again before it is freed.              *)
(***************************************************************************)
EXTENDS Integers

CONSTANTS
    Clients,        \* the threads that call
    Pages,          \* the page numbers blocks are cut from, a subset of 1..
    Lengths         \* the block lengths asked for, in pages

VARIABLES
    blocks,         \* the blocks handed out: a set of [at, length]
    held,           \* held[c]: the offsets c got and did not give back
    phase,          \* "idle", "called" or "served"
    request,        \* what c asks for while phase[c] # "idle"
    reply,          \* what it gets, once served
    dead            \* threads whose process has died

vars == <<blocks, held, phase, request, reply, dead>>

Idle     == [cmd |-> "none", arg |-> 0]
AllocOf(n) == [cmd |-> "alloc", arg |-> n]
FreeOf(at) == [cmd |-> "free", arg |-> at]

PagesOf(b) == b.at..(b.at + b.length - 1)

\* The blocks of n pages that could be cut from what is not handed out.
Fitting(n, taken) ==
    {b \in [at : Pages, length : {n}] :
        /\ PagesOf(b) \subseteq Pages
        /\ \A o \in taken : PagesOf(b) \cap PagesOf(o) = {}}

Init ==
    /\ blocks = {}
    /\ held = [c \in Clients |-> {}]
    /\ phase = [c \in Clients |-> "idle"]
    /\ request = [c \in Clients |-> Idle]
    /\ reply = [c \in Clients |-> 0]
    /\ dead = {}

\* A thread asks for a block, or gives one of its own back.
Call(c) ==
    /\ phase[c] = "idle" /\ c \notin dead
    /\ phase' = [phase EXCEPT ![c] = "called"]
    /\ \/ /\ \E n \in Lengths : request' = [request EXCEPT ![c] = AllocOf(n)]
          /\ UNCHANGED held
       \/ \E at \in held[c] :
            /\ request' = [request EXCEPT ![c] = FreeOf(at)]
            /\ held' = [held EXCEPT ![c] = @ \ {at}]
    /\ UNCHANGED <<blocks, reply, dead>>

\* An allocation may fail (offset 0); a free always succeeds (status 0).
Serve(c) ==
    /\ phase[c] = "called"
    /\ phase' = [phase EXCEPT ![c] = "served"]
    /\ \/ /\ request[c].cmd = "alloc"
          /\ \E b \in Fitting(request[c].arg, blocks) :
               /\ blocks' = blocks \cup {b}
               /\ reply' = [reply EXCEPT ![c] = b.at]
       \/ /\ request[c].cmd = "alloc"
          /\ reply' = [reply EXCEPT ![c] = 0]
          /\ UNCHANGED blocks
       \/ /\ request[c].cmd = "free"
          /\ blocks' = {b \in blocks : b.at # request[c].arg}
          /\ reply' = [reply EXCEPT ![c] = 0]
    /\ UNCHANGED <<held, request, dead>>

Return(c) ==
    /\ phase[c] = "served" /\ c \notin dead
    /\ phase' = [phase EXCEPT ![c] = "idle"]
    /\ held' = IF request[c].cmd = "alloc" /\ reply[c] # 0
               THEN [held EXCEPT ![c] = @ \cup {reply[c]}]
               ELSE held
    /\ request' = [request EXCEPT ![c] = Idle]
    /\ reply' = [reply EXCEPT ![c] = 0]
    /\ UNCHANGED <<blocks, dead>>

\* Threads die together, as those of a process do.  What they held, and what a call
\* they were in still gets them, stays handed out.
Die(gone) ==
    /\ gone \ dead # {}
    /\ dead' = dead \cup gone
    /\ held' = [c \in Clients |-> IF c \in gone THEN {} ELSE held[c]]
    /\ UNCHANGED <<blocks, phase, request, reply>>

Next ==
    \/ \E c \in Clients : Call(c) \/ Serve(c) \/ Return(c)
    \/ \E gone \in SUBSET Clients : Die(gone)

Spec == Init /\ [][Next]_vars
=============================================================================
