---------------------------- MODULE AtomicStates ----------------------------
(***************************************************************************)
(* What the state trackers promise the threads of a process: the context   *)
(* states are one table that every call reads or changes at one moment     *)
(* between its start and its return, and the items of a thread are its     *)
(* own: what it gets is what it last put.                                  *)
(***************************************************************************)
CONSTANTS
    Threads,
    Contexts, Displays,     \* handles
    Values,                 \* of thread state items
    MayFail                 \* whether memory may run out

Marks == {"current", "destroyed"}
None  == "none"

NoCall == [fn |-> "none"]
PutOf(c, d)           == [fn |-> "put", context |-> c, display |-> d]
DelOf(c)              == [fn |-> "del", context |-> c]
GetOf(c)              == [fn |-> "get", context |-> c]
IsMarkedOf(c, m)      == [fn |-> "isMarked", context |-> c, mark |-> m]
SetMarkedOf(c, m, b)  == [fn |-> "setMarked", context |-> c, mark |-> m, to |-> b]
SetAllOf(d, b)        == [fn |-> "setAll", display |-> d, to |-> b]
PutItemOf(v)          == [fn |-> "putItem", value |-> v]
GetItemOf             == [fn |-> "getItem"]

VARIABLES
    states,     \* a function on the contexts that have a state
    items,      \* each thread's item
    phase,      \* "idle", "called" or "done"
    call, ret   \* what each thread calls, and what it will get

vars == <<states, items, phase, call, ret>>

NewState(d) == [display |-> d, marks |-> {}]
Entered(s, p) ==
    [c \in DOMAIN s \cup {p.context} |-> IF c = p.context THEN NewState(p.display) ELSE s[c]]
Marked(s, m, b) == [s EXCEPT !.marks = IF b THEN @ \cup {m} ELSE @ \ {m}]

Init ==
    /\ states = <<>>
    /\ items = [t \in Threads |-> None]
    /\ phase = [t \in Threads |-> "idle"]
    /\ call = [t \in Threads |-> NoCall]
    /\ ret = [t \in Threads |-> None]

\* A context has one state: its handle is the server's and new.
Distinct(c) ==
    c.fn = "put" => /\ c.context \notin DOMAIN states
                    /\ \A u \in Threads : call[u].fn = "put" => call[u].context # c.context

Call(t, c) ==
    /\ Distinct(c)
    /\ phase' = [phase EXCEPT ![t] = "called"]
    /\ call' = [call EXCEPT ![t] = c]
    /\ UNCHANGED <<states, items, ret>>

Answer(t, fn, r) ==
    /\ phase[t] = "called" /\ call[t].fn = fn
    /\ phase' = [phase EXCEPT ![t] = "done"]
    /\ ret' = [ret EXCEPT ![t] = r]
    /\ UNCHANGED call

Missing(t) ==
    /\ \E fn \in {"del", "get", "isMarked", "setMarked"} : Answer(t, fn, "fail")
    /\ call[t].context \notin DOMAIN states
    /\ UNCHANGED <<states, items>>

NoMemory(t) ==
    /\ MayFail
    /\ \E fn \in {"put", "putItem", "getItem"} : Answer(t, fn, "fail")
    /\ UNCHANGED <<states, items>>

Put(t) ==
    /\ Answer(t, "put", "ok")
    /\ states' = Entered(states, call[t])
    /\ UNCHANGED items

Del(t) ==
    /\ Answer(t, "del", "ok") /\ call[t].context \in DOMAIN states
    /\ states' = [c \in DOMAIN states \ {call[t].context} |-> states[c]]
    /\ UNCHANGED items

Get(t) ==
    /\ Answer(t, "get", "ok") /\ call[t].context \in DOMAIN states
    /\ UNCHANGED <<states, items>>

IsMarked(t) ==
    /\ call[t].fn = "isMarked" /\ call[t].context \in DOMAIN states
    /\ Answer(t, "isMarked",
              IF call[t].mark \in states[call[t].context].marks THEN "yes" ELSE "no")
    /\ UNCHANGED <<states, items>>

SetMarked(t) ==
    /\ Answer(t, "setMarked", "ok") /\ call[t].context \in DOMAIN states
    /\ states' = [states EXCEPT ![call[t].context] =
                    Marked(@, call[t].mark, call[t].to)]
    /\ UNCHANGED items

\* All contexts of a display at once.
SetAll(t) ==
    /\ Answer(t, "setAll", "ok")
    /\ states' = [c \in DOMAIN states |->
                    IF states[c].display = call[t].display
                    THEN Marked(states[c], "destroyed", call[t].to) ELSE states[c]]
    /\ UNCHANGED items

PutItem(t) ==
    /\ Answer(t, "putItem", "ok")
    /\ items' = [items EXCEPT ![t] = call[t].value]
    /\ UNCHANGED states

GetItem(t) ==
    /\ Answer(t, "getItem", IF items[t] = None THEN "fail" ELSE items[t])
    /\ UNCHANGED <<states, items>>

Return(t) ==
    /\ phase[t] = "done"
    /\ phase' = [phase EXCEPT ![t] = "idle"]
    /\ call' = [call EXCEPT ![t] = NoCall]
    /\ ret' = [ret EXCEPT ![t] = None]
    /\ UNCHANGED <<states, items>>

Calls ==
    {PutOf(c, d) : c \in Contexts, d \in Displays}
    \cup {DelOf(c) : c \in Contexts} \cup {GetOf(c) : c \in Contexts}
    \cup {IsMarkedOf(c, m) : c \in Contexts, m \in Marks}
    \cup {SetMarkedOf(c, m, b) : c \in Contexts, m \in Marks, b \in BOOLEAN}
    \cup {SetAllOf(d, b) : d \in Displays, b \in BOOLEAN}
    \cup {PutItemOf(v) : v \in Values} \cup {GetItemOf}

Next == \E t \in Threads :
    \/ phase[t] = "idle" /\ \E c \in Calls : Call(t, c)
    \/ Missing(t) \/ NoMemory(t) \/ Put(t) \/ Del(t) \/ Get(t) \/ IsMarked(t)
    \/ SetMarked(t) \/ SetAll(t) \/ PutItem(t) \/ GetItem(t) \/ Return(t)

Spec == Init /\ [][Next]_vars
=============================================================================
