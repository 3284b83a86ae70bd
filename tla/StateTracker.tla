---------------------------- MODULE StateTracker ----------------------------
(***************************************************************************)
(* The state tracker of a process, client_state_tracker.c or               *)
(* server_state_tracker.c, with the two maps under it: the process state   *)
(* map (process_state_map.c), which threads share under processStateLock,  *)
(* and the thread state map (thread_state_map.c), whose key the first      *)
(* threads that need it create.                                            *)
(*                                                                         *)
(* Threads call the functions in any order.  Under the lock a function     *)
(* finds its item, and then reads or changes it: two steps, so that a lock *)
(* too few shows.  Of a thread's items one key stands for all; what the    *)
(* first thread puts there for its vertex arrays is in Contexts.           *)
(***************************************************************************)
EXTENDS Integers, Sequences, FiniteSets, SequencesExt, TLC

CONSTANTS
    Threads,
    Contexts, Displays,     \* handles; offsets and one display in the server
    Values,                 \* what threads keep: their transports
    Tracker,                \* "client" or "server"
    Faults,                 \* what may fail: "malloc", "key" (pthread_key_create)
    GrowthAt,               \* items of one key at which uthash enlarges its table
    MaxPuts                 \* bound: items that threads put

ASSUME StateTrackerAssumption ==
    /\ Tracker \in {"client", "server"} /\ Faults \subseteq {"malloc", "key"}
    /\ GrowthAt \in Nat /\ MaxPuts \in Nat
    /\ IsFiniteSet(Threads) /\ "nobody" \notin Threads
    /\ "minusOne" \notin Values

VARIABLES
    writer, readers,            \* processStateLock
    states,                     \* the process state map
    threadStateMapInitiated,
    initTerminateLock,          \* its holder
    threadSpecificKey,          \* NoKey for -1, else the last key created
    hashtable,                  \* each thread's specific data, by key
    pc, call, ret,              \* the function each thread is in
    todo                        \* the items an iteration has yet to visit

rwlock == <<writer, readers>>
keyState == <<threadStateMapInitiated, initTerminateLock, threadSpecificKey>>
threadMap == <<keyState, hashtable>>
vars == <<rwlock, states, threadMap, pc, call, ret, todo>>

Nobody == "nobody"
NoKey  == 0
Keys   == 1..Cardinality(Threads)

(* The promise: AtomicStates, of which a refinement mapping is below.      *)

Item(t) ==
    IF threadSpecificKey = NoKey \/ hashtable[t][threadSpecificKey] = <<>>
    THEN "none" ELSE Head(hashtable[t][threadSpecificKey])

Phase(t) ==
    CASE pc[t] = "idle" -> "idle"
      [] pc[t] \in {"iterate", "unlock", "return"} -> "done"
      [] OTHER -> "called"

Marked(s, m, b) == [s EXCEPT !.marks = IF b THEN @ \cup {m} ELSE @ \ {m}]

\* Mutant: marks the contexts of every display.
MarkedOnAnyDisplay(s, c) == Marked(s, "destroyed", c.to)

MarkedDestroyed(s, c) ==
    IF s.display = c.display THEN Marked(s, "destroyed", c.to) ELSE s

\* The table as it will be once the iteration under way has ended.
Settled ==
    [c \in DOMAIN states |->
        IF writer # Nobody /\ c \in todo[writer]
        THEN MarkedDestroyed(states[c], call[writer]) ELSE states[c]]

Items   == [t \in Threads |-> Item(t)]
Phases  == [t \in Threads |-> Phase(t)]
Answers == [t \in Threads |-> IF ret[t] = "minusOne" THEN "fail" ELSE ret[t]]

AtomicTracker == INSTANCE AtomicStates WITH
    states <- Settled, items <- Items, phase <- Phases, ret <- Answers,
    MayFail <- Faults # {}

-----------------------------------------------------------------------------
Init ==
    /\ writer = Nobody /\ readers = {}
    /\ states = <<>>
    /\ threadStateMapInitiated = FALSE /\ initTerminateLock = Nobody
    /\ threadSpecificKey = NoKey
    /\ hashtable = [t \in Threads |-> [k \in Keys |-> <<>>]]
    /\ pc = [t \in Threads |-> "idle"]
    /\ call = [t \in Threads |-> AtomicTracker!NoCall]
    /\ ret = [t \in Threads |-> "none"]
    /\ todo = [t \in Threads |-> {}]

At(t, here, there) == pc[t] = here /\ pc' = [pc EXCEPT ![t] = there]

Returning(t, r) == ret' = [ret EXCEPT ![t] = r]

ItemCalls == {"putItem", "getItem"}
WriterCalls == {"put", "del", "setMarked", "setAll"}
TrackerCalls ==
    IF Tracker = "client" THEN {"get", "isMarked"} \cup WriterCalls \cup ItemCalls
    ELSE {"get", "put", "del"} \cup ItemCalls

Puts ==
    Cardinality({s \in Threads \X Keys \X (1..MaxPuts) :
                    s[3] \in DOMAIN hashtable[s[1]][s[2]]})
    + Cardinality({t \in Threads : call[t].fn = "putItem" /\ pc[t] # "return"})

Call(t, c) ==
    /\ c.fn \in TrackerCalls /\ AtomicTracker!Distinct(c)
    /\ c.fn = "putItem" => Puts < MaxPuts
    /\ At(t, "idle", IF c.fn \in ItemCalls THEN "flag" ELSE "lock")
    /\ call' = [call EXCEPT ![t] = c]
    /\ UNCHANGED <<rwlock, states, threadMap, ret, todo>>

(* The functions of the process state map. *)

Begin(t) ==
    CASE call[t].fn = "put" -> "act" [] call[t].fn = "setAll" -> "iterate" [] OTHER -> "find"

\* Mutant: iterates under the lock of readers.
LockMarksShared(t) ==
    /\ pc[t] = "lock"
    /\ writer \in {Nobody, t} /\ (call[t].fn \in WriterCalls \ {"setAll"} => readers = {})
    /\ IF writer = t
       THEN At(t, "lock", "return") /\ Returning(t, "fail") /\ UNCHANGED <<rwlock, todo>>
       ELSE /\ At(t, "lock", Begin(t))
            /\ IF call[t].fn \in WriterCalls \ {"setAll"}
               THEN writer' = t /\ UNCHANGED readers
               ELSE readers' = readers \cup {t} /\ UNCHANGED writer
            /\ IF call[t].fn = "setAll"
               THEN todo' = [todo EXCEPT ![t] = DOMAIN states] /\ Returning(t, "ok")
               ELSE UNCHANGED <<todo, ret>>
    /\ UNCHANGED <<states, threadMap, call>>

\* A thread that already holds the lock for writing is told so (EDEADLK).
Lock(t) ==
    /\ pc[t] = "lock"
    /\ writer \in {Nobody, t} /\ (call[t].fn \in WriterCalls => readers = {})
    /\ IF writer = t
       THEN At(t, "lock", "return") /\ Returning(t, "fail") /\ UNCHANGED <<rwlock, todo>>
       ELSE /\ At(t, "lock", Begin(t))
            /\ IF call[t].fn \in WriterCalls
               THEN writer' = t /\ UNCHANGED readers
               ELSE readers' = readers \cup {t} /\ UNCHANGED writer
            /\ IF call[t].fn = "setAll"
               THEN todo' = [todo EXCEPT ![t] = DOMAIN states] /\ Returning(t, "ok")
               ELSE UNCHANGED <<todo, ret>>
    /\ UNCHANGED <<states, threadMap, call>>

\* What gvGet... returns is the pointer it finds.
Find(t) ==
    /\ pc[t] = "find"
    /\ IF call[t].context \notin DOMAIN states
       THEN At(t, "find", "unlock") /\ Returning(t, "fail")
       ELSE IF call[t].fn = "get"
       THEN At(t, "find", "unlock") /\ Returning(t, "ok")
       ELSE At(t, "find", "act") /\ UNCHANGED ret
    /\ UNCHANGED <<rwlock, states, threadMap, call, todo>>

ActRead(t) ==
    /\ At(t, "act", "unlock")
    /\ call[t].fn = "isMarked"
    /\ Returning(t, IF call[t].mark \in states[call[t].context].marks THEN "yes" ELSE "no")
    /\ UNCHANGED <<rwlock, states, threadMap, call, todo>>

ActWrite(t) ==
    /\ pc[t] = "act"
    /\ LET c == call[t] IN
       \/ /\ c.fn = "put" /\ states' = AtomicTracker!Entered(states, c)
       \/ /\ c.fn = "del" /\ states' = [d \in DOMAIN states \ {c.context} |-> states[d]]
       \/ /\ c.fn = "setMarked"
          /\ states' = [states EXCEPT ![c.context] = Marked(@, c.mark, c.to)]
    /\ At(t, "act", "unlock") /\ Returning(t, "ok")
    /\ UNCHANGED <<rwlock, threadMap, call, todo>>

\* Mutant: leaves by the first handler, as the server's function does.
PutFailsLocked(t) ==
    /\ "malloc" \in Faults /\ call[t].fn = "put"
    /\ At(t, "act", "return")
    /\ Returning(t, "fail")
    /\ UNCHANGED <<rwlock, states, threadMap, call, todo>>

\* gvPutOffsetState leaves with the lock, gvPutEglContextState unlocks it.
PutFails(t) ==
    /\ "malloc" \in Faults /\ call[t].fn = "put"
    /\ At(t, "act", IF Tracker = "server" THEN "return" ELSE "unlock")
    /\ Returning(t, "fail")
    /\ UNCHANGED <<rwlock, states, threadMap, call, todo>>

\* gvForeachEglContextState, one item at a time.
Iterate(t) ==
    /\ pc[t] = "iterate"
    /\ \E c \in todo[t] :
        /\ states' = [states EXCEPT ![c] = MarkedDestroyed(@, call[t])]
        /\ todo' = [todo EXCEPT ![t] = @ \ {c}]
    /\ UNCHANGED <<rwlock, threadMap, pc, call, ret>>

IterateEnds(t) ==
    /\ todo[t] = {}
    /\ At(t, "iterate", "unlock")
    /\ UNCHANGED <<rwlock, states, threadMap, call, ret, todo>>

Unlock(t) ==
    /\ At(t, "unlock", "return")
    /\ IF writer = t THEN writer' = Nobody /\ UNCHANGED readers
       ELSE readers' = readers \ {t} /\ UNCHANGED writer
    /\ UNCHANGED <<states, threadMap, call, ret, todo>>

(* The functions of the thread state map, after initIfNotDoneAlready. *)

\* The flag is read and set with no lock.
TestFlag(t) ==
    /\ At(t, "flag", IF threadStateMapInitiated THEN "item" ELSE "initLock")
    /\ UNCHANGED <<rwlock, states, threadMap, call, ret, todo>>

\* Mutant: takes no lock before it looks for the key.
InitUnlocked(t) ==
    /\ At(t, "initLock", "initTest")
    /\ initTerminateLock' = t
    /\ UNCHANGED <<rwlock, states, threadStateMapInitiated, threadSpecificKey, hashtable,
                   call, ret, todo>>

InitLock(t) ==
    /\ initTerminateLock = Nobody
    /\ At(t, "initLock", "initTest")
    /\ initTerminateLock' = t
    /\ UNCHANGED <<rwlock, states, threadStateMapInitiated, threadSpecificKey, hashtable,
                   call, ret, todo>>

\* Mutant: does not look whether another thread has created the key.
InitAlwaysCreates(t) ==
    /\ At(t, "initTest", "initCreate")
    /\ UNCHANGED <<rwlock, states, threadMap, call, ret, todo>>

\* Mutant: raises the flag before the key is there.
FlagFirst(t) ==
    /\ At(t, "initTest", IF threadSpecificKey = NoKey THEN "initCreate" ELSE "initUnlock")
    /\ threadStateMapInitiated' = TRUE
    /\ UNCHANGED <<rwlock, states, initTerminateLock, threadSpecificKey, hashtable,
                   call, ret, todo>>

InitTest(t) ==
    /\ At(t, "initTest", IF threadSpecificKey = NoKey THEN "initCreate" ELSE "initUnlock")
    /\ UNCHANGED <<rwlock, states, threadMap, call, ret, todo>>

InitCreate(t) ==
    /\ At(t, "initCreate", "initUnlock")
    /\ threadSpecificKey' = threadSpecificKey + 1
    /\ UNCHANGED <<rwlock, states, threadStateMapInitiated, initTerminateLock, hashtable,
                   call, ret, todo>>

\* The macro makes its function return -1, a getter too: no null pointer.
InitReturns(t, here) ==
    /\ At(t, here, "return")
    /\ Returning(t, IF call[t].fn = "getItem" THEN "minusOne" ELSE "fail")
    /\ UNCHANGED <<rwlock, states, threadStateMapInitiated, threadSpecificKey, hashtable,
                   call, todo>>

CreateFails(t) ==
    /\ "key" \in Faults /\ initTerminateLock' = Nobody
    /\ InitReturns(t, "initCreate")

\* The client's macro goes on to put the items of the vertex attributes.
InitItemsFail(t) ==
    /\ Tracker = "client" /\ "malloc" \in Faults /\ UNCHANGED initTerminateLock
    /\ InitReturns(t, "setFlag")

InitUnlock(t) ==
    /\ At(t, "initUnlock", "setFlag")
    /\ initTerminateLock' = Nobody
    /\ UNCHANGED <<rwlock, states, threadStateMapInitiated, threadSpecificKey, hashtable,
                   call, ret, todo>>

SetFlag(t) ==
    /\ At(t, "setFlag", "item")
    /\ threadStateMapInitiated' = TRUE
    /\ UNCHANGED <<rwlock, states, initTerminateLock, threadSpecificKey, hashtable,
                   call, ret, todo>>

\* HASH_ADD puts the new item first, so that HASH_FIND finds it: until
\* uthash enlarges the table and with it turns the chain round.
Added(chain, v) ==
    LET longer == <<v>> \o chain
    IN  IF Len(longer) = GrowthAt THEN Reverse(longer) ELSE longer

PutItem(t) ==
    /\ call[t].fn = "putItem"
    /\ At(t, "item", "return")
    /\ \/ /\ hashtable' = [hashtable EXCEPT ![t][threadSpecificKey] = Added(@, call[t].value)]
          /\ Returning(t, "ok")
       \/ /\ "malloc" \in Faults
          /\ Returning(t, "fail") /\ UNCHANGED hashtable
    /\ UNCHANGED <<rwlock, states, keyState, call, todo>>

GetItem(t) ==
    /\ call[t].fn = "getItem"
    /\ At(t, "item", "return")
    /\ Returning(t, IF Item(t) = "none" THEN "fail" ELSE Item(t))
    /\ UNCHANGED <<rwlock, states, threadMap, call, todo>>

Return(t) ==
    /\ At(t, "return", "idle")
    /\ call' = [call EXCEPT ![t] = AtomicTracker!NoCall]
    /\ Returning(t, "none")
    /\ UNCHANGED <<rwlock, states, threadMap, todo>>

ProcessStep(t) ==
    \/ Lock(t) \/ Find(t) \/ ActRead(t) \/ ActWrite(t) \/ PutFails(t)
    \/ Iterate(t) \/ IterateEnds(t) \/ Unlock(t)

ThreadStep(t) ==
    \/ TestFlag(t) \/ InitLock(t) \/ InitTest(t) \/ InitCreate(t) \/ CreateFails(t)
    \/ InitUnlock(t) \/ InitItemsFail(t) \/ SetFlag(t) \/ PutItem(t) \/ GetItem(t)

Next == \E t \in Threads :
    \/ pc[t] = "idle" /\ \E c \in AtomicTracker!Calls : Call(t, c)
    \/ ProcessStep(t) \/ ThreadStep(t) \/ Return(t)

Spec == Init /\ [][Next]_vars

-----------------------------------------------------------------------------
(* Properties. *)

TypeOK ==
    /\ writer \in Threads \cup {Nobody} /\ readers \subseteq Threads
    /\ DOMAIN states \subseteq Contexts
    /\ \A c \in DOMAIN states : /\ states[c].display \in Displays
                                /\ states[c].marks \subseteq AtomicTracker!Marks
    /\ threadStateMapInitiated \in BOOLEAN
    /\ initTerminateLock \in Threads \cup {Nobody}
    /\ threadSpecificKey \in Keys \cup {NoKey}
    /\ \A t \in Threads, k \in Keys : hashtable[t][k] \in Seq(Values)
    /\ todo \in [Threads -> SUBSET DOMAIN states]

\* Nobody reads or walks the table while another thread changes it: all
\* the functions of process_state_map.c rely on their caller for this.
InTable(t) == pc[t] \in {"find", "act", "iterate"}
TableRaceFree ==
    \A t, u \in Threads :
        InTable(t) /\ InTable(u) /\ call[t].fn \in WriterCalls => t = u

\* A function gives the locks back on every path: a thread that has left,
\* or is in the thread state map, holds neither.
LockGivenBack ==
    \A t \in Threads :
        /\ (writer = t \/ t \in readers) => pc[t] \in {"find", "act", "iterate", "unlock"}
        /\ initTerminateLock = t => pc[t] \in {"initTest", "initCreate", "initUnlock"}

\* The key by which threads keep their items is made before anybody uses
\* it, and never made again: what a thread keeps is not lost to it.
KeyBeforeUse ==
    \A t \in Threads : pc[t] \in {"setFlag", "item"} => threadSpecificKey # NoKey
KeyForGood ==
    /\ []KeyBeforeUse
    /\ [][threadSpecificKey # NoKey => UNCHANGED threadSpecificKey]_vars

\* Every function of the tracker takes effect at one moment between its
\* call and its return, and a thread gets the item it last put.
ImplementsAtomicStates == AtomicTracker!Spec

\* A function that returns a pointer tells of a failure by NULL: its callers
\* test for nothing else.
FailureIsNull == \A t \in Threads : ret[t] # "minusOne"
=============================================================================
