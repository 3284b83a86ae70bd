------------------------- MODULE StateTrackerProofs -------------------------
(***************************************************************************)
(* Proofs about StateTracker, for any number of threads, contexts and      *)
(* displays, whatever fails: the locks do what they are for, in the        *)
(* client's tracker they are given back on every path, and the thread key  *)
(* is made once.                                                           *)
(***************************************************************************)
EXTENDS StateTracker, FiniteSetTheorems, TLAPS

\* Where a thread has processStateLock, and where initTerminateLock.
Table   == {"find", "act", "iterate", "unlock"}
Creator == {"initTest", "initCreate", "initUnlock"}
Places  == Table \cup Creator
           \cup {"idle", "lock", "return", "flag", "initLock", "setFlag", "item"}

Types ==
    /\ pc \in [Threads -> Places]
    /\ DOMAIN call = Threads
    /\ threadSpecificKey \in Nat

\* Who is in the table has the lock for what its call does there.
Shared ==
    /\ writer # Nobody => readers = {}
    /\ \A t \in Threads : pc[t] \in Table =>
         IF call[t].fn \in WriterCalls THEN writer = t ELSE t \in readers

\* The key is there for who has passed the lock, or has seen the flag.
OneKey ==
    /\ \A t \in Threads : initTerminateLock = t <=> pc[t] \in Creator
    /\ \A t \in Threads : pc[t] = "initCreate" => threadSpecificKey = NoKey
    /\ \A t \in Threads : pc[t] \in {"initUnlock", "setFlag", "item"}
                             => threadSpecificKey # NoKey
    /\ threadStateMapInitiated => threadSpecificKey # NoKey

IInv == Types /\ Shared /\ OneKey

\* Without the server's early return, only who is in the table has the lock.
GivenBack ==
    \A t \in Threads : (writer = t \/ t \in readers) => pc[t] \in Table

LEMMA InitInv == Init => IInv /\ GivenBack
<1> SUFFICES ASSUME Init PROVE IInv /\ GivenBack
  OBVIOUS
<1>1. \A t \in Threads : pc[t] = "idle" /\ t # Nobody
  BY StateTrackerAssumption DEF Init, Nobody
<1>2. Types
  BY DEF Init, Types, Places, NoKey
<1>3. Shared /\ OneKey /\ GivenBack
  BY <1>1 DEF Init, Shared, OneKey, GivenBack, Table, Creator
<1> QED BY <1>2, <1>3 DEF IInv

\* A step in the process state map, after the lock.
LEMMA TableStep ==
  ASSUME IInv, NEW t \in Threads, pc[t] \in {"find", "act", "iterate"},
         NEW p \in Table, pc' = [pc EXCEPT ![t] = p],
         UNCHANGED <<rwlock, threadMap, call>>
  PROVE  IInv' /\ (GivenBack => GivenBack')
<1>1. Types'
  BY DEF IInv, Types, Places, threadMap, keyState
<1>2. Shared'
  BY DEF IInv, Types, Shared, Table, rwlock
<1>3. OneKey'
  BY DEF IInv, Types, OneKey, Table, Creator, threadMap, keyState
<1>4. GivenBack => GivenBack'
  BY DEF IInv, Types, GivenBack, rwlock
<1> QED BY <1>1, <1>2, <1>3, <1>4 DEF IInv

\* A step that neither comes from the table nor goes there, and leaves the key.
LEMMA OutsideStep ==
  ASSUME IInv, NEW t \in Threads, pc[t] \notin Table \cup Creator,
         NEW p \in Places \ (Table \cup Creator), pc' = [pc EXCEPT ![t] = p],
         p \in {"setFlag", "item"} => threadSpecificKey # NoKey,
         DOMAIN call' = Threads,
         \A u \in Threads \ {t} : call'[u] = call[u],
         UNCHANGED <<rwlock, initTerminateLock, threadSpecificKey>>,
         threadStateMapInitiated' => threadSpecificKey # NoKey
  PROVE  IInv' /\ (GivenBack => GivenBack')
<1>1. Types'
  BY DEF IInv, Types
<1>2. Shared'
  BY DEF IInv, Types, Shared, rwlock
<1>3. OneKey'
  BY DEF IInv, Types, OneKey, Creator
<1>4. GivenBack => GivenBack'
  BY DEF IInv, Types, GivenBack, rwlock
<1> QED BY <1>1, <1>2, <1>3, <1>4 DEF IInv

LEMMA ProcessStepInv ==
  ASSUME IInv, NEW t \in Threads, ProcessStep(t)
  PROVE  IInv' /\ (GivenBack /\ Tracker = "client" => GivenBack')
<1> USE StateTrackerAssumption
<1>1. CASE Lock(t)
  <2>1. CASE writer = t
    BY <1>1, <2>1, OutsideStep
       DEF Lock, At, IInv, Types, OneKey, Places, Table, Creator, threadMap, keyState, rwlock
  <2>2. CASE writer # t
    <3>1. /\ pc' = [pc EXCEPT ![t] = Begin(t)] /\ Begin(t) \in {"act", "iterate", "find"}
          /\ pc[t] = "lock" /\ writer = Nobody
          /\ UNCHANGED <<threadMap, call>>
      BY <1>1, <2>2 DEF Lock, At, Begin
    <3>2. CASE call[t].fn \in WriterCalls
      <4>1. readers = {} /\ writer' = t /\ readers' = {}
        BY <1>1, <2>2, <3>2 DEF Lock
      <4> QED
        BY <3>1, <3>2, <4>1 DEF IInv, Types, Shared, OneKey, GivenBack, Places, Table,
                                Creator, threadMap, keyState, Nobody
    <3>3. CASE call[t].fn \notin WriterCalls
      <4>1. writer' = writer /\ readers' = readers \cup {t}
        BY <1>1, <2>2, <3>3 DEF Lock
      <4> QED
        BY <3>1, <3>3, <4>1 DEF IInv, Types, Shared, OneKey, GivenBack, Places, Table,
                                Creator, threadMap, keyState, Nobody
    <3> QED BY <3>2, <3>3
  <2> QED BY <2>1, <2>2
<1>2. CASE Find(t)
  <2>1. /\ pc[t] = "find" /\ UNCHANGED <<rwlock, threadMap, call>>
        /\ \E p \in {"unlock", "act"} : pc' = [pc EXCEPT ![t] = p]
    BY <1>2 DEF Find, At
  <2> QED BY <2>1, TableStep DEF Table
<1>3. CASE ActRead(t)
  BY <1>3, TableStep DEF ActRead, At, Table
<1>4. CASE ActWrite(t)
  BY <1>4, TableStep DEF ActWrite, At, Table
<1>5. CASE PutFails(t)
  <2>1. CASE Tracker = "client"
    BY <1>5, <2>1, TableStep DEF PutFails, At, Table
  <2>2. CASE Tracker # "client"
    <3>1. /\ pc[t] = "act" /\ pc' = [pc EXCEPT ![t] = "return"]
          /\ UNCHANGED <<rwlock, threadMap, call>>
      BY <1>5, <2>2 DEF PutFails, At
    <3>2. IInv'
      BY <3>1 DEF IInv, Types, Shared, OneKey, Places, Table, Creator, rwlock, threadMap,
                  keyState
    <3> QED BY <2>2, <3>2
  <2> QED BY <2>1, <2>2
<1>6. CASE Iterate(t)
  <2>1. pc' = [pc EXCEPT ![t] = "iterate"]
    BY <1>6 DEF Iterate, IInv, Types
  <2> QED BY <1>6, <2>1, TableStep DEF Iterate, Table
<1>7. CASE IterateEnds(t)
  BY <1>7, TableStep DEF IterateEnds, At, Table
<1>8. CASE Unlock(t)
  <2>1. /\ pc[t] = "unlock" /\ pc' = [pc EXCEPT ![t] = "return"]
        /\ UNCHANGED <<threadMap, call>>
    BY <1>8 DEF Unlock, At
  <2>2. Types' /\ OneKey'
    BY <2>1 DEF IInv, Types, OneKey, Places, Table, Creator, threadMap, keyState
  <2>3. CASE writer = t
    <3>1. writer' = Nobody /\ readers' = {} /\ readers = {}
      BY <1>8, <2>3 DEF Unlock, IInv, Shared, Nobody
    <3>2. \A u \in Threads : pc[u] \in Table => u = t
      BY <2>3, <3>1 DEF IInv, Shared
    <3>3. Shared' /\ GivenBack'
      BY <2>1, <3>1, <3>2 DEF IInv, Types, Shared, GivenBack, Table, Nobody
    <3> QED BY <2>2, <3>3 DEF IInv
  <2>4. CASE writer # t
    <3>1. writer' = writer /\ readers' = readers \ {t}
      BY <1>8, <2>4 DEF Unlock
    <3>2. Shared' /\ (GivenBack => GivenBack')
      BY <2>1, <2>4, <3>1 DEF IInv, Types, Shared, GivenBack, Table
    <3> QED BY <2>2, <3>2 DEF IInv
  <2> QED BY <2>3, <2>4
<1> QED BY <1>1, <1>2, <1>3, <1>4, <1>5, <1>6, <1>7, <1>8 DEF ProcessStep

\* A step of the thread that has, takes or gives back initTerminateLock.
LEMMA CreatorStep ==
  ASSUME IInv, NEW t \in Threads, NEW p \in Places \ Table,
         pc[t] \in Creator \cup {"initLock"}, pc' = [pc EXCEPT ![t] = p],
         initTerminateLock' = IF p \in Creator THEN t ELSE Nobody,
         pc[t] = "initLock" => initTerminateLock = Nobody,
         UNCHANGED <<rwlock, call, threadStateMapInitiated>>,
         threadSpecificKey' \in Nat,
         threadSpecificKey' = NoKey => threadSpecificKey = NoKey,
         p = "initCreate" => threadSpecificKey' = NoKey,
         p \in {"initUnlock", "setFlag", "item"} => threadSpecificKey' # NoKey
  PROVE  IInv' /\ (GivenBack => GivenBack')
<1>1. Types'
  BY DEF IInv, Types
<1>2. Shared'
  BY DEF IInv, Types, Shared, rwlock, Table, Creator
<1>3. \A u \in Threads \ {t} : pc[u] \notin Creator
  BY StateTrackerAssumption DEF IInv, OneKey, Nobody
<1>4. OneKey'
  BY <1>3, StateTrackerAssumption DEF IInv, Types, OneKey, Creator, Nobody
<1>5. GivenBack => GivenBack'
  BY DEF IInv, Types, GivenBack, rwlock, Table, Creator
<1> QED BY <1>1, <1>2, <1>4, <1>5 DEF IInv

LEMMA ThreadStepInv ==
  ASSUME IInv, NEW t \in Threads, ThreadStep(t)
  PROVE  IInv' /\ (GivenBack => GivenBack')
<1>1. CASE TestFlag(t)
  BY <1>1, OutsideStep DEF TestFlag, At, IInv, Types, OneKey, Places, Table, Creator, threadMap,
                           keyState, rwlock
<1>2. CASE InitLock(t)
  BY <1>2, CreatorStep DEF InitLock, At, IInv, Types, Places, Table, Creator, rwlock
<1>3. CASE InitTest(t)
  <2>1. initTerminateLock = t
    BY <1>3 DEF InitTest, At, IInv, OneKey, Creator
  <2> QED
    BY <1>3, <2>1, CreatorStep DEF InitTest, At, IInv, Types, Places, Table, Creator,
                                   rwlock, threadMap, keyState
<1>4. CASE InitCreate(t)
  <2>1. /\ pc[t] = "initCreate" /\ pc' = [pc EXCEPT ![t] = "initUnlock"]
        /\ initTerminateLock' = t /\ threadSpecificKey' = 1
        /\ UNCHANGED <<rwlock, call, threadStateMapInitiated>>
    BY <1>4 DEF InitCreate, At, IInv, OneKey, Creator, NoKey
  <2>2. "initUnlock" \in Places \ Table /\ "initUnlock" \in Creator
    BY DEF Places, Table, Creator
  <2>3. pc[t] \in Creator \cup {"initLock"} /\ pc[t] # "initLock"
    BY <2>1 DEF Creator
  <2>4. threadSpecificKey' \in Nat /\ threadSpecificKey' # NoKey
    BY <2>1 DEF NoKey
  <2> QED
    BY <2>1, <2>2, <2>3, <2>4, CreatorStep
<1>5. CASE CreateFails(t)
  BY <1>5, CreatorStep DEF CreateFails, InitReturns, At, IInv, Types, Places, Table, Creator,
                           rwlock
<1>6. CASE InitUnlock(t)
  BY <1>6, CreatorStep DEF InitUnlock, At, IInv, Types, OneKey, Places, Table, Creator, rwlock
<1>7. CASE InitItemsFail(t)
  BY <1>7, OutsideStep DEF InitItemsFail, InitReturns, At, IInv, Types, OneKey, Places, Table,
                           Creator, rwlock
<1>8. CASE SetFlag(t)
  BY <1>8, OutsideStep DEF SetFlag, At, IInv, Types, OneKey, Places, Table, Creator, rwlock
<1>9. CASE PutItem(t)
  BY <1>9, OutsideStep DEF PutItem, At, IInv, Types, OneKey, Places, Table, Creator, rwlock,
                           keyState
<1>10. CASE GetItem(t)
  BY <1>10, OutsideStep DEF GetItem, At, IInv, Types, OneKey, Places, Table, Creator, rwlock,
                            threadMap, keyState
<1> QED BY <1>1, <1>2, <1>3, <1>4, <1>5, <1>6, <1>7, <1>8, <1>9, <1>10 DEF ThreadStep

LEMMA StepInv ==
  ASSUME IInv, [Next]_vars
  PROVE  IInv' /\ (GivenBack /\ Tracker = "client" => GivenBack')
<1>1. CASE UNCHANGED vars
  BY <1>1 DEF vars, rwlock, threadMap, keyState, IInv, Types, Shared, OneKey, GivenBack
<1>2. ASSUME NEW t \in Threads, NEW c \in AtomicTracker!Calls, Call(t, c)
      PROVE  IInv' /\ (GivenBack => GivenBack')
  BY <1>2, OutsideStep DEF Call, At, IInv, Types, OneKey, Places, Table, Creator, threadMap,
                           keyState, rwlock
<1>3. ASSUME NEW t \in Threads, Return(t) PROVE IInv' /\ (GivenBack => GivenBack')
  BY <1>3, OutsideStep DEF Return, At, IInv, Types, OneKey, Places, Table, Creator, threadMap,
                           keyState, rwlock
<1> QED BY <1>1, <1>2, <1>3, ProcessStepInv, ThreadStepInv DEF Next

\* The inductive invariant, in client and server.
THEOREM TrackerInvariance == Spec => []IInv
<1>1. Init => IInv
  BY InitInv
<1>2. IInv /\ [Next]_vars => IInv'
  BY StepInv
<1> QED BY <1>1, <1>2, PTL DEF Spec

\* Nobody reads or walks the table of context states while another thread
\* changes it: gvForeachEglContextState and its like, client and server.
THEOREM NoTableRace == Spec => []TableRaceFree
<1>1. IInv => TableRaceFree
  BY StateTrackerAssumption DEF IInv, Shared, TableRaceFree, InTable, Table, Nobody
<1> QED BY <1>1, TrackerInvariance, PTL

\* Every function of the client's tracker gives its locks back, whatever
\* fails in it.  Of the server's, gvPutOffsetState does not.
THEOREM ClientGivesBack ==
  ASSUME Tracker = "client"
  PROVE  Spec => []LockGivenBack
<1>1. Init => IInv /\ GivenBack
  BY InitInv
<1>2. (IInv /\ GivenBack) /\ [Next]_vars => (IInv /\ GivenBack)'
  BY StepInv
<1>3. IInv /\ GivenBack => LockGivenBack
  BY DEF IInv, OneKey, GivenBack, LockGivenBack, Table, Creator
<1> QED BY <1>1, <1>2, <1>3, PTL DEF Spec

\* However many threads make their first call at once, gvInitThreadStateMap
\* makes one key, before anybody uses it.
THEOREM KeyMadeOnce == Spec => KeyForGood
<1>1. IInv => KeyBeforeUse
  BY DEF IInv, OneKey, KeyBeforeUse
<1>2. IInv /\ [Next]_vars => [threadSpecificKey # NoKey => UNCHANGED threadSpecificKey]_vars
  <2> SUFFICES ASSUME IInv, Next, threadSpecificKey # NoKey
               PROVE  UNCHANGED threadSpecificKey
    OBVIOUS
  <2>1. ASSUME NEW t \in Threads, ProcessStep(t) PROVE UNCHANGED threadMap
    BY <2>1 DEF ProcessStep, Lock, Find, ActRead, ActWrite, PutFails, Iterate, IterateEnds, Unlock
  <2>2. ASSUME NEW t \in Threads, ThreadStep(t) PROVE UNCHANGED threadSpecificKey
    <3>1. ~InitCreate(t)
      BY DEF InitCreate, At, IInv, OneKey
    <3> QED
      BY <2>2, <3>1 DEF ThreadStep, TestFlag, InitLock, InitTest, CreateFails, InitUnlock,
         InitItemsFail, InitReturns, SetFlag, PutItem, GetItem, threadMap, keyState
  <2>3. ASSUME NEW t \in Threads, NEW c \in AtomicTracker!Calls, Call(t, c)
        PROVE  UNCHANGED threadMap
    BY <2>3 DEF Call
  <2>4. ASSUME NEW t \in Threads, Return(t) PROVE UNCHANGED threadMap
    BY <2>4 DEF Return
  <2> QED BY <2>1, <2>2, <2>3, <2>4 DEF Next, threadMap, keyState
<1> QED BY <1>1, <1>2, TrackerInvariance, PTL DEF Spec, KeyForGood

-----------------------------------------------------------------------------
(* What the functions find and leave.                                      *)

Fns       == {"get", "isMarked", "put", "del", "setMarked", "setAll", "putItem", "getItem"}
Finders   == {"del", "get", "isMarked", "setMarked"}
ItemPlaces == {"flag", "initLock", "initTest", "initCreate", "initUnlock", "setFlag", "item"}
States    == [display : Displays, marks : SUBSET AtomicTracker!Marks]

\* A thread is at a place of the function it has called, and has found there
\* the context that it goes on to read or change.
Doing ==
    /\ DOMAIN ret = Threads
    /\ \A t \in Threads :
        /\ pc[t] = "idle" <=> call[t] = AtomicTracker!NoCall
        /\ pc[t] # "idle" => call[t] \in AtomicTracker!Calls
        /\ pc[t] = "lock" => call[t].fn \notin ItemCalls
        /\ pc[t] = "find" => call[t].fn \in Finders
        /\ pc[t] = "act" => /\ call[t].fn \in {"put", "del", "isMarked", "setMarked"}
                            /\ call[t].fn # "put" => call[t].context \in DOMAIN states
        /\ pc[t] = "iterate" => call[t].fn = "setAll"
        /\ pc[t] \in ItemPlaces => call[t].fn \in ItemCalls

\* Only an iteration has contexts left to visit, and they are in the table.
Kept ==
    /\ states \in [DOMAIN states -> States] /\ DOMAIN states \subseteq Contexts
    /\ todo \in [Threads -> SUBSET Contexts]
    /\ \A t \in Threads : /\ todo[t] \subseteq DOMAIN states
                          /\ todo[t] # {} => pc[t] = "iterate"

\* There is one key at most, and nothing under it before it is there.
Chains ==
    /\ threadSpecificKey \in {NoKey} \cup (Keys \cap {1})
    /\ hashtable \in [Threads -> [Keys -> Seq(Values)]]
    /\ threadSpecificKey = NoKey => \A t \in Threads, k \in Keys : hashtable[t][k] = <<>>

\* Only threads hold locks.
Holders ==
    /\ writer \in Threads \cup {Nobody} /\ readers \subseteq Threads
    /\ initTerminateLock \in Threads \cup {Nobody}
    /\ threadStateMapInitiated \in BOOLEAN

Contents == Doing /\ Kept /\ Chains /\ Holders

LEMMA CallFacts ==
  ASSUME NEW c \in AtomicTracker!Calls
  PROVE  /\ c.fn \in Fns
         /\ c.fn \in Finders \cup {"put"} => c.context \in Contexts
         /\ c.fn \in {"put", "setAll"} => c.display \in Displays
         /\ c.fn \in {"isMarked", "setMarked"} => c.mark \in AtomicTracker!Marks
         /\ c.fn = "putItem" => c.value \in Values
         /\ c # AtomicTracker!NoCall
<1> USE DEF Fns, Finders
<1>1. CASE \E x \in Contexts, d \in Displays : c = [fn |-> "put", context |-> x, display |-> d]
  BY <1>1 DEF AtomicTracker!NoCall
<1>2. CASE \E x \in Contexts : c = [fn |-> "del", context |-> x]
  BY <1>2 DEF AtomicTracker!NoCall
<1>3. CASE \E x \in Contexts : c = [fn |-> "get", context |-> x]
  BY <1>3 DEF AtomicTracker!NoCall
<1>4. CASE \E x \in Contexts, m \in AtomicTracker!Marks :
             c = [fn |-> "isMarked", context |-> x, mark |-> m]
  BY <1>4 DEF AtomicTracker!NoCall
<1>5. CASE \E x \in Contexts, m \in AtomicTracker!Marks, b \in BOOLEAN :
             c = [fn |-> "setMarked", context |-> x, mark |-> m, to |-> b]
  BY <1>5 DEF AtomicTracker!NoCall
<1>6. CASE \E d \in Displays, b \in BOOLEAN : c = [fn |-> "setAll", display |-> d, to |-> b]
  BY <1>6 DEF AtomicTracker!NoCall
<1>7. CASE \E v \in Values : c = [fn |-> "putItem", value |-> v]
  BY <1>7 DEF AtomicTracker!NoCall
<1>8. CASE c = [fn |-> "getItem"]
  BY <1>8 DEF AtomicTracker!NoCall
<1> QED
  BY <1>1, <1>2, <1>3, <1>4, <1>5, <1>6, <1>7, <1>8
     DEF AtomicTracker!Calls, AtomicTracker!PutOf, AtomicTracker!DelOf, AtomicTracker!GetOf,
         AtomicTracker!IsMarkedOf, AtomicTracker!SetMarkedOf, AtomicTracker!SetAllOf,
         AtomicTracker!PutItemOf, AtomicTracker!GetItemOf

LEMMA KeysFacts ==
  Threads # {} => 1 \in Keys
<1>1. Cardinality(Threads) \in Nat /\ (Cardinality(Threads) = 0 <=> Threads = {})
  BY StateTrackerAssumption, FS_CardinalityType, FS_EmptySet
<1> QED BY <1>1 DEF Keys

LEMMA ContentsInit == Init => Contents
<1> SUFFICES ASSUME Init PROVE Contents
  OBVIOUS
<1>1. Doing
  BY DEF Init, Doing, ItemPlaces
<1>2. Kept
  BY DEF Init, Kept
<1>3. Chains
  BY DEF Init, Chains
<1>4. Holders
  BY DEF Init, Holders
<1> QED BY <1>1, <1>2, <1>3, <1>4 DEF Contents

LEMMA DoingMoves ==
  ASSUME Types, Doing, NEW t \in Threads, NEW p \in Places \ {"idle", "lock"}, pc[t] # "idle",
         pc' = [pc EXCEPT ![t] = p], call' = call, DOMAIN ret' = Threads,
         \/ DOMAIN states' = DOMAIN states
         \/ \A u \in Threads \ {t} : pc[u] # "act",
         p = "find" => call[t].fn \in Finders,
         p = "act" => /\ call[t].fn \in {"put", "del", "isMarked", "setMarked"}
                      /\ call[t].fn # "put" => call[t].context \in DOMAIN states',
         p = "iterate" => call[t].fn = "setAll",
         p \in ItemPlaces => call[t].fn \in ItemCalls
  PROVE  Doing'
  BY DEF Doing, Types

LEMMA KeptSame ==
  ASSUME Types, Kept, NEW t \in Threads, NEW p, pc' = [pc EXCEPT ![t] = p],
         pc[t] = "iterate" => todo[t] = {} \/ p = "iterate",
         UNCHANGED <<states, todo>>
  PROVE  Kept'
  BY DEF Kept, Types

LEMMA ChainsSame ==
  ASSUME Chains, UNCHANGED <<threadSpecificKey, hashtable>>
  PROVE  Chains'
  BY DEF Chains

\* Under the lock for writing no other thread is in the table.
LEMMA AloneInTable ==
  ASSUME IInv, NEW t \in Threads, pc[t] \in Table, call[t].fn \in WriterCalls
  PROVE  writer = t /\ \A u \in Threads \ {t} : pc[u] \notin Table
  BY StateTrackerAssumption DEF IInv, Shared, Nobody

LEMMA HoldersStep ==
  ASSUME Holders, NEW t \in Threads, ProcessStep(t) \/ ThreadStep(t)
  PROVE  Holders'
BY DEF Holders, ProcessStep, Lock, Find, ActRead, ActWrite, PutFails, Iterate, IterateEnds, Unlock,
       ThreadStep, TestFlag, InitLock, InitTest, InitCreate, CreateFails, InitUnlock,
       InitItemsFail, InitReturns, SetFlag, PutItem, GetItem, rwlock, threadMap, keyState

LEMMA ProcessContents ==
  ASSUME IInv, Contents, NEW t \in Threads, ProcessStep(t)
  PROVE  (Doing /\ Kept /\ Chains)'
<1> USE DEF IInv, Contents
<1>1. CASE Lock(t)
  <2>1. /\ pc[t] = "lock" /\ call' = call /\ UNCHANGED <<states, threadSpecificKey, hashtable>>
        /\ call[t] \in AtomicTracker!Calls /\ call[t].fn \notin ItemCalls
    BY <1>1 DEF Lock, Doing, threadMap, keyState
  <2>2. CASE writer = t
    <3>1. pc' = [pc EXCEPT ![t] = "return"] /\ DOMAIN ret' = Threads /\ todo' = todo
      BY <1>1, <2>2 DEF Lock, At, Returning, Doing
    <3> QED
      BY <2>1, <3>1, DoingMoves, KeptSame, ChainsSame DEF Places, Finders, ItemPlaces
  <2>3. CASE writer # t
    <3>1. /\ pc' = [pc EXCEPT ![t] = Begin(t)] /\ DOMAIN ret' = Threads
          /\ todo' = IF call[t].fn = "setAll" THEN [todo EXCEPT ![t] = DOMAIN states] ELSE todo
      BY <1>1, <2>3 DEF Lock, At, Returning, Doing
    <3>2. /\ Begin(t) \in {"act", "iterate", "find"}
          /\ Begin(t) = "act" <=> call[t].fn = "put"
          /\ Begin(t) = "iterate" <=> call[t].fn = "setAll"
          /\ Begin(t) = "find" => call[t].fn \in Finders
      BY <2>1, CallFacts DEF Begin, Fns, Finders, ItemCalls
    <3>3. Doing'
      BY <2>1, <3>1, <3>2, DoingMoves DEF Places, Table, ItemPlaces
    <3>4. Kept'
      BY <2>1, <3>1, <3>2 DEF Kept, Types
    <3> QED BY <2>1, <3>3, <3>4, ChainsSame
  <2> QED BY <2>2, <2>3
<1>2. CASE Find(t)
  <2>1. /\ pc[t] = "find" /\ UNCHANGED <<states, todo, call, threadSpecificKey, hashtable>>
        /\ DOMAIN ret' = Threads /\ call[t].fn \in Finders
        /\ \/ pc' = [pc EXCEPT ![t] = "unlock"]
           \/ /\ pc' = [pc EXCEPT ![t] = "act"] /\ call[t].fn # "get"
              /\ call[t].context \in DOMAIN states
    BY <1>2 DEF Find, At, Returning, Doing, threadMap, keyState
  <2> QED
    BY <2>1, DoingMoves, KeptSame, ChainsSame DEF Places, Table, Finders, ItemPlaces
<1>3. CASE ActRead(t) \/ PutFails(t)
  <2>1. /\ pc[t] = "act" /\ UNCHANGED <<states, todo, call, threadSpecificKey, hashtable>>
        /\ DOMAIN ret' = Threads
        /\ \E p \in {"unlock", "return"} : pc' = [pc EXCEPT ![t] = p]
    BY <1>3 DEF ActRead, PutFails, At, Returning, Doing, threadMap, keyState
  <2> QED
    BY <2>1, DoingMoves, KeptSame, ChainsSame DEF Places, Table, ItemPlaces
<1>4. CASE ActWrite(t)
  <2>1. /\ pc[t] = "act" /\ pc' = [pc EXCEPT ![t] = "unlock"]
        /\ UNCHANGED <<todo, call, threadSpecificKey, hashtable>> /\ DOMAIN ret' = Threads
        /\ call[t].fn \in {"put", "del", "setMarked"}
        /\ call[t] \in AtomicTracker!Calls
        /\ call[t].fn # "put" => call[t].context \in DOMAIN states
    BY <1>4 DEF ActWrite, At, Returning, Doing, threadMap, keyState
  <2>2. writer = t /\ \A u \in Threads \ {t} : pc[u] \notin Table
    BY <2>1, AloneInTable DEF Table, WriterCalls
  <2>3. \A u \in Threads : todo[u] = {}
    BY <2>1, <2>2 DEF Kept, Table
  <2>4. states' \in [DOMAIN states' -> States] /\ DOMAIN states' \subseteq Contexts
    <3>1. CASE call[t].fn = "put"
      <4>1. states' = AtomicTracker!Entered(states, call[t])
        BY <1>4, <3>1 DEF ActWrite
      <4>2. call[t].context \in Contexts /\ call[t].display \in Displays
        BY <2>1, <3>1, CallFacts
      <4>3. AtomicTracker!NewState(call[t].display) \in States
        BY <4>2 DEF AtomicTracker!NewState, States
      <4> QED BY <4>1, <4>2, <4>3 DEF AtomicTracker!Entered, Kept
    <3>2. CASE call[t].fn = "del"
      BY <1>4, <3>2 DEF ActWrite, Kept
    <3>3. CASE call[t].fn = "setMarked"
      <4>1. states' = [states EXCEPT ![call[t].context] = Marked(@, call[t].mark, call[t].to)]
        BY <1>4, <3>3 DEF ActWrite
      <4>2. call[t].mark \in AtomicTracker!Marks
        BY <2>1, <3>3, CallFacts
      <4>3. \A s \in States : Marked(s, call[t].mark, call[t].to) \in States
        BY <4>2 DEF Marked, States
      <4> QED BY <2>1, <4>1, <4>3 DEF Kept
    <3> QED BY <2>1, <3>1, <3>2, <3>3
  <2>5. Kept'
    BY <2>1, <2>3, <2>4 DEF Kept, Types
  <2>6. Doing'
    BY <2>1, <2>2, DoingMoves DEF Places, Table, ItemPlaces
  <2> QED BY <2>1, <2>5, <2>6, ChainsSame
<1>5. CASE Iterate(t)
  <2>1. /\ pc[t] = "iterate" /\ UNCHANGED <<pc, call, ret, threadSpecificKey, hashtable>>
        /\ call[t].fn = "setAll"
    BY <1>5 DEF Iterate, Doing, threadMap, keyState
  <2>2. PICK c \in todo[t] : /\ states' = [states EXCEPT ![c] = MarkedDestroyed(@, call[t])]
                             /\ todo' = [todo EXCEPT ![t] = @ \ {c}]
    BY <1>5 DEF Iterate
  <2>3. \A s \in States : MarkedDestroyed(s, call[t]) \in States
    BY DEF MarkedDestroyed, Marked, States, AtomicTracker!Marks
  <2>4. DOMAIN states' = DOMAIN states
    BY <2>2
  <2>5. Kept'
    BY <2>1, <2>2, <2>3, <2>4 DEF Kept
  <2> QED BY <2>1, <2>4, <2>5, ChainsSame DEF Doing
<1>6. CASE IterateEnds(t)
  <2>1. /\ pc[t] = "iterate" /\ UNCHANGED <<states, todo, call, ret, threadSpecificKey, hashtable>>
        /\ todo[t] = {} /\ pc' = [pc EXCEPT ![t] = "unlock"]
    BY <1>6 DEF IterateEnds, At, threadMap, keyState
  <2> QED
    BY <2>1, DoingMoves, KeptSame, ChainsSame DEF Places, Table, ItemPlaces, Doing
<1>7. CASE Unlock(t)
  <2>1. /\ pc[t] = "unlock" /\ UNCHANGED <<states, todo, call, ret, threadSpecificKey, hashtable>>
        /\ pc' = [pc EXCEPT ![t] = "return"]
    BY <1>7 DEF Unlock, At, threadMap, keyState
  <2> QED
    BY <2>1, DoingMoves, KeptSame, ChainsSame DEF Places, ItemPlaces, Doing
<1> QED BY <1>1, <1>2, <1>3, <1>4, <1>5, <1>6, <1>7 DEF ProcessStep

LEMMA ChainFacts ==
  ASSUME NEW s \in Seq(Values), NEW v \in Values
  PROVE  /\ Added(s, v) \in Seq(Values) /\ Len(Added(s, v)) = Len(s) + 1
         /\ Len(s) + 1 # GrowthAt => Added(s, v) # <<>> /\ Head(Added(s, v)) = v
<1> DEFINE longer == <<v>> \o s
<1>1. <<v>> \in Seq(Values) /\ Len(<<v>>) = 1 /\ <<v>>[1] = v /\ Len(s) \in Nat
  OBVIOUS
<1>2. longer \in Seq(Values) /\ Len(longer) = Len(s) + 1 /\ longer[1] = v
  BY <1>1
<1>3. Reverse(longer) \in Seq(Values) /\ Len(Reverse(longer)) = Len(longer)
  BY <1>1, <1>2 DEF Reverse
<1>4. Added(s, v) = IF Len(longer) = GrowthAt THEN Reverse(longer) ELSE longer
  BY DEF Added
<1> HIDE DEF longer
<1> QED BY <1>1, <1>2, <1>3, <1>4

LEMMA ChainPut ==
  ASSUME NEW S, NEW h \in [Threads -> [Keys -> S]], NEW t \in Threads, NEW k \in Keys, NEW s \in S
  PROVE  /\ [h EXCEPT ![t][k] = s] \in [Threads -> [Keys -> S]]
         /\ [h EXCEPT ![t][k] = s][t][k] = s
         /\ \A u \in Threads, j \in Keys : u # t \/ j # k => [h EXCEPT ![t][k] = s][u][j] = h[u][j]
  OBVIOUS

LEMMA ThreadContents ==
  ASSUME IInv, Contents, NEW t \in Threads, ThreadStep(t)
  PROVE  (Doing /\ Kept /\ Chains)'
<1> USE DEF IInv, Contents
<1>1. /\ UNCHANGED <<states, todo, call>> /\ pc[t] \in ItemPlaces
      /\ \E p \in Places \ (Table \cup {"idle", "lock"}) : pc' = [pc EXCEPT ![t] = p]
      /\ DOMAIN ret' = Threads
  BY DEF ThreadStep, TestFlag, InitLock, InitTest, InitCreate, CreateFails, InitUnlock,
         InitItemsFail, InitReturns, SetFlag, PutItem, GetItem, At, Returning, Doing,
         Places, Table, Creator, ItemPlaces
<1>2. PICK p \in Places \ (Table \cup {"idle", "lock"}) : pc' = [pc EXCEPT ![t] = p]
  BY <1>1
<1>3. call[t].fn \in ItemCalls /\ call[t] \in AtomicTracker!Calls
  BY <1>1 DEF Doing, ItemPlaces
<1>4. Doing'
  BY <1>1, <1>2, <1>3, DoingMoves DEF Table, ItemPlaces
<1>5. Kept'
  BY <1>1, <1>2, KeptSame DEF ItemPlaces
<1>6. Chains'
  <2>1. CASE InitCreate(t)
    <3>1. threadSpecificKey = NoKey /\ threadSpecificKey' = 1 /\ hashtable' = hashtable
      BY <2>1 DEF InitCreate, At, OneKey, NoKey
    <3> QED BY <3>1, KeysFacts DEF Chains, NoKey
  <2>2. CASE PutItem(t)
    <3>1. /\ pc[t] = "item" /\ call[t].fn = "putItem" /\ threadSpecificKey' = threadSpecificKey
          /\ \/ hashtable' = hashtable
             \/ hashtable' = [hashtable EXCEPT ![t][threadSpecificKey] = Added(@, call[t].value)]
      BY <2>2 DEF PutItem, At, keyState
    <3>2. threadSpecificKey # NoKey /\ threadSpecificKey \in Keys
      BY <3>1 DEF OneKey, Chains
    <3>3. Added(hashtable[t][threadSpecificKey], call[t].value) \in Seq(Values)
      BY <1>3, <3>1, <3>2, CallFacts, ChainFacts DEF Chains
    <3> DEFINE k == threadSpecificKey
               longer == Added(hashtable[t][k], call[t].value)
    <3>4. hashtable \in [Threads -> [Keys -> Seq(Values)]]
      BY DEF Chains
    <3>5. [hashtable EXCEPT ![t][k] = longer] \in [Threads -> [Keys -> Seq(Values)]]
      <4> HIDE DEF k, longer, IInv, Contents
      <4>1. k \in Keys
        BY <3>2 DEF k
      <4>2. PICK chains : chains = Seq(Values)
        OBVIOUS
      <4>3. longer \in chains /\ hashtable \in [Threads -> [Keys -> chains]]
        BY <3>3, <3>4, <4>2 DEF longer, k
      <4>4. [hashtable EXCEPT ![t][k] = longer] \in [Threads -> [Keys -> chains]]
        BY <4>1, <4>3, ChainPut
      <4> QED BY <4>2, <4>4
    <3>6. hashtable' \in [Threads -> [Keys -> Seq(Values)]]
      BY <3>1, <3>4, <3>5
    <3> QED BY <3>1, <3>2, <3>6 DEF Chains
  <2>3. CASE ~InitCreate(t) /\ ~PutItem(t)
    BY <2>3, ChainsSame
       DEF ThreadStep, TestFlag, InitLock, InitTest, CreateFails, InitUnlock, InitItemsFail,
           InitReturns, SetFlag, GetItem, threadMap, keyState
  <2> QED BY <2>1, <2>2, <2>3
<1> QED BY <1>4, <1>5, <1>6

LEMMA ContentsStep == IInv /\ Contents /\ [Next]_vars => Contents'
<1> SUFFICES ASSUME IInv, Contents, [Next]_vars PROVE Contents'
  OBVIOUS
<1> USE DEF Contents
<1>1. CASE UNCHANGED vars
  BY <1>1 DEF vars, threadMap, keyState, rwlock, Doing, Kept, Chains, Holders
<1>2. ASSUME NEW t \in Threads, NEW c \in AtomicTracker!Calls, Call(t, c)
      PROVE  Contents'
  <2>1. /\ pc[t] = "idle" /\ call' = [call EXCEPT ![t] = c]
        /\ pc' = [pc EXCEPT ![t] = IF c.fn \in ItemCalls THEN "flag" ELSE "lock"]
        /\ UNCHANGED <<states, todo, ret, threadSpecificKey, hashtable>>
    BY <1>2 DEF Call, At, threadMap, keyState
  <2>2. Doing'
    BY <2>1, CallFacts DEF Doing, ItemPlaces, IInv, Types
  <2>3. Kept'
    BY <2>1, KeptSame DEF IInv
  <2>4. Holders'
    BY <1>2 DEF Call, Holders, rwlock, threadMap, keyState
  <2> QED BY <2>1, <2>2, <2>3, <2>4, ChainsSame
<1>3. ASSUME NEW t \in Threads, Return(t) PROVE Contents'
  <2>1. /\ pc[t] = "return" /\ call' = [call EXCEPT ![t] = AtomicTracker!NoCall]
        /\ pc' = [pc EXCEPT ![t] = "idle"] /\ DOMAIN ret' = Threads
        /\ UNCHANGED <<states, todo, threadSpecificKey, hashtable>>
    BY <1>3 DEF Return, At, Returning, Doing, threadMap, keyState
  <2>2. Doing'
    BY <2>1 DEF Doing, ItemPlaces, IInv, Types
  <2>3. Kept'
    BY <2>1, KeptSame DEF IInv
  <2>4. Holders'
    BY <1>3 DEF Return, Holders, rwlock, threadMap, keyState
  <2> QED BY <2>1, <2>2, <2>3, <2>4, ChainsSame
<1> QED BY <1>1, <1>2, <1>3, ProcessContents, ThreadContents, HoldersStep DEF Next

LEMMA ContentsInvariance == Spec => []Contents
<1>1. Init => Contents
  BY ContentsInit
<1>2. IInv /\ Contents /\ [Next]_vars => Contents'
  BY ContentsStep
<1> QED BY <1>1, <1>2, TrackerInvariance, PTL DEF Spec

\* Locks, table and chains stay in their ranges, in client and server.
THEOREM TrackerTyped == Spec => []TypeOK
<1>1. IInv /\ Contents => TypeOK
  <2> SUFFICES ASSUME IInv, Contents PROVE TypeOK
    OBVIOUS
  <2>1. todo \in [Threads -> SUBSET DOMAIN states]
    BY DEF Contents, Kept
  <2>2. \A c \in DOMAIN states : /\ states[c].display \in Displays
                                 /\ states[c].marks \subseteq AtomicTracker!Marks
    <3>1. \A c \in DOMAIN states : states[c] \in States
      BY DEF Contents, Kept
    <3> QED BY <3>1 DEF States
  <2>3. DOMAIN states \subseteq Contexts
    BY DEF Contents, Kept
  <2>4. /\ threadSpecificKey \in Keys \cup {NoKey}
        /\ \A t \in Threads, k \in Keys : hashtable[t][k] \in Seq(Values)
    BY DEF Contents, Chains
  <2>5. threadStateMapInitiated \in BOOLEAN
    BY DEF Contents, Holders
  <2> QED BY <2>1, <2>2, <2>3, <2>4, <2>5 DEF TypeOK, Contents, Holders
<1> QED BY <1>1, TrackerInvariance, ContentsInvariance, PTL
=============================================================================
