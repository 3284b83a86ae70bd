----------------------- MODULE StateTrackerRefinement -----------------------
(***************************************************************************)
(* The proof that the client's state tracker implements AtomicStates, for  *)
(* any number of threads, contexts and displays and whatever fails, as     *)
(* long as no chain of items reaches the length at which uthash turns it   *)
(* round.  Bounded says that chains, and the puts under way, are counted.  *)
(***************************************************************************)
EXTENDS StateTrackerProofs

Cells == Threads \X Keys \X (1..MaxPuts)
Held    == {s \in Cells : s[3] \in DOMAIN hashtable[s[1]][s[2]]}
Pending == {t \in Threads : call[t].fn = "putItem" /\ pc[t] # "return"}

LEMMA PutsAre == Puts = Cardinality(Held) + Cardinality(Pending)
BY DEF Puts, Held, Pending, Cells

LEMMA CellsFinite == IsFiniteSet(Cells)
<1> DEFINE pairs == (Threads \X Keys) \X (1..MaxPuts)
           f == [s \in Cells |-> <<<<s[1], s[2]>>, s[3]>>]
<1>1. IsFiniteSet(Keys)
  <2>1. Cardinality(Threads) \in Int
    BY StateTrackerAssumption, FS_CardinalityType
  <2> QED BY <2>1, FS_Interval DEF Keys
<1>2. IsFiniteSet(1..MaxPuts)
  BY StateTrackerAssumption, FS_Interval
<1>3. IsFiniteSet(Threads \X Keys)
  BY <1>1, StateTrackerAssumption, FS_Product
<1>4. IsFiniteSet(pairs)
  BY <1>2, <1>3, FS_Product
<1>5. f \in Injection(Cells, pairs)
  <2>1. f \in [Cells -> pairs]
    BY DEF Cells
  <2>2. \A a, b \in Cells : f[a] = f[b] => a = b
    BY DEF Cells
  <2> QED BY <2>1, <2>2 DEF Injection, IsInjective
<1> HIDE DEF f, pairs
<1> QED BY <1>4, <1>5, FS_Injection

LEMMA PutsFinite ==
  /\ IsFiniteSet(Held) /\ IsFiniteSet(Pending)
  /\ Cardinality(Held) \in Nat /\ Cardinality(Pending) \in Nat
<1>1. Held \in SUBSET Cells /\ Pending \in SUBSET Threads
  BY DEF Held, Pending
<1>2. IsFiniteSet(Held) /\ IsFiniteSet(Pending)
  BY <1>1, CellsFinite, StateTrackerAssumption, FS_Subset
<1> QED BY <1>2, FS_CardinalityType

\* Puts counts every item and every put under way, so it is MaxPuts at most.
Bounded ==
    /\ Puts <= MaxPuts
    /\ \A t \in Threads, k \in Keys : Len(hashtable[t][k]) <= MaxPuts

\* An invariant about cardinalities survives a step that adds to neither set.
LEMMA FewerPuts ==
  ASSUME Bounded, UNCHANGED hashtable, Pending' \subseteq Pending
  PROVE  Bounded'
<1>1. Held' = Held
  BY DEF Held
<1>2. Cardinality(Pending') <= Cardinality(Pending) /\ Cardinality(Pending') \in Nat
  <2>1. Pending' \in SUBSET Pending
    OBVIOUS
  <2> QED BY <2>1, PutsFinite, FS_Subset, FS_CardinalityType
<1>3. Puts' = Cardinality(Held') + Cardinality(Pending')
  BY DEF Puts, Held, Pending, Cells
<1>4. Puts' <= Puts /\ Puts \in Nat /\ Puts' \in Nat
  BY <1>1, <1>2, <1>3, PutsAre, PutsFinite
<1> QED BY <1>4, StateTrackerAssumption DEF Bounded

\* There is room in its chain for what a thread is putting.
LEMMA RoomToPut ==
  ASSUME Chains, Bounded, NEW t \in Pending, NEW k \in Keys
  PROVE  Len(hashtable[t][k]) \in Nat /\ Len(hashtable[t][k]) + 1 <= MaxPuts
<1> DEFINE n == Len(hashtable[t][k])
           mine == {s \in Cells : s[1] = t /\ s[2] = k /\ s[3] \in 1..n}
<1>1. t \in Threads /\ hashtable[t][k] \in Seq(Values)
  BY DEF Pending, Chains
<1>2. n \in Nat /\ n <= MaxPuts /\ DOMAIN hashtable[t][k] = 1..n
  BY <1>1 DEF Bounded
<1>3. mine \in SUBSET Held
  BY <1>2 DEF Held
<1>4. Cardinality(mine) = n
  <2> DEFINE f == [i \in 1..n |-> <<t, k, i>>]
  <2>1. \A i \in 1..n : <<t, k, i>> \in mine
    BY <1>1, <1>2, StateTrackerAssumption DEF Cells
  <2>2. \A s \in mine : s[3] \in 1..n /\ s = <<t, k, s[3]>>
    BY DEF Cells
  <2>3. f \in Bijection(1..n, mine)
    <3>1. f \in [1..n -> mine]
      BY <2>1
    <3>2. \A i, j \in 1..n : f[i] = f[j] => i = j
      OBVIOUS
    <3>3. \A s \in mine : \E i \in 1..n : f[i] = s
      BY <2>2
    <3> HIDE DEF f, mine, n
    <3> QED BY <3>1, <3>2, <3>3 DEF Bijection, Injection, IsInjective, Surjection
  <2>4. ExistsBijection(1..n, mine)
    BY <2>3 DEF ExistsBijection
  <2> HIDE DEF f, mine, n
  <2> QED BY <1>2, <2>4, FS_CountingElements
<1>5. Cardinality(Pending) # 0
  BY PutsFinite, FS_EmptySet
<1>6. n <= Cardinality(Held)
  BY <1>3, <1>4, PutsFinite, FS_Subset
<1> HIDE DEF n
<1>7. n + 1 <= MaxPuts
  BY <1>2, <1>5, <1>6, PutsAre, PutsFinite, StateTrackerAssumption DEF Bounded
<1> QED BY <1>2, <1>7 DEF n

LEMMA PutBounded ==
  ASSUME IInv, Contents, Bounded, NEW t \in Threads, PutItem(t)
  PROVE  Bounded'
<1> DEFINE k == threadSpecificKey
           n == Len(hashtable[t][k])
           longer == Added(hashtable[t][k], call[t].value)
<1>1. /\ pc[t] = "item" /\ call[t].fn = "putItem" /\ call' = call
      /\ pc' = [pc EXCEPT ![t] = "return"]
      /\ \/ hashtable' = hashtable
         \/ hashtable' = [hashtable EXCEPT ![t][k] = longer]
  BY DEF PutItem, At
<1>2. t \in Pending /\ Pending' = Pending \ {t}
  BY <1>1 DEF Pending, IInv, Types
<1>3. CASE hashtable' = hashtable
  BY <1>2, <1>3, FewerPuts
<1>4. CASE hashtable' = [hashtable EXCEPT ![t][k] = longer]
  <2>1. k \in Keys
    BY <1>1 DEF IInv, OneKey, Contents, Chains
  <2>2. n \in Nat /\ n + 1 <= MaxPuts
    BY <1>2, <2>1, RoomToPut DEF Contents
  <2>3. longer \in Seq(Values) /\ Len(longer) = n + 1
    <3>1. hashtable[t][k] \in Seq(Values)
      BY <2>1 DEF Contents, Chains
    <3>2. call[t].value \in Values
      BY <1>1, CallFacts DEF Contents, Doing
    <3> QED BY <3>1, <3>2, ChainFacts
  <2>4. /\ hashtable \in [Threads -> [Keys -> Seq(Values)]]
        /\ hashtable'[t][k] = longer
        /\ \A u \in Threads, j \in Keys : u # t \/ j # k => hashtable'[u][j] = hashtable[u][j]
    <3>1. hashtable \in [Threads -> [Keys -> Seq(Values)]]
      BY DEF Contents, Chains
    <3> HIDE DEF k, longer
    <3> QED BY <1>4, <2>1, <3>1
  <2>5. Held' \subseteq Held \cup {<<t, k, n + 1>>}
    <3> SUFFICES ASSUME NEW s \in Held' PROVE s \in Held \/ s = <<t, k, n + 1>>
      OBVIOUS
    <3>1. /\ s[1] \in Threads /\ s[2] \in Keys /\ s[3] \in 1..MaxPuts /\ s \in Cells
          /\ s = <<s[1], s[2], s[3]>> /\ s[3] \in DOMAIN hashtable'[s[1]][s[2]]
      BY DEF Held, Cells
    <3>2. CASE s[1] = t /\ s[2] = k
      <4>1. s[3] \in 1..(n + 1)
        BY <2>3, <2>4, <3>1, <3>2
      <4>2. DOMAIN hashtable[t][k] = 1..n
        BY <2>1, <2>4
      <4>3. CASE s[3] = n + 1
        BY <3>1, <3>2, <4>3
      <4>4. CASE s[3] \in 1..n
        BY <3>1, <3>2, <4>2, <4>4 DEF Held
      <4> HIDE DEF n
      <4>5. s[3] = n + 1 \/ s[3] \in 1..n
        BY <2>2, <4>1
      <4> QED BY <4>3, <4>4, <4>5
    <3>3. CASE ~(s[1] = t /\ s[2] = k)
      BY <2>4, <3>1, <3>3 DEF Held
    <3> QED BY <3>2, <3>3
  <2>6. Cardinality(Held') <= Cardinality(Held) + 1 /\ Cardinality(Held') \in Nat
    <3> DEFINE more == Held \cup {<<t, k, n + 1>>}
    <3>1. IsFiniteSet(more) /\ Cardinality(more) <= Cardinality(Held) + 1
      <4> DEFINE x == <<t, k, n + 1>>
      <4> HIDE DEF x
      <4>1. /\ IsFiniteSet(Held \cup {x})
            /\ Cardinality(Held \cup {x})
                 = IF x \in Held THEN Cardinality(Held) ELSE Cardinality(Held) + 1
        BY PutsFinite, FS_AddElement
      <4> QED BY <4>1, PutsFinite DEF x
    <3>2. Held' \in SUBSET more
      BY <2>5
    <3> HIDE DEF more
    <3> QED BY <3>1, <3>2, PutsFinite, FS_Subset, FS_CardinalityType
  <2>7. Cardinality(Pending') = Cardinality(Pending) - 1
    BY <1>2, PutsFinite, FS_RemoveElement
  <2>8. Puts' = Cardinality(Held') + Cardinality(Pending')
    BY DEF Puts, Held, Pending, Cells
  <2>9. Puts' <= Puts /\ Puts \in Nat /\ Puts' \in Int
    BY <2>6, <2>7, <2>8, PutsAre, PutsFinite
  <2>10. \A u \in Threads, j \in Keys : Len(hashtable'[u][j]) <= MaxPuts
    <3> SUFFICES ASSUME NEW u \in Threads, NEW j \in Keys
                 PROVE  Len(hashtable'[u][j]) <= MaxPuts
      OBVIOUS
    <3>1. CASE u = t /\ j = k
      BY <2>2, <2>3, <2>4, <3>1
    <3>2. CASE ~(u = t /\ j = k)
      BY <2>4, <3>2 DEF Bounded
    <3> QED BY <3>1, <3>2
  <2> QED BY <2>9, <2>10, StateTrackerAssumption DEF Bounded
<1> QED BY <1>1, <1>3, <1>4

LEMMA BoundedStep == IInv /\ Contents /\ Bounded /\ [Next]_vars => Bounded'
<1> SUFFICES ASSUME IInv, Contents, Bounded, [Next]_vars PROVE Bounded'
  OBVIOUS
<1>1. CASE UNCHANGED vars
  <2>1. UNCHANGED <<hashtable, pc, call>>
    BY <1>1 DEF vars, threadMap
  <2> QED BY <2>1, FewerPuts DEF Pending
<1>2. ASSUME NEW t \in Threads, NEW c \in AtomicTracker!Calls, Call(t, c) PROVE Bounded'
  <2>1. /\ pc[t] = "idle" /\ call[t] = AtomicTracker!NoCall /\ hashtable' = hashtable
        /\ call' = [call EXCEPT ![t] = c]
        /\ \E p \in {"flag", "lock"} : pc' = [pc EXCEPT ![t] = p]
        /\ c.fn = "putItem" => Puts < MaxPuts
    BY <1>2 DEF Call, At, threadMap, Contents, Doing
  <2>2. t \notin Pending
    BY <2>1 DEF Pending, AtomicTracker!NoCall
  <2>3. CASE c.fn # "putItem"
    <3>1. Pending' \subseteq Pending
      BY <2>1, <2>3 DEF Pending, IInv, Types
    <3> QED BY <2>1, <3>1, FewerPuts
  <2>4. CASE c.fn = "putItem"
    <3>1. Pending' = Pending \cup {t} /\ Held' = Held
      BY <2>1, <2>4 DEF Pending, Held, IInv, Types
    <3>2. Cardinality(Pending') = Cardinality(Pending) + 1
      BY <2>2, <3>1, PutsFinite, FS_AddElement
    <3>3. Puts' = Cardinality(Held') + Cardinality(Pending')
      BY DEF Puts, Held, Pending, Cells
    <3>4. Puts' = Puts + 1 /\ Puts \in Nat
      BY <3>1, <3>2, <3>3, PutsAre, PutsFinite
    <3> QED BY <2>1, <2>4, <3>4, StateTrackerAssumption DEF Bounded
  <2> QED BY <2>3, <2>4
<1>3. ASSUME NEW t \in Threads, ProcessStep(t) \/ ThreadStep(t), ~PutItem(t) PROVE Bounded'
  <2>1. /\ call' = call /\ hashtable' = hashtable /\ pc[t] # "return"
        /\ \E p : pc' = [pc EXCEPT ![t] = p]
    BY <1>3 DEF ProcessStep, Lock, Find, ActRead, ActWrite, PutFails, Iterate, IterateEnds, Unlock,
       ThreadStep, TestFlag, InitLock, InitTest, InitCreate, CreateFails, InitUnlock,
       InitItemsFail, InitReturns, SetFlag, GetItem, At, threadMap, keyState, IInv, Types
  <2>2. Pending' \subseteq Pending
    BY <2>1 DEF Pending, IInv, Types
  <2> QED BY <2>1, <2>2, FewerPuts
<1>4. ASSUME NEW t \in Threads, Return(t) PROVE Bounded'
  <2>1. /\ pc[t] = "return" /\ hashtable' = hashtable /\ pc' = [pc EXCEPT ![t] = "idle"]
        /\ call' = [call EXCEPT ![t] = AtomicTracker!NoCall]
    BY <1>4 DEF Return, At, threadMap
  <2>2. Pending' \subseteq Pending
    BY <2>1 DEF Pending, AtomicTracker!NoCall, IInv, Types
  <2> QED BY <2>1, <2>2, FewerPuts
<1> QED BY <1>1, <1>2, <1>3, <1>4, PutBounded DEF Next, ThreadStep

LEMMA BoundedInit == Init => Bounded
<1> SUFFICES ASSUME Init PROVE Bounded
  OBVIOUS
<1>1. Held = {} /\ Pending = {}
  BY DEF Init, Held, Pending, Cells, AtomicTracker!NoCall
<1> QED BY <1>1, PutsAre, FS_EmptySet, StateTrackerAssumption DEF Init, Bounded

-----------------------------------------------------------------------------
(* The steps of the tracker, as the abstract specification sees them.      *)

PhaseAt(p) ==
    CASE p = "idle" -> "idle"
      [] p \in {"iterate", "unlock", "return"} -> "done"
      [] OTHER -> "called"

AnswerOf(r) == IF r = "minusOne" THEN "fail" ELSE r

LEMMA PhaseMoves ==
  ASSUME Types, NEW t \in Threads, NEW p, pc' = [pc EXCEPT ![t] = p]
  PROVE  Phases' = [Phases EXCEPT ![t] = PhaseAt(p)] /\ Phases[t] = PhaseAt(pc[t])
BY DEF Phases, Phase, PhaseAt, Types

LEMMA AnswerMoves ==
  ASSUME Doing, NEW t \in Threads, NEW r, ret' = [ret EXCEPT ![t] = r]
  PROVE  Answers' = [Answers EXCEPT ![t] = AnswerOf(r)]
BY DEF Answers, AnswerOf, Doing

LEMMA ItemsKept ==
  ASSUME UNCHANGED <<threadSpecificKey, hashtable>>
  PROVE  Items' = Items
BY DEF Items, Item

\* Only the thread that holds the lock for writing can be at an iteration,
LEMMA Quiet ==
  ASSUME IInv, Contents,
         writer = Nobody \/ \E t \in Threads : pc[t] \in Table /\ todo[t] = {}
  PROVE  \A u \in Threads : todo[u] = {}
<1> SUFFICES ASSUME NEW u \in Threads, todo[u] # {} PROVE FALSE
  OBVIOUS
<1>1. pc[u] = "iterate" /\ call[u].fn = "setAll"
  BY DEF Contents, Kept, Doing
<1>2. writer = u /\ \A v \in Threads \ {u} : pc[v] \notin Table
  BY <1>1, AloneInTable DEF Table, WriterCalls
<1> QED BY <1>2, StateTrackerAssumption DEF Nobody

\* and with none under way the table is as it will be.
LEMMA NothingToDo ==
  ASSUME Kept, \A t \in Threads : todo[t] = {}, Holders
  PROVE  Settled = states
BY DEF Kept, Settled, Holders

LEMMA NothingToDoNext ==
  ASSUME Kept', \A t \in Threads : todo'[t] = {}, Holders'
  PROVE  Settled' = states'
BY DEF Kept, Settled, Holders

\* A step that gives an answer,
LEMMA Answering ==
  ASSUME Types, Doing, NEW t \in Threads, NEW p \in {"iterate", "unlock", "return"}, NEW r,
         PhaseAt(pc[t]) = "called", pc' = [pc EXCEPT ![t] = p], ret' = [ret EXCEPT ![t] = r],
         call' = call
  PROVE  AtomicTracker!Answer(t, call[t].fn, AnswerOf(r))
BY PhaseMoves, AnswerMoves DEF AtomicTracker!Answer, PhaseAt

\* and one that the abstract specification does not see.
LEMMA Unseen ==
  ASSUME Types, NEW t \in Threads, NEW p, pc' = [pc EXCEPT ![t] = p],
         PhaseAt(p) = PhaseAt(pc[t]), UNCHANGED <<ret, call>>,
         Items' = Items, Settled' = Settled
  PROVE  UNCHANGED AtomicTracker!vars
<1>1. Phases' = Phases
  BY PhaseMoves DEF Phases
<1>2. Answers' = Answers
  BY DEF Answers
<1> QED BY <1>1, <1>2 DEF AtomicTracker!vars

RInv == IInv /\ GivenBack /\ Contents /\ Bounded

LEMMA LockRefines ==
  ASSUME RInv, RInv', NEW t \in Threads, Lock(t)
  PROVE  [AtomicTracker!Next]_AtomicTracker!vars
<1> USE DEF RInv, IInv, Contents
<1>1. pc[t] = "lock" /\ writer # t /\ writer = Nobody
  BY DEF Lock, GivenBack, Table
<1>2. \A u \in Threads : todo[u] = {}
  BY <1>1, Quiet
<1>3. /\ pc' = [pc EXCEPT ![t] = Begin(t)] /\ UNCHANGED <<states, call>> /\ Items' = Items
      /\ PhaseAt(pc[t]) = "called" /\ Settled = states
  BY <1>1, <1>2, NothingToDo, ItemsKept DEF Lock, At, PhaseAt, threadMap, keyState
<1>4. CASE call[t].fn = "setAll"
  <2>1. /\ Begin(t) = "iterate" /\ writer' = t /\ ret' = [ret EXCEPT ![t] = "ok"]
        /\ todo' = [todo EXCEPT ![t] = DOMAIN states]
    BY <1>1, <1>4 DEF Lock, Begin, WriterCalls, Returning
  <2>2. AtomicTracker!Answer(t, "setAll", "ok")
    BY <1>3, <1>4, <2>1, Answering DEF AnswerOf
  <2>3. todo'[t] = DOMAIN states
    BY <2>1 DEF Kept
  <2>4. Settled' = [c \in DOMAIN states |-> MarkedDestroyed(states[c], call[t])]
    BY <1>3, <2>1, <2>3, StateTrackerAssumption DEF Settled, Nobody
  <2>5. AtomicTracker!SetAll(t)
    BY <1>3, <2>2, <2>4
       DEF AtomicTracker!SetAll, MarkedDestroyed, Marked, AtomicTracker!Marked
  <2> QED BY <2>5 DEF AtomicTracker!Next
<1>5. CASE call[t].fn # "setAll"
  <2>1. UNCHANGED <<todo, ret>>
    BY <1>1, <1>5 DEF Lock
  <2>2. Begin(t) \in {"act", "find"}
    BY <1>1, <1>5 DEF Begin
  <2>3. Settled' = Settled
    BY <1>2, <1>3, <2>1, NothingToDoNext
  <2> QED BY <1>3, <2>1, <2>2, <2>3, Unseen DEF PhaseAt
<1> QED BY <1>4, <1>5

LEMMA FindRefines ==
  ASSUME RInv, RInv', NEW t \in Threads, Find(t)
  PROVE  [AtomicTracker!Next]_AtomicTracker!vars
<1> USE DEF RInv, IInv, Contents
<1>1. /\ pc[t] = "find" /\ UNCHANGED <<states, todo, call>> /\ call[t].fn \in Finders
      /\ PhaseAt(pc[t]) = "called" /\ Items' = Items
  BY ItemsKept DEF Find, PhaseAt, threadMap, keyState, Doing
<1>2. \A u \in Threads : todo[u] = {}
  BY <1>1, Quiet DEF Table, Kept
<1>3. Settled = states /\ Settled' = states
  BY <1>1, <1>2, NothingToDo, NothingToDoNext
<1>4. CASE call[t].context \notin DOMAIN states
  <2>1. pc' = [pc EXCEPT ![t] = "unlock"] /\ ret' = [ret EXCEPT ![t] = "fail"]
    BY <1>4 DEF Find, At, Returning
  <2>2. AtomicTracker!Answer(t, call[t].fn, "fail")
    BY <1>1, <2>1, Answering DEF AnswerOf
  <2>3. AtomicTracker!Missing(t)
    BY <1>1, <1>3, <1>4, <2>2 DEF AtomicTracker!Missing, Finders
  <2> QED BY <2>3 DEF AtomicTracker!Next
<1>5. CASE call[t].context \in DOMAIN states /\ call[t].fn = "get"
  <2>1. pc' = [pc EXCEPT ![t] = "unlock"] /\ ret' = [ret EXCEPT ![t] = "ok"]
    BY <1>5 DEF Find, At, Returning
  <2>2. AtomicTracker!Answer(t, "get", "ok")
    BY <1>1, <1>5, <2>1, Answering DEF AnswerOf
  <2>3. AtomicTracker!Get(t)
    BY <1>1, <1>3, <1>5, <2>2 DEF AtomicTracker!Get
  <2> QED BY <2>3 DEF AtomicTracker!Next
<1>6. CASE call[t].context \in DOMAIN states /\ call[t].fn # "get"
  <2>1. pc' = [pc EXCEPT ![t] = "act"] /\ ret' = ret
    BY <1>6 DEF Find, At
  <2> QED BY <1>1, <1>3, <2>1, Unseen DEF PhaseAt
<1> QED BY <1>4, <1>5, <1>6

LEMMA ActRefines ==
  ASSUME RInv, RInv', NEW t \in Threads, ActRead(t) \/ ActWrite(t) \/ PutFails(t),
         Tracker = "client"
  PROVE  [AtomicTracker!Next]_AtomicTracker!vars
<1> USE DEF RInv, IInv, Contents
<1>1. /\ pc[t] = "act" /\ pc' = [pc EXCEPT ![t] = "unlock"] /\ UNCHANGED <<todo, call>>
      /\ PhaseAt(pc[t]) = "called" /\ Items' = Items
      /\ call[t].fn # "put" => call[t].context \in DOMAIN states
  BY ItemsKept DEF ActRead, ActWrite, PutFails, At, PhaseAt, threadMap, keyState, Doing
<1>2. \A u \in Threads : todo[u] = {}
  BY <1>1, Quiet DEF Table, Kept
<1>3. Settled = states /\ Settled' = states'
  BY <1>1, <1>2, NothingToDo, NothingToDoNext
<1>4. CASE ActRead(t)
  <2> DEFINE r == IF call[t].mark \in states[call[t].context].marks THEN "yes" ELSE "no"
  <2>1. call[t].fn = "isMarked" /\ ret' = [ret EXCEPT ![t] = r] /\ states' = states
    BY <1>4 DEF ActRead, Returning
  <2>2. AtomicTracker!Answer(t, "isMarked", r)
    BY <1>1, <2>1, Answering DEF AnswerOf
  <2>3. AtomicTracker!IsMarked(t)
    BY <1>1, <1>3, <2>1, <2>2 DEF AtomicTracker!IsMarked
  <2> QED BY <2>3 DEF AtomicTracker!Next
<1>5. CASE ActWrite(t)
  <2>1. ret' = [ret EXCEPT ![t] = "ok"]
    BY <1>5 DEF ActWrite, Returning
  <2>2. AtomicTracker!Answer(t, call[t].fn, "ok")
    BY <1>1, <2>1, Answering DEF AnswerOf
  <2>3. CASE call[t].fn = "put" /\ states' = AtomicTracker!Entered(states, call[t])
    BY <1>1, <1>3, <2>2, <2>3 DEF AtomicTracker!Put, AtomicTracker!Next
  <2>4. CASE call[t].fn = "del" /\ states' = [d \in DOMAIN states \ {call[t].context} |-> states[d]]
    BY <1>1, <1>3, <2>2, <2>4 DEF AtomicTracker!Del, AtomicTracker!Next
  <2>5. CASE /\ call[t].fn = "setMarked"
             /\ states' = [states EXCEPT ![call[t].context] = Marked(@, call[t].mark, call[t].to)]
    BY <1>1, <1>3, <2>2, <2>5
       DEF AtomicTracker!SetMarked, Marked, AtomicTracker!Marked, AtomicTracker!Next
  <2> QED BY <1>5, <2>3, <2>4, <2>5 DEF ActWrite
<1>6. CASE PutFails(t)
  <2>1. /\ call[t].fn = "put" /\ ret' = [ret EXCEPT ![t] = "fail"] /\ states' = states
        /\ Faults # {}
    BY <1>6 DEF PutFails, Returning
  <2>2. AtomicTracker!Answer(t, "put", "fail")
    BY <1>1, <2>1, Answering DEF AnswerOf
  <2>3. AtomicTracker!NoMemory(t)
    BY <1>1, <1>3, <2>1, <2>2 DEF AtomicTracker!NoMemory
  <2> QED BY <2>3 DEF AtomicTracker!Next
<1> QED BY <1>4, <1>5, <1>6

LEMMA IterationUnseen ==
  ASSUME RInv, RInv', NEW t \in Threads, Iterate(t) \/ IterateEnds(t) \/ Unlock(t)
  PROVE  UNCHANGED AtomicTracker!vars
<1> USE DEF RInv, IInv, Contents
<1>1. CASE Iterate(t)
  <2>1. /\ pc[t] = "iterate" /\ UNCHANGED <<writer, pc, call, ret>> /\ Items' = Items
        /\ call[t].fn = "setAll"
    BY <1>1, ItemsKept DEF Iterate, rwlock, threadMap, keyState, Doing
  <2>2. PICK c \in todo[t] : /\ states' = [states EXCEPT ![c] = MarkedDestroyed(@, call[t])]
                             /\ todo' = [todo EXCEPT ![t] = @ \ {c}]
    BY <1>1 DEF Iterate
  <2>3. writer = t /\ t # Nobody
    BY <2>1, AloneInTable, StateTrackerAssumption DEF Table, WriterCalls, Nobody
  <2>4. todo'[t] = todo[t] \ {c} /\ c \in DOMAIN states /\ DOMAIN states' = DOMAIN states
    BY <2>2 DEF Kept
  <2>5. Settled = [d \in DOMAIN states |-> IF d \in todo[t] THEN MarkedDestroyed(states[d], call[t])
                                           ELSE states[d]]
    BY <2>3 DEF Settled
  <2>6. Settled' = [d \in DOMAIN states |->
                      IF d \in todo[t] \ {c} THEN MarkedDestroyed(states'[d], call[t])
                      ELSE states'[d]]
    BY <2>1, <2>3, <2>4 DEF Settled
  <2>7. \A d \in DOMAIN states :
          states'[d] = IF d = c THEN MarkedDestroyed(states[d], call[t]) ELSE states[d]
    BY <2>2, <2>4
  <2>8. Settled' = Settled
    BY <2>2, <2>5, <2>6, <2>7
  <2>9. Phases' = Phases /\ Answers' = Answers
    BY <2>1 DEF Phases, Phase, Answers
  <2> QED BY <2>1, <2>8, <2>9 DEF AtomicTracker!vars
<1>2. CASE IterateEnds(t) \/ Unlock(t)
  <2>1. /\ pc[t] \in {"iterate", "unlock"} /\ UNCHANGED <<states, todo, call, ret>>
        /\ \E p \in {"unlock", "return"} : pc' = [pc EXCEPT ![t] = p]
        /\ todo[t] = {} /\ Items' = Items
    BY <1>2, ItemsKept DEF IterateEnds, Unlock, At, threadMap, keyState, Kept
  <2>2. \A u \in Threads : todo[u] = {}
    BY <2>1, Quiet DEF Table
  <2>3. Settled' = Settled
    BY <2>1, <2>2, NothingToDo, NothingToDoNext
  <2> QED BY <2>1, <2>3, Unseen DEF PhaseAt
<1> QED BY <1>1, <1>2

LEMMA ThreadRefines ==
  ASSUME RInv, RInv', NEW t \in Threads, ThreadStep(t), Tracker = "client", MaxPuts < GrowthAt
  PROVE  [AtomicTracker!Next]_AtomicTracker!vars
<1> USE DEF RInv, IInv, Contents
<1>1. UNCHANGED <<writer, states, todo, call>>
  BY DEF ThreadStep, TestFlag, InitLock, InitTest, InitCreate, CreateFails, InitUnlock,
         InitItemsFail, InitReturns, SetFlag, PutItem, GetItem, rwlock, threadMap, keyState
<1>2. Settled' = Settled
  BY <1>1 DEF Settled
<1>3. CASE TestFlag(t) \/ InitLock(t) \/ InitTest(t) \/ InitUnlock(t) \/ SetFlag(t)
  <2>1. /\ UNCHANGED <<ret, call>> /\ Items' = Items /\ PhaseAt(pc[t]) = "called"
        /\ \E p \in Creator \cup {"item", "initLock", "setFlag"} : pc' = [pc EXCEPT ![t] = p]
    BY <1>3, ItemsKept
       DEF TestFlag, InitLock, InitTest, InitUnlock, SetFlag, At, threadMap, keyState,
           Creator, PhaseAt
  <2> QED BY <1>2, <2>1, Unseen DEF PhaseAt, Creator
<1>4. CASE InitCreate(t)
  <2>1. /\ UNCHANGED <<ret, call, hashtable>> /\ pc[t] = "initCreate"
        /\ pc' = [pc EXCEPT ![t] = "initUnlock"] /\ threadSpecificKey' = threadSpecificKey + 1
    BY <1>4 DEF InitCreate, At
  <2>2. threadSpecificKey = NoKey /\ threadSpecificKey' = 1 /\ 1 \in Keys
    BY <2>1, KeysFacts DEF OneKey, NoKey
  <2>3. Items' = Items
    BY <2>1, <2>2 DEF Items, Item, Chains, NoKey
  <2> QED BY <1>2, <2>1, <2>3, Unseen DEF PhaseAt
<1>5. CASE CreateFails(t) \/ InitItemsFail(t)
  <2>1. /\ pc[t] \in {"initCreate", "setFlag"} /\ pc' = [pc EXCEPT ![t] = "return"]
        /\ \E r \in {"minusOne", "fail"} : ret' = [ret EXCEPT ![t] = r]
        /\ Items' = Items /\ Faults # {}
    BY <1>5, ItemsKept DEF CreateFails, InitItemsFail, InitReturns, At, Returning
  <2>2. AtomicTracker!Answer(t, call[t].fn, "fail")
    BY <1>1, <2>1, Answering DEF AnswerOf, PhaseAt
  <2>3. call[t].fn \in {"putItem", "getItem"}
    BY <2>1 DEF Doing, ItemPlaces, ItemCalls
  <2>4. AtomicTracker!NoMemory(t)
    BY <1>2, <2>1, <2>2, <2>3 DEF AtomicTracker!NoMemory
  <2> QED BY <2>4 DEF AtomicTracker!Next
<1>6. CASE PutItem(t)
  <2> DEFINE k == threadSpecificKey
             longer == Added(hashtable[t][k], call[t].value)
  <2>1. /\ pc[t] = "item" /\ call[t].fn = "putItem" /\ pc' = [pc EXCEPT ![t] = "return"]
        /\ PhaseAt(pc[t]) = "called" /\ threadSpecificKey' = threadSpecificKey
    BY <1>6 DEF PutItem, At, PhaseAt, keyState
  <2>2. CASE /\ hashtable' = [hashtable EXCEPT ![t][k] = longer]
             /\ ret' = [ret EXCEPT ![t] = "ok"]
    <3>1. k # NoKey /\ k \in Keys
      BY <2>1 DEF OneKey, Chains
    <3>2. Len(hashtable[t][k]) + 1 <= MaxPuts /\ Len(hashtable[t][k]) \in Nat
      BY <2>1, <3>1, RoomToPut DEF Pending
    <3>3. Len(hashtable[t][k]) + 1 # GrowthAt
      BY <3>2, StateTrackerAssumption
    <3>4. hashtable[t][k] \in Seq(Values) /\ call[t].value \in Values
      BY <2>1, <3>1, CallFacts DEF Chains, Doing
    <3>5. longer # <<>> /\ Head(longer) = call[t].value
      BY <3>3, <3>4, ChainFacts
    <3>6. /\ hashtable'[t][k] = longer
          /\ \A u \in Threads \ {t} : hashtable'[u][k] = hashtable[u][k]
      <4>1. hashtable \in [Threads -> [Keys -> Seq(Values)]]
        BY DEF Chains
      <4> HIDE DEF k, longer
      <4> QED BY <2>2, <3>1, <4>1
    <3>7. Items' = [Items EXCEPT ![t] = call[t].value]
      <4> HIDE DEF longer
      <4> QED BY <2>1, <3>1, <3>5, <3>6 DEF Items, Item
    <3>8. AtomicTracker!Answer(t, "putItem", "ok")
      BY <1>1, <2>1, <2>2, Answering DEF AnswerOf
    <3>9. AtomicTracker!PutItem(t)
      BY <1>2, <3>7, <3>8 DEF AtomicTracker!PutItem
    <3> QED BY <3>9 DEF AtomicTracker!Next
  <2>3. CASE hashtable' = hashtable /\ ret' = [ret EXCEPT ![t] = "fail"] /\ "malloc" \in Faults
    <3>1. AtomicTracker!Answer(t, "putItem", "fail")
      BY <1>1, <2>1, <2>3, Answering DEF AnswerOf
    <3>2. AtomicTracker!NoMemory(t)
      BY <1>2, <2>1, <2>3, <3>1, ItemsKept DEF AtomicTracker!NoMemory
    <3> QED BY <3>2 DEF AtomicTracker!Next
  <2> QED BY <1>6, <2>2, <2>3 DEF PutItem, Returning
<1>7. CASE GetItem(t)
  <2>1. /\ pc[t] = "item" /\ call[t].fn = "getItem" /\ pc' = [pc EXCEPT ![t] = "return"]
        /\ ret' = [ret EXCEPT ![t] = IF Item(t) = "none" THEN "fail" ELSE Item(t)]
        /\ PhaseAt(pc[t]) = "called" /\ Items' = Items
    BY <1>7, ItemsKept DEF GetItem, At, PhaseAt, Returning, threadMap, keyState
  <2>2. Item(t) # "minusOne"
    <3>1. CASE threadSpecificKey = NoKey \/ hashtable[t][threadSpecificKey] = <<>>
      BY <3>1 DEF Item
    <3>2. CASE ~(threadSpecificKey = NoKey \/ hashtable[t][threadSpecificKey] = <<>>)
      <4>1. hashtable[t][threadSpecificKey] \in Seq(Values)
        BY <3>2 DEF Chains
      <4>2. Item(t) \in Values
        BY <3>2, <4>1 DEF Item
      <4> QED BY <4>2, StateTrackerAssumption
    <3> QED BY <3>1, <3>2
  <2>3. Items[t] = Item(t)
    BY DEF Items
  <2>4. AtomicTracker!Answer(t, "getItem", IF Item(t) = "none" THEN "fail" ELSE Item(t))
    BY <1>1, <2>1, <2>2, Answering DEF AnswerOf
  <2>5. AtomicTracker!GetItem(t)
    BY <1>2, <2>1, <2>3, <2>4 DEF AtomicTracker!GetItem, AtomicTracker!None
  <2> QED BY <2>5 DEF AtomicTracker!Next
<1> QED BY <1>3, <1>4, <1>5, <1>6, <1>7 DEF ThreadStep

LEMMA CallRefines ==
  ASSUME RInv, RInv', NEW t \in Threads, NEW c \in AtomicTracker!Calls, Call(t, c)
  PROVE  AtomicTracker!Next
<1> USE DEF RInv, IInv, Contents
<1>1. /\ pc[t] = "idle" /\ \E p \in {"flag", "lock"} : pc' = [pc EXCEPT ![t] = p]
      /\ call' = [call EXCEPT ![t] = c] /\ UNCHANGED <<writer, states, todo, ret>>
      /\ Items' = Items /\ AtomicTracker!Distinct(c)
  BY ItemsKept DEF Call, At, rwlock, threadMap, keyState
<1>2. writer # t
  BY <1>1 DEF GivenBack, Table
<1>3. Settled' = Settled
  BY <1>1, <1>2 DEF Settled, Holders, MarkedDestroyed, Doing
<1>4. Phases[t] = "idle" /\ Phases' = [Phases EXCEPT ![t] = "called"]
  BY <1>1, PhaseMoves DEF PhaseAt
<1>5. Answers' = Answers
  BY <1>1 DEF Answers
<1>6. AtomicTracker!Call(t, c)
  BY <1>1, <1>3, <1>4, <1>5 DEF AtomicTracker!Call
<1> QED BY <1>4, <1>6 DEF AtomicTracker!Next

LEMMA ReturnRefines ==
  ASSUME RInv, RInv', NEW t \in Threads, Return(t)
  PROVE  AtomicTracker!Next
<1> USE DEF RInv, IInv, Contents
<1>1. /\ pc[t] = "return" /\ pc' = [pc EXCEPT ![t] = "idle"]
      /\ call' = [call EXCEPT ![t] = AtomicTracker!NoCall]
      /\ ret' = [ret EXCEPT ![t] = "none"] /\ UNCHANGED <<writer, states, todo>>
      /\ Items' = Items
  BY ItemsKept DEF Return, At, Returning, rwlock, threadMap, keyState
<1>2. writer # t
  BY <1>1 DEF GivenBack, Table
<1>3. Settled' = Settled
  BY <1>1, <1>2 DEF Settled, Holders, MarkedDestroyed, Doing
<1>4. Phases[t] = "done" /\ Phases' = [Phases EXCEPT ![t] = "idle"]
  BY <1>1, PhaseMoves DEF PhaseAt
<1>5. Answers' = [Answers EXCEPT ![t] = "none"]
  BY <1>1, AnswerMoves DEF AnswerOf
<1>6. AtomicTracker!Return(t)
  BY <1>1, <1>3, <1>4, <1>5 DEF AtomicTracker!Return, AtomicTracker!None
<1> QED BY <1>6 DEF AtomicTracker!Next

LEMMA InitRefines == Init => AtomicTracker!Init
<1> SUFFICES ASSUME Init PROVE AtomicTracker!Init
  OBVIOUS
<1>1. Settled = <<>>
  BY DEF Init, Settled
<1>2. Items = [t \in Threads |-> "none"] /\ Phases = [t \in Threads |-> "idle"]
  BY DEF Init, Items, Item, Phases, Phase
<1>3. Answers = [t \in Threads |-> "none"]
  BY DEF Init, Answers
<1> QED BY <1>1, <1>2, <1>3 DEF Init, AtomicTracker!Init, AtomicTracker!None

\* Every function of the client's tracker takes effect at one moment between
\* its call and its return, whatever else runs and whatever fails, and a
\* thread gets the item it last put, as long as uthash keeps the order in
\* which it finds them: the promise that client_egl_gles.c builds on.
THEOREM ClientIsAtomic ==
  ASSUME Tracker = "client", MaxPuts < GrowthAt
  PROVE  Spec => ImplementsAtomicStates
<1>1. Init => RInv
  BY InitInv, ContentsInit, BoundedInit DEF RInv
<1>2. RInv /\ [Next]_vars => RInv'
  BY StepInv, ContentsStep, BoundedStep DEF RInv
<1>3. RInv /\ RInv' /\ [Next]_vars => [AtomicTracker!Next]_AtomicTracker!vars
  <2> SUFFICES ASSUME RInv, RInv', [Next]_vars
               PROVE  [AtomicTracker!Next]_AtomicTracker!vars
    OBVIOUS
  <2>1. CASE UNCHANGED vars
    <3>1. UNCHANGED <<writer, states, todo, pc, call, ret, threadSpecificKey, hashtable>>
      BY <2>1 DEF vars, rwlock, threadMap, keyState
    <3> QED
      BY <3>1, ItemsKept DEF AtomicTracker!vars, Settled, Phases, Phase, Answers
  <2>2. ASSUME NEW t \in Threads, ProcessStep(t)
        PROVE  [AtomicTracker!Next]_AtomicTracker!vars
    BY <2>2, LockRefines, FindRefines, ActRefines, IterationUnseen DEF ProcessStep
  <2>3. ASSUME NEW t \in Threads, NEW c \in AtomicTracker!Calls, Call(t, c)
        PROVE  AtomicTracker!Next
    BY <2>3, CallRefines
  <2>4. ASSUME NEW t \in Threads, Return(t) PROVE AtomicTracker!Next
    BY <2>4, ReturnRefines
  <2> QED BY <2>1, <2>2, <2>3, <2>4, ThreadRefines DEF Next
<1> QED
  BY <1>1, <1>2, <1>3, InitRefines, PTL DEF Spec, ImplementsAtomicStates, AtomicTracker!Spec
=============================================================================
