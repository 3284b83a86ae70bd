--------------------------- MODULE ContextsProofs ---------------------------
(***************************************************************************)
(* Proofs about Contexts, for any number of threads and contexts: the      *)
(* process is initialised once, a thread's calls take the transport of its *)
(* current context and are made in it, and the marks keep up with it.      *)
(***************************************************************************)
EXTENDS Contexts, FiniteSetTheorems, TLAPS

\* Program counters under initProcessLock, and after the initialisation.
Locked == {"secondCheck", "initEglGlesClient", "setDefault", "unlock"}
After  == {"unlock", "initThread", "makeCurrent", "setCurrent", "mark", "send",
           "sendRest", "receive"}
Places == Locked \cup After \cup {"idle", "initProcess", "lock"}
Items  == [context : Nat, transport : Nat, attribs : BOOLEAN]
Calls  == [fn : Fns \cup {"none"}, context : Nat]

\* Record-valued variables: enough of their types for EXCEPT.
Types ==
    /\ items \in [Threads -> Items]
    /\ call \in [Threads -> Calls]
    /\ pc \in [Threads -> Places]
    /\ processInitiated \in BOOLEAN
    /\ defaults \in Nat

\* The lock excludes; what was created is known to who holds it.
Exclusion ==
    /\ \A t \in Threads : pc[t] \in Locked => initProcessLock = t
    /\ \A t \in Threads : pc[t] = "initEglGlesClient" => ~processInitiated
    /\ \A t \in Threads : pc[t] = "setDefault" => ~processInitiated /\ defaults = 1
    /\ processInitiated => defaults = 1
    /\ ~processInitiated => defaults = 0 \/ \E t \in Threads : pc[t] = "setDefault"

\* A thread has a transport, and is past the initialisation, only when the
\* process is initialised; its transport is its context's but for the moment
\* between SetDefault and InitThread.
Transports ==
    \A t \in Threads :
        /\ pc[t] \in After => processInitiated
        /\ items[t].transport # NoContext => processInitiated
        /\ items[t].context # NoContext =>
             \/ items[t].transport = items[t].context
             \/ /\ items[t].context = DEFAULT_CONTEXT
                /\ items[t].transport = NoContext
                /\ pc[t] \in {"unlock", "initThread"}

IInv == Types /\ Exclusion /\ Transports

LEMMA InitInv == Init => IInv
<1> SUFFICES ASSUME Init PROVE IInv
  OBVIOUS
<1>1. \A t \in Threads : pc[t] = "idle" /\ items[t] = NoItems
  BY DEF Init
<1>2. NoItems \in Items /\ NoCall \in Calls /\ "idle" \in Places
  BY DEF NoItems, NoCall, Items, Calls, Places, NoContext
<1>3. Types
  BY <1>2 DEF Init, Types
<1>4. Exclusion
  BY <1>1 DEF Init, Exclusion, Locked
<1>5. Transports
  BY <1>1 DEF Transports, After, NoItems
<1> QED BY <1>3, <1>4, <1>5 DEF IInv

\* A step that leaves the initialisation and the items alone, and moves one
\* thread to a place outside the lock where it may be.
LEMMA Moves ==
  ASSUME IInv, NEW t \in Threads, NEW p \in Places,
         pc' = [pc EXCEPT ![t] = p], p \notin Locked,
         p \in After => processInitiated,
         pc[t] \notin Locked,
         pc[t] = "initThread" /\ items[t].context # NoContext
            => items[t].transport = items[t].context,
         UNCHANGED <<processInitiated, initProcessLock, defaults, items>>,
         call' \in [Threads -> Calls]
  PROVE  IInv'
  BY Zenon DEF IInv, Types, Exclusion, Transports, Places, Locked, After

LEMMA StepInv == IInv /\ [Next]_vars => IInv'
<1> SUFFICES ASSUME IInv, [Next]_vars PROVE IInv'
  OBVIOUS
<1> USE ContextsAssumption
<1>1. CASE UNCHANGED vars
  BY <1>1 DEF vars, IInv, Types, Exclusion, Transports
<1>2. ASSUME NEW t \in Threads, NEW fn \in Fns, NEW c \in Handles, Call(t, fn, c)
      PROVE  IInv'
  <2>1. call' \in [Threads -> Calls]
    BY <1>2 DEF Call, IInv, Types, Calls, Handles, NoContext
  <2> QED
    BY <1>2, <2>1, Moves DEF Call, Go, initVars, Places, Locked, After
<1>3. ASSUME NEW t \in Threads, FirstCheck(t) PROVE IInv'
  <2>1. call' \in [Threads -> Calls]
    BY <1>3 DEF FirstCheck, IInv, Types
  <2>2. CASE processInitiated
    BY <1>3, <2>1, <2>2, Moves DEF FirstCheck, Go, initVars, Places, Locked, After
  <2>3. CASE ~processInitiated
    BY <1>3, <2>1, <2>3, Moves DEF FirstCheck, Go, initVars, Places, Locked, After
  <2> QED BY <2>2, <2>3
<1>4. ASSUME NEW t \in Threads, LockInit(t) PROVE IInv'
  BY <1>4 DEF LockInit, Go, IInv, Types, Exclusion, Transports, Places, Locked, After, Nobody
<1>5. ASSUME NEW t \in Threads, SecondCheck(t) PROVE IInv'
  BY <1>5 DEF SecondCheck, Go, initVars, IInv, Types, Exclusion, Transports, Places,
              Locked, After
<1>6. ASSUME NEW t \in Threads, CreateDefault(t) PROVE IInv'
  BY <1>6 DEF CreateDefault, Go, IInv, Types, Exclusion, Transports, Places, Locked, After
<1>7. ASSUME NEW t \in Threads, SetDefault(t) PROVE IInv'
  <2>1. /\ \A u \in Threads \ {t} : pc'[u] = pc[u] /\ pc[u] \notin Locked
        /\ pc'[t] = "unlock" /\ processInitiated' = TRUE /\ defaults' = 1
        /\ items[t].transport = NoContext /\ initProcessLock' = t
    BY <1>7 DEF SetDefault, Go, IInv, Types, Exclusion, Transports, Places, Locked
  <2>2. Types'
    <3>1. items[t] \in Items
      BY DEF IInv, Types
    <3>2. [items[t] EXCEPT !.context = DEFAULT_CONTEXT,
                           !.attribs = @ \/ ~threadStateMapInitiated] \in Items
      BY <3>1 DEF Items, DEFAULT_CONTEXT
    <3>3. items' \in [Threads -> Items]
      BY <1>7, <3>2 DEF SetDefault, IInv, Types
    <3>4. pc' \in [Threads -> Places]
      BY <1>7 DEF SetDefault, Go, IInv, Types, Places, Locked
    <3> QED BY <1>7, <2>1, <3>3, <3>4 DEF SetDefault, IInv, Types
  <2>3. Exclusion'
    BY <2>1 DEF Exclusion, Locked
  <2>4. /\ \A u \in Threads \ {t} : items'[u] = items[u]
        /\ items'[t].context = DEFAULT_CONTEXT /\ items'[t].transport = NoContext
    BY <1>7, <2>1 DEF SetDefault, IInv, Types
  <2>5. Transports'
    BY <2>1, <2>4 DEF Transports, IInv, After, Locked, NoContext, DEFAULT_CONTEXT
  <2> QED BY <2>2, <2>3, <2>5 DEF IInv
<1>8. ASSUME NEW t \in Threads, UnlockInit(t) PROVE IInv'
  BY <1>8 DEF UnlockInit, Go, IInv, Types, Exclusion, Transports, Places, Locked, After
<1>9. ASSUME NEW t \in Threads, InitThread(t) PROVE IInv'
  <2> DEFINE p == IF call[t].fn = "eglMakeCurrent" THEN "makeCurrent" ELSE "send"
  <2>1. /\ pc' = [pc EXCEPT ![t] = p] /\ p \in {"makeCurrent", "send"}
        /\ processInitiated /\ pc[t] = "initThread"
        /\ UNCHANGED <<processInitiated, initProcessLock, defaults, call>>
    BY <1>9 DEF InitThread, Go, initVars, IInv, Transports, After
  <2>2. /\ \A u \in Threads \ {t} : items'[u] = items[u]
        /\ items'[t].context = items[t].context
        /\ items[t].context # NoContext => items'[t].transport = items[t].context
    BY <1>9 DEF InitThread, IInv, Types, Transports, NoContext, DEFAULT_CONTEXT
  <2>3. Types'
    <3>1. items[t] \in Items
      BY DEF IInv, Types
    <3>2. [items[t] EXCEPT !.transport = DEFAULT_CONTEXT] \in Items
      BY <3>1 DEF Items, DEFAULT_CONTEXT
    <3>3. items' \in [Threads -> Items]
      BY <1>9, <3>2 DEF InitThread, IInv, Types
    <3>4. pc' \in [Threads -> Places]
      BY <2>1 DEF IInv, Types, Places, After
    <3> QED BY <2>1, <3>3, <3>4 DEF IInv, Types
  <2> HIDE DEF p
  <2>4. Exclusion'
    BY <2>1 DEF IInv, Types, Exclusion, Locked
  <2>5. Transports'
    BY <2>1, <2>2 DEF IInv, Types, Transports, After
  <2> QED BY <2>3, <2>4, <2>5 DEF IInv
<1>10. ASSUME NEW t \in Threads, UnmarkOld(t) PROVE IInv'
  <2>1. call' \in [Threads -> Calls]
    BY <1>10 DEF UnmarkOld, IInv, Types
  <2>2. PICK p \in {"idle", "setCurrent"} : pc' = [pc EXCEPT ![t] = p]
    BY <1>10 DEF UnmarkOld, Go
  <2>3. pc[t] = "makeCurrent" /\ processInitiated
    BY <1>10 DEF UnmarkOld, IInv, Transports, After
  <2> QED
    BY <1>10, <2>1, <2>2, <2>3, Moves DEF UnmarkOld, initVars, Places, Locked, After
<1>11. ASSUME NEW t \in Threads, SetCurrent(t) PROVE IInv'
  <2>1. call' \in [Threads -> Calls]
    BY <1>11 DEF SetCurrent, IInv, Types
  <2>2. pc[t] = "setCurrent" /\ processInitiated
    BY <1>11 DEF SetCurrent, IInv, Transports, After
  <2>3. CASE call[t].context \notin contexts
    BY <1>11, <2>1, <2>2, <2>3, Moves DEF SetCurrent, Go, initVars, Places, Locked, After
  <2>4. CASE call[t].context \in contexts
    <3>1. /\ items' = [items EXCEPT ![t].context = call[t].context,
                                    ![t].transport = call[t].context]
          /\ pc' = [pc EXCEPT ![t] = "mark"]
          /\ UNCHANGED <<processInitiated, initProcessLock, defaults, call>>
      BY <1>11, <2>4 DEF SetCurrent, Go, initVars
    <3>2. Types'
      <4>1. items[t] \in Items /\ call[t].context \in Nat
        BY DEF IInv, Types, Calls
      <4>2. [items[t] EXCEPT !.context = call[t].context,
                             !.transport = call[t].context] \in Items
        BY <4>1 DEF Items
      <4>3. items' \in [Threads -> Items]
        BY <3>1, <4>2 DEF IInv, Types
      <4>4. pc' \in [Threads -> Places]
        BY <3>1 DEF IInv, Types, Places, After
      <4> QED BY <3>1, <4>3, <4>4 DEF IInv, Types
    <3>3. Exclusion'
      BY <2>2, <3>1 DEF IInv, Types, Exclusion, Locked
    <3>4. Transports'
      BY <2>2, <3>1 DEF IInv, Types, Transports, After
    <3> QED BY <3>2, <3>3, <3>4 DEF IInv
  <2> QED BY <2>3, <2>4
<1>12. ASSUME NEW t \in Threads,
              MarkNew(t) \/ StartSending(t) \/ FinishSending(t)
                \/ MadeCurrent(t) \/ Created(t)
       PROVE  IInv'
  <2>1. call' \in [Threads -> Calls]
    BY <1>12 DEF MarkNew, StartSending, FinishSending, MadeCurrent, Created, IInv, Types
  <2>2. PICK p \in {"idle", "send", "sendRest", "receive"} : pc' = [pc EXCEPT ![t] = p]
    BY <1>12 DEF MarkNew, StartSending, FinishSending, MadeCurrent, Created, Go
  <2>3. pc[t] \in {"mark", "send", "sendRest", "receive"} /\ processInitiated
    BY <1>12 DEF MarkNew, StartSending, FinishSending, MadeCurrent, Created,
                 IInv, Transports, After
  <2>4. UNCHANGED <<processInitiated, initProcessLock, defaults, items>>
    BY <1>12 DEF MarkNew, StartSending, FinishSending, MadeCurrent, Created, initVars
  <2> QED
    BY <2>1, <2>2, <2>3, <2>4, Moves DEF Places, Locked, After
<1> QED
  BY <1>1, <1>2, <1>3, <1>4, <1>5, <1>6, <1>7, <1>8, <1>9, <1>10, <1>11, <1>12
     DEF Next, Step

\* The facts about the initialisation and the transports hold always.
THEOREM ContextsInvariance == Spec => []IInv
  BY InitInv, StepInv, PTL DEF Spec

\* initProcessIfNotDoneAlready creates the default context at most once,
\* whatever number of threads call their first function together.
THEOREM InitialisedOnce == Spec => []InitOnce
<1>1. IInv => InitOnce
  <2> SUFFICES ASSUME IInv PROVE defaults <= 1
    BY DEF InitOnce
  <2> QED BY DEF IInv, Types, Exclusion
<1> QED BY <1>1, ContextsInvariance, PTL

\* A thread's calls take the transport of the context it last made current.
THEOREM OwnTransport == Spec => []ThreadTransport
<1>1. IInv => ThreadTransport
  BY DEF IInv, Transports, ThreadTransport
<1> QED BY <1>1, ContextsInvariance, PTL

-----------------------------------------------------------------------------
(* Current contexts: one thread, the one that initialised the process, has *)
(* any; the others have the default transport at most.                     *)

Making == {"makeCurrent", "setCurrent", "mark"}
Using  == Making \cup {"send", "sendRest", "receive"}

Owner ==
    /\ initProcessLock \in Threads \cup {Nobody}
    /\ threadStateMapInitiated => processInitiated
    /\ \A t, u \in Threads :
         items[t].context # NoContext /\ items[u].context # NoContext => t = u
    /\ \A t \in Threads :
         /\ items[t].context # NoContext => items[t].attribs /\ processInitiated
         /\ items[t].context = NoContext => items[t].transport \in {NoContext, DEFAULT_CONTEXT}
         /\ pc[t] \in Using => items[t].transport # NoContext
         /\ pc[t] \in {"setCurrent", "mark"} => items[t].context # NoContext

Known ==
    /\ contexts \cup orphans \subseteq 1..(MaxContexts + 1)
    /\ processInitiated => DEFAULT_CONTEXT \in contexts
    /\ \A t \in Threads :
         /\ pc[t] = "setDefault" => DEFAULT_CONTEXT \in contexts
         /\ items[t].context \in contexts \cup {NoContext}
         /\ items[t].transport \in contexts \cup {NoContext}

Sends ==
    /\ sending \in [Threads -> Nat]
    /\ \A t \in Threads :
         sending[t] = IF pc[t] = "sendRest" THEN items[t].transport ELSE NoContext
    /\ torn \subseteq {DEFAULT_CONTEXT}

\* A thread that asks the server to make a context current has it as its own.
Makes ==
    \A t \in Threads :
        /\ pc[t] \in Making => call[t].fn = "eglMakeCurrent"
        /\ call[t].fn = "eglMakeCurrent" /\ pc[t] \in {"mark", "send", "sendRest", "receive"}
             => items[t].context = call[t].context /\ call[t].context # NoContext

Marks ==
    /\ \A t \in failed : t \in Threads /\ items[t].context # NoContext
    /\ \A t \in Threads : pc[t] = "mark" => t \notin failed
    /\ (\A t \in Threads : items[t].context = NoContext) => marked = {}
    /\ \A t \in Threads : items[t].context # NoContext =>
         marked = IF t \in failed \/ pc[t] \in {"setCurrent", "mark"} THEN {}
                  ELSE {items[t].context}

Drawn ==
    /\ glCurrent \in [1..(MaxContexts + 1) -> Nat]
    /\ \A t \in Threads :
         items[t].context \notin {NoContext, DEFAULT_CONTEXT} /\ t \notin refused =>
           \/ glCurrent[items[t].context] = items[t].context
           \/ /\ call[t].fn = "eglMakeCurrent"
              /\ pc[t] \in {"mark", "send", "sendRest", "receive"}

Current == Owner /\ Known /\ Sends /\ Makes /\ Marks /\ Drawn

LEMMA CurrentInit == Init => Current
<1> SUFFICES ASSUME Init PROVE Current
  OBVIOUS
<1>1. \A t \in Threads : /\ pc[t] = "idle" /\ items[t] = NoItems /\ call[t] = NoCall
                         /\ sending[t] = NoContext
  BY DEF Init
<1>2. Owner /\ Known /\ Makes /\ Marks
  BY <1>1 DEF Init, Owner, Known, Makes, Marks, NoItems, NoCall, NoContext, Making, Using
<1>3. Sends
  BY <1>1 DEF Init, Sends, NoItems, NoContext
<1>4. Handles \ {NoContext} = 1..(MaxContexts + 1)
  BY ContextsAssumption DEF Handles, NoContext
<1>5. glCurrent \in [1..(MaxContexts + 1) -> Nat]
  BY <1>4 DEF Init, NoContext
<1>6. Drawn
  BY <1>1, <1>5 DEF Drawn, NoItems
<1> QED BY <1>2, <1>3, <1>6 DEF Current

\* Calls and the lock: no thread gets to or comes from where contexts are used.
LEMMA CurrentMoves ==
  ASSUME IInv, Current, NEW t \in Threads, NEW p \in Places,
         pc' = [pc EXCEPT ![t] = p],
         pc[t] \notin Using \cup {"setDefault"}, p \notin Using \cup {"setDefault"},
         UNCHANGED <<processInitiated, threadStateMapInitiated, items, contexts, marked,
                     sending, torn, glCurrent, orphans, refused, failed>>,
         initProcessLock' \in Threads \cup {Nobody},
         \A u \in Threads \ {t} : call'[u] = call[u]
  PROVE  Current'
<1>1. pc'[t] = p /\ \A u \in Threads \ {t} : pc'[u] = pc[u]
  BY DEF IInv, Types
<1>2. Owner'
  BY <1>1 DEF Current, Owner, Using, Making
<1>3. Known'
  BY <1>1 DEF Current, Known
<1>4. Sends'
  BY <1>1 DEF Current, Sends, Using
<1>5. Makes'
  BY <1>1 DEF Current, Makes, Using, Making
<1>6. Marks'
  BY <1>1 DEF Current, Marks, Using, Making
<1>7. Drawn'
  BY <1>1 DEF Current, Drawn, Using, Making
<1> QED BY <1>2, <1>3, <1>4, <1>5, <1>6, <1>7 DEF Current

LEMMA CallCurrent ==
  ASSUME IInv, Current, NEW t \in Threads, NEW fn \in Fns, NEW c \in Handles, Call(t, fn, c)
  PROVE  Current'
<1>1. /\ pc[t] = "idle" /\ pc' = [pc EXCEPT ![t] = "initProcess"]
      /\ call' = [call EXCEPT ![t] = [fn |-> fn, context |-> c]]
      /\ UNCHANGED <<processInitiated, initProcessLock, threadStateMapInitiated, items, contexts,
                     marked, sending, torn, glCurrent, orphans, refused, failed>>
  BY DEF Call, Go, initVars, commandVars, history
<1>2. \A u \in Threads \ {t} : call'[u] = call[u]
  BY <1>1 DEF IInv, Types
<1>3. initProcessLock \in Threads \cup {Nobody}
  BY DEF Current, Owner
<1> QED BY <1>1, <1>2, <1>3, CurrentMoves DEF Using, Making, Places

LEMMA LockCurrent ==
  ASSUME IInv, Current, NEW t \in Threads,
         FirstCheck(t) \/ LockInit(t) \/ SecondCheck(t) \/ UnlockInit(t)
  PROVE  Current'
<1>1. PICK p \in {"initThread", "lock", "secondCheck", "unlock", "initEglGlesClient"} :
        pc' = [pc EXCEPT ![t] = p]
  BY DEF FirstCheck, LockInit, SecondCheck, UnlockInit, Go
<1>2. /\ pc[t] \in {"initProcess", "lock", "secondCheck", "unlock"}
      /\ UNCHANGED <<processInitiated, threadStateMapInitiated, items, contexts, marked, call,
                     sending, torn, glCurrent, orphans, refused, failed>>
  BY DEF FirstCheck, LockInit, SecondCheck, UnlockInit, initVars, commandVars, history
<1>3. initProcessLock' \in Threads \cup {Nobody}
  BY DEF FirstCheck, LockInit, SecondCheck, UnlockInit, initVars, Current, Owner
<1> QED BY <1>1, <1>2, <1>3, CurrentMoves DEF Using, Making, Places, Locked, After

LEMMA CreateDefaultCurrent ==
  ASSUME IInv, Current, NEW t \in Threads, CreateDefault(t)
  PROVE  Current'
<1>1. /\ pc[t] = "initEglGlesClient" /\ pc' = [pc EXCEPT ![t] = "setDefault"]
      /\ contexts' = contexts \cup {DEFAULT_CONTEXT}
      /\ UNCHANGED <<processInitiated, initProcessLock, threadStateMapInitiated, items, marked,
                     call, sending, torn, glCurrent, orphans, refused, failed>>
  BY DEF CreateDefault, Go, commandVars, history
<1>2. pc'[t] = "setDefault" /\ \A u \in Threads \ {t} : pc'[u] = pc[u]
  BY <1>1 DEF IInv, Types
<1>3. Owner'
  BY <1>1, <1>2 DEF Current, Owner, Using, Making
<1>4. Known'
  BY <1>1, <1>2, ContextsAssumption DEF Current, Known, DEFAULT_CONTEXT
<1>5. Sends' /\ Makes' /\ Marks'
  BY <1>1, <1>2 DEF Current, Sends, Makes, Marks, Using, Making
<1>6. Drawn'
  BY <1>1, <1>2 DEF Current, Drawn
<1> QED BY <1>3, <1>4, <1>5, <1>6 DEF Current

LEMMA SetDefaultCurrent ==
  ASSUME IInv, Current, NEW t \in Threads, SetDefault(t)
  PROVE  Current'
<1>1. /\ pc[t] = "setDefault" /\ pc' = [pc EXCEPT ![t] = "unlock"]
      /\ items' = [items EXCEPT ![t].context = DEFAULT_CONTEXT,
                                ![t].attribs = @ \/ ~threadStateMapInitiated]
      /\ threadStateMapInitiated' /\ processInitiated'
      /\ marked' = marked \cup {DEFAULT_CONTEXT}
      /\ UNCHANGED <<initProcessLock, contexts, call, sending, torn, glCurrent, orphans, refused,
                     failed>>
  BY DEF SetDefault, Go, commandVars, history
<1>2. ~processInitiated /\ ~threadStateMapInitiated
  BY <1>1 DEF IInv, Exclusion, Current, Owner
<1>3. \A u \in Threads : items[u].context = NoContext /\ items[u].transport = NoContext
  BY <1>2 DEF IInv, Transports, Current, Owner
<1>4. /\ pc'[t] = "unlock" /\ \A u \in Threads \ {t} : pc'[u] = pc[u]
      /\ \A u \in Threads \ {t} : items'[u] = items[u]
      /\ items'[t].context = DEFAULT_CONTEXT /\ items'[t].attribs
      /\ items'[t].transport = items[t].transport
  BY <1>1, <1>2 DEF IInv, Types, Items
<1>5. \A u \in Threads : items'[u].context # NoContext => u = t
  BY <1>3, <1>4
<1>6. Owner' /\ Known'
  <2>1. Owner'
    <3>1. initProcessLock' \in Threads \cup {Nobody}
      BY <1>1 DEF Current, Owner
    <3>2. \A u \in Threads : items'[u].transport \in {NoContext, DEFAULT_CONTEXT}
      BY <1>3, <1>4
    <3>4. items'[t].attribs /\ processInitiated'
      BY <1>1, <1>4
    <3>5. \A u \in Threads : items'[u].context # NoContext => items'[u].attribs
      BY <1>5, <3>4
    <3>3. \A u \in Threads : pc'[u] \notin Using
      BY <1>3, <1>4 DEF Current, Owner, Using, Making
    <3> QED BY <1>1, <1>5, <3>1, <3>2, <3>3, <3>4, <3>5 DEF Owner, Using, Making
  <2>2. DEFAULT_CONTEXT \in contexts
    BY <1>1 DEF Current, Known
  <2>3. \A u \in Threads : /\ items'[u].context \in contexts \cup {NoContext}
                           /\ items'[u].transport \in contexts \cup {NoContext}
    BY <1>3, <1>4, <2>2
  <2>4. Known'
    BY <1>1, <2>2, <2>3 DEF Current, Known
  <2> QED BY <2>1, <2>4
<1>7. Sends'
  <2>1. Sends /\ UNCHANGED <<sending, torn>>
    BY Zenon, <1>1 DEF Current
  <2>2. ASSUME NEW u \in Threads
        PROVE  sending[u] = IF pc'[u] = "sendRest" THEN items'[u].transport ELSE NoContext
    <3>1. CASE u = t
      BY Zenon, <1>1, <1>4, <2>1, <3>1 DEF Sends
    <3>2. CASE u # t
      BY Zenon, <1>4, <2>1, <3>2 DEF Sends
    <3> QED BY <3>1, <3>2
  <2> QED BY Zenon, <2>1, <2>2 DEF Sends
<1>8. Makes'
  <2>1. Makes /\ call' = call
    BY Zenon, <1>1 DEF Current
  <2>2. ASSUME NEW u \in Threads
        PROVE  /\ pc'[u] \in Making => call[u].fn = "eglMakeCurrent"
               /\ call[u].fn = "eglMakeCurrent" /\ pc'[u] \in {"mark", "send", "sendRest", "receive"}
                    => items'[u].context = call[u].context /\ call[u].context # NoContext
    <3>1. CASE u = t
      BY <1>4, <3>1 DEF Making
    <3>2. CASE u # t
      BY Zenon, <1>4, <2>1, <3>2 DEF Makes
    <3> QED BY <3>1, <3>2
  <2> QED BY Zenon, <2>1, <2>2 DEF Makes
<1>9. Marks'
  <2>1. failed = {} /\ marked' = {DEFAULT_CONTEXT}
    BY <1>1, <1>3 DEF Current, Marks
  <2>2. \A u \in Threads : pc'[u] # "mark"
    BY <1>3, <1>4 DEF Current, Owner
  <2>3. items'[t].context # NoContext
    BY <1>4 DEF NoContext, DEFAULT_CONTEXT
  <2>4. failed' = {} /\ marked' = {items'[t].context} /\ pc'[t] \notin {"setCurrent", "mark"}
    BY Zenon, <1>1, <1>4, <2>1
  <2> QED BY Zenon, <1>5, <2>2, <2>3, <2>4 DEF Marks
<1>10. Drawn'
  <2>1. Drawn /\ UNCHANGED <<glCurrent, refused, call>>
    BY Zenon, <1>1 DEF Current
  <2>2. ASSUME NEW u \in Threads, items'[u].context \notin {NoContext, DEFAULT_CONTEXT}, u \notin refused
        PROVE  \/ glCurrent[items'[u].context] = items'[u].context
               \/ /\ call[u].fn = "eglMakeCurrent"
                  /\ pc'[u] \in {"mark", "send", "sendRest", "receive"}
    <3>1. u # t
      BY Zenon, <1>4, <2>2
    <3> QED BY Zenon, <1>4, <2>1, <2>2, <3>1 DEF Drawn
  <2> QED BY Zenon, <2>1, <2>2 DEF Drawn
<1> QED BY <1>6, <1>7, <1>8, <1>9, <1>10 DEF Current

LEMMA InitThreadCurrent ==
  ASSUME IInv, Current, NEW t \in Threads, InitThread(t)
  PROVE  Current'
<1>1. PICK p \in {"makeCurrent", "send"} :
        /\ pc' = [pc EXCEPT ![t] = p]
        /\ p = "makeCurrent" <=> call[t].fn = "eglMakeCurrent"
  BY DEF InitThread, Go
<1>2. /\ pc[t] = "initThread" /\ processInitiated
      /\ items' = IF items[t].transport = NoContext
                  THEN [items EXCEPT ![t].transport = DEFAULT_CONTEXT] ELSE items
      /\ UNCHANGED <<processInitiated, initProcessLock, threadStateMapInitiated, contexts, marked,
                     call, sending, torn, glCurrent, orphans, refused, failed>>
  BY DEF InitThread, initVars, commandVars, history, IInv, Transports, After
<1>3. /\ pc'[t] = p /\ \A u \in Threads \ {t} : pc'[u] = pc[u]
      /\ \A u \in Threads \ {t} : items'[u] = items[u]
      /\ items'[t].context = items[t].context /\ items'[t].attribs = items[t].attribs
      /\ items'[t].transport = IF items[t].transport = NoContext THEN DEFAULT_CONTEXT
                               ELSE items[t].transport
  BY <1>1, <1>2 DEF IInv, Types, Items
<1>4. Owner'
  BY <1>1, <1>2, <1>3 DEF Current, Owner, Using, Making, NoContext, DEFAULT_CONTEXT
<1>5. Known'
  BY <1>1, <1>2, <1>3 DEF Current, Known
<1>6. Sends'
  BY <1>1, <1>2, <1>3 DEF Current, Sends
<1>7. Makes'
  BY <1>1, <1>2, <1>3 DEF Current, Makes, Making
<1>8. Marks'
  BY <1>1, <1>2, <1>3 DEF Current, Marks
<1>9. Drawn'
  BY <1>1, <1>2, <1>3 DEF Current, Drawn
<1> QED BY <1>4, <1>5, <1>6, <1>7, <1>8, <1>9 DEF Current

LEMMA UnmarkOldCurrent ==
  ASSUME IInv, Current, NEW t \in Threads, UnmarkOld(t)
  PROVE  Current'
<1>1. PICK p \in {"idle", "setCurrent"} :
        /\ pc' = [pc EXCEPT ![t] = p]
        /\ p = "idle" <=> items[t].context = NoContext
        /\ marked' = IF p = "idle" THEN marked ELSE marked \ {items[t].context}
  BY DEF UnmarkOld, Go
<1>2. /\ pc[t] = "makeCurrent"
      /\ UNCHANGED <<processInitiated, initProcessLock, threadStateMapInitiated, items, contexts,
                     call, sending, torn, glCurrent, orphans, refused, failed>>
  BY DEF UnmarkOld, initVars, commandVars, history
<1>3. pc'[t] = p /\ \A u \in Threads \ {t} : pc'[u] = pc[u]
  BY <1>1 DEF IInv, Types
<1>4. Owner' /\ Known'
  BY <1>1, <1>2, <1>3 DEF Current, Owner, Known, Using, Making
<1>5. Sends' /\ Makes'
  BY <1>1, <1>2, <1>3 DEF Current, Sends, Makes, Making
<1>6. Marks'
  BY Zenon, <1>1, <1>2, <1>3 DEF Current, Marks, Owner
<1>7. Drawn'
  BY <1>1, <1>2, <1>3 DEF Current, Drawn
<1> QED BY <1>4, <1>5, <1>6, <1>7 DEF Current

LEMMA SetCurrentCurrent ==
  ASSUME IInv, Current, NEW t \in Threads, SetCurrent(t)
  PROVE  Current'
<1>1. /\ pc[t] = "setCurrent" /\ items[t].context # NoContext
      /\ call[t].fn = "eglMakeCurrent"
      /\ UNCHANGED <<processInitiated, initProcessLock, threadStateMapInitiated, contexts, marked,
                     call, sending, torn, glCurrent, orphans, refused>>
  BY DEF SetCurrent, initVars, Current, Owner, Makes, Making
<1>2. CASE call[t].context \in contexts
  <2>1. /\ pc' = [pc EXCEPT ![t] = "mark"] /\ failed' = failed \ {t}
        /\ items' = [items EXCEPT ![t].context = call[t].context,
                                  ![t].transport = call[t].context]
    BY <1>2 DEF SetCurrent, Go
  <2>2. /\ pc'[t] = "mark" /\ \A u \in Threads \ {t} : pc'[u] = pc[u]
        /\ \A u \in Threads \ {t} : items'[u] = items[u]
        /\ items'[t].context = call[t].context /\ items'[t].transport = call[t].context
        /\ items'[t].attribs = items[t].attribs
    BY <2>1 DEF IInv, Types, Items
  <2>3. call[t].context # NoContext
    BY <1>2, ContextsAssumption DEF Current, Known, NoContext
  <2>4. Owner'
    BY <1>1, <2>2, <2>3 DEF Current, Owner, Using, Making
  <2>5. Known'
    BY <1>1, <1>2, <2>2 DEF Current, Known
  <2>6. Sends'
    BY <1>1, <2>2 DEF Current, Sends
  <2>7. Makes'
    <3>1. Makes
      BY Zenon DEF Current
    <3> QED BY Zenon, <1>1, <2>2, <2>3, <3>1 DEF Makes, Making
  <2>8. Marks'
    <3>1. Marks /\ Owner /\ marked' = marked
      BY Zenon, <1>1 DEF Current
    <3>2. marked = {} /\ \A u \in Threads \ {t} : items[u].context = NoContext
      BY Zenon, <1>1, <3>1 DEF Marks, Owner
    <3>3. \A u \in failed' : u \in failed /\ u # t
      BY Zenon, <2>1
    <3>4. \A u \in Threads \ {t} : items'[u].context = NoContext /\ pc'[u] = pc[u]
      BY Zenon, <2>2, <3>2
    <3>5. items'[t].context # NoContext /\ pc'[t] = "mark" /\ marked' = {}
      BY Zenon, <2>2, <2>3, <3>1, <3>2
    <3>6. \A u \in Threads : u # t => (pc'[u] = "mark" => u \notin failed')
      BY Zenon, <3>1, <3>3, <3>4 DEF Marks
    <3>7. \A u \in failed' : u \in Threads /\ items'[u].context # NoContext
      BY Zenon, <3>1, <3>2, <3>3 DEF Marks
    <3> QED BY Zenon, <3>3, <3>4, <3>5, <3>6, <3>7 DEF Marks
  <2>9. Drawn'
    <3>1. Drawn /\ UNCHANGED <<glCurrent, refused, call>>
      BY Zenon, <1>1 DEF Current
    <3>2. ASSUME NEW u \in Threads,
                 items'[u].context \notin {NoContext, DEFAULT_CONTEXT}, u \notin refused
          PROVE  \/ glCurrent[items'[u].context] = items'[u].context
                 \/ /\ call[u].fn = "eglMakeCurrent"
                    /\ pc'[u] \in {"mark", "send", "sendRest", "receive"}
      <4>1. CASE u = t
        BY Zenon, <1>1, <2>2, <4>1
      <4>2. CASE u # t
        BY Zenon, <2>2, <3>1, <3>2, <4>2 DEF Drawn
      <4> QED BY <4>1, <4>2
    <3> QED BY Zenon, <3>1, <3>2 DEF Drawn
  <2> QED BY <2>4, <2>5, <2>6, <2>7, <2>8, <2>9 DEF Current
<1>3. CASE call[t].context \notin contexts
  <2>1. /\ pc' = [pc EXCEPT ![t] = "idle"] /\ failed' = failed \cup {t} /\ items' = items
    BY <1>3 DEF SetCurrent, Go
  <2>2. pc'[t] = "idle" /\ \A u \in Threads \ {t} : pc'[u] = pc[u]
    BY <2>1 DEF IInv, Types
  <2>3. Owner' /\ Known'
    BY <1>1, <2>1, <2>2 DEF Current, Owner, Known, Using, Making
  <2>4. Sends' /\ Makes'
    BY <1>1, <2>1, <2>2 DEF Current, Sends, Makes, Making
  <2>5. Marks'
    BY <1>1, <2>1, <2>2 DEF Current, Marks, Owner
  <2>6. Drawn'
    BY <1>1, <2>1, <2>2 DEF Current, Drawn
  <2> QED BY <2>3, <2>4, <2>5, <2>6 DEF Current
<1> QED BY <1>2, <1>3

LEMMA MarkNewCurrent ==
  ASSUME IInv, Current, NEW t \in Threads, MarkNew(t)
  PROVE  Current'
<1>1. /\ pc[t] = "mark" /\ pc' = [pc EXCEPT ![t] = "send"]
      /\ marked' = marked \cup {call[t].context}
      /\ items[t].context = call[t].context /\ call[t].context # NoContext
      /\ call[t].fn = "eglMakeCurrent" /\ items[t].transport # NoContext
      /\ UNCHANGED <<processInitiated, initProcessLock, threadStateMapInitiated, items, contexts,
                     call, sending, torn, glCurrent, orphans, refused, failed>>
  BY DEF MarkNew, Go, initVars, commandVars, history, Current, Makes, Making, Owner, Using
<1>2. pc'[t] = "send" /\ \A u \in Threads \ {t} : pc'[u] = pc[u]
  BY <1>1 DEF IInv, Types
<1>3. Owner' /\ Known'
  BY <1>1, <1>2 DEF Current, Owner, Known, Using, Making
<1>4. Sends' /\ Makes'
  BY <1>1, <1>2 DEF Current, Sends, Makes, Making
<1>5. Marks'
  BY <1>1, <1>2 DEF Current, Marks, Owner
<1>6. Drawn'
  BY <1>1, <1>2 DEF Current, Drawn
<1> QED BY <1>3, <1>4, <1>5, <1>6 DEF Current

LEMMA SendingCurrent ==
  ASSUME IInv, Current, NEW t \in Threads, StartSending(t) \/ FinishSending(t)
  PROVE  Current'
<1>1. /\ UNCHANGED <<processInitiated, initProcessLock, threadStateMapInitiated, items, contexts,
                     marked, call, glCurrent, orphans, refused, failed>>
      /\ pc[t] \in {"send", "sendRest"}
  BY DEF StartSending, FinishSending, initVars, history
<1>2. PICK p \in {"sendRest", "receive", "idle"} :
        /\ pc' = [pc EXCEPT ![t] = p] /\ (p = "sendRest" <=> StartSending(t))
        /\ sending' = [sending EXCEPT ![t] = IF p = "sendRest" THEN items[t].transport ELSE NoContext]
        /\ torn' = IF p # "sendRest" /\ call[t].fn = "glDraw" /\ ~items[t].attribs
                   THEN torn \cup {items[t].transport} ELSE torn
  BY DEF StartSending, FinishSending, Go
<1>3. /\ pc'[t] = p /\ \A u \in Threads \ {t} : pc'[u] = pc[u]
      /\ sending'[t] = IF p = "sendRest" THEN items[t].transport ELSE NoContext
      /\ \A u \in Threads \ {t} : sending'[u] = sending[u]
  BY <1>2 DEF IInv, Types, Current, Sends
<1>4. Owner' /\ Known'
  BY <1>1, <1>3 DEF Current, Owner, Known, Using, Making
<1>5. Sends'
  <2>1. items[t].transport \in Nat /\ NoContext \in Nat
    BY DEF IInv, Types, Items, NoContext
  <2>2. sending' \in [Threads -> Nat]
    BY <1>2, <2>1 DEF Current, Sends
  <2>3. torn' \subseteq {DEFAULT_CONTEXT}
    <3>1. ~items[t].attribs => items[t].transport = DEFAULT_CONTEXT
      BY <1>1 DEF Current, Owner, Using, Making
    <3> QED BY <1>2, <3>1 DEF Current, Sends
  <2> QED BY <1>1, <1>3, <2>2, <2>3 DEF Current, Sends
<1>6. Makes'
  BY <1>1, <1>3 DEF Current, Makes, Making
<1>7. Marks'
  BY <1>1, <1>3 DEF Current, Marks
<1>8. Drawn'
  <2>1. call[t].fn = "eglMakeCurrent" => p # "idle"
    BY <1>1, <1>2 DEF FinishSending, StartSending, Go, IInv, Types
  <2> QED BY <1>1, <1>3, <2>1 DEF Current, Drawn
<1> QED BY <1>4, <1>5, <1>6, <1>7, <1>8 DEF Current

LEMMA MadeCurrentCurrent ==
  ASSUME IInv, Current, NEW t \in Threads, MadeCurrent(t)
  PROVE  Current'
<1>1. /\ pc[t] = "receive" /\ pc' = [pc EXCEPT ![t] = "idle"] /\ call[t].fn = "eglMakeCurrent"
      /\ UNCHANGED <<processInitiated, initProcessLock, threadStateMapInitiated, items, contexts,
                     marked, call, sending, torn, orphans, failed>>
  BY DEF MadeCurrent, Go, initVars
<1>2. pc'[t] = "idle" /\ \A u \in Threads \ {t} : pc'[u] = pc[u]
  BY <1>1 DEF IInv, Types
<1>3. /\ items[t].context = call[t].context /\ call[t].context # NoContext
      /\ items[t].transport = call[t].context /\ call[t].context \in contexts
      /\ call[t].context \in 1..(MaxContexts + 1) /\ call[t].context \in Nat
  BY <1>1 DEF Current, Makes, Known, IInv, Transports, Types, Calls
<1>4. Owner' /\ Known' /\ Sends'
  BY <1>1, <1>2 DEF Current, Owner, Known, Sends, Using, Making
<1>5. Makes' /\ Marks'
  BY <1>1, <1>2 DEF Current, Makes, Marks, Making
<1>6. Drawn'
  <2>1. \A u \in Threads \ {t} : items[u].context = NoContext
    BY <1>3 DEF Current, Owner
  <2>2. CASE /\ glCurrent' = [glCurrent EXCEPT ![call[t].context] = call[t].context]
             /\ refused' = refused \ {t}
    <3>1. glCurrent' \in [1..(MaxContexts + 1) -> Nat] /\ glCurrent'[call[t].context] = call[t].context
      BY <1>3, <2>2 DEF Current, Drawn
    <3> QED BY <1>1, <1>3, <2>1, <3>1 DEF Drawn
  <2>3. CASE glCurrent' = glCurrent /\ refused' = refused \cup {t}
    BY <1>1, <2>1, <2>3 DEF Current, Drawn
  <2> QED BY <1>3, <2>2, <2>3 DEF MadeCurrent, MakesCurrent
<1> QED BY <1>4, <1>5, <1>6 DEF Current

LEMMA CreatedCurrent ==
  ASSUME IInv, Current, NEW t \in Threads, Created(t)
  PROVE  Current'
<1>1. /\ pc[t] = "receive" /\ pc' = [pc EXCEPT ![t] = "idle"] /\ call[t].fn = "eglCreateContext"
      /\ UNCHANGED <<processInitiated, initProcessLock, threadStateMapInitiated, items,
                     marked, call, sending, torn, glCurrent, refused, failed>>
  BY DEF Created, Go, initVars, commandVars, history
<1>2. pc'[t] = "idle" /\ \A u \in Threads \ {t} : pc'[u] = pc[u]
  BY <1>1 DEF IInv, Types
<1>3. Cardinality(contexts \cup orphans) \in Nat
  <2>1. MaxContexts + 1 \in Int /\ 1 \in Int
    BY ContextsAssumption
  <2>2. IsFiniteSet(1..(MaxContexts + 1))
    BY <2>1, FS_Interval
  <2>3. IsFiniteSet(contexts \cup orphans)
    BY <2>2, FS_Subset DEF Current, Known
  <2> QED BY <2>3, FS_CardinalityType
<1>4. contexts' \cup orphans' \subseteq 1..(MaxContexts + 1) /\ contexts \subseteq contexts'
  <2> DEFINE n == Cardinality(contexts \cup orphans)
  <2>1. n <= MaxContexts => n + 1 \in 1..(MaxContexts + 1)
    BY <1>3, ContextsAssumption
  <2>2. contexts \cup orphans \subseteq 1..(MaxContexts + 1)
    BY DEF Current, Known
  <2>3. \/ n <= MaxContexts /\ contexts' = contexts \cup {n + 1} /\ orphans' = orphans
        \/ n <= MaxContexts /\ orphans' = orphans \cup {n + 1} /\ contexts' = contexts
        \/ contexts' = contexts /\ orphans' = orphans
    BY DEF Created
  <2> HIDE DEF n
  <2> QED BY <2>1, <2>2, <2>3
<1>5. Owner'
  BY <1>1, <1>2 DEF Current, Owner, Using, Making
<1>6. Known'
  BY <1>1, <1>2, <1>4 DEF Current, Known
<1>7. Sends' /\ Makes' /\ Marks'
  BY <1>1, <1>2 DEF Current, Sends, Makes, Marks, Making
<1>8. Drawn'
  BY <1>1, <1>2 DEF Current, Drawn
<1> QED BY <1>5, <1>6, <1>7, <1>8 DEF Current

LEMMA StepCurrent == ASSUME IInv, Current, [Next]_vars PROVE Current'
<1>1. CASE UNCHANGED vars
  <2>1. UNCHANGED <<processInitiated, initProcessLock, threadStateMapInitiated, items, contexts,
                    marked, pc, call, sending, torn, glCurrent, orphans, refused, failed>>
    BY <1>1 DEF vars
  <2> QED BY <2>1 DEF Current, Owner, Known, Sends, Makes, Marks, Drawn
<1>2. ASSUME NEW t \in Threads, NEW fn \in Fns, NEW c \in Handles, Call(t, fn, c) PROVE Current'
  BY <1>2, CallCurrent
<1>3. ASSUME NEW t \in Threads, Step(t) PROVE Current'
  BY <1>3, LockCurrent, CreateDefaultCurrent, SetDefaultCurrent, InitThreadCurrent,
     UnmarkOldCurrent, SetCurrentCurrent, MarkNewCurrent, SendingCurrent, MadeCurrentCurrent,
     CreatedCurrent
  DEF Step
<1> QED BY <1>1, <1>2, <1>3 DEF Next

LEMMA CurrentTypes == IInv /\ Current => TypeOK
<1> SUFFICES ASSUME IInv, Current PROVE TypeOK
  OBVIOUS
<1>1. contexts \subseteq Handles \ {NoContext} /\ orphans \subseteq Handles \ {NoContext}
  BY ContextsAssumption DEF Current, Known, Handles, NoContext
<1>2. items \in [Threads -> [context : Handles, transport : Handles, attribs : BOOLEAN]]
  <2>1. \A t \in Threads : /\ items[t] \in Items
                           /\ items[t].context \in Handles /\ items[t].transport \in Handles
    BY <1>1 DEF IInv, Types, Current, Known, Handles
  <2>2. \A t \in Threads : items[t] \in [context : Handles, transport : Handles, attribs : BOOLEAN]
    BY <2>1 DEF Items
  <2> QED BY <2>2 DEF IInv, Types
<1>3. ASSUME NEW t \in Threads
      PROVE  /\ sending[t] \in contexts \cup {NoContext}
             /\ pc[t] = "send" => items[t].transport \in contexts
  BY DEF Current, Sends, Known, Owner, Using
<1> QED BY <1>1, <1>2, <1>3 DEF TypeOK, Current, Owner

LEMMA CurrentMarks == Current => MarkedIsCurrent
<1> SUFFICES ASSUME Current, \A t \in Threads : pc[t] \in {"idle", "send", "sendRest", "receive"}
             PROVE  marked = {items[t].context : t \in Threads \ failed} \ {NoContext}
  BY DEF MarkedIsCurrent, MarkedAreOf
<1>1. CASE \A t \in Threads : items[t].context = NoContext
  BY <1>1 DEF Current, Marks
<1>2. CASE \E t \in Threads : items[t].context # NoContext
  <2>1. PICK t \in Threads : items[t].context # NoContext
    BY <1>2
  <2>2. marked = IF t \in failed THEN {} ELSE {items[t].context}
    BY <2>1 DEF Current, Marks
  <2>3. \A u \in Threads \ {t} : items[u].context = NoContext
    BY <2>1 DEF Current, Owner
  <2>4. CASE t \in failed
    BY <2>2, <2>3, <2>4
  <2>5. CASE t \notin failed
    BY <2>1, <2>2, <2>3, <2>5
  <2> QED BY <2>4, <2>5
<1> QED BY <1>1, <1>2

LEMMA CurrentDraws == IInv /\ Current => DrawsInCurrent
  BY DEF DrawsInCurrent, DrawIn, IInv, Transports, Current, Drawn

LEMMA CurrentWhole == Current => WholeBeyondDefault
<1> SUFFICES ASSUME Current PROVE WholeBeyondDefault
  OBVIOUS
<1>1. \A t \in Threads : sending[t] \notin {NoContext, DEFAULT_CONTEXT} =>
        sending[t] = items[t].transport /\ items[t].context # NoContext
  BY DEF Current, Sends, Owner
<1> QED BY <1>1 DEF Current, Owner, Sends, WholeBeyondDefault

LEMMA CurrentInvariance == Spec => []Current
<1>1. Init => Current
  BY CurrentInit
<1>2. IInv /\ Current /\ [Next]_vars => Current'
  BY StepCurrent
<1> QED BY <1>1, <1>2, ContextsInvariance, PTL DEF Spec

\* Contexts, transports and what a thread is sending to stay within what exists.
THEOREM ContextsTyped == Spec => []TypeOK
<1> QED BY ContextsInvariance, CurrentInvariance, CurrentTypes, PTL

\* When no thread is in makeCurrent, the contexts marked current are the threads'
\* own, but for a thread whose last eglMakeCurrent has failed.
THEOREM MarksFollow == Spec => []MarkedIsCurrent
<1> QED BY CurrentInvariance, CurrentMarks, PTL

\* After eglMakeCurrent a thread's calls are served by the server's thread in
\* which its context is current, unless EGL has refused.
THEOREM CallsInCurrent == Spec => []DrawsInCurrent
<1> QED BY ContextsInvariance, CurrentInvariance, CurrentDraws, PTL

\* Transports of contexts the application has created never have two writers or
\* draws without their vertex header, however many threads there are.
THEOREM OwnContextsWhole == Spec => []WholeBeyondDefault
<1> QED BY CurrentInvariance, CurrentWhole, PTL

-----------------------------------------------------------------------------
(* Nobody waits for ever, which Initialised rests on.                      *)

\* The lock is held by a thread on its way to give it back; threads wait for
\* the server only when it answers.
Answered == {"eglMakeCurrent", "eglCreateContext"}
Waits ==
    /\ initProcessLock # Nobody =>
         initProcessLock \in Threads /\ pc[initProcessLock] \in Locked
    /\ \A t \in Threads : pc[t] = "receive" => call[t].fn \in Answered

\* The guards of a thread's steps.
GetsOn(t) ==
    \/ pc[t] \in Places \ {"idle", "lock", "receive"}
    \/ pc[t] = "lock" /\ initProcessLock = Nobody
    \/ pc[t] = "receive" /\ call[t].fn \in Answered

\* A thread in a call can take its next step, or waits for initProcessLock,
\* whose owner can.
NobodyStuck ==
    \A t \in Threads : pc[t] # "idle" =>
        \/ GetsOn(t)
        \/ \E u \in Threads \ {t} : pc[t] = "lock" /\ initProcessLock = u /\ GetsOn(u)

\* The steps that a call has still to take, at most.
Ahead ==
    [idle |-> 0, receive |-> 1, sendRest |-> 2, send |-> 3, mark |-> 4, setCurrent |-> 5,
     makeCurrent |-> 6, initThread |-> 7, unlock |-> 8, setDefault |-> 9,
     initEglGlesClient |-> 10, secondCheck |-> 11, lock |-> 12, initProcess |-> 13]

\* Each step is one thread's, and brings its call closer to the end or begins
\* one; nobody comes to the lock any more when the process is initialised.
CallsEnd ==
    /\ \E t \in Threads : /\ \A u \in Threads \ {t} : pc'[u] = pc[u]
                          /\ \/ pc[t] = "idle"
                             \/ Ahead[pc'[t]] < Ahead[pc[t]]
    /\ processInitiated =>
         processInitiated' /\ \A t \in Threads : pc'[t] = "lock" => pc[t] = "lock"

LEMMA AheadAt ==
  /\ Ahead["idle"] = 0 /\ Ahead["receive"] = 1 /\ Ahead["sendRest"] = 2 /\ Ahead["send"] = 3
  /\ Ahead["mark"] = 4 /\ Ahead["setCurrent"] = 5 /\ Ahead["makeCurrent"] = 6
  /\ Ahead["initThread"] = 7 /\ Ahead["unlock"] = 8 /\ Ahead["setDefault"] = 9
  /\ Ahead["initEglGlesClient"] = 10 /\ Ahead["secondCheck"] = 11 /\ Ahead["lock"] = 12
  /\ Ahead["initProcess"] = 13
  BY DEF Ahead

\* Where a step takes its thread.
LEMMA StepGoes ==
  ASSUME NEW t \in Threads, Step(t)
  PROVE  \E p \in Places :
           /\ pc' = [pc EXCEPT ![t] = p] /\ call' = call
           /\ Ahead[p] < Ahead[pc[t]]
           /\ p = "receive" => call[t].fn \in Answered
           /\ p = "lock" => ~processInitiated
           /\ processInitiated => processInitiated'
           /\ \/ p \in Locked /\ initProcessLock' \in {t, initProcessLock}
              \/ pc[t] \notin Locked /\ initProcessLock' = initProcessLock
              \/ initProcessLock' = Nobody
<1> USE AheadAt DEF Go, initVars, commandVars, Places, Locked, After
<1>1. CASE FirstCheck(t)
  <2>1. CASE processInitiated
    <3>1. /\ pc[t] = "initProcess" /\ pc' = [pc EXCEPT ![t] = "initThread"]
          /\ UNCHANGED <<call, processInitiated, initProcessLock>>
      BY Zenon, <1>1, <2>1 DEF FirstCheck
    <3> QED BY <3>1
  <2>2. CASE ~processInitiated
    <3>1. /\ pc[t] = "initProcess" /\ pc' = [pc EXCEPT ![t] = "lock"]
          /\ UNCHANGED <<call, processInitiated, initProcessLock>>
      BY Zenon, <1>1, <2>2 DEF FirstCheck
    <3> QED BY <2>2, <3>1
  <2> QED BY <2>1, <2>2
<1>2. CASE LockInit(t)
  BY <1>2 DEF LockInit
<1>3. CASE SecondCheck(t)
  <2>1. PICK p \in {"unlock", "initEglGlesClient"} :
          /\ pc[t] = "secondCheck" /\ pc' = [pc EXCEPT ![t] = p]
          /\ UNCHANGED <<call, processInitiated, initProcessLock>>
    BY Zenon, <1>3 DEF SecondCheck
  <2>2. /\ p \in Places /\ Ahead[p] < Ahead[pc[t]] /\ p # "lock" /\ p # "receive"
        /\ p \in Locked \/ pc[t] \notin Locked
    BY <2>1
  <2> QED BY Zenon, <2>1, <2>2
<1>4. CASE CreateDefault(t)
  BY <1>4 DEF CreateDefault
<1>5. CASE SetDefault(t)
  BY <1>5 DEF SetDefault
<1>6. CASE UnlockInit(t)
  BY <1>6 DEF UnlockInit
<1>7. CASE InitThread(t)
  <2>1. PICK p \in {"makeCurrent", "send"} :
          /\ pc[t] = "initThread" /\ pc' = [pc EXCEPT ![t] = p]
          /\ UNCHANGED <<call, processInitiated, initProcessLock>>
    BY Zenon, <1>7 DEF InitThread
  <2>2. /\ p \in Places /\ Ahead[p] < Ahead[pc[t]] /\ p # "lock" /\ p # "receive"
        /\ p \in Locked \/ pc[t] \notin Locked
    BY <2>1
  <2> QED BY Zenon, <2>1, <2>2
<1>8. CASE UnmarkOld(t)
  BY <1>8 DEF UnmarkOld
<1>9. CASE SetCurrent(t)
  BY <1>9 DEF SetCurrent
<1>10. CASE MarkNew(t)
  BY <1>10 DEF MarkNew
<1>11. CASE StartSending(t)
  BY <1>11 DEF StartSending
<1>12. CASE FinishSending(t)
  <2>1. PICK p \in {"receive", "idle"} :
          /\ pc[t] = "sendRest" /\ pc' = [pc EXCEPT ![t] = p]
          /\ p = "receive" => call[t].fn \in Answered
          /\ UNCHANGED <<call, processInitiated, initProcessLock>>
    BY Zenon, <1>12 DEF FinishSending, Answered
  <2>2. /\ p \in Places /\ Ahead[p] < Ahead[pc[t]] /\ p # "lock"
        /\ p \in Locked \/ pc[t] \notin Locked
    BY <2>1
  <2> QED BY Zenon, <2>1, <2>2
<1>13. CASE MadeCurrent(t) \/ Created(t)
  BY <1>13 DEF MadeCurrent, Created
<1> QED BY Zenon, <1>1, <1>2, <1>3, <1>4, <1>5, <1>6, <1>7, <1>8, <1>9, <1>10, <1>11, <1>12,
           <1>13 DEF Step

LEMMA InitWaits == Init => Waits
  BY DEF Init, Waits

LEMMA StepWaits == ASSUME IInv, Waits, [Next]_vars PROVE Waits'
<1>1. CASE UNCHANGED vars
  BY <1>1 DEF vars, Waits
<1>2. ASSUME NEW t \in Threads, NEW fn \in Fns, NEW c \in Handles, Call(t, fn, c) PROVE Waits'
  <2>1. /\ pc[t] = "idle" /\ pc' = [pc EXCEPT ![t] = "initProcess"]
        /\ call' = [call EXCEPT ![t] = [fn |-> fn, context |-> c]]
        /\ initProcessLock' = initProcessLock
    BY <1>2 DEF Call, Go, initVars
  <2> QED BY <2>1 DEF Waits, IInv, Types, Locked
<1>3. ASSUME NEW t \in Threads, Step(t) PROVE Waits'
  <2>1. PICK p \in Places :
           /\ pc' = [pc EXCEPT ![t] = p] /\ call' = call
           /\ p = "receive" => call[t].fn \in Answered
           /\ \/ p \in Locked /\ initProcessLock' \in {t, initProcessLock}
              \/ pc[t] \notin Locked /\ initProcessLock' = initProcessLock
              \/ initProcessLock' = Nobody
    BY Zenon, <1>3, StepGoes
  <2>2. pc'[t] = p /\ \A u \in Threads \ {t} : pc'[u] = pc[u]
    BY <2>1 DEF IInv, Types
  <2>3. initProcessLock' # Nobody
          => initProcessLock' \in Threads /\ pc'[initProcessLock'] \in Locked
    BY <2>1, <2>2 DEF Waits
  <2>4. \A u \in Threads : pc'[u] = "receive" => call'[u].fn \in Answered
    BY <2>1, <2>2 DEF Waits
  <2> QED BY <2>3, <2>4 DEF Waits
<1> QED BY Zenon, <1>1, <1>2, <1>3 DEF Next

LEMMA WaitsUnstuck == ASSUME IInv, Waits PROVE NobodyStuck
<1> SUFFICES ASSUME NEW t \in Threads, pc[t] # "idle", ~GetsOn(t)
             PROVE  \E u \in Threads \ {t} :
                      pc[t] = "lock" /\ initProcessLock = u /\ GetsOn(u)
  BY Zenon DEF NobodyStuck
<1>1. pc[t] = "lock" /\ initProcessLock # Nobody
  BY DEF GetsOn, Waits, IInv, Types
<1>2. initProcessLock \in Threads /\ pc[initProcessLock] \in Locked
  BY Zenon, <1>1 DEF Waits
<1>3. GetsOn(initProcessLock) /\ initProcessLock # t
  BY <1>1, <1>2 DEF GetsOn, Locked, Places
<1> QED BY <1>1, <1>2, <1>3

LEMMA StepEnds == ASSUME IInv, Next PROVE CallsEnd
<1>1. ASSUME NEW t \in Threads, NEW fn \in Fns, NEW c \in Handles, Call(t, fn, c) PROVE CallsEnd
  <2>1. pc[t] = "idle" /\ pc' = [pc EXCEPT ![t] = "initProcess"]
        /\ processInitiated' = processInitiated
    BY <1>1 DEF Call, Go, initVars
  <2> QED BY <2>1 DEF CallsEnd, IInv, Types
<1>2. ASSUME NEW t \in Threads, Step(t) PROVE CallsEnd
  <2>1. PICK p \in Places :
           /\ pc' = [pc EXCEPT ![t] = p] /\ Ahead[p] < Ahead[pc[t]]
           /\ p = "lock" => ~processInitiated
           /\ processInitiated => processInitiated'
    BY Zenon, <1>2, StepGoes
  <2>2. pc'[t] = p /\ \A u \in Threads \ {t} : pc'[u] = pc[u]
    BY <2>1 DEF IInv, Types
  <2> QED BY <2>1, <2>2 DEF CallsEnd
<1> QED BY Zenon, <1>1, <1>2 DEF Next

\* A thread in a call of the client can take its next step, or waits for
\* initProcessLock, whose owner can: no two threads wait for each other.
THEOREM ContextsDeadlockFree == Spec => []NobodyStuck
<1>1. IInv /\ Waits /\ [Next]_vars => Waits'
  BY StepWaits
<1>2. IInv /\ Waits => NobodyStuck
  BY WaitsUnstuck
<1> QED BY <1>1, <1>2, InitWaits, ContextsInvariance, PTL DEF Spec

\* Every step of a call is one of a bounded number, 13 at most, and once the
\* process is initialised no thread begins to wait for initProcessLock.
THEOREM ContextsCallsEnd == Spec => [][CallsEnd]_vars
<1>1. IInv /\ [Next]_vars => [CallsEnd]_vars
  BY StepEnds
<1> QED BY <1>1, ContextsInvariance, PTL DEF Spec

=============================================================================
