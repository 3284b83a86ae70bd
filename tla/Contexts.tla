------------------------------ MODULE Contexts ------------------------------
(***************************************************************************)
(* The threads of one client process and the contexts they draw in         *)
(* (client_egl_gles.c, client_state_tracker.c): who initialises the        *)
(* process, which transport a thread's calls take, and what is current in  *)
(* the server's thread at the other end.                                   *)
(*                                                                         *)
(* A context has a transport of its own, with a dispatch thread that       *)
(* serves nothing else (Janitor); both are named by the context here.      *)
(* Commands are EglGles'; of their bytes this module knows only that a     *)
(* command takes more than one write.  That malloc, the heap manager or    *)
(* the janitor fail is modelled where the code goes on after it: for the   *)
(* default context it exits.                                               *)
(***************************************************************************)
EXTENDS Integers, FiniteSets

CONSTANTS
    Threads,        \* of the process
    MaxContexts,    \* bound: contexts the application creates
    NoContextToo,   \* whether it also calls eglMakeCurrent(EGL_NO_CONTEXT)
    MayRefuse       \* whether EGL may refuse to make a context current

ASSUME ContextsAssumption ==
    /\ IsFiniteSet(Threads) /\ MaxContexts \in Nat
    /\ NoContextToo \in BOOLEAN /\ MayRefuse \in BOOLEAN
    /\ "nobody" \notin Threads

VARIABLES
    processInitiated, initProcessLock,
    defaults,                   \* how often the default context was created
    threadStateMapInitiated,
    items,                      \* each thread's thread state map
    contexts, marked,           \* context states, and those markedCurrent
    pc, call,                   \* the function each thread is in
    sending,                    \* threads that have sent part of a command
    torn,                       \* transports with part of a command missing
    glCurrent,                  \* EGL: the current context of server threads, and
    orphans,                    \* contexts that the client has no state of
    refused, failed             \* history: threads whose context EGL refused to make
                                \* current; that left one and got no other

vars == <<processInitiated, initProcessLock, defaults, threadStateMapInitiated,
          items, contexts, marked, pc, call, sending, torn, glCurrent, orphans,
          refused, failed>>
initVars == <<processInitiated, initProcessLock, defaults, threadStateMapInitiated>>
history == <<refused, failed>>
commandVars == <<sending, torn, glCurrent, orphans, history>>

NoContext == 0
DEFAULT_CONTEXT == 1
Handles == {NoContext} \cup 1..(MaxContexts + 1)
Nobody == "nobody"

NoItems == [context |-> NoContext, transport |-> NoContext, attribs |-> FALSE]
NoCall  == [fn |-> "none", context |-> NoContext]

Fns == {"eglCreateContext", "eglMakeCurrent", "glDraw", "other"}

Go(t, p) == pc' = [pc EXCEPT ![t] = p]
-----------------------------------------------------------------------------
Init ==
    /\ processInitiated = FALSE /\ initProcessLock = Nobody /\ defaults = 0
    /\ threadStateMapInitiated = FALSE
    /\ items = [t \in Threads |-> NoItems]
    /\ contexts = {} /\ marked = {}
    /\ pc = [t \in Threads |-> "idle"]
    /\ call = [t \in Threads |-> NoCall]
    /\ sending = [t \in Threads |-> NoContext]
    /\ torn = {}
    /\ glCurrent = [c \in Handles \ {NoContext} |-> NoContext]
    /\ orphans = {} /\ refused = {} /\ failed = {}

\* The application calls a function, with a context eglCreateContext returned.
Call(t, fn, c) ==
    /\ pc[t] = "idle"
    /\ fn \in Fns
    /\ IF fn = "eglMakeCurrent"
       THEN c \in contexts \ {DEFAULT_CONTEXT} \/ (NoContextToo /\ c = NoContext)
       ELSE c = NoContext
    /\ call' = [call EXCEPT ![t] = [fn |-> fn, context |-> c]]
    /\ Go(t, "initProcess")
    /\ UNCHANGED <<initVars, items, contexts, marked, commandVars>>

(* initProcessIfNotDoneAlready.  The first test is not under the lock; on   *)
(* the targets of this code stores are not reordered, and initEglGlesClient *)
(* calls functions the compiler does not see into.                          *)

FirstCheck(t) ==
    /\ pc[t] = "initProcess"
    /\ Go(t, IF processInitiated THEN "initThread" ELSE "lock")
    /\ UNCHANGED <<initVars, items, contexts, marked, call, commandVars>>

LockInit(t) ==
    /\ pc[t] = "lock" /\ initProcessLock = Nobody
    /\ initProcessLock' = t
    /\ Go(t, "secondCheck")
    /\ UNCHANGED <<processInitiated, defaults, threadStateMapInitiated, items,
                   contexts, marked, call, commandVars>>

\* Mutant: takes the first test for the second.
NoSecondCheck(t) ==
    /\ pc[t] = "secondCheck"
    /\ Go(t, "initEglGlesClient")
    /\ UNCHANGED <<initVars, items, contexts, marked, call, commandVars>>

SecondCheck(t) ==
    /\ pc[t] = "secondCheck"
    /\ Go(t, IF processInitiated THEN "unlock" ELSE "initEglGlesClient")
    /\ UNCHANGED <<initVars, items, contexts, marked, call, commandVars>>

\* createContext of the default context
CreateDefault(t) ==
    /\ pc[t] = "initEglGlesClient"
    /\ defaults' = defaults + 1
    /\ contexts' = contexts \cup {DEFAULT_CONTEXT}
    /\ Go(t, "setDefault")
    /\ UNCHANGED <<processInitiated, initProcessLock, threadStateMapInitiated, items,
                   marked, call, commandVars>>

\* Mutant: the thread state map starts without vertex attributes.
NoVertexAttribs(t) ==
    /\ pc[t] = "setDefault"
    /\ items' = [items EXCEPT ![t].context = DEFAULT_CONTEXT]
    /\ threadStateMapInitiated' = TRUE
    /\ marked' = marked \cup {DEFAULT_CONTEXT}
    /\ processInitiated' = TRUE
    /\ Go(t, "unlock")
    /\ UNCHANGED <<initProcessLock, defaults, contexts, call, commandVars>>

\* gvSetCurrentThreadDisplay and -Context.  The thread that sets up the thread
\* state map also gets items for its vertex arrays.
SetDefault(t) ==
    /\ pc[t] = "setDefault"
    /\ items' = [items EXCEPT ![t].context = DEFAULT_CONTEXT,
                              ![t].attribs = @ \/ ~threadStateMapInitiated]
    /\ threadStateMapInitiated' = TRUE
    /\ marked' = marked \cup {DEFAULT_CONTEXT}
    /\ processInitiated' = TRUE
    /\ Go(t, "unlock")
    /\ UNCHANGED <<initProcessLock, defaults, contexts, call, commandVars>>

\* Mutant: leaves the lock locked.
KeepLock(t) ==
    /\ pc[t] = "unlock"
    /\ Go(t, "initThread")
    /\ UNCHANGED <<initVars, items, contexts, marked, call, commandVars>>

UnlockInit(t) ==
    /\ pc[t] = "unlock"
    /\ initProcessLock' = Nobody
    /\ Go(t, "initThread")
    /\ UNCHANGED <<processInitiated, defaults, threadStateMapInitiated, items,
                   contexts, marked, call, commandVars>>

\* Mutant: keeps no transport for the thread.
NoTransport(t) ==
    /\ pc[t] = "initThread"
    /\ Go(t, IF call[t].fn = "eglMakeCurrent" THEN "makeCurrent" ELSE "send")
    /\ UNCHANGED <<initVars, items, contexts, marked, call, commandVars>>

\* initThreadIfNotDoneAlready: the default context's transport, but neither
\* its display nor the context.
InitThread(t) ==
    /\ pc[t] = "initThread"
    /\ items' = IF items[t].transport = NoContext
                THEN [items EXCEPT ![t].transport = DEFAULT_CONTEXT] ELSE items
    /\ Go(t, IF call[t].fn = "eglMakeCurrent" THEN "makeCurrent" ELSE "send")
    /\ UNCHANGED <<initVars, contexts, marked, call, commandVars>>

-----------------------------------------------------------------------------
(* makeCurrent, before the command is sent.                                *)

\* Mutant: the old context stays marked.
KeepMark(t) ==
    /\ pc[t] = "makeCurrent"
    /\ IF items[t].context = NoContext
       THEN Go(t, "idle") /\ UNCHANGED marked
       ELSE Go(t, "setCurrent") /\ UNCHANGED marked
    /\ UNCHANGED <<initVars, items, contexts, call, commandVars>>

\* A thread without a current display and context gets EGL_FALSE.
UnmarkOld(t) ==
    /\ pc[t] = "makeCurrent"
    /\ IF items[t].context = NoContext
       THEN Go(t, "idle") /\ UNCHANGED marked
       ELSE Go(t, "setCurrent") /\ marked' = marked \ {items[t].context}
    /\ UNCHANGED <<initVars, items, contexts, call, commandVars>>

\* Mutant: the calls go on over the old transport.
SetContextOnly(t) ==
    /\ pc[t] = "setCurrent"
    /\ IF call[t].context \in contexts
       THEN /\ items' = [items EXCEPT ![t].context = call[t].context]
            /\ failed' = failed \ {t}
            /\ Go(t, "mark")
       ELSE Go(t, "idle") /\ failed' = failed \cup {t} /\ UNCHANGED items
    /\ UNCHANGED <<initVars, contexts, marked, call, sending, torn, glCurrent, orphans,
                   refused>>

\* A context without a state, EGL_NO_CONTEXT for one, is EGL_FALSE too.
SetCurrent(t) ==
    /\ pc[t] = "setCurrent"
    /\ IF call[t].context \in contexts
       THEN /\ items' = [items EXCEPT ![t].context = call[t].context,
                                      ![t].transport = call[t].context]
            /\ failed' = failed \ {t}
            /\ Go(t, "mark")
       ELSE Go(t, "idle") /\ failed' = failed \cup {t} /\ UNCHANGED items
    /\ UNCHANGED <<initVars, contexts, marked, call, sending, torn, glCurrent, orphans,
                   refused>>

MarkNew(t) ==
    /\ pc[t] = "mark"
    /\ marked' = marked \cup {call[t].context}
    /\ Go(t, "send")
    /\ UNCHANGED <<initVars, items, contexts, call, commandVars>>

-----------------------------------------------------------------------------
(* The command, over the thread's transport; no lock is taken for it.      *)

StartSending(t) ==
    /\ pc[t] = "send"
    /\ sending' = [sending EXCEPT ![t] = items[t].transport]
    /\ Go(t, "sendRest")
    /\ UNCHANGED <<initVars, items, contexts, marked, call, torn, glCurrent, orphans,
                   history>>

\* The rest.  A thread without vertex array items leaves out the vertex header
\* of a draw, which the server reads all the same.
FinishSending(t) ==
    /\ pc[t] = "sendRest"
    /\ sending' = [sending EXCEPT ![t] = NoContext]
    /\ torn' = IF call[t].fn = "glDraw" /\ ~items[t].attribs
               THEN torn \cup {items[t].transport} ELSE torn
    /\ Go(t, IF call[t].fn \in {"eglMakeCurrent", "eglCreateContext"}
             THEN "receive" ELSE "idle")
    /\ UNCHANGED <<initVars, items, contexts, marked, call, glCurrent, orphans, history>>

\* Mutant: eglMakeCurrent in the thread of the default context.
InDefaultThread(transport, c) ==
    glCurrent' = [glCurrent EXCEPT ![DEFAULT_CONTEXT] = c]

\* eglMakeCurrent in the dispatch thread of that transport.
MakesCurrent(transport, c) == glCurrent' = [glCurrent EXCEPT ![transport] = c]

\* _eglMakeCurrent in the thread of that transport.  It may be refused; the
\* client looks at the status and returns EGL_TRUE.
MadeCurrent(t) ==
    /\ pc[t] = "receive" /\ call[t].fn = "eglMakeCurrent"
    /\ \/ /\ MakesCurrent(items[t].transport, call[t].context)
          /\ refused' = refused \ {t}
       \/ /\ MayRefuse /\ UNCHANGED glCurrent
          /\ refused' = refused \cup {t}
    /\ Go(t, "idle")
    /\ UNCHANGED <<initVars, items, contexts, marked, call, sending, torn, orphans, failed>>

\* _eglCreateContext; the client then creates a transport and a state for the
\* context.  If that fails it returns NULL, and EGL keeps the context.
Created(t) ==
    /\ pc[t] = "receive" /\ call[t].fn = "eglCreateContext"
    /\ \/ /\ Cardinality(contexts \cup orphans) <= MaxContexts
          /\ LET context == Cardinality(contexts \cup orphans) + 1
             IN  \/ contexts' = contexts \cup {context} /\ UNCHANGED orphans
                 \/ orphans' = orphans \cup {context} /\ UNCHANGED contexts
       \/ UNCHANGED <<contexts, orphans>>    \* EGL returned none
    /\ Go(t, "idle")
    /\ UNCHANGED <<initVars, items, marked, call, sending, torn, glCurrent, history>>

-----------------------------------------------------------------------------
Step(t) ==
    \/ FirstCheck(t) \/ LockInit(t) \/ SecondCheck(t) \/ CreateDefault(t)
    \/ SetDefault(t) \/ UnlockInit(t) \/ InitThread(t)
    \/ UnmarkOld(t) \/ SetCurrent(t) \/ MarkNew(t)
    \/ StartSending(t) \/ FinishSending(t) \/ MadeCurrent(t) \/ Created(t)
Next == \E t \in Threads :
    Step(t) \/ \E fn \in Fns, c \in Handles : Call(t, fn, c)
Spec == Init /\ [][Next]_vars

\* Every thread that can run does in the end.  (A lock that is taken a bounded
\* number of times needs no more.)
FairSpec == Spec /\ \A t \in Threads : WF_vars(Step(t))
-----------------------------------------------------------------------------
(* Properties.                                                             *)

TypeOK ==
    /\ items \in [Threads -> [context : Handles, transport : Handles, attribs : BOOLEAN]]
    /\ contexts \subseteq Handles \ {NoContext} /\ orphans \subseteq Handles \ {NoContext}
    /\ initProcessLock \in Threads \cup {Nobody}
    /\ \A t \in Threads : /\ sending[t] \in contexts \cup {NoContext}
                          /\ pc[t] = "send" => items[t].transport \in contexts

\* However many threads make their first call at once, one default context is
\* created, and with it one region and one thread of the server.
InitOnce == defaults <= 1

\* A thread's calls take the transport of its current context.
ThreadTransport ==
    \A t \in Threads : pc[t] = "idle" /\ items[t].context # NoContext
        => items[t].transport = items[t].context

MarkedAreOf(threads) ==
    (\A t \in Threads : pc[t] \in {"idle", "send", "sendRest", "receive"}) =>
        marked = {items[t].context : t \in threads} \ {NoContext}

\* When no thread is changing its context, those marked current are just the
\* current ones, but for a thread whose last eglMakeCurrent has failed.
MarkedIsCurrent == MarkedAreOf(Threads \ failed)

\* An eglMakeCurrent that returns EGL_FALSE changes nothing either.
MarkedDespiteFailure == MarkedAreOf(Threads)

DrawIn(threads) ==
    \A t \in threads :
        pc[t] \in {"idle", "send", "sendRest"} /\ call[t].fn # "eglMakeCurrent"
        /\ items[t].context \notin {NoContext, DEFAULT_CONTEXT}
            => glCurrent[items[t].transport] = items[t].context

\* What a thread draws after eglMakeCurrent is drawn in that context: it is
\* current in the server's thread that the calls go to, unless EGL refused.
DrawsInCurrent == DrawIn(Threads \ refused)

\* The client does not take a context for current that EGL has refused.
DrawsWhenRefused == DrawIn(Threads)

\* In a context that the application created, commands are whole on the wire:
\* no other thread sends there, and draws have their vertex header.
WholeBeyondDefault ==
    /\ torn \subseteq {DEFAULT_CONTEXT}
    /\ \A t, u \in Threads : t # u /\ sending[t] \notin {NoContext, DEFAULT_CONTEXT}
                               => sending[u] # sending[t]

\* In all contexts commands are whole on the wire: no thread's words come between another's,
\* and no command lacks some.
WholeCommands ==
    /\ torn = {}
    /\ \A t, u \in Threads : t # u /\ sending[t] # NoContext => sending[u] # sending[t]

\* A thread gets past the initialisation of the process, whoever does it.
Initialised ==
    \A t \in Threads : pc[t] = "initProcess" ~> pc[t] \in {"send", "makeCurrent"}
=============================================================================
