------------------------------- MODULE Janitor -------------------------------
(***************************************************************************)
(* The life of a context's transport: the janitor process of               *)
(* server_janitor.c, its dispatch threads, and client processes that       *)
(* create contexts (createContext in client_egl_gles.c) and release them   *)
(* again through janitor.h and heap_manager.h.                             *)
(*                                                                         *)
(* A transport is created at both ends by gvCreateShmStreamTransport, over *)
(* a region of shared memory that starts with a header.  One region, the   *)
(* service's, carries the requests to the janitor; the others come from    *)
(* the heap manager (HeapManager), here a set of free regions.  Messages   *)
(* of the service are whole: HeapManager has the locks that keep them so.  *)
(* A client's work in its context is commands without a result, of which   *)
(* the ring keeps one until a thread makes it, and one call with a result. *)
(*                                                                         *)
(* No client of this repository releases a context: eglDestroyContext is a *)
(* stub, and nothing calls gvAuRevoir and gvFree.  That a client says      *)
(* gvAuRevoir and frees its region when that has returned is assumed: the  *)
(* order in which an offset is "used only once at a time", as              *)
(* server_state_tracker.c has it.                                          *)
(***************************************************************************)
EXTENDS Integers, Sequences, FiniteSets

CONSTANTS
    Clients,        \* client processes, of one thread and one context each
    Regions,        \* regions of the heap the size of a transport
    ServiceFirst,   \* whether clients start after the janitor has its transport
    Releases,       \* whether clients release their contexts
    Faults,         \* what may fail: "transport", "dispatch", "put", "stop"
    MaxThreads      \* bound: dispatch threads the janitor starts

ASSUME JanitorAssumption ==
    /\ IsFiniteSet(Clients) /\ IsFiniteSet(Regions) /\ MaxThreads \in Nat
    /\ ServiceFirst \in BOOLEAN /\ Releases \in BOOLEAN
    /\ Faults \subseteq {"transport", "dispatch", "put", "stop"}
    /\ "service" \notin Regions /\ {"janitor", "nobody"} \cap Clients = {}

VARIABLES
    header,         \* what is in the header of an area
    making,         \* where a process is in gvCreateShmStreamTransport
    cpc, region,    \* clients, and the regions they have allocated
    lost,           \* regions that stay allocated: createContext failed
    requests,       \* to the janitor, in order
    jpc, request,   \* the janitor's dispatch thread
    states,         \* server_state_tracker: offset states
    trackerLocked,  \* whether a failed gvPutOffsetState kept its lock
    threads,        \* dispatch threads of contexts
    glCall,         \* in each region, the client's call with a result
    posted,         \* ... and whose command without one, "nobody"'s if none
    crashed         \* whether the janitor's process is gone

Areas == Regions \cup {"service"}
Procs == Clients \cup {"janitor"}

tracker == <<states, trackerLocked>>
janitorVars == <<jpc, request, tracker>>
vars == <<header, making, cpc, region, lost, requests, janitorVars, threads, glCall,
          posted, crashed>>

NotMaking == [area |-> "service", step |-> "done"]
Making(a) == [area |-> a, step |-> "check"]
Request(c, k, a) == [from |-> c, kind |-> k, area |-> a, thread |-> 0]
NoRequest == Request("nobody", "none", "service")

\* What gvCreateShmStreamTransport has set up: STATE_INITIALIZED, the two
\* rings, the locks and conditions.  held: a dead thread left notEmptyAccess
\* of the call channel locked.
Untouched == [initialized |-> FALSE, rings |-> FALSE, sync |-> FALSE, held |-> FALSE]

\* Clients ask for the janitor's service when their own transport exists.
Attached(p, a) ==
    IF p = "janitor"
    THEN \/ a = "service" /\ jpc # "starting"
         \/ \E t \in DOMAIN threads : threads[t].area = a /\ threads[t].mapped
    ELSE \/ a = "service" /\ cpc[p] \notin {"off", "starting"}
         \/ a = region[p] /\ cpc[p] \in {"current", "posting", "calling", "aurevoir"}

-----------------------------------------------------------------------------
Init ==
    /\ header = [a \in Areas |-> Untouched]
    /\ making = [p \in Procs |->
                   IF p = "janitor" THEN Making("service") ELSE NotMaking]
    /\ cpc = [c \in Clients |-> "off"]
    /\ region = [c \in Clients |-> "service"] /\ lost = {}
    /\ requests = <<>>
    /\ jpc = "starting" /\ request = NoRequest /\ states = {} /\ trackerLocked = FALSE
    /\ threads = <<>>
    /\ glCall = [a \in Regions |-> "none"] /\ posted = [a \in Regions |-> "nobody"]
    /\ crashed = FALSE

(* gvCreateShmStreamTransport.  Nothing orders its steps with those of     *)
(* another process that creates a transport over the same area.            *)

Runs(p) == p = "janitor" => ~crashed

CheckState(p) ==
    /\ making[p].step = "check" /\ Runs(p)
    /\ making' = [making EXCEPT ![p].step =
                    IF header[making[p].area].initialized THEN "done" ELSE "state"]
    /\ UNCHANGED <<header, cpc, region, lost, requests, janitorVars, threads,
                   glCall, posted, crashed>>

SetState(p) ==
    /\ making[p].step = "state" /\ Runs(p)
    /\ header' = [header EXCEPT ![making[p].area].initialized = TRUE]
    /\ making' = [making EXCEPT ![p].step = "rings"]
    /\ UNCHANGED <<cpc, region, lost, requests, janitorVars, threads, glCall, posted,
                   crashed>>

\* Both rings are empty afterwards, whatever another process has written.
InitChanels(p) ==
    /\ making[p].step = "rings" /\ Runs(p)
    /\ header' = [header EXCEPT ![making[p].area].rings = TRUE]
    /\ making' = [making EXCEPT ![p].step = "sync"]
    /\ requests' = IF making[p].area = "service" THEN <<>> ELSE requests
    /\ glCall' = [a \in Regions |-> IF a = making[p].area THEN "none" ELSE glCall[a]]
    /\ posted' = [a \in Regions |-> IF a = making[p].area THEN "nobody" ELSE posted[a]]
    /\ UNCHANGED <<cpc, region, lost, janitorVars, threads, crashed>>

InitSyncPrimitives(p) ==
    /\ making[p].step = "sync" /\ Runs(p)
    /\ header' = [header EXCEPT ![making[p].area].sync = TRUE,
                                ![making[p].area].held = FALSE]
    /\ making' = [making EXCEPT ![p].step = "done"]
    /\ UNCHANGED <<cpc, region, lost, requests, janitorVars, threads, glCall, posted,
                   crashed>>

CreateTransport(p) ==
    CheckState(p) \/ SetState(p) \/ InitChanels(p) \/ InitSyncPrimitives(p)

-----------------------------------------------------------------------------
(* A client.                                                               *)

\* initJanitorClient
Start(c) ==
    /\ cpc[c] = "off"
    /\ ServiceFirst => jpc # "starting"
    /\ cpc' = [cpc EXCEPT ![c] = "starting"]
    /\ making' = [making EXCEPT ![c] = Making("service")]
    /\ UNCHANGED <<header, region, lost, requests, janitorVars, threads, glCall, posted,
                   crashed>>

Started(c) ==
    /\ cpc[c] = "starting" /\ making[c].step = "done"
    /\ cpc' = [cpc EXCEPT ![c] = "ready"]
    /\ UNCHANGED <<header, making, region, lost, requests, janitorVars, threads,
                   glCall, posted, crashed>>

MayAsk == Len(threads) + Cardinality({d \in Clients : cpc[d] = "bonjour"}) < MaxThreads

\* createContext: gvAlloc, then the request of gvBonjour.
CreateContext(c) ==
    /\ cpc[c] = "ready" /\ MayAsk
    /\ \E a \in Regions \ (lost \cup {region[d] : d \in Clients}) :
         /\ region' = [region EXCEPT ![c] = a]
         /\ requests' = Append(requests, Request(c, "bonjour", a))
    /\ cpc' = [cpc EXCEPT ![c] = "bonjour"]
    /\ UNCHANGED <<header, making, lost, janitorVars, threads, glCall, posted, crashed>>

\* createContext, once it has the answer of gvBonjour.
Attach(c) ==
    /\ cpc[c] = "welcome"
    /\ cpc' = [cpc EXCEPT ![c] = "attaching"]
    /\ making' = [making EXCEPT ![c] = Making(region[c])]
    /\ UNCHANGED <<header, region, lost, requests, janitorVars, threads, glCall, posted,
                   crashed>>

ContextCreated(c) ==
    /\ cpc[c] = "attaching" /\ making[c].step = "done"
    /\ cpc' = [cpc EXCEPT ![c] = "current"]
    /\ UNCHANGED <<header, making, region, lost, requests, janitorVars, threads,
                   glCall, posted, crashed>>

\* writeFunc, of a function without a result: its bytes are in the ring, and
\* are there to stay, when it takes notEmptyAccess to notify the reader ...
PostGl(c) ==
    /\ cpc[c] = "current" /\ posted[region[c]] = "nobody"
    /\ posted' = [posted EXCEPT ![region[c]] = c]
    /\ cpc' = [cpc EXCEPT ![c] = "posting"]
    /\ UNCHANGED <<header, making, region, lost, requests, janitorVars, threads,
                   glCall, crashed>>

\* ... which it never does if a dead thread has it.
GlPosted(c) ==
    /\ cpc[c] = "posting" /\ ~header[region[c]].held
    /\ cpc' = [cpc EXCEPT ![c] = "current"]
    /\ UNCHANGED <<header, making, region, lost, requests, janitorVars, threads,
                   glCall, posted, crashed>>

\* A function with a result writes in the same way, and waits.
CallGl(c) ==
    /\ cpc[c] = "current"
    /\ glCall' = [glCall EXCEPT ![region[c]] = "made"]
    /\ cpc' = [cpc EXCEPT ![c] = "calling"]
    /\ UNCHANGED <<header, making, region, lost, requests, janitorVars, threads,
                   posted, crashed>>

CallReturned(c) ==
    /\ cpc[c] = "calling" /\ glCall[region[c]] = "answered"
    /\ glCall' = [glCall EXCEPT ![region[c]] = "none"]
    /\ cpc' = [cpc EXCEPT ![c] = "current"]
    /\ UNCHANGED <<header, making, region, lost, requests, janitorVars, threads,
                   posted, crashed>>

AuRevoir(c) ==
    /\ Releases /\ cpc[c] = "current"
    /\ requests' = Append(requests, Request(c, "aurevoir", region[c]))
    /\ cpc' = [cpc EXCEPT ![c] = "aurevoir"]
    /\ UNCHANGED <<header, making, region, lost, janitorVars, threads, glCall, posted,
                   crashed>>

\* gvFree.  What is in the region stays there.
Free(c) ==
    /\ cpc[c] = "gone"
    /\ region' = [region EXCEPT ![c] = "service"]
    /\ cpc' = [cpc EXCEPT ![c] = "ready"]
    /\ UNCHANGED <<header, making, lost, requests, janitorVars, threads, glCall, posted,
                   crashed>>

-----------------------------------------------------------------------------
(* The janitor: its dispatch thread serves one request at a time.          *)

\* gvStartJanitor, once its transport is there.
Serving ==
    /\ ~crashed /\ jpc = "starting" /\ making["janitor"].step = "done"
    /\ jpc' = "serving"
    /\ UNCHANGED <<header, making, cpc, region, lost, requests, request, tracker,
                   threads, glCall, posted, crashed>>

ReceiveRequest ==
    /\ ~crashed /\ jpc = "serving" /\ requests # <<>>
    /\ request' = Head(requests)
    /\ requests' = Tail(requests)
    /\ jpc' = request'.kind
    /\ making' = IF request'.kind = "bonjour"
                 THEN [making EXCEPT !["janitor"] = Making(request'.area)] ELSE making
    /\ UNCHANGED <<header, cpc, region, lost, tracker, threads, glCall, posted, crashed>>

\* Mutant: does not wait for the transport to be initialised.
DispatchAtOnce ==
    /\ ~crashed /\ jpc = "bonjour"
    /\ threads' = Append(threads, [area |-> request.area, mapped |-> TRUE,
                                   cancelled |-> FALSE, dead |-> FALSE])
    /\ jpc' = "dispatched"
    /\ UNCHANGED <<header, making, cpc, region, lost, requests, request, tracker,
                   glCall, posted, crashed>>

\* gvBonjour: gvDispatchLoop ...
DispatchLoop ==
    /\ ~crashed /\ jpc = "bonjour" /\ making["janitor"].step = "done"
    /\ threads' = Append(threads, [area |-> request.area, mapped |-> TRUE,
                                   cancelled |-> FALSE, dead |-> FALSE])
    /\ jpc' = "dispatched"
    /\ UNCHANGED <<header, making, cpc, region, lost, requests, request, tracker,
                   glCall, posted, crashed>>

Answer(kind) ==
    cpc' = [cpc EXCEPT ![request.from] = IF @ = kind[1] THEN kind[2] ELSE @]

\* Mutant: createContext frees its region when it fails.
GiveUpAndFree(c) ==
    /\ cpc' = [cpc EXCEPT ![c] = "ready"]
    /\ region' = [region EXCEPT ![c] = "service"]
    /\ UNCHANGED lost

\* createContext fails after gvAlloc: it returns, and forgets its region.
GiveUp(c) ==
    /\ cpc' = [cpc EXCEPT ![c] = "ready"]
    /\ region' = [region EXCEPT ![c] = "service"]
    /\ lost' = lost \cup {region[c]}

\* The janitor's gvBonjour answers -1 and leaves what it has done: a transport,
\* and a thread that serves it.  gvPutOffsetState leaves with its lock, and
\* finds itself the owner (EDEADLK) from then on.
BonjourFails ==
    /\ ~crashed
    /\ \/ /\ "transport" \in Faults /\ jpc = "bonjour" /\ making["janitor"].step = "check"
          /\ UNCHANGED trackerLocked
       \/ /\ "dispatch" \in Faults /\ jpc = "bonjour" /\ making["janitor"].step = "done"
          /\ UNCHANGED trackerLocked
       \/ /\ "put" \in Faults \/ trackerLocked
          /\ jpc = "dispatched"
          /\ trackerLocked' = TRUE
    /\ making' = [making EXCEPT !["janitor"] = NotMaking]
    /\ jpc' = "serving"
    /\ GiveUp(request.from)
    /\ UNCHANGED <<header, requests, request, states, threads, glCall, posted, crashed>>

\* The rest of createContext fails, with a janitor that serves the region.
AttachFails(c) ==
    /\ cpc[c] = "attaching"
    /\ \/ "transport" \in Faults /\ making[c].step = "check"
       \/ "put" \in Faults /\ making[c].step = "done"
    /\ making' = [making EXCEPT ![c] = NotMaking]
    /\ GiveUp(c)
    /\ UNCHANGED <<header, requests, janitorVars, threads, glCall, posted, crashed>>

\* Mutant: enters the thread to come.
PutNextThread ==
    /\ ~crashed /\ jpc = "dispatched" /\ ~trackerLocked
    /\ states' = states \cup {[offset |-> request.area, thread |-> Len(threads) + 1]}
    /\ jpc' = "serving"
    /\ Answer(<<"bonjour", "welcome">>)
    /\ UNCHANGED <<header, making, region, lost, requests, request, trackerLocked,
                   threads, glCall, posted, crashed>>

\* Mutant: returns without an answer.
PutSilently ==
    /\ ~crashed /\ jpc = "dispatched" /\ ~trackerLocked
    /\ states' = states \cup {[offset |-> request.area, thread |-> Len(threads)]}
    /\ jpc' = "serving"
    /\ UNCHANGED <<header, making, cpc, region, lost, requests, request,
                   trackerLocked, threads, glCall, posted, crashed>>

\* ... and gvPutOffsetState, then the answer.
PutOffsetState ==
    /\ ~crashed /\ jpc = "dispatched" /\ ~trackerLocked
    /\ states' = states \cup {[offset |-> request.area, thread |-> Len(threads)]}
    /\ jpc' = "serving"
    /\ Answer(<<"bonjour", "welcome">>)
    /\ UNCHANGED <<header, making, region, lost, requests, request, trackerLocked,
                   threads, glCall, posted, crashed>>

StatesOf(a) == {s \in states : s.offset = a}

\* Mutant: leaves the state in the map.
KeepState ==
    /\ ~crashed /\ jpc = "aurevoir" /\ ~trackerLocked
    /\ \E s \in StatesOf(request.area) :
         /\ request' = [request EXCEPT !.thread = s.thread]
         /\ threads' = [threads EXCEPT ![s.thread].cancelled = TRUE]
    /\ jpc' = "cancelled"
    /\ UNCHANGED <<header, making, cpc, region, lost, requests, tracker, glCall, posted,
                   crashed>>

\* Mutant: forgets the thread, and lets it go on.
DelStateOnly ==
    /\ ~crashed /\ jpc = "aurevoir" /\ ~trackerLocked
    /\ \E s \in StatesOf(request.area) :
         /\ states' = states \ {s}
         /\ request' = [request EXCEPT !.thread = s.thread]
    /\ jpc' = "cancelled"
    /\ UNCHANGED <<header, making, cpc, region, lost, requests, trackerLocked, threads,
                   glCall, posted, crashed>>

\* gvAuRevoir: gvGetOffsetState, gvDelOffsetState, pthread_cancel ...  (Clients
\* release what they have created, so there is a state.)
DelOffsetState ==
    /\ ~crashed /\ jpc = "aurevoir" /\ ~trackerLocked
    /\ \E s \in StatesOf(request.area) :
         /\ states' = states \ {s}
         /\ request' = [request EXCEPT !.thread = s.thread]
         /\ threads' = [threads EXCEPT ![s.thread].cancelled = TRUE]
    /\ jpc' = "cancelled"
    /\ UNCHANGED <<header, making, cpc, region, lost, requests, trackerLocked,
                   glCall, posted, crashed>>

\* ... and gvDestroyShmStreamTransport, without waiting for the thread.
DestroyTransport ==
    /\ ~crashed /\ jpc = "cancelled"
    /\ threads' = [threads EXCEPT ![request.thread].mapped = FALSE]
    /\ jpc' = "serving"
    /\ Answer(<<"aurevoir", "gone">>)
    /\ UNCHANGED <<header, making, region, lost, requests, request, tracker, glCall, posted,
                   crashed>>

\* gvGetOffsetState fails on the lock, before anything is undone.
AuRevoirFails ==
    /\ ~crashed /\ jpc = "aurevoir" /\ trackerLocked
    /\ jpc' = "serving"
    /\ Answer(<<"aurevoir", "current">>)
    /\ UNCHANGED <<header, making, region, lost, requests, request, tracker,
                   threads, glCall, posted, crashed>>

\* gvStopJanitor: the handler of SIGTERM exits, whatever the threads are at.
Stop ==
    /\ "stop" \in Faults /\ ~crashed
    /\ crashed' = TRUE
    /\ UNCHANGED <<header, making, cpc, region, lost, requests, janitorVars,
                   threads, glCall, posted>>

(* A dispatch thread takes notEmptyAccess, waits with it for commands in   *)
(* pthread_cond_wait, and makes them in the order in which they were sent. *)

\* One that is cancelled may still make what it finds: it ends where it waits.
MakePost(t) ==
    /\ ~crashed /\ ~threads[t].dead /\ (threads[t].cancelled => threads[t].mapped)
    /\ LET a == threads[t].area
       IN  /\ ~header[a].held /\ posted[a] # "nobody"
           /\ posted' = [posted EXCEPT ![a] = "nobody"]
    /\ UNCHANGED <<header, making, cpc, region, lost, requests, janitorVars,
                   threads, glCall, crashed>>

MakeCall(t) ==
    /\ ~crashed /\ ~threads[t].dead /\ ~threads[t].cancelled
    /\ LET a == threads[t].area
       IN  /\ ~header[a].held /\ posted[a] = "nobody" /\ glCall[a] = "made"
           /\ glCall' = [glCall EXCEPT ![a] = "answered"]
    /\ UNCHANGED <<header, making, cpc, region, lost, requests, janitorVars,
                   threads, posted, crashed>>

\* A cancelled thread has its mutex again when it ends, and no handler that
\* gives it back; both are in its region, which may be unmapped by now.
\* (That another region is mapped in its place is left out.)
Cancelled(t) ==
    /\ ~crashed /\ threads[t].cancelled /\ ~threads[t].dead
    /\ IF threads[t].mapped
       THEN /\ threads' = [threads EXCEPT ![t].dead = TRUE]
            /\ header' = [header EXCEPT ![threads[t].area].held = TRUE]
            /\ UNCHANGED crashed
       ELSE /\ crashed' = TRUE
            /\ UNCHANGED <<threads, header>>
    /\ UNCHANGED <<making, cpc, region, lost, requests, janitorVars, glCall, posted>>

-----------------------------------------------------------------------------
ClientStep(c) ==
    \/ CreateTransport(c) \/ Started(c) \/ CreateContext(c) \/ Attach(c)
    \/ ContextCreated(c) \/ AttachFails(c) \/ CallReturned(c) \/ GlPosted(c) \/ Free(c)
JanitorStep ==
    \/ CreateTransport("janitor") \/ Serving \/ ReceiveRequest \/ DispatchLoop
    \/ PutOffsetState \/ BonjourFails
    \/ DelOffsetState \/ DestroyTransport \/ AuRevoirFails
ThreadStep(t) == MakePost(t) \/ MakeCall(t) \/ Cancelled(t)

Next ==
    \/ \E c \in Clients : Start(c) \/ ClientStep(c) \/ PostGl(c) \/ CallGl(c) \/ AuRevoir(c)
    \/ JanitorStep \/ Stop
    \/ \E t \in DOMAIN threads : ThreadStep(t)

Spec == Init /\ [][Next]_vars

\* Every process and thread that can run does in the end; clients start, make
\* calls and release contexts as they like.
FairSpec ==
    /\ Spec /\ WF_vars(JanitorStep)
    /\ \A c \in Clients : WF_vars(ClientStep(c))
    /\ \A t \in 1..MaxThreads : WF_vars(t \in DOMAIN threads /\ ThreadStep(t))
-----------------------------------------------------------------------------
(* Properties.                                                             *)

TypeOK ==
    /\ header \in [Areas -> [initialized : BOOLEAN, rings : BOOLEAN,
                             sync : BOOLEAN, held : BOOLEAN]]
    /\ \A p \in Procs : /\ making[p].area \in Areas
                        /\ making[p].step \in {"check", "state", "rings", "sync", "done"}
    /\ cpc \in [Clients -> {"off", "starting", "ready", "bonjour", "welcome",
                            "attaching", "current", "posting", "calling", "aurevoir", "gone"}]
    /\ region \in [Clients -> Areas] /\ lost \subseteq Regions
    /\ Len(threads) <= MaxThreads
    /\ \A s \in states : s.offset \in Regions /\ s.thread \in DOMAIN threads

\* A transport that gvCreateShmStreamTransport has returned has its rings and
\* locks, and no other process sets them up again underneath it.
ReadyBeforeUse ==
    \A p \in Procs, a \in Areas : Attached(p, a) =>
        /\ header[a].rings /\ header[a].sync
        /\ \A q \in Procs : making[q].area = a => making[q].step \notin {"rings", "sync"}

\* "heap manager guarantees that a particular offset is used only once at a
\* time": the janitor never has two states of one offset.
OffsetsUnique == \A s, r \in states : s.offset = r.offset => s = r

\* A region is served by one thread that goes on; one that nobody has allocated
\* by none.  Only a region that a failure has lost has a thread that is not
\* entered under its offset.
OneServer ==
    \A t \in DOMAIN threads : ~threads[t].cancelled =>
        /\ \A u \in DOMAIN threads :
             threads[u].area = threads[t].area /\ ~threads[u].cancelled => u = t
        /\ threads[t].area \in lost \cup {region[c] : c \in Clients}
        /\ \/ jpc = "dispatched" \/ threads[t].area \in lost
           \/ StatesOf(threads[t].area) # {}

\* "a particular offset is used only once at a time": a thread has ended before
\* the next one starts in its region.
UsedOnce ==
    \A t, u \in DOMAIN threads :
        threads[t].area = threads[u].area /\ ~threads[t].dead /\ ~threads[u].dead
            => t = u

InCall(c) == cpc[c] \in {"posting", "calling"}

\* A client that asks for a context gets one, or is told that it does not, as
\* long as the janitor lives; and its functions return, the service's thread
\* having made what was queued before them, but for a region in which an earlier
\* thread has died with notEmptyAccess: there they wait for ever (CallsReturn).
ContextServed ==
    \A c \in Clients :
        /\ cpc[c] = "bonjour" ~> cpc[c] \in {"current", "ready"} \/ crashed
        /\ InCall(c) /\ ~header[region[c]].held ~> cpc[c] = "current" \/ crashed

\* The functions of a client return in any region it gets.
CallsReturn == \A c \in Clients : InCall(c) ~> cpc[c] = "current" \/ crashed

\* A thread makes the commands of the client whose region it serves, and none
\* that another has left there.
OwnCommands ==
    [][\A t \in DOMAIN threads : MakePost(t) =>
         region[posted[threads[t].area]] = threads[t].area]_vars

\* Together with the heap manager the janitor gives each client a region of its
\* own, in which calls are answered while the client has it.
Phase(c) ==
    CASE cpc[c] \in {"off", "starting", "ready"} -> "out"
      [] cpc[c] \in {"bonjour", "welcome", "attaching"} -> "asked"
      [] cpc[c] \in {"current", "posting"} -> "in"
      [] cpc[c] = "calling" -> "calling"
      [] cpc[c] \in {"aurevoir", "gone"} -> "leaving"

Phases == [c \in Clients |-> Phase(c)]
Served == {threads[t].area : t \in {u \in DOMAIN threads : ~threads[u].cancelled}}
Answered == {a \in Regions : glCall[a] = "answered"}

Contract == INSTANCE ContextService WITH
    Nowhere <- "service", MayRefuse <- Faults # {},
    lease <- region, phase <- Phases, served <- Served, answered <- Answered

ImplementsContextService == Contract!Spec
=============================================================================
