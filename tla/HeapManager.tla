----------------------------- MODULE HeapManager -----------------------------
(***************************************************************************)
(* The heap manager and the threads that call it, possibly from several    *)
(* processes: gvAlloc and gvFree of client_heap_manager.c through the      *)
(* client serializer, the dispatch loop of the heap manager's process with *)
(* _gvAlloc and _gvFree, and the dlmalloc space behind them.               *)
(*                                                                         *)
(* All of them share one transport.  Each of its channels is a bounded     *)
(* FIFO of words (what ShmStream is shown to implement, byte by byte); one *)
(* gvSendData or gvReceiveData moves one word.  A word carries, besides    *)
(* what the code sends, what the sender meant by it (kind) and whose call  *)
(* it belongs to (from): no guard reads these two.                         *)
(***************************************************************************)
EXTENDS Integers, Sequences

CONSTANTS
    Clients,          \* the calling threads
    Pid, Tid,         \* getpid() and pthread_self() of each
    UlongSize,        \* 2^64, scaled: unsigned long wraps here
    IntSize,          \* 2^32, scaled: the range of GVcallid is half of it
    Capacity,         \* words a channel holds
    Pages,            \* the pages of the heap behind dlmalloc's own, from 1
    Lengths,          \* the lengths asked for, in pages
    Mortal,           \* the clients' processes that may die
    MayStop           \* whether the heap manager may be stopped

ASSUME HeapManagerAssumption ==
    /\ Pid \in [Clients -> Nat] /\ Tid \in [Clients -> Nat]
    /\ UlongSize \in Nat \ {0} /\ IntSize \in Nat \ {0}
    /\ Capacity \in Nat \ {0}
    /\ Pages \subseteq Nat \ {0} /\ Lengths \subseteq Nat \ {0}
    /\ Mortal \subseteq Nat /\ MayStop \in BOOLEAN
    /\ {"free", "none"} \cap Clients = {}

VARIABLES
    callChanel, returnChanel,       \* the two channels, oldest word first
    ocLock, icLock,                 \* exclusiveAccess of each: the holder
    cpc, request, callId, result,   \* the clients and their locals
    held,                           \* the offsets each client may use
    spc, sCmd, sCallId, sArg, sResult, sFrom,   \* the dispatcher thread
    heap,                           \* the blocks dlmalloc has handed out
    answer,                         \* history: what the server made of c's call
    dead,                           \* threads whose process has died
    stopped                         \* whether the heap manager's process has

chanels    == <<callChanel, returnChanel>>
locks      == <<ocLock, icLock>>
clientVars == <<cpc, request, callId, result, held>>
serverVars == <<spc, sCmd, sCallId, sArg, sResult, sFrom>>
faults     == <<dead, stopped>>
vars       == <<chanels, locks, clientVars, serverVars, heap, answer, faults>>

Free == "free"
None == "none"
Unanswered == -1      \* offsets and statuses are never negative

Idle       == [cmd |-> "none", arg |-> 0]
Word(k, v, c) == [kind |-> k, val |-> v, from |-> c]

CallPcs == {"idle", "lockOc", "sendCmd", "sendCallId", "sendArg", "unlockOc",
            "lockIc", "peek", "unlockRetry", "receive", "unlockIc"}
ServePcs == {"cmd", "callId", "arg", "serve", "sendCallId", "sendResult"}
-----------------------------------------------------------------------------
(* The call id.                                                            *)

\* GVcallid is an int: a double outside its range converts to INT_MIN on
\* x86-64, the one value the conversion instruction gives then.
ToCallId(half) == IF half < IntSize \div 2 THEN half ELSE -(IntSize \div 2)

\* Mutant: the pairing forgets the thread.
PairOfPidOnly(k1, k2) == ToCallId(k1)

\* 0.5 * ((k1 + k2) * (k1 + k2 + 1) + k2), with the sum and the products in
\* unsigned long.
getCantorPair(k1, k2) ==
    LET s == (k1 + k2) % UlongSize
    IN  ToCallId(((s * (s + 1) + k2) % UlongSize) \div 2)

-----------------------------------------------------------------------------
(* dlmalloc's mspace, as the heap manager uses it.                         *)

PagesOf(b) == b.at..(b.at + b.length - 1)

\* Mutant: looks only at where blocks start.
FittingAtStart(n, blocks) ==
    {b \in [at : Pages, length : {n}] :
        PagesOf(b) \subseteq Pages /\ \A o \in blocks : b.at # o.at}

\* mspace_memalign: a page-aligned block that overlaps no other ...
Fitting(n, blocks) ==
    {b \in [at : Pages, length : {n}] :
        /\ PagesOf(b) \subseteq Pages
        /\ \A o \in blocks : PagesOf(b) \cap PagesOf(o) = {}}

\* ... or NULL, from which gvAlloc makes the offset 0.
gvAlloc(n) ==
    \/ \E b \in Fitting(n, heap) : heap' = heap \cup {b} /\ sResult' = b.at
    \/ heap' = heap /\ sResult' = 0

\* mspace_free
gvFree(at) ==
    /\ heap' = {b \in heap : b.at # at}
    /\ sResult' = 0

-----------------------------------------------------------------------------
Init ==
    /\ callChanel = <<>> /\ returnChanel = <<>>
    /\ ocLock = Free /\ icLock = Free
    /\ cpc = [c \in Clients |-> "idle"]
    /\ request = [c \in Clients |-> Idle]
    /\ callId = [c \in Clients |-> 0]
    /\ result = [c \in Clients |-> 0]
    /\ held = [c \in Clients |-> {}]
    /\ spc = "cmd" /\ sCmd = "none" /\ sCallId = 0 /\ sArg = 0 /\ sResult = 0
    /\ sFrom = None
    /\ heap = {}
    /\ answer = [c \in Clients |-> Unanswered]
    /\ dead = {} /\ stopped = FALSE

-----------------------------------------------------------------------------
(* The client side: gvAlloc and gvFree of client_heap_manager.c.           *)

At(c, from, to) ==
    /\ cpc[c] = from /\ c \notin dead
    /\ cpc' = [cpc EXCEPT ![c] = to]
    /\ UNCHANGED faults

\* A thread asks for a block, or gives back one it holds.
Call(c) ==
    /\ At(c, "idle", "lockOc")
    /\ \/ /\ \E n \in Lengths :
               request' = [request EXCEPT ![c] = [cmd |-> "alloc", arg |-> n]]
          /\ UNCHANGED held
       \/ \E at \in held[c] :
            /\ request' = [request EXCEPT ![c] = [cmd |-> "free", arg |-> at]]
            /\ held' = [held EXCEPT ![c] = @ \ {at}]
    /\ UNCHANGED <<chanels, locks, callId, result, serverVars, heap, answer>>

\* Mutant: no mutual exclusion between the messages of two callers.
StartSendingUnlocked(c) ==
    /\ At(c, "lockOc", "sendCmd")
    /\ callId' = [callId EXCEPT ![c] = getCantorPair(Pid[c], Tid[c])]
    /\ UNCHANGED <<chanels, locks, request, result, held, serverVars, heap,
                   answer>>

\* gvStartSending: the lock and the call id; the two words follow.
StartSending(c) ==
    /\ At(c, "lockOc", "sendCmd")
    /\ ocLock = Free
    /\ ocLock' = c
    /\ callId' = [callId EXCEPT ![c] = getCantorPair(Pid[c], Tid[c])]
    /\ UNCHANGED <<chanels, icLock, request, result, held, serverVars, heap,
                   answer>>

\* Mutant: does not wait for room.
SendAlways(c, from, to, kind, val) ==
    /\ At(c, from, to)
    /\ callChanel' = Append(callChanel, Word(kind, val, c))
    /\ UNCHANGED <<returnChanel, locks, request, callId, result, held,
                   serverVars, heap, answer>>

\* A write to the call channel blocks until there is room.
Send(c, from, to, kind, val) ==
    /\ At(c, from, to)
    /\ Len(callChanel) < Capacity
    /\ callChanel' = Append(callChanel, Word(kind, val, c))
    /\ UNCHANGED <<returnChanel, locks, request, callId, result, held,
                   serverVars, heap, answer>>

SendCmd(c)    == Send(c, "sendCmd", "sendCallId", "cmd", request[c].cmd)
SendCallId(c) == Send(c, "sendCallId", "sendArg", "callId", callId[c])
SendArg(c)    == Send(c, "sendArg", "unlockOc", "arg", request[c].arg)

StopSending(c) ==
    /\ At(c, "unlockOc", "lockIc")
    /\ ocLock' = Free
    /\ UNCHANGED <<chanels, icLock, request, callId, result, held, serverVars,
                   heap, answer>>

\* gvStartReceiving: take the lock, look at the next call id in the return
\* channel, and either take it or give the lock back and try again.
ReceiveLock(c) ==
    /\ At(c, "lockIc", "peek")
    /\ icLock = Free
    /\ icLock' = c
    /\ UNCHANGED <<chanels, ocLock, request, callId, result, held, serverVars,
                   heap, answer>>

\* Mutant: takes whichever reply comes first.
TakeAnyReply(c) ==
    /\ returnChanel # <<>>
    /\ At(c, "peek", "receive")
    /\ returnChanel' = Tail(returnChanel)
    /\ UNCHANGED <<callChanel, locks, request, callId, result, held,
                   serverVars, heap, answer>>

ReceivePeek(c) ==
    /\ returnChanel # <<>>
    /\ IF Head(returnChanel).val = callId[c]
       THEN /\ At(c, "peek", "receive")
            /\ returnChanel' = Tail(returnChanel)
       ELSE /\ At(c, "peek", "unlockRetry")
            /\ UNCHANGED returnChanel
    /\ UNCHANGED <<callChanel, locks, request, callId, result, held,
                   serverVars, heap, answer>>

\* Mutant: keeps the lock while it tries again.
ReceiveRetryLocked(c) ==
    /\ At(c, "unlockRetry", "peek")
    /\ UNCHANGED <<chanels, locks, request, callId, result, held, serverVars,
                   heap, answer>>

ReceiveRetry(c) ==
    /\ At(c, "unlockRetry", "lockIc")
    /\ icLock' = Free
    /\ UNCHANGED <<chanels, ocLock, request, callId, result, held, serverVars,
                   heap, answer>>

ReceiveResult(c) ==
    /\ At(c, "receive", "unlockIc")
    /\ returnChanel # <<>>
    /\ result' = [result EXCEPT ![c] = Head(returnChanel).val]
    /\ returnChanel' = Tail(returnChanel)
    /\ UNCHANGED <<callChanel, locks, request, callId, held, serverVars, heap,
                   answer>>

\* gvStopReceiving, and the return of gvAlloc or gvFree.
StopReceiving(c) ==
    /\ At(c, "unlockIc", "idle")
    /\ icLock' = Free
    /\ held' = IF request[c].cmd = "alloc" /\ result[c] # 0
               THEN [held EXCEPT ![c] = @ \cup {result[c]}] ELSE held
    /\ request' = [request EXCEPT ![c] = Idle]
    /\ result' = [result EXCEPT ![c] = 0]
    /\ answer' = [answer EXCEPT ![c] = Unanswered]
    /\ UNCHANGED <<chanels, ocLock, callId, serverVars, heap>>

-----------------------------------------------------------------------------
(* The server side: dispatchLoopThread, _gvAlloc and _gvFree.              *)

\* A read from the call channel blocks until the word is there.
Receive(from, to) ==
    /\ spc = from /\ ~stopped
    /\ callChanel # <<>>
    /\ callChanel' = Tail(callChanel)
    /\ spc' = to
    /\ UNCHANGED <<returnChanel, locks, clientVars, heap, answer, faults>>

\* gvStartReceiving of the server, and the jump through the table.
Dispatch ==
    /\ Receive("cmd", "callId")
    /\ sCmd' = Head(callChanel).val
    /\ sFrom' = Head(callChanel).from
    /\ UNCHANGED <<sCallId, sArg, sResult>>

ReceiveCallId ==
    /\ Receive("callId", "arg")
    /\ sCallId' = Head(callChanel).val
    /\ UNCHANGED <<sCmd, sArg, sResult, sFrom>>

ReceiveArg ==
    /\ Receive("arg", "serve")
    /\ sArg' = Head(callChanel).val
    /\ UNCHANGED <<sCmd, sCallId, sResult, sFrom>>

Serve ==
    /\ spc = "serve" /\ ~stopped
    /\ spc' = "sendCallId"
    /\ \/ sCmd = "alloc" /\ gvAlloc(sArg)
       \/ sCmd = "free" /\ gvFree(sArg)
    /\ answer' = [answer EXCEPT ![sFrom] = sResult']
    /\ UNCHANGED <<chanels, locks, clientVars, sCmd, sCallId, sArg, sFrom, faults>>

Reply(from, to, kind, val) ==
    /\ spc = from /\ ~stopped
    /\ Len(returnChanel) < Capacity
    /\ returnChanel' = Append(returnChanel, Word(kind, val, sFrom))
    /\ spc' = to
    /\ UNCHANGED <<callChanel, locks, clientVars, heap, answer, faults>>

ReplyCallId ==
    /\ Reply("sendCallId", "sendResult", "callId", sCallId)
    /\ UNCHANGED <<sCmd, sCallId, sArg, sResult, sFrom>>

\* The handler returns to the loop; its locals die.
ReplyResult ==
    /\ Reply("sendResult", "cmd", "result", sResult)
    /\ sCmd' = "none" /\ sCallId' = 0 /\ sArg' = 0 /\ sResult' = 0
    /\ sFrom' = None

-----------------------------------------------------------------------------
(* Processes that end.                                                     *)

\* Mutant: locks that are given back with their owner's death.
DieReleasing(p) ==
    LET gone == {c \in Clients : Pid[c] = p}
    IN  /\ p \in Mortal /\ gone \ dead # {}
        /\ dead' = dead \cup gone
        /\ held' = [c \in Clients |-> IF c \in gone THEN {} ELSE held[c]]
        /\ ocLock' = IF ocLock \in gone THEN Free ELSE ocLock
        /\ icLock' = IF icLock \in gone THEN Free ELSE icLock
        /\ UNCHANGED <<chanels, cpc, request, callId, result, serverVars, heap,
                       answer, stopped>>

\* A process of clients dies, wherever its threads are.  The mutexes of gvCreateLock
\* are not robust: those its threads hold stay locked.
Die(p) ==
    LET gone == {c \in Clients : Pid[c] = p}
    IN  /\ p \in Mortal /\ gone \ dead # {}
        /\ dead' = dead \cup gone
        /\ held' = [c \in Clients |-> IF c \in gone THEN {} ELSE held[c]]
        /\ UNCHANGED <<chanels, locks, cpc, request, callId, result, serverVars,
                       heap, answer, stopped>>

\* gvStopHeapMgr: the handler of SIGTERM unmaps transport and heap, whatever the
\* dispatcher thread is at, and exits.  No client is told.
Stop ==
    /\ MayStop /\ ~stopped
    /\ stopped' = TRUE
    /\ UNCHANGED <<chanels, locks, clientVars, serverVars, heap, answer, dead>>

-----------------------------------------------------------------------------
ClientStep(c) ==
    \/ StartSending(c) \/ SendCmd(c) \/ SendCallId(c) \/ SendArg(c)
    \/ StopSending(c)
    \/ ReceiveLock(c) \/ ReceivePeek(c) \/ ReceiveRetry(c)
    \/ ReceiveResult(c) \/ StopReceiving(c)

ServerStep ==
    \/ Dispatch \/ ReceiveCallId \/ ReceiveArg \/ Serve
    \/ ReplyCallId \/ ReplyResult

Next ==
    \/ \E c \in Clients : Call(c) \/ ClientStep(c) \/ Die(Pid[c])
    \/ ServerStep \/ Stop

Spec == Init /\ [][Next]_vars

\* Threads keep running, and a thread that asks for a lock again and again
\* gets it in the end (the spinning owner of no reply gives it back).
Fairness ==
    /\ WF_vars(ServerStep)
    /\ \A c \in Clients : /\ WF_vars(ClientStep(c))
                          /\ SF_vars(StartSending(c))
                          /\ SF_vars(ReceiveLock(c))

FairSpec == Spec /\ Fairness
-----------------------------------------------------------------------------
(* Properties.                                                             *)

Blocks == [at : Pages, length : Lengths]

\* Every variable stays in its range, and the channels within capacity.
TypeOK ==
    /\ \A ch \in {callChanel, returnChanel} :
         /\ Len(ch) <= Capacity
         /\ \A i \in DOMAIN ch : ch[i].from \in Clients
    /\ ocLock \in Clients \cup {Free} /\ icLock \in Clients \cup {Free}
    /\ cpc \in [Clients -> CallPcs]
    /\ \A c \in Clients : request[c].cmd \in {"none", "alloc", "free"}
    /\ callId \in [Clients -> Int] /\ result \in [Clients -> Int]
    /\ held \in [Clients -> SUBSET Pages]
    /\ spc \in ServePcs /\ sFrom \in Clients \cup {None}
    /\ heap \subseteq Blocks
    /\ dead \subseteq Clients /\ stopped \in BOOLEAN

\* Whoever reads the next word of a channel finds there what it takes it for,
\* from the caller whose message it has begun to read: the words of two calls
\* never mix, whatever the order in which the callers and the server move.
WellFramed ==
    /\ callChanel # <<>> /\ spc \in {"cmd", "callId", "arg"}
         => /\ Head(callChanel).kind = spc
            /\ spc # "cmd" => Head(callChanel).from = sFrom
    /\ \A c \in Clients : returnChanel # <<>> =>
         /\ cpc[c] = "peek" => Head(returnChanel).kind = "callId"
         /\ cpc[c] = "receive" => Head(returnChanel).kind = "result"

\* The reply a caller takes out of the shared return channel is its own.
ReplyIsMine ==
    \A c \in Clients :
       /\ cpc[c] = "receive" /\ returnChanel # <<>> => Head(returnChanel).from = c
       /\ cpc[c] = "unlockIc" => result[c] = answer[c]

\* A page is in the hands of one thread at most.
NoDoubleAlloc ==
    /\ \A c, d \in Clients : c # d => held[c] \cap held[d] = {}
    /\ \A c \in Clients : \A at \in held[c] : \E b \in heap : b.at = at
    /\ \A b, o \in heap : b # o => PagesOf(b) \cap PagesOf(o) = {}

\* Two callers that wait for an answer at the same time can be told apart:
\* "cantor pairing" of process and thread is one-to-one.
CallIdsDistinct ==
    \A c, d \in Clients :
       c # d /\ {cpc[c], cpc[d]} \subseteq {"sendCallId", "sendArg", "unlockOc",
                                           "lockIc", "peek", "unlockRetry"}
         => callId[c] # callId[d]

\* Every call returns, although callers spin on each other's replies: unless the
\* service stops, or a process dies that is in a call.  A process that dies between
\* its calls, or before it has the lock for one, disturbs nobody.
CallReturns ==
    \A c \in Clients : cpc[c] # "idle" ~>
        cpc[c] = "idle" \/ c \in dead \/ stopped
        \/ \E d \in dead : cpc[d] \notin {"idle", "lockOc"}

\* Every call of a process that lives returns, whatever befalls the others.
SurvivorReturns ==
    \A c \in Clients : cpc[c] # "idle" ~> cpc[c] = "idle" \/ c \in dead \/ stopped

\* The heap manager is the allocator that Allocator describes: a call takes
\* effect when the server runs its handler.
Abstract == INSTANCE Allocator WITH
    blocks <- heap,
    phase  <- [c \in Clients |-> IF cpc[c] = "idle" THEN "idle"
                                 ELSE IF answer[c] = Unanswered THEN "called"
                                 ELSE "served"],
    reply  <- [c \in Clients |-> IF answer[c] = Unanswered THEN 0 ELSE answer[c]]
ImplementsAllocator == Abstract!Spec
=============================================================================
