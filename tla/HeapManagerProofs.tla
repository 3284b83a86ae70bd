-------------------------- MODULE HeapManagerProofs --------------------------
(***************************************************************************)
(* Proofs about HeapManager, for any number of callers, any heap and       *)
(* channels of any capacity, whoever dies and whenever the service stops.  *)
(* Given that the call ids of the callers differ, words of different calls *)
(* never mix, everybody gets the answer to its own call, no page is handed *)
(* out twice, and the service is the allocator that Allocator describes.   *)
(***************************************************************************)
EXTENDS HeapManager, SequenceTheorems, TLAPS

Id(c) == getCantorPair(Pid[c], Tid[c])

\* What getCantorPair is for, and does for numbers that are small enough.
IdsDistinct == \A c, d \in Clients : Id(c) = Id(d) => c = d

Kinds    == {"cmd", "callId", "arg", "result"}
Cmds     == {"none", "alloc", "free"}
Words    == [kind : Kinds, val : Int \cup Cmds, from : Clients]
Requests == [cmd : Cmds, arg : Nat]

\* Where a client has the lock of the call and of the return channel; where
\* its message is sent and nothing received.
Sending   == {"sendCmd", "sendCallId", "sendArg", "unlockOc"}
Receiving == {"peek", "unlockRetry", "receive", "unlockIc"}
Waiting   == {"unlockOc", "lockIc", "peek", "unlockRetry"}

\* Where a client is when a word of that kind has been sent, and not answered.
Sent(k) ==
    CASE k = "cmd"    -> {"sendCallId", "sendArg"} \cup Waiting
      [] k = "callId" -> {"sendArg"} \cup Waiting
      [] OTHER        -> Waiting

Types ==
    /\ cpc \in [Clients -> CallPcs] /\ request \in [Clients -> Requests]
    /\ callId \in [Clients -> Int] /\ result \in [Clients -> Int]
    /\ answer \in [Clients -> Int] /\ held \in [Clients -> SUBSET Pages]
    /\ spc \in ServePcs /\ sFrom \in Clients \cup {None} /\ sResult \in Int
    /\ callChanel \in Seq(Words) /\ Len(callChanel) <= Capacity
    /\ returnChanel \in Seq(Words) /\ Len(returnChanel) <= Capacity
    /\ heap \subseteq Blocks /\ dead \subseteq Clients /\ stopped \in BOOLEAN
    /\ ocLock \in Clients \cup {Free} /\ icLock \in Clients \cup {Free}

Locks ==
    \A c \in Clients : /\ cpc[c] \in Sending => ocLock = c
                       /\ cpc[c] \in Receiving => icLock = c

\* A client's own account of its call.
Calls ==
    \A c \in Clients :
        /\ request[c].cmd = "none" <=> cpc[c] = "idle"
        /\ request[c].cmd = "alloc" => request[c].arg \in Lengths
        /\ request[c].cmd = "free" => request[c].arg \in Pages
        /\ cpc[c] \notin {"idle", "lockOc"} => callId[c] = Id(c)
        /\ cpc[c] \in {"idle", "lockOc", "sendCmd", "sendCallId", "sendArg"}
             => answer[c] = Unanswered
        /\ cpc[c] = "unlockIc" => result[c] = answer[c] /\ answer[c] # Unanswered

\* The call channel is a row of messages, the first of which the server may
\* have begun to read and the last of which a client may not yet have ended.
CallEnds(k, next, c) ==
    IF Len(callChanel) = 0 THEN spc = next /\ sFrom = c
    ELSE callChanel[Len(callChanel)].kind = k /\ callChanel[Len(callChanel)].from = c

CallFrames ==
    /\ \A i \in 1..(Len(callChanel) - 1) :
         /\ callChanel[i].kind = "cmd" => callChanel[i + 1].kind = "callId"
         /\ callChanel[i].kind = "callId" => callChanel[i + 1].kind = "arg"
         /\ callChanel[i].kind = "arg" => callChanel[i + 1].kind = "cmd"
         /\ callChanel[i].kind # "arg" => callChanel[i + 1].from = callChanel[i].from
    /\ Len(callChanel) # 0 =>
         IF spc \in {"callId", "arg"}
         THEN callChanel[1].kind = spc /\ callChanel[1].from = sFrom
         ELSE callChanel[1].kind = "cmd"
    /\ \A c \in Clients : /\ cpc[c] = "sendCallId" => CallEnds("cmd", "callId", c)
                          /\ cpc[c] = "sendArg" => CallEnds("callId", "arg", c)
    /\ (\A c \in Clients : cpc[c] \notin {"sendCallId", "sendArg"}) =>
         IF Len(callChanel) = 0 THEN spc \notin {"callId", "arg"}
         ELSE callChanel[Len(callChanel)].kind = "arg"

\* A word in the call channel is of a call that waits, and says what it asks.
CallWords ==
    /\ \A i \in 1..Len(callChanel) :
         LET w == callChanel[i] IN
         /\ w.kind \in {"cmd", "callId", "arg"}
         /\ cpc[w.from] \in Sent(w.kind) /\ answer[w.from] = Unanswered
         /\ w.kind = "cmd" => w.val = request[w.from].cmd
         /\ w.kind = "callId" => w.val = callId[w.from]
         /\ w.kind = "arg" => w.val = request[w.from].arg
    /\ \A i, j \in 1..Len(callChanel) :
         callChanel[i].kind = callChanel[j].kind /\ callChanel[i].from = callChanel[j].from
           => i = j

ReturnFrames ==
    /\ \A i \in 1..(Len(returnChanel) - 1) :
         /\ returnChanel[i].kind = "callId" => /\ returnChanel[i + 1].kind = "result"
                                               /\ returnChanel[i + 1].from = returnChanel[i].from
         /\ returnChanel[i].kind = "result" => returnChanel[i + 1].kind = "callId"
    /\ \A c \in Clients : cpc[c] = "receive" =>
         IF Len(returnChanel) = 0 THEN spc = "sendResult" /\ sFrom = c
         ELSE returnChanel[1].kind = "result" /\ returnChanel[1].from = c
    /\ (\A c \in Clients : cpc[c] # "receive") =>
         IF Len(returnChanel) = 0 THEN spc # "sendResult" ELSE returnChanel[1].kind = "callId"
    /\ Len(returnChanel) # 0 =>
         IF spc = "sendResult"
         THEN /\ returnChanel[Len(returnChanel)].kind = "callId"
              /\ returnChanel[Len(returnChanel)].from = sFrom
         ELSE returnChanel[Len(returnChanel)].kind = "result"

ReturnWords ==
    /\ \A i \in 1..Len(returnChanel) :
         LET w == returnChanel[i] IN
         /\ w.kind \in {"callId", "result"} /\ answer[w.from] # Unanswered
         /\ w.kind = "callId" => w.val = callId[w.from] /\ cpc[w.from] \in Waiting
         /\ w.kind = "result" => /\ w.val = answer[w.from]
                                 /\ cpc[w.from] \in Waiting \cup {"receive"}
    /\ \A i, j \in 1..Len(returnChanel) :
         returnChanel[i].kind = returnChanel[j].kind
           /\ returnChanel[i].from = returnChanel[j].from => i = j

\* The call that the server is at.
ServedAt(p) ==
    CASE p = "callId"     -> Sent("cmd")
      [] p = "arg"        -> Sent("callId")
      [] p = "sendResult" -> Waiting \cup {"receive"}
      [] OTHER            -> Waiting
AlreadyRead(p) ==
    CASE p = "callId" -> {"cmd"}
      [] p = "arg"    -> {"cmd", "callId"}
      [] OTHER        -> {"cmd", "callId", "arg"}

Server ==
    /\ spc = "cmd" <=> sFrom = None
    /\ spc # "cmd" =>
         /\ cpc[sFrom] \in ServedAt(spc)
         /\ sCmd = request[sFrom].cmd
         /\ spc # "callId" => sCallId = callId[sFrom]
         /\ spc = "serve" => sArg = request[sFrom].arg
         /\ spc \in {"callId", "arg", "serve"} => answer[sFrom] = Unanswered
         /\ spc \in {"sendCallId", "sendResult"} =>
              sResult # Unanswered /\ answer[sFrom] = sResult
         /\ \A i \in 1..Len(callChanel) :
              callChanel[i].from = sFrom => callChanel[i].kind \notin AlreadyRead(spc)
         /\ \A i \in 1..Len(returnChanel) :
              returnChanel[i].from = sFrom
                => spc = "sendResult" /\ returnChanel[i].kind = "callId"

\* Whose pages are whose: those a client holds, has asked to free and the
\* server has not yet freed, or has been given and not yet been told of.
Owned(c) ==
    held[c]
    \cup (IF request[c].cmd = "free" /\ answer[c] = Unanswered THEN {request[c].arg} ELSE {})
    \cup (IF request[c].cmd = "alloc" /\ answer[c] \notin {Unanswered, 0} THEN {answer[c]} ELSE {})

Heap ==
    /\ \A b, o \in heap : b # o => PagesOf(b) \cap PagesOf(o) = {}
    /\ \A c \in Clients : \A at \in Owned(c) : \E b \in heap : b.at = at
    /\ \A c, d \in Clients : c # d => Owned(c) \cap Owned(d) = {}
    /\ \A c \in Clients : request[c].cmd = "free" /\ answer[c] = Unanswered
                            => request[c].arg \notin held[c]

Framing == Types /\ Locks /\ Calls /\ CallFrames /\ CallWords /\ ReturnFrames /\ ReturnWords /\ Server
IInv == Framing /\ Heap

-----------------------------------------------------------------------------
(* Sequences by index.                                                     *)

LEMMA TailFacts ==
  ASSUME NEW S, NEW ch \in Seq(S), ch # <<>>
  PROVE  /\ Len(ch) \in Nat \ {0} /\ Len(ch) # 0
         /\ Head(ch) = ch[1] /\ ch[1] \in S
         /\ Tail(ch) \in Seq(S) /\ Len(Tail(ch)) = Len(ch) - 1
         /\ \A i \in 1..(Len(ch) - 1) : Tail(ch)[i] = ch[i + 1]
  OBVIOUS

LEMMA AppendFacts ==
  ASSUME NEW S, NEW ch \in Seq(S), NEW w \in S
  PROVE  /\ Len(ch) \in Nat
         /\ Append(ch, w) \in Seq(S) /\ Len(Append(ch, w)) = Len(ch) + 1
         /\ \A i \in 1..Len(ch) : Append(ch, w)[i] = ch[i]
         /\ Append(ch, w)[Len(ch) + 1] = w
  OBVIOUS

LEMMA WordTypes ==
  ASSUME Types
  PROVE  /\ \A i \in 1..Len(callChanel) : callChanel[i] \in Words /\ callChanel[i].from \in Clients
         /\ \A i \in 1..Len(returnChanel) : returnChanel[i] \in Words /\ returnChanel[i].from \in Clients
<1>1. \A w \in Words : w.from \in Clients
  BY DEF Words
<1>2. /\ \A i \in 1..Len(callChanel) : callChanel[i] \in Words
      /\ \A i \in 1..Len(returnChanel) : returnChanel[i] \in Words
  BY DEF Types
<1> QED BY <1>1, <1>2

LEMMA IdIsInt == \A c \in Clients : Id(c) \in Int
<1> TAKE c \in Clients
<1> DEFINE s == (Pid[c] + Tid[c]) % UlongSize
           p == s * (s + 1) + Tid[c]
<1>1. s \in Nat
  BY HeapManagerAssumption
<1>2. p \in Nat
  <2> HIDE DEF s
  <2> QED BY <1>1, HeapManagerAssumption
<1>3. (p % UlongSize) \in Nat
  <2> HIDE DEF p
  <2> QED BY <1>2, HeapManagerAssumption
<1>4. (p % UlongSize) \div 2 \in Int
  <2> HIDE DEF p
  <2> QED BY <1>3
<1>5. ASSUME NEW h \in Int PROVE ToCallId(h) \in Int
  BY HeapManagerAssumption DEF ToCallId
<1> QED BY <1>4, <1>5 DEF Id, getCantorPair

LEMMA InitInv == Init => IInv
<1> SUFFICES ASSUME Init PROVE IInv
  OBVIOUS
<1>1. /\ \A c \in Clients : /\ cpc[c] = "idle" /\ request[c] = Idle
                            /\ answer[c] = Unanswered /\ held[c] = {}
      /\ spc = "cmd" /\ sFrom = None /\ heap = {}
      /\ Len(callChanel) = 0 /\ Len(returnChanel) = 0
  BY DEF Init
<1>2. Types
  <2>1. /\ "idle" \in CallPcs /\ "cmd" \in ServePcs /\ Idle \in Requests /\ Unanswered \in Int
        /\ <<>> \in Seq(Words)
    BY DEF CallPcs, ServePcs, Idle, Requests, Cmds, Unanswered
  <2>2. /\ cpc \in [Clients -> CallPcs] /\ request \in [Clients -> Requests]
        /\ callId \in [Clients -> Int] /\ result \in [Clients -> Int]
        /\ answer \in [Clients -> Int] /\ held \in [Clients -> SUBSET Pages]
    BY <2>1 DEF Init
  <2>3. /\ spc \in ServePcs /\ sFrom \in Clients \cup {None} /\ sResult \in Int
        /\ heap \subseteq Blocks /\ dead \subseteq Clients /\ stopped \in BOOLEAN
        /\ ocLock \in Clients \cup {Free} /\ icLock \in Clients \cup {Free}
    <3>1. /\ spc = "cmd" /\ sFrom = None /\ sResult = 0 /\ heap = {} /\ dead = {}
          /\ stopped = FALSE /\ ocLock = Free /\ icLock = Free
      BY DEF Init
    <3>2. dead \subseteq Clients /\ stopped \in BOOLEAN
      BY <3>1
    <3>3. spc \in ServePcs /\ sFrom \in Clients \cup {None} /\ sResult \in Int
      BY <2>1, <3>1
    <3>4. ocLock \in Clients \cup {Free} /\ icLock \in Clients \cup {Free}
      BY <3>1
    <3>5. heap \subseteq Blocks
      BY <3>1
    <3> QED BY <3>2, <3>3, <3>4, <3>5
  <2>4. /\ callChanel \in Seq(Words) /\ Len(callChanel) <= Capacity
        /\ returnChanel \in Seq(Words) /\ Len(returnChanel) <= Capacity
    BY <1>1, <2>1, HeapManagerAssumption DEF Init
  <2> QED BY <2>2, <2>3, <2>4 DEF Types
<1>3. Locks /\ Calls
  BY <1>1 DEF Locks, Calls, Sending, Receiving, Idle
<1>4. CallFrames /\ CallWords /\ ReturnFrames /\ ReturnWords /\ Server
  BY <1>1 DEF CallFrames, CallWords, ReturnFrames, ReturnWords, Server
<1>5. Heap
  BY <1>1 DEF Heap, Owned, Idle
<1> QED BY <1>2, <1>3, <1>4, <1>5 DEF IInv, Framing

-----------------------------------------------------------------------------
(* Steps of the clients.                                                   *)

\* A client that is between its words moves: nobody has a word of its call,
\* or it goes on waiting and changes nothing that words speak of.
LEMMA ClientMoves ==
  ASSUME Framing, NEW c \in Clients, NEW p \in CallPcs,
         cpc' = [cpc EXCEPT ![c] = p],
         cpc[c] \notin {"sendCallId", "sendArg", "receive"},
         p \notin {"sendCallId", "sendArg", "receive"},
         \A d \in Clients \ {c} : /\ request'[d] = request[d] /\ callId'[d] = callId[d]
                                  /\ answer'[d] = answer[d],
         cpc[c] \in Waiting => /\ p \in Waiting /\ request'[c] = request[c]
                               /\ callId'[c] = callId[c] /\ answer'[c] = answer[c],
         UNCHANGED <<chanels, serverVars>>
  PROVE  CallFrames' /\ CallWords' /\ ReturnFrames' /\ ReturnWords' /\ Server'
<1>1. /\ \A d \in Clients \ {c} : cpc'[d] = cpc[d]
      /\ cpc'[c] = p
      /\ UNCHANGED <<callChanel, returnChanel, spc, sCmd, sCallId, sArg, sResult, sFrom>>
  BY DEF Framing, Types, chanels, serverVars
<1>a. \A q \in {"sendCallId", "sendArg", "receive"}, d \in Clients :
        cpc'[d] = q <=> cpc[d] = q
  BY <1>1
<1>2. CallFrames'
  BY <1>1, <1>a DEF Framing, CallFrames, CallEnds
<1>3. CallWords'
  <2>1. ASSUME NEW i \in 1..Len(callChanel), NEW d, d = callChanel[i].from
        PROVE  /\ cpc'[d] \in Sent(callChanel[i].kind)
               /\ answer'[d] = answer[d] /\ request'[d] = request[d] /\ callId'[d] = callId[d]
    <3>1. d \in Clients /\ cpc[d] \in Sent(callChanel[i].kind)
      BY <2>1, WordTypes DEF Framing, CallWords
    <3>2. CASE d # c
      BY <1>1, <3>1, <3>2
    <3>3. CASE d = c
      BY <1>1, <3>1, <3>3 DEF Sent, Waiting
    <3> QED BY <3>2, <3>3
  <2> QED BY <1>1, <2>1 DEF Framing, CallWords
<1>4. ReturnFrames'
  BY <1>1, <1>a DEF Framing, ReturnFrames
<1>5. ReturnWords'
  <2>1. ASSUME NEW i \in 1..Len(returnChanel), NEW d, d = returnChanel[i].from
        PROVE  /\ cpc[d] \in Waiting => cpc'[d] \in Waiting
               /\ cpc[d] = "receive" => cpc'[d] = "receive"
               /\ answer'[d] = answer[d] /\ callId'[d] = callId[d]
    <3>1. d \in Clients /\ cpc[d] \in Waiting \cup {"receive"}
      BY <2>1, WordTypes DEF Framing, ReturnWords
    <3>2. CASE d # c
      BY <1>1, <3>1, <3>2
    <3>3. CASE d = c
      BY <1>1, <3>1, <3>3
    <3> QED BY <3>2, <3>3
  <2> QED BY <1>1, <2>1 DEF Framing, ReturnWords
<1>6. Server'
  BY <1>1 DEF Framing, Types, Server, ServedAt, Sent, Waiting, ServePcs
<1> QED BY <1>2, <1>3, <1>4, <1>5, <1>6

LEMMA CallInv ==
  ASSUME Framing, NEW c \in Clients, Call(c)
  PROVE  Framing'
<1>1. /\ cpc[c] = "idle" /\ cpc' = [cpc EXCEPT ![c] = "lockOc"]
      /\ UNCHANGED <<chanels, locks, callId, result, serverVars, heap, answer, dead, stopped>>
  BY DEF Call, At, faults
<1>2. PICK r \in Requests :
        /\ request' = [request EXCEPT ![c] = r]
        /\ \/ r.cmd = "alloc" /\ r.arg \in Lengths /\ held' = held
           \/ r.cmd = "free" /\ r.arg \in held[c] /\ held' = [held EXCEPT ![c] = @ \ {r.arg}]
  <2>1. CASE \E n \in Lengths : request' = [request EXCEPT ![c] = [cmd |-> "alloc", arg |-> n]]
                                /\ held' = held
    <3>1. PICK n \in Lengths : request' = [request EXCEPT ![c] = [cmd |-> "alloc", arg |-> n]]
      BY <2>1
    <3> DEFINE r == [cmd |-> "alloc", arg |-> n]
    <3>2. r \in Requests /\ r.cmd = "alloc" /\ r.arg \in Lengths
      BY HeapManagerAssumption DEF Requests, Cmds
    <3> QED BY <2>1, <3>1, <3>2
  <2>2. CASE \E at \in held[c] : /\ request' = [request EXCEPT ![c] = [cmd |-> "free", arg |-> at]]
                                 /\ held' = [held EXCEPT ![c] = @ \ {at}]
    <3>1. PICK at \in held[c] : /\ request' = [request EXCEPT ![c] = [cmd |-> "free", arg |-> at]]
                                /\ held' = [held EXCEPT ![c] = @ \ {at}]
      BY <2>2
    <3> DEFINE r == [cmd |-> "free", arg |-> at]
    <3>2. at \in Nat
      BY HeapManagerAssumption DEF Framing, Types
    <3>3. r \in Requests /\ r.cmd = "free" /\ r.arg = at
      BY <3>2 DEF Requests, Cmds
    <3> QED BY <3>1, <3>3
  <2> QED BY <2>1, <2>2 DEF Call
<1>3. Types'
  BY Zenon, <1>1, <1>2 DEF Framing, Types, chanels, locks, serverVars, CallPcs
<1>4. Locks' /\ Calls'
  BY Zenon, <1>1, <1>2 DEF Framing, Types, Locks, Calls, Sending, Receiving, locks
<1>5. CallFrames' /\ CallWords' /\ ReturnFrames' /\ ReturnWords' /\ Server'
  BY <1>1, <1>2, ClientMoves DEF Framing, Types, CallPcs, Waiting
<1> QED BY <1>3, <1>4, <1>5 DEF Framing

LEMMA StartSendingInv ==
  ASSUME Framing, NEW c \in Clients, StartSending(c)
  PROVE  Framing'
<1>1. /\ cpc[c] = "lockOc" /\ cpc' = [cpc EXCEPT ![c] = "sendCmd"]
      /\ ocLock = Free /\ ocLock' = c /\ callId' = [callId EXCEPT ![c] = Id(c)]
      /\ UNCHANGED <<chanels, icLock, request, result, held, serverVars, heap, answer,
                     dead, stopped>>
  BY DEF StartSending, At, faults, Id
<1>2. Types'
  BY <1>1, IdIsInt DEF Framing, Types, chanels, serverVars, CallPcs
<1>3. Locks' /\ Calls'
  BY Zenon, <1>1, HeapManagerAssumption DEF Framing, Types, Locks, Calls, Sending, Receiving, Free
<1>4. CallFrames' /\ CallWords' /\ ReturnFrames' /\ ReturnWords' /\ Server'
  BY <1>1, ClientMoves DEF Framing, Types, CallPcs, Waiting
<1> QED BY <1>2, <1>3, <1>4 DEF Framing

LEMMA StopSendingInv ==
  ASSUME Framing, NEW c \in Clients, StopSending(c)
  PROVE  Framing'
<1>1. /\ cpc[c] = "unlockOc" /\ cpc' = [cpc EXCEPT ![c] = "lockIc"] /\ ocLock' = Free
      /\ UNCHANGED <<chanels, icLock, request, callId, result, held, serverVars, heap,
                     answer, dead, stopped>>
  BY DEF StopSending, At, faults
<1>2. Types'
  BY <1>1 DEF Framing, Types, chanels, serverVars, CallPcs
<1>3. Locks' /\ Calls'
  BY <1>1 DEF Framing, Types, Locks, Calls, Sending, Receiving
<1>4. CallFrames' /\ CallWords' /\ ReturnFrames' /\ ReturnWords' /\ Server'
  BY <1>1, ClientMoves DEF Framing, Types, CallPcs, Waiting
<1> QED BY <1>2, <1>3, <1>4 DEF Framing

LEMMA ReceiveLockInv ==
  ASSUME Framing, NEW c \in Clients, ReceiveLock(c)
  PROVE  Framing'
<1>1. /\ cpc[c] = "lockIc" /\ cpc' = [cpc EXCEPT ![c] = "peek"]
      /\ icLock = Free /\ icLock' = c
      /\ UNCHANGED <<chanels, ocLock, request, callId, result, held, serverVars, heap,
                     answer, dead, stopped>>
  BY DEF ReceiveLock, At, faults
<1>2. Types'
  BY <1>1 DEF Framing, Types, chanels, serverVars, CallPcs
<1>3. Locks' /\ Calls'
  BY Zenon, <1>1, HeapManagerAssumption DEF Framing, Types, Locks, Calls, Sending, Receiving, Free
<1>4. CallFrames' /\ CallWords' /\ ReturnFrames' /\ ReturnWords' /\ Server'
  BY <1>1, ClientMoves DEF Framing, Types, CallPcs, Waiting
<1> QED BY <1>2, <1>3, <1>4 DEF Framing

LEMMA ReceiveRetryInv ==
  ASSUME Framing, NEW c \in Clients, ReceiveRetry(c)
  PROVE  Framing'
<1>1. /\ cpc[c] = "unlockRetry" /\ cpc' = [cpc EXCEPT ![c] = "lockIc"] /\ icLock' = Free
      /\ UNCHANGED <<chanels, ocLock, request, callId, result, held, serverVars, heap,
                     answer, dead, stopped>>
  BY DEF ReceiveRetry, At, faults
<1>2. Types'
  BY <1>1 DEF Framing, Types, chanels, serverVars, CallPcs
<1>3. Locks' /\ Calls'
  BY Zenon, <1>1 DEF Framing, Types, Locks, Calls, Sending, Receiving
<1>4. CallFrames' /\ CallWords' /\ ReturnFrames' /\ ReturnWords' /\ Server'
  BY <1>1, ClientMoves DEF Framing, Types, CallPcs, Waiting
<1> QED BY <1>2, <1>3, <1>4 DEF Framing

LEMMA StopReceivingInv ==
  ASSUME Framing, Heap, NEW c \in Clients, StopReceiving(c)
  PROVE  Framing'
<1>1. /\ cpc[c] = "unlockIc" /\ cpc' = [cpc EXCEPT ![c] = "idle"] /\ icLock' = Free
      /\ request' = [request EXCEPT ![c] = Idle] /\ result' = [result EXCEPT ![c] = 0]
      /\ answer' = [answer EXCEPT ![c] = Unanswered]
      /\ UNCHANGED <<chanels, ocLock, callId, serverVars, heap, dead, stopped>>
  BY DEF StopReceiving, At, faults
<1>2. held' \in [Clients -> SUBSET Pages]
  <2>1. CASE request[c].cmd = "alloc" /\ result[c] # 0
    <3>1. result[c] \in Pages
      <4>1. result[c] \in Owned(c)
        BY <1>1, <2>1 DEF Framing, Calls, Owned
      <4> QED BY <4>1 DEF Heap, Framing, Types, Blocks
    <3> QED BY <2>1, <3>1 DEF StopReceiving, Framing, Types
  <2>2. CASE ~(request[c].cmd = "alloc" /\ result[c] # 0)
    BY <2>2 DEF StopReceiving, Framing, Types
  <2> QED BY <2>1, <2>2
<1>3. Types'
  <2>1. Idle \in Requests /\ Unanswered \in Int /\ 0 \in Int
    BY DEF Idle, Requests, Cmds, Unanswered
  <2> QED BY <1>1, <1>2, <2>1 DEF Framing, Types, chanels, serverVars, CallPcs
<1>4. Locks'
  BY <1>1 DEF Framing, Types, Locks, Sending, Receiving
<1>5. Calls'
  BY <1>1 DEF Framing, Types, Calls, Idle
<1>6. CallFrames' /\ CallWords' /\ ReturnFrames' /\ ReturnWords' /\ Server'
  BY <1>1, ClientMoves DEF Framing, Types, CallPcs, Waiting
<1> QED BY <1>3, <1>4, <1>5, <1>6 DEF Framing

\* A client sends the next word of its message.
LEMMA SendInv ==
  ASSUME Framing, NEW c \in Clients, NEW k \in {"cmd", "callId", "arg"}, NEW v, NEW q,
         \/ k = "cmd" /\ cpc[c] = "sendCmd" /\ q = "sendCallId" /\ v = request[c].cmd
         \/ k = "callId" /\ cpc[c] = "sendCallId" /\ q = "sendArg" /\ v = callId[c]
         \/ k = "arg" /\ cpc[c] = "sendArg" /\ q = "unlockOc" /\ v = request[c].arg,
         Send(c, cpc[c], q, k, v)
  PROVE  Framing'
<1> DEFINE w == Word(k, v, c)
           n == Len(callChanel)
<1>1. /\ cpc' = [cpc EXCEPT ![c] = q] /\ n < Capacity /\ callChanel' = Append(callChanel, w)
      /\ UNCHANGED <<returnChanel, locks, request, callId, result, held, serverVars, heap,
                     answer, dead, stopped>>
  BY DEF Send, At, faults
<1>2. q \in CallPcs /\ cpc'[c] = q /\ \A d \in Clients \ {c} : cpc'[d] = cpc[d]
  BY <1>1 DEF CallPcs, Framing, Types
<1>3. /\ w \in Words /\ w.kind = k /\ w.val = v /\ w.from = c
  <2>1. v \in Int \cup Cmds
    BY DEF Framing, Types, Requests
  <2> QED BY <2>1 DEF Word, Words, Kinds
<1>4. /\ n \in Nat /\ callChanel' \in Seq(Words) /\ Len(callChanel') = n + 1
      /\ \A i \in 1..n : callChanel'[i] = callChanel[i]
      /\ callChanel'[n + 1] = w
  <2> HIDE DEF w
  <2> QED BY <1>1, <1>3, AppendFacts DEF Framing, Types
<1> HIDE DEF w, n
<1>5. Types'
  <2>1. Len(callChanel') <= Capacity
    BY <1>1, <1>4, HeapManagerAssumption DEF n
  <2> QED BY <1>1, <1>2, <1>4, <2>1 DEF Framing, Types, serverVars, locks
<1>6. Locks'
  BY <1>1, <1>2 DEF Framing, Types, Locks, Sending, Receiving, locks
<1>7. Calls'
  BY ZenonT(40), <1>1, <1>2 DEF Framing, Types, Calls
<1>8. \A d \in Clients \ {c} : cpc[d] \notin {"sendCmd", "sendCallId", "sendArg"}
  BY DEF Framing, Locks, Sending
<1>9. answer[c] = Unanswered
  BY DEF Framing, Calls
<1>10. /\ k = "cmd" => IF n = 0 THEN spc \notin {"callId", "arg"} ELSE callChanel[n].kind = "arg"
       /\ k = "callId" => IF n = 0 THEN spc = "callId" /\ sFrom = c
                          ELSE callChanel[n].kind = "cmd" /\ callChanel[n].from = c
       /\ k = "arg" => IF n = 0 THEN spc = "arg" /\ sFrom = c
                       ELSE callChanel[n].kind = "callId" /\ callChanel[n].from = c
  BY <1>8 DEF Framing, CallFrames, CallEnds, n
<1>11. CallFrames'
  <2>1. ASSUME NEW i \in 1..n
        PROVE  /\ callChanel'[i].kind = "cmd" => callChanel'[i + 1].kind = "callId"
               /\ callChanel'[i].kind = "callId" => callChanel'[i + 1].kind = "arg"
               /\ callChanel'[i].kind = "arg" => callChanel'[i + 1].kind = "cmd"
               /\ callChanel'[i].kind # "arg" => callChanel'[i + 1].from = callChanel'[i].from
    <3>1. CASE i = n
      BY <1>3, <1>4, <1>10, <3>1
    <3>2. CASE i # n
      <4>1. i \in 1..(n - 1) /\ i + 1 \in 1..n
        BY <1>4, <3>2
      <4> QED BY <1>4, <4>1 DEF Framing, CallFrames, n
    <3> QED BY <3>1, <3>2
  <2>2. IF spc' \in {"callId", "arg"}
        THEN callChanel'[1].kind = spc' /\ callChanel'[1].from = sFrom'
        ELSE callChanel'[1].kind = "cmd"
    <3>1. spc' = spc /\ sFrom' = sFrom
      BY <1>1 DEF serverVars
    <3>2. CASE n = 0
      BY <1>3, <1>4, <1>10, <3>1, <3>2
    <3>3. CASE n # 0
      <4>1. 1 \in 1..n
        BY <1>4, <3>3
      <4> QED BY <1>4, <3>1, <3>3, <4>1 DEF Framing, CallFrames, n
    <3> QED BY <3>2, <3>3
  <2>3. \A d \in Clients : /\ cpc'[d] = "sendCallId" => d = c /\ k = "cmd"
                           /\ cpc'[d] = "sendArg" => d = c /\ k = "callId"
    BY <1>2, <1>8
  <2>4. (\A d \in Clients : cpc'[d] \notin {"sendCallId", "sendArg"}) => k = "arg"
    BY <1>2
  <2>5. /\ Len(callChanel') # 0 /\ Len(callChanel') - 1 = n
        /\ callChanel'[Len(callChanel')].kind = k /\ callChanel'[Len(callChanel')].from = c
    BY <1>3, <1>4
  <2> QED BY <2>1, <2>2, <2>3, <2>4, <2>5 DEF CallFrames, CallEnds
<1>12. \A d \in Clients : \A j \in {"cmd", "callId", "arg"} :
         cpc[d] \in Sent(j) => cpc'[d] \in Sent(j)
  BY <1>2 DEF Sent, Waiting
<1>13. cpc[c] \notin Sent(k) /\ q \in Sent(k)
  BY DEF Sent, Waiting
<1>14. CallWords'
  <2>1. ASSUME NEW i \in 1..Len(callChanel')
        PROVE  LET u == callChanel'[i] IN
               /\ u.kind \in {"cmd", "callId", "arg"}
               /\ cpc'[u.from] \in Sent(u.kind) /\ answer'[u.from] = Unanswered
               /\ u.kind = "cmd" => u.val = request'[u.from].cmd
               /\ u.kind = "callId" => u.val = callId'[u.from]
               /\ u.kind = "arg" => u.val = request'[u.from].arg
    <3>1. CASE i = n + 1
      BY <1>1, <1>2, <1>3, <1>4, <1>9, <1>13, <3>1
    <3>2. CASE i # n + 1
      <4>1. i \in 1..n
        BY <1>4, <3>2
      <4> QED BY <1>1, <1>4, <1>12, <4>1, WordTypes DEF Framing, CallWords, n
    <3> QED BY <3>1, <3>2
  <2>2. ASSUME NEW i \in 1..n PROVE ~(callChanel[i].kind = k /\ callChanel[i].from = c)
    BY <1>13 DEF Framing, CallWords, n
  <2>3. ASSUME NEW i \in 1..Len(callChanel'), NEW j \in 1..Len(callChanel'),
               callChanel'[i].kind = callChanel'[j].kind,
               callChanel'[i].from = callChanel'[j].from
        PROVE  i = j
    <3>1. CASE i \in 1..n /\ j \in 1..n
      BY <1>4, <2>3, <3>1 DEF Framing, CallWords, n
    <3>2. CASE i = n + 1 /\ j \in 1..n
      BY <1>3, <1>4, <2>2, <2>3, <3>2
    <3>3. CASE i \in 1..n /\ j = n + 1
      BY <1>3, <1>4, <2>2, <2>3, <3>3
    <3> QED BY <1>4, <3>1, <3>2, <3>3
  <2> QED BY <2>1, <2>3 DEF CallWords
<1>15. ReturnFrames'
  BY <1>1, <1>2 DEF Framing, ReturnFrames, serverVars
<1>16. ReturnWords'
  <2>1. \A i \in 1..Len(returnChanel) : returnChanel[i].from \in Clients \ {c}
    BY <1>9, WordTypes DEF Framing, ReturnWords
  <2> QED BY SMTT(30), <1>1, <1>2, <2>1 DEF Framing, ReturnWords
<1>17. Server'
  <2>1. /\ spc' = spc /\ sFrom' = sFrom /\ sCmd' = sCmd /\ sCallId' = sCallId /\ sArg' = sArg
        /\ sResult' = sResult
    BY <1>1 DEF serverVars
  <2>2. spc # "cmd" => sFrom \in Clients /\ cpc'[sFrom] \in ServedAt(spc)
    BY <1>2 DEF Framing, Types, Server, ServedAt, Sent, Waiting
  <2>3. spc # "cmd" /\ sFrom = c => k \notin AlreadyRead(spc)
    BY DEF Framing, Types, Server, ServedAt, Sent, Waiting, AlreadyRead, ServePcs
  <2>4. ASSUME spc # "cmd", NEW i \in 1..Len(callChanel'), callChanel'[i].from = sFrom
        PROVE  callChanel'[i].kind \notin AlreadyRead(spc)
    <3>1. CASE i = n + 1
      BY <1>3, <1>4, <2>3, <2>4, <3>1
    <3>2. CASE i # n + 1
      <4>1. i \in 1..n
        BY <1>4, <3>2
      <4> QED BY <1>4, <2>4, <4>1 DEF Framing, Server, n
    <3> QED BY <3>1, <3>2
  <2> QED BY <1>1, <2>1, <2>2, <2>4 DEF Framing, Server
<1> QED BY <1>5, <1>6, <1>7, <1>11, <1>14, <1>15, <1>16, <1>17 DEF Framing

\* Who looks into the return channel has its lock, and finds a reply's begin.
LEMMA PeekFacts ==
  ASSUME Framing, NEW c \in Clients, cpc[c] = "peek"
  PROVE  /\ \A d \in Clients : cpc[d] # "receive"
         /\ Len(returnChanel) # 0 => returnChanel[1].kind = "callId"
<1>1. \A d \in Clients : cpc[d] # "receive"
  BY DEF Framing, Locks, Receiving
<1> QED BY <1>1 DEF Framing, ReturnFrames

LEMMA ReceivePeekInv ==
  ASSUME IdsDistinct, Framing, NEW c \in Clients, ReceivePeek(c)
  PROVE  Framing'
<1> DEFINE n == Len(returnChanel)
           w == returnChanel[1]
<1>1. /\ cpc[c] = "peek" /\ returnChanel # <<>>
      /\ UNCHANGED <<callChanel, locks, request, callId, result, held, serverVars, heap,
                     answer, dead, stopped>>
  BY DEF ReceivePeek, At, faults
<1>2. CASE Head(returnChanel).val # callId[c]
  <2>1. cpc' = [cpc EXCEPT ![c] = "unlockRetry"] /\ returnChanel' = returnChanel
    BY <1>2 DEF ReceivePeek, At
  <2>2. Types'
    BY <1>1, <2>1 DEF Framing, Types, serverVars, locks, CallPcs
  <2>3. Locks' /\ Calls'
    BY Zenon, <1>1, <2>1 DEF Framing, Types, Locks, Calls, Sending, Receiving, locks
  <2>4. CallFrames' /\ CallWords' /\ ReturnFrames' /\ ReturnWords' /\ Server'
    BY <1>1, <2>1, ClientMoves DEF Framing, Types, CallPcs, Waiting, chanels
  <2> QED BY <2>2, <2>3, <2>4 DEF Framing
<1>3. CASE Head(returnChanel).val = callId[c]
  <2>1. /\ cpc' = [cpc EXCEPT ![c] = "receive"] /\ returnChanel' = Tail(returnChanel)
        /\ cpc'[c] = "receive" /\ \A d \in Clients \ {c} : cpc'[d] = cpc[d]
    BY <1>3 DEF ReceivePeek, At, Framing, Types
  <2>2. /\ n \in Nat \ {0} /\ Head(returnChanel) = w /\ Len(returnChanel') = n - 1
        /\ returnChanel' \in Seq(Words)
        /\ \A i \in 1..(n - 1) : returnChanel'[i] = returnChanel[i + 1] /\ i + 1 \in 1..n
    BY <1>1, <2>1, TailFacts DEF Framing, Types
  <2>3. /\ w.kind = "callId" /\ w.from \in Clients /\ answer[w.from] # Unanswered
        /\ w.val = callId[w.from] /\ cpc[w.from] \in Waiting
    <3>1. 1 \in 1..n
      BY <2>2
    <3> QED BY <1>1, <2>2, <3>1, PeekFacts, WordTypes DEF Framing, ReturnWords
  <2>4. w.from = c
    BY <1>1, <1>3, <2>2, <2>3 DEF Framing, Calls, IdsDistinct, Waiting
  <2> HIDE DEF n, w
  <2>5. Types'
    <3>1. Len(returnChanel') <= Capacity
      BY <2>2, HeapManagerAssumption DEF Framing, Types, n
    <3> QED BY <1>1, <2>1, <2>2, <3>1 DEF Framing, Types, serverVars, locks, CallPcs
  <2>6. Locks' /\ Calls'
    BY Zenon, <1>1, <2>1 DEF Framing, Types, Locks, Calls, Sending, Receiving, locks
  <2>7. CallFrames'
    BY <1>1, <2>1 DEF Framing, CallFrames, CallEnds, serverVars
  <2>8. CallWords'
    <3>1. \A i \in 1..Len(callChanel) : callChanel[i].from \in Clients \ {c}
      BY <2>3, <2>4, WordTypes DEF Framing, CallWords
    <3> QED BY <1>1, <2>1, <3>1 DEF Framing, CallWords
  <2>9. ReturnFrames'
    <3>1. ASSUME NEW i \in 1..(n - 1 - 1)
          PROVE  /\ returnChanel'[i].kind = "callId"
                      => /\ returnChanel'[i + 1].kind = "result"
                         /\ returnChanel'[i + 1].from = returnChanel'[i].from
                 /\ returnChanel'[i].kind = "result" => returnChanel'[i + 1].kind = "callId"
      <4>1. i \in 1..(n - 1) /\ i + 1 \in 1..(n - 1)
        BY <2>2
      <4>2. /\ returnChanel[i + 1].kind = "callId"
                 => /\ returnChanel[i + 1 + 1].kind = "result"
                    /\ returnChanel[i + 1 + 1].from = returnChanel[i + 1].from
            /\ returnChanel[i + 1].kind = "result" => returnChanel[i + 1 + 1].kind = "callId"
        BY Zenon, <4>1 DEF Framing, ReturnFrames, n
      <4> QED BY Zenon, <2>2, <4>1, <4>2
    <3>2. IF n - 1 = 0 THEN spc = "sendResult" /\ sFrom = c
          ELSE returnChanel'[1].kind = "result" /\ returnChanel'[1].from = c
      <4>1. CASE n - 1 = 0
        <5>1. n = 1
          BY <2>2, <4>1
        <5>2. Len(returnChanel) = 1 /\ returnChanel[Len(returnChanel)] = w
          BY <5>1 DEF n, w
        <5> QED BY <2>3, <2>4, <4>1, <5>2 DEF Framing, ReturnFrames
      <4>2. CASE n - 1 # 0
        <5>1. 1 \in 1..(n - 1)
          BY <2>2, <4>2
        <5> QED BY <2>2, <2>3, <2>4, <4>2, <5>1 DEF Framing, ReturnFrames, n, w
      <4> QED BY <4>1, <4>2
    <3>3. n - 1 # 0 => returnChanel'[n - 1] = returnChanel[n]
      BY <2>2
    <3>4. \A d \in Clients : cpc'[d] = "receive" => d = c
      BY <1>1, <2>1, PeekFacts
    <3>5. spc' = spc /\ sFrom' = sFrom
      BY <1>1 DEF serverVars
    <3> QED BY <2>1, <2>2, <3>1, <3>2, <3>3, <3>4, <3>5 DEF Framing, ReturnFrames, n
  <2>10. ASSUME NEW i \in 1..(n - 1)
         PROVE  /\ returnChanel'[i] = returnChanel[i + 1] /\ i + 1 \in 1..n /\ i + 1 # 1
                /\ returnChanel[i + 1].from \in Clients
                /\ returnChanel'[i].from = c => returnChanel'[i].kind # "callId"
    <3>1. returnChanel'[i] = returnChanel[i + 1] /\ i + 1 \in 1..n /\ i + 1 # 1 /\ 1 \in 1..n
      BY <2>2
    <3> QED BY <2>3, <2>4, <3>1, WordTypes DEF Framing, ReturnWords, n, w
  <2>11. ReturnWords'
    <3>1. ASSUME NEW i \in 1..(n - 1)
          PROVE  LET u == returnChanel'[i] IN
                 /\ u.kind \in {"callId", "result"} /\ answer'[u.from] # Unanswered
                 /\ u.kind = "callId" => u.val = callId'[u.from] /\ cpc'[u.from] \in Waiting
                 /\ u.kind = "result" => /\ u.val = answer'[u.from]
                                         /\ cpc'[u.from] \in Waiting \cup {"receive"}
      <4>1. CASE returnChanel'[i].from = c
        BY <1>1, <2>1, <2>10, <4>1 DEF Framing, ReturnWords, n
      <4>2. CASE returnChanel'[i].from # c
        BY <1>1, <2>1, <2>10, <4>2 DEF Framing, ReturnWords, n
      <4> QED BY <4>1, <4>2
    <3>2. \A i, j \in 1..(n - 1) :
            returnChanel'[i].kind = returnChanel'[j].kind
              /\ returnChanel'[i].from = returnChanel'[j].from => i = j
      <4> SUFFICES ASSUME NEW i \in 1..(n - 1), NEW j \in 1..(n - 1),
                          returnChanel'[i].kind = returnChanel'[j].kind,
                          returnChanel'[i].from = returnChanel'[j].from
                   PROVE  i = j
        OBVIOUS
      <4>1. i + 1 = j + 1
        BY <2>10 DEF Framing, ReturnWords, n
      <4> QED BY <4>1, <2>2
    <3> QED BY Zenon, <2>2, <3>1, <3>2 DEF ReturnWords
  <2>12. Server'
    <3>1. /\ spc' = spc /\ sFrom' = sFrom /\ sCmd' = sCmd /\ sCallId' = sCallId /\ sArg' = sArg
          /\ sResult' = sResult
      BY <1>1 DEF serverVars
    <3>2. 1 \in 1..n
      BY <2>2
    <3>3. sFrom = c /\ spc # "cmd" => spc = "sendResult"
      BY <2>4, <3>2 DEF Framing, Server, n, w
    <3>4. spc # "cmd" => cpc'[sFrom] \in ServedAt(spc)
      BY <2>1, <3>3 DEF Framing, Types, Server, ServedAt
    <3>5. spc # "cmd" => \A i \in 1..Len(returnChanel') :
             returnChanel'[i].from = sFrom => spc = "sendResult" /\ returnChanel'[i].kind = "callId"
      BY <2>2, <2>10 DEF Framing, Server, n
    <3> QED BY <1>1, <3>1, <3>4, <3>5 DEF Framing, Server
  <2> QED BY <2>5, <2>6, <2>7, <2>8, <2>9, <2>11, <2>12 DEF Framing
<1> QED BY <1>2, <1>3

LEMMA ReceiveResultInv ==
  ASSUME Framing, NEW c \in Clients, ReceiveResult(c)
  PROVE  Framing'
<1> DEFINE n == Len(returnChanel)
           w == returnChanel[1]
<1>1. /\ cpc[c] = "receive" /\ returnChanel # <<>>
      /\ cpc' = [cpc EXCEPT ![c] = "unlockIc"] /\ returnChanel' = Tail(returnChanel)
      /\ result' = [result EXCEPT ![c] = Head(returnChanel).val]
      /\ UNCHANGED <<callChanel, locks, request, callId, held, serverVars, heap, answer,
                     dead, stopped>>
  BY DEF ReceiveResult, At, faults
<1>2. cpc'[c] = "unlockIc" /\ \A d \in Clients \ {c} : cpc'[d] = cpc[d]
  BY <1>1 DEF Framing, Types
<1>3. /\ n \in Nat \ {0} /\ Head(returnChanel) = w /\ Len(returnChanel') = n - 1
      /\ returnChanel' \in Seq(Words)
      /\ \A i \in 1..(n - 1) : returnChanel'[i] = returnChanel[i + 1] /\ i + 1 \in 1..n
  BY <1>1, TailFacts DEF Framing, Types
<1>4. /\ w.kind = "result" /\ w.from = c /\ answer[c] # Unanswered /\ w.val = answer[c]
  <2>1. 1 \in 1..n
    BY <1>3
  <2>2. w.kind = "result" /\ w.from = c
    BY <1>1, <1>3 DEF Framing, ReturnFrames
  <2> QED BY <2>1, <2>2 DEF Framing, ReturnWords
<1>a. \A d \in Clients : cpc'[d] # "receive"
  BY <1>1, <1>2 DEF Framing, Locks, Receiving
<1> HIDE DEF n, w
<1>5. Types'
  <2>1. Len(returnChanel') <= Capacity
    BY <1>3, HeapManagerAssumption DEF Framing, Types, n
  <2>2. result' \in [Clients -> Int]
    BY <1>1, <1>3, <1>4 DEF Framing, Types
  <2> QED BY <1>1, <1>3, <2>1, <2>2 DEF Framing, Types, serverVars, locks, CallPcs
<1>6. Locks'
  BY <1>1, <1>2 DEF Framing, Types, Locks, Sending, Receiving, locks
<1>7. Calls'
  <2>1. Calls /\ UNCHANGED <<request, callId, answer>>
    BY Zenon, <1>1 DEF Framing
  <2>2. result'[c] = answer[c] /\ \A d \in Clients \ {c} : result'[d] = result[d]
    BY <1>1, <1>3, <1>4 DEF Framing, Types
  <2> QED BY <1>1, <1>2, <1>4, <2>1, <2>2 DEF Calls
<1>8. CallFrames'
  BY <1>1, <1>2 DEF Framing, CallFrames, CallEnds, serverVars
<1>9. CallWords'
  <2>1. \A i \in 1..Len(callChanel) : callChanel[i].from \in Clients \ {c}
    BY <1>4, WordTypes DEF Framing, CallWords
  <2>2. CallWords /\ UNCHANGED <<callChanel, request, callId, answer>>
    BY Zenon, <1>1 DEF Framing
  <2> QED BY <1>2, <2>1, <2>2 DEF CallWords
<1>10. ReturnFrames'
  <2>1. ASSUME NEW i \in 1..(n - 1 - 1)
        PROVE  /\ returnChanel'[i].kind = "callId"
                    => /\ returnChanel'[i + 1].kind = "result"
                       /\ returnChanel'[i + 1].from = returnChanel'[i].from
               /\ returnChanel'[i].kind = "result" => returnChanel'[i + 1].kind = "callId"
    <3>1. i \in 1..(n - 1) /\ i + 1 \in 1..(n - 1)
      BY <1>3
    <3>2. /\ returnChanel[i + 1].kind = "callId"
               => /\ returnChanel[i + 1 + 1].kind = "result"
                  /\ returnChanel[i + 1 + 1].from = returnChanel[i + 1].from
          /\ returnChanel[i + 1].kind = "result" => returnChanel[i + 1 + 1].kind = "callId"
      BY Zenon, <3>1 DEF Framing, ReturnFrames, n
    <3> QED BY Zenon, <1>3, <3>1, <3>2
  <2>2. IF n - 1 = 0 THEN spc # "sendResult" ELSE returnChanel'[1].kind = "callId"
    <3>1. CASE n - 1 = 0
      <4>1. n = 1
        BY <1>3, <3>1
      <4>2. Len(returnChanel) = 1 /\ returnChanel[Len(returnChanel)] = w
        BY <4>1 DEF n, w
      <4> QED BY <1>4, <3>1, <4>2 DEF Framing, ReturnFrames
    <3>2. CASE n - 1 # 0
      <4>1. 1 \in 1..(n - 1)
        BY <1>3, <3>2
      <4> QED BY <1>3, <1>4, <3>2, <4>1 DEF Framing, ReturnFrames, n, w
    <3> QED BY <3>1, <3>2
  <2>3. n - 1 # 0 => returnChanel'[n - 1] = returnChanel[n]
    BY <1>3
  <2>4. spc' = spc /\ sFrom' = sFrom
    BY <1>1 DEF serverVars
  <2> QED BY Zenon, <1>a, <1>3, <2>1, <2>2, <2>3, <2>4 DEF Framing, ReturnFrames, n
<1>11. ASSUME NEW i \in 1..(n - 1)
       PROVE  /\ returnChanel'[i] = returnChanel[i + 1] /\ i + 1 \in 1..n
              /\ returnChanel'[i].from \in Clients \ {c}
  <2>1. returnChanel'[i] = returnChanel[i + 1] /\ i + 1 \in 1..n /\ i + 1 # 1 /\ 1 \in 1..n
    BY <1>3
  <2>2. returnChanel'[i].from \in Clients
    BY <2>1, WordTypes DEF Framing, n
  <2>3. returnChanel'[i].from # c
    <3> SUFFICES ASSUME returnChanel'[i].from = c PROVE FALSE
      OBVIOUS
    <3>1. returnChanel[i + 1].kind # "callId"
      BY <1>1, <2>1 DEF Framing, ReturnWords, n, Waiting
    <3>2. returnChanel[i + 1].kind = w.kind
      BY <1>4, <2>1, <3>1 DEF Framing, ReturnWords, n
    <3> QED BY <1>4, <2>1, <3>2 DEF Framing, ReturnWords, n, w
  <2> QED BY <2>1, <2>2, <2>3
<1>12. ReturnWords'
  <2>1. ASSUME NEW i \in 1..(n - 1)
        PROVE  LET u == returnChanel'[i] IN
               /\ u.kind \in {"callId", "result"} /\ answer'[u.from] # Unanswered
               /\ u.kind = "callId" => u.val = callId'[u.from] /\ cpc'[u.from] \in Waiting
               /\ u.kind = "result" => /\ u.val = answer'[u.from]
                                       /\ cpc'[u.from] \in Waiting \cup {"receive"}
    BY <1>1, <1>2, <1>11 DEF Framing, ReturnWords, n
  <2>2. \A i, j \in 1..(n - 1) :
          returnChanel'[i].kind = returnChanel'[j].kind
            /\ returnChanel'[i].from = returnChanel'[j].from => i = j
    <3> SUFFICES ASSUME NEW i \in 1..(n - 1), NEW j \in 1..(n - 1),
                        returnChanel'[i].kind = returnChanel'[j].kind,
                        returnChanel'[i].from = returnChanel'[j].from
                 PROVE  i = j
      OBVIOUS
    <3>1. i + 1 = j + 1
      BY <1>11 DEF Framing, ReturnWords, n
    <3> QED BY <3>1, <1>3
  <2> QED BY <1>3, <2>1, <2>2 DEF ReturnWords
<1>13. Server'
  <2>1. /\ spc' = spc /\ sFrom' = sFrom /\ sCmd' = sCmd /\ sCallId' = sCallId /\ sArg' = sArg
        /\ sResult' = sResult
    BY <1>1 DEF serverVars
  <2>2. 1 \in 1..n
    BY <1>3
  <2>3. spc # "cmd" => sFrom # c
    BY <1>4, <2>2 DEF Framing, Server, n, w
  <2>4. spc # "cmd" => cpc'[sFrom] \in ServedAt(spc)
    BY <1>2, <2>3 DEF Framing, Types, Server
  <2>5. spc # "cmd" => \A i \in 1..Len(returnChanel') :
           returnChanel'[i].from = sFrom => spc = "sendResult" /\ returnChanel'[i].kind = "callId"
    <3> SUFFICES ASSUME spc # "cmd", NEW i \in 1..(n - 1), returnChanel'[i].from = sFrom
                 PROVE  spc = "sendResult" /\ returnChanel'[i].kind = "callId"
      BY <1>3
    <3>1. returnChanel[i + 1].from = sFrom /\ i + 1 \in 1..n
      BY <1>11
    <3>2. spc = "sendResult" /\ returnChanel[i + 1].kind = "callId"
      BY <3>1 DEF Framing, Server, n
    <3> QED BY <1>11, <3>2
  <2> QED BY <1>1, <2>1, <2>4, <2>5 DEF Framing, Server
<1> QED BY <1>5, <1>6, <1>7, <1>8, <1>9, <1>10, <1>12, <1>13 DEF Framing

-----------------------------------------------------------------------------
(* Steps of the server.                                                    *)

\* The next word of the call channel is the one the server waits for.
LEMMA CallHead ==
  ASSUME Framing, callChanel # <<>>, spc \in {"cmd", "callId", "arg"}
  PROVE  /\ Head(callChanel) = callChanel[1] /\ callChanel[1].from \in Clients
         /\ callChanel[1].kind = spc
         /\ spc # "cmd" => callChanel[1].from = sFrom
         /\ cpc[callChanel[1].from] \in Sent(spc)
         /\ answer[callChanel[1].from] = Unanswered
<1>1. /\ Len(callChanel) # 0 /\ Head(callChanel) = callChanel[1] /\ 1 \in 1..Len(callChanel)
  BY TailFacts DEF Framing, Types
<1>2. callChanel[1].kind = spc /\ (spc # "cmd" => callChanel[1].from = sFrom)
  BY <1>1 DEF Framing, CallFrames
<1> QED BY <1>1, <1>2, WordTypes DEF Framing, CallWords

\* The server reads the next word of a message.
After(p) == CASE p = "cmd" -> "callId" [] p = "callId" -> "arg" [] OTHER -> "serve"

LEMMA ReceiveInv ==
  ASSUME Framing, spc \in {"cmd", "callId", "arg"}, Receive(spc, After(spc)),
         sFrom' = callChanel[1].from,
         sResult' = sResult,
         sCmd' = IF spc = "cmd" THEN callChanel[1].val ELSE sCmd,
         sCallId' = IF spc = "callId" THEN callChanel[1].val ELSE sCallId,
         spc = "arg" => sArg' = callChanel[1].val
  PROVE  Framing'
<1> DEFINE n == Len(callChanel)
           w == callChanel[1]
<1>0. PICK q : /\ Receive(spc, q)
               /\ \/ spc = "cmd" /\ q = "callId"
                  \/ spc = "callId" /\ q = "arg"
                  \/ spc = "arg" /\ q = "serve"
  BY DEF After
<1> USE <1>0
<1>1. /\ callChanel # <<>> /\ callChanel' = Tail(callChanel) /\ spc' = q
      /\ UNCHANGED <<returnChanel, locks, clientVars, heap, answer, dead, stopped>>
  BY DEF Receive, faults
<1>a. UNCHANGED <<cpc, request, callId, result, held>>
  BY <1>1 DEF clientVars
<1>2. /\ n \in Nat \ {0} /\ Len(callChanel') = n - 1 /\ callChanel' \in Seq(Words)
      /\ \A i \in 1..(n - 1) : callChanel'[i] = callChanel[i + 1] /\ i + 1 \in 1..n
  BY <1>1, TailFacts DEF Framing, Types
<1>3. /\ w.from \in Clients /\ w.kind = spc /\ (spc # "cmd" => w.from = sFrom)
      /\ cpc[w.from] \in Sent(spc) /\ answer[w.from] = Unanswered
  BY <1>1, CallHead
<1>4. 1 \in 1..n /\ n \in 1..n
  BY <1>2
<1>5. Types'
  <2>1. Len(callChanel') <= Capacity
    BY <1>2, HeapManagerAssumption DEF Framing, Types, n
  <2>2. spc' \in ServePcs /\ sFrom' \in Clients \cup {None} /\ sResult' \in Int
    BY <1>1, <1>3 DEF Framing, Types, ServePcs
  <2> QED BY <1>1, <1>a, <1>2, <2>1, <2>2 DEF Framing, Types, locks
<1>6. Locks' /\ Calls'
  BY <1>1, <1>a DEF Framing, Locks, Calls, locks
<1> HIDE DEF n, w
<1>7. CallFrames'
  <2>1. ASSUME NEW i \in 1..(n - 1 - 1)
        PROVE  /\ callChanel'[i].kind = "cmd" => callChanel'[i + 1].kind = "callId"
               /\ callChanel'[i].kind = "callId" => callChanel'[i + 1].kind = "arg"
               /\ callChanel'[i].kind = "arg" => callChanel'[i + 1].kind = "cmd"
               /\ callChanel'[i].kind # "arg" => callChanel'[i + 1].from = callChanel'[i].from
    <3>1. i \in 1..(n - 1) /\ i + 1 \in 1..(n - 1)
      BY <1>2
    <3> QED BY SMTT(30), <1>2, <3>1 DEF Framing, CallFrames, n
  <2>2. n - 1 # 0 => IF q \in {"callId", "arg"}
                     THEN callChanel'[1].kind = q /\ callChanel'[1].from = w.from
                     ELSE callChanel'[1].kind = "cmd"
    <3> SUFFICES ASSUME n - 1 # 0
                 PROVE  IF q \in {"callId", "arg"}
                        THEN callChanel'[1].kind = q /\ callChanel'[1].from = w.from
                        ELSE callChanel'[1].kind = "cmd"
      OBVIOUS
    <3>1. 1 \in 1..(n - 1) /\ callChanel'[1] = callChanel[1 + 1]
      BY <1>2
    <3> QED BY <1>3, <3>1 DEF Framing, CallFrames, n, w
  <2>3. /\ n - 1 # 0 => callChanel'[n - 1] = callChanel[n]
        /\ n - 1 = 0 => w = callChanel[n]
    BY <1>2 DEF w
  <2>4. n # 0
    BY <1>2
  <2>5. ASSUME NEW d \in Clients, cpc[d] = "sendCallId"
        PROVE  IF n - 1 = 0 THEN q = "callId" /\ w.from = d
               ELSE callChanel'[n - 1].kind = "cmd" /\ callChanel'[n - 1].from = d
    <3>1. callChanel[n].kind = "cmd" /\ callChanel[n].from = d
      BY <2>4, <2>5 DEF Framing, CallFrames, CallEnds, n
    <3> QED BY <1>3, <2>3, <3>1
  <2>6. ASSUME NEW d \in Clients, cpc[d] = "sendArg"
        PROVE  IF n - 1 = 0 THEN q = "arg" /\ w.from = d
               ELSE callChanel'[n - 1].kind = "callId" /\ callChanel'[n - 1].from = d
    <3>1. callChanel[n].kind = "callId" /\ callChanel[n].from = d
      BY <2>4, <2>6 DEF Framing, CallFrames, CallEnds, n
    <3> QED BY <1>3, <2>3, <3>1
  <2>7. (\A c \in Clients : cpc[c] \notin {"sendCallId", "sendArg"}) =>
           IF n - 1 = 0 THEN q \notin {"callId", "arg"} ELSE callChanel'[n - 1].kind = "arg"
    <3> SUFFICES ASSUME \A c \in Clients : cpc[c] \notin {"sendCallId", "sendArg"}
                 PROVE  IF n - 1 = 0 THEN q \notin {"callId", "arg"}
                        ELSE callChanel'[n - 1].kind = "arg"
      OBVIOUS
    <3>1. callChanel[n].kind = "arg"
      BY <2>4 DEF Framing, CallFrames, n
    <3> QED BY <1>3, <2>3, <3>1
  <2>8. sFrom' = w.from
    BY DEF w
  <2> QED BY <1>1, <1>a, <1>2, <2>1, <2>2, <2>5, <2>6, <2>7, <2>8 DEF CallFrames, CallEnds
<1>8. ASSUME NEW i \in 1..(n - 1)
      PROVE  /\ callChanel'[i] = callChanel[i + 1] /\ i + 1 \in 1..n
             /\ callChanel'[i].from = w.from => callChanel'[i].kind # spc
  <2>1. callChanel'[i] = callChanel[i + 1] /\ i + 1 \in 1..n /\ i + 1 # 1
    BY <1>2
  <2> QED BY <1>3, <1>4, <2>1 DEF Framing, CallWords, n, w
<1>9. CallWords'
  <2>1. ASSUME NEW i \in 1..(n - 1)
        PROVE  LET u == callChanel'[i] IN
               /\ u.kind \in {"cmd", "callId", "arg"}
               /\ cpc'[u.from] \in Sent(u.kind) /\ answer'[u.from] = Unanswered
               /\ u.kind = "cmd" => u.val = request'[u.from].cmd
               /\ u.kind = "callId" => u.val = callId'[u.from]
               /\ u.kind = "arg" => u.val = request'[u.from].arg
    BY <1>1, <1>a, <1>8 DEF Framing, CallWords, n
  <2>2. \A i, j \in 1..(n - 1) :
          callChanel'[i].kind = callChanel'[j].kind /\ callChanel'[i].from = callChanel'[j].from
            => i = j
    <3> SUFFICES ASSUME NEW i \in 1..(n - 1), NEW j \in 1..(n - 1),
                        callChanel'[i].kind = callChanel'[j].kind,
                        callChanel'[i].from = callChanel'[j].from
                 PROVE  i = j
      OBVIOUS
    <3>1. i + 1 = j + 1
      BY <1>8 DEF Framing, CallWords, n
    <3> QED BY <3>1, <1>2
  <2> QED BY <1>2, <2>1, <2>2 DEF CallWords
<1>10. ReturnFrames' /\ ReturnWords'
  BY Zenon, <1>1, <1>a DEF Framing, ReturnFrames, ReturnWords
<1>11. Server'
  <2>1. sFrom' = w.from /\ spc' = q /\ q # "cmd" /\ sFrom' # None
    BY <1>1, <1>3, HeapManagerAssumption DEF w, None
  <2>2. cpc'[w.from] \in ServedAt(q)
    BY <1>a, <1>3 DEF ServedAt, Sent
  <2>3. /\ spc = "cmd" => w.val = request[w.from].cmd
        /\ spc = "callId" => w.val = callId[w.from]
        /\ spc = "arg" => w.val = request[w.from].arg
    BY <1>3, <1>4 DEF Framing, CallWords, n, w
  <2>4. /\ sCmd' = request'[w.from].cmd
        /\ q # "callId" => sCallId' = callId'[w.from]
        /\ q = "serve" => sArg' = request'[w.from].arg
    BY <1>a, <1>3, <2>3 DEF Framing, Server, w
  <2>5. ASSUME NEW i \in 1..(n - 1), callChanel'[i].from = w.from
        PROVE  callChanel'[i].kind \notin AlreadyRead(q)
    <3>1. spc # "cmd" => callChanel[i + 1].kind \notin AlreadyRead(spc)
      BY <1>3, <1>8, <2>5 DEF Framing, Server, n
    <3> QED BY <1>8, <2>5, <3>1 DEF AlreadyRead
  <2>6. \A i \in 1..Len(returnChanel') : returnChanel'[i].from # w.from
    BY <1>1, <1>3 DEF Framing, ReturnWords
  <2> QED BY <1>1, <1>2, <1>3, <2>1, <2>2, <2>4, <2>5, <2>6 DEF Server
<1> QED BY <1>5, <1>6, <1>7, <1>9, <1>10, <1>11 DEF Framing

LEMMA DispatchInv == ASSUME Framing, Dispatch PROVE Framing'
<1>1. spc = "cmd" /\ callChanel # <<>> /\ Receive(spc, After(spc))
  BY DEF Dispatch, Receive, After
<1>2. Head(callChanel) = callChanel[1]
  BY <1>1, CallHead
<1>3. /\ sFrom' = callChanel[1].from /\ sResult' = sResult
      /\ sCmd' = IF spc = "cmd" THEN callChanel[1].val ELSE sCmd
      /\ sCallId' = IF spc = "callId" THEN callChanel[1].val ELSE sCallId
      /\ spc = "arg" => sArg' = callChanel[1].val
  BY <1>1, <1>2 DEF Dispatch
<1> QED BY <1>1, <1>3, ReceiveInv

LEMMA ReceiveCallIdInv == ASSUME Framing, ReceiveCallId PROVE Framing'
<1>1. spc = "callId" /\ callChanel # <<>> /\ Receive(spc, After(spc))
  BY DEF ReceiveCallId, Receive, After
<1>2. Head(callChanel) = callChanel[1] /\ sFrom = callChanel[1].from
  BY <1>1, CallHead
<1>3. /\ sFrom' = callChanel[1].from /\ sResult' = sResult
      /\ sCmd' = IF spc = "cmd" THEN callChanel[1].val ELSE sCmd
      /\ sCallId' = IF spc = "callId" THEN callChanel[1].val ELSE sCallId
      /\ spc = "arg" => sArg' = callChanel[1].val
  BY <1>1, <1>2 DEF ReceiveCallId
<1> QED BY <1>1, <1>3, ReceiveInv

LEMMA ReceiveArgInv == ASSUME Framing, ReceiveArg PROVE Framing'
<1>1. spc = "arg" /\ callChanel # <<>> /\ Receive(spc, After(spc))
  BY DEF ReceiveArg, Receive, After
<1>2. Head(callChanel) = callChanel[1] /\ sFrom = callChanel[1].from
  BY <1>1, CallHead
<1>3. /\ sFrom' = callChanel[1].from /\ sResult' = sResult
      /\ sCmd' = IF spc = "cmd" THEN callChanel[1].val ELSE sCmd
      /\ sCallId' = IF spc = "callId" THEN callChanel[1].val ELSE sCallId
      /\ spc = "arg" => sArg' = callChanel[1].val
  BY <1>1, <1>2 DEF ReceiveArg
<1> QED BY <1>1, <1>3, ReceiveInv

\* What the handler does with the call it has read: it takes pages from
\* nobody, or frees those that the call gives back.
LEMMA ServeFacts ==
  ASSUME Framing, Serve
  PROVE  /\ sFrom \in Clients /\ sFrom # None /\ spc = "serve" /\ spc' = "sendCallId"
         /\ cpc[sFrom] \in Waiting /\ answer[sFrom] = Unanswered
         /\ answer' = [answer EXCEPT ![sFrom] = sResult']
         /\ \/ /\ request[sFrom].cmd = "alloc"
               /\ \E b \in Fitting(request[sFrom].arg, heap) :
                    heap' = heap \cup {b} /\ sResult' = b.at
            \/ request[sFrom].cmd = "alloc" /\ heap' = heap /\ sResult' = 0
            \/ /\ request[sFrom].cmd = "free"
               /\ heap' = {b \in heap : b.at # request[sFrom].arg} /\ sResult' = 0
         /\ UNCHANGED <<chanels, locks, clientVars, sCmd, sCallId, sArg, sFrom, dead, stopped>>
<1>1. /\ spc = "serve" /\ spc' = "sendCallId"
      /\ answer' = [answer EXCEPT ![sFrom] = sResult']
      /\ UNCHANGED <<chanels, locks, clientVars, sCmd, sCallId, sArg, sFrom, dead, stopped>>
  BY DEF Serve, faults
<1>2. /\ sFrom \in Clients /\ sFrom # None /\ cpc[sFrom] \in Waiting
      /\ answer[sFrom] = Unanswered
      /\ sCmd = request[sFrom].cmd /\ sArg = request[sFrom].arg
  BY <1>1 DEF Framing, Types, Server, ServedAt
<1>3. \/ sCmd = "alloc" /\ gvAlloc(sArg)
      \/ sCmd = "free" /\ gvFree(sArg)
  BY DEF Serve
<1>4. \/ /\ sCmd = "alloc"
         /\ \E b \in Fitting(sArg, heap) : heap' = heap \cup {b} /\ sResult' = b.at
      \/ sCmd = "alloc" /\ heap' = heap /\ sResult' = 0
      \/ sCmd = "free" /\ heap' = {b \in heap : b.at # sArg} /\ sResult' = 0
  BY <1>3 DEF gvAlloc, gvFree
<1> QED BY <1>1, <1>2, <1>4

LEMMA ServeInv == ASSUME Framing, Serve PROVE Framing'
<1>1. /\ sFrom \in Clients /\ sFrom # None /\ spc = "serve" /\ spc' = "sendCallId"
      /\ cpc[sFrom] \in Waiting /\ answer[sFrom] = Unanswered
      /\ answer' = [answer EXCEPT ![sFrom] = sResult']
      /\ UNCHANGED <<callChanel, returnChanel, ocLock, icLock, cpc, request, callId, result,
                     held, sCmd, sCallId, sArg, sFrom, dead, stopped>>
  BY ServeFacts DEF chanels, locks, clientVars
<1>2. sResult' \in Int /\ sResult' # Unanswered /\ heap' \subseteq Blocks
  <2>1. CASE /\ request[sFrom].cmd = "alloc"
             /\ \E b \in Fitting(request[sFrom].arg, heap) :
                  heap' = heap \cup {b} /\ sResult' = b.at
    <3>1. PICK b \in Fitting(request[sFrom].arg, heap) : heap' = heap \cup {b} /\ sResult' = b.at
      BY <2>1
    <3>2. request[sFrom].arg \in Lengths
      BY <1>1, <2>1 DEF Framing, Calls
    <3>3. b \in Blocks /\ b.at \in Pages
      BY <3>2 DEF Fitting, Blocks
    <3>4. sResult' \in Int /\ sResult' # Unanswered
      <4>1. b.at \in Nat
        BY <3>3, HeapManagerAssumption
      <4> QED BY <3>1, <4>1 DEF Unanswered
    <3>5. heap' \subseteq Blocks
      BY <3>1, <3>3 DEF Framing, Types
    <3> QED BY <3>4, <3>5
  <2>2. CASE sResult' = 0 /\ heap' \subseteq heap
    BY <2>2 DEF Framing, Types, Unanswered
  <2> QED BY <2>1, <2>2, ServeFacts
<1>3. answer'[sFrom] = sResult' /\ \A d \in Clients \ {sFrom} : answer'[d] = answer[d]
  BY <1>1 DEF Framing, Types
<1>4. Types'
  <2>1. answer' \in [Clients -> Int]
    BY <1>1, <1>2 DEF Framing, Types
  <2>2. spc' \in ServePcs /\ sFrom' \in Clients \cup {None}
    BY <1>1 DEF ServePcs
  <2> QED BY <1>1, <1>2, <2>1, <2>2 DEF Framing, Types
<1>5. Locks'
  BY <1>1 DEF Framing, Locks
<1>6. Calls'
  BY <1>1, <1>3 DEF Framing, Calls, Waiting
<1>7. CallFrames'
  BY <1>1 DEF Framing, CallFrames, CallEnds
<1>8. CallWords'
  <2>1. \A i \in 1..Len(callChanel) : callChanel[i].from \in Clients \ {sFrom}
    BY <1>1, WordTypes DEF Framing, CallWords, Server, AlreadyRead
  <2> QED BY <1>1, <1>3, <2>1 DEF Framing, CallWords
<1>9. ReturnFrames'
  BY <1>1 DEF Framing, ReturnFrames
<1>10. \A i \in 1..Len(returnChanel) : returnChanel[i].from \in Clients \ {sFrom}
  BY <1>1, WordTypes DEF Framing, Server
<1>11. ReturnWords'
  BY <1>1, <1>3, <1>10 DEF Framing, ReturnWords
<1>12. Server'
  BY <1>1, <1>2, <1>3, <1>10 DEF Framing, Server, ServedAt, AlreadyRead
<1> QED BY <1>4, <1>5, <1>6, <1>7, <1>8, <1>9, <1>11, <1>12 DEF Framing

LEMMA ReplyCallIdInv == ASSUME Framing, ReplyCallId PROVE Framing'
<1> DEFINE n == Len(returnChanel)
           w == Word("callId", sCallId, sFrom)
<1>1. /\ spc = "sendCallId" /\ spc' = "sendResult" /\ n < Capacity
      /\ returnChanel' = Append(returnChanel, w)
      /\ UNCHANGED <<callChanel, ocLock, icLock, cpc, request, callId, result, held,
                     heap, answer, dead, stopped, sCmd, sCallId, sArg, sResult, sFrom>>
  BY DEF ReplyCallId, Reply, clientVars, locks, faults
<1>2. /\ sFrom \in Clients /\ cpc[sFrom] \in Waiting /\ sCallId = callId[sFrom]
      /\ answer[sFrom] # Unanswered
      /\ \A i \in 1..n : returnChanel[i].from # sFrom
  BY <1>1 DEF Framing, Types, Server, ServedAt
<1>3. w \in Words /\ w.kind = "callId" /\ w.val = callId[sFrom] /\ w.from = sFrom
  BY <1>2 DEF Framing, Types, Word, Words, Kinds
<1>4. /\ n \in Nat /\ returnChanel' \in Seq(Words) /\ Len(returnChanel') = n + 1
      /\ \A i \in 1..n : returnChanel'[i] = returnChanel[i]
      /\ returnChanel'[n + 1] = w
  <2> HIDE DEF w
  <2> QED BY <1>1, <1>3, AppendFacts DEF Framing, Types
<1> HIDE DEF n, w
<1>5. Types'
  <2>1. Len(returnChanel') <= Capacity
    BY <1>1, <1>4, HeapManagerAssumption DEF n
  <2>2. spc' \in ServePcs
    BY <1>1 DEF ServePcs
  <2> QED BY <1>1, <1>4, <2>1, <2>2 DEF Framing, Types
<1>6. Locks' /\ Calls'
  BY <1>1 DEF Framing, Locks, Calls
<1>7. CallFrames' /\ CallWords'
  <2>1. CallFrames /\ CallWords
    BY Zenon DEF Framing
  <2> QED BY <1>1, <2>1 DEF CallFrames, CallWords, CallEnds
<1>8. ReturnFrames'
  <2>1. n # 0 => returnChanel[n].kind = "result"
    BY <1>1 DEF Framing, ReturnFrames, n
  <2>2. ASSUME NEW i \in 1..n
        PROVE  /\ returnChanel'[i].kind = "callId"
                    => /\ returnChanel'[i + 1].kind = "result"
                       /\ returnChanel'[i + 1].from = returnChanel'[i].from
               /\ returnChanel'[i].kind = "result" => returnChanel'[i + 1].kind = "callId"
    <3>1. CASE i = n
      BY <1>3, <1>4, <2>1, <3>1
    <3>2. CASE i # n
      <4>1. i \in 1..(n - 1) /\ i + 1 \in 1..n
        BY <1>4, <3>2
      <4> QED BY <1>4, <4>1 DEF Framing, ReturnFrames, n
    <3> QED BY <3>1, <3>2
  <2>3. \A c \in Clients : cpc[c] = "receive" =>
          returnChanel'[1].kind = "result" /\ returnChanel'[1].from = c
    <3> SUFFICES ASSUME NEW c \in Clients, cpc[c] = "receive"
                 PROVE  returnChanel'[1].kind = "result" /\ returnChanel'[1].from = c
      OBVIOUS
    <3>1. n # 0 /\ returnChanel[1].kind = "result" /\ returnChanel[1].from = c
      BY <1>1 DEF Framing, ReturnFrames, n
    <3>2. 1 \in 1..n
      BY <1>4, <3>1
    <3> QED BY <1>4, <3>1, <3>2
  <2>4. (\A c \in Clients : cpc[c] # "receive") => returnChanel'[1].kind = "callId"
    <3>1. CASE n = 0
      BY <1>3, <1>4, <3>1
    <3>2. CASE n # 0
      <4>1. 1 \in 1..n
        BY <1>4, <3>2
      <4> QED BY <1>4, <3>2, <4>1 DEF Framing, ReturnFrames, n
    <3> QED BY <3>1, <3>2
  <2>5. Len(returnChanel') # 0 /\ Len(returnChanel') - 1 = n /\ returnChanel'[Len(returnChanel')] = w
    BY <1>4
  <2> QED BY <1>1, <1>3, <2>2, <2>3, <2>4, <2>5 DEF ReturnFrames
<1>9. ReturnWords'
  <2>1. ASSUME NEW i \in 1..Len(returnChanel')
        PROVE  LET u == returnChanel'[i] IN
               /\ u.kind \in {"callId", "result"} /\ answer'[u.from] # Unanswered
               /\ u.kind = "callId" => u.val = callId'[u.from] /\ cpc'[u.from] \in Waiting
               /\ u.kind = "result" => /\ u.val = answer'[u.from]
                                       /\ cpc'[u.from] \in Waiting \cup {"receive"}
    <3>1. CASE i = n + 1
      BY <1>1, <1>2, <1>3, <1>4, <3>1
    <3>2. CASE i # n + 1
      <4>1. i \in 1..n
        BY <1>4, <3>2
      <4> QED BY <1>1, <1>4, <4>1 DEF Framing, ReturnWords, n
    <3> QED BY <3>1, <3>2
  <2>2. ASSUME NEW i \in 1..Len(returnChanel'), NEW j \in 1..Len(returnChanel'),
               returnChanel'[i].kind = returnChanel'[j].kind,
               returnChanel'[i].from = returnChanel'[j].from
        PROVE  i = j
    <3>1. CASE i \in 1..n /\ j \in 1..n
      BY Zenon, <1>4, <2>2, <3>1 DEF Framing, ReturnWords, n
    <3>2. CASE i = n + 1 /\ j \in 1..n
      BY <1>2, <1>3, <1>4, <2>2, <3>2
    <3>3. CASE i \in 1..n /\ j = n + 1
      BY <1>2, <1>3, <1>4, <2>2, <3>3
    <3> QED BY <1>4, <3>1, <3>2, <3>3
  <2> QED BY <2>1, <2>2 DEF ReturnWords
<1>10. Server'
  <2>1. ASSUME NEW i \in 1..Len(returnChanel'), returnChanel'[i].from = sFrom
        PROVE  returnChanel'[i].kind = "callId"
    <3>1. CASE i = n + 1
      BY <1>3, <1>4, <3>1
    <3>2. CASE i # n + 1
      BY <1>2, <1>4, <2>1, <3>2
    <3> QED BY <3>1, <3>2
  <2> QED BY <1>1, <1>2, <2>1 DEF Framing, Server, ServedAt, AlreadyRead
<1> QED BY <1>5, <1>6, <1>7, <1>8, <1>9, <1>10 DEF Framing

LEMMA ReplyResultInv == ASSUME Framing, ReplyResult PROVE Framing'
<1> DEFINE n == Len(returnChanel)
           w == Word("result", sResult, sFrom)
<1>1. /\ spc = "sendResult" /\ spc' = "cmd" /\ n < Capacity
      /\ returnChanel' = Append(returnChanel, w) /\ sFrom' = None /\ sResult' = 0
      /\ UNCHANGED <<callChanel, ocLock, icLock, cpc, request, callId, result, held,
                     heap, answer, dead, stopped>>
  BY DEF ReplyResult, Reply, clientVars, locks, faults
<1>2. /\ sFrom \in Clients /\ cpc[sFrom] \in Waiting \cup {"receive"}
      /\ sResult = answer[sFrom] /\ answer[sFrom] # Unanswered
      /\ \A i \in 1..n : returnChanel[i].from = sFrom => returnChanel[i].kind = "callId"
  BY <1>1 DEF Framing, Types, Server, ServedAt
<1>3. w \in Words /\ w.kind = "result" /\ w.val = answer[sFrom] /\ w.from = sFrom
  BY <1>2 DEF Framing, Types, Word, Words, Kinds
<1>4. /\ n \in Nat /\ returnChanel' \in Seq(Words) /\ Len(returnChanel') = n + 1
      /\ \A i \in 1..n : returnChanel'[i] = returnChanel[i]
      /\ returnChanel'[n + 1] = w
  <2> HIDE DEF w
  <2> QED BY <1>1, <1>3, AppendFacts DEF Framing, Types
<1> HIDE DEF n, w
<1>5. Types'
  <2>1. Len(returnChanel') <= Capacity
    BY <1>1, <1>4, HeapManagerAssumption DEF n
  <2>2. spc' \in ServePcs /\ sFrom' \in Clients \cup {None} /\ sResult' \in Int
    BY <1>1 DEF ServePcs
  <2> QED BY <1>1, <1>4, <2>1, <2>2 DEF Framing, Types
<1>6. Locks' /\ Calls'
  BY <1>1 DEF Framing, Locks, Calls
<1>7. CallFrames' /\ CallWords'
  BY Zenon, <1>1 DEF Framing, CallFrames, CallWords, CallEnds
<1>8. ReturnFrames'
  <2>1. n # 0 => returnChanel[n].kind = "callId" /\ returnChanel[n].from = sFrom
    BY <1>1 DEF Framing, ReturnFrames, n
  <2>2. ASSUME NEW i \in 1..n
        PROVE  /\ returnChanel'[i].kind = "callId"
                    => /\ returnChanel'[i + 1].kind = "result"
                       /\ returnChanel'[i + 1].from = returnChanel'[i].from
               /\ returnChanel'[i].kind = "result" => returnChanel'[i + 1].kind = "callId"
    <3>1. CASE i = n
      BY <1>3, <1>4, <2>1, <3>1
    <3>2. CASE i # n
      <4>1. i \in 1..(n - 1) /\ i + 1 \in 1..n
        BY <1>4, <3>2
      <4> QED BY <1>4, <4>1 DEF Framing, ReturnFrames, n
    <3> QED BY <3>1, <3>2
  <2>3. \A c \in Clients : cpc[c] = "receive" =>
          returnChanel'[1].kind = "result" /\ returnChanel'[1].from = c
    <3> SUFFICES ASSUME NEW c \in Clients, cpc[c] = "receive"
                 PROVE  returnChanel'[1].kind = "result" /\ returnChanel'[1].from = c
      OBVIOUS
    <3>1. CASE n = 0
      <4>1. sFrom = c
        BY <3>1 DEF Framing, ReturnFrames, n
      <4> QED BY <1>3, <1>4, <3>1, <4>1
    <3>2. CASE n # 0
      <4>1. returnChanel[1].kind = "result" /\ returnChanel[1].from = c
        BY <3>2 DEF Framing, ReturnFrames, n
      <4>2. 1 \in 1..n
        BY <1>4, <3>2
      <4> QED BY <1>4, <4>1, <4>2
    <3> QED BY <3>1, <3>2
  <2>4. (\A c \in Clients : cpc[c] # "receive") => returnChanel'[1].kind = "callId"
    <3> SUFFICES ASSUME \A c \in Clients : cpc[c] # "receive"
                 PROVE  returnChanel'[1].kind = "callId"
      OBVIOUS
    <3>1. n # 0 /\ returnChanel[1].kind = "callId"
      BY <1>1 DEF Framing, ReturnFrames, n
    <3>2. 1 \in 1..n
      BY <1>4, <3>1
    <3> QED BY <1>4, <3>1, <3>2
  <2>5. Len(returnChanel') # 0 /\ Len(returnChanel') - 1 = n /\ returnChanel'[Len(returnChanel')] = w
    BY <1>4
  <2> QED BY <1>1, <1>3, <2>2, <2>3, <2>4, <2>5 DEF ReturnFrames
<1>9. ReturnWords'
  <2>1. ASSUME NEW i \in 1..Len(returnChanel')
        PROVE  LET u == returnChanel'[i] IN
               /\ u.kind \in {"callId", "result"} /\ answer'[u.from] # Unanswered
               /\ u.kind = "callId" => u.val = callId'[u.from] /\ cpc'[u.from] \in Waiting
               /\ u.kind = "result" => /\ u.val = answer'[u.from]
                                       /\ cpc'[u.from] \in Waiting \cup {"receive"}
    <3>1. CASE i = n + 1
      BY <1>1, <1>2, <1>3, <1>4, <3>1
    <3>2. CASE i # n + 1
      <4>1. i \in 1..n
        BY <1>4, <3>2
      <4> QED BY <1>1, <1>4, <4>1 DEF Framing, ReturnWords, n
    <3> QED BY <3>1, <3>2
  <2>2. ASSUME NEW i \in 1..Len(returnChanel'), NEW j \in 1..Len(returnChanel'),
               returnChanel'[i].kind = returnChanel'[j].kind,
               returnChanel'[i].from = returnChanel'[j].from
        PROVE  i = j
    <3>1. CASE i \in 1..n /\ j \in 1..n
      BY <1>4, <2>2, <3>1 DEF Framing, ReturnWords, n
    <3>2. CASE i = n + 1 /\ j \in 1..n
      BY <1>2, <1>3, <1>4, <2>2, <3>2
    <3>3. CASE i \in 1..n /\ j = n + 1
      BY <1>2, <1>3, <1>4, <2>2, <3>3
    <3> QED BY <1>4, <3>1, <3>2, <3>3
  <2> QED BY <2>1, <2>2 DEF ReturnWords
<1>10. Server'
  BY <1>1 DEF Server
<1> QED BY <1>5, <1>6, <1>7, <1>8, <1>9, <1>10 DEF Framing

LEMMA DieInv == ASSUME Framing, NEW p, Die(p) PROVE Framing'
<1>1. /\ dead' \subseteq Clients /\ held' \in [Clients -> SUBSET Pages]
      /\ UNCHANGED <<callChanel, returnChanel, ocLock, icLock, cpc, request, callId, result,
                     spc, sCmd, sCallId, sArg, sResult, sFrom, heap, answer, stopped>>
  BY DEF Die, Framing, Types, chanels, locks, serverVars
<1>2. Types'
  BY Zenon, <1>1 DEF Framing, Types
<1>3. Locks /\ Calls /\ CallFrames /\ CallWords /\ ReturnFrames /\ ReturnWords /\ Server
  BY Zenon DEF Framing
<1>4. Locks' /\ Calls'
  BY <1>1, <1>3 DEF Locks, Calls
<1>5. CallFrames' /\ CallWords'
  BY <1>1, <1>3 DEF CallFrames, CallEnds, CallWords
<1>6. ReturnFrames'
  <2>1. ReturnFrames /\ UNCHANGED <<returnChanel, cpc, spc, sFrom>>
    BY Zenon, <1>1, <1>3
  <2> QED BY <2>1 DEF ReturnFrames
<1>7. ReturnWords'
  BY <1>1, <1>3 DEF ReturnWords
<1>8. Server'
  BY <1>1, <1>3 DEF Server
<1> QED BY Zenon, <1>2, <1>4, <1>5, <1>6, <1>7, <1>8 DEF Framing

LEMMA SameInv ==
  ASSUME Framing, stopped' \in BOOLEAN,
         UNCHANGED <<chanels, locks, clientVars, serverVars, heap, answer, dead>>
  PROVE  Framing'
<1>1. UNCHANGED <<callChanel, returnChanel, ocLock, icLock, cpc, request, callId, result, held,
                  spc, sCmd, sCallId, sArg, sResult, sFrom, heap, answer, dead>>
  BY DEF chanels, locks, clientVars, serverVars
<1>2. Types'
  BY Zenon, <1>1 DEF Framing, Types
<1>3. Locks /\ Calls /\ CallFrames /\ CallWords /\ ReturnFrames /\ ReturnWords /\ Server
  BY Zenon DEF Framing
<1>4. Locks' /\ Calls'
  BY <1>1, <1>3 DEF Locks, Calls
<1>5. CallFrames' /\ CallWords'
  BY <1>1, <1>3 DEF CallFrames, CallEnds, CallWords
<1>6. ReturnFrames'
  <2>1. ReturnFrames /\ UNCHANGED <<returnChanel, cpc, spc, sFrom>>
    BY Zenon, <1>1, <1>3
  <2> QED BY <2>1 DEF ReturnFrames
<1>7. ReturnWords'
  BY <1>1, <1>3 DEF ReturnWords
<1>8. Server'
  BY <1>1, <1>3 DEF Server
<1> QED BY Zenon, <1>2, <1>4, <1>5, <1>6, <1>7, <1>8 DEF Framing

-----------------------------------------------------------------------------
(* Whose pages are whose.                                                  *)

LEMMA OwnedSame ==
  ASSUME NEW c \in Clients, held'[c] = held[c], request'[c] = request[c], answer'[c] = answer[c]
  PROVE  Owned(c)' = Owned(c)
  BY DEF Owned

LEMMA HeapSame ==
  ASSUME Heap, UNCHANGED <<held, request, answer, heap>>
  PROVE  Heap'
  BY DEF Heap, Owned

\* Only their handing on: nobody owns more than before, and no block goes.
LEMMA HeapKept ==
  ASSUME Heap, heap' = heap,
         \A c \in Clients :
            /\ Owned(c)' \subseteq Owned(c)
            /\ request'[c].cmd = "free" /\ answer'[c] = Unanswered => request'[c].arg \notin held'[c]
  PROVE  Heap'
  BY DEF Heap

LEMMA CallHeap ==
  ASSUME Framing, Heap, NEW c \in Clients, Call(c)
  PROVE  Heap'
<1>1. cpc[c] = "idle" /\ heap' = heap /\ answer' = answer
  BY DEF Call, At
<1>2. request[c].cmd = "none" /\ answer[c] = Unanswered
  BY <1>1 DEF Framing, Calls
<1>3. Owned(c) = held[c]
  BY <1>2 DEF Owned
<1>4. /\ \A d \in Clients \ {c} : request'[d] = request[d] /\ held'[d] = held[d]
      /\ \/ request'[c].cmd = "alloc" /\ held'[c] = held[c]
         \/ /\ request'[c].cmd = "free" /\ request'[c].arg \in held[c]
            /\ held'[c] = held[c] \ {request'[c].arg}
  <2>1. CASE \E n \in Lengths : request' = [request EXCEPT ![c] = [cmd |-> "alloc", arg |-> n]]
                                /\ held' = held
    BY <2>1 DEF Framing, Types
  <2>2. CASE \E at \in held[c] : /\ request' = [request EXCEPT ![c] = [cmd |-> "free", arg |-> at]]
                                 /\ held' = [held EXCEPT ![c] = @ \ {at}]
    <3>1. PICK at \in held[c] : /\ request' = [request EXCEPT ![c] = [cmd |-> "free", arg |-> at]]
                                /\ held' = [held EXCEPT ![c] = @ \ {at}]
      BY <2>2
    <3>2. request'[c] = [cmd |-> "free", arg |-> at] /\ held'[c] = held[c] \ {at}
      BY <3>1 DEF Framing, Types
    <3> QED BY <3>1, <3>2 DEF Framing, Types
  <2> QED BY <2>1, <2>2 DEF Call
<1>5. Owned(c)' \subseteq Owned(c)
  BY <1>1, <1>2, <1>3, <1>4 DEF Owned
<1>6. \A d \in Clients \ {c} : Owned(d)' = Owned(d)
  BY <1>1, <1>4 DEF Owned
<1>7. \A d \in Clients : request'[d].cmd = "free" /\ answer'[d] = Unanswered
                           => request'[d].arg \notin held'[d]
  BY <1>1, <1>4 DEF Heap
<1> QED BY <1>1, <1>5, <1>6, <1>7, HeapKept

LEMMA StopReceivingHeap ==
  ASSUME Framing, Heap, NEW c \in Clients, StopReceiving(c)
  PROVE  Heap'
<1>1. /\ cpc[c] = "unlockIc" /\ heap' = heap
      /\ request' = [request EXCEPT ![c] = Idle]
      /\ answer' = [answer EXCEPT ![c] = Unanswered]
      /\ held' = IF request[c].cmd = "alloc" /\ result[c] # 0
                 THEN [held EXCEPT ![c] = @ \cup {result[c]}] ELSE held
  BY DEF StopReceiving, At
<1>2. result[c] = answer[c] /\ answer[c] # Unanswered
  BY <1>1 DEF Framing, Calls
<1>3. \A d \in Clients \ {c} : request'[d] = request[d] /\ answer'[d] = answer[d] /\ held'[d] = held[d]
  BY <1>1 DEF Framing, Types
<1>4. request'[c].cmd = "none"
  BY <1>1 DEF Framing, Types, Idle
<1>5. held'[c] = Owned(c)
  <2>1. CASE request[c].cmd = "alloc" /\ result[c] # 0
    BY <1>1, <1>2, <2>1 DEF Owned, Framing, Types
  <2>2. CASE ~(request[c].cmd = "alloc" /\ result[c] # 0)
    BY <1>1, <1>2, <2>2 DEF Owned
  <2> QED BY <2>1, <2>2
<1>6. Owned(c)' = Owned(c)
  BY <1>4, <1>5 DEF Owned
<1>7. \A d \in Clients \ {c} : Owned(d)' = Owned(d)
  BY <1>3 DEF Owned
<1>8. \A d \in Clients : request'[d].cmd = "free" /\ answer'[d] = Unanswered
                           => request'[d].arg \notin held'[d]
  BY <1>3, <1>4 DEF Heap
<1> QED BY <1>1, <1>6, <1>7, <1>8, HeapKept

LEMMA DieHeap ==
  ASSUME Framing, Heap, NEW p, Die(p)
  PROVE  Heap'
<1>1. /\ UNCHANGED <<heap, request, answer>>
      /\ \A d \in Clients : held'[d] \subseteq held[d]
  BY DEF Die
<1>2. \A d \in Clients : Owned(d)' \subseteq Owned(d)
  BY <1>1 DEF Owned
<1> QED BY <1>1, <1>2, HeapKept DEF Heap

\* A new block is nobody's, a freed one was the caller's.
LEMMA ServeHeap ==
  ASSUME Framing, Heap, Serve
  PROVE  Heap'
<1>1. /\ sFrom \in Clients /\ answer[sFrom] = Unanswered
      /\ answer' = [answer EXCEPT ![sFrom] = sResult']
      /\ UNCHANGED <<request, held>>
  BY ServeFacts DEF clientVars
<1>0. PICK c \in Clients : c = sFrom
  BY <1>1
<1>2. answer'[c] = sResult' /\ \A d \in Clients \ {c} : answer'[d] = answer[d]
  BY <1>0, <1>1 DEF Framing, Types
<1>3. \A d \in Clients \ {c} : Owned(d)' = Owned(d)
  BY <1>1, <1>2 DEF Owned
<1>4. CASE /\ request[c].cmd = "alloc"
           /\ \E b \in Fitting(request[c].arg, heap) : heap' = heap \cup {b} /\ sResult' = b.at
  <2>1. PICK b \in Fitting(request[c].arg, heap) : heap' = heap \cup {b} /\ sResult' = b.at
    BY <1>4
  <2>2. \A o \in heap : PagesOf(b) \cap PagesOf(o) = {}
    BY <2>1 DEF Fitting
  <2>3. \A o \in Blocks : o.at \in PagesOf(o)
    <3> SUFFICES ASSUME NEW o \in Blocks PROVE o.at \in PagesOf(o)
      OBVIOUS
    <3>1. o.at \in Nat /\ o.length \in Nat \ {0}
      BY HeapManagerAssumption DEF Blocks
    <3> QED BY <3>1 DEF PagesOf
  <2>4. b \in Blocks
    BY <1>4, <2>1 DEF Framing, Calls, Fitting, Blocks
  <2>5. \A d \in Clients : b.at \notin Owned(d)
    BY <2>2, <2>3, <2>4 DEF Heap, Framing, Types
  <2>6. Owned(c)' \subseteq Owned(c) \cup {b.at}
    BY <1>0, <1>1, <1>2, <1>4, <2>1 DEF Owned
  <2>8. \A at \in Owned(c) : \E o \in heap : o.at = at
    BY DEF Heap
  <2>a. ASSUME NEW d \in Clients, NEW at \in Owned(d)' PROVE \E o \in heap' : o.at = at
    <3>1. CASE d = c
      BY <2>1, <2>6, <2>8, <2>a, <3>1
    <3>2. CASE d # c
      BY <1>3, <2>1, <2>a, <3>2 DEF Heap
    <3> QED BY <3>1, <3>2
  <2>9. ASSUME NEW d \in Clients, NEW e \in Clients, d # e PROVE Owned(d)' \cap Owned(e)' = {}
    <3>1. Owned(d) \cap Owned(e) = {}
      BY <2>9 DEF Heap
    <3>2. CASE d = c
      BY <1>3, <2>5, <2>6, <2>9, <3>1, <3>2
    <3>3. CASE e = c
      BY <1>3, <2>5, <2>6, <2>9, <3>1, <3>3
    <3>4. CASE d # c /\ e # c
      BY <1>3, <3>1, <3>4
    <3> QED BY <3>2, <3>3, <3>4
  <2>10. \A o, q \in heap' : o # q => PagesOf(o) \cap PagesOf(q) = {}
    BY <2>1, <2>2 DEF Heap
  <2>11. \A d \in Clients : request'[d].cmd = "free" /\ answer'[d] = Unanswered
                              => request'[d].arg \notin held'[d]
    BY <1>1, <1>2, <1>4 DEF Heap
  <2> QED BY <2>a, <2>9, <2>10, <2>11 DEF Heap
<1>5. CASE request[c].cmd = "alloc" /\ heap' = heap /\ sResult' = 0
  <2>1. Owned(c)' \subseteq Owned(c)
    BY <1>0, <1>1, <1>2, <1>5 DEF Owned
  <2>2. \A d \in Clients : request'[d].cmd = "free" /\ answer'[d] = Unanswered
                             => request'[d].arg \notin held'[d]
    BY <1>1, <1>2, <1>5 DEF Heap
  <2> QED BY <1>3, <1>5, <2>1, <2>2, HeapKept
<1>6. CASE /\ request[c].cmd = "free"
           /\ heap' = {b \in heap : b.at # request[c].arg} /\ sResult' = 0
  <2>1. c \in Clients /\ request[c].arg \in Owned(c) /\ request[c].arg \notin held[c]
    BY <1>0, <1>1, <1>6 DEF Owned, Heap
  <2>2. Owned(c)' = held[c] /\ held[c] \subseteq Owned(c)
    BY <1>0, <1>1, <1>2, <1>6 DEF Owned, Unanswered
  <2>3. \A d \in Clients : Owned(d)' \subseteq Owned(d)
    BY <1>3, <2>2
  <2>4. \A d \in Clients : request[c].arg \notin Owned(d)'
    BY <1>3, <2>1, <2>2 DEF Heap
  <2>5. \A d \in Clients : \A at \in Owned(d)' : \E b \in heap' : b.at = at
    BY <1>6, <2>3, <2>4 DEF Heap
  <2>6. \A d, e \in Clients : d # e => Owned(d)' \cap Owned(e)' = {}
    BY <2>3 DEF Heap
  <2>7. \A o, q \in heap' : o # q => PagesOf(o) \cap PagesOf(q) = {}
    BY <1>6 DEF Heap
  <2>8. \A d \in Clients : request'[d].cmd = "free" /\ answer'[d] = Unanswered
                             => request'[d].arg \notin held'[d]
    BY <1>1, <1>2, <1>6 DEF Heap
  <2> QED BY <2>5, <2>6, <2>7, <2>8 DEF Heap
<1> QED BY <1>0, <1>4, <1>5, <1>6, ServeFacts

-----------------------------------------------------------------------------
(* Every step.                                                             *)

LEMMA StepInv == ASSUME IdsDistinct, IInv, [Next]_vars PROVE IInv'
<1> USE DEF IInv
<1>1. CASE UNCHANGED vars
  BY <1>1, SameInv, HeapSame DEF vars, clientVars, faults, Framing, Types
<1>2. CASE Stop
  BY <1>2, SameInv, HeapSame DEF Stop, clientVars
<1>3. ASSUME NEW c \in Clients, Call(c) PROVE IInv'
  BY <1>3, CallInv, CallHeap
<1>4. ASSUME NEW c \in Clients, Die(Pid[c]) PROVE IInv'
  BY <1>4, DieInv, DieHeap
<1>5. ASSUME NEW c \in Clients, StartSending(c) PROVE IInv'
  BY <1>5, StartSendingInv, HeapSame DEF StartSending
<1>6. ASSUME NEW c \in Clients, SendCmd(c) PROVE IInv'
  <2>1. cpc[c] = "sendCmd" /\ Send(c, cpc[c], "sendCallId", "cmd", request[c].cmd)
    BY <1>6 DEF SendCmd, Send, At
  <2> QED BY <2>1, SendInv, HeapSame DEF Send
<1>7. ASSUME NEW c \in Clients, SendCallId(c) PROVE IInv'
  <2>1. cpc[c] = "sendCallId" /\ Send(c, cpc[c], "sendArg", "callId", callId[c])
    BY <1>7 DEF SendCallId, Send, At
  <2> QED BY <2>1, SendInv, HeapSame DEF Send
<1>8. ASSUME NEW c \in Clients, SendArg(c) PROVE IInv'
  <2>1. cpc[c] = "sendArg" /\ Send(c, cpc[c], "unlockOc", "arg", request[c].arg)
    BY <1>8 DEF SendArg, Send, At
  <2> QED BY <2>1, SendInv, HeapSame DEF Send
<1>9. ASSUME NEW c \in Clients, StopSending(c) PROVE IInv'
  BY <1>9, StopSendingInv, HeapSame DEF StopSending
<1>10. ASSUME NEW c \in Clients, ReceiveLock(c) PROVE IInv'
  BY <1>10, ReceiveLockInv, HeapSame DEF ReceiveLock
<1>11. ASSUME NEW c \in Clients, ReceivePeek(c) PROVE IInv'
  BY <1>11, ReceivePeekInv, HeapSame DEF ReceivePeek
<1>12. ASSUME NEW c \in Clients, ReceiveRetry(c) PROVE IInv'
  BY <1>12, ReceiveRetryInv, HeapSame DEF ReceiveRetry
<1>13. ASSUME NEW c \in Clients, ReceiveResult(c) PROVE IInv'
  BY <1>13, ReceiveResultInv, HeapSame DEF ReceiveResult
<1>14. ASSUME NEW c \in Clients, StopReceiving(c) PROVE IInv'
  BY <1>14, StopReceivingInv, StopReceivingHeap
<1>15. CASE Dispatch
  BY <1>15, DispatchInv, HeapSame DEF Dispatch, Receive, clientVars
<1>16. CASE ReceiveCallId
  BY <1>16, ReceiveCallIdInv, HeapSame DEF ReceiveCallId, Receive, clientVars
<1>17. CASE ReceiveArg
  BY <1>17, ReceiveArgInv, HeapSame DEF ReceiveArg, Receive, clientVars
<1>18. CASE Serve
  BY <1>18, ServeInv, ServeHeap
<1>19. CASE ReplyCallId
  BY <1>19, ReplyCallIdInv, HeapSame DEF ReplyCallId, Reply, clientVars
<1>20. CASE ReplyResult
  BY <1>20, ReplyResultInv, HeapSame DEF ReplyResult, Reply, clientVars
<1> QED
  BY <1>1, <1>2, <1>3, <1>4, <1>5, <1>6, <1>7, <1>8, <1>9, <1>10, <1>11, <1>12, <1>13,
     <1>14, <1>15, <1>16, <1>17, <1>18, <1>19, <1>20
  DEF Next, ClientStep, ServerStep

LEMMA IInvTypes == IInv => TypeOK
<1> SUFFICES ASSUME IInv PROVE TypeOK
  OBVIOUS
<1>1. \A c \in Clients : request[c].cmd \in {"none", "alloc", "free"}
  BY DEF IInv, Framing, Types, Requests, Cmds
<1>2. /\ \A i \in DOMAIN callChanel : callChanel[i].from \in Clients
      /\ \A i \in DOMAIN returnChanel : returnChanel[i].from \in Clients
  <2>1. Types
    BY Zenon DEF IInv, Framing
  <2>2. DOMAIN callChanel = 1..Len(callChanel) /\ DOMAIN returnChanel = 1..Len(returnChanel)
    BY <2>1 DEF Types
  <2> QED BY Zenon, <2>1, <2>2, WordTypes
<1> QED BY <1>1, <1>2 DEF IInv, Framing, Types, TypeOK

LEMMA IInvFramed == IInv => WellFramed
<1> SUFFICES ASSUME IInv PROVE WellFramed
  OBVIOUS
<1>1. callChanel # <<>> /\ spc \in {"cmd", "callId", "arg"}
        => /\ Head(callChanel).kind = spc
           /\ spc # "cmd" => Head(callChanel).from = sFrom
  BY CallHead DEF IInv
<1>2. ASSUME NEW c \in Clients, returnChanel # <<>>
      PROVE  /\ cpc[c] = "peek" => Head(returnChanel).kind = "callId"
             /\ cpc[c] = "receive" => Head(returnChanel).kind = "result"
  <2>1. Len(returnChanel) # 0 /\ Head(returnChanel) = returnChanel[1]
    BY <1>2, TailFacts DEF IInv, Framing, Types
  <2>2. cpc[c] = "peek" => Head(returnChanel).kind = "callId"
    BY <2>1, PeekFacts DEF IInv
  <2> QED BY <2>1, <2>2 DEF IInv, Framing, ReturnFrames
<1> QED BY <1>1, <1>2 DEF WellFramed

LEMMA IInvReply == IInv => ReplyIsMine
<1> SUFFICES ASSUME IInv, NEW c \in Clients
             PROVE  /\ cpc[c] = "receive" /\ returnChanel # <<>> => Head(returnChanel).from = c
                    /\ cpc[c] = "unlockIc" => result[c] = answer[c]
  BY DEF ReplyIsMine
<1>1. returnChanel # <<>> => Len(returnChanel) # 0 /\ Head(returnChanel) = returnChanel[1]
  BY TailFacts DEF IInv, Framing, Types
<1> QED BY <1>1 DEF IInv, Framing, Calls, ReturnFrames

LEMMA IInvHeap == IInv => NoDoubleAlloc
  BY DEF IInv, Heap, Owned, NoDoubleAlloc

\* Provided the callers' ids differ, every reachable state satisfies IInv: the
\* locks exclude, the words in flight are whole messages of calls that wait, and
\* every page handed out is one caller's.
THEOREM HeapManagerInvariance ==
  ASSUME IdsDistinct PROVE Spec => []IInv
<1>1. Init => IInv
  BY InitInv
<1>2. IInv /\ [Next]_vars => IInv'
  BY StepInv
<1> QED BY <1>1, <1>2, PTL DEF Spec

\* The variables stay in their ranges and the channels within their capacity.
THEOREM HeapManagerTyped ==
  ASSUME IdsDistinct PROVE Spec => []TypeOK
<1> QED BY HeapManagerInvariance, IInvTypes, PTL

\* Whoever reads a channel finds there the word it is to read, of the message
\* it has begun: gvStartReceiving, gvReceiveData and the handlers of both sides.
THEOREM MessagesWhole ==
  ASSUME IdsDistinct PROVE Spec => []WellFramed
<1> QED BY HeapManagerInvariance, IInvFramed, PTL

\* gvStartReceiving of the client hands everybody the answer to its own call.
THEOREM RepliesReturn ==
  ASSUME IdsDistinct PROVE Spec => []ReplyIsMine
<1> QED BY HeapManagerInvariance, IInvReply, PTL

\* gvAlloc and gvFree of any number of processes, dying or not, never put a
\* page into two hands.
THEOREM PagesOfOne ==
  ASSUME IdsDistinct PROVE Spec => []NoDoubleAlloc
<1> QED BY HeapManagerInvariance, IInvHeap, PTL

-----------------------------------------------------------------------------
(* Freedom from deadlock, which CallReturns rests on.                      *)

\* A lock is held only where the code holds it, by the living and the dead.
Holders ==
    /\ ocLock # Free => cpc[ocLock] \in Sending
    /\ icLock # Free => cpc[icLock] \in Receiving

WordOf(c, ch) == \E i \in 1..Len(ch) : ch[i].from = c

\* The call of a client that waits is on its way to the server, with it, or on
\* its way back.
OnItsWay(c) == WordOf(c, callChanel) \/ sFrom = c \/ WordOf(c, returnChanel)
NothingLost == \A c \in Clients : cpc[c] \in Waiting => OnItsWay(c)

\* The service runs, and nobody has died in a call but before its first lock.
Undisturbed == ~stopped /\ \A d \in dead : cpc[d] \in {"idle", "lockOc"}

\* The guards of the server's steps, and of the client's steps that get it on:
\* asking for the lock again, to see another's answer, does not.
ServerMoves ==
    \/ spc \in {"cmd", "callId", "arg"} /\ callChanel # <<>>
    \/ spc = "serve"
    \/ spc \in {"sendCallId", "sendResult"} /\ Len(returnChanel) < Capacity

GetsOn(c) ==
    \/ cpc[c] = "lockOc" /\ ocLock = Free
    \/ cpc[c] \in {"sendCmd", "sendCallId", "sendArg"} /\ Len(callChanel) < Capacity
    \/ cpc[c] \in {"unlockOc", "unlockRetry", "unlockIc"}
    \/ cpc[c] \in {"peek", "receive"} /\ returnChanel # <<>>
    \/ /\ cpc[c] = "lockIc" /\ icLock = Free
       /\ returnChanel # <<>> /\ Head(returnChanel).from = c

\* While anyone is in a call, someone gets on: full channels, the two locks and
\* the callers that give the lock back to each other stop nobody for good.
SomeoneGetsOn ==
    Undisturbed /\ (\E c \in Clients \ dead : cpc[c] # "idle")
      => ServerMoves \/ \E c \in Clients \ dead : GetsOn(c)

LEMMA InitHeld == Init => Holders /\ NothingLost
  BY DEF Init, Holders, NothingLost, Waiting

LEMMA HoldersMove ==
  ASSUME Types, Holders, NEW c \in Clients, NEW q, cpc' = [cpc EXCEPT ![c] = q],
         \/ ocLock' = ocLock /\ (cpc[c] \in Sending => q \in Sending)
         \/ ocLock' = Free
         \/ ocLock' = c /\ q \in Sending,
         \/ icLock' = icLock /\ (cpc[c] \in Receiving => q \in Receiving)
         \/ icLock' = Free
         \/ icLock' = c /\ q \in Receiving
  PROVE  Holders'
<1>1. /\ cpc'[c] = q /\ \A d \in Clients \ {c} : cpc'[d] = cpc[d]
      /\ ocLock \in Clients \cup {Free} /\ icLock \in Clients \cup {Free}
  BY DEF Types
<1>2. ASSUME ocLock' # Free PROVE cpc'[ocLock'] \in Sending
  BY Zenon, <1>1, <1>2 DEF Holders
<1>3. ASSUME icLock' # Free PROVE cpc'[icLock'] \in Receiving
  BY Zenon, <1>1, <1>3 DEF Holders
<1> QED BY Zenon, <1>2, <1>3 DEF Holders

LEMMA ClientHolders ==
  ASSUME Types, Holders, NEW c \in Clients, Call(c) \/ ClientStep(c)
  PROVE  Holders'
<1>1. CASE Call(c)
  BY <1>1, HoldersMove DEF Call, At, locks, Sending, Receiving
<1>2. CASE StartSending(c)
  BY <1>2, HoldersMove DEF StartSending, At, Sending, Receiving
<1>3. CASE SendCmd(c)
  BY <1>3, HoldersMove DEF SendCmd, Send, At, locks, Sending, Receiving
<1>4. CASE SendCallId(c)
  BY <1>4, HoldersMove DEF SendCallId, Send, At, locks, Sending, Receiving
<1>5. CASE SendArg(c)
  BY <1>5, HoldersMove DEF SendArg, Send, At, locks, Sending, Receiving
<1>6. CASE StopSending(c)
  BY <1>6, HoldersMove DEF StopSending, At, Sending, Receiving
<1>7. CASE ReceiveLock(c)
  BY <1>7, HoldersMove DEF ReceiveLock, At, Sending, Receiving
<1>8. CASE ReceivePeek(c)
  <2>1. /\ cpc[c] = "peek" /\ UNCHANGED locks
        /\ \/ cpc' = [cpc EXCEPT ![c] = "receive"]
           \/ cpc' = [cpc EXCEPT ![c] = "unlockRetry"]
    BY <1>8 DEF ReceivePeek, At
  <2> QED BY <2>1, HoldersMove DEF locks, Sending, Receiving
<1>9. CASE ReceiveRetry(c)
  BY <1>9, HoldersMove DEF ReceiveRetry, At, Sending, Receiving
<1>10. CASE ReceiveResult(c)
  BY <1>10, HoldersMove DEF ReceiveResult, At, locks, Sending, Receiving
<1>11. CASE StopReceiving(c)
  BY <1>11, HoldersMove DEF StopReceiving, At, Sending, Receiving
<1> QED
  BY Zenon, <1>1, <1>2, <1>3, <1>4, <1>5, <1>6, <1>7, <1>8, <1>9, <1>10, <1>11 DEF ClientStep

LEMMA OthersHolders ==
  ASSUME Holders, UNCHANGED <<cpc, ocLock, icLock>>
  PROVE  Holders'
  BY DEF Holders

LEMMA HoldersStep ==
  ASSUME Types, Holders, [Next]_vars
  PROVE  Holders'
<1>1. ASSUME NEW c \in Clients, Die(Pid[c]) PROVE Holders'
  BY <1>1, OthersHolders DEF Die, locks
<1>2. CASE ServerStep
  BY <1>2, OthersHolders
  DEF ServerStep, Dispatch, ReceiveCallId, ReceiveArg, Receive, Serve, ReplyCallId, ReplyResult,
      Reply, clientVars, locks
<1>3. CASE Stop
  BY <1>3, OthersHolders DEF Stop, clientVars, locks
<1>4. CASE UNCHANGED vars
  BY <1>4, OthersHolders DEF vars, clientVars, locks
<1> QED BY Zenon, <1>1, <1>2, <1>3, <1>4, ClientHolders DEF Next

LEMMA WordAppended ==
  ASSUME NEW S, NEW ch \in Seq(S), NEW w, NEW c
  PROVE  /\ WordOf(c, ch) => WordOf(c, Append(ch, w))
         /\ w.from = c => WordOf(c, Append(ch, w))
<1>1. ch \in Seq(S \cup {w})
  OBVIOUS
<1>2. /\ Len(ch) \in Nat /\ Len(Append(ch, w)) = Len(ch) + 1 /\ Append(ch, w)[Len(ch) + 1] = w
      /\ \A i \in 1..Len(ch) : Append(ch, w)[i] = ch[i]
  BY <1>1, AppendFacts
<1>3. /\ \A i \in 1..Len(ch) : i \in 1..Len(Append(ch, w))
      /\ Len(ch) + 1 \in 1..Len(Append(ch, w))
  BY <1>2
<1> QED BY Zenon, <1>2, <1>3 DEF WordOf

LEMMA WordTaken ==
  ASSUME NEW S, NEW ch \in Seq(S), ch # <<>>, NEW c, WordOf(c, ch)
  PROVE  Head(ch).from = c \/ WordOf(c, Tail(ch))
<1>1. /\ Len(ch) \in Nat \ {0} /\ Head(ch) = ch[1] /\ Len(Tail(ch)) = Len(ch) - 1
      /\ \A i \in 1..(Len(ch) - 1) : Tail(ch)[i] = ch[i + 1]
  BY TailFacts
<1>2. PICK i \in 1..Len(ch) : ch[i].from = c
  BY DEF WordOf
<1>3. CASE i = 1
  BY <1>1, <1>2, <1>3
<1>4. CASE i # 1
  <2>1. i - 1 \in 1..Len(Tail(ch)) /\ Tail(ch)[i - 1] = ch[i]
    BY <1>1, <1>2, <1>4
  <2> QED BY Zenon, <1>2, <2>1 DEF WordOf
<1> QED BY <1>3, <1>4

\* A call on its way stays so in steps that take away no word but the reader's.
LEMMA StillOnItsWay ==
  ASSUME NEW c,
         \/ callChanel' = callChanel /\ sFrom' = sFrom
         \/ sFrom' = sFrom /\ \E w : callChanel' = Append(callChanel, w),
         \/ returnChanel' = returnChanel
         \/ returnChanel # <<>> /\ Head(returnChanel).from # c /\ returnChanel' = Tail(returnChanel),
         Types, OnItsWay(c)
  PROVE  OnItsWay(c)'
<1>1. callChanel \in Seq(Words) /\ returnChanel \in Seq(Words) /\ sFrom' = sFrom
  BY DEF Types
<1>2. WordOf(c, callChanel) => WordOf(c, callChanel')
  BY Zenon, <1>1, WordAppended
<1>3. WordOf(c, returnChanel) => WordOf(c, returnChanel')
  BY Zenon, <1>1, WordTaken
<1> QED BY Zenon, <1>1, <1>2, <1>3 DEF OnItsWay

\* Most steps of a client neither begin to wait nor move a word.
LEMMA QuietWay ==
  ASSUME NothingLost, UNCHANGED <<callChanel, returnChanel, sFrom>>,
         \A c \in Clients : cpc'[c] \in Waiting => cpc[c] \in Waiting
  PROVE  NothingLost'
<1>1. \A c : OnItsWay(c)' = OnItsWay(c)
  BY Zenon DEF OnItsWay
<1> QED BY Zenon, <1>1 DEF NothingLost

LEMMA ClientSends ==
  ASSUME Types, NothingLost, NEW c \in Clients, SendCmd(c) \/ SendCallId(c) \/ SendArg(c)
  PROVE  NothingLost'
<1>1. PICK q, w :
        /\ cpc' = [cpc EXCEPT ![c] = q] /\ callChanel' = Append(callChanel, w) /\ w.from = c
        /\ UNCHANGED <<returnChanel, sFrom>>
  <2>1. CASE SendCmd(c)
    <3> DEFINE w == Word("cmd", request[c].cmd, c)
    <3>1. /\ cpc' = [cpc EXCEPT ![c] = "sendCallId"] /\ callChanel' = Append(callChanel, w)
          /\ UNCHANGED <<returnChanel, sFrom>> /\ w.from = c
      BY <2>1 DEF SendCmd, Send, At, serverVars, Word
    <3> QED BY Zenon, <3>1
  <2>2. CASE SendCallId(c)
    <3> DEFINE w == Word("callId", callId[c], c)
    <3>1. /\ cpc' = [cpc EXCEPT ![c] = "sendArg"] /\ callChanel' = Append(callChanel, w)
          /\ UNCHANGED <<returnChanel, sFrom>> /\ w.from = c
      BY <2>2 DEF SendCallId, Send, At, serverVars, Word
    <3> QED BY Zenon, <3>1
  <2>3. CASE SendArg(c)
    <3> DEFINE w == Word("arg", request[c].arg, c)
    <3>1. /\ cpc' = [cpc EXCEPT ![c] = "unlockOc"] /\ callChanel' = Append(callChanel, w)
          /\ UNCHANGED <<returnChanel, sFrom>> /\ w.from = c
      BY <2>3 DEF SendArg, Send, At, serverVars, Word
    <3> QED BY Zenon, <3>1
  <2> QED BY Zenon, <2>1, <2>2, <2>3
<1>2. OnItsWay(c)'
  <2>1. callChanel \in Seq(Words)
    BY DEF Types
  <2> QED BY Zenon, <1>1, <2>1, WordAppended DEF OnItsWay
<1>3. ASSUME NEW d \in Clients \ {c}, cpc'[d] \in Waiting PROVE OnItsWay(d)'
  <2>1. cpc[d] \in Waiting
    BY <1>1, <1>3 DEF Types
  <2>2. OnItsWay(d)
    BY Zenon, <2>1 DEF NothingLost
  <2> QED BY Zenon, <1>1, <2>2, StillOnItsWay
<1> QED BY Zenon, <1>2, <1>3 DEF NothingLost

\* A client takes a word of its own out of the return channel.
LEMMA ClientTakes ==
  ASSUME Types, NothingLost, NEW c \in Clients, NEW q, q \notin Waiting,
         cpc' = [cpc EXCEPT ![c] = q], returnChanel # <<>>, Head(returnChanel).from = c,
         returnChanel' = Tail(returnChanel), UNCHANGED <<callChanel, sFrom>>
  PROVE  NothingLost'
<1>1. cpc'[c] \notin Waiting
  BY DEF Types
<1>2. ASSUME NEW d \in Clients \ {c}, cpc'[d] \in Waiting PROVE OnItsWay(d)'
  <2>1. cpc[d] \in Waiting
    BY <1>2 DEF Types
  <2>2. OnItsWay(d)
    BY Zenon, <2>1 DEF NothingLost
  <2> QED BY Zenon, <2>2, StillOnItsWay
<1> QED BY Zenon, <1>1, <1>2 DEF NothingLost

LEMMA PeekLosesNothing ==
  ASSUME IdsDistinct, Framing, NothingLost, NEW c \in Clients, ReceivePeek(c)
  PROVE  NothingLost'
<1>1. /\ cpc[c] = "peek" /\ returnChanel # <<>> /\ Types /\ UNCHANGED <<callChanel, sFrom>>
  BY Zenon DEF ReceivePeek, At, Framing, serverVars
<1>2. CASE Head(returnChanel).val # callId[c]
  <2>1. cpc' = [cpc EXCEPT ![c] = "unlockRetry"] /\ returnChanel' = returnChanel
    BY <1>2 DEF ReceivePeek, At
  <2>2. \A d \in Clients : cpc'[d] \in Waiting => cpc[d] \in Waiting
    BY <1>1, <2>1 DEF Types, Waiting
  <2> QED BY Zenon, <1>1, <2>1, <2>2, QuietWay
<1>3. CASE Head(returnChanel).val = callId[c]
  <2>1. cpc' = [cpc EXCEPT ![c] = "receive"] /\ returnChanel' = Tail(returnChanel)
    BY <1>3 DEF ReceivePeek, At
  <2>2. Head(returnChanel) = returnChanel[1] /\ 1 \in 1..Len(returnChanel) /\ Len(returnChanel) # 0
    BY <1>1, TailFacts DEF Types
  <2>3. /\ returnChanel[1].kind = "callId" /\ returnChanel[1].from \in Clients
        /\ returnChanel[1].val = callId[returnChanel[1].from]
        /\ cpc[returnChanel[1].from] \in Waiting
    BY <1>1, <2>2, PeekFacts, WordTypes DEF Framing, ReturnWords
  <2>4. Head(returnChanel).from = c
    BY <1>1, <1>3, <2>2, <2>3 DEF Framing, Calls, IdsDistinct, Waiting
  <2>5. "receive" \notin Waiting
    BY DEF Waiting
  <2> QED BY Zenon, <1>1, <2>1, <2>4, <2>5, ClientTakes
<1> QED BY Zenon, <1>2, <1>3

LEMMA ResultLosesNothing ==
  ASSUME Framing, NothingLost, NEW c \in Clients, ReceiveResult(c)
  PROVE  NothingLost'
<1>1. /\ cpc[c] = "receive" /\ returnChanel # <<>> /\ Types /\ UNCHANGED <<callChanel, sFrom>>
      /\ cpc' = [cpc EXCEPT ![c] = "unlockIc"] /\ returnChanel' = Tail(returnChanel)
  BY Zenon DEF ReceiveResult, At, Framing, serverVars
<1>2. Head(returnChanel) = returnChanel[1] /\ Len(returnChanel) # 0
  BY <1>1, TailFacts DEF Types
<1>3. Head(returnChanel).from = c
  BY Zenon, <1>1, <1>2 DEF Framing, ReturnFrames
<1>4. "unlockIc" \notin Waiting
  BY DEF Waiting
<1> QED BY Zenon, <1>1, <1>3, <1>4, ClientTakes

LEMMA ClientLosesNothing ==
  ASSUME IdsDistinct, Framing, NothingLost, NEW c \in Clients, Call(c) \/ ClientStep(c)
  PROVE  NothingLost'
<1>1. CASE SendCmd(c) \/ SendCallId(c) \/ SendArg(c)
  BY Zenon, <1>1, ClientSends DEF Framing
<1>2. CASE Call(c) \/ StartSending(c) \/ StopSending(c) \/ ReceiveLock(c) \/ ReceiveRetry(c)
           \/ StopReceiving(c)
  <2>1. /\ UNCHANGED <<callChanel, returnChanel, sFrom>>
        /\ \/ cpc' = [cpc EXCEPT ![c] = "lockOc"] \/ cpc' = [cpc EXCEPT ![c] = "sendCmd"]
           \/ cpc[c] = "unlockOc" /\ cpc' = [cpc EXCEPT ![c] = "lockIc"]
           \/ cpc[c] = "lockIc" /\ cpc' = [cpc EXCEPT ![c] = "peek"]
           \/ cpc[c] = "unlockRetry" /\ cpc' = [cpc EXCEPT ![c] = "lockIc"]
           \/ cpc' = [cpc EXCEPT ![c] = "idle"]
    BY Zenon, <1>2
    DEF Call, StartSending, StopSending, ReceiveLock, ReceiveRetry, StopReceiving, At, serverVars,
        chanels
  <2>2. \A d \in Clients : cpc'[d] \in Waiting => cpc[d] \in Waiting
    BY <2>1 DEF Framing, Types, Waiting
  <2> QED BY Zenon, <2>1, <2>2, QuietWay
<1> QED BY Zenon, <1>1, <1>2, PeekLosesNothing, ResultLosesNothing DEF ClientStep

\* The server takes a word of the message it reads, or of a new one.
LEMMA ReceiveLosesNothing ==
  ASSUME Framing, NothingLost, Dispatch \/ ReceiveCallId \/ ReceiveArg
  PROVE  NothingLost'
<1>1. /\ callChanel # <<>> /\ callChanel' = Tail(callChanel)
      /\ UNCHANGED <<cpc, returnChanel>> /\ callChanel \in Seq(Words)
      /\ \/ spc = "cmd" /\ sFrom' = Head(callChanel).from
         \/ spc \in {"callId", "arg"} /\ sFrom' = sFrom
  BY DEF Dispatch, ReceiveCallId, ReceiveArg, Receive, clientVars, Framing, Types
<1>2. Head(callChanel).from = sFrom'
  BY Zenon, <1>1, CallHead
<1>3. spc = "cmd" => sFrom = None
  BY Zenon DEF Framing, Server
<1>4. ASSUME NEW c \in Clients, cpc'[c] \in Waiting PROVE OnItsWay(c)'
  <2>1. OnItsWay(c)
    BY Zenon, <1>1, <1>4 DEF NothingLost
  <2>2. None \notin Clients
    BY HeapManagerAssumption DEF None
  <2>3. CASE WordOf(c, callChanel)
    <3>1. Head(callChanel).from = c \/ WordOf(c, Tail(callChanel))
      BY Zenon, <1>1, <2>3, WordTaken
    <3> QED BY Zenon, <1>1, <1>2, <3>1 DEF OnItsWay
  <2>4. CASE sFrom = c
    <3>1. sFrom' = sFrom
      BY Zenon, <1>1, <1>3, <2>2, <2>4
    <3> QED BY Zenon, <2>4, <3>1 DEF OnItsWay
  <2>5. CASE WordOf(c, returnChanel)
    BY Zenon, <1>1, <2>5 DEF OnItsWay
  <2> QED BY Zenon, <2>1, <2>3, <2>4, <2>5 DEF OnItsWay
<1> QED BY Zenon, <1>4 DEF NothingLost

\* The server answers the call it is at.
LEMMA ReplyLosesNothing ==
  ASSUME Types, NothingLost, ReplyCallId \/ ReplyResult
  PROVE  NothingLost'
<1>1. PICK w : returnChanel' = Append(returnChanel, w) /\ w.from = sFrom
  <2>1. CASE ReplyCallId
    <3> DEFINE w == Word("callId", sCallId, sFrom)
    <3>1. returnChanel' = Append(returnChanel, w) /\ w.from = sFrom
      BY <2>1 DEF ReplyCallId, Reply, Word
    <3> QED BY Zenon, <3>1
  <2>2. CASE ReplyResult
    <3> DEFINE w == Word("result", sResult, sFrom)
    <3>1. returnChanel' = Append(returnChanel, w) /\ w.from = sFrom
      BY <2>2 DEF ReplyResult, Reply, Word
    <3> QED BY Zenon, <3>1
  <2> QED BY Zenon, <2>1, <2>2
<1>2. UNCHANGED <<cpc, callChanel>> /\ returnChanel \in Seq(Words)
  BY DEF ReplyCallId, ReplyResult, Reply, clientVars, Types
<1>3. ASSUME NEW c \in Clients, cpc'[c] \in Waiting PROVE OnItsWay(c)'
  <2>1. OnItsWay(c)
    BY Zenon, <1>2, <1>3 DEF NothingLost
  <2> QED BY Zenon, <1>1, <1>2, <2>1, WordAppended DEF OnItsWay
<1> QED BY Zenon, <1>3 DEF NothingLost

LEMMA NothingLostStep ==
  ASSUME IdsDistinct, Framing, NothingLost, [Next]_vars
  PROVE  NothingLost'
<1>1. ASSUME UNCHANGED <<callChanel, returnChanel, sFrom, cpc>> PROVE NothingLost'
  BY Zenon, <1>1, QuietWay
<1>2. ASSUME NEW c \in Clients, Die(Pid[c]) PROVE NothingLost'
  BY <1>1, <1>2 DEF Die, chanels, serverVars
<1>3. CASE Serve
  BY <1>1, <1>3 DEF Serve, chanels, clientVars
<1>4. CASE Stop
  BY <1>1, <1>4 DEF Stop, chanels, clientVars, serverVars
<1>5. CASE UNCHANGED vars
  BY <1>1, <1>5 DEF vars, chanels, clientVars, serverVars
<1>6. Types
  BY Zenon DEF Framing
<1> QED
  BY Zenon, <1>2, <1>3, <1>4, <1>5, <1>6, ClientLosesNothing, ReceiveLosesNothing, ReplyLosesNothing
  DEF Next, ServerStep

\* Who holds a lock gets on, if he lives and finds room or a word.
LEMMA LockGetsOn ==
  ASSUME Types, Holders, Undisturbed
  PROVE  /\ ocLock # Free /\ callChanel = <<>> => ocLock \in Clients \ dead /\ GetsOn(ocLock)
         /\ icLock # Free /\ returnChanel # <<>> => icLock \in Clients \ dead /\ GetsOn(icLock)
<1>1. callChanel = <<>> => Len(callChanel) < Capacity
  BY HeapManagerAssumption
<1>2. ASSUME ocLock # Free, callChanel = <<>> PROVE ocLock \in Clients \ dead /\ GetsOn(ocLock)
  BY <1>1, <1>2 DEF Types, Holders, Undisturbed, GetsOn, Sending
<1>3. ASSUME icLock # Free, returnChanel # <<>> PROVE icLock \in Clients \ dead /\ GetsOn(icLock)
  BY <1>3 DEF Types, Holders, Undisturbed, GetsOn, Receiving
<1> QED BY Zenon, <1>2, <1>3

\* With an answer in the return channel, its owner gets on, or the holder of
\* the lock.
LEMMA AnswerGetsOn ==
  ASSUME Framing, Holders, Undisturbed, returnChanel # <<>>
  PROVE  \E c \in Clients \ dead : GetsOn(c)
<1> DEFINE d == Head(returnChanel).from
<1>1. Head(returnChanel) = returnChanel[1] /\ 1 \in 1..Len(returnChanel)
  BY TailFacts DEF Framing, Types
<1>2. d \in Clients /\ cpc[d] \in Waiting \cup {"receive"}
  BY <1>1, WordTypes DEF Framing, ReturnWords
<1>3. d \notin dead
  BY <1>2 DEF Undisturbed, Waiting
<1>4. cpc[d] \in {"unlockOc", "lockIc", "peek", "unlockRetry", "receive"}
  BY <1>2 DEF Waiting
<1>5. CASE icLock = Free \/ cpc[d] # "lockIc"
  BY Zenon, <1>2, <1>3, <1>4, <1>5 DEF GetsOn
<1>6. CASE icLock # Free
  BY Zenon, <1>6, LockGetsOn DEF Framing
<1> QED BY Zenon, <1>5, <1>6

LEMMA GettingOn ==
  ASSUME Framing, Holders, NothingLost
  PROVE  SomeoneGetsOn
<1> SUFFICES ASSUME Undisturbed, NEW c \in Clients \ dead, cpc[c] # "idle", ~ ServerMoves,
                    \A d \in Clients \ dead : ~ GetsOn(d)
             PROVE  FALSE
  BY Zenon DEF SomeoneGetsOn
<1>1. returnChanel = <<>>
  BY Zenon, AnswerGetsOn
<1>2. spc \in {"cmd", "callId", "arg"}
  <2>1. returnChanel = <<>> => Len(returnChanel) < Capacity
    BY HeapManagerAssumption
  <2> QED BY <1>1, <2>1 DEF ServerMoves, Framing, Types, ServePcs
<1>3. callChanel = <<>> /\ Len(callChanel) = 0 /\ Len(returnChanel) = 0 /\ Len(callChanel) < Capacity
  BY <1>1, <1>2, HeapManagerAssumption DEF ServerMoves
<1>4. ocLock = Free
  BY Zenon, <1>3, LockGetsOn DEF Framing
<1>5. \A d \in Clients : cpc[d] \notin {"sendCallId", "sendArg", "unlockOc", "unlockRetry", "unlockIc"}
  <2>1. ASSUME NEW d \in Clients,
               cpc[d] \in {"sendCallId", "sendArg", "unlockOc", "unlockRetry", "unlockIc"}
        PROVE  FALSE
    <3>1. d \notin dead
      BY <2>1 DEF Undisturbed
    <3> QED BY Zenon, <1>3, <2>1, <3>1 DEF GetsOn
  <2> QED BY Zenon, <2>1
<1>6. spc = "cmd"
  BY <1>2, <1>3, <1>5 DEF Framing, CallFrames
<1>7. cpc[c] \notin {"receive"}
  BY <1>3, <1>6 DEF Framing, ReturnFrames
<1>8. cpc[c] \in {"lockIc", "peek"}
  BY <1>3, <1>4, <1>5, <1>7 DEF GetsOn, Framing, Types, CallPcs
<1>9. OnItsWay(c)
  BY <1>8 DEF NothingLost, Waiting
<1>10. sFrom = None /\ None \notin Clients
  BY <1>6, HeapManagerAssumption DEF Framing, Server, None
<1>11. WordOf(c, callChanel) \/ WordOf(c, returnChanel)
  BY Zenon, <1>9, <1>10 DEF OnItsWay
<1> QED BY <1>3, <1>11 DEF WordOf

\* The call of a caller that waits is never lost: its message is in the call
\* channel, with the server or in the return channel, however callers and server
\* interleave and whoever dies.
THEOREM CallsOnTheirWay ==
  ASSUME IdsDistinct PROVE Spec => []NothingLost
<1>1. Init => IInv /\ NothingLost
  BY Zenon, InitInv, InitHeld
<1>2. IInv /\ NothingLost /\ [Next]_vars => IInv' /\ NothingLost'
  BY Zenon, StepInv, NothingLostStep DEF IInv
<1> QED BY <1>1, <1>2, PTL DEF Spec

\* The callers and the server never all wait for each other, be the channels as
\* small as one word, unless the service stops or a process dies in a call.
THEOREM HeapManagerDeadlockFree ==
  ASSUME IdsDistinct PROVE Spec => []SomeoneGetsOn
<1>1. Init => Holders
  BY Zenon, InitHeld
<1>2. IInv /\ Holders /\ [Next]_vars => Holders'
  BY Zenon, HoldersStep DEF IInv, Framing
<1>3. IInv /\ Holders /\ NothingLost => SomeoneGetsOn
  BY Zenon, GettingOn DEF IInv
<1> QED BY <1>1, <1>2, <1>3, HeapManagerInvariance, CallsOnTheirWay, PTL DEF Spec

-----------------------------------------------------------------------------
(* The allocator.                                                          *)

LEMMA AbstractInit == Init => Abstract!Init
<1> SUFFICES ASSUME Init PROVE Abstract!Init
  OBVIOUS
<1> QED BY DEF Init, Abstract!Init, Idle, Abstract!Idle

\* Between its start and its return, a call changes nothing that the caller of
\* gvAlloc or gvFree could see, but for the moment in which it is served.
LEMMA AbstractSame ==
  ASSUME Framing, NEW c \in Clients, NEW p \in CallPcs \ {"idle"},
         cpc[c] # "idle", cpc' = [cpc EXCEPT ![c] = p],
         UNCHANGED <<request, held, heap, answer, dead>>
  PROVE  UNCHANGED Abstract!vars
<1>1. \A d \in Clients : cpc'[d] = "idle" <=> cpc[d] = "idle"
  BY DEF Framing, Types
<1> QED BY <1>1 DEF Abstract!vars

LEMMA AbstractQuiet ==
  ASSUME UNCHANGED <<cpc, request, held, heap, answer, dead>>
  PROVE  UNCHANGED Abstract!vars
  BY DEF Abstract!vars

LEMMA AbstractCall ==
  ASSUME IInv, NEW c \in Clients, Call(c) PROVE Abstract!Call(c)
<1>1. /\ cpc[c] = "idle" /\ c \notin dead /\ cpc' = [cpc EXCEPT ![c] = "lockOc"]
      /\ answer[c] = Unanswered
      /\ \/ /\ \E n \in Lengths : request' = [request EXCEPT ![c] = [cmd |-> "alloc", arg |-> n]]
            /\ UNCHANGED held
         \/ \E at \in held[c] :
              /\ request' = [request EXCEPT ![c] = [cmd |-> "free", arg |-> at]]
              /\ held' = [held EXCEPT ![c] = @ \ {at}]
      /\ UNCHANGED <<heap, answer, dead>>
  BY DEF Call, At, faults, IInv, Framing, Calls
<1> DEFINE Phase(d) == IF cpc[d] = "idle" THEN "idle"
                       ELSE IF answer[d] = Unanswered THEN "called" ELSE "served"
<1>2. /\ Phase(c) = "idle" /\ Phase(c)' = "called"
      /\ \A d \in Clients \ {c} : Phase(d)' = Phase(d)
  BY <1>1 DEF IInv, Framing, Types
<1>3. /\ [d \in Clients |-> Phase(d)][c] = "idle"
      /\ [d \in Clients |-> Phase(d)]' = [[d \in Clients |-> Phase(d)] EXCEPT ![c] = "called"]
  <2> HIDE DEF Phase
  <2> QED BY <1>2
<1> QED BY <1>1, <1>3 DEF Abstract!Call, Abstract!AllocOf, Abstract!FreeOf

LEMMA AbstractServe ==
  ASSUME IInv, Serve, NEW c \in Clients, c = sFrom PROVE Abstract!Serve(c)
<1>1. /\ cpc[c] # "idle" /\ answer[c] = Unanswered
      /\ answer' = [answer EXCEPT ![c] = sResult']
      /\ UNCHANGED <<cpc, request, held, dead>>
  BY ServeFacts DEF IInv, clientVars, Waiting
<1>2. answer' \in [Clients -> Int] /\ answer'[c] # Unanswered /\ answer'[c] = sResult'
      /\ \A d \in Clients \ {c} : answer'[d] = answer[d]
  <2>1. answer'[c] = sResult' /\ \A d \in Clients \ {c} : answer'[d] = answer[d]
    BY <1>1 DEF IInv, Framing, Types
  <2>2. answer' \in [Clients -> Int] /\ sResult' # Unanswered
    BY ServeInv, ServeFacts DEF IInv, Framing, Types, Server
  <2> QED BY <2>1, <2>2
<1>3. \/ /\ request[c].cmd = "alloc"
         /\ \E b \in Abstract!Fitting(request[c].arg, heap) :
              heap' = heap \cup {b} /\ answer'[c] = b.at
      \/ request[c].cmd = "alloc" /\ heap' = heap /\ answer'[c] = 0
      \/ request[c].cmd = "free" /\ heap' = {b \in heap : b.at # request[c].arg} /\ answer'[c] = 0
  BY <1>2, ServeFacts DEF IInv, Fitting, PagesOf, Abstract!Fitting, Abstract!PagesOf
<1> DEFINE Phase(d) == IF cpc[d] = "idle" THEN "idle"
                       ELSE IF answer[d] = Unanswered THEN "called" ELSE "served"
           ReplyTo(d) == IF answer[d] = Unanswered THEN 0 ELSE answer[d]
<1>4. /\ Phase(c) = "called" /\ Phase(c)' = "served" /\ ReplyTo(c)' = answer'[c]
      /\ \A d \in Clients \ {c} : Phase(d)' = Phase(d) /\ ReplyTo(d)' = ReplyTo(d)
  BY <1>1, <1>2
<1>5. /\ [d \in Clients |-> Phase(d)]' = [[d \in Clients |-> Phase(d)] EXCEPT ![c] = "served"]
      /\ [d \in Clients |-> ReplyTo(d)]' = [[d \in Clients |-> ReplyTo(d)] EXCEPT ![c] = answer'[c]]
  <2> HIDE DEF Phase, ReplyTo
  <2> QED BY <1>4
<1>6. [d \in Clients |-> Phase(d)][c] = "called"
  BY <1>4
<1> DEFINE replies == [d \in Clients |-> ReplyTo(d)]
<1>7. \/ /\ request[c].cmd = "alloc"
         /\ \E b \in Abstract!Fitting(request[c].arg, heap) :
              heap' = heap \cup {b} /\ replies' = [replies EXCEPT ![c] = b.at]
      \/ request[c].cmd = "alloc" /\ replies' = [replies EXCEPT ![c] = 0] /\ heap' = heap
      \/ /\ request[c].cmd = "free"
         /\ heap' = {b \in heap : b.at # request[c].arg} /\ replies' = [replies EXCEPT ![c] = 0]
  <2>1. replies' = [replies EXCEPT ![c] = answer'[c]]
    BY <1>5
  <2> HIDE DEF replies
  <2>2. CASE /\ request[c].cmd = "alloc"
             /\ \E b \in Abstract!Fitting(request[c].arg, heap) :
                  heap' = heap \cup {b} /\ answer'[c] = b.at
    BY <2>1, <2>2
  <2>3. CASE answer'[c] = 0
    BY <1>3, <2>1, <2>3
  <2> QED BY <1>3, <2>2, <2>3
<1> QED BY <1>1, <1>5, <1>6, <1>7 DEF Abstract!Serve

LEMMA AbstractReturn ==
  ASSUME IInv, NEW c \in Clients, StopReceiving(c) PROVE Abstract!Return(c)
<1>1. /\ cpc[c] = "unlockIc" /\ c \notin dead /\ cpc' = [cpc EXCEPT ![c] = "idle"]
      /\ request' = [request EXCEPT ![c] = Idle]
      /\ answer' = [answer EXCEPT ![c] = Unanswered]
      /\ result[c] = answer[c] /\ answer[c] # Unanswered
      /\ held' = IF request[c].cmd = "alloc" /\ result[c] # 0
                 THEN [held EXCEPT ![c] = @ \cup {result[c]}] ELSE held
      /\ UNCHANGED <<heap, dead>>
  BY DEF StopReceiving, At, faults, IInv, Framing, Calls
<1> DEFINE Phase(d) == IF cpc[d] = "idle" THEN "idle"
                       ELSE IF answer[d] = Unanswered THEN "called" ELSE "served"
           ReplyTo(d) == IF answer[d] = Unanswered THEN 0 ELSE answer[d]
<1>2. /\ cpc'[c] = "idle" /\ answer'[c] = Unanswered
      /\ \A d \in Clients \ {c} : cpc'[d] = cpc[d] /\ answer'[d] = answer[d]
  BY <1>1 DEF IInv, Framing, Types
<1>3. /\ Phase(c) = "served" /\ Phase(c)' = "idle" /\ ReplyTo(c) = result[c] /\ ReplyTo(c)' = 0
      /\ \A d \in Clients \ {c} : Phase(d)' = Phase(d) /\ ReplyTo(d)' = ReplyTo(d)
  BY <1>1, <1>2
<1>4. /\ [d \in Clients |-> Phase(d)]' = [[d \in Clients |-> Phase(d)] EXCEPT ![c] = "idle"]
      /\ [d \in Clients |-> ReplyTo(d)]' = [[d \in Clients |-> ReplyTo(d)] EXCEPT ![c] = 0]
  <2> HIDE DEF Phase, ReplyTo
  <2> QED BY <1>3
<1>5. /\ [d \in Clients |-> Phase(d)][c] = "served"
      /\ [d \in Clients |-> ReplyTo(d)][c] = result[c]
  BY <1>3
<1> QED BY <1>1, <1>4, <1>5 DEF Abstract!Return, Abstract!Idle, Idle

LEMMA AbstractDie ==
  ASSUME NEW p, Die(p) PROVE \E gone \in SUBSET Clients : Abstract!Die(gone)
<1> DEFINE gone == {c \in Clients : Pid[c] = p}
<1>1. /\ gone \in SUBSET Clients /\ gone \ dead # {} /\ dead' = dead \cup gone
      /\ held' = [c \in Clients |-> IF c \in gone THEN {} ELSE held[c]]
      /\ UNCHANGED <<heap, cpc, request, answer>>
  BY DEF Die
<1> HIDE DEF gone
<1>2. Abstract!Die(gone)
  BY <1>1 DEF Abstract!Die
<1> QED BY <1>1, <1>2

LEMMA AbstractStep ==
  ASSUME IInv, [Next]_vars PROVE [Abstract!Next]_(Abstract!vars)
<1> USE DEF IInv
<1>1. CASE UNCHANGED vars
  BY <1>1, AbstractQuiet DEF vars, clientVars, faults
<1>2. CASE Stop
  BY <1>2, AbstractQuiet DEF Stop, clientVars
<1>3. ASSUME NEW c \in Clients, Call(c) PROVE Abstract!Next
  BY <1>3, AbstractCall DEF Abstract!Next
<1>4. ASSUME NEW c \in Clients, Die(Pid[c]) PROVE Abstract!Next
  BY <1>4, AbstractDie DEF Abstract!Next
<1>5. ASSUME NEW c \in Clients, ClientStep(c) PROVE [Abstract!Next]_(Abstract!vars)
  <2>1. CASE StopReceiving(c)
    BY <2>1, AbstractReturn DEF Abstract!Next
  <2>2. CASE ~StopReceiving(c)
    <3>1. \E p \in CallPcs \ {"idle"} : /\ cpc[c] # "idle" /\ cpc' = [cpc EXCEPT ![c] = p]
                                        /\ UNCHANGED <<request, held, heap, answer, dead>>
      BY <1>5, <2>2 DEF ClientStep, StartSending, SendCmd, SendCallId, SendArg, Send, StopSending,
         ReceiveLock, ReceivePeek, ReceiveRetry, ReceiveResult, At, CallPcs, faults
    <3> QED BY <3>1, AbstractSame
  <2> QED BY <2>1, <2>2
<1>6. CASE Serve
  <2>1. PICK c \in Clients : c = sFrom
    BY <1>6, ServeFacts
  <2> QED BY <1>6, <2>1, AbstractServe DEF Abstract!Next
<1>7. CASE Dispatch \/ ReceiveCallId \/ ReceiveArg \/ ReplyCallId \/ ReplyResult
  <2>1. UNCHANGED <<cpc, request, held, heap, answer, dead>>
    BY <1>7 DEF Dispatch, ReceiveCallId, ReceiveArg, Receive, ReplyCallId, ReplyResult, Reply,
       clientVars, faults
  <2> QED BY <2>1, AbstractQuiet
<1> QED BY <1>1, <1>2, <1>3, <1>4, <1>5, <1>6, <1>7 DEF Next, ServerStep

\* To its callers the service is the allocator of Allocator: each call takes
\* effect once, in the moment its handler runs, and returns what came of it.
THEOREM HeapManagerIsAllocator ==
  ASSUME IdsDistinct PROVE Spec => ImplementsAllocator
<1>1. Init => Abstract!Init
  BY AbstractInit
<1>2. IInv /\ [Next]_vars => [Abstract!Next]_(Abstract!vars)
  BY AbstractStep
<1> QED BY <1>1, <1>2, HeapManagerInvariance, PTL DEF Spec, ImplementsAllocator, Abstract!Spec

=============================================================================
