---------------------------- MODULE JanitorProofs ----------------------------
(***************************************************************************)
(* Proofs about Janitor, for any number of clients and regions, whatever   *)
(* fails: the janitor never enters a region twice and never has two        *)
(* threads go on in one.  Given that clients start after the janitor, all  *)
(* transports are whole when they are used, and heap manager and janitor   *)
(* together are the service that ContextService describes.                 *)
(***************************************************************************)
EXTENDS Janitor, FiniteSetTheorems, TLAPS

Steps == {"check", "state", "rings", "sync", "done"}
ClientPcs == {"off", "starting", "ready", "bonjour", "welcome", "attaching", "current",
              "posting", "calling", "aurevoir", "gone"}
JanitorPcs == {"starting", "serving", "bonjour", "dispatched", "aurevoir", "cancelled"}
Kinds == {"bonjour", "aurevoir"}
Requests == [from : Clients, kind : Kinds, area : Regions, thread : Nat]
Headers == [initialized : BOOLEAN, rings : BOOLEAN, sync : BOOLEAN, held : BOOLEAN]
Threads == [area : Regions, mapped : BOOLEAN, cancelled : BOOLEAN, dead : BOOLEAN]

Types ==
    /\ header \in [Areas -> Headers]
    /\ making \in [Procs -> [area : Areas, step : Steps]]
    /\ cpc \in [Clients -> ClientPcs] /\ region \in [Clients -> Areas]
    /\ lost \subseteq Regions
    /\ requests \in Seq(Requests) /\ jpc \in JanitorPcs
    /\ states \subseteq [offset : Regions, thread : Nat]
    /\ threads \in Seq(Threads)
    /\ glCall \in [Regions -> {"none", "made", "answered"}]
    /\ posted \in [Regions -> Clients \cup {"nobody"}]

\* No two clients have one region, and nobody has a lost one.
Leases ==
    /\ \A c \in Clients : region[c] = "service" <=> cpc[c] \in {"off", "starting", "ready"}
    /\ \A c, d \in Clients : region[c] = region[d] /\ region[c] # "service" => c = d
    /\ \A c \in Clients : region[c] \notin lost

\* A request that lies in the service's transport, or is being served, is of
\* a client that waits for its answer, and the only one of it.
Serves(kind) == IF kind = "bonjour" THEN {"bonjour", "dispatched"} ELSE {"aurevoir", "cancelled"}
Asked ==
    /\ \A i \in 1..Len(requests) : /\ cpc[requests[i].from] = requests[i].kind
                                   /\ requests[i].area = region[requests[i].from]
    /\ \A i, j \in 1..Len(requests) : requests[i].from = requests[j].from => i = j
    /\ jpc \in {"bonjour", "dispatched", "aurevoir", "cancelled"} =>
         /\ request \in Requests /\ jpc \in Serves(request.kind)
         /\ cpc[request.from] = request.kind /\ request.area = region[request.from]
         /\ \A i \in 1..Len(requests) : requests[i].from # request.from

\* The clients whose region the janitor has entered, and the one whose region
\* has a thread but is not entered yet.
Entered(c) ==
    \/ cpc[c] \in {"welcome", "attaching", "current", "posting", "calling"}
    \/ cpc[c] = "aurevoir" /\ ~(jpc = "cancelled" /\ request.from = c)
Dispatched(c) == cpc[c] = "bonjour" /\ jpc = "dispatched" /\ request.from = c

Entries ==
    /\ \A s \in states : /\ s.thread \in DOMAIN threads /\ ~threads[s.thread].cancelled
                         /\ threads[s.thread].area = s.offset
                         /\ \/ s.offset \in lost
                            \/ \E c \in Clients : region[c] = s.offset /\ Entered(c)
    /\ OffsetsUnique
    /\ \A c \in Clients : Entered(c) => StatesOf(region[c]) # {}

Dispatchers ==
    /\ \A t \in DOMAIN threads : ~threads[t].cancelled =>
         \/ threads[t].area \in lost
         \/ \E c \in Clients : region[c] = threads[t].area /\ (Entered(c) \/ Dispatched(c))
    /\ \A t, u \in DOMAIN threads :
         threads[t].area = threads[u].area /\ ~threads[t].cancelled /\ ~threads[u].cancelled
           => t = u
    /\ jpc = "dispatched" => /\ Len(threads) # 0 /\ threads[Len(threads)].area = request.area
                             /\ ~threads[Len(threads)].cancelled
    /\ jpc = "cancelled" => request.thread \in DOMAIN threads

\* Threads are started for those who have asked.
Waiters == {c \in Clients : cpc[c] = "bonjour" /\ ~Dispatched(c)}
Bounded == Len(threads) + Cardinality(Waiters) <= MaxThreads

Core == Types /\ Leases /\ Asked /\ Entries /\ Dispatchers /\ Bounded

\* Clients that have been answered use their region's transport.
Late == {"welcome", "attaching", "current", "posting", "calling", "aurevoir", "gone"}

\* Only the janitor sets transports up, each once, before anybody uses it.
Prepared ==
    /\ \A p \in Procs : making[p].step \in {"state", "rings", "sync"} => p = "janitor"
    /\ jpc = "starting" => making["janitor"].area = "service"
    /\ jpc = "bonjour" => making["janitor"].area = request.area
    /\ jpc \notin {"starting", "bonjour"} => making["janitor"].step = "done"
    /\ LET h == header[making["janitor"].area]  step == making["janitor"].step IN
         /\ step = "state" => ~h.initialized
         /\ step = "rings" => h.initialized /\ ~h.sync
         /\ step = "sync" => h.initialized /\ h.rings /\ ~h.sync
         /\ step = "done" => h.sync
    /\ \A a \in Areas :
         /\ header[a].initialized =>
              \/ header[a].sync
              \/ making["janitor"].area = a /\ making["janitor"].step \in {"rings", "sync"}
         /\ header[a].sync => header[a].rings /\ header[a].initialized
    /\ jpc # "starting" => header["service"].sync
    /\ jpc = "starting" => \A c \in Clients : cpc[c] = "off"
    /\ \A c \in Clients :
         /\ making[c].step = "check" => header[making[c].area].sync
         /\ cpc[c] \in Late
              => header[region[c]].sync
    /\ \A t \in DOMAIN threads : header[threads[t].area].sync

\* A call in a region is its client's.
Calls ==
    \A a \in Regions : glCall[a] # "none" => \E c \in Clients : cpc[c] = "calling" /\ region[c] = a

Failed == trackerLocked => "put" \in Faults

Whole == Core /\ Prepared /\ Calls /\ Failed

-----------------------------------------------------------------------------
(* Sequences by index, and the number of those that wait.                  *)

LEMMA AppendFacts ==
  ASSUME NEW S, NEW s \in Seq(S), NEW x \in S
  PROVE  /\ Len(s) \in Nat /\ DOMAIN s = 1..Len(s)
         /\ Append(s, x) \in Seq(S) /\ Len(Append(s, x)) = Len(s) + 1
         /\ DOMAIN Append(s, x) = 1..(Len(s) + 1)
         /\ \A i \in 1..Len(s) : Append(s, x)[i] = s[i]
         /\ Append(s, x)[Len(s) + 1] = x
  OBVIOUS

LEMMA TailFacts ==
  ASSUME NEW S, NEW s \in Seq(S), s # <<>>
  PROVE  /\ Len(s) \in Nat \ {0} /\ Head(s) = s[1] /\ s[1] \in S
         /\ Tail(s) \in Seq(S) /\ Len(Tail(s)) = Len(s) - 1
         /\ \A i \in 1..(Len(s) - 1) : Tail(s)[i] = s[i + 1] /\ i + 1 \in 1..Len(s) /\ i + 1 # 1
  OBVIOUS

LEMMA ExceptFacts ==
  ASSUME NEW S, NEW s \in Seq(S), NEW i \in DOMAIN s, NEW x \in S
  PROVE  /\ [s EXCEPT ![i] = x] \in Seq(S) /\ Len([s EXCEPT ![i] = x]) = Len(s)
         /\ DOMAIN [s EXCEPT ![i] = x] = DOMAIN s
         /\ [s EXCEPT ![i] = x][i] = x
         /\ \A j \in DOMAIN s \ {i} : [s EXCEPT ![i] = x][j] = s[j]
  OBVIOUS

LEMMA ThreadTypes == Types => \A t \in DOMAIN threads : threads[t] \in Threads
<1>1. ASSUME NEW S, NEW s \in Seq(S), NEW i \in DOMAIN s PROVE s[i] \in S
  OBVIOUS
<1> QED BY <1>1 DEF Types

LEMMA WaitersFinite ==
  /\ IsFiniteSet(Waiters) /\ Cardinality(Waiters) \in Nat
  /\ Types => Len(threads) \in Nat
<1>1. Waiters \subseteq Clients
  BY DEF Waiters
<1>2. IsFiniteSet(Waiters)
  BY <1>1, FS_Subset, JanitorAssumption
<1> QED BY <1>2, FS_CardinalityType DEF Types

\* Nobody new waits, and no thread is new.
LEMMA BoundedKept ==
  ASSUME Types, Bounded, Waiters' \subseteq Waiters, Len(threads') = Len(threads)
  PROVE  Bounded'
<1>1. Cardinality(Waiters') <= Cardinality(Waiters) /\ Cardinality(Waiters') \in Nat
  BY WaitersFinite, FS_Subset, FS_CardinalityType
<1> QED BY <1>1, WaitersFinite, JanitorAssumption DEF Bounded

LEMMA InitCore == Init => Core
<1> SUFFICES ASSUME Init PROVE Core
  OBVIOUS
<1>1. /\ \A c \in Clients : cpc[c] = "off" /\ region[c] = "service"
      /\ lost = {} /\ states = {} /\ jpc = "starting" /\ Len(requests) = 0
      /\ Len(threads) = 0 /\ DOMAIN threads = {}
  BY DEF Init
<1>2. Types
  <2>1. header \in [Areas -> Headers] /\ making \in [Procs -> [area : Areas, step : Steps]]
    BY DEF Init, Untouched, Headers, Making, NotMaking, Areas, Steps
  <2>2. /\ cpc \in [Clients -> ClientPcs] /\ region \in [Clients -> Areas]
        /\ glCall \in [Regions -> {"none", "made", "answered"}]
        /\ lost \subseteq Regions /\ jpc \in JanitorPcs
        /\ states \subseteq [offset : Regions, thread : Nat]
        /\ posted \in [Regions -> Clients \cup {"nobody"}]
    BY DEF Init, ClientPcs, Areas, JanitorPcs
  <2>3. requests \in Seq(Requests) /\ threads \in Seq(Threads)
    BY DEF Init
  <2> QED BY <2>1, <2>2, <2>3 DEF Types
<1>3. Leases /\ Asked
  BY <1>1 DEF Leases, Asked
<1>4. Entries /\ Dispatchers
  BY <1>1 DEF Entries, Dispatchers, OffsetsUnique, Entered
<1>5. Bounded
  <2>1. Waiters = {}
    BY <1>1 DEF Waiters
  <2> QED BY <1>1, <2>1, FS_EmptySet, JanitorAssumption DEF Bounded
<1> QED BY <1>2, <1>3, <1>4, <1>5 DEF Core

-----------------------------------------------------------------------------
(* Steps that only move one process.                                       *)

\* What clients ask for, and whom the janitor serves, stays.
LEMMA CoreSame ==
  ASSUME Core, Types', requests' = requests \/ requests' = <<>>,
         UNCHANGED <<cpc, region, lost, jpc, request, states>>,
         DOMAIN threads' = DOMAIN threads, Len(threads') = Len(threads),
         \A t \in DOMAIN threads : /\ threads'[t].area = threads[t].area
                                   /\ threads'[t].cancelled = threads[t].cancelled
  PROVE  Core'
<1> USE DEF Core
<1>1. Leases'
  BY DEF Leases
<1>2. Asked'
  <2>1. CASE requests' = requests
    BY <2>1 DEF Asked
  <2>2. CASE requests' = <<>>
    <3>1. Len(requests') = 0
      BY <2>2
    <3> QED BY <3>1 DEF Asked
  <2> QED BY <2>1, <2>2
<1>3. \A c \in Clients : /\ Entered(c)' <=> Entered(c)
                         /\ Dispatched(c)' <=> Dispatched(c)
                         /\ StatesOf(region[c])' = StatesOf(region[c])
  BY DEF Entered, Dispatched, StatesOf
<1>4. Entries'
  BY <1>3 DEF Entries, OffsetsUnique
<1>5. Dispatchers'
  <2>1. jpc = "dispatched" => Len(threads) \in DOMAIN threads
    BY DEF Dispatchers, Types
  <2> QED BY <1>3, <2>1 DEF Dispatchers
<1>6. Bounded'
  <2>1. Waiters' = Waiters
    BY <1>3 DEF Waiters
  <2> QED BY <2>1, BoundedKept
<1> QED BY <1>1, <1>2, <1>4, <1>5, <1>6

\* Where a client goes without asking the janitor.
LEMMA CoreMoves ==
  ASSUME Core, Types', NEW c \in Clients, NEW p \in ClientPcs,
         cpc' = [cpc EXCEPT ![c] = p],
         \/ {cpc[c], p} \subseteq {"off", "starting", "ready"}
         \/ {cpc[c], p} \subseteq {"welcome", "attaching", "current", "posting", "calling"},
         UNCHANGED <<region, lost, requests, jpc, request, states, threads>>
  PROVE  Core'
<1> USE DEF Core
<1>1. cpc'[c] = p /\ \A d \in Clients \ {c} : cpc'[d] = cpc[d]
  BY DEF Types
<1>2. Leases'
  BY <1>1 DEF Leases
<1>3. \A d \in Clients : cpc[d] \in {"bonjour", "aurevoir"} => cpc'[d] = cpc[d]
  BY <1>1
<1>4. Asked'
  <2>1. \A i \in 1..Len(requests) : requests[i] \in Requests
    BY DEF Types
  <2> QED BY <1>3, <2>1 DEF Asked, Requests, Kinds
<1>5. \A d \in Clients : /\ Entered(d)' <=> Entered(d)
                         /\ Dispatched(d)' <=> Dispatched(d)
                         /\ StatesOf(region[d])' = StatesOf(region[d])
  BY <1>1 DEF Entered, Dispatched, StatesOf
<1>6. Entries' /\ Dispatchers'
  BY <1>5 DEF Entries, OffsetsUnique, Dispatchers
<1>7. Bounded'
  <2>1. Waiters' \subseteq Waiters
    BY <1>1, <1>5 DEF Waiters
  <2> QED BY <2>1, BoundedKept
<1> QED BY <1>2, <1>4, <1>6, <1>7

-----------------------------------------------------------------------------
(* What clients ask for, give up and give back.                            *)

LEMMA RequestFacts ==
  ASSUME Core
  PROVE  /\ \A i \in 1..Len(requests) : /\ requests[i] \in Requests
                                        /\ requests[i].from \in Clients
                                        /\ cpc[requests[i].from] \in Kinds
         /\ jpc \in {"bonjour", "dispatched", "aurevoir", "cancelled"} =>
              /\ request.from \in Clients /\ request.area \in Regions /\ request.area # "service"
              /\ jpc \in {"bonjour", "dispatched"} => cpc[request.from] = "bonjour"
              /\ jpc \in {"aurevoir", "cancelled"} => cpc[request.from] = "aurevoir"
<1> USE DEF Core
<1>1. \A i \in 1..Len(requests) : requests[i] \in Requests
  BY DEF Types
<1>2. \A i \in 1..Len(requests) : requests[i].from \in Clients /\ requests[i].kind \in Kinds
  BY <1>1 DEF Requests
<1>3. ASSUME jpc \in {"bonjour", "dispatched", "aurevoir", "cancelled"}
      PROVE  /\ request.from \in Clients /\ request.area \in Regions /\ request.area # "service"
             /\ jpc \in {"bonjour", "dispatched"} => cpc[request.from] = "bonjour"
             /\ jpc \in {"aurevoir", "cancelled"} => cpc[request.from] = "aurevoir"
  BY <1>3, JanitorAssumption DEF Asked, Serves, Requests, Kinds
<1> QED BY <1>1, <1>2, <1>3 DEF Asked

\* A client asks the janitor for something.
LEMMA AskedMore ==
  ASSUME Core, NEW c \in Clients, NEW k \in Kinds, NEW a \in Regions,
         cpc[c] \notin Kinds, cpc' = [cpc EXCEPT ![c] = k],
         region'[c] = a, \A d \in Clients \ {c} : region'[d] = region[d],
         requests' = Append(requests, Request(c, k, a)),
         UNCHANGED <<jpc, request>>
  PROVE  Asked' /\ requests' \in Seq(Requests)
<1> DEFINE r == Request(c, k, a)
           n == Len(requests)
<1>1. cpc'[c] = k /\ \A d \in Clients \ {c} : cpc'[d] = cpc[d]
  BY DEF Core, Types, Kinds
<1>2. r \in Requests /\ r.from = c /\ r.kind = k /\ r.area = a
  BY DEF Request, Requests
<1> HIDE DEF r
<1>3. /\ n \in Nat /\ requests' \in Seq(Requests) /\ Len(requests') = n + 1
      /\ \A i \in 1..n : requests'[i] = requests[i]
      /\ requests'[n + 1] = r
  BY <1>2, AppendFacts DEF Core, Types, r
<1>4. \A i \in 1..n : requests[i].from \in Clients \ {c}
  BY RequestFacts
<1>5. ASSUME NEW i \in 1..Len(requests')
      PROVE  /\ cpc'[requests'[i].from] = requests'[i].kind
             /\ requests'[i].area = region'[requests'[i].from]
             /\ requests'[i].from = c => i = n + 1
  <2>1. CASE i = n + 1
    BY <1>1, <1>2, <1>3, <2>1
  <2>2. CASE i # n + 1
    <3>1. i \in 1..n
      BY <1>3, <2>2
    <3> QED BY <1>1, <1>3, <1>4, <3>1 DEF Core, Asked
  <2> QED BY <2>1, <2>2
<1>6. ASSUME NEW i \in 1..Len(requests'), NEW j \in 1..Len(requests'),
             requests'[i].from = requests'[j].from
      PROVE  i = j
  <2>1. CASE requests'[i].from = c
    <3>1. i = n + 1
      BY <1>5, <2>1
    <3>2. j = n + 1
      BY Zenon, <1>5, <1>6, <2>1
    <3> QED BY <3>1, <3>2
  <2>2. CASE requests'[i].from # c
    <3>1. i \in 1..n /\ j \in 1..n
      BY <1>2, <1>3, <1>6, <2>2
    <3> QED BY <1>3, <1>6, <3>1 DEF Core, Asked
  <2> QED BY <2>1, <2>2
<1>7. ASSUME jpc \in {"bonjour", "dispatched", "aurevoir", "cancelled"}
      PROVE  /\ cpc'[request.from] = request.kind /\ request.area = region'[request.from]
             /\ \A i \in 1..Len(requests') : requests'[i].from # request.from
  <2>1. request.from \in Clients /\ cpc[request.from] \in Kinds
    BY <1>7, RequestFacts DEF Kinds
  <2>2. request.from # c
    BY <2>1
  <2>3. ASSUME NEW i \in 1..Len(requests') PROVE requests'[i].from # request.from
    <3>1. CASE i = n + 1
      BY <1>2, <1>3, <2>2, <3>1
    <3>2. CASE i # n + 1
      <4>1. i \in 1..n
        BY <1>3, <3>2
      <4> QED BY <1>3, <1>7, <4>1 DEF Core, Asked
    <3> QED BY <3>1, <3>2
  <2> QED BY <1>1, <1>7, <2>1, <2>2, <2>3 DEF Core, Asked
<1> QED BY <1>3, <1>5, <1>6, <1>7 DEF Core, Asked

LEMMA CreateContextCore ==
  ASSUME Core, NEW c \in Clients, CreateContext(c)
  PROVE  Core'
<1> USE DEF Core
<1>1. PICK a \in Regions \ (lost \cup {region[d] : d \in Clients}) :
        /\ region' = [region EXCEPT ![c] = a]
        /\ requests' = Append(requests, Request(c, "bonjour", a))
  BY DEF CreateContext
<1>2. /\ cpc[c] = "ready" /\ MayAsk /\ cpc' = [cpc EXCEPT ![c] = "bonjour"]
      /\ UNCHANGED <<header, making, lost, jpc, request, states, threads, glCall, posted>>
  BY DEF CreateContext, janitorVars, tracker
<1>3. /\ cpc'[c] = "bonjour" /\ \A d \in Clients \ {c} : cpc'[d] = cpc[d]
      /\ region'[c] = a /\ \A d \in Clients \ {c} : region'[d] = region[d]
  BY <1>1, <1>2 DEF Types
<1>4. a \in Regions /\ a # "service" /\ a \notin lost /\ \A d \in Clients : region[d] # a
  BY <1>1, JanitorAssumption
<1>5. Asked' /\ requests' \in Seq(Requests)
  BY <1>1, <1>2, <1>3, AskedMore DEF Kinds
<1>6. Types'
  BY <1>1, <1>2, <1>5 DEF Types, ClientPcs, Areas
<1>7. Leases'
  BY <1>2, <1>3, <1>4 DEF Leases
<1>8. jpc \in {"bonjour", "dispatched", "aurevoir", "cancelled"} => request.from # c
  BY <1>2, RequestFacts
<1>9. \A d \in Clients \ {c} : /\ Entered(d)' <=> Entered(d)
                               /\ Dispatched(d)' <=> Dispatched(d)
                               /\ StatesOf(region[d])' = StatesOf(region[d])
  BY <1>2, <1>3 DEF Entered, Dispatched, StatesOf
<1>10. ~Entered(c) /\ ~Entered(c)' /\ ~Dispatched(c) /\ ~Dispatched(c)'
  BY <1>2, <1>3, <1>8 DEF Entered, Dispatched
<1>11. Entries'
  BY <1>2, <1>3, <1>9, <1>10 DEF Entries, OffsetsUnique
<1>12. Dispatchers'
  BY <1>2, <1>3, <1>9, <1>10 DEF Dispatchers
<1>13. Bounded'
  <2> DEFINE asking == {d \in Clients : cpc[d] = "bonjour"}
  <2>1. IsFiniteSet(asking) /\ c \notin asking
    BY <1>2, FS_Subset, JanitorAssumption
  <2>2. Waiters' \subseteq asking \cup {c}
    BY <1>3 DEF Waiters
  <2>3. /\ IsFiniteSet(asking \cup {c}) /\ Cardinality(asking \cup {c}) = Cardinality(asking) + 1
        /\ Cardinality(asking) \in Nat
    BY <2>1, FS_AddElement, FS_CardinalityType
  <2>4. Cardinality(Waiters') <= Cardinality(asking) + 1 /\ Cardinality(Waiters') \in Nat
    BY <2>2, <2>3, FS_Subset, FS_CardinalityType
  <2>5. Len(threads) + Cardinality(asking) < MaxThreads
    BY <1>2 DEF MayAsk
  <2> HIDE DEF asking
  <2> QED BY <1>2, <2>3, <2>4, <2>5, WaitersFinite, JanitorAssumption DEF Bounded
<1> QED BY <1>5, <1>6, <1>7, <1>11, <1>12, <1>13

LEMMA AuRevoirCore ==
  ASSUME Core, NEW c \in Clients, AuRevoir(c)
  PROVE  Core'
<1> USE DEF Core
<1>1. /\ cpc[c] = "current" /\ cpc' = [cpc EXCEPT ![c] = "aurevoir"]
      /\ requests' = Append(requests, Request(c, "aurevoir", region[c]))
      /\ UNCHANGED <<header, making, region, lost, jpc, request, states, threads, glCall, posted>>
  BY DEF AuRevoir, janitorVars, tracker
<1>2. cpc'[c] = "aurevoir" /\ \A d \in Clients \ {c} : cpc'[d] = cpc[d]
  BY <1>1 DEF Types
<1>3. region[c] \in Regions
  BY <1>1 DEF Types, Leases, Areas
<1>4. Asked' /\ requests' \in Seq(Requests)
  BY <1>1, <1>3, AskedMore DEF Kinds
<1>5. Types'
  BY <1>1, <1>4 DEF Types, ClientPcs
<1>6. Leases'
  BY <1>1, <1>2 DEF Leases
<1>7. jpc \in {"bonjour", "dispatched", "aurevoir", "cancelled"} => request.from # c
  BY <1>1, RequestFacts
<1>8. \A d \in Clients : /\ Entered(d)' <=> Entered(d)
                         /\ Dispatched(d)' <=> Dispatched(d)
                         /\ StatesOf(region[d])' = StatesOf(region[d])
  BY <1>1, <1>2, <1>7 DEF Entered, Dispatched, StatesOf
<1>9. Entries' /\ Dispatchers'
  BY <1>1, <1>8 DEF Entries, OffsetsUnique, Dispatchers
<1>10. Bounded'
  <2>1. Waiters' \subseteq Waiters
    BY <1>1, <1>2, <1>8 DEF Waiters
  <2> QED BY <1>1, <2>1, BoundedKept
<1> QED BY <1>4, <1>5, <1>6, <1>9, <1>10

\* gvFree: nothing of the janitor's is left in the region.
LEMMA FreeCore ==
  ASSUME Core, NEW c \in Clients, Free(c)
  PROVE  Core'
<1> USE DEF Core
<1>1. /\ cpc[c] = "gone" /\ cpc' = [cpc EXCEPT ![c] = "ready"]
      /\ region' = [region EXCEPT ![c] = "service"]
      /\ UNCHANGED <<header, making, lost, requests, jpc, request, states, threads, glCall,
                     posted>>
  BY DEF Free, janitorVars, tracker
<1>2. /\ cpc'[c] = "ready" /\ \A d \in Clients \ {c} : cpc'[d] = cpc[d]
      /\ region'[c] = "service" /\ \A d \in Clients \ {c} : region'[d] = region[d]
  BY <1>1 DEF Types
<1>3. Types'
  BY <1>1 DEF Types, ClientPcs, Areas
<1>4. Leases'
  BY <1>1, <1>2, JanitorAssumption DEF Leases, Types
<1>5. Asked'
  <2>1. \A i \in 1..Len(requests) : requests[i].from \in Clients \ {c}
    BY <1>1, RequestFacts DEF Kinds
  <2>2. jpc \in {"bonjour", "dispatched", "aurevoir", "cancelled"} => request.from \in Clients \ {c}
    BY <1>1, RequestFacts
  <2> QED BY <1>1, <1>2, <2>1, <2>2 DEF Asked
<1>6. \A d \in Clients \ {c} : /\ Entered(d)' <=> Entered(d)
                               /\ Dispatched(d)' <=> Dispatched(d)
                               /\ StatesOf(region[d])' = StatesOf(region[d])
  BY <1>1, <1>2 DEF Entered, Dispatched, StatesOf
<1>7. ~Entered(c) /\ ~Entered(c)' /\ ~Dispatched(c) /\ ~Dispatched(c)'
  BY <1>1, <1>2 DEF Entered, Dispatched
<1>8. Entries' /\ Dispatchers'
  BY <1>1, <1>2, <1>6, <1>7 DEF Entries, OffsetsUnique, Dispatchers
<1>9. Bounded'
  <2>1. Waiters' \subseteq Waiters
    BY <1>2, <1>6 DEF Waiters
  <2> QED BY <1>1, <2>1, BoundedKept
<1> QED BY <1>3, <1>4, <1>5, <1>8, <1>9

\* A client that gives up leaves its region lost, with all that is in it.
LEMMA GiveUpFacts ==
  ASSUME Core, NEW c \in Clients, cpc[c] \notin {"off", "starting", "ready"}, GiveUp(c)
  PROVE  /\ cpc'[c] = "ready" /\ \A d \in Clients \ {c} : cpc'[d] = cpc[d]
         /\ region'[c] = "service" /\ \A d \in Clients \ {c} : region'[d] = region[d]
         /\ region[c] \in Regions /\ lost' = lost \cup {region[c]}
         /\ cpc' \in [Clients -> ClientPcs] /\ region' \in [Clients -> Areas]
         /\ lost' \subseteq Regions
         /\ Leases'
<1> USE DEF Core
<1>1. /\ cpc'[c] = "ready" /\ \A d \in Clients \ {c} : cpc'[d] = cpc[d]
      /\ region'[c] = "service" /\ \A d \in Clients \ {c} : region'[d] = region[d]
      /\ region[c] \in Regions /\ lost' = lost \cup {region[c]}
  BY DEF GiveUp, Types, Leases, Areas
<1>2. /\ cpc' \in [Clients -> ClientPcs] /\ region' \in [Clients -> Areas]
      /\ lost' \subseteq Regions
  BY <1>1 DEF GiveUp, Types, ClientPcs, Areas
<1>3. Leases'
  <2>1. \A d \in Clients : region'[d] = "service" <=> cpc'[d] \in {"off", "starting", "ready"}
    BY <1>1 DEF Leases
  <2>2. \A d, e \in Clients : region'[d] = region'[e] /\ region'[d] # "service" => d = e
    BY <1>1 DEF Leases
  <2>3. \A d \in Clients : region'[d] \notin lost'
    BY <1>1, JanitorAssumption DEF Leases, Types
  <2> QED BY <2>1, <2>2, <2>3 DEF Leases
<1> QED BY <1>1, <1>2, <1>3

LEMMA AttachFailsCore ==
  ASSUME Core, NEW c \in Clients, AttachFails(c)
  PROVE  Core'
<1> USE DEF Core
<1>1. /\ cpc[c] = "attaching" /\ GiveUp(c)
      /\ making' = [making EXCEPT ![c] = NotMaking]
      /\ UNCHANGED <<header, requests, jpc, request, states, threads, glCall, posted>>
  BY DEF AttachFails, janitorVars, tracker
<1>2. /\ cpc'[c] = "ready" /\ \A d \in Clients \ {c} : cpc'[d] = cpc[d]
      /\ region'[c] = "service" /\ \A d \in Clients \ {c} : region'[d] = region[d]
      /\ region[c] \in Regions /\ lost' = lost \cup {region[c]}
      /\ cpc' \in [Clients -> ClientPcs] /\ region' \in [Clients -> Areas]
      /\ lost' \subseteq Regions
      /\ Leases'
  BY <1>1, GiveUpFacts
<1>3. Types'
  BY <1>1, <1>2 DEF Types, NotMaking, Areas, Steps
<1>5. Asked'
  <2>1. \A i \in 1..Len(requests) : requests[i].from \in Clients \ {c}
    BY <1>1, RequestFacts DEF Kinds
  <2>2. jpc \in {"bonjour", "dispatched", "aurevoir", "cancelled"} => request.from \in Clients \ {c}
    BY <1>1, RequestFacts
  <2> QED BY <1>1, <1>2, <2>1, <2>2 DEF Asked
<1>6. \A d \in Clients \ {c} : /\ Entered(d)' <=> Entered(d)
                               /\ Dispatched(d)' <=> Dispatched(d)
                               /\ StatesOf(region[d])' = StatesOf(region[d])
  BY <1>1, <1>2 DEF Entered, Dispatched, StatesOf
<1>7. ~Entered(c)' /\ ~Dispatched(c) /\ ~Dispatched(c)'
  BY <1>1, <1>2 DEF Entered, Dispatched
<1>8. Entries' /\ Dispatchers'
  BY <1>1, <1>2, <1>6, <1>7 DEF Entries, OffsetsUnique, Dispatchers
<1>9. Bounded'
  <2>1. Waiters' \subseteq Waiters
    BY <1>2, <1>6 DEF Waiters
  <2> QED BY <1>1, <2>1, BoundedKept
<1> QED BY <1>2, <1>3, <1>5, <1>8, <1>9

-----------------------------------------------------------------------------
(* What the janitor does.                                                  *)

LEMMA ServingCore ==
  ASSUME Core, Serving
  PROVE  Core'
<1> USE DEF Core
<1>1. /\ jpc = "starting" /\ jpc' = "serving"
      /\ UNCHANGED <<header, making, cpc, region, lost, requests, request, states, threads,
                     glCall, posted>>
  BY DEF Serving, tracker
<1>2. Types'
  BY <1>1 DEF Types, JanitorPcs
<1>3. Leases' /\ Asked'
  BY <1>1 DEF Leases, Asked
<1>4. \A c \in Clients : /\ Entered(c)' <=> Entered(c)
                         /\ Dispatched(c)' <=> Dispatched(c)
                         /\ StatesOf(region[c])' = StatesOf(region[c])
  BY <1>1 DEF Entered, Dispatched, StatesOf
<1>5. Entries' /\ Dispatchers'
  BY <1>1, <1>4 DEF Entries, OffsetsUnique, Dispatchers
<1>6. Bounded'
  <2>1. Waiters' \subseteq Waiters
    BY <1>1, <1>4 DEF Waiters
  <2> QED BY <1>1, <2>1, BoundedKept
<1> QED BY <1>2, <1>3, <1>5, <1>6

LEMMA ReceiveRequestCore ==
  ASSUME Core, ReceiveRequest
  PROVE  Core'
<1> USE DEF Core
<1> DEFINE n == Len(requests)
           r == requests[1]
<1>1. /\ jpc = "serving" /\ requests # <<>> /\ request' = Head(requests)
      /\ requests' = Tail(requests) /\ jpc' = request'.kind
      /\ making' = IF request'.kind = "bonjour"
                   THEN [making EXCEPT !["janitor"] = Making(request'.area)] ELSE making
      /\ UNCHANGED <<header, cpc, region, lost, states, threads, glCall, posted>>
  BY DEF ReceiveRequest, tracker
<1>2. /\ n \in Nat \ {0} /\ request' = r /\ r \in Requests
      /\ requests' \in Seq(Requests) /\ Len(requests') = n - 1
      /\ \A i \in 1..(n - 1) : /\ requests'[i] = requests[i + 1]
                               /\ i + 1 \in 1..n /\ i + 1 # 1
  BY <1>1, TailFacts DEF Types
<1>3. 1 \in 1..n
  BY <1>2
<1>4. /\ jpc' = r.kind /\ r.kind \in Kinds /\ r.from \in Clients /\ r.area \in Regions
      /\ cpc[r.from] = r.kind /\ r.area = region[r.from]
  BY <1>1, <1>2, <1>3 DEF Asked, Requests
<1> HIDE DEF n, r
<1>5. Types'
  <2>1. jpc' \in JanitorPcs
    BY <1>4 DEF Kinds, JanitorPcs
  <2>2. making' \in [Procs -> [area : Areas, step : Steps]]
    BY <1>1, <1>2, <1>4 DEF Types, Making, Areas, Steps
  <2> QED BY <1>1, <1>2, <2>1, <2>2 DEF Types
<1>6. Leases'
  BY <1>1 DEF Leases
<1>7. Asked'
  <2>1. \A i \in 1..(n - 1) : /\ cpc[requests'[i].from] = requests'[i].kind
                              /\ requests'[i].area = region[requests'[i].from]
    BY <1>2 DEF Asked, n
  <2>2. \A i \in 1..(n - 1) : requests'[i].from # r.from
    BY <1>2, <1>3 DEF Asked, n, r
  <2>3. ASSUME NEW i \in 1..(n - 1), NEW j \in 1..(n - 1), requests'[i].from = requests'[j].from
        PROVE  i = j
    <3>1. requests[i + 1].from = requests[j + 1].from /\ i + 1 \in 1..n /\ j + 1 \in 1..n
      BY <1>2, <2>3
    <3>2. i + 1 = j + 1
      BY <3>1 DEF Asked, n
    <3> QED BY <1>2, <3>2
  <2>4. jpc' \in Serves(r.kind)
    BY <1>4 DEF Serves, Kinds
  <2> QED BY <1>1, <1>2, <1>4, <2>1, <2>2, <2>3, <2>4 DEF Asked
<1>8. \A c \in Clients : /\ Entered(c)' <=> Entered(c)
                         /\ Dispatched(c)' <=> Dispatched(c)
                         /\ StatesOf(region[c])' = StatesOf(region[c])
  BY <1>1, <1>4 DEF Entered, Dispatched, StatesOf, Kinds
<1>9. Entries' /\ Dispatchers'
  BY <1>1, <1>4, <1>8 DEF Entries, OffsetsUnique, Dispatchers, Kinds
<1>10. Bounded'
  <2>1. Waiters' \subseteq Waiters
    BY <1>1, <1>8 DEF Waiters
  <2> QED BY <1>1, <2>1, BoundedKept
<1> QED BY <1>5, <1>6, <1>7, <1>9, <1>10

\* The client that the janitor serves: it has its region to itself, and no
\* request besides.
LEMMA ServedClient ==
  ASSUME Core, jpc \in {"bonjour", "dispatched", "aurevoir", "cancelled"},
         NEW c \in Clients, c = request.from
  PROVE  /\ request \in Requests /\ request.area = region[c] /\ region[c] \in Regions
         /\ region[c] # "service" /\ region[c] \notin lost
         /\ \A d \in Clients : region[d] = region[c] => d = c
         /\ \A i \in 1..Len(requests) : requests[i].from \in Clients \ {c}
         /\ jpc \in {"bonjour", "dispatched"} => cpc[c] = "bonjour" /\ StatesOf(region[c]) = {}
         /\ jpc = "bonjour" =>
              \A t \in DOMAIN threads : threads[t].area = region[c] => threads[t].cancelled
         /\ jpc \in {"aurevoir", "cancelled"} => cpc[c] = "aurevoir"
<1> USE DEF Core
<1>1. /\ request \in Requests /\ request.area = region[c] /\ region[c] \in Regions
      /\ region[c] # "service"
      /\ jpc \in {"bonjour", "dispatched"} => cpc[c] = "bonjour"
      /\ jpc \in {"aurevoir", "cancelled"} => cpc[c] = "aurevoir"
  BY RequestFacts DEF Asked
<1>2. /\ region[c] \notin lost /\ \A d \in Clients : region[d] = region[c] => d = c
  BY <1>1 DEF Leases
<1>3. \A i \in 1..Len(requests) : requests[i].from \in Clients \ {c}
  BY RequestFacts DEF Asked
<1>4. jpc \in {"bonjour", "dispatched"} => ~Entered(c)
  BY <1>1 DEF Entered
<1>5. jpc \in {"bonjour", "dispatched"} => StatesOf(region[c]) = {}
  BY <1>2, <1>4 DEF Entries, StatesOf
<1>6. jpc = "bonjour" => \A t \in DOMAIN threads : threads[t].area = region[c] => threads[t].cancelled
  BY <1>1, <1>2, <1>4 DEF Dispatchers, Dispatched
<1> QED BY <1>1, <1>2, <1>3, <1>5, <1>6

LEMMA DispatchLoopCore ==
  ASSUME Core, DispatchLoop
  PROVE  Core'
<1> USE DEF Core
<1> DEFINE n == Len(threads)
           new == [area |-> request.area, mapped |-> TRUE, cancelled |-> FALSE, dead |-> FALSE]
<1>1. /\ jpc = "bonjour" /\ jpc' = "dispatched" /\ threads' = Append(threads, new)
      /\ UNCHANGED <<header, making, cpc, region, lost, requests, request, states, glCall,
                     posted>>
  BY DEF DispatchLoop, tracker
<1>2. PICK c \in Clients : c = request.from
  BY <1>1, RequestFacts
<1>3. /\ request \in Requests /\ request.area = region[c] /\ region[c] \in Regions
      /\ region[c] \notin lost
      /\ \A d \in Clients : region[d] = region[c] => d = c
      /\ cpc[c] = "bonjour"
      /\ \A t \in DOMAIN threads : threads[t].area = region[c] => threads[t].cancelled
  BY <1>1, <1>2, ServedClient
<1>4. new \in Threads /\ new.area = region[c] /\ ~new.cancelled
  BY <1>3 DEF Threads
<1> HIDE DEF new
<1>5. /\ n \in Nat /\ DOMAIN threads = 1..n /\ threads' \in Seq(Threads)
      /\ Len(threads') = n + 1 /\ DOMAIN threads' = 1..(n + 1)
      /\ \A t \in 1..n : threads'[t] = threads[t]
      /\ threads'[n + 1] = new
  BY <1>1, <1>4, AppendFacts DEF Types
<1> HIDE DEF n
<1>6. Types'
  BY <1>1, <1>5 DEF Types, JanitorPcs
<1>7. Leases' /\ Asked'
  BY <1>1 DEF Leases, Asked, Serves
<1>8. \A d \in Clients : /\ Entered(d)' <=> Entered(d)
                         /\ StatesOf(region[d])' = StatesOf(region[d])
                         /\ ~Dispatched(d) /\ (Dispatched(d)' <=> d = c)
  BY <1>1, <1>2, <1>3 DEF Entered, Dispatched, StatesOf
<1>9. Entries'
  BY <1>1, <1>5, <1>8 DEF Entries, OffsetsUnique
<1>10. Dispatchers'
  <2>1. ASSUME NEW t \in DOMAIN threads', ~threads'[t].cancelled
        PROVE  \/ threads'[t].area \in lost
               \/ \E d \in Clients : region[d] = threads'[t].area /\ (Entered(d)' \/ Dispatched(d)')
    <3>1. CASE t = n + 1
      BY <1>4, <1>5, <1>8, <3>1
    <3>2. CASE t # n + 1
      <4>1. t \in DOMAIN threads /\ threads'[t] = threads[t]
        BY <1>5, <3>2
      <4> QED BY <1>8, <2>1, <4>1 DEF Dispatchers
    <3> QED BY <3>1, <3>2
  <2>2. ASSUME NEW t \in DOMAIN threads', NEW u \in DOMAIN threads',
               threads'[t].area = threads'[u].area, ~threads'[t].cancelled, ~threads'[u].cancelled
        PROVE  t = u
    <3>1. \A s \in 1..n : threads'[s].area = region[c] => threads'[s].cancelled
      BY <1>3, <1>5
    <3>2. CASE t \in 1..n /\ u \in 1..n
      BY <1>5, <2>2, <3>2 DEF Dispatchers
    <3>3. CASE t \in 1..n /\ u = n + 1
      BY <1>4, <1>5, <2>2, <3>1, <3>3
    <3>4. CASE t = n + 1 /\ u \in 1..n
      BY <1>4, <1>5, <2>2, <3>1, <3>4
    <3> QED BY <1>5, <3>2, <3>3, <3>4
  <2>3. /\ Len(threads') # 0 /\ threads'[Len(threads')].area = request'.area
        /\ ~threads'[Len(threads')].cancelled
    BY <1>1, <1>3, <1>4, <1>5
  <2> QED BY <1>1, <2>1, <2>2, <2>3 DEF Dispatchers
<1>11. Bounded'
  <2>1. Waiters' = Waiters \ {c} /\ c \in Waiters
    BY <1>1, <1>2, <1>3, <1>8 DEF Waiters
  <2>2. Cardinality(Waiters') = Cardinality(Waiters) - 1
    BY <2>1, WaitersFinite, FS_RemoveElement
  <2> QED BY <1>5, <2>2, WaitersFinite, JanitorAssumption DEF Bounded, n
<1> QED BY <1>6, <1>7, <1>9, <1>10, <1>11

\* gvBonjour fails, at whatever point: a thread that it has started goes on in
\* the lost region.
LEMMA BonjourFailsCore ==
  ASSUME Core, BonjourFails
  PROVE  Core'
<1> USE DEF Core
<1>1. /\ jpc \in {"bonjour", "dispatched"} /\ jpc' = "serving" /\ GiveUp(request.from)
      /\ making' = [making EXCEPT !["janitor"] = NotMaking]
      /\ UNCHANGED <<header, requests, request, states, threads, glCall, posted>>
  BY DEF BonjourFails
<1>2. PICK c \in Clients : c = request.from
  BY <1>1, RequestFacts
<1>3. /\ request.area = region[c] /\ cpc[c] = "bonjour"
      /\ \A i \in 1..Len(requests) : requests[i].from \in Clients \ {c}
  BY <1>1, <1>2, ServedClient
<1>4. /\ cpc'[c] = "ready" /\ \A d \in Clients \ {c} : cpc'[d] = cpc[d]
      /\ region'[c] = "service" /\ \A d \in Clients \ {c} : region'[d] = region[d]
      /\ region[c] \in Regions /\ lost' = lost \cup {region[c]}
      /\ cpc' \in [Clients -> ClientPcs] /\ region' \in [Clients -> Areas]
      /\ lost' \subseteq Regions
      /\ Leases'
  BY <1>1, <1>2, <1>3, GiveUpFacts
<1>5. Types'
  BY <1>1, <1>4 DEF Types, NotMaking, Areas, Steps, JanitorPcs
<1>6. Asked'
  BY <1>1, <1>3, <1>4 DEF Asked
<1>7. /\ \A d \in Clients \ {c} : /\ Entered(d)' <=> Entered(d)
                                  /\ ~Dispatched(d) /\ ~Dispatched(d)'
                                  /\ StatesOf(region[d])' = StatesOf(region[d])
      /\ ~Entered(c) /\ ~Entered(c)' /\ ~Dispatched(c)'
  BY <1>1, <1>2, <1>3, <1>4 DEF Entered, Dispatched, StatesOf
<1>8. Entries'
  BY <1>1, <1>4, <1>7 DEF Entries, OffsetsUnique
<1>9. Dispatchers'
  <2>1. ASSUME NEW t \in DOMAIN threads, ~threads[t].cancelled
        PROVE  \/ threads[t].area \in lost'
               \/ \E d \in Clients : region'[d] = threads[t].area /\ (Entered(d)' \/ Dispatched(d)')
    <3>1. CASE threads[t].area \in lost
      BY <1>4, <3>1
    <3>2. CASE \E d \in Clients : region[d] = threads[t].area /\ (Entered(d) \/ Dispatched(d))
      <4>1. PICK d \in Clients : region[d] = threads[t].area /\ (Entered(d) \/ Dispatched(d))
        BY <3>2
      <4>2. CASE d = c
        BY <1>4, <4>1, <4>2
      <4>3. CASE d # c
        BY <1>4, <1>7, <4>1, <4>3
      <4> QED BY <4>2, <4>3
    <3> QED BY <2>1, <3>1, <3>2 DEF Dispatchers
  <2> QED BY <1>1, <2>1 DEF Dispatchers
<1>10. Bounded'
  <2>1. Waiters' \subseteq Waiters
    BY <1>4, <1>7 DEF Waiters
  <2> QED BY <1>1, <2>1, BoundedKept
<1> QED BY <1>4, <1>5, <1>6, <1>8, <1>9, <1>10

LEMMA PutOffsetStateCore ==
  ASSUME Core, PutOffsetState
  PROVE  Core'
<1> USE DEF Core
<1> DEFINE n == Len(threads)
           s == [offset |-> request.area, thread |-> n]
<1>1. /\ jpc = "dispatched" /\ jpc' = "serving" /\ states' = states \cup {s}
      /\ cpc' = [cpc EXCEPT ![request.from] = IF @ = "bonjour" THEN "welcome" ELSE @]
      /\ UNCHANGED <<header, making, region, lost, requests, request, threads, glCall, posted>>
  BY DEF PutOffsetState, Answer
<1>2. PICK c \in Clients : c = request.from
  BY <1>1, RequestFacts
<1>3. /\ request.area = region[c] /\ cpc[c] = "bonjour" /\ StatesOf(region[c]) = {}
      /\ region[c] \in Regions
      /\ \A i \in 1..Len(requests) : requests[i].from \in Clients \ {c}
      /\ \A d \in Clients : region[d] = region[c] => d = c
  BY <1>1, <1>2, ServedClient
<1>4. /\ n \in Nat /\ n \in DOMAIN threads /\ threads[n].area = region[c] /\ ~threads[n].cancelled
  BY <1>1, <1>3 DEF Dispatchers, Types
<1>5. cpc'[c] = "welcome" /\ \A d \in Clients \ {c} : cpc'[d] = cpc[d]
  BY <1>1, <1>2, <1>3 DEF Types
<1>6. Types'
  <2>1. states' \subseteq [offset : Regions, thread : Nat]
    BY <1>1, <1>3, <1>4 DEF Types
  <2>2. cpc' \in [Clients -> ClientPcs]
    BY <1>1, <1>2, <1>3 DEF Types, ClientPcs
  <2> QED BY <1>1, <2>1, <2>2 DEF Types, JanitorPcs
<1>7. Leases'
  BY <1>1, <1>3, <1>5 DEF Leases
<1>8. Asked'
  BY <1>1, <1>3, <1>5 DEF Asked
<1>9. /\ \A d \in Clients \ {c} : /\ Entered(d)' <=> Entered(d)
                                  /\ ~Dispatched(d) /\ ~Dispatched(d)'
      /\ ~Entered(c) /\ Entered(c)' /\ ~Dispatched(c)'
  BY <1>1, <1>2, <1>3, <1>5 DEF Entered, Dispatched
<1>10. s.offset = region[c] /\ s.thread = n
  BY <1>3
<1> HIDE DEF s, n
<1>11. Entries'
  <2>1. ASSUME NEW r \in states'
        PROVE  /\ r.thread \in DOMAIN threads' /\ ~threads'[r.thread].cancelled
               /\ threads'[r.thread].area = r.offset
               /\ r.offset \in lost' \/ \E d \in Clients : region'[d] = r.offset /\ Entered(d)'
    <3>1. CASE r = s
      BY <1>1, <1>4, <1>9, <1>10, <3>1
    <3>2. CASE r \in states
      BY <1>1, <1>9, <3>2 DEF Entries
    <3> QED BY <1>1, <3>1, <3>2
  <2>2. \A r \in states : r.offset # region[c]
    BY <1>3 DEF StatesOf
  <2>3. OffsetsUnique'
    BY <1>1, <1>10, <2>2 DEF Entries, OffsetsUnique
  <2>4. \A d \in Clients : Entered(d)' => StatesOf(region[d])' # {}
    <3> SUFFICES ASSUME NEW d \in Clients, Entered(d)' PROVE \E r \in states' : r.offset = region[d]
      BY <1>1 DEF StatesOf
    <3>1. CASE d = c
      BY <1>1, <1>10, <3>1
    <3>2. CASE d # c
      BY <1>1, <1>9, <3>2 DEF Entries, StatesOf
    <3> QED BY <3>1, <3>2
  <2> QED BY <2>1, <2>3, <2>4 DEF Entries
<1>12. Dispatchers'
  BY <1>1, <1>9 DEF Dispatchers
<1>13. Bounded'
  <2>1. Waiters' \subseteq Waiters
    BY <1>5, <1>9 DEF Waiters
  <2> QED BY <1>1, <2>1, BoundedKept
<1> QED BY <1>6, <1>7, <1>8, <1>11, <1>12, <1>13

LEMMA DelOffsetStateCore ==
  ASSUME Core, DelOffsetState
  PROVE  Core'
<1> USE DEF Core
<1>1. /\ jpc = "aurevoir" /\ jpc' = "cancelled"
      /\ UNCHANGED <<header, making, cpc, region, lost, requests, glCall, posted>>
  BY DEF DelOffsetState
<1>2. PICK s \in StatesOf(request.area) :
        /\ states' = states \ {s}
        /\ request' = [request EXCEPT !.thread = s.thread]
        /\ threads' = [threads EXCEPT ![s.thread].cancelled = TRUE]
  BY DEF DelOffsetState
<1>3. PICK c \in Clients : c = request.from
  BY <1>1, RequestFacts
<1>4. /\ request \in Requests /\ request.area = region[c] /\ cpc[c] = "aurevoir"
      /\ region[c] \notin lost
      /\ \A d \in Clients : region[d] = region[c] => d = c
      /\ \A i \in 1..Len(requests) : requests[i].from \in Clients \ {c}
  BY <1>1, <1>3, ServedClient
<1>5. /\ s \in states /\ s.offset = region[c] /\ s.thread \in DOMAIN threads
      /\ threads[s.thread].area = region[c] /\ ~threads[s.thread].cancelled
  BY <1>2, <1>4 DEF StatesOf, Entries
<1>6. /\ request'.from = c /\ request'.area = request.area /\ request'.kind = request.kind
      /\ request'.thread = s.thread /\ request' \in Requests
  BY <1>2, <1>3, <1>4, <1>5 DEF Requests, Types
<1> DEFINE v == [threads[s.thread] EXCEPT !.cancelled = TRUE]
<1>7. v \in Threads /\ v.cancelled /\ v.area = region[c]
  BY <1>5, ThreadTypes DEF Threads
<1>8. threads' = [threads EXCEPT ![s.thread] = v]
  BY <1>2
<1> HIDE DEF v
<1>9. /\ threads' \in Seq(Threads) /\ Len(threads') = Len(threads)
      /\ DOMAIN threads' = DOMAIN threads /\ threads'[s.thread] = v
      /\ \A t \in DOMAIN threads \ {s.thread} : threads'[t] = threads[t]
  BY <1>5, <1>7, <1>8, ExceptFacts DEF Types
<1>10. Types'
  BY <1>1, <1>2, <1>9 DEF Types, JanitorPcs
<1>11. Leases'
  BY <1>1 DEF Leases
<1>12. Asked'
  BY <1>1, <1>3, <1>4, <1>6 DEF Asked, Serves
<1>13. /\ \A d \in Clients \ {c} : Entered(d)' <=> Entered(d)
       /\ ~Entered(c)' /\ \A d \in Clients : ~Dispatched(d) /\ ~Dispatched(d)'
  BY <1>1, <1>3, <1>4, <1>6 DEF Entered, Dispatched
<1>14. \A r \in states' : r \in states /\ r.offset # region[c]
  BY <1>2, <1>5 DEF Entries, OffsetsUnique
<1>15. Entries'
  <2>1. ASSUME NEW r \in states'
        PROVE  /\ r.thread \in DOMAIN threads' /\ ~threads'[r.thread].cancelled
               /\ threads'[r.thread].area = r.offset
               /\ r.offset \in lost' \/ \E d \in Clients : region'[d] = r.offset /\ Entered(d)'
    <3>1. r.thread # s.thread
      BY <1>5, <1>14 DEF Entries
    <3> QED BY <1>1, <1>9, <1>13, <1>14, <3>1 DEF Entries
  <2>2. OffsetsUnique'
    BY <1>14 DEF Entries, OffsetsUnique
  <2>3. \A d \in Clients : Entered(d)' => StatesOf(region[d])' # {}
    <3> SUFFICES ASSUME NEW d \in Clients, Entered(d)' PROVE \E r \in states' : r.offset = region[d]
      BY <1>1 DEF StatesOf
    <3>1. d # c /\ Entered(d)
      BY <1>13
    <3>2. PICK r \in states : r.offset = region[d]
      BY <3>1 DEF Entries, StatesOf
    <3> QED BY <1>2, <1>4, <1>5, <3>1, <3>2
  <2> QED BY <2>1, <2>2, <2>3 DEF Entries
<1>16. Dispatchers'
  <2>1. \A t \in DOMAIN threads' : ~threads'[t].cancelled =>
           t # s.thread /\ threads'[t] = threads[t] /\ threads[t].area # region[c]
    BY <1>5, <1>7, <1>9 DEF Dispatchers
  <2> QED BY <1>1, <1>5, <1>6, <1>9, <1>13, <2>1 DEF Dispatchers
<1>17. Bounded'
  <2>1. Waiters' \subseteq Waiters
    BY <1>1, <1>13 DEF Waiters
  <2> QED BY <1>9, <2>1, BoundedKept
<1> QED BY <1>10, <1>11, <1>12, <1>15, <1>16, <1>17

LEMMA DestroyTransportCore ==
  ASSUME Core, DestroyTransport
  PROVE  Core'
<1> USE DEF Core
<1>1. /\ jpc = "cancelled" /\ jpc' = "serving"
      /\ threads' = [threads EXCEPT ![request.thread].mapped = FALSE]
      /\ cpc' = [cpc EXCEPT ![request.from] = IF @ = "aurevoir" THEN "gone" ELSE @]
      /\ UNCHANGED <<header, making, region, lost, requests, request, states, glCall, posted>>
  BY DEF DestroyTransport, Answer, tracker
<1>2. PICK c \in Clients : c = request.from
  BY <1>1, RequestFacts
<1>3. /\ cpc[c] = "aurevoir"
      /\ \A i \in 1..Len(requests) : requests[i].from \in Clients \ {c}
  BY <1>1, <1>2, ServedClient
<1>4. cpc'[c] = "gone" /\ \A d \in Clients \ {c} : cpc'[d] = cpc[d]
  BY <1>1, <1>2, <1>3 DEF Types
<1>5. request.thread \in DOMAIN threads
  BY <1>1 DEF Dispatchers
<1> DEFINE v == [threads[request.thread] EXCEPT !.mapped = FALSE]
<1>6. /\ v \in Threads /\ v.cancelled = threads[request.thread].cancelled
      /\ v.area = threads[request.thread].area
  BY <1>5, ThreadTypes DEF Threads
<1>7. threads' = [threads EXCEPT ![request.thread] = v]
  BY <1>1
<1> HIDE DEF v
<1>8. /\ threads' \in Seq(Threads) /\ Len(threads') = Len(threads)
      /\ DOMAIN threads' = DOMAIN threads
      /\ \A t \in DOMAIN threads : /\ threads'[t].area = threads[t].area
                                   /\ threads'[t].cancelled = threads[t].cancelled
  BY <1>5, <1>6, <1>7, ExceptFacts DEF Types
<1>9. Types'
  <2>1. cpc' \in [Clients -> ClientPcs]
    BY <1>1, <1>2, <1>3 DEF Types, ClientPcs
  <2> QED BY <1>1, <1>8, <2>1 DEF Types, JanitorPcs
<1>10. Leases'
  BY <1>1, <1>3, <1>4 DEF Leases
<1>11. Asked'
  BY <1>1, <1>3, <1>4 DEF Asked
<1>12. \A d \in Clients : /\ Entered(d)' <=> Entered(d)
                          /\ ~Dispatched(d) /\ ~Dispatched(d)'
                          /\ StatesOf(region[d])' = StatesOf(region[d])
  BY <1>1, <1>2, <1>3, <1>4 DEF Entered, Dispatched, StatesOf
<1>13. Entries'
  BY <1>1, <1>8, <1>12 DEF Entries, OffsetsUnique
<1>14. Dispatchers'
  BY <1>1, <1>8, <1>12 DEF Dispatchers
<1>15. Bounded'
  <2>1. Waiters' \subseteq Waiters
    BY <1>4, <1>12 DEF Waiters
  <2> QED BY <1>8, <2>1, BoundedKept
<1> QED BY <1>9, <1>10, <1>11, <1>13, <1>14, <1>15

LEMMA AuRevoirFailsCore ==
  ASSUME Core, AuRevoirFails
  PROVE  Core'
<1> USE DEF Core
<1>1. /\ jpc = "aurevoir" /\ jpc' = "serving"
      /\ cpc' = [cpc EXCEPT ![request.from] = IF @ = "aurevoir" THEN "current" ELSE @]
      /\ UNCHANGED <<header, making, region, lost, requests, request, states, threads, glCall,
                     posted>>
  BY DEF AuRevoirFails, Answer, tracker
<1>2. PICK c \in Clients : c = request.from
  BY <1>1, RequestFacts
<1>3. /\ cpc[c] = "aurevoir"
      /\ \A i \in 1..Len(requests) : requests[i].from \in Clients \ {c}
  BY <1>1, <1>2, ServedClient
<1>4. cpc'[c] = "current" /\ \A d \in Clients \ {c} : cpc'[d] = cpc[d]
  BY <1>1, <1>2, <1>3 DEF Types
<1>5. Types'
  <2>1. cpc' \in [Clients -> ClientPcs]
    BY <1>1, <1>2, <1>3 DEF Types, ClientPcs
  <2> QED BY <1>1, <2>1 DEF Types, JanitorPcs
<1>6. Leases'
  BY <1>1, <1>3, <1>4 DEF Leases
<1>7. Asked'
  BY <1>1, <1>3, <1>4 DEF Asked
<1>8. \A d \in Clients : /\ Entered(d)' <=> Entered(d)
                         /\ ~Dispatched(d) /\ ~Dispatched(d)'
                         /\ StatesOf(region[d])' = StatesOf(region[d])
  BY <1>1, <1>2, <1>3, <1>4 DEF Entered, Dispatched, StatesOf
<1>9. Entries' /\ Dispatchers'
  BY <1>1, <1>8 DEF Entries, OffsetsUnique, Dispatchers
<1>10. Bounded'
  <2>1. Waiters' \subseteq Waiters
    BY <1>4, <1>8 DEF Waiters
  <2> QED BY <1>1, <2>1, BoundedKept
<1> QED BY <1>5, <1>6, <1>7, <1>9, <1>10

-----------------------------------------------------------------------------
(* The transports and the dispatch threads.                                *)

LEMMA CreateTransportCore ==
  ASSUME Core, NEW p \in Procs, CreateTransport(p)
  PROVE  Core'
<1> USE DEF Core
<1>1. making[p].area \in Areas /\ making \in [Procs -> [area : Areas, step : Steps]]
  BY Zenon DEF Types
<1>2. UNCHANGED <<cpc, region, lost, jpc, request, states, threads>>
  BY Zenon DEF CreateTransport, CheckState, SetState, InitChanels, InitSyncPrimitives, janitorVars,
         tracker
<1>3. requests' = requests \/ requests' = <<>>
  BY DEF CreateTransport, CheckState, SetState, InitChanels, InitSyncPrimitives
<1>4. making' \in [Procs -> [area : Areas, step : Steps]]
  BY <1>1 DEF CreateTransport, CheckState, SetState, InitChanels, InitSyncPrimitives, Steps
<1>5. header' \in [Areas -> Headers]
  <2>1. CASE CheckState(p)
    BY <2>1 DEF CheckState, Types
  <2> DEFINE a == making[p].area
  <2>2. a \in Areas /\ header \in [Areas -> Headers]
    BY <1>1 DEF Types
  <2>3. CASE SetState(p)
    <3>1. header' = [header EXCEPT ![a] = [@ EXCEPT !.initialized = TRUE]]
      BY Zenon, <2>3 DEF SetState
    <3>2. [header[a] EXCEPT !.initialized = TRUE] \in Headers
      BY <2>2 DEF Headers
    <3> QED BY Zenon, <2>2, <3>1, <3>2
  <2>4. CASE InitChanels(p)
    <3>1. header' = [header EXCEPT ![a] = [@ EXCEPT !.rings = TRUE]]
      BY Zenon, <2>4 DEF InitChanels
    <3>2. [header[a] EXCEPT !.rings = TRUE] \in Headers
      BY <2>2 DEF Headers
    <3> QED BY Zenon, <2>2, <3>1, <3>2
  <2>5. CASE InitSyncPrimitives(p)
    <3> DEFINE h == [header EXCEPT ![a] = [@ EXCEPT !.sync = TRUE]]
    <3>1. header' = [h EXCEPT ![a] = [@ EXCEPT !.held = FALSE]]
      BY Zenon, <2>5 DEF InitSyncPrimitives
    <3>2. [header[a] EXCEPT !.sync = TRUE] \in Headers
      BY <2>2 DEF Headers
    <3>3. h \in [Areas -> Headers]
      BY Zenon, <2>2, <3>2
    <3> HIDE DEF h
    <3>4. [h[a] EXCEPT !.held = FALSE] \in Headers
      BY <2>2, <3>3 DEF Headers
    <3> QED BY Zenon, <2>2, <3>1, <3>3, <3>4
  <2> QED BY <2>1, <2>3, <2>4, <2>5 DEF CreateTransport
<1>6. /\ glCall' \in [Regions -> {"none", "made", "answered"}]
      /\ posted' \in [Regions -> Clients \cup {"nobody"}]
  BY DEF CreateTransport, CheckState, SetState, InitChanels, InitSyncPrimitives, Types
<1>7. requests' \in Seq(Requests)
  <2>1. requests \in Seq(Requests) /\ <<>> \in Seq(Requests)
    BY DEF Types
  <2> QED BY <1>3, <2>1
<1>8. Types'
  BY <1>2, <1>4, <1>5, <1>6, <1>7 DEF Types
<1> QED BY <1>2, <1>3, <1>8, CoreSame

LEMMA ThreadCore ==
  ASSUME Core, NEW t \in DOMAIN threads, ThreadStep(t)
  PROVE  Core'
<1> USE DEF Core
<1>1. threads[t] \in Threads /\ threads[t].area \in Areas
  BY ThreadTypes DEF Threads, Areas
<1>2. CASE MakePost(t) \/ MakeCall(t)
  <2>1. UNCHANGED <<header, making, cpc, region, lost, requests, jpc, request, states, threads>>
    BY <1>2 DEF MakePost, MakeCall, janitorVars, tracker
  <2>2. /\ glCall' \in [Regions -> {"none", "made", "answered"}]
        /\ posted' \in [Regions -> Clients \cup {"nobody"}]
    BY <1>2 DEF MakePost, MakeCall, Types
  <2>3. Types'
    BY <2>1, <2>2 DEF Types
  <2> QED BY <2>1, <2>3, CoreSame
<1>3. CASE Cancelled(t)
  <2>1. UNCHANGED <<making, cpc, region, lost, requests, jpc, request, states, glCall, posted>>
    BY <1>3 DEF Cancelled, janitorVars, tracker
  <2>2. CASE threads' = threads /\ header' = header
    <3>1. Types'
      BY <2>1, <2>2 DEF Types
    <3> QED BY <2>1, <2>2, <3>1, CoreSame
  <2>3. CASE /\ threads' = [threads EXCEPT ![t].dead = TRUE]
             /\ header' = [header EXCEPT ![threads[t].area].held = TRUE]
    <3> DEFINE v == [threads[t] EXCEPT !.dead = TRUE]
    <3>1. v \in Threads /\ v.area = threads[t].area /\ v.cancelled = threads[t].cancelled
      BY <1>1 DEF Threads
    <3>2. threads' = [threads EXCEPT ![t] = v]
      BY <2>3
    <3> HIDE DEF v
    <3>3. /\ threads' \in Seq(Threads) /\ Len(threads') = Len(threads)
          /\ DOMAIN threads' = DOMAIN threads
          /\ \A u \in DOMAIN threads : /\ threads'[u].area = threads[u].area
                                       /\ threads'[u].cancelled = threads[u].cancelled
      BY <3>1, <3>2, ExceptFacts DEF Types
    <3>4. header' \in [Areas -> Headers]
      <4> DEFINE a == threads[t].area
      <4>1. header' = [header EXCEPT ![a] = [@ EXCEPT !.held = TRUE]]
        BY Zenon, <2>3
      <4>2. header \in [Areas -> Headers]
        BY Zenon DEF Types
      <4>3. [header[a] EXCEPT !.held = TRUE] \in Headers
        BY <1>1, <4>2 DEF Headers
      <4> QED BY Zenon, <1>1, <4>1, <4>2, <4>3
    <3>5. Types'
      BY <2>1, <3>3, <3>4 DEF Types
    <3> QED BY <2>1, <3>3, <3>5, CoreSame
  <2> QED BY <1>3, <2>2, <2>3 DEF Cancelled
<1> QED BY <1>2, <1>3 DEF ThreadStep

LEMMA MovesCore ==
  ASSUME Core, NEW c \in Clients,
         \/ Start(c) \/ Started(c) \/ Attach(c) \/ ContextCreated(c)
         \/ PostGl(c) \/ GlPosted(c) \/ CallGl(c) \/ CallReturned(c)
  PROVE  Core'
<1> USE DEF Core
<1>1. PICK p \in ClientPcs :
        /\ cpc' = [cpc EXCEPT ![c] = p]
        /\ \/ {cpc[c], p} \subseteq {"off", "starting", "ready"}
           \/ {cpc[c], p} \subseteq {"welcome", "attaching", "current", "posting", "calling"}
  BY DEF Start, Started, Attach, ContextCreated, PostGl, GlPosted, CallGl, CallReturned, ClientPcs
<1>2. UNCHANGED <<header, region, lost, requests, jpc, request, states, threads>>
  BY DEF Start, Started, Attach, ContextCreated, PostGl, GlPosted, CallGl, CallReturned,
         janitorVars, tracker
<1>3. making' \in [Procs -> [area : Areas, step : Steps]]
  <2>1. making' = making \/ \E a \in {"service", region[c]} : making' = [making EXCEPT ![c] = Making(a)]
    BY DEF Start, Started, Attach, ContextCreated, PostGl, GlPosted, CallGl, CallReturned
  <2>2. \A a \in {"service", region[c]} : Making(a) \in [area : Areas, step : Steps]
    BY DEF Types, Making, Steps, Areas
  <2>3. making \in [Procs -> [area : Areas, step : Steps]]
    BY DEF Types
  <2> QED BY Zenon, <2>1, <2>2, <2>3
<1>4. /\ glCall' \in [Regions -> {"none", "made", "answered"}]
      /\ posted' \in [Regions -> Clients \cup {"nobody"}]
  BY DEF Start, Started, Attach, ContextCreated, PostGl, GlPosted, CallGl, CallReturned, Types
<1>5. Types'
  BY <1>1, <1>2, <1>3, <1>4 DEF Types
<1> QED BY <1>1, <1>2, <1>5, CoreMoves

LEMMA StepCore == ASSUME Core, [Next]_vars PROVE Core'
<1>1. CASE UNCHANGED vars \/ Stop
  <2>1. UNCHANGED <<header, making, cpc, region, lost, requests, jpc, request, states, threads,
                    glCall, posted>>
    BY <1>1 DEF vars, Stop, janitorVars, tracker
  <2>2. Types'
    BY <2>1 DEF Core, Types
  <2> QED BY <2>1, <2>2, CoreSame
<1>2. ASSUME NEW c \in Clients, Start(c) \/ PostGl(c) \/ CallGl(c) PROVE Core'
  BY <1>2, MovesCore
<1>3. ASSUME NEW c \in Clients, AuRevoir(c) PROVE Core'
  BY <1>3, AuRevoirCore
<1>4. ASSUME NEW c \in Clients, ClientStep(c) PROVE Core'
  BY <1>4, CreateTransportCore, MovesCore, CreateContextCore, AttachFailsCore, FreeCore
  DEF ClientStep, Procs
<1>5. CASE JanitorStep
  BY <1>5, CreateTransportCore, ServingCore, ReceiveRequestCore, DispatchLoopCore,
     PutOffsetStateCore, BonjourFailsCore, DelOffsetStateCore, DestroyTransportCore,
     AuRevoirFailsCore
  DEF JanitorStep, Procs
<1>6. ASSUME NEW t \in DOMAIN threads, ThreadStep(t) PROVE Core'
  BY <1>6, ThreadCore
<1> QED BY <1>1, <1>2, <1>3, <1>4, <1>5, <1>6 DEF Next

-----------------------------------------------------------------------------
(* Transports are whole before they are used.                              *)

LEMMA InitPrepared == Init => Prepared /\ Calls /\ Failed
<1> SUFFICES ASSUME Init PROVE Prepared /\ Calls /\ Failed
  OBVIOUS
<1>1. /\ \A c \in Clients : cpc[c] = "off" /\ making[c] = NotMaking
      /\ making["janitor"] = Making("service") /\ jpc = "starting" /\ trackerLocked = FALSE
      /\ \A a \in Areas : header[a] = Untouched
      /\ DOMAIN threads = {} /\ \A a \in Regions : glCall[a] = "none"
  BY JanitorAssumption DEF Init, Procs
<1>2. Prepared
  BY <1>1 DEF Prepared, Late, NotMaking, Making, Untouched, Procs, Areas
<1> QED BY <1>1, <1>2 DEF Calls, Failed

\* Nothing is set up, and no process is further than it was.
LEMMA PreparedSame ==
  ASSUME Core, Prepared,
         \A a \in Areas : /\ header'[a].initialized = header[a].initialized
                          /\ header'[a].rings = header[a].rings /\ header'[a].sync = header[a].sync,
         making'["janitor"] = making["janitor"],
         \A c \in Clients : \/ making'[c] = making[c] \/ making'[c].step = "done"
                            \/ making'[c].step = "check" /\ making'[c].area \in Areas
                                 /\ header[making'[c].area].sync,
         jpc' = jpc, request' = request,
         \A c \in Clients :
            cpc'[c] \in Late
              => /\ region'[c] = region[c]
                 /\ cpc[c] \in Late,
         jpc # "starting" \/ cpc' = cpc,
         DOMAIN threads' = DOMAIN threads,
         \A t \in DOMAIN threads : threads'[t].area = threads[t].area
  PROVE  Prepared'
<1>1. /\ \A p \in Procs : making[p].area \in Areas
      /\ \A c \in Clients : region[c] \in Areas
      /\ \A t \in DOMAIN threads : threads[t].area \in Areas
      /\ "service" \in Areas /\ "janitor" \in Procs /\ "janitor" \notin Clients
      /\ Clients \subseteq Procs
  BY ThreadTypes, JanitorAssumption DEF Core, Types, Threads, Areas, Procs
<1>2. \A p \in Procs : making'[p].step \in {"state", "rings", "sync"} => p = "janitor"
  BY <1>1 DEF Prepared, Procs
<1> QED BY <1>1, <1>2 DEF Prepared

\* gvCreateShmStreamTransport, of the janitor: nobody else comes that far.
LEMMA CreateTransportPrepared ==
  ASSUME Core, Prepared, NEW p \in Procs, CreateTransport(p)
  PROVE  Prepared'
<1> DEFINE a == making[p].area
           j == making["janitor"]
<1>1. /\ a \in Areas /\ j.area \in Areas /\ \A q \in Procs : making[q].area \in Areas
      /\ \A c \in Clients : region[c] \in Areas
      /\ \A t \in DOMAIN threads : threads[t].area \in Areas
      /\ "service" \in Areas /\ "janitor" \in Procs /\ "janitor" \notin Clients
      /\ Clients \subseteq Procs /\ (p # "janitor" => p \in Clients)
      /\ header \in [Areas -> Headers] /\ making \in [Procs -> [area : Areas, step : Steps]]
  BY Zenon, ThreadTypes, JanitorAssumption DEF Core, Types, Threads, Areas, Procs
<1>2. UNCHANGED <<cpc, region, jpc, request, threads>>
  BY DEF CreateTransport, CheckState, SetState, InitChanels, InitSyncPrimitives, janitorVars, tracker
<1>3. CASE p # "janitor"
  <2>1. making[p].step \notin {"state", "rings", "sync"}
    BY Zenon, <1>3 DEF Prepared
  <2>2. CheckState(p) /\ header[a].initialized
    BY <1>1, <1>3, <2>1 DEF CreateTransport, CheckState, SetState, InitChanels,
                            InitSyncPrimitives, Prepared
  <2>3. /\ header' = header /\ making'[p].step = "done"
        /\ \A q \in Procs \ {p} : making'[q] = making[q]
    BY <1>1, <2>2 DEF CheckState
  <2>4. /\ making'["janitor"] = making["janitor"]
        /\ \A c \in Clients : making'[c] = making[c] \/ making'[c].step = "done"
    BY <1>1, <1>3, <2>3
  <2>5. \A b \in Areas : /\ header'[b].initialized = header[b].initialized
                          /\ header'[b].rings = header[b].rings /\ header'[b].sync = header[b].sync
    BY <2>3
  <2>6. DOMAIN threads' = DOMAIN threads /\ \A t \in DOMAIN threads : threads'[t].area = threads[t].area
    BY <1>2
  <2> HIDE DEF a, j
  <2> QED BY <1>2, <2>4, <2>5, <2>6, PreparedSame
<1>4. CASE p = "janitor"
  <2>1. \A q \in Procs \ {p} : making'[q] = making[q]
    BY <1>1 DEF CreateTransport, CheckState, SetState, InitChanels, InitSyncPrimitives
  <2>2. making'[p].area = a
    BY <1>1 DEF CreateTransport, CheckState, SetState, InitChanels, InitSyncPrimitives
  <2>3. \A c \in Clients : making'[c] = making[c]
    BY Zenon, <1>1, <1>4, <2>1
  <2>4. jpc \in {"starting", "bonjour"} /\ making[p].step # "done"
    BY <1>1, <1>4 DEF CreateTransport, CheckState, SetState, InitChanels, InitSyncPrimitives,
                      Prepared
  <2>5. CASE CheckState(p)
    <3>1. /\ header' = header
          /\ making'[p].step = IF header[a].initialized THEN "done" ELSE "state"
          /\ making[p].step = "check"
      BY <1>1, <2>5 DEF CheckState
    <3>2. header[a].initialized => header[a].sync
      BY <1>1, <1>4, <3>1 DEF Prepared
    <3>3. \A b \in Areas : header[b].initialized => header[b].sync
      BY <1>1, <1>4, <3>1 DEF Prepared
    <3> HIDE DEF a
    <3>4. \A q \in Procs : making'[q].step \in {"state", "rings", "sync"} => q = "janitor"
      BY <1>4, <2>1 DEF Prepared
    <3>5. /\ jpc = "starting" => a = "service"
          /\ jpc = "bonjour" => a = request.area
      BY <1>4 DEF Prepared, a
    <3>6. \A b \in Areas : header[b].sync => header[b].rings /\ header[b].initialized
      BY DEF Prepared
    <3>7. /\ making'[p].step = "done" => header[a].sync
          /\ making'[p].step = "state" => ~header[a].initialized
          /\ making'[p].step \in {"done", "state"}
      BY <3>1, <3>2
    <3>8. /\ \A c \in Clients :
               /\ making'[c].step = "check" => header[making'[c].area].sync
               /\ cpc[c] \in Late
                    => header[region[c]].sync
          /\ \A t \in DOMAIN threads : header[threads[t].area].sync
          /\ jpc # "starting" => header["service"].sync
          /\ jpc = "starting" => \A c \in Clients : cpc[c] = "off"
      BY <2>3 DEF Prepared
    <3> QED BY <1>2, <1>4, <2>2, <2>4, <3>1, <3>3, <3>4, <3>5, <3>6, <3>7, <3>8 DEF Prepared
  <2>6. ASSUME header' = [header EXCEPT ![a] = header'[a]],
               making'[p].step \in {"rings", "sync", "done"},
               header'[a].initialized, header[a].sync => header'[a].sync,
               header'[a].sync => header'[a].rings,
               making'[p].step = "rings" => ~header'[a].sync,
               making'[p].step = "sync" => header'[a].rings /\ ~header'[a].sync,
               making'[p].step = "done" => header'[a].sync
        PROVE  Prepared'
    <3>1. \A b \in Areas : b # a => header'[b] = header[b]
      BY <1>1, <2>6
    <3>2. \A b \in Areas : header[b].sync => header'[b].sync
      BY <2>6, <3>1
    <3> HIDE DEF a
    <3>3. \A q \in Procs : making'[q].step \in {"state", "rings", "sync"} => q = "janitor"
      BY <1>4, <2>1 DEF Prepared
    <3>4. /\ jpc = "starting" => a = "service"
          /\ jpc = "bonjour" => a = request.area
      BY <1>4 DEF Prepared, a
    <3>5. \A b \in Areas :
            /\ header'[b].initialized =>
                 \/ header'[b].sync
                 \/ making'[p].area = b /\ making'[p].step \in {"rings", "sync"}
            /\ header'[b].sync => header'[b].rings /\ header'[b].initialized
      <4> SUFFICES ASSUME NEW b \in Areas
                   PROVE  /\ header'[b].initialized =>
                               \/ header'[b].sync
                               \/ making'[p].area = b /\ making'[p].step \in {"rings", "sync"}
                          /\ header'[b].sync => header'[b].rings /\ header'[b].initialized
        OBVIOUS
      <4>1. CASE b = a
        BY <2>2, <2>6, <4>1
      <4>2. CASE b # a
        BY <1>4, <3>1, <4>2 DEF Prepared, a
      <4> QED BY <4>1, <4>2
    <3>6. \A c \in Clients :
            /\ making'[c].step = "check" => header'[making'[c].area].sync
            /\ cpc[c] \in Late
                 => header'[region[c]].sync
      BY <1>1, <2>3, <3>2 DEF Prepared
    <3>7. \A t \in DOMAIN threads : header'[threads[t].area].sync
      BY <1>1, <3>2 DEF Prepared
    <3>8. jpc # "starting" => header'["service"].sync
      BY <1>1, <3>2 DEF Prepared
    <3>9. jpc = "starting" => \A c \in Clients : cpc[c] = "off"
      BY DEF Prepared
    <3> QED BY <1>2, <1>4, <2>2, <2>4, <2>6, <3>3, <3>4, <3>5, <3>6, <3>7, <3>8, <3>9 DEF Prepared
  <2>7. /\ header[a] \in Headers
        /\ header[a].sync => header[a].rings /\ header[a].initialized
        /\ making[p].step = "state" => ~header[a].initialized
        /\ making[p].step = "rings" => header[a].initialized /\ ~header[a].sync
        /\ making[p].step = "sync" => header[a].initialized /\ header[a].rings
    BY <1>1, <1>4 DEF Prepared
  <2>8. CASE SetState(p)
    <3>1. /\ header'[a] = [header[a] EXCEPT !.initialized = TRUE]
          /\ header' = [header EXCEPT ![a] = header'[a]]
          /\ making'[p].step = "rings" /\ making[p].step = "state"
      BY <1>1, <2>8 DEF SetState
    <3> QED BY <2>6, <2>7, <3>1 DEF Headers
  <2>9. CASE InitChanels(p)
    <3>1. /\ header'[a] = [header[a] EXCEPT !.rings = TRUE]
          /\ header' = [header EXCEPT ![a] = header'[a]]
          /\ making'[p].step = "sync" /\ making[p].step = "rings"
      BY <1>1, <2>9 DEF InitChanels
    <3> QED BY <2>6, <2>7, <3>1 DEF Headers
  <2>10. CASE InitSyncPrimitives(p)
    <3> DEFINE h == [header EXCEPT ![a] = [@ EXCEPT !.sync = TRUE]]
    <3>1. /\ header' = [h EXCEPT ![a] = [@ EXCEPT !.held = FALSE]]
          /\ making'[p].step = "done" /\ making[p].step = "sync"
      BY Zenon, <1>1, <2>10 DEF InitSyncPrimitives
    <3>2. h[a] = [header[a] EXCEPT !.sync = TRUE]
      BY Zenon, <1>1
    <3>3. header'[a] = [h[a] EXCEPT !.held = FALSE]
      BY Zenon, <1>1, <3>1
    <3>4. header' = [header EXCEPT ![a] = header'[a]]
      BY Zenon, <1>1, <3>1, <3>3
    <3> HIDE DEF h
    <3>5. /\ header'[a].sync /\ header'[a].rings = header[a].rings
          /\ header'[a].initialized = header[a].initialized
          /\ header' = [header EXCEPT ![a] = header'[a]]
          /\ making'[p].step = "done" /\ making[p].step = "sync"
      BY <1>1, <3>1, <3>2, <3>3, <3>4 DEF Headers
    <3> QED BY <2>6, <2>7, <3>5
  <2> QED BY <2>5, <2>8, <2>9, <2>10 DEF CreateTransport
<1> QED BY <1>3, <1>4

\* No transport is being set up, and the janitor begins or ends with one.
LEMMA PreparedMoves ==
  ASSUME Core, Core', Prepared,
         \A a \in Areas : /\ header'[a].initialized = header[a].initialized
                          /\ header'[a].rings = header[a].rings /\ header'[a].sync = header[a].sync,
         \A c \in Clients : making'[c] = making[c],
         making["janitor"].step \in {"check", "done"},
         \/ making'["janitor"] = making["janitor"]
         \/ making'["janitor"].step = "check"
         \/ making'["janitor"] = NotMaking /\ header["service"].sync,
         jpc' \in {"serving", "bonjour", "dispatched", "aurevoir", "cancelled"},
         jpc' = "bonjour" => making'["janitor"].area = request'.area,
         jpc' # "bonjour" => making'["janitor"].step = "done",
         \A c \in Clients : cpc'[c] \in Late => header[region'[c]].sync,
         header["service"].sync,
         \A t \in DOMAIN threads' : header[threads'[t].area].sync
  PROVE  Prepared'
<1>1. /\ \A p \in Procs : making[p].area \in Areas /\ making'[p].area \in Areas
      /\ \A c \in Clients : region'[c] \in Areas
      /\ \A t \in DOMAIN threads' : threads'[t].area \in Areas
      /\ "service" \in Areas /\ "janitor" \in Procs /\ "janitor" \notin Clients
      /\ Clients \subseteq Procs
  <2>1. Types /\ Types'
    BY DEF Core
  <2>2. \A t \in DOMAIN threads' : threads'[t].area \in Regions
    <3>1. ASSUME NEW s \in Seq(Threads), NEW i \in DOMAIN s PROVE s[i] \in Threads
      OBVIOUS
    <3>2. \A x \in Threads : x.area \in Regions
      BY DEF Threads
    <3>3. threads' \in Seq(Threads)
      BY <2>1 DEF Types
    <3> QED BY <3>1, <3>2, <3>3
  <2> QED BY <2>1, <2>2, JanitorAssumption DEF Types, Areas, Procs
<1>2. \A a \in Areas : /\ header'[a].initialized => header'[a].sync
                       /\ header'[a].sync => header'[a].rings /\ header'[a].initialized
  BY <1>1 DEF Prepared
<1>3. \A p \in Procs : making'[p].step \in {"state", "rings", "sync"} => p = "janitor"
  BY <1>1 DEF Prepared, Procs
<1>4. /\ making'["janitor"].step \notin {"state", "rings", "sync"}
      /\ making'["janitor"].step = "done" => header'[making'["janitor"].area].sync
  BY <1>1 DEF Prepared, NotMaking
<1>5. \A c \in Clients : making'[c].step = "check" => header'[making'[c].area].sync
  BY <1>1 DEF Prepared
<1>6. /\ \A c \in Clients : cpc'[c] \in Late => header'[region'[c]].sync
      /\ \A t \in DOMAIN threads' : header'[threads'[t].area].sync
      /\ header'["service"].sync
  BY <1>1
<1> QED BY <1>2, <1>3, <1>4, <1>5, <1>6 DEF Prepared

\* What holds of a janitor that serves.
LEMMA ServingFacts ==
  ASSUME Core, Prepared
  PROVE  /\ jpc # "starting" => header["service"].sync
         /\ jpc # "starting" /\ jpc # "bonjour" => making["janitor"].step = "done"
         /\ \A t \in DOMAIN threads : header[threads[t].area].sync
         /\ \A c \in Clients : cpc[c] \in Late => header[region[c]].sync /\ jpc # "starting"
         /\ \A c \in Clients : cpc[c] # "off" => jpc # "starting"
         /\ "janitor" \in Procs /\ "janitor" \notin Clients
         /\ making \in [Procs -> [area : Areas, step : Steps]]
         /\ \A c \in Clients : c \in Procs /\ c # "janitor"
  BY JanitorAssumption DEF Prepared, Late, Core, Types, Procs

\* A client's own steps.
LEMMA ClientPrepared ==
  ASSUME Core, Prepared, ServiceFirst, NEW c \in Clients,
         \/ Start(c) \/ Started(c) \/ CreateContext(c) \/ Attach(c) \/ ContextCreated(c)
         \/ AttachFails(c) \/ PostGl(c) \/ GlPosted(c) \/ CallGl(c) \/ CallReturned(c)
         \/ AuRevoir(c) \/ Free(c)
  PROVE  Prepared'
<1>1. UNCHANGED <<header, jpc, request, threads>>
  BY DEF Start, Started, CreateContext, Attach, ContextCreated, AttachFails, PostGl, GlPosted,
         CallGl, CallReturned, AuRevoir, Free, janitorVars
<1>2. jpc # "starting"
  <2>1. CASE Start(c)
    BY <2>1 DEF Start
  <2>2. CASE ~Start(c)
    <3>1. cpc[c] # "off"
      BY <2>2 DEF Started, CreateContext, Attach, ContextCreated, AttachFails, PostGl,
                  GlPosted, CallGl, CallReturned, AuRevoir, Free
    <3> QED BY <3>1, ServingFacts
  <2> QED BY <2>1, <2>2
<1>3. \A d \in Clients \ {c} : cpc'[d] = cpc[d] /\ region'[d] = region[d]
  BY DEF Start, Started, CreateContext, Attach, ContextCreated, AttachFails, PostGl, GlPosted,
         CallGl, CallReturned, AuRevoir, Free, GiveUp, Core, Types
<1>4. cpc'[c] \in Late => region'[c] = region[c] /\ cpc[c] \in Late
  BY DEF Start, Started, CreateContext, Attach, ContextCreated, AttachFails, PostGl, GlPosted,
         CallGl, CallReturned, AuRevoir, Free, GiveUp, Core, Types, Late
<1>5. \A p \in Procs \ {c} : making'[p] = making[p]
  BY DEF Start, Started, CreateContext, Attach, ContextCreated, AttachFails, PostGl, GlPosted,
         CallGl, CallReturned, AuRevoir, Free, Core, Types
<1>6. \/ making'[c] = making[c] \/ making'[c].step = "done"
      \/ making'[c].step = "check" /\ making'[c].area \in Areas /\ header[making'[c].area].sync
  <2>1. CASE Start(c)
    BY <1>2, <2>1, ServingFacts DEF Start, Making, Areas
  <2>2. CASE Attach(c)
    <3>1. cpc[c] \in Late /\ making'[c] = Making(region[c])
      BY <2>2, ServingFacts DEF Attach, Late
    <3>2. region[c] \in Areas
      BY DEF Core, Types
    <3> QED BY <3>1, <3>2, ServingFacts DEF Making
  <2>3. CASE AttachFails(c)
    BY <2>3, ServingFacts DEF AttachFails, NotMaking
  <2> QED BY <2>1, <2>2, <2>3 DEF Started, CreateContext, ContextCreated, PostGl, GlPosted,
                                   CallGl, CallReturned, AuRevoir, Free
<1>7. \A d \in Clients : \/ making'[d] = making[d] \/ making'[d].step = "done"
                         \/ making'[d].step = "check" /\ making'[d].area \in Areas
                              /\ header[making'[d].area].sync
  <2>1. \A d \in Clients \ {c} : making'[d] = making[d]
    BY <1>5, ServingFacts
  <2> SUFFICES ASSUME NEW d \in Clients
               PROVE  \/ making'[d] = making[d] \/ making'[d].step = "done"
                      \/ making'[d].step = "check" /\ making'[d].area \in Areas
                           /\ header[making'[d].area].sync
    OBVIOUS
  <2>2. CASE d = c
    BY <1>6, <2>2
  <2>3. CASE d # c
    BY <2>1, <2>3
  <2> QED BY <2>2, <2>3
<1>8. making'["janitor"] = making["janitor"]
  BY <1>5, ServingFacts
<1>9. \A d \in Clients : cpc'[d] \in Late => region'[d] = region[d] /\ cpc[d] \in Late
  BY <1>3, <1>4
<1> QED BY <1>1, <1>2, <1>7, <1>8, <1>9, PreparedSame

\* The janitor's steps, apart from those of gvCreateShmStreamTransport.
LEMMA JanitorPrepared ==
  ASSUME Core, Core', Prepared,
         \/ Serving \/ ReceiveRequest \/ DispatchLoop \/ PutOffsetState \/ BonjourFails
         \/ DelOffsetState \/ DestroyTransport \/ AuRevoirFails
  PROVE  Prepared'
<1>1. header' = header
  BY DEF Serving, ReceiveRequest, DispatchLoop, PutOffsetState, BonjourFails, DelOffsetState,
         DestroyTransport, AuRevoirFails
<1>2. \A a \in Areas : /\ header'[a].initialized = header[a].initialized
                       /\ header'[a].rings = header[a].rings /\ header'[a].sync = header[a].sync
  BY <1>1
<1>3. \A c \in Clients : making'[c] = making[c]
  BY ServingFacts DEF Serving, ReceiveRequest, DispatchLoop, PutOffsetState, BonjourFails,
                      DelOffsetState, DestroyTransport, AuRevoirFails
<1>4. header["service"].sync
  <2>1. CASE jpc # "starting"
    BY <2>1, ServingFacts
  <2>2. CASE jpc = "starting"
    <3>1. making["janitor"].step = "done" /\ making["janitor"].area = "service"
      BY <2>2 DEF Serving, ReceiveRequest, DispatchLoop, PutOffsetState, BonjourFails,
                  DelOffsetState, DestroyTransport, AuRevoirFails, Prepared
    <3> QED BY <3>1 DEF Prepared
  <2> QED BY <2>1, <2>2
<1>5. /\ making["janitor"].step \in {"check", "done"}
      /\ ~(BonjourFails \/ ReceiveRequest) =>
           making["janitor"].step = "done" /\ making'["janitor"] = making["janitor"]
      /\ BonjourFails => making'["janitor"] = NotMaking
  BY ServingFacts DEF Serving, ReceiveRequest, DispatchLoop, PutOffsetState, BonjourFails,
                      DelOffsetState, DestroyTransport, AuRevoirFails
<1>6. ReceiveRequest =>
        /\ making["janitor"].step = "done"
        /\ \/ making'["janitor"] = making["janitor"] /\ jpc' # "bonjour"
           \/ making'["janitor"].step = "check" /\ jpc' = "bonjour"
                /\ making'["janitor"].area = request'.area
  BY ServingFacts DEF ReceiveRequest, Making
<1>7. /\ jpc' \in {"serving", "bonjour", "dispatched", "aurevoir", "cancelled"}
      /\ jpc' = "bonjour" => ReceiveRequest
  <2>1. ReceiveRequest => jpc' \in {"bonjour", "aurevoir"}
    <3>1. ASSUME ReceiveRequest PROVE jpc' \in {"bonjour", "aurevoir"}
      <4>1. requests # <<>> /\ requests \in Seq(Requests) /\ jpc' = Head(requests).kind
        BY <3>1 DEF ReceiveRequest, Core, Types
      <4>2. Head(requests) \in Requests
        BY <4>1, TailFacts
      <4> QED BY <4>1, <4>2 DEF Requests, Kinds
    <3> QED BY <3>1
  <2>2. ~ReceiveRequest => jpc' \in {"serving", "dispatched", "cancelled"}
    BY DEF Serving, DispatchLoop, PutOffsetState, BonjourFails, DelOffsetState, DestroyTransport,
           AuRevoirFails
  <2> QED BY <2>1, <2>2
<1>8. /\ jpc' = "bonjour" => making'["janitor"].area = request'.area
      /\ jpc' # "bonjour" => making'["janitor"].step = "done"
      /\ \/ making'["janitor"] = making["janitor"] \/ making'["janitor"].step = "check"
         \/ making'["janitor"] = NotMaking
  BY <1>5, <1>6, <1>7 DEF NotMaking
<1>9. ASSUME NEW c \in Clients, cpc'[c] \in Late
      PROVE  header[region'[c]].sync
  <2>1. CASE cpc[c] \in Late
    <3>1. region'[c] = region[c]
      <4>1. CASE BonjourFails
        <5>1. jpc \in {"bonjour", "dispatched"} /\ GiveUp(request.from)
          BY <4>1 DEF BonjourFails
        <5>2. request.from \in Clients /\ cpc[request.from] = "bonjour"
          BY <5>1, RequestFacts
        <5>3. request.from # c
          BY <2>1, <5>2 DEF Late
        <5> QED BY <5>1, <5>2, <5>3 DEF GiveUp, Core, Types
      <4>2. CASE ~BonjourFails
        BY <4>2 DEF Serving, ReceiveRequest, DispatchLoop, PutOffsetState, DelOffsetState,
                    DestroyTransport, AuRevoirFails
      <4> QED BY <4>1, <4>2
    <3> QED BY <2>1, <3>1, ServingFacts
  <2>2. CASE cpc[c] \notin Late
    <3>1. jpc = "dispatched" /\ c = request.from /\ region' = region
      <4>1. cpc'[c] # cpc[c]
        BY <1>9, <2>2
      <4>2. CASE PutOffsetState
        BY <4>1, <4>2 DEF PutOffsetState, Answer, Core, Types
      <4>3. CASE BonjourFails
        <5>1. jpc \in {"bonjour", "dispatched"} /\ GiveUp(request.from)
          BY <4>3 DEF BonjourFails
        <5>2. request.from \in Clients
          BY <5>1, RequestFacts
        <5>3. cpc'[request.from] = "ready"
          BY <5>1, <5>2 DEF GiveUp, Core, Types
        <5>4. c = request.from
          BY <4>1, <5>1, <5>2 DEF GiveUp, Core, Types
        <5> QED BY <1>9, <5>3, <5>4 DEF Late
      <4>4. CASE DestroyTransport \/ AuRevoirFails
        <5>1. jpc \in {"aurevoir", "cancelled"}
          BY <4>4 DEF DestroyTransport, AuRevoirFails
        <5>2. request.from \in Clients /\ cpc[request.from] = "aurevoir"
          BY <5>1, RequestFacts
        <5>3. c = request.from
          BY <4>1, <4>4 DEF DestroyTransport, AuRevoirFails, Answer, Core, Types
        <5> QED BY <2>2, <5>2, <5>3 DEF Late
      <4> QED BY <4>1, <4>2, <4>3, <4>4 DEF Serving, ReceiveRequest, DispatchLoop, DelOffsetState
    <3>2. request.area = region[c]
      BY <3>1, ServedClient
    <3>3. Len(threads) \in DOMAIN threads /\ threads[Len(threads)].area = region[c]
      BY <3>1, <3>2 DEF Core, Types, Dispatchers
    <3>4. header[region[c]].sync
      BY <3>3, ServingFacts
    <3> QED BY <3>1, <3>4
  <2> QED BY <2>1, <2>2
<1>10. \A t \in DOMAIN threads' : header[threads'[t].area].sync
  <2>1. CASE DispatchLoop
    <3>1. jpc = "bonjour" /\ making["janitor"].step = "done" /\ making["janitor"].area = request.area
      BY <2>1 DEF DispatchLoop, Prepared
    <3>2. header[request.area].sync
      BY <3>1 DEF Prepared
    <3> DEFINE new == [area |-> request.area, mapped |-> TRUE, cancelled |-> FALSE, dead |-> FALSE]
    <3>3. threads' = Append(threads, new) /\ new.area = request.area
      BY <2>1 DEF DispatchLoop
    <3>4. new \in Threads
      BY <3>1, RequestFacts DEF Threads
    <3> HIDE DEF new
    <3>5. /\ DOMAIN threads' = 1..(Len(threads) + 1) /\ threads'[Len(threads) + 1] = new
          /\ DOMAIN threads = 1..Len(threads) /\ Len(threads) \in Nat
          /\ \A t \in 1..Len(threads) : threads'[t] = threads[t]
      BY <3>3, <3>4, AppendFacts DEF Core, Types
    <3>6. ASSUME NEW t \in DOMAIN threads' PROVE header[threads'[t].area].sync
      <4>1. CASE t = Len(threads) + 1
        BY <3>2, <3>3, <3>5, <4>1
      <4>2. CASE t # Len(threads) + 1
        <5>1. t \in DOMAIN threads /\ threads'[t] = threads[t]
          BY <3>5, <4>2
        <5> QED BY <5>1, ServingFacts
      <4> QED BY <4>1, <4>2
    <3> QED BY <3>6
  <2>2. CASE ~DispatchLoop
    <3>1. DOMAIN threads' = DOMAIN threads /\ \A t \in DOMAIN threads : threads'[t].area = threads[t].area
      <4>1. CASE DelOffsetState \/ DestroyTransport
        <5>1. PICK i \in DOMAIN threads :
                \/ threads' = [threads EXCEPT ![i].cancelled = TRUE]
                \/ threads' = [threads EXCEPT ![i].mapped = FALSE]
          BY <4>1 DEF DelOffsetState, DestroyTransport, Core, Entries, Dispatchers, StatesOf
        <5>2. threads[i] \in Threads
          BY <5>1, ThreadTypes DEF Core
        <5>3. threads \in Seq(Threads)
          BY DEF Core, Types
        <5>4. CASE threads' = [threads EXCEPT ![i].cancelled = TRUE]
          BY <5>2, <5>3, <5>4 DEF Threads
        <5>5. CASE threads' = [threads EXCEPT ![i].mapped = FALSE]
          BY <5>2, <5>3, <5>5 DEF Threads
        <5> QED BY <5>1, <5>4, <5>5
      <4>2. CASE ~(DelOffsetState \/ DestroyTransport)
        BY <2>2, <4>2 DEF Serving, ReceiveRequest, PutOffsetState, BonjourFails, AuRevoirFails
      <4> QED BY <4>1, <4>2
    <3> QED BY <3>1, ServingFacts
  <2> QED BY <2>1, <2>2
<1> QED BY <1>2, <1>3, <1>4, <1>5, <1>6, <1>7, <1>8, <1>9, <1>10, PreparedMoves

LEMMA ThreadPrepared ==
  ASSUME Core, Prepared, NEW t \in DOMAIN threads, ThreadStep(t)
  PROVE  Prepared'
<1>1. UNCHANGED <<making, cpc, region, jpc, request>>
  BY DEF ThreadStep, MakePost, MakeCall, Cancelled, janitorVars
<1>2. threads[t] \in Threads /\ threads[t].area \in Areas /\ header \in [Areas -> Headers]
  BY ThreadTypes DEF Core, Types, Threads, Areas
<1>3. \A a \in Areas : /\ header'[a].initialized = header[a].initialized
                       /\ header'[a].rings = header[a].rings /\ header'[a].sync = header[a].sync
  <2>1. CASE header' = header
    BY <2>1
  <2>2. CASE header' = [header EXCEPT ![threads[t].area].held = TRUE]
    BY <1>2, <2>2 DEF Headers
  <2> QED BY <2>1, <2>2 DEF ThreadStep, MakePost, MakeCall, Cancelled
<1>4. DOMAIN threads' = DOMAIN threads /\ \A u \in DOMAIN threads : threads'[u].area = threads[u].area
  <2>1. CASE threads' = threads
    BY <2>1
  <2>2. CASE threads' = [threads EXCEPT ![t].dead = TRUE]
    BY <1>2, <2>2 DEF Threads, Core, Types
  <2> QED BY <2>1, <2>2 DEF ThreadStep, MakePost, MakeCall, Cancelled
<1> QED BY <1>1, <1>3, <1>4, PreparedSame

LEMMA StepPrepared ==
  ASSUME Core, Prepared, ServiceFirst, [Next]_vars
  PROVE  Prepared'
<1>1. Core'
  BY StepCore
<1>2. CASE UNCHANGED vars \/ Stop
  <2>1. UNCHANGED <<header, making, cpc, region, jpc, request, threads>>
    BY <1>2 DEF vars, Stop, janitorVars
  <2> QED BY <2>1 DEF Prepared
<1>3. ASSUME NEW c \in Clients, Start(c) \/ ClientStep(c) \/ PostGl(c) \/ CallGl(c) \/ AuRevoir(c)
      PROVE  Prepared'
  BY <1>3, ClientPrepared, CreateTransportPrepared DEF ClientStep, Procs
<1>4. CASE JanitorStep
  BY <1>1, <1>4, JanitorPrepared, CreateTransportPrepared DEF JanitorStep, Procs
<1>5. ASSUME NEW t \in DOMAIN threads, ThreadStep(t) PROVE Prepared'
  BY <1>5, ThreadPrepared
<1> QED BY <1>2, <1>3, <1>4, <1>5 DEF Next

-----------------------------------------------------------------------------
(* Calls, and why the janitor fails.                                       *)

\* A client that has made a call waits for its result, whatever the others do.
LEMMA CallingStays ==
  ASSUME Core, [Next]_vars, NEW c \in Clients, cpc[c] = "calling", ~CallReturned(c)
  PROVE  cpc'[c] = "calling" /\ region'[c] = region[c]
<1>1. CASE cpc' = cpc /\ region' = region
  BY <1>1
<1>2. ASSUME NEW d \in Clients, Start(d) \/ ClientStep(d) \/ PostGl(d) \/ CallGl(d) \/ AuRevoir(d)
      PROVE  cpc'[c] = "calling" /\ region'[c] = region[c]
  <2>1. CASE CreateTransport(d)
    BY <2>1 DEF CreateTransport, CheckState, SetState, InitChanels, InitSyncPrimitives
  <2>2. CASE d = c
    BY <1>2, <2>1, <2>2 DEF Start, ClientStep, PostGl, CallGl, AuRevoir, Started, CreateContext,
                            Attach, ContextCreated, AttachFails, GlPosted, Free
  <2>3. CASE d # c
    BY <1>2, <2>1, <2>3 DEF Start, ClientStep, PostGl, CallGl, AuRevoir, Started, CreateContext,
                            Attach, ContextCreated, AttachFails, CallReturned, GlPosted, Free,
                            GiveUp, Core, Types
  <2> QED BY Zenon, <2>2, <2>3
<1>3. CASE PutOffsetState \/ DestroyTransport \/ AuRevoirFails
  <2>1. PICK p \in ClientPcs \ {"calling"} : \E q \in ClientPcs :
          cpc' = [cpc EXCEPT ![request.from] = IF @ = p THEN q ELSE @]
    BY <1>3 DEF PutOffsetState, DestroyTransport, AuRevoirFails, Answer, ClientPcs
  <2>2. region' = region
    BY <1>3 DEF PutOffsetState, DestroyTransport, AuRevoirFails
  <2> QED BY <2>1, <2>2 DEF Core, Types
<1>4. CASE BonjourFails
  <2>1. jpc \in {"bonjour", "dispatched"} /\ GiveUp(request.from)
    BY <1>4 DEF BonjourFails
  <2>2. request.from # c
    BY <2>1, RequestFacts
  <2> QED BY <2>1, <2>2 DEF GiveUp, Core, Types
<1>5. CASE CreateTransport("janitor")
  BY <1>5 DEF CreateTransport, CheckState, SetState, InitChanels, InitSyncPrimitives
<1>6. CASE Serving \/ ReceiveRequest \/ DispatchLoop \/ DelOffsetState \/ Stop
  BY <1>6 DEF Serving, ReceiveRequest, DispatchLoop, DelOffsetState, Stop
<1>7. ASSUME NEW t \in DOMAIN threads, ThreadStep(t)
      PROVE  cpc'[c] = "calling" /\ region'[c] = region[c]
  BY <1>7 DEF ThreadStep, MakePost, MakeCall, Cancelled
<1>8. CASE UNCHANGED vars
  BY <1>8 DEF vars
<1> QED BY <1>2, <1>3, <1>4, <1>5, <1>6, <1>7, <1>8 DEF Next, JanitorStep

\* Only clients make calls.
LEMMA CallsMade ==
  ASSUME Core, [Next]_vars, NEW a \in Regions, glCall[a] = "none", glCall'[a] # "none"
  PROVE  \E c \in Clients : cpc'[c] = "calling" /\ region'[c] = a
<1>1. glCall' # glCall
  OBVIOUS
<1>2. ASSUME NEW p \in Procs, CreateTransport(p) PROVE FALSE
  BY <1>2 DEF CreateTransport, CheckState, SetState, InitChanels, InitSyncPrimitives
<1>3. ASSUME NEW c \in Clients, CallGl(c)
      PROVE  \E d \in Clients : cpc'[d] = "calling" /\ region'[d] = a
  <2>1. cpc'[c] = "calling" /\ region'[c] = region[c] /\ region[c] = a
    BY <1>3 DEF CallGl, Core, Types
  <2> QED BY <2>1
<1>4. ASSUME NEW c \in Clients, CallReturned(c) PROVE FALSE
  BY <1>4 DEF CallReturned, Core, Types
<1>5. ASSUME NEW t \in DOMAIN threads, ThreadStep(t) PROVE FALSE
  BY <1>1, <1>5 DEF ThreadStep, MakePost, MakeCall, Cancelled, Core, Types
<1>6. ASSUME NEW c \in Clients, Start(c) \/ Started(c) \/ CreateContext(c) \/ Attach(c)
                                \/ ContextCreated(c) \/ AttachFails(c) \/ PostGl(c)
                                \/ GlPosted(c) \/ AuRevoir(c) \/ Free(c)
      PROVE  FALSE
  BY <1>1, <1>6 DEF Start, Started, CreateContext, Attach, ContextCreated, AttachFails, PostGl,
                    GlPosted, AuRevoir, Free
<1>7. CASE Serving \/ ReceiveRequest \/ DispatchLoop \/ PutOffsetState \/ BonjourFails
           \/ DelOffsetState \/ DestroyTransport \/ AuRevoirFails \/ Stop
  BY <1>1, <1>7 DEF Serving, ReceiveRequest, DispatchLoop, PutOffsetState, BonjourFails,
                    DelOffsetState, DestroyTransport, AuRevoirFails, Stop
<1>8. CASE UNCHANGED vars
  BY <1>1, <1>8 DEF vars
<1> QED BY <1>2, <1>3, <1>4, <1>5, <1>6, <1>7, <1>8 DEF Next, ClientStep, JanitorStep, Procs

LEMMA StepCalls == ASSUME Core, Calls, [Next]_vars PROVE Calls'
<1> SUFFICES ASSUME NEW a \in Regions, glCall'[a] # "none"
             PROVE  \E c \in Clients : cpc'[c] = "calling" /\ region'[c] = a
  BY DEF Calls
<1>1. CASE glCall[a] = "none"
  BY <1>1, CallsMade
<1>2. CASE glCall[a] # "none"
  <2>1. PICK c \in Clients : cpc[c] = "calling" /\ region[c] = a
    BY <1>2 DEF Calls
  <2>2. ~CallReturned(c)
    BY <2>1 DEF CallReturned, Core, Types
  <2> QED BY <2>1, <2>2, CallingStays
<1> QED BY <1>1, <1>2

LEMMA StepFailed == ASSUME Failed, [Next]_vars PROVE Failed'
<1>1. CASE trackerLocked' = trackerLocked
  BY <1>1 DEF Failed
<1>2. CASE BonjourFails
  BY <1>2 DEF BonjourFails, Failed
<1>3. ASSUME NEW p \in Procs, CreateTransport(p) PROVE trackerLocked' = trackerLocked
  BY <1>3 DEF CreateTransport, CheckState, SetState, InitChanels, InitSyncPrimitives, janitorVars,
              tracker
<1>4. ASSUME NEW c \in Clients, Start(c) \/ Started(c) \/ CreateContext(c) \/ Attach(c)
                                \/ ContextCreated(c) \/ AttachFails(c) \/ PostGl(c)
                                \/ GlPosted(c) \/ CallGl(c) \/ CallReturned(c)
                                \/ AuRevoir(c) \/ Free(c)
      PROVE  trackerLocked' = trackerLocked
  BY <1>4 DEF Start, Started, CreateContext, Attach, ContextCreated, AttachFails, PostGl,
              GlPosted, CallGl, CallReturned, AuRevoir, Free, janitorVars, tracker
<1>5. CASE Serving \/ ReceiveRequest \/ DispatchLoop \/ PutOffsetState
           \/ DelOffsetState \/ DestroyTransport \/ AuRevoirFails \/ Stop
  BY <1>1, <1>5 DEF Serving, ReceiveRequest, DispatchLoop, PutOffsetState, DelOffsetState,
                    DestroyTransport, AuRevoirFails, Stop, janitorVars, tracker
<1>6. ASSUME NEW t \in DOMAIN threads, ThreadStep(t) PROVE trackerLocked' = trackerLocked
  BY <1>6 DEF ThreadStep, MakePost, MakeCall, Cancelled, janitorVars, tracker
<1>7. CASE UNCHANGED vars
  BY <1>1, <1>7 DEF vars, janitorVars, tracker
<1> QED BY <1>1, <1>2, <1>3, <1>4, <1>5, <1>6, <1>7 DEF Next, ClientStep, JanitorStep, Procs

LEMMA StepWhole == ASSUME Whole, ServiceFirst, [Next]_vars PROVE Whole'
  BY StepCore, StepPrepared, StepCalls, StepFailed DEF Whole

-----------------------------------------------------------------------------
(* What follows for regions, threads and transports.                       *)

LEMMA CoreTypes == Core => TypeOK
<1> SUFFICES ASSUME Core PROVE TypeOK
  OBVIOUS
<1>1. Len(threads) <= MaxThreads
  BY WaitersFinite, JanitorAssumption DEF Core, Bounded
<1>2. \A s \in states : s.offset \in Regions /\ s.thread \in DOMAIN threads
  BY DEF Core, Types, Entries
<1>3. \A p \in Procs : making[p].area \in Areas /\ making[p].step \in Steps
  BY DEF Core, Types
<1> QED BY <1>1, <1>2, <1>3 DEF Core, Types, TypeOK, Headers, ClientPcs, Steps

LEMMA CoreServers == Core => OneServer
<1> SUFFICES ASSUME Core, NEW t \in DOMAIN threads, ~threads[t].cancelled
             PROVE  /\ \A u \in DOMAIN threads :
                         threads[u].area = threads[t].area /\ ~threads[u].cancelled => u = t
                    /\ threads[t].area \in lost \cup {region[c] : c \in Clients}
                    /\ \/ jpc = "dispatched" \/ threads[t].area \in lost
                       \/ StatesOf(threads[t].area) # {}
  BY DEF OneServer
<1>1. CASE threads[t].area \in lost
  BY <1>1 DEF Core, Dispatchers
<1>2. CASE \E c \in Clients : region[c] = threads[t].area /\ (Entered(c) \/ Dispatched(c))
  <2>1. PICK c \in Clients : region[c] = threads[t].area /\ (Entered(c) \/ Dispatched(c))
    BY <1>2
  <2>2. jpc = "dispatched" \/ StatesOf(threads[t].area) # {}
    BY <2>1 DEF Core, Entries, Dispatched
  <2> QED BY <2>1, <2>2 DEF Core, Dispatchers
<1> QED BY <1>1, <1>2 DEF Core, Dispatchers

LEMMA WholeReady == Whole => ReadyBeforeUse
<1> SUFFICES ASSUME Whole, NEW p \in Procs, NEW a \in Areas, Attached(p, a)
             PROVE  /\ header[a].rings /\ header[a].sync
                    /\ \A q \in Procs : making[q].area = a => making[q].step \notin {"rings", "sync"}
  BY DEF ReadyBeforeUse
<1>1. Core /\ Prepared
  BY DEF Whole
<1>2. header[a].sync
  <2>1. CASE p = "janitor"
    BY <1>1, <2>1, ServingFacts DEF Attached
  <2>2. CASE p # "janitor"
    <3>1. p \in Clients
      BY <2>2 DEF Procs
    <3>2. \/ a = "service" /\ cpc[p] \notin {"off", "starting"}
          \/ a = region[p] /\ cpc[p] \in {"current", "posting", "calling", "aurevoir"}
      BY <2>2 DEF Attached
    <3> QED BY <1>1, <3>1, <3>2, ServingFacts DEF Late
  <2> QED BY <2>1, <2>2
<1>3. header[a].rings
  BY <1>1, <1>2 DEF Prepared
<1>4. ASSUME NEW q \in Procs, making[q].area = a, making[q].step \in {"rings", "sync"} PROVE FALSE
  <2>1. q = "janitor"
    BY <1>1, <1>4 DEF Prepared
  <2> QED BY <1>1, <1>2, <1>4, <2>1 DEF Prepared
<1> QED BY <1>2, <1>3, <1>4

\* In every reachable state, whatever fails: each region has one owner, each
\* waiting client one request, and the janitor's map its live threads.
THEOREM JanitorInvariance == Spec => []Core
<1>1. Init => Core
  BY InitCore
<1>2. Core /\ [Next]_vars => Core'
  BY StepCore
<1> QED BY <1>1, <1>2, PTL DEF Spec

\* The variables stay in their ranges; no more threads than the bound start.
THEOREM JanitorTyped == Spec => []TypeOK
<1> QED BY JanitorInvariance, CoreTypes, PTL

\* gvPutOffsetState never enters an offset that gvDelOffsetState has not taken out.
THEOREM RegionsOnce == Spec => []OffsetsUnique
<1>1. Core => OffsetsUnique
  BY DEF Core, Entries
<1> QED BY <1>1, JanitorInvariance, PTL

\* Of all threads that gvDispatchLoop has started in a region, at most one has not
\* been cancelled, and then the region has an owner or is lost.
THEOREM RegionsServedByOne == Spec => []OneServer
<1> QED BY JanitorInvariance, CoreServers, PTL

LEMMA WholeInvariance == ASSUME ServiceFirst PROVE Spec => []Whole
<1>1. Init => Whole
  BY InitCore, InitPrepared DEF Whole
<1>2. Whole /\ [Next]_vars => Whole'
  BY StepWhole
<1> QED BY <1>1, <1>2, PTL DEF Spec

\* If clients start after the janitor, everything gvCreateShmStreamTransport
\* hands out has been set up once, and by nobody again.
THEOREM TransportsWhole ==
  ASSUME ServiceFirst PROVE Spec => []ReadyBeforeUse
<1> QED BY WholeInvariance, WholeReady, PTL

-----------------------------------------------------------------------------
(* Nobody is forgotten, which ContextServed rests on.                      *)

RequestOf(c) == \E i \in 1..Len(requests) : requests[i].from = c

\* What a client waits for the janitor has been asked, or is at.
Outstanding(c) == RequestOf(c) \/ (jpc \in Serves(cpc[c]) /\ request.from = c)
Awaited == \A c \in Clients : cpc[c] \in Kinds => Outstanding(c)

\* A client's call is in its region.
Answerable == \A c \in Clients : cpc[c] = "calling" => glCall[region[c]] # "none"

\* Who has the mutex of a region in which everybody waits for ever.
DiedIn(a) == \E t \in DOMAIN threads : threads[t].area = a /\ threads[t].dead
Blocked == \A a \in Areas : header[a].held => DiedIn(a)

\* A cancelled thread has its transport only until the janitor destroys it, and
\* then its client waits for gvAuRevoir.
Ending ==
    /\ \A t \in DOMAIN threads :
         /\ threads[t].dead => threads[t].cancelled
         /\ threads[t].cancelled /\ threads[t].mapped => jpc = "cancelled" /\ request.thread = t
    /\ jpc = "cancelled" => threads[request.thread].area = request.area

\* The guards of the janitor's steps, and of a thread that makes a call, or the
\* command queued before it.
JanitorMoves ==
    \/ making["janitor"].step # "done"
    \/ jpc \in {"starting", "bonjour", "dispatched", "cancelled"}
    \/ jpc = "serving" /\ requests # <<>>
    \/ jpc = "aurevoir" /\ (trackerLocked \/ StatesOf(request.area) # {})

Makes(t) == /\ ~threads[t].dead /\ ~threads[t].cancelled
            /\ ~header[threads[t].area].held /\ glCall[threads[t].area] = "made"

\* A client that waits for the janitor has its request there, and the janitor
\* can go on; one whose function has not returned can notify the thread, has its
\* answer or a thread that can make it, or is in a region in which an earlier
\* thread, cancelled, has died with the mutex.
NobodyForgotten ==
    ~crashed => \A c \in Clients :
        /\ cpc[c] \in Kinds => Outstanding(c) /\ JanitorMoves
        /\ InCall(c) =>
             \/ header[region[c]].held /\ \E t \in DOMAIN threads :
                    threads[t].area = region[c] /\ threads[t].cancelled /\ threads[t].dead
             \/ cpc[c] = "posting" /\ ~header[region[c]].held
             \/ glCall[region[c]] = "answered"
             \/ \E t \in DOMAIN threads : threads[t].area = region[c] /\ Makes(t)

\* No thread leaves a mutex locked in the region of a client that is at work in
\* it: one that finds it free has it free.
KeepsMutex ==
    \A c \in Clients :
        (cpc[c] = "current" \/ InCall(c)) /\ header'[region[c]].held => header[region[c]].held

LEMMA InitAwaited == Init => Awaited /\ Answerable /\ Ending /\ Blocked
<1> SUFFICES ASSUME Init PROVE Awaited /\ Answerable /\ Ending /\ Blocked
  OBVIOUS
<1>1. /\ \A c \in Clients : cpc[c] = "off"
      /\ DOMAIN threads = {} /\ jpc = "starting"
      /\ \A a \in Areas : ~header[a].held
  BY DEF Init, Untouched
<1> QED BY <1>1 DEF Awaited, Answerable, Ending, Blocked, Kinds

\* Nobody begins to wait, and whom the janitor serves goes on waiting for it.
LEMMA AwaitedMoves ==
  ASSUME Awaited, requests' = requests,
         \A c \in Clients : cpc'[c] \in Kinds =>
           /\ cpc'[c] = cpc[c]
           /\ jpc \in Serves(cpc[c]) /\ request.from = c
                => jpc' \in Serves(cpc[c]) /\ request'.from = c
  PROVE  Awaited'
<1> SUFFICES ASSUME NEW c \in Clients, cpc'[c] \in Kinds PROVE Outstanding(c)'
  BY Zenon DEF Awaited
<1>1. Outstanding(c) /\ cpc'[c] = cpc[c]
  BY Zenon DEF Awaited
<1>2. RequestOf(c) => RequestOf(c)'
  BY Zenon DEF RequestOf
<1> QED BY Zenon, <1>1, <1>2 DEF Outstanding

LEMMA AwaitedAsk ==
  ASSUME Core, Awaited, NEW c \in Clients, CreateContext(c) \/ AuRevoir(c)
  PROVE  Awaited'
<1>1. PICK r, k : /\ requests' = Append(requests, r) /\ r.from = c
                  /\ cpc' = [cpc EXCEPT ![c] = k] /\ UNCHANGED <<jpc, request>>
  <2>1. CASE CreateContext(c)
    <3>1. PICK a : requests' = Append(requests, Request(c, "bonjour", a))
      BY Zenon, <2>1 DEF CreateContext
    <3>2. Request(c, "bonjour", a).from = c
      BY DEF Request
    <3> QED BY Zenon, <2>1, <3>1, <3>2 DEF CreateContext, janitorVars
  <2>2. CASE AuRevoir(c)
    <3>1. Request(c, "aurevoir", region[c]).from = c
      BY DEF Request
    <3> QED BY Zenon, <2>2, <3>1 DEF AuRevoir, janitorVars
  <2> QED BY Zenon, <2>1, <2>2
<1>2. requests \in Seq(Requests) /\ \A d \in Clients \ {c} : cpc'[d] = cpc[d]
  BY <1>1 DEF Core, Types
<1>3. /\ \A i \in 1..Len(requests) : /\ requests'[i] = requests[i]
                                     /\ i \in 1..Len(requests')
      /\ requests'[Len(requests) + 1] = r /\ Len(requests) + 1 \in 1..Len(requests')
  <2> DEFINE S == Requests \cup {r}
  <2>1. requests \in Seq(S) /\ r \in S
    BY <1>2
  <2> HIDE DEF S
  <2>2. /\ Len(requests) \in Nat /\ Len(requests') = Len(requests) + 1
        /\ requests'[Len(requests) + 1] = r
        /\ \A i \in 1..Len(requests) : requests'[i] = requests[i]
    <3>1. PICK q : q = Append(requests, r)
      OBVIOUS
    <3>2. /\ Len(requests) \in Nat /\ Len(q) = Len(requests) + 1
          /\ q[Len(requests) + 1] = r
          /\ \A i \in 1..Len(requests) : q[i] = requests[i]
      BY <2>1, <3>1, AppendFacts
    <3> QED BY Zenon, <1>1, <3>1, <3>2
  <2> QED BY <2>2
<1>4. RequestOf(c)'
  BY Zenon, <1>1, <1>2, <1>3 DEF RequestOf
<1>5. ASSUME NEW d \in Clients \ {c}, cpc'[d] \in Kinds PROVE Outstanding(d)'
  <2>1. Outstanding(d) /\ cpc'[d] = cpc[d]
    BY Zenon, <1>2, <1>5 DEF Awaited
  <2>2. RequestOf(d) => RequestOf(d)'
    BY Zenon, <1>1, <1>2, <1>3 DEF RequestOf
  <2> QED BY Zenon, <1>1, <2>1, <2>2 DEF Outstanding
<1> QED BY Zenon, <1>4, <1>5 DEF Awaited, Outstanding

\* A transport that is set up for the service drops the requests in it: nobody
\* has made one by then.
LEMMA AwaitedTransport ==
  ASSUME Core, Prepared, Awaited, NEW p \in Procs, CreateTransport(p)
  PROVE  Awaited'
<1>1. UNCHANGED <<cpc, jpc, request>>
  BY DEF CreateTransport, CheckState, SetState, InitChanels, InitSyncPrimitives, janitorVars
<1>2. CASE requests' = requests
  BY Zenon, <1>1, <1>2, AwaitedMoves
<1>3. CASE requests' # requests
  <2>1. making[p].step = "rings" /\ making[p].area = "service"
    BY <1>3 DEF CreateTransport, CheckState, SetState, InitChanels, InitSyncPrimitives
  <2>2. p = "janitor"
    BY <2>1 DEF Prepared
  <2>3. jpc = "bonjour" => request.area # "service"
    BY RequestFacts
  <2>4. jpc = "starting"
    BY <2>1, <2>2, <2>3 DEF Prepared
  <2>5. \A c \in Clients : cpc'[c] = "off"
    BY <1>1, <2>4 DEF Prepared
  <2> QED BY <2>5 DEF Awaited, Kinds
<1> QED BY <1>2, <1>3

LEMMA AwaitedClient ==
  ASSUME Core, Prepared, Awaited, NEW c \in Clients,
         Start(c) \/ ClientStep(c) \/ PostGl(c) \/ CallGl(c) \/ AuRevoir(c)
  PROVE  Awaited'
<1>1. CASE CreateTransport(c)
  BY Zenon, <1>1, AwaitedTransport DEF Procs
<1>2. CASE CreateContext(c) \/ AuRevoir(c)
  BY Zenon, <1>2, AwaitedAsk
<1>3. CASE Start(c) \/ Started(c) \/ Attach(c) \/ ContextCreated(c) \/ AttachFails(c)
           \/ PostGl(c) \/ GlPosted(c) \/ CallGl(c) \/ CallReturned(c) \/ Free(c)
  <2>1. UNCHANGED <<requests, jpc, request>>
        /\ \E k \in ClientPcs \ Kinds : cpc' = [cpc EXCEPT ![c] = k]
    BY <1>3 DEF Start, Started, Attach, ContextCreated, AttachFails, GiveUp, PostGl,
                GlPosted, CallGl, CallReturned, Free, janitorVars, ClientPcs, Kinds
  <2>2. \A d \in Clients : cpc'[d] \in Kinds => cpc'[d] = cpc[d]
    BY <2>1 DEF Core, Types
  <2> QED BY Zenon, <2>1, <2>2, AwaitedMoves
<1> QED BY Zenon, <1>1, <1>2, <1>3 DEF ClientStep

LEMMA AwaitedReceive ==
  ASSUME Core, Awaited, ReceiveRequest
  PROVE  Awaited'
<1>1. /\ jpc = "serving" /\ requests # <<>> /\ request' = Head(requests)
      /\ requests' = Tail(requests) /\ jpc' = request'.kind /\ cpc' = cpc
  BY DEF ReceiveRequest
<1>2. /\ Len(requests) \in Nat \ {0} /\ request' = requests[1] /\ Len(requests') = Len(requests) - 1
      /\ \A i \in 1..(Len(requests) - 1) : requests'[i] = requests[i + 1]
  BY <1>1, TailFacts DEF Core, Types
<1>3. jpc' = cpc[request'.from] /\ jpc' \in Kinds
  BY <1>1, <1>2, RequestFacts DEF Core, Asked
<1>4. ASSUME NEW c \in Clients, cpc'[c] \in Kinds PROVE Outstanding(c)'
  <2>1. Outstanding(c)
    BY Zenon, <1>1, <1>4 DEF Awaited
  <2>2. RequestOf(c)
    BY <1>1, <2>1 DEF Outstanding, Serves
  <2>3. PICK i \in 1..Len(requests) : requests[i].from = c
    BY Zenon, <2>2 DEF RequestOf
  <2>4. CASE i = 1
    <3>1. request'.from = c /\ jpc' = cpc'[c]
      BY Zenon, <1>1, <1>2, <1>3, <2>3, <2>4
    <3>2. jpc' \in Serves(cpc'[c])
      BY <1>3, <3>1 DEF Serves, Kinds
    <3> QED BY Zenon, <3>1, <3>2 DEF Outstanding
  <2>5. CASE i # 1
    <3>1. i - 1 \in 1..Len(requests') /\ requests'[i - 1] = requests[i]
      BY <1>2, <2>3, <2>5
    <3> QED BY Zenon, <2>3, <3>1 DEF Outstanding, RequestOf
  <2> QED BY Zenon, <2>4, <2>5
<1> QED BY Zenon, <1>4 DEF Awaited

\* The janitor answers, or gets on with the request it is at.
LEMMA AwaitedServed ==
  ASSUME Core, Awaited,
         Serving \/ DispatchLoop \/ PutOffsetState \/ BonjourFails \/ DelOffsetState
           \/ DestroyTransport \/ AuRevoirFails
  PROVE  Awaited'
<1>1. requests' = requests
  BY DEF Serving, DispatchLoop, PutOffsetState, BonjourFails, DelOffsetState, DestroyTransport,
         AuRevoirFails
<1>2. CASE Serving \/ DispatchLoop
  <2>1. /\ UNCHANGED <<cpc, request>>
        /\ \/ jpc = "starting"
           \/ jpc = "bonjour" /\ jpc' = "dispatched"
    BY <1>2 DEF Serving, DispatchLoop
  <2> QED BY <1>1, <2>1, AwaitedMoves DEF Serves
<1>3. CASE DelOffsetState
  <2>1. jpc = "aurevoir" /\ jpc' = "cancelled" /\ cpc' = cpc
        /\ \E n : request' = [request EXCEPT !.thread = n]
    BY Zenon, <1>3 DEF DelOffsetState
  <2>2. request \in Requests
    BY <2>1, RequestFacts DEF Core, Asked
  <2>3. request'.from = request.from
    BY <2>1, <2>2 DEF Requests
  <2> QED BY <1>1, <2>1, <2>3, AwaitedMoves DEF Serves
<1>4. CASE PutOffsetState \/ BonjourFails \/ DestroyTransport \/ AuRevoirFails
  <2>1. /\ jpc \in {"bonjour", "dispatched", "aurevoir", "cancelled"}
        /\ \/ jpc \in {"bonjour", "dispatched"}
              /\ cpc' = [cpc EXCEPT ![request.from] = IF @ = "bonjour" THEN "welcome" ELSE @]
           \/ cpc' = [cpc EXCEPT ![request.from] = "ready"]
           \/ jpc \in {"aurevoir", "cancelled"}
              /\ cpc' = [cpc EXCEPT ![request.from] = IF @ = "aurevoir" THEN "gone" ELSE @]
           \/ jpc \in {"aurevoir", "cancelled"}
              /\ cpc' = [cpc EXCEPT ![request.from] = IF @ = "aurevoir" THEN "current" ELSE @]
    BY <1>4 DEF PutOffsetState, BonjourFails, GiveUp, DestroyTransport, AuRevoirFails, Answer
  <2>2. /\ request.from \in Clients
        /\ jpc \in {"bonjour", "dispatched"} => cpc[request.from] = "bonjour"
        /\ jpc \in {"aurevoir", "cancelled"} => cpc[request.from] = "aurevoir"
    BY <2>1, RequestFacts
  <2>3. /\ cpc'[request.from] \notin Kinds
        /\ \A d \in Clients : d # request.from => cpc'[d] = cpc[d]
    BY <2>1, <2>2 DEF Core, Types, Kinds
  <2> QED BY Zenon, <1>1, <2>3, AwaitedMoves
<1> QED BY Zenon, <1>2, <1>3, <1>4

LEMMA AwaitedStep ==
  ASSUME Core, Prepared, Awaited, [Next]_vars
  PROVE  Awaited'
<1>1. ASSUME UNCHANGED <<requests, cpc, jpc, request>> PROVE Awaited'
  BY Zenon, <1>1, AwaitedMoves
<1>2. CASE UNCHANGED vars \/ Stop
  BY <1>1, <1>2 DEF vars, Stop, janitorVars
<1>3. ASSUME NEW t \in DOMAIN threads, ThreadStep(t) PROVE Awaited'
  BY <1>1, <1>3 DEF ThreadStep, MakePost, MakeCall, Cancelled, janitorVars
<1>4. CASE JanitorStep
  BY Zenon, <1>4, AwaitedTransport, AwaitedReceive, AwaitedServed DEF JanitorStep, Procs
<1> QED BY Zenon, <1>2, <1>3, <1>4, AwaitedClient DEF Next

\* The janitor's threads are what they were, and it is not at gvAuRevoir's end.
LEMMA EndingSame ==
  ASSUME Ending, threads' = threads,
         \/ jpc' = jpc /\ request' = request
         \/ jpc # "cancelled" /\ jpc' # "cancelled"
  PROVE  Ending'
  BY DEF Ending

LEMMA EndingDispatch ==
  ASSUME Core, Ending, DispatchLoop
  PROVE  Ending'
<1> DEFINE n == Len(threads)
           new == [area |-> request.area, mapped |-> TRUE, cancelled |-> FALSE, dead |-> FALSE]
<1>1. jpc = "bonjour" /\ jpc' = "dispatched" /\ threads' = Append(threads, new)
  BY DEF DispatchLoop
<1>2. new \in Threads /\ ~new.cancelled /\ ~new.dead
  BY <1>1, RequestFacts DEF Threads
<1> HIDE DEF new
<1>3. threads \in Seq(Threads)
  BY DEF Core, Types
<1>4. /\ DOMAIN threads = 1..n /\ DOMAIN threads' = 1..(n + 1) /\ n \in Nat
      /\ threads'[n + 1] = new /\ \A t \in 1..n : threads'[t] = threads[t]
  BY <1>1, <1>2, <1>3, AppendFacts
<1>5. \A t \in DOMAIN threads : ~(threads[t].cancelled /\ threads[t].mapped)
  BY <1>1 DEF Ending
<1>6. ASSUME NEW t \in DOMAIN threads'
      PROVE  /\ threads'[t].dead => threads'[t].cancelled
             /\ ~(threads'[t].cancelled /\ threads'[t].mapped)
  <2>1. CASE t = n + 1
    BY Zenon, <1>2, <1>4, <2>1
  <2>2. CASE t # n + 1
    <3>1. t \in DOMAIN threads
      BY <1>4, <2>2
    <3>2. threads'[t] = threads[t]
      BY <1>4, <3>1
    <3> QED BY Zenon, <1>5, <3>1, <3>2 DEF Ending
  <2> QED BY <2>1, <2>2
<1> QED BY <1>1, <1>6 DEF Ending

\* The janitor cancels the thread of the region that it was asked to release.
LEMMA EndingDel ==
  ASSUME Core, Ending, DelOffsetState
  PROVE  Ending'
<1>1. jpc = "aurevoir" /\ jpc' = "cancelled"
  BY DEF DelOffsetState
<1>2. PICK s \in StatesOf(request.area) :
        /\ request' = [request EXCEPT !.thread = s.thread]
        /\ threads' = [threads EXCEPT ![s.thread].cancelled = TRUE]
  BY Zenon DEF DelOffsetState
<1>3. request.from \in Clients
  BY <1>1, RequestFacts
<1>4. request \in Requests
  BY <1>1, <1>3, ServedClient
<1>5. s \in states /\ s.offset = request.area
  BY Zenon, <1>2 DEF StatesOf
<1>6. s.thread \in DOMAIN threads /\ threads[s.thread].area = request.area
  BY Zenon, <1>5 DEF Core, Entries
<1>7. request'.thread = s.thread /\ request'.area = request.area
  BY <1>2, <1>4, <1>5 DEF Requests
<1> DEFINE v == [threads[s.thread] EXCEPT !.cancelled = TRUE]
<1>8. v \in Threads /\ v.cancelled /\ v.area = request.area
  BY <1>6, ThreadTypes DEF Core, Threads
<1>9. threads' = [threads EXCEPT ![s.thread] = v]
  BY <1>2
<1> HIDE DEF v
<1>10. threads \in Seq(Threads)
  BY DEF Core, Types
<1>11. /\ DOMAIN threads' = DOMAIN threads /\ threads'[s.thread] = v
       /\ \A t \in DOMAIN threads \ {s.thread} : threads'[t] = threads[t]
  BY Zenon, <1>6, <1>8, <1>9, <1>10, ExceptFacts
<1>12. \A t \in DOMAIN threads : ~(threads[t].cancelled /\ threads[t].mapped)
  BY <1>1 DEF Ending
<1>13. ASSUME NEW t \in DOMAIN threads'
       PROVE  /\ threads'[t].dead => threads'[t].cancelled
              /\ threads'[t].cancelled /\ threads'[t].mapped => t = s.thread
  <2>1. CASE t = s.thread
    BY Zenon, <1>8, <1>11, <2>1
  <2>2. CASE t # s.thread
    BY Zenon, <1>11, <1>12, <2>2 DEF Ending
  <2> QED BY <2>1, <2>2
<1> QED BY Zenon, <1>1, <1>7, <1>8, <1>11, <1>13 DEF Ending

LEMMA EndingDestroy ==
  ASSUME Core, Ending, DestroyTransport
  PROVE  Ending'
<1>1. /\ jpc = "cancelled" /\ jpc' = "serving"
      /\ threads' = [threads EXCEPT ![request.thread].mapped = FALSE]
  BY DEF DestroyTransport
<1>2. request.thread \in DOMAIN threads
  BY <1>1 DEF Core, Dispatchers
<1> DEFINE v == [threads[request.thread] EXCEPT !.mapped = FALSE]
<1>3. /\ v \in Threads /\ ~v.mapped /\ v.cancelled = threads[request.thread].cancelled
      /\ v.dead = threads[request.thread].dead
  BY <1>2, ThreadTypes DEF Core, Threads
<1>4. threads' = [threads EXCEPT ![request.thread] = v]
  BY <1>1
<1> HIDE DEF v
<1>5. threads \in Seq(Threads)
  BY DEF Core, Types
<1>6. /\ DOMAIN threads' = DOMAIN threads /\ threads'[request.thread] = v
      /\ \A t \in DOMAIN threads \ {request.thread} : threads'[t] = threads[t]
  BY Zenon, <1>2, <1>3, <1>4, <1>5, ExceptFacts
<1>7. ASSUME NEW t \in DOMAIN threads'
      PROVE  /\ threads'[t].dead => threads'[t].cancelled
             /\ ~(threads'[t].cancelled /\ threads'[t].mapped)
  <2>1. CASE t = request.thread
    BY Zenon, <1>2, <1>3, <1>6, <2>1 DEF Ending
  <2>2. CASE t # request.thread
    BY Zenon, <1>6, <2>2 DEF Ending
  <2> QED BY <2>1, <2>2
<1> QED BY <1>1, <1>7 DEF Ending

LEMMA EndingThread ==
  ASSUME Core, Ending, NEW t \in DOMAIN threads, ThreadStep(t)
  PROVE  Ending'
<1>1. jpc' = jpc /\ request' = request
  BY DEF ThreadStep, MakePost, MakeCall, Cancelled, janitorVars
<1>2. CASE threads' = threads
  BY Zenon, <1>1, <1>2, EndingSame
<1>3. CASE threads[t].cancelled /\ threads' = [threads EXCEPT ![t].dead = TRUE]
  <2> DEFINE v == [threads[t] EXCEPT !.dead = TRUE]
  <2>1. /\ v \in Threads /\ v.cancelled /\ v.mapped = threads[t].mapped
        /\ v.area = threads[t].area
    BY <1>3, ThreadTypes DEF Core, Threads
  <2>2. threads' = [threads EXCEPT ![t] = v]
    BY <1>3
  <2> HIDE DEF v
  <2>3. threads \in Seq(Threads)
    BY DEF Core, Types
  <2>4. /\ DOMAIN threads' = DOMAIN threads /\ threads'[t] = v
        /\ \A u \in DOMAIN threads \ {t} : threads'[u] = threads[u]
    BY Zenon, <2>1, <2>2, <2>3, ExceptFacts
  <2>5. ASSUME NEW u \in DOMAIN threads
        PROVE  /\ threads'[u].dead => threads'[u].cancelled
               /\ threads'[u].cancelled = threads[u].cancelled \/ u = t
               /\ threads'[u].mapped = threads[u].mapped /\ threads'[u].area = threads[u].area
    <3>1. CASE u = t
      BY Zenon, <2>1, <2>4, <3>1
    <3>2. CASE u # t
      BY Zenon, <2>4, <3>2 DEF Ending
    <3> QED BY <3>1, <3>2
  <2>6. jpc = "cancelled" => request.thread \in DOMAIN threads
    BY DEF Core, Dispatchers
  <2>7. \A u \in DOMAIN threads : threads'[u].cancelled /\ threads'[u].mapped =>
          jpc = "cancelled" /\ request.thread = u
    BY Zenon, <1>3, <2>5 DEF Ending
  <2> QED BY Zenon, <1>1, <2>4, <2>5, <2>6, <2>7 DEF Ending
<1> QED BY <1>2, <1>3 DEF ThreadStep, MakePost, MakeCall, Cancelled

LEMMA EndingStep ==
  ASSUME Core, Ending, [Next]_vars
  PROVE  Ending'
<1>1. CASE UNCHANGED vars \/ Stop
  BY <1>1, EndingSame DEF vars, Stop, janitorVars
<1>2. ASSUME NEW c \in Clients, Start(c) \/ ClientStep(c) \/ PostGl(c) \/ CallGl(c) \/ AuRevoir(c)
      PROVE  Ending'
  <2>1. UNCHANGED <<threads, jpc, request>>
    BY <1>2 DEF Start, ClientStep, PostGl, CallGl, AuRevoir, CreateTransport, CheckState,
                SetState, InitChanels, InitSyncPrimitives, Started, CreateContext, Attach, ContextCreated,
                AttachFails, CallReturned, GlPosted, Free, janitorVars
  <2> QED BY Zenon, <2>1, EndingSame
<1>3. CASE CreateTransport("janitor")
  <2>1. UNCHANGED <<threads, jpc, request>>
    BY <1>3 DEF CreateTransport, CheckState, SetState, InitChanels, InitSyncPrimitives, janitorVars
  <2> QED BY Zenon, <2>1, EndingSame
<1>4. CASE Serving \/ PutOffsetState \/ BonjourFails \/ AuRevoirFails
  <2>1. threads' = threads /\ jpc # "cancelled" /\ jpc' # "cancelled"
    BY <1>4 DEF Serving, PutOffsetState, BonjourFails, AuRevoirFails
  <2> QED BY Zenon, <2>1, EndingSame
<1>5. CASE ReceiveRequest
  <2>1. /\ threads' = threads /\ jpc = "serving" /\ jpc' = request'.kind
        /\ request' = Head(requests) /\ requests # <<>>
    BY <1>5 DEF ReceiveRequest
  <2>2. request' = requests[1] /\ 1 \in 1..Len(requests)
    BY <2>1, TailFacts DEF Core, Types
  <2>3. request' \in Requests
    BY <2>2, RequestFacts
  <2>4. jpc # "cancelled" /\ jpc' # "cancelled"
    BY <2>1, <2>3 DEF Requests, Kinds
  <2> QED BY Zenon, <2>1, <2>4, EndingSame
<1> QED BY Zenon, <1>1, <1>2, <1>3, <1>4, <1>5, EndingDispatch, EndingDel, EndingDestroy,
           EndingThread DEF Next, JanitorStep

LEMMA CallBegins ==
  ASSUME Core, [Next]_vars, NEW c \in Clients, cpc[c] # "calling", cpc'[c] = "calling"
  PROVE  CallGl(c)
<1>1. cpc' # cpc /\ cpc \in [Clients -> ClientPcs]
  BY DEF Core, Types
<1>2. ASSUME NEW d \in Clients, Start(d) \/ ClientStep(d) \/ PostGl(d) \/ CallGl(d) \/ AuRevoir(d)
      PROVE  CallGl(c)
  <2>1. PICK k : cpc' = [cpc EXCEPT ![d] = k] /\ (k = "calling" => CallGl(d))
    BY <1>1, <1>2 DEF Start, ClientStep, PostGl, CallGl, AuRevoir, CreateTransport,
                      CheckState, SetState, InitChanels, InitSyncPrimitives, Started,
                      CreateContext, Attach, ContextCreated, AttachFails, GiveUp,
                      CallReturned, GlPosted, Free
  <2>2. d = c
    BY <1>1, <2>1
  <2> QED BY <1>1, <2>1, <2>2
<1>3. CASE PutOffsetState \/ DestroyTransport \/ AuRevoirFails \/ BonjourFails
  <2>1. \/ cpc' = [cpc EXCEPT ![request.from] = "ready"]
        \/ \E k, l : /\ l # "calling"
                     /\ cpc' = [cpc EXCEPT ![request.from] = IF @ = k THEN l ELSE @]
    <3>1. CASE BonjourFails
      BY Zenon, <3>1 DEF BonjourFails, GiveUp
    <3>2. CASE PutOffsetState
      <4>1. Answer(<<"bonjour", "welcome">>)
        BY Zenon, <3>2 DEF PutOffsetState
      <4> QED BY <4>1 DEF Answer
    <3>3. CASE DestroyTransport
      <4>1. Answer(<<"aurevoir", "gone">>)
        BY Zenon, <3>3 DEF DestroyTransport
      <4> QED BY <4>1 DEF Answer
    <3>4. CASE AuRevoirFails
      <4>1. Answer(<<"aurevoir", "current">>)
        BY Zenon, <3>4 DEF AuRevoirFails
      <4> QED BY <4>1 DEF Answer
    <3> QED BY Zenon, <1>3, <3>1, <3>2, <3>3, <3>4
  <2>2. cpc'[c] = cpc[c] \/ cpc'[c] # "calling"
    BY <1>1, <2>1
  <2> QED BY Zenon, <2>2
<1>4. CASE \/ CreateTransport("janitor") \/ Serving \/ ReceiveRequest \/ DispatchLoop
           \/ DelOffsetState \/ Stop \/ UNCHANGED vars
  BY <1>1, <1>4 DEF CreateTransport, CheckState, SetState, InitChanels, InitSyncPrimitives,
                    Serving, ReceiveRequest, DispatchLoop, DelOffsetState, Stop, vars
<1>5. ASSUME NEW t \in DOMAIN threads, ThreadStep(t) PROVE FALSE
  BY <1>1, <1>5 DEF ThreadStep, MakePost, MakeCall, Cancelled
<1> QED BY Zenon, <1>2, <1>3, <1>4, <1>5 DEF Next, JanitorStep

\* What a client at work in its region finds there.
LEMMA AtWork ==
  ASSUME Core, Prepared, NEW c \in Clients, cpc[c] = "current" \/ InCall(c)
  PROVE  /\ region[c] \in Regions /\ region[c] \in Areas /\ header[region[c]].sync
         /\ glCall \in [Regions -> {"none", "made", "answered"}]
         /\ header \in [Areas -> Headers]
         /\ \A d \in Clients : region[d] = region[c] => d = c
  BY JanitorAssumption DEF Core, Types, Leases, Areas, Prepared, Late, InCall

\* A thread that ends with the mutex ends in a region that its client is
\* releasing; and nobody sets up again what is in use.
LEMMA MutexKept ==
  ASSUME Core, Prepared, Ending, [Next]_vars,
         NEW c \in Clients, cpc[c] = "current" \/ InCall(c), ~header[region[c]].held
  PROVE  ~header'[region[c]].held
<1> DEFINE a == region[c]
<1>1. /\ a \in Regions /\ a \in Areas /\ ~header[a].held /\ header[a].sync
      /\ header \in [Areas -> Headers] /\ \A d \in Clients : region[d] = a => d = c
  BY AtWork
<1>2. cpc[c] # "aurevoir"
  BY DEF InCall
<1> HIDE DEF a
<1> SUFFICES ~header'[a].held
  BY DEF a
<1>3. CASE header' = header
  BY <1>1, <1>3
<1>4. ASSUME NEW p \in Procs, CreateTransport(p) PROVE ~header'[a].held
  <2>1. CASE CheckState(p)
    BY <1>1, <2>1 DEF CheckState
  <2>2. CASE SetState(p)
    BY <1>1, <2>2 DEF SetState, Headers
  <2>3. CASE InitChanels(p)
    BY <1>1, <2>3 DEF InitChanels, Headers
  <2>4. CASE InitSyncPrimitives(p)
    BY <1>1, <2>4 DEF InitSyncPrimitives, Headers
  <2> QED BY <1>4, <2>1, <2>2, <2>3, <2>4 DEF CreateTransport
<1>5. ASSUME NEW t \in DOMAIN threads, Cancelled(t), header' # header PROVE ~header'[a].held
  <2>1. threads[t].cancelled /\ threads[t].mapped
        /\ header' = [header EXCEPT ![threads[t].area].held = TRUE]
    BY <1>5 DEF Cancelled
  <2>2. jpc = "cancelled" /\ threads[t].area = request.area
    BY <2>1 DEF Ending
  <2>3. request.from \in Clients
    BY <2>2, RequestFacts
  <2>4. request.area = region[request.from] /\ cpc[request.from] = "aurevoir"
    BY <2>2, <2>3, ServedClient
  <2>5. threads[t].area # a
    BY <1>1, <1>2, <2>2, <2>3, <2>4
  <2> QED BY <1>1, <2>1, <2>5
<1>6. ASSUME NEW d \in Clients, Start(d) \/ Started(d) \/ CreateContext(d) \/ Attach(d)
                                \/ ContextCreated(d) \/ AttachFails(d) \/ PostGl(d)
                                \/ GlPosted(d) \/ CallGl(d) \/ CallReturned(d)
                                \/ AuRevoir(d) \/ Free(d)
      PROVE  header' = header
  BY <1>6 DEF Start, Started, CreateContext, Attach, ContextCreated, AttachFails, PostGl,
              GlPosted, CallGl, CallReturned, AuRevoir, Free
<1>7. ASSUME NEW t \in DOMAIN threads, MakePost(t) \/ MakeCall(t) PROVE header' = header
  BY <1>7 DEF MakePost, MakeCall
<1>8. CASE Serving \/ ReceiveRequest \/ DispatchLoop \/ PutOffsetState \/ BonjourFails
           \/ DelOffsetState \/ DestroyTransport \/ AuRevoirFails \/ Stop \/ UNCHANGED vars
  BY <1>3, <1>8 DEF Serving, ReceiveRequest, DispatchLoop, PutOffsetState, BonjourFails,
                    DelOffsetState, DestroyTransport, AuRevoirFails, Stop, vars
<1> QED BY Zenon, <1>3, <1>4, <1>5, <1>6, <1>7, <1>8
        DEF Next, ClientStep, JanitorStep, ThreadStep, Procs

\* Nobody drops a call from a region that is its client's.
LEMMA CallKept ==
  ASSUME Core, Prepared, Answerable, [Next]_vars,
         NEW c \in Clients, cpc[c] = "calling", ~CallReturned(c)
  PROVE  glCall'[region[c]] # "none"
<1> DEFINE a == region[c]
<1>1. /\ a \in Regions /\ a \in Areas /\ glCall[a] # "none" /\ header[a].sync
      /\ glCall \in [Regions -> {"none", "made", "answered"}]
      /\ \A d \in Clients : region[d] = a => d = c
  BY AtWork DEF Answerable, InCall
<1> HIDE DEF a
<1> SUFFICES glCall'[a] # "none"
  BY DEF a
<1>2. CASE glCall' = glCall
  BY <1>1, <1>2
<1>3. ASSUME NEW p \in Procs, CreateTransport(p) PROVE glCall'[a] # "none"
  <2>1. CASE InitChanels(p)
    <3>1. making[p].area # a
      BY <1>1, <2>1 DEF InitChanels, Prepared
    <3> QED BY <1>1, <2>1, <3>1 DEF InitChanels
  <2>2. CASE CheckState(p) \/ SetState(p) \/ InitSyncPrimitives(p)
    BY <1>1, <2>2 DEF CheckState, SetState, InitSyncPrimitives
  <2> QED BY <1>3, <2>1, <2>2 DEF CreateTransport
<1>4. ASSUME NEW d \in Clients, CallGl(d) PROVE glCall'[a] # "none"
  BY <1>1, <1>4 DEF CallGl
<1>5. ASSUME NEW d \in Clients, CallReturned(d) PROVE glCall'[a] # "none"
  <2>1. region[d] # a
    BY <1>1, <1>5
  <2> QED BY <1>1, <1>5, <2>1 DEF CallReturned
<1>6. ASSUME NEW t \in DOMAIN threads, ThreadStep(t) PROVE glCall'[a] # "none"
  BY <1>1, <1>6 DEF ThreadStep, MakePost, MakeCall, Cancelled
<1>7. ASSUME NEW d \in Clients, Start(d) \/ Started(d) \/ CreateContext(d) \/ Attach(d)
                                \/ ContextCreated(d) \/ AttachFails(d) \/ PostGl(d)
                                \/ GlPosted(d) \/ AuRevoir(d) \/ Free(d)
      PROVE  glCall' = glCall
  BY <1>7 DEF Start, Started, CreateContext, Attach, ContextCreated, AttachFails, PostGl,
              GlPosted, AuRevoir, Free
<1>8. CASE Serving \/ ReceiveRequest \/ DispatchLoop \/ PutOffsetState \/ BonjourFails
           \/ DelOffsetState \/ DestroyTransport \/ AuRevoirFails \/ Stop \/ UNCHANGED vars
  BY <1>2, <1>8 DEF Serving, ReceiveRequest, DispatchLoop, PutOffsetState, BonjourFails,
                    DelOffsetState, DestroyTransport, AuRevoirFails, Stop, vars
<1> QED BY Zenon, <1>2, <1>3, <1>4, <1>5, <1>6, <1>7, <1>8
        DEF Next, ClientStep, JanitorStep, Procs

LEMMA AnswerableStep ==
  ASSUME Core, Prepared, Answerable, [Next]_vars
  PROVE  Answerable'
<1> SUFFICES ASSUME NEW c \in Clients, cpc'[c] = "calling" PROVE glCall'[region'[c]] # "none"
  BY Zenon DEF Answerable
<1>1. CASE cpc[c] = "calling"
  <2>1. ~CallReturned(c)
    BY DEF CallReturned, Core, Types
  <2> QED BY Zenon, <1>1, <2>1, CallingStays, CallKept
<1>2. CASE cpc[c] # "calling"
  <2>1. CallGl(c)
    BY Zenon, <1>2, CallBegins
  <2>2. region[c] \in Regions
    BY <2>1 DEF CallGl, Core, Types, Leases, Areas
  <2> QED BY <2>1, <2>2 DEF CallGl, Core, Types
<1> QED BY <1>1, <1>2

\* Threads die in their regions, with the mutex, and stay dead.
LEMMA BlockedStep ==
  ASSUME Core, Blocked, [Next]_vars
  PROVE  Blocked'
<1>1. /\ header \in [Areas -> Headers] /\ threads \in Seq(Threads)
      /\ \A t \in DOMAIN threads : threads[t].area \in Areas
  BY ThreadTypes DEF Core, Types, Threads, Areas
<1>2. ASSUME \A a \in Areas : header'[a].held => header[a].held \/ DiedIn(a)',
             DOMAIN threads \subseteq DOMAIN threads',
             \A t \in DOMAIN threads : /\ threads'[t].area = threads[t].area
                                       /\ threads[t].dead => threads'[t].dead
      PROVE  Blocked'
  BY <1>2 DEF Blocked, DiedIn
<1>3. ASSUME NEW p \in Procs, CreateTransport(p) PROVE Blocked'
  <2>1. threads' = threads
    BY <1>3 DEF CreateTransport, CheckState, SetState, InitChanels, InitSyncPrimitives
  <2>2. \A a \in Areas : header'[a].held => header[a].held
    <3>1. CASE CheckState(p)
      BY <3>1 DEF CheckState
    <3>2. CASE SetState(p) \/ InitChanels(p) \/ InitSyncPrimitives(p)
      <4>1. making[p].area \in Areas
        BY DEF Core, Types
      <4>2. CASE SetState(p)
        BY <1>1, <4>1, <4>2 DEF SetState, Headers
      <4>3. CASE InitChanels(p)
        BY <1>1, <4>1, <4>3 DEF InitChanels, Headers
      <4>4. CASE InitSyncPrimitives(p)
        BY <1>1, <4>1, <4>4 DEF InitSyncPrimitives, Headers
      <4> QED BY <3>2, <4>2, <4>3, <4>4
    <3> QED BY <1>3, <3>1, <3>2 DEF CreateTransport
  <2> QED BY Zenon, <1>2, <2>1, <2>2
<1>4. ASSUME NEW t \in DOMAIN threads, Cancelled(t) PROVE Blocked'
  <2>1. CASE threads' = threads /\ header' = header
    BY Zenon, <1>2, <2>1
  <2>2. CASE /\ threads' = [threads EXCEPT ![t].dead = TRUE]
             /\ header' = [header EXCEPT ![threads[t].area].held = TRUE]
    <3>1. /\ DOMAIN threads' = DOMAIN threads /\ threads'[t].dead
          /\ \A u \in DOMAIN threads : /\ threads'[u].area = threads[u].area
                                       /\ threads[u].dead => threads'[u].dead
      BY <1>1, <2>2, ThreadTypes DEF Core, Threads
    <3>2. \A a \in Areas : header'[a].held => header[a].held \/ a = threads[t].area
      BY <1>1, <2>2 DEF Headers
    <3>3. DiedIn(threads[t].area)'
      BY <3>1 DEF DiedIn
    <3> QED BY <1>2, <3>1, <3>2, <3>3
  <2> QED BY <1>4, <2>1, <2>2 DEF Cancelled
<1>5. ASSUME header' = header, threads' = threads PROVE Blocked'
  BY Zenon, <1>2, <1>5
<1>6. ASSUME NEW c \in Clients, Start(c) \/ Started(c) \/ CreateContext(c) \/ Attach(c)
                                \/ ContextCreated(c) \/ AttachFails(c) \/ PostGl(c)
                                \/ GlPosted(c) \/ CallGl(c) \/ CallReturned(c)
                                \/ AuRevoir(c) \/ Free(c)
      PROVE  Blocked'
  BY <1>5, <1>6 DEF Start, Started, CreateContext, Attach, ContextCreated, AttachFails, PostGl,
                    GlPosted, CallGl, CallReturned, AuRevoir, Free, janitorVars
<1>7. ASSUME NEW t \in DOMAIN threads, MakePost(t) \/ MakeCall(t) PROVE Blocked'
  BY <1>5, <1>7 DEF MakePost, MakeCall
<1>8. CASE Serving \/ ReceiveRequest \/ PutOffsetState \/ BonjourFails \/ AuRevoirFails
           \/ Stop \/ UNCHANGED vars
  BY <1>5, <1>8 DEF Serving, ReceiveRequest, PutOffsetState, BonjourFails, AuRevoirFails,
                    Stop, vars
<1>9. CASE DispatchLoop
  <2>1. request.area \in Regions /\ header' = header
    BY <1>9, RequestFacts DEF DispatchLoop
  <2> DEFINE new == [area |-> request.area, mapped |-> TRUE, cancelled |-> FALSE, dead |-> FALSE]
  <2>2. new \in Threads /\ threads' = Append(threads, new)
    BY <1>9, <2>1 DEF DispatchLoop, Threads
  <2> HIDE DEF new
  <2>3. /\ DOMAIN threads \subseteq DOMAIN threads'
        /\ \A t \in DOMAIN threads : threads'[t] = threads[t]
    BY <1>1, <2>2, AppendFacts
  <2> QED BY Zenon, <1>2, <2>1, <2>3
<1>10. CASE DelOffsetState \/ DestroyTransport
  <2>1. header' = header
    BY <1>10 DEF DelOffsetState, DestroyTransport
  <2>2. PICK t : \/ threads' = [threads EXCEPT ![t].cancelled = TRUE]
                 \/ threads' = [threads EXCEPT ![t].mapped = FALSE]
    BY Zenon, <1>10 DEF DelOffsetState, DestroyTransport
  <2>3. /\ DOMAIN threads' = DOMAIN threads
        /\ \A u \in DOMAIN threads : /\ threads'[u].area = threads[u].area
                                     /\ threads'[u].dead = threads[u].dead
    BY <1>1, <2>2, ThreadTypes DEF Core, Threads
  <2> QED BY Zenon, <1>2, <2>1, <2>3
<1> QED BY Zenon, <1>3, <1>4, <1>6, <1>7, <1>8, <1>9, <1>10
        DEF Next, ClientStep, JanitorStep, ThreadStep, Procs

LEMMA Unforgotten ==
  ASSUME Whole, Awaited, Answerable, Ending, Blocked
  PROVE  NobodyForgotten
<1> SUFFICES ASSUME ~crashed, NEW c \in Clients
             PROVE  /\ cpc[c] \in Kinds => Outstanding(c) /\ JanitorMoves
                    /\ InCall(c) =>
                         \/ header[region[c]].held /\ \E t \in DOMAIN threads :
                              threads[t].area = region[c] /\ threads[t].cancelled /\ threads[t].dead
                         \/ cpc[c] = "posting" /\ ~header[region[c]].held
                         \/ glCall[region[c]] = "answered"
                         \/ \E t \in DOMAIN threads : threads[t].area = region[c] /\ Makes(t)
  BY Zenon DEF NobodyForgotten
<1>1. ASSUME cpc[c] \in Kinds PROVE Outstanding(c) /\ JanitorMoves
  <2>1. Outstanding(c)
    BY Zenon, <1>1 DEF Awaited
  <2>2. CASE jpc = "serving"
    <3>1. RequestOf(c)
      BY <2>1, <2>2 DEF Outstanding, Serves
    <3>2. requests # <<>>
      BY <3>1 DEF RequestOf
    <3> QED BY <2>1, <2>2, <3>2 DEF JanitorMoves
  <2>3. CASE jpc = "aurevoir"
    <3>1. /\ request.from \in Clients /\ request.area = region[request.from]
          /\ cpc[request.from] = "aurevoir"
      BY <2>3, RequestFacts, ServedClient DEF Whole
    <3>2. Entered(request.from)
      BY <2>3, <3>1 DEF Entered
    <3>3. StatesOf(request.area) # {}
      BY <3>1, <3>2 DEF Whole, Core, Entries
    <3> QED BY <2>1, <2>3, <3>3 DEF JanitorMoves
  <2> QED BY <2>1, <2>2, <2>3 DEF JanitorMoves, Whole, Core, Types, JanitorPcs
<1>2. ASSUME cpc[c] = "calling", glCall[region[c]] # "answered", ~header[region[c]].held
      PROVE  \E t \in DOMAIN threads : threads[t].area = region[c] /\ Makes(t)
  <2>1. glCall[region[c]] # "none" /\ Entered(c)
    BY <1>2 DEF Answerable, Entered
  <2>2. PICK s \in states : s.offset = region[c]
    BY <2>1 DEF Whole, Core, Entries, StatesOf
  <2>3. s.thread \in DOMAIN threads /\ ~threads[s.thread].cancelled
        /\ threads[s.thread].area = region[c]
    BY <2>2 DEF Whole, Core, Entries
  <2>4. ~threads[s.thread].dead
    BY <2>3 DEF Ending
  <2>5. region[c] \in Regions
    BY <1>2 DEF Whole, Core, Types, Leases, Areas
  <2>6. glCall[region[c]] = "made"
    BY <1>2, <2>1, <2>5 DEF Whole, Core, Types
  <2>7. Makes(s.thread)
    BY Zenon, <1>2, <2>3, <2>4, <2>6 DEF Makes
  <2> QED BY Zenon, <2>3, <2>7
<1>3. ASSUME header[region[c]].held
      PROVE  \E t \in DOMAIN threads :
               threads[t].area = region[c] /\ threads[t].cancelled /\ threads[t].dead
  <2>1. region[c] \in Areas
    BY DEF Whole, Core, Types
  <2> QED BY Zenon, <1>3, <2>1 DEF Blocked, DiedIn, Ending
<1> QED BY Zenon, <1>1, <1>2, <1>3 DEF InCall

\* If clients start after the janitor: as long as it lives, a client that waits
\* for gvBonjour or gvAuRevoir has its request in the service's transport or is
\* being served, and the janitor can take its next step; a client in writeFunc
\* or waiting for a result can go on, has its answer, or has a thread that can
\* make its call or the command queued before it, unless a cancelled thread has
\* died in the region with notEmptyAccess.  None does so while a client is at work.
THEOREM JanitorForgetsNobody ==
  ASSUME ServiceFirst
  PROVE  Spec => []NobodyForgotten /\ [][KeepsMutex]_vars
<1> DEFINE I == Awaited /\ Answerable /\ Ending /\ Blocked
<1>1. Init => I
  BY InitAwaited
<1>2. Whole /\ I /\ [Next]_vars => I'
  BY AwaitedStep, AnswerableStep, EndingStep, BlockedStep DEF Whole
<1>3. Whole /\ I => NobodyForgotten
  BY Unforgotten
<1>4. Whole /\ I /\ [Next]_vars => [KeepsMutex]_vars
  <2> SUFFICES ASSUME Whole, I, [Next]_vars PROVE KeepsMutex
    OBVIOUS
  <2> QED BY Zenon, MutexKept DEF KeepsMutex, Whole
<1>5. Spec => []Whole
  BY WholeInvariance
<1> QED BY <1>1, <1>2, <1>3, <1>4, <1>5, PTL DEF Spec

-----------------------------------------------------------------------------
(* The service that clients see.                                           *)

\* A region is served if its client is entered, or its thread just started.
LEMMA ServedFacts ==
  ASSUME Core, NEW c \in Clients, region[c] # "service"
  PROVE  region[c] \in Served <=> Entered(c) \/ Dispatched(c)
<1> USE DEF Core
<1>1. ASSUME region[c] \in Served PROVE Entered(c) \/ Dispatched(c)
  <2>1. PICK t \in DOMAIN threads : threads[t].area = region[c] /\ ~threads[t].cancelled
    BY <1>1 DEF Served
  <2>2. threads[t].area \notin lost
    BY <2>1 DEF Leases
  <2>3. PICK d \in Clients : region[d] = threads[t].area /\ (Entered(d) \/ Dispatched(d))
    BY <2>1, <2>2 DEF Dispatchers
  <2>4. d = c
    BY <2>1, <2>3 DEF Leases
  <2> QED BY <2>3, <2>4
<1>2. ASSUME Entered(c) PROVE region[c] \in Served
  <2>1. PICK s \in states : s.offset = region[c]
    BY <1>2 DEF Entries, StatesOf
  <2>2. s.thread \in DOMAIN threads /\ ~threads[s.thread].cancelled /\ threads[s.thread].area = region[c]
    BY <2>1 DEF Entries
  <2> QED BY <2>2 DEF Served
<1>3. ASSUME Dispatched(c) PROVE region[c] \in Served
  <2>1. jpc = "dispatched" /\ request.from = c
    BY <1>3 DEF Dispatched
  <2>2. request.area = region[c]
    BY <2>1, ServedClient
  <2>3. Len(threads) \in DOMAIN threads
    BY <2>1 DEF Dispatchers, Types
  <2> QED BY <2>1, <2>2, <2>3 DEF Dispatchers, Served
<1> QED BY <1>1, <1>2, <1>3

\* Threads that stay as they are, as far as anybody is served.
LEMMA ServedSame ==
  ASSUME DOMAIN threads' = DOMAIN threads,
         \A t \in DOMAIN threads : /\ threads'[t].area = threads[t].area
                                   /\ threads'[t].cancelled = threads[t].cancelled
  PROVE  Served' = Served
<1>1. \A a : a \in Served <=> \E t \in DOMAIN threads : threads[t].area = a /\ ~threads[t].cancelled
  BY DEF Served
<1>2. \A a : a \in Served' <=> \E t \in DOMAIN threads' : threads'[t].area = a /\ ~threads'[t].cancelled
  BY DEF Served
<1>3. \A a : a \in Served' <=> a \in Served
  BY <1>1, <1>2
<1> QED BY <1>3, SMT

LEMMA AnsweredSame == glCall' = glCall => Answered' = Answered
  BY DEF Answered

\* One client takes a step of the service, or none that anybody sees.
LEMMA PhaseStep ==
  ASSUME Core, NEW c \in Clients, NEW p \in ClientPcs,
         cpc'[c] = p, \A d \in Clients \ {c} : cpc'[d] = cpc[d]
  PROVE  /\ Phases[c] = Phase(c)
         /\ Phases' = [Phases EXCEPT ![c] = Phase(c)']
<1>1. \A d \in Clients \ {c} : Phase(d)' = Phase(d)
  BY DEF Phase
<1> QED BY <1>1 DEF Phases

LEMMA PhaseFacts ==
  ASSUME NEW c \in Clients
  PROVE  /\ cpc[c] \in {"off", "starting", "ready"} => Phase(c) = "out"
         /\ cpc[c] \in {"bonjour", "welcome", "attaching"} => Phase(c) = "asked"
         /\ cpc[c] \in {"current", "posting"} => Phase(c) = "in"
         /\ cpc[c] = "calling" => Phase(c) = "calling"
         /\ cpc[c] \in {"aurevoir", "gone"} => Phase(c) = "leaving"
  BY DEF Phase

LEMMA PhaseFactsNext ==
  ASSUME NEW c \in Clients
  PROVE  /\ cpc'[c] \in {"off", "starting", "ready"} => Phase(c)' = "out"
         /\ cpc'[c] \in {"bonjour", "welcome", "attaching"} => Phase(c)' = "asked"
         /\ cpc'[c] \in {"current", "posting"} => Phase(c)' = "in"
         /\ cpc'[c] = "calling" => Phase(c)' = "calling"
         /\ cpc'[c] \in {"aurevoir", "gone"} => Phase(c)' = "leaving"
  BY DEF Phase

LEMMA ContractInit == Init => Contract!Init
<1> SUFFICES ASSUME Init PROVE Contract!Init
  OBVIOUS
<1>1. Phases = [c \in Clients |-> "out"]
  BY DEF Init, Phases, Phase
<1>2. Served = {} /\ Answered = {}
  BY DEF Init, Served, Answered
<1> QED BY <1>1, <1>2 DEF Init, Contract!Init

\* The janitor and its clients at work, unseen.
LEMMA ContractQuiet ==
  ASSUME Phases' = Phases, Served' = Served, Answered' = Answered, UNCHANGED <<region, lost>>
  PROVE  UNCHANGED Contract!vars
  BY DEF Contract!vars

\* A transport that is set up has nobody's results in it.
LEMMA ContractTransport ==
  ASSUME Whole, NEW p \in Procs, CreateTransport(p)
  PROVE  UNCHANGED Contract!vars
<1>1. UNCHANGED <<cpc, region, lost, threads>>
  BY DEF CreateTransport, CheckState, SetState, InitChanels, InitSyncPrimitives
<1>2. Phases' = Phases /\ Served' = Served
  BY <1>1 DEF Phases, Phase, Served
<1>3. Answered' = Answered
  <2>1. CASE glCall' = glCall
    BY <2>1, AnsweredSame
  <2>2. CASE InitChanels(p)
    <3>1. p = "janitor" /\ ~header[making[p].area].sync
      BY <2>2 DEF InitChanels, Whole, Prepared
    <3>2. glCall' = [a \in Regions |-> IF a = making[p].area THEN "none" ELSE glCall[a]]
      BY <2>2 DEF InitChanels
    <3>3. ASSUME NEW a \in Regions, a = making[p].area, glCall[a] # "none" PROVE FALSE
      <4>1. PICK c \in Clients : cpc[c] = "calling" /\ region[c] = a
        BY <3>3 DEF Whole, Calls
      <4>2. header[a].sync
        BY <4>1, ServingFacts DEF Whole, Late
      <4> QED BY <3>1, <3>3, <4>2
    <3>4. \A a \in Regions : glCall'[a] = "answered" <=> glCall[a] = "answered"
      BY <3>2, <3>3
    <3> QED BY <3>4 DEF Answered
  <2> QED BY <2>1, <2>2 DEF CreateTransport, CheckState, SetState, InitSyncPrimitives
<1> QED BY Zenon, <1>1, <1>2, <1>3, ContractQuiet

\* Steps of a client that change nothing but where it is.
LEMMA ContractMoves ==
  ASSUME Core, NEW c \in Clients,
         Start(c) \/ Started(c) \/ Attach(c) \/ PostGl(c) \/ GlPosted(c)
  PROVE  UNCHANGED Contract!vars
<1>1. /\ UNCHANGED <<region, lost, threads, glCall>>
      /\ \A d \in Clients \ {c} : cpc'[d] = cpc[d]
      /\ \/ cpc[c] \in {"off", "starting", "ready"} /\ cpc'[c] \in {"off", "starting", "ready"}
         \/ /\ cpc[c] \in {"bonjour", "welcome", "attaching"}
            /\ cpc'[c] \in {"bonjour", "welcome", "attaching"}
         \/ cpc[c] \in {"current", "posting"} /\ cpc'[c] \in {"current", "posting"}
  BY DEF Start, Started, Attach, PostGl, GlPosted, Core, Types
<1>2. \A d \in Clients : Phase(d)' = Phase(d)
  <2>1. \A d \in Clients \ {c} : Phase(d)' = Phase(d)
    BY <1>1 DEF Phase
  <2>2. Phase(c)' = Phase(c)
    BY <1>1, PhaseFacts, PhaseFactsNext
  <2> QED BY <2>1, <2>2
<1>3. Phases' = Phases
  BY <1>2 DEF Phases
<1>4. Served' = Served
  BY <1>1, ServedSame
<1> QED BY <1>1, <1>3, <1>4, AnsweredSame, ContractQuiet

LEMMA ContractAsk ==
  ASSUME Core, NEW c \in Clients, CreateContext(c)
  PROVE  Contract!Ask(c)
<1>1. /\ cpc[c] = "ready" /\ cpc' = [cpc EXCEPT ![c] = "bonjour"]
      /\ \E a \in Regions \ (lost \cup {region[d] : d \in Clients}) :
           region' = [region EXCEPT ![c] = a]
      /\ UNCHANGED <<lost, threads, glCall, posted>>
  BY DEF CreateContext
<1>2. cpc'[c] = "bonjour" /\ \A d \in Clients \ {c} : cpc'[d] = cpc[d]
  BY <1>1 DEF Core, Types
<1>3. Phases[c] = "out" /\ Phases' = [Phases EXCEPT ![c] = "asked"]
  BY <1>1, <1>2, PhaseStep, PhaseFacts, PhaseFactsNext DEF ClientPcs
<1>4. Served' = Served /\ Answered' = Answered
  BY <1>1, ServedSame, AnsweredSame
<1> QED BY <1>1, <1>3, <1>4 DEF Contract!Ask, Contract!Becomes

LEMMA ContractWelcome ==
  ASSUME Core, NEW c \in Clients, ContextCreated(c)
  PROVE  Contract!Welcome(c)
<1>1. /\ cpc[c] = "attaching" /\ cpc' = [cpc EXCEPT ![c] = "current"]
      /\ UNCHANGED <<region, lost, threads, glCall, posted>>
  BY DEF ContextCreated
<1>2. cpc'[c] = "current" /\ \A d \in Clients \ {c} : cpc'[d] = cpc[d]
  BY <1>1 DEF Core, Types
<1>3. Phases[c] = "asked" /\ Phases' = [Phases EXCEPT ![c] = "in"]
  BY <1>1, <1>2, PhaseStep, PhaseFacts, PhaseFactsNext DEF ClientPcs
<1>4. Served' = Served /\ Answered' = Answered
  BY <1>1, ServedSame, AnsweredSame
<1>5. region[c] \in Served
  BY <1>1, ServedFacts DEF Entered, Core, Leases
<1> QED BY <1>1, <1>3, <1>4, <1>5 DEF Contract!Welcome, Contract!Becomes

\* createContext fails, before or after the janitor has answered.
LEMMA ContractRefuse ==
  ASSUME Core, NEW c \in Clients, cpc[c] \in {"bonjour", "attaching"}, GiveUp(c), Faults # {},
         UNCHANGED <<threads, glCall, posted>>
  PROVE  Contract!Refuse(c)
<1>1. /\ cpc'[c] = "ready" /\ \A d \in Clients \ {c} : cpc'[d] = cpc[d]
      /\ region' = [region EXCEPT ![c] = "service"] /\ lost' = lost \cup {region[c]}
  BY DEF GiveUp, Core, Types
<1>2. Phases[c] = "asked" /\ Phases' = [Phases EXCEPT ![c] = "out"]
  BY <1>1, PhaseStep, PhaseFacts, PhaseFactsNext DEF ClientPcs
<1>3. Served' = Served /\ Answered' = Answered
  BY ServedSame, AnsweredSame
<1> QED BY <1>1, <1>2, <1>3 DEF Contract!Refuse, Contract!Becomes

LEMMA ContractCall ==
  ASSUME Core, Calls, NEW c \in Clients, CallGl(c)
  PROVE  Contract!Call(c)
<1>1. /\ cpc[c] = "current" /\ cpc' = [cpc EXCEPT ![c] = "calling"]
      /\ glCall' = [glCall EXCEPT ![region[c]] = "made"]
      /\ UNCHANGED <<region, lost, threads>>
  BY DEF CallGl
<1>2. cpc'[c] = "calling" /\ \A d \in Clients \ {c} : cpc'[d] = cpc[d]
  BY <1>1 DEF Core, Types
<1>3. Phases[c] = "in" /\ Phases' = [Phases EXCEPT ![c] = "calling"]
  BY <1>1, <1>2, PhaseStep, PhaseFacts, PhaseFactsNext DEF ClientPcs
<1>4. region[c] \in Regions /\ region[c] # "service"
  BY <1>1 DEF Core, Types, Leases, Areas
<1>5. glCall[region[c]] = "none"
  BY <1>1, <1>4 DEF Calls, Core, Leases
<1>6. \A a \in Regions : glCall'[a] = "answered" <=> glCall[a] = "answered"
  BY <1>1, <1>4, <1>5 DEF Core, Types
<1>7. Served' = Served
  BY <1>1, ServedSame
<1>8. Answered' = Answered
  BY <1>6 DEF Answered
<1>9. region[c] \in Served
  BY <1>1, <1>4, ServedFacts DEF Entered
<1> QED BY <1>1, <1>3, <1>7, <1>8, <1>9 DEF Contract!Call, Contract!Becomes

LEMMA ContractReturn ==
  ASSUME Core, NEW c \in Clients, CallReturned(c)
  PROVE  Contract!Return(c)
<1>1. /\ cpc[c] = "calling" /\ cpc' = [cpc EXCEPT ![c] = "current"]
      /\ glCall[region[c]] = "answered" /\ glCall' = [glCall EXCEPT ![region[c]] = "none"]
      /\ UNCHANGED <<region, lost, threads>>
  BY DEF CallReturned
<1>2. cpc'[c] = "current" /\ \A d \in Clients \ {c} : cpc'[d] = cpc[d]
  BY <1>1 DEF Core, Types
<1>3. Phases[c] = "calling" /\ Phases' = [Phases EXCEPT ![c] = "in"]
  BY <1>1, <1>2, PhaseStep, PhaseFacts, PhaseFactsNext DEF ClientPcs
<1>4. region[c] \in Regions
  <2>1. region[c] \in Areas /\ region[c] # "service"
    BY <1>1 DEF Core, Types, Leases
  <2> QED BY <2>1 DEF Areas
<1>5. \A a \in Regions : glCall'[a] = "answered" <=> glCall[a] = "answered" /\ a # region[c]
  BY <1>1, <1>4 DEF Core, Types
<1>6. Answered' = Answered \ {region[c]} /\ region[c] \in Answered
  BY <1>1, <1>4, <1>5 DEF Answered
<1>7. Served' = Served
  BY <1>1, ServedSame
<1> QED BY <1>1, <1>3, <1>6, <1>7 DEF Contract!Return, Contract!Becomes

LEMMA ContractLeave ==
  ASSUME Core, NEW c \in Clients, AuRevoir(c)
  PROVE  Contract!Leave(c)
<1>1. /\ cpc[c] = "current" /\ cpc' = [cpc EXCEPT ![c] = "aurevoir"]
      /\ UNCHANGED <<region, lost, threads, glCall, posted>>
  BY DEF AuRevoir
<1>2. cpc'[c] = "aurevoir" /\ \A d \in Clients \ {c} : cpc'[d] = cpc[d]
  BY <1>1 DEF Core, Types
<1>3. Phases[c] = "in" /\ Phases' = [Phases EXCEPT ![c] = "leaving"]
  BY <1>1, <1>2, PhaseStep, PhaseFacts, PhaseFactsNext DEF ClientPcs
<1>4. Served' = Served /\ Answered' = Answered
  BY <1>1, ServedSame, AnsweredSame
<1> QED BY <1>1, <1>3, <1>4 DEF Contract!Leave, Contract!Becomes

\* gvFree gives back only what nobody serves any more.
LEMMA ContractRelease ==
  ASSUME Core, NEW c \in Clients, Free(c)
  PROVE  Contract!Release(c)
<1>1. /\ cpc[c] = "gone" /\ cpc' = [cpc EXCEPT ![c] = "ready"]
      /\ region' = [region EXCEPT ![c] = "service"]
      /\ UNCHANGED <<lost, threads, glCall, posted>>
  BY DEF Free, janitorVars
<1>2. cpc'[c] = "ready" /\ \A d \in Clients \ {c} : cpc'[d] = cpc[d]
  BY <1>1 DEF Core, Types
<1>3. Phases[c] = "leaving" /\ Phases' = [Phases EXCEPT ![c] = "out"]
  BY <1>1, <1>2, PhaseStep, PhaseFacts, PhaseFactsNext DEF ClientPcs
<1>4. Served' = Served /\ Answered' = Answered
  BY <1>1, ServedSame, AnsweredSame
<1>5. region[c] \notin Served
  BY <1>1, ServedFacts DEF Entered, Dispatched, Core, Leases
<1> QED BY <1>1, <1>3, <1>4, <1>5 DEF Contract!Release, Contract!Becomes

LEMMA ContractServe ==
  ASSUME Core, DispatchLoop
  PROVE  \E c \in Clients : Contract!Serve(c)
<1> DEFINE new == [area |-> request.area, mapped |-> TRUE, cancelled |-> FALSE, dead |-> FALSE]
<1>1. /\ jpc = "bonjour" /\ threads' = Append(threads, new)
      /\ UNCHANGED <<cpc, region, lost, glCall, posted>>
  BY DEF DispatchLoop
<1>2. PICK c \in Clients : c = request.from
  BY <1>1, RequestFacts
<1>3. request.area = region[c] /\ region[c] \in Regions /\ cpc[c] = "bonjour"
  BY <1>1, <1>2, ServedClient
<1>4. new \in Threads /\ new.area = region[c] /\ ~new.cancelled
  BY <1>3 DEF Threads
<1> HIDE DEF new
<1>5. /\ Len(threads) \in Nat /\ DOMAIN threads = 1..Len(threads)
      /\ DOMAIN threads' = 1..(Len(threads) + 1)
      /\ \A t \in 1..Len(threads) : threads'[t] = threads[t]
      /\ threads'[Len(threads) + 1] = new
  BY <1>1, <1>4, AppendFacts DEF Core, Types
<1>6. Served' = Served \cup {region[c]}
  <2>1. \A a : a \in Served <=> \E t \in DOMAIN threads : threads[t].area = a /\ ~threads[t].cancelled
    BY DEF Served
  <2>2. \A a : a \in Served' <=> \E t \in DOMAIN threads' : threads'[t].area = a /\ ~threads'[t].cancelled
    BY DEF Served
  <2>3. ASSUME NEW a, a \in Served' PROVE a \in Served \/ a = region[c]
    <3>1. PICK t \in DOMAIN threads' : threads'[t].area = a /\ ~threads'[t].cancelled
      BY <2>2, <2>3
    <3>2. CASE t = Len(threads) + 1
      BY <1>4, <1>5, <3>1, <3>2
    <3>3. CASE t # Len(threads) + 1
      <4>1. t \in DOMAIN threads /\ threads'[t] = threads[t]
        BY <1>5, <3>3
      <4> QED BY <2>1, <3>1, <4>1
    <3> QED BY <3>2, <3>3
  <2>4. ASSUME NEW a, a \in Served PROVE a \in Served'
    BY <1>5, <2>1, <2>2, <2>4
  <2>5. region[c] \in Served'
    BY <1>4, <1>5, <2>2
  <2> QED BY <2>3, <2>4, <2>5
<1>7. Phases[c] = "asked" /\ Phases' = Phases
  BY <1>1, <1>3 DEF Phases, Phase
<1>8. Answered' = Answered
  BY <1>1, AnsweredSame
<1> QED BY <1>1, <1>6, <1>7, <1>8 DEF Contract!Serve

LEMMA ContractDismiss ==
  ASSUME Core, DelOffsetState
  PROVE  \E c \in Clients : Contract!Dismiss(c)
<1>1. jpc = "aurevoir" /\ UNCHANGED <<cpc, region, lost, glCall, posted>>
  BY DEF DelOffsetState
<1>2. PICK s \in StatesOf(request.area) : threads' = [threads EXCEPT ![s.thread].cancelled = TRUE]
  BY DEF DelOffsetState
<1>3. PICK c \in Clients : c = request.from
  BY <1>1, RequestFacts
<1>4. request.area = region[c] /\ cpc[c] = "aurevoir"
  BY <1>1, <1>3, ServedClient
<1>5. /\ s.thread \in DOMAIN threads /\ ~threads[s.thread].cancelled
      /\ threads[s.thread].area = region[c]
  BY <1>2, <1>4 DEF StatesOf, Core, Entries
<1>6. /\ DOMAIN threads' = DOMAIN threads /\ threads'[s.thread].cancelled
      /\ \A t \in DOMAIN threads \ {s.thread} : threads'[t] = threads[t]
  BY <1>2, <1>5, ThreadTypes DEF Core, Types, Threads
<1>7. Served' = Served \ {region[c]}
  <2>1. \A a : a \in Served <=> \E t \in DOMAIN threads : threads[t].area = a /\ ~threads[t].cancelled
    BY DEF Served
  <2>2. \A a : a \in Served' <=> \E t \in DOMAIN threads' : threads'[t].area = a /\ ~threads'[t].cancelled
    BY DEF Served
  <2>3. ASSUME NEW a, a \in Served' PROVE a \in Served /\ a # region[c]
    <3>1. PICK t \in DOMAIN threads : threads'[t].area = a /\ ~threads'[t].cancelled
      BY <1>6, <2>2, <2>3
    <3>2. t # s.thread /\ threads'[t] = threads[t]
      BY <1>6, <3>1
    <3>3. threads[t].area # region[c]
      BY <1>5, <3>1, <3>2 DEF Core, Dispatchers
    <3> QED BY <2>1, <3>1, <3>2, <3>3
  <2>4. ASSUME NEW a, a \in Served, a # region[c] PROVE a \in Served'
    <3>1. PICK t \in DOMAIN threads : threads[t].area = a /\ ~threads[t].cancelled
      BY <2>1, <2>4
    <3>2. t # s.thread
      BY <1>5, <2>4, <3>1
    <3> QED BY <1>6, <2>2, <3>1, <3>2
  <2> QED BY <2>3, <2>4
<1>8. Phases[c] = "leaving" /\ Phases' = Phases
  BY <1>1, <1>4 DEF Phases, Phase
<1>9. Answered' = Answered
  BY <1>1, AnsweredSame
<1> QED BY <1>1, <1>7, <1>8, <1>9 DEF Contract!Dismiss

LEMMA ContractKeep ==
  ASSUME Core, Faults # {}, AuRevoirFails
  PROVE  \E c \in Clients : Contract!Keep(c)
<1>1. /\ jpc = "aurevoir" /\ UNCHANGED <<region, lost, threads, glCall, posted>>
      /\ cpc' = [cpc EXCEPT ![request.from] = IF @ = "aurevoir" THEN "current" ELSE @]
  BY DEF AuRevoirFails, Answer
<1>2. PICK c \in Clients : c = request.from
  BY <1>1, RequestFacts
<1>3. cpc[c] = "aurevoir" /\ region[c] # "service"
  BY <1>1, <1>2, ServedClient
<1>4. cpc'[c] = "current" /\ \A d \in Clients \ {c} : cpc'[d] = cpc[d]
  BY <1>1, <1>2, <1>3 DEF Core, Types
<1>5. Phases[c] = "leaving" /\ Phases' = [Phases EXCEPT ![c] = "in"]
  BY <1>3, <1>4, PhaseStep, PhaseFacts, PhaseFactsNext DEF ClientPcs
<1>6. Served' = Served /\ Answered' = Answered
  BY <1>1, ServedSame, AnsweredSame
<1>7. region[c] \in Served
  BY <1>1, <1>3, ServedFacts DEF Entered
<1>8. Contract!Keep(c)
  BY <1>1, <1>5, <1>6, <1>7 DEF Contract!Keep, Contract!Becomes
<1> QED BY <1>8

LEMMA ContractAnswer ==
  ASSUME Core, Calls, NEW t \in DOMAIN threads, MakeCall(t)
  PROVE  \E c \in Clients : Contract!Answer(c)
<1>1. threads[t].area \in Regions
  BY ThreadTypes DEF Core, Threads
<1>2. /\ ~threads[t].cancelled /\ glCall[threads[t].area] = "made"
      /\ glCall' = [glCall EXCEPT ![threads[t].area] = "answered"]
      /\ UNCHANGED <<cpc, region, lost, threads>>
  BY DEF MakeCall
<1>3. PICK c \in Clients : cpc[c] = "calling" /\ region[c] = threads[t].area
  BY <1>1, <1>2 DEF Calls
<1>4. region[c] \in Served
  BY <1>2, <1>3 DEF Served
<1>5. \A a \in Regions : glCall'[a] = "answered" <=> glCall[a] = "answered" \/ a = region[c]
  BY <1>1, <1>2, <1>3 DEF Core, Types
<1>6. Answered' = Answered \cup {region[c]} /\ region[c] \notin Answered
  BY <1>1, <1>2, <1>3, <1>5 DEF Answered
<1>7. Phases[c] = "calling" /\ Phases' = Phases
  BY <1>2, <1>3 DEF Phases, Phase
<1>8. Served' = Served
  BY <1>2, ServedSame
<1>9. Contract!Answer(c)
  BY <1>2, <1>4, <1>6, <1>7, <1>8 DEF Contract!Answer
<1> QED BY <1>9

\* What the janitor does between receiving a request and answering it.
LEMMA ContractJanitor ==
  ASSUME Core, Serving \/ ReceiveRequest \/ PutOffsetState \/ DestroyTransport \/ Stop
  PROVE  UNCHANGED Contract!vars
<1>1. UNCHANGED <<region, lost, glCall, posted>>
  BY DEF Serving, ReceiveRequest, PutOffsetState, DestroyTransport, Stop
<1>2. Served' = Served
  <2>1. CASE DestroyTransport
    <3>1. /\ request.thread \in DOMAIN threads
          /\ threads' = [threads EXCEPT ![request.thread].mapped = FALSE]
      BY <2>1 DEF DestroyTransport, Core, Dispatchers
    <3>2. threads \in Seq(Threads) /\ threads[request.thread] \in Threads
      BY <3>1, ThreadTypes DEF Core, Types
    <3>3. /\ DOMAIN threads' = DOMAIN threads
          /\ \A u \in DOMAIN threads : /\ threads'[u].area = threads[u].area
                                       /\ threads'[u].cancelled = threads[u].cancelled
      BY <3>1, <3>2 DEF Threads
    <3> QED BY <3>3, ServedSame
  <2>2. CASE ~DestroyTransport
    <3>1. threads' = threads
      BY <2>2 DEF Serving, ReceiveRequest, PutOffsetState, Stop
    <3> QED BY <3>1, ServedSame
  <2> QED BY <2>1, <2>2
<1>3. \A d \in Clients : Phase(d)' = Phase(d)
  <2>1. CASE cpc' = cpc
    BY <2>1 DEF Phase
  <2>2. CASE PutOffsetState
    <3>1. \A d \in Clients : \/ cpc'[d] = cpc[d]
                             \/ cpc[d] = "bonjour" /\ cpc'[d] = "welcome"
      BY <2>2 DEF PutOffsetState, Answer, Core, Types
    <3> QED BY <3>1 DEF Phase
  <2>3. CASE DestroyTransport
    <3>1. \A d \in Clients : \/ cpc'[d] = cpc[d]
                             \/ cpc[d] = "aurevoir" /\ cpc'[d] = "gone"
      BY <2>3 DEF DestroyTransport, Answer, Core, Types
    <3> QED BY <3>1 DEF Phase
  <2> QED BY <2>1, <2>2, <2>3 DEF Serving, ReceiveRequest, Stop
<1>4. Phases' = Phases
  BY <1>3 DEF Phases
<1> QED BY <1>1, <1>2, <1>4, AnsweredSame, ContractQuiet

LEMMA ContractCancelled ==
  ASSUME Core, NEW t \in DOMAIN threads, Cancelled(t)
  PROVE  UNCHANGED Contract!vars
<1>1. /\ UNCHANGED <<cpc, region, lost, glCall, posted>>
      /\ threads' = [threads EXCEPT ![t].dead = TRUE] \/ threads' = threads
  BY DEF Cancelled
<1>2. threads \in Seq(Threads) /\ threads[t] \in Threads
  BY ThreadTypes DEF Core, Types
<1>3. /\ DOMAIN threads' = DOMAIN threads
      /\ \A u \in DOMAIN threads : /\ threads'[u].area = threads[u].area
                                   /\ threads'[u].cancelled = threads[u].cancelled
  <2>1. CASE threads' = threads
    BY <2>1
  <2>2. CASE threads' = [threads EXCEPT ![t].dead = TRUE]
    BY <1>2, <2>2 DEF Threads
  <2> QED BY <1>1, <2>1, <2>2
<1>4. Phases' = Phases
  BY <1>1 DEF Phases, Phase
<1> QED BY <1>1, <1>3, <1>4, ServedSame, AnsweredSame, ContractQuiet

LEMMA ContractFailures ==
  ASSUME Core, Failed
  PROVE  /\ BonjourFails => \E c \in Clients : Contract!Refuse(c)
         /\ \A c \in Clients : AttachFails(c) => Contract!Refuse(c)
         /\ AuRevoirFails => \E c \in Clients : Contract!Keep(c)
<1>1. ASSUME BonjourFails PROVE \E c \in Clients : Contract!Refuse(c)
  <2>1. /\ jpc \in {"bonjour", "dispatched"} /\ GiveUp(request.from) /\ Faults # {}
        /\ UNCHANGED <<threads, glCall, posted>>
    BY <1>1 DEF BonjourFails, Failed
  <2>2. PICK c \in Clients : c = request.from
    BY <2>1, RequestFacts
  <2>3. cpc[c] = "bonjour"
    BY <2>1, <2>2, ServedClient
  <2> QED BY <2>1, <2>2, <2>3, ContractRefuse
<1>2. ASSUME NEW c \in Clients, AttachFails(c) PROVE Contract!Refuse(c)
  <2>1. cpc[c] = "attaching" /\ GiveUp(c) /\ Faults # {} /\ UNCHANGED <<threads, glCall, posted>>
    BY <1>2 DEF AttachFails
  <2> QED BY <2>1, ContractRefuse
<1>3. ASSUME AuRevoirFails PROVE \E c \in Clients : Contract!Keep(c)
  <2>1. Faults # {}
    BY <1>3 DEF AuRevoirFails, Failed
  <2> QED BY <1>3, <2>1, ContractKeep
<1> QED BY <1>1, <1>2, <1>3

LEMMA ContractStep ==
  ASSUME Whole, [Next]_vars PROVE [Contract!Next]_(Contract!vars)
<1> USE DEF Whole
<1>1. CASE UNCHANGED vars
  <2>1. UNCHANGED <<cpc, region, lost, threads, glCall, posted>>
    BY <1>1 DEF vars
  <2>2. Phases' = Phases /\ Served' = Served
    BY <2>1 DEF Phases, Phase, Served
  <2> QED BY <2>1, <2>2, AnsweredSame, ContractQuiet
<1>2. ASSUME NEW c \in Clients, Start(c) \/ ClientStep(c) \/ PostGl(c) \/ CallGl(c) \/ AuRevoir(c)
      PROVE  [Contract!Next]_(Contract!vars)
  <2>1. CASE CreateTransport(c)
    BY <2>1, ContractTransport DEF Procs
  <2>2. CASE Start(c) \/ Started(c) \/ Attach(c) \/ PostGl(c) \/ GlPosted(c)
    BY <2>2, ContractMoves
  <2>3. CASE CreateContext(c) \/ ContextCreated(c) \/ AttachFails(c)
    BY <2>3, ContractAsk, ContractWelcome, ContractFailures DEF Contract!Next
  <2>4. CASE CallGl(c) \/ CallReturned(c)
    BY <2>4, ContractCall, ContractReturn DEF Contract!Next
  <2>5. CASE AuRevoir(c) \/ Free(c)
    BY <2>5, ContractLeave, ContractRelease DEF Contract!Next
  <2> QED BY <1>2, <2>1, <2>2, <2>3, <2>4, <2>5 DEF ClientStep
<1>3. CASE JanitorStep
  <2>1. CASE CreateTransport("janitor")
    BY <2>1, ContractTransport DEF Procs
  <2>2. CASE Serving \/ ReceiveRequest \/ PutOffsetState \/ DestroyTransport
    BY <2>2, ContractJanitor
  <2>3. CASE DispatchLoop \/ DelOffsetState
    BY <2>3, ContractServe, ContractDismiss DEF Contract!Next
  <2>4. CASE BonjourFails \/ AuRevoirFails
    BY <2>4, ContractFailures DEF Contract!Next
  <2> QED BY <1>3, <2>1, <2>2, <2>3, <2>4 DEF JanitorStep
<1>4. CASE Stop
  BY <1>4, ContractJanitor
<1>5. ASSUME NEW t \in DOMAIN threads, ThreadStep(t) PROVE [Contract!Next]_(Contract!vars)
  <2>1. CASE MakePost(t)
    <3>1. UNCHANGED <<cpc, region, lost, threads, glCall>>
      BY <2>1 DEF MakePost
    <3>2. Phases' = Phases /\ Served' = Served
      BY <3>1 DEF Phases, Phase, Served
    <3> QED BY <3>1, <3>2, AnsweredSame, ContractQuiet
  <2>2. CASE MakeCall(t) \/ Cancelled(t)
    BY <2>2, ContractAnswer, ContractCancelled DEF Contract!Next
  <2> QED BY <1>5, <2>1, <2>2 DEF ThreadStep
<1> QED BY <1>1, <1>2, <1>3, <1>4, <1>5 DEF Next

\* If clients start after the janitor, heap manager and janitor are together the
\* service of ContextService: whatever fails, a client has its region and its
\* dispatch thread to itself, and each of its calls has one result.
THEOREM JanitorIsContextService ==
  ASSUME ServiceFirst PROVE Spec => ImplementsContextService
<1>1. Init => Contract!Init
  BY ContractInit
<1>2. Whole /\ [Next]_vars => [Contract!Next]_(Contract!vars)
  BY ContractStep
<1> QED BY <1>1, <1>2, WholeInvariance, PTL DEF Spec, ImplementsContextService, Contract!Spec

=============================================================================
