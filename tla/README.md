# egl-gles-remoting in TLA+

egl-gles-remoting makes the EGL and OpenGL ES 2.0 calls of one process in
another one, through shared memory. Its difficulties are not in OpenGL: they
are in a ring buffer that two processes use without a common lock, in calls of
many threads over one transport, in two hand-written descriptions of every
message, in state kept on both sides, and in threads and memory that come and
go with contexts. This directory models those parts from the source, checks
them with TLC and proves the most important facts with TLAPS.

## 1. The system

| part (src/src) | state | operations | works with |
|---|---|---|---|
| transport, `shm_stream_transport.c`, with `lock.c`, `rwlock.c`, `cond_var.c` | per channel a virtual ring buffer (vrb, mapped twice in a row), two mutex/condition pairs, a read-write lock for the ring's head, an exclusive lock for callers | create, destroy, read, write, peek, take, acquire, release | everything sits on it |
| serializers, `client_serializer.c`, `server_serializer.c`, `serializer.c` | none but the transport; call ids | start/stop sending, start/stop receiving, send and receive data, sized data | all clients and handlers |
| dispatcher, `server_dispatcher.c` | a thread per transport | loop: read a command id, call its handler | heap manager, janitor, contexts |
| heap manager, `server_heap_manager.c`, `client_heap_manager.c` | a dlmalloc space over the VM's shared memory | gvAlloc, gvFree | createContext takes a transport's region from it |
| janitor, `server_janitor.c`, `client_janitor.c` | a dispatch thread and a transport for every context | gvBonjour, gvAuRevoir | heap manager's regions, state tracker |
| server state tracker, `server_state_tracker.c`, on the two maps below | offset -> dispatch thread, transport; a thread's transport | put, get, delete offset state | janitor |
| client state tracker, `client_state_tracker.c`, on the two maps below | per thread: current display, context, transport, vertex attributes, bound buffers; per process: context states with marks | get/set current, marks, attributes, buffers | client EGL/GLES |
| state maps, `process_state_map.c`, `thread_state_map.c` | a hash table for the process, without a lock of its own; a table for each thread under one pthread key | put, get, delete, foreach; creation of the key | both trackers |
| client EGL/GLES, `client_egl_gles.c` | process initialised or not | all EGL and GLES entry points, initialisation | serializers, state tracker, janitor, heap manager |
| server EGL/GLES, `server_egl_gles.c` | the vertex arrays of the draw in progress | a handler for every command | dispatcher, the real EGL and GL |

A process's first EGL or GLES call takes a region from the heap manager, asks the
janitor for a dispatch thread over that region (gvBonjour), creates the client
end of the transport in it and uses it from then on. eglCreateContext does the
same for each context; eglMakeCurrent changes the transport that the thread's
calls take.

What makes each part correct, and what is hard about it:

- *Transport.* Bytes arrive once, in order and unchanged, though reader and
  writer copy outside all locks; a sleeper is woken when there is reason; messages
  longer than the ring get through. Hard: a length read under one lock, a pointer
  under another, a copy under none.
- *Service calls.* Messages of several processes do not mix, everyone gets the
  reply to its own call, memory is not handed out twice. Hard: replies queue in one
  channel, and who may take the next is decided by a call id that is computed.
- *Commands.* Client and server agree on every word of every message; the server
  makes the application's calls in order; results are those of the call; memory
  made for a draw is freed. Hard: two descriptions, a client that does not wait,
  a decision on client-side state that has to match GL's.
- *Life of a transport.* Both ends use it when it is set up and not after it has
  gone; each region is served by one thread. Hard: no order between the two
  creators, a thread cancelled while it sleeps on a condition in that memory.
- *State trackers.* Every function looks atomic to the other threads; a thread gets
  what it last put; locks are given back also when something fails. Hard: a table
  walked item by item under a lock that each function takes for itself, a key that
  several first calls race to create, error handlers that jump past an unlock.
- *Threads and contexts.* One default context however many threads start;
  a thread's calls go where its context is current. Hard: double-checked locking,
  a state split between client and server, changed before the server has answered,
  and early returns that leave it half changed.

What fails in this code, and so in the models: a client's process dies wherever it
is (the locks in shared memory are not robust); the janitor and the heap manager are
stopped by a signal at any moment; memory, the thread key, a transport, a dispatch
thread or an entry of the tracker cannot be made; EGL refuses. Nothing is persistent
and nothing is retried.

PROJECT.json lists every such hazard at its line, with the properties that cover
it or the reason why none does.

## 2. Modules

Specifications (each with an `MC` module and one .cfg per run):

- **ByteStream**: the promise of a channel: a bounded, reliable stream of bytes.
- **ShmStream**: one channel at the granularity of lock operations, ring
  operations and memcpys. `WriteStart` to `WriteUnlockNotify` are writeFunc in
  source order, `ReadStart` to `ReadUnlockNotify` readFunc, with peekFunc and
  takeFunc on the same path; `getDataLength` to `give` are the ring's operations,
  each alone under vrbHeadAccess and so one step. Every byte has its place in
  the stream as value, so that loss, duplication and reordering show. The second
  mapping of the ring is `Cell`.
- **TransportLayout**: the arithmetic of attachShmRegions: which bytes of a region of the
  file are mapped where, for which lengths. It has no state; MCShmStream evaluates
  what it says (`LayoutEvaluated`) and TransportLayoutProofs proves it.
- **Allocator**: the promise of the heap manager: a linearizable allocator.
- **HeapManager**: gvAlloc and gvFree of several threads over one transport, from
  call id to reply, the server's loop and its two handlers. A channel is a bounded
  FIFO of words, which is what ShmStream is shown to be. Call ids are computed with the
  code's integer widths, scaled (`UlongSize`, `IntSize`). dlmalloc is external.
  `Die` is the death of a client process with all its threads and whatever locks they hold,
  `Stop` the heap manager's SIGTERM handler.
- **EglGlesWire**: the messages: for every command what the client sends and
  receives and, separately and from the other source file, what the server does.
- **CommandStream**: the promise to an application thread: its calls are made in
  order, and a result is the call's.
- **EglGles**: an application thread and its dispatch thread run those messages word by
  word over bounded channels; vertex arrays, bound buffers and memory of draws.
  GL and EGL are external: any result. Memory is a set of blocks, each named by the handler
  that allocates it: receiveVertexAttribArrays allocates a table and, unless a buffer is bound, an
  array per attribute (`Remember`), each of the two handlers frees what its own condition says
  (`FreesArrays`, `Freed`), and what it still has when it returns is `lost`, what it frees and does
  not have `misfreed`. The memory of other handlers is not modelled: that the information logs
  (`server_egl_gles.c:696`, `820`) are never freed can be read off the code, which frees
  neither on any path.
- **ContextService**: the promise of heap manager and janitor together to a client that
  creates a context: a region that nobody else has, served until it is given up,
  one answer to each call there, and a region lost for every context that cannot be had.
- **Janitor**: start and end of the janitor, gvBonjour, creation of a transport at both
  ends, functions with and without a result in the context, gvAuRevoir, cancellation and unmapping, gvFree and
  use of the region by another client, and the failures of each (`BonjourFails`,
  `AttachFails`, `AuRevoirFails`, chosen by `Faults`). Memory keeps what was written
  to it: `header` says what state a region is in, `posted` which command is still in its ring.
  A function is writeFunc and readFunc of ShmStream in short: its bytes are in the ring before
  it takes notEmptyAccess to notify (`PostGl`, `GlPosted`, `CallGl`), where it stays if a dead
  thread has that mutex (`held`). *The client that releases a context is assumed*: the
  janitor's half of gvAuRevoir is there, and so is the client's (`client_janitor.c:92`), but nothing in this
  repository calls it, eglDestroyContext being a stub (`client_egl_gles.c:857`, with a TODO at 528).
  `AuRevoir` and `Free` are a client that says gvAuRevoir and calls gvFree when that has returned,
  which is the order that the note at `server_state_tracker.c:124` relies on.
- **AtomicStates**: the promise of a state tracker: one table that each call reads or
  changes at one moment, and for each thread the item it last put.
- **StateTracker**: client_state_tracker.c or server_state_tracker.c (`Tracker`)
  with both maps: lock, find, act, unlock of every function on context states, the
  marking of all contexts of a display item by item, the flag, lock and key of
  gvInitThreadStateMap, a thread's items with the chain that uthash keeps of equal
  keys, and the paths that leave early.
- **Contexts**: threads of one process: initialisation, default context,
  eglCreateContext, with the contexts that only EGL has when the client's half of it fails
  (`orphans`), eglMakeCurrent with its refusals and early returns, commands
  as sequences of two writes.

**ShmStreamProofs**, **TransportLayoutProofs**, **HeapManagerProofs**, **EglGlesProofs**, **JanitorProofs**,
**StateTrackerProofs**, **StateTrackerRefinement** and **ContextsProofs** hold the theorems of these components.

ShmStream stands on TransportLayout: its ring of `Size` cells is one of `VRB_TAIL_SIZE` bytes
mapped twice. HeapManager and EglGles stand on ShmStream: their channels are ByteStream at the
granularity of words. Janitor takes whole messages from HeapManager and
regions from its allocator, and its two steps on the offset states, with their one
failure, from StateTracker. Contexts takes from Janitor that a context has a
transport and a thread (ContextService), from EglGles what a command is, and from
StateTracker that the table of contexts changes atomically (AtomicStates). They compose by
abstraction and not by INSTANCE, except where one implements another:
`ImplementsByteStream`, `ImplementsAllocator`, `ImplementsCommandStream`,
`ImplementsContextService`, `ImplementsAtomicStates`.

Correspondence, in general: a program counter for each thread; one action for what
the code does between two points where another actor can see a difference;
handlers that run alone (server threads) take their words one at a time. Operators
under the comment "Mutant" are plausible bugs of the operator below them. They
are not part of any behaviour; PROJECT.json names the property that each breaks.

## 3. Runs

Passing:

| run | what it asks |
|---|---|
| shm_stream | Ring of 3, one writer, one reader, lengths 0, 1 and 4, peeks of 1 and 3, spurious wakeups, 7 bytes in all: bytes intact, copies race-free and inside the mapping, ring never refuses, no lost wakeup, implements ByteStream; reads whose bytes are there and writes that fit return. |
| heap_manager | Three threads of two processes, one of which may die wherever it is, two pages, channels of two words (less than a message): no mixed words, own replies, no double allocation, implements Allocator. |
| heap_manager_live | Two threads of two processes, either of which may die, one page, the service may stop: every call returns, except after a stop, or a death in the middle of a call. |
| egl_gles | Every command but draws, in any order: both sides agree word by word, results are the call's, implements CommandStream. |
| draws | Draws with zero to two attributes, from arrays and buffers, none or two vertices from 0 or 2, byte and short indices, among calls that wait: what the server draws is what the application meant; glDrawArrays frees what it allocated and nothing else; functions return. |
| janitor | Two clients, two regions, three threads, release and reuse; transport, thread and state item may fail to be made, the janitor may be stopped: both ends ready before use, one state and one server per region, clients served or refused while the janitor lives, their functions return except where a mutex was left locked, implements ContextService. |
| state_tracker | Two threads call every function of the client's tracker over two contexts of two displays; memory and key may fail: the table is never read while it changes, locks are given back, one key, implements AtomicStates. |
| contexts | Two threads, two contexts beyond the default, refusals and EGL_NO_CONTEXT: initialised once, a first call gets past the initialisation, transport of the current context, marks, calls served where the context is current, whole commands in contexts of the application's. |

Disagreements between the code and what it says of itself, each shown by a run
that TLC finds violated (PROJECT.json, "findings", quotes the text):

| run | what happens |
|---|---|
| call_ids | Call ids of threads with address-sized ids are all equal: the "pairing" is computed modulo 2^64 and converted out of int's range. |
| elements_memory | glDrawElements leaks the arrays it allocates and frees pointers it does not own. |
| service_race | A client that starts with the janitor takes the service's transport for initialised. |
| au_revoir | A cancelled thread is still in its region when the next one starts there, and takes the janitor down with it when it wakes. |

More was met while modelling. These instances are kept as configurations beside the
runs; TLC finds the property in each violated by what the code does:

| configuration | property | what happens |
|---|---|---|
| MCHeapManagerDeath | SurvivorReturns | A process that dies with a lock of the service, or half a message sent, stops all callers. |
| MCStateTrackerOffset | LockGivenBack | The server's gvPutOffsetState leaves with its lock when no item can be made. |
| MCStateTrackerInit | FailureIsNull | The tracker's initialisation makes functions that return pointers return -1, which their callers take for one. |
| MCStateTrackerGrowth | ImplementsAtomicStates | A thread that has put an item often enough for uthash to enlarge its table gets the first one back, not the last. |
| MCEglGlesLog | ImplementsCommandStream | glGetProgramInfoLog asks GL for a shader's log. |
| MCEglGlesVersion | ResultIsGls | eglInitialize gives back major and minor exchanged. |
| MCEglGlesSource | ImplementsCommandStream | glShaderSource sends its first string for all. |
| MCEglGlesRebind | ImplementsCommandStream | After glBindBuffer(0) the server draws from the client's pointers. |
| MCEglGlesGaps | ImplementsCommandStream | With attribute 1 enabled and 0 not, attribute 0 is sent. |
| MCEglGlesUint | Framed | glDrawElements with 32-bit indices sends no vertex header; the handler reads the next command for one. |
| MCEglGlesConfigs | CallReturns | eglGetConfigs with an array of size 0 never returns. |
| MCEglGlesEmptyLog | CallReturns | glGetShaderInfoLog of an empty log never returns. |
| MCJanitorHeld | CallsReturn | A cancelled thread that ends before its transport is unmapped leaves notEmptyAccess locked; the functions of the region's next client put their bytes into the ring and never return from writeFunc. |
| MCJanitorLeftover | OwnCommands | A command that is still in the ring when its client releases the region is made in the next client's context. |
| MCContextsThreads | WholeCommands | Threads on the default transport mix their words; later threads' draws lack the vertex header. |
| MCContextsRefused | DrawsWhenRefused | A refused eglMakeCurrent returns EGL_TRUE and the calls go to a thread without that context. |
| MCContextsNone | MarkedDespiteFailure | eglMakeCurrent(EGL_NO_CONTEXT) returns EGL_FALSE half done: the old context is no longer marked. |

The passing runs leave out, by their constants or the properties' words, just
what those are about:

- heap_manager: thread ids small enough for distinct call ids (`MCTid`);
  CallReturns excepts a stopped service and a death between the locks of a call;
- egl_gles and draws: glGetProgramInfoLog; EGL versions whose halves differ
  (`MCVersion11`); glShaderSource with different strings; eglGetConfigs and eglChooseConfig with an
  array of size 0 (without an array any size is tried: the client then asks for none, `Passed`); empty logs (`LogLengths`); a change of buffer binding after
  arrays were specified and attributes enabled with gaps (`Liberties`); 32-bit indices;
  DrawArraysFreed speaks of glDrawArrays only. Also, by argument sets: glGenTextures and
  glGenBuffers of 0 names (they wait as empty logs do);
- janitor: `ServiceFirst`; ContextServed ends with the janitor, and leaves out a function in a region
  whose mutex a dead thread has: there it never returns (MCJanitorHeld). OneServer speaks of threads
  that were not cancelled, and lets a lost region keep its thread. No property of the run says that a
  region comes with empty rings (MCJanitorLeftover);
- state_tracker: `Tracker = "client"`; `GrowthAt` beyond `MaxPuts`; the mapping to
  AtomicStates takes -1 for a failure;
- contexts: MarkedIsCurrent excepts a thread whose last eglMakeCurrent has failed,
  DrawsInCurrent one that EGL has refused; WholeBeyondDefault excepts the default context.

### Bounds and why they are enough

A ring of 3 fills, empties, wraps, and is crossed by messages of 4; seven bytes, one more than both mappings, let
both pointers wrap and the code's moving-back of both happen; ShmStreamProofs
removes the bound on ring, lengths and bytes. The layout is evaluated around every number of pages
up to six, with a size_t of 65536 values (`SizeValues`), sixteen pages. Three callers over channels of two words
make replies queue with two callers behind a third's, and messages block half way;
two pages make allocation fail and blocks be cut anew; the process that dies in heap_manager
has a thread in every place of a call while the others have theirs. EglGles needs no bound
but its channels: pending commands are as many as fit. Channels of three words
are shorter than most messages, so the server starts on a message that is not yet
complete, and hold several short ones. Janitor's `MaxThreads` of three over two
regions means one region is used twice, or a lost one is missed. One command without a result is kept in a ring:
  it is enough to have one before a call, and one left over. Two contexts on
two displays are enough for a thread to be in the middle of marking one display's contexts
while another adds to, deletes from or reads the table; `MaxPuts` of two lets a thread
replace its item. Two contexts beyond the default let a thread change from one to the other and back,
while the second one stays, as the code has it, on the default transport.
Handles are interchangeable in state_tracker, which declares symmetry; it has no liveness property.

Deadlock is checked except where the system may really stop: under Janitor (the bound on
threads and the end of the janitor leave nothing to do), in heap_manager and
heap_manager_live (a stopped service, a lock that a dead process has kept), and in
MCEglGlesConfigs and MCEglGlesEmptyLog, which show how it stops.

### Fairness

Every thread of the code is scheduled by the operating system and does not stop by
choice: weak fairness of each thread's steps, except of a dead process's and a stopped
service's, which are not enabled. Mutexes: strong fairness of taking
one, only in ShmStream and HeapManager, where a thread may release and take a
mutex in a loop: with weak fairness alone another might never get it, and pthread
mutexes of the C library promise little more than that no thread is passed over
for ever under such a scheduler. Contexts' lock is taken a bounded number of times
and needs no more than weak fairness. StateTracker has no liveness property: a
pthread read-write lock may let readers in past a writer for ever, so no fairness
that would give one is the code's. Nothing is assumed of the application: it
need not call, and no fairness is put on its calls. Nothing has to die, stop or fail.

## 4. Proofs

All are about the specifications the runs check, with every constant free. They take
nothing but the modules' named assumptions (which TLC evaluates on the runs) and the
hypotheses said here.

**ShmStreamProofs**, for every ring size of one or more, every set of lengths and every
number of bytes: `TypeCorrect`, `Intact`, `RaceFree`, `InWindow`, `VrbNeverRefuses`,
`WakeupNotLost`: the invariants of the shm_stream run; and `Refinement`: Spec
implements ByteStream. The inductive invariant behind them (`StreamInvariance`)
joins the types; who holds which mutex at which program counter; that the bytes
between first and last are those given and not taken (`last - first = given -
taken`, cell by cell); that a writer's chunk, once measured, still fits and a
reader's is still there, because only the other side moves the other end; and that
whoever sleeps while its condition holds has a notifier on its way. None of the
checked invariants is inductive without those: NoDataRace, for one, says nothing of
the time between the check and the copy. The argument for the moving of both pointers
by one mapping during a copy is that `Cell` of either is unchanged by it.
`ChannelDeadlockFree` is the safe half of ReaderServed and WriterServed: if a write is in progress and there
is room, or a read and what it waits for is there, or both, one of the two threads can take a step.
It rests on NoLostWakeup, on who holds the mutexes, and on `PeekFits`: a peek never waits for more than the ring holds.

**TransportLayoutProofs**, for every length a size_t can have, every offset that is a page's
(`mspace_memalign` gives no other) and any width of size_t: `LengthsAccepted`: a transport comes about
just when half its tail is a positive number of pages, as the comment at
`shm_stream_transport.c:772` wants. The test below it admits more, no pages and an odd tail, since
it halves first; those lengths fail in mmap, for an empty or a crooked part. For the lengths that remain
`ChunksContiguous` (behind each address of a doubled ring is the cell that ShmStream expects, and nothing
else), `NothingReplaced` (MAP_FIXED stays inside the reserved span and fills it) and `RegionsKept` (a
transport uses its own region's bytes, its channels disjoint ones). The arithmetic is linear because the
code's page size is a literal.

**HeapManagerProofs**, for any callers, heap and capacity, whoever dies and whenever the
service stops: `HeapManagerTyped`, `MessagesWhole`, `RepliesReturn`, `PagesOfOne` and
`HeapManagerIsAllocator` (Spec implements Allocator). Their hypothesis is
`IdsDistinct`, that callers differ in getCantorPair; call_ids shows that it is not
always so. The invariant (`HeapManagerInvariance`) has two halves. *Framing*: the
words of the call channel are what remains of the message the server is reading,
then whole messages, then what the holder of the lock has sent of its own; a caller has
each word of its message there once at most, and only between its call and its answer; the
same for replies, where a caller that holds the lock and has taken its call id finds its
result next; what the server has read is what its caller asked. This survives a death because a dead holder keeps its lock: a torn message is the last one for
ever. *Heap*: the blocks do not overlap, and what a caller owns, held or in its
request to free or in an answer it has yet to fetch (`Owned`), has a block and is owned by no other. A step of the server's
`Serve` is the allocator's step, every other a stutter, a call or a return.
Of CallReturns two halves are proved: `CallsOnTheirWay`, a waiting caller's message
is in one of the channels or with the server, whoever dies; and `HeapManagerDeadlockFree`, while
anybody is in a call somebody can take a step that gets a call on (to look at the head of
the channel and let go again is none), if the service has not stopped and no process has died between its first
lock and its last unlock (`Undisturbed`). That condition is the code's: a dead holder keeps its lock.

**EglGlesProofs**, for channels of any capacity, any set of calls with any arguments of their
types (`WellFormed`), any number of attributes and any application. For calls
on whose messages the two sides agree (`Agreement`: byte or short indices; eglGetConfigs, if with an array
of configurations, with one of positive size): `EglGlesTyped`, `EveryWordFramed`, `DrawArraysClean` and, if the version's halves do
not differ or are not asked for (`OneVersion`), `ResultsMatched`. If the calls also mean the same to both
(`Straight`: no glGetProgramInfoLog, strings of glShaderSource alike) and the application takes no
liberties with its vertex arrays: `EglGlesIsCommandStream`. Each hypothesis is one that a configuration of
section 3 shows the code to need, and TLC evaluates `Agreed` and `Meaningful` on the calls of the
passing runs (`CallsAgreed`). For calls that agree, too: `EglGlesDeadlockFree`, client and server
both stop only if all is done or one of them reads no bytes at the end of a message
(`ReadsNoBytes`, the hang of MCEglGlesEmptyLog; for other reads, no wait is for what the other side does not send),
provided an information log has some length; and `EglGlesCountsDown`, every step but the application's lessens `Left`, five numbers
in lexicographic order (words to send, a handler to run, words to read, to answer, to receive), so
that between two calls there is no endless work.

The argument has three layers. *Messages*: `Parses(c, w, list, a)` says that a
reader who has read a and has list before it, in the course of which it may grow, reads just the words w; it is
a closed set of readings, so that it needs no recursion, and it joins (`ReadsJoin`), so that a message is read
if each of its data is. `TablesAgree` compares the two tables, `ArgumentsRead` and `AnswersRead` cover what
depends on values: arrays, sized data, blocks of none, vertex arrays. *Queue*: the
invariant (`EglGlesInvariance`) is that there is a sequence Q of commands whose words, in order, are those in the call
channel and still to be sent, but for what the handler has read of the first (`Serving`); each
command finds the buffer bound that was bound when it was issued (`Linked`); and all but the last are
of functions that do not wait (`Waiting`): so an answer that is on its way is that of the call that waits, and its words are
those the function has still to read. Framed alone is not inductive: it speaks of one word.
*Meaning*: `pending` is what the commands of Q ask for, because the server takes from a draw's words the attributes and the
vertices that the client put there (`Found`, `DrawMade`), if attributes are enabled from 0 upwards, arrays are specified for the
buffer that is bound, and buffers are noted just when one is bound (`Drawable`).
*Memory* (DrawArraysClean): while a handler reads, the blocks it has are its table, once it has read the
indicator, and the arrays in that table that are its own (`Keeps`), and the indicator it goes by at the end is the one
each of its entries was made under. That takes the framing: a handler that misread its words could
find another indicator at the end, or an array before it.

**JanitorProofs**, for any clients and regions and any `Faults`: without further hypothesis
`JanitorTyped`, `RegionsOnce` and `RegionsServedByOne`; when clients start after the
janitor (`ServiceFirst`, which service_race shows the code not to ensure)
`TransportsWhole` and `JanitorIsContextService`. The invariant (`JanitorInvariance`): a region
is one client's or lost or free; a waiting client has just one request, queued or being
served, and it names its region; the map's entries are the threads that were started, entered and
not cancelled, and their regions are leased or lost; what the janitor is at agrees
with its request. Under `ServiceFirst`, too (`Prepared`, `Calls`): only the janitor ever sets a
transport up, the state says initialised before that is done only while the janitor is at it,
every area a client attaches to is past it, and a call lies only in a region whose client is
waiting for it. None of ReadyBeforeUse's conjuncts is inductive without: it speaks of transports
that are attached, and what goes wrong goes wrong before. In the refinement a failure gives the
region from its client to the lost ones in one step. `JanitorForgetsNobody`, under the same hypothesis and
while the janitor lives: a client that waits for gvBonjour or gvAuRevoir has its request queued or
being served (`Awaited`) and the janitor can take its next step, which is a fact about gvAuRevoir: the state it
is about to delete is there (`Ending`); and one in a function of its context can notify its thread, has its answer, or has a thread in its region that can make the call
or the command queued before it. One exception is the code's: the region's mutex may be locked, and then a cancelled thread has died
there with it (`Blocked`), as in MCJanitorHeld. It says also (`KeepsMutex`) that no step locks the mutex for good
under a client that is at work: one that gets its region with the mutex free has it so until it leaves. The
strengthening is `Answerable` (a call is in its client's region until it is answered), `Ending`
and `Blocked`.

**StateTrackerProofs**, for any finite set of threads and any contexts and displays, in client
and server: `NoTableRace`, `KeyMadeOnce`, `TrackerTyped`; for the client `ClientGivesBack`. The
invariant (`TrackerInvariance`): who is in the table has the lock in the mode of its function,
readers and a writer exclude each other, only the lock's holder is at the key, the key is
there once somebody is past its creation. A second one (`Contents`) says what a function has
found when it acts, and that only an iteration has contexts left to visit.

**StateTrackerRefinement**: `ClientIsAtomic`, the client's tracker implements AtomicStates, whatever
fails, if `MaxPuts < GrowthAt`: without that hypothesis TLC refutes it (MCStateTrackerGrowth), and
without the client's GivenBack a thread would be refused a lock it already holds. A call takes
effect when it acts under the lock; a walk through all contexts when it takes the lock, which is
why the mapping shows the table as the walk will leave it (`Settled`) and each of its steps is a
stutter. That a chain is too short to be turned round is a count: `Puts`, the items kept and
those being put, never exceeds `MaxPuts` (`Bounded`), and a chain with its put under way is part of it.

**ContextsProofs**, for any finite set of threads and any number of contexts: `InitialisedOnce`
(double-checked locking creates one default context), `OwnTransport` (a
thread's transport is its current context's when it is not in a call), `ContextsTyped`,
`MarksFollow`, `CallsInCurrent` and `OwnContextsWhole`. The first invariant
(`ContextsInvariance`): a thread between lock and unlock is the holder; between the
second test and the flag nobody else has created; the flag goes with one default
context; a context without its transport is the default one, on its way through
initThreadIfNotDoneAlready. The second (`CurrentInvariance`) starts from a fact the code hides
well: one thread at most, the one that initialised the process, ever has a current context
(makeCurrent needs one to leave), and all others stay on the default transport. With it, a mark
lags that thread's context just between unmarking and marking, and the server's thread of its
transport has its context current unless EGL has refused or the call for it is under way.
`ContextsDeadlockFree` (a thread in a call can go on, or the owner of initProcessLock can) and `ContextsCallsEnd`
(each step is one thread's and brings its call nearer to its end, 13 steps at most; nobody comes to
the lock when the process is initialised) are what Initialised comes to without fairness.

Steps are hierarchical, one per action; no theorem is taken on trust.

Only model-checked: the liveness properties (ReaderServed, WriterServed, CallReturns,
ContextServed, Initialised), which the prover's backends do not reach. Every invariant and every other
property of a passing run is stated by a theorem. What of liveness is safety is proved: nobody
waits for what cannot come (the theorems on deadlock, `CallsOnTheirWay`, `JanitorForgetsNobody`), and, in EglGles
and Contexts, steps count down. What these theorems call able to move is written out as the
guards of the actions (`WriterMoves`, `ServerMoves`, `GetsOn`, `Makes`), since ENABLED is out of the prover's reach
as well. The step from there to the liveness properties, by fairness, is TLC's. These
properties are about all values of the constants, so they are theorems of their own and no run repeats them.

## 5. What is not modelled, and why

- Failures of system calls other than those above: a mutex that cannot be locked, mmap that
  fails at the start of a service. The code exits or returns, and nobody looks.
- A handler's failure half way through its answer (`server_heap_manager.c:85`), and a dispatch
  thread's own failure once its client has been answered: only a pthread call on
  a mapped mutex could cause them.
- dlmalloc, vrb, uthash, EGL and GL: external, modelled by what the code asks of them.
  Of uthash the order of equal keys is modelled (`Added`), because the code relies on it.
- Functions nothing calls: eglDestroyContext, eglReleaseThread and other empty
  ones, gvDelThreadStateItem, gvForeachThreadStateItem, gvTermThreadStateMap.
- Sizes of allocations (`server_egl_gles.c:249`), and whether what is shared of a transport
  (locks, conditions, heads of the rings) fits into its first page;
  contents of data (texels, sources), except that their places are followed.
- The order in which a stopped service gives back its resources: its process exits then.
- Memory order of the processor: the flags read outside locks are written after
  calls the compiler cannot see into, on processors that keep stores in order.

## 6. Plan

Done, in this order: ByteStream, ShmStream and its proofs; Allocator and
HeapManager; EglGlesWire, CommandStream and EglGles; Janitor; Contexts and its proofs;
death, stop and failure in HeapManager, Janitor and Contexts; AtomicStates and StateTracker;
ContextService; the proofs of HeapManager, Janitor, StateTracker and the rest of Contexts';
TransportLayout and its proofs; EglGles' proofs; freedom from deadlock of every component with a liveness property.

What could follow: to compose the modules by INSTANCE, so that HeapManager's and EglGles' channels
are ShmStream's by a theorem, where now they are by its refinement of ByteStream.

## 7. Running

In this directory, `tlc -config MCShmStream.cfg MCShmStream` and likewise for each
run of PROJECT.json; `tlapm ShmStreamProofs.tla` and likewise for TransportLayoutProofs, HeapManagerProofs, EglGlesProofs,
JanitorProofs, StateTrackerProofs, StateTrackerRefinement and ContextsProofs (seven to ten minutes for EglGlesProofs, two to three for the longest of the others).
