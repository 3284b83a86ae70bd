------------------------------ MODULE ShmStream ------------------------------
(***************************************************************************)
(* One channel of the shared-memory stream transport                       *)
(* (src/src/shm_stream_transport.c) between the one thread that writes it  *)
(* and the one thread that reads it: the virtual ring buffer, the two      *)
(* mutex / condition-variable pairs, and writeFunc, readFunc, peekFunc and *)
(* takeFunc broken at every lock operation, ring operation and memcpy.     *)
(*                                                                         *)
(* A ring operation runs alone under the read-write lock vrbHeadAccess and *)
(* blocks on nothing inside, so it is one step.  Offsets count from        *)
(* vrbTail; the tail is mapped twice in a row, so the addresses 0..2*Size-1*)
(* are backed by the Size cells of ring.  Byte i of the stream has the     *)
(* value i: the code never looks at a byte.                                *)
(***************************************************************************)
EXTENDS Integers

CONSTANTS
    Size,            \* VRB_TAIL_SIZE: the capacity of the ring
    WriteLengths,    \* the lengths passed to write
    ReadLengths,     \* the lengths passed to read
    PeekLengths,     \* the lengths passed to peek
    MaxBytes         \* bound: no write starts that would exceed it

ASSUME ShmStreamAssumption ==
    /\ Size \in Nat \ {0}
    /\ WriteLengths \subseteq Nat
    /\ ReadLengths \subseteq Nat
    /\ PeekLengths \subseteq 1..Size
    /\ MaxBytes \in Nat

VARIABLES
    first, last, ring,                   \* vrbHead, and the bytes it heads
    notEmptyAccess, notFullAccess,       \* who holds the mutex
    notEmpty, notFull,                   \* who is blocked on the condition
    wpc, wRest, wLen, wOff,              \* writeFunc and its locals
    rpc, rOp, rRest, rLen, rOff, buf,    \* readFunc / peekFunc / takeFunc
    given, taken, delivered              \* history: bytes given, taken, seen

vrbVars    == <<first, last, ring>>
syncVars   == <<notEmptyAccess, notFullAccess, notEmpty, notFull>>
writerVars == <<wpc, wRest, wLen, wOff>>
readerVars == <<rpc, rOp, rRest, rLen, rOff, buf>>
history    == <<given, taken, delivered>>
vars       == <<vrbVars, syncVars, writerVars, readerVars, history>>

Free    == "free"
Holders == {Free, "reader", "writer"}
Cells   == 0..(Size - 1)

\* The cell behind address p of the doubled mapping.
Cell(p) == IF p < Size THEN p ELSE p - Size

\* How many cells after address p cell c comes.
Distance(p, c) == IF c >= Cell(p) THEN c - Cell(p) ELSE c - Cell(p) + Size

Empty == [i \in 0..(-1) |-> 0]
-----------------------------------------------------------------------------
(* The virtual ring buffer (library vrb), as the transport uses it.        *)

\* Mutant: counts the ring's sentinel cell as space.
SpaceOffByOne  == Size - (last - first) + 1

getDataLength  == last - first
getSpaceLength == Size - (last - first)
getDataPtr     == first
getSpacePtr    == last

\* Mutant: only the first pointer steps back.
TakeForgetsLast(n) ==
    /\ first' = IF first + n >= Size THEN first + n - Size ELSE first + n
    /\ UNCHANGED last

\* take: the oldest n bytes leave; both pointers step back by one mapping
\* when the first passes the end of the first copy.
take(n) ==
    /\ first' = IF first + n >= Size THEN first + n - Size ELSE first + n
    /\ last'  = IF first + n >= Size THEN last - Size ELSE last

\* give: the n bytes after last become data.
give(n) ==
    /\ last' = last + n
    /\ UNCHANGED first

(* Mutexes and condition variables (lock.c, cond_var.c).                   *)

\* Mutant: the signal wakes nobody.
NotifyNobody(blocked) == {blocked}

\* pthread_cond_signal: one of the blocked threads, if any, may go on.
gvNotify(blocked) ==
    IF blocked = {} THEN {{}} ELSE {blocked \ {t} : t \in blocked}
-----------------------------------------------------------------------------
Init ==
    /\ first = 0 /\ last = 0
    /\ ring = [c \in Cells |-> 0]
    /\ notEmptyAccess = Free /\ notFullAccess = Free
    /\ notEmpty = {} /\ notFull = {}
    /\ wpc = "idle" /\ wRest = 0 /\ wLen = 0 /\ wOff = 0
    /\ rpc = "idle" /\ rOp = "read" /\ rRest = 0 /\ rLen = 0 /\ rOff = 0
    /\ buf = Empty
    /\ given = 0 /\ taken = 0 /\ delivered = Empty

-----------------------------------------------------------------------------
(* writeFunc.                                                              *)

\* Mutant: forgets that only a part may fit.
WriteAllAtOnce == wRest

\* The bytes one turn of the loop moves: all that is left, or what fits.
wChunk == IF wLen >= wRest THEN wRest ELSE wLen

WriteStart(n) ==
    /\ wpc = "idle"
    /\ given + n <= MaxBytes
    /\ wRest' = n
    /\ wpc' = "lockNotFull"
    /\ UNCHANGED <<vrbVars, syncVars, wLen, wOff, readerVars, history>>

WriteLock ==
    /\ wpc = "lockNotFull"
    /\ notFullAccess = Free
    /\ notFullAccess' = "writer"
    /\ wpc' = "check"
    /\ UNCHANGED <<vrbVars, notEmptyAccess, notEmpty, notFull, wRest, wLen,
                   wOff, readerVars, history>>

\* while ((spaceLength = getSpaceLength(chanel)) == 0)
WriteCheck ==
    /\ wpc = "check"
    /\ wLen' = getSpaceLength
    /\ wpc' = IF getSpaceLength = 0 THEN "wait" ELSE "unlockNotFull"
    /\ UNCHANGED <<vrbVars, syncVars, wRest, wOff, readerVars, history>>

\* gvWait releases the mutex and blocks in one step ...
WriteWait ==
    /\ wpc = "wait"
    /\ notFull' = notFull \cup {"writer"}
    /\ notFullAccess' = Free
    /\ wpc' = "waiting"
    /\ UNCHANGED <<vrbVars, notEmptyAccess, notEmpty, wRest, wLen, wOff,
                   readerVars, history>>

\* ... and returns, once signalled, with the mutex held again.
WriteWake ==
    /\ wpc = "waiting"
    /\ "writer" \notin notFull
    /\ notFullAccess = Free
    /\ notFullAccess' = "writer"
    /\ wpc' = "check"
    /\ UNCHANGED <<vrbVars, notEmptyAccess, notEmpty, notFull, wRest, wLen,
                   wOff, readerVars, history>>

WriteUnlock ==
    /\ wpc = "unlockNotFull"
    /\ notFullAccess' = Free
    /\ wpc' = "spacePtr"
    /\ UNCHANGED <<vrbVars, notEmptyAccess, notEmpty, notFull, wRest, wLen,
                   wOff, readerVars, history>>

WritePtr ==
    /\ wpc = "spacePtr"
    /\ wOff' = getSpacePtr
    /\ wpc' = "copy"
    /\ UNCHANGED <<vrbVars, syncVars, wRest, wLen, readerVars, history>>

\* memcpy(vrbTail + offset, fromAddr, n): the cell d places after the offset
\* gets byte given + d.
WriteCopy ==
    /\ wpc = "copy"
    /\ ring' = [c \in Cells |-> IF Distance(wOff, c) < wChunk
                               THEN given + Distance(wOff, c) ELSE ring[c]]
    /\ wpc' = "give"
    /\ UNCHANGED <<first, last, syncVars, wRest, wLen, wOff, readerVars,
                   history>>

\* vrb_give refuses more than there is space for, and writeFunc gives up.
WriteGive ==
    /\ wpc = "give"
    /\ IF wChunk > getSpaceLength
       THEN /\ wpc' = "failed"
            /\ UNCHANGED <<first, last, wRest, given>>
       ELSE /\ give(wChunk)
            /\ given' = given + wChunk
            /\ wRest' = wRest - wChunk
            /\ wpc' = "lockNotEmpty"
    /\ UNCHANGED <<ring, syncVars, wLen, wOff, readerVars, taken, delivered>>

\* Mutant: notifies without taking the mutex the sleeper checks under.
NotifyWithoutLock ==
    /\ wpc = "lockNotEmpty"
    /\ wpc' = "notify"
    /\ UNCHANGED <<vrbVars, syncVars, wRest, wLen, wOff, readerVars, history>>

WriteLockNotify ==
    /\ wpc = "lockNotEmpty"
    /\ notEmptyAccess = Free
    /\ notEmptyAccess' = "writer"
    /\ wpc' = "notify"
    /\ UNCHANGED <<vrbVars, notFullAccess, notEmpty, notFull, wRest, wLen,
                   wOff, readerVars, history>>

WriteNotify ==
    /\ wpc = "notify"
    /\ notEmpty' \in gvNotify(notEmpty)
    /\ wpc' = "unlockNotEmpty"
    /\ UNCHANGED <<vrbVars, notEmptyAccess, notFullAccess, notFull, wRest,
                   wLen, wOff, readerVars, history>>

\* Another turn for the bytes that are left, or return (the locals die).
WriteUnlockNotify ==
    /\ wpc = "unlockNotEmpty"
    /\ notEmptyAccess' = Free
    /\ wpc' = IF wRest = 0 THEN "idle" ELSE "lockNotFull"
    /\ wLen' = 0 /\ wOff' = 0
    /\ UNCHANGED <<vrbVars, notFullAccess, notEmpty, notFull, wRest,
                   readerVars, history>>

-----------------------------------------------------------------------------
(* readFunc, peekFunc and takeFunc.                                        *)

\* Mutant: takes all it wants, arrived or not.
ReadAllAtOnce == rRest

rChunk == IF rLen >= rRest THEN rRest ELSE rLen

\* readFunc waits for the first byte, peekFunc for all it was asked for.
rNeeded == IF rOp = "peek" THEN rRest ELSE 1

ReadStart(n) ==
    /\ rpc = "idle"
    /\ rOp' = "read"
    /\ rRest' = n
    /\ rpc' = "lockNotEmpty"
    /\ UNCHANGED <<vrbVars, syncVars, writerVars, rLen, rOff, buf, history>>

PeekStart(n) ==
    /\ rpc = "idle"
    /\ rOp' = "peek"
    /\ rRest' = n
    /\ rpc' = "lockNotEmpty"
    /\ UNCHANGED <<vrbVars, syncVars, writerVars, rLen, rOff, buf, history>>

ReadLock ==
    /\ rpc = "lockNotEmpty"
    /\ notEmptyAccess = Free
    /\ notEmptyAccess' = "reader"
    /\ rpc' = "check"
    /\ UNCHANGED <<vrbVars, notFullAccess, notEmpty, notFull, writerVars, rOp,
                   rRest, rLen, rOff, buf, history>>

ReadCheck ==
    /\ rpc = "check"
    /\ rLen' = getDataLength
    /\ rpc' = IF getDataLength < rNeeded THEN "wait" ELSE "unlockNotEmpty"
    /\ UNCHANGED <<vrbVars, syncVars, writerVars, rOp, rRest, rOff, buf,
                   history>>

ReadWait ==
    /\ rpc = "wait"
    /\ notEmpty' = notEmpty \cup {"reader"}
    /\ notEmptyAccess' = Free
    /\ rpc' = "waiting"
    /\ UNCHANGED <<vrbVars, notFullAccess, notFull, writerVars, rOp, rRest,
                   rLen, rOff, buf, history>>

ReadWake ==
    /\ rpc = "waiting"
    /\ "reader" \notin notEmpty
    /\ notEmptyAccess = Free
    /\ notEmptyAccess' = "reader"
    /\ rpc' = "check"
    /\ UNCHANGED <<vrbVars, notFullAccess, notEmpty, notFull, writerVars, rOp,
                   rRest, rLen, rOff, buf, history>>

ReadUnlock ==
    /\ rpc = "unlockNotEmpty"
    /\ notEmptyAccess' = Free
    /\ rpc' = "dataPtr"
    /\ UNCHANGED <<vrbVars, notFullAccess, notEmpty, notFull, writerVars, rOp,
                   rRest, rLen, rOff, buf, history>>

ReadPtr ==
    /\ rpc = "dataPtr"
    /\ rOff' = getDataPtr
    /\ rpc' = "copy"
    /\ UNCHANGED <<vrbVars, syncVars, writerVars, rOp, rRest, rLen, buf,
                   history>>

\* memcpy(toAddr, vrbTail + offset, n); after a peek the caller looks at the
\* bytes behind the pointer it got.
ReadCopy ==
    /\ rpc = "copy"
    /\ buf' = [i \in 0..(rChunk - 1) |-> ring[Cell(rOff + i)]]
    /\ rpc' = IF rOp = "peek" THEN "peeked" ELSE "take"
    /\ UNCHANGED <<vrbVars, syncVars, writerVars, rOp, rRest, rLen, rOff,
                   history>>

\* The caller takes what it peeked (the call id is its own) ...
TakeStart ==
    /\ rpc = "peeked"
    /\ rpc' = "take"
    /\ UNCHANGED <<vrbVars, syncVars, writerVars, rOp, rRest, rLen, rOff, buf,
                   history>>

\* ... or leaves it for another caller.
PeekOnly ==
    /\ rpc = "peeked"
    /\ rpc' = "idle"
    /\ rRest' = 0 /\ rLen' = 0 /\ rOff' = 0 /\ buf' = Empty
    /\ UNCHANGED <<vrbVars, syncVars, writerVars, rOp, history>>

\* Mutant: a read tells the writer of the room it made only once it is done.
NotifyOnlyWhenDone ==
    /\ rpc = "take"
    /\ rChunk <= getDataLength
    /\ take(rChunk)
    /\ taken' = taken + rChunk
    /\ delivered' = [i \in 0..(taken + rChunk - 1) |->
                       IF i < taken THEN delivered[i] ELSE buf[i - taken]]
    /\ rRest' = rRest - rChunk
    /\ rpc' = IF rRest' = 0 THEN "lockNotFull" ELSE "lockNotEmpty"
    /\ UNCHANGED <<ring, syncVars, writerVars, rOp, rLen, rOff, buf, given>>

\* vrb_take refuses more than there is, and readFunc / takeFunc gives up.
ReadTake ==
    /\ rpc = "take"
    /\ IF rChunk > getDataLength
       THEN /\ rpc' = "failed"
            /\ UNCHANGED <<first, last, rRest, taken, delivered>>
       ELSE /\ take(rChunk)
            /\ taken' = taken + rChunk
            /\ delivered' = [i \in 0..(taken + rChunk - 1) |->
                               IF i < taken THEN delivered[i]
                                            ELSE buf[i - taken]]
            /\ rRest' = rRest - rChunk
            /\ rpc' = "lockNotFull"
    /\ UNCHANGED <<ring, syncVars, writerVars, rOp, rLen, rOff, buf, given>>

ReadLockNotify ==
    /\ rpc = "lockNotFull"
    /\ notFullAccess = Free
    /\ notFullAccess' = "reader"
    /\ rpc' = "notify"
    /\ UNCHANGED <<vrbVars, notEmptyAccess, notEmpty, notFull, writerVars, rOp,
                   rRest, rLen, rOff, buf, history>>

ReadNotify ==
    /\ rpc = "notify"
    /\ notFull' \in gvNotify(notFull)
    /\ rpc' = "unlockNotFull"
    /\ UNCHANGED <<vrbVars, notEmptyAccess, notFullAccess, notEmpty, writerVars,
                   rOp, rRest, rLen, rOff, buf, history>>

ReadUnlockNotify ==
    /\ rpc = "unlockNotFull"
    /\ notFullAccess' = Free
    /\ rpc' = IF rRest = 0 THEN "idle" ELSE "lockNotEmpty"
    /\ rLen' = 0 /\ rOff' = 0 /\ buf' = Empty
    /\ UNCHANGED <<vrbVars, notEmptyAccess, notEmpty, notFull, writerVars, rOp,
                   rRest, history>>

-----------------------------------------------------------------------------
\* pthread_cond_wait may return without a signal.
SpuriousWakeup ==
    /\ \/ notEmpty # {} /\ notEmpty' = {} /\ UNCHANGED notFull
       \/ notFull # {} /\ notFull' = {} /\ UNCHANGED notEmpty
    /\ UNCHANGED <<vrbVars, notEmptyAccess, notFullAccess, writerVars,
                   readerVars, history>>

\* The steps of a call in progress.
WriterStep ==
    \/ WriteLock \/ WriteCheck \/ WriteWait \/ WriteWake \/ WriteUnlock
    \/ WritePtr \/ WriteCopy \/ WriteGive
    \/ WriteLockNotify \/ WriteNotify \/ WriteUnlockNotify

ReaderStep ==
    \/ ReadLock \/ ReadCheck \/ ReadWait \/ ReadWake \/ ReadUnlock
    \/ ReadPtr \/ ReadCopy \/ TakeStart \/ PeekOnly \/ ReadTake
    \/ ReadLockNotify \/ ReadNotify \/ ReadUnlockNotify

Next ==
    \/ \E n \in WriteLengths : WriteStart(n)
    \/ \E n \in ReadLengths : ReadStart(n)
    \/ \E n \in PeekLengths : PeekStart(n)
    \/ WriterStep
    \/ ReaderStep
    \/ SpuriousWakeup

Spec == Init /\ [][Next]_vars

\* A thread inside a call keeps running, and a thread that asks again and
\* again for a mutex that others keep giving back gets it in the end.
Fairness ==
    /\ WF_vars(WriterStep) /\ WF_vars(ReaderStep)
    /\ SF_vars(WriteLock) /\ SF_vars(WriteWake) /\ SF_vars(WriteLockNotify)
    /\ SF_vars(ReadLock) /\ SF_vars(ReadWake) /\ SF_vars(ReadLockNotify)

FairSpec == Spec /\ Fairness
-----------------------------------------------------------------------------
(* Properties.                                                             *)

WriterPcs == {"idle", "lockNotFull", "check", "wait", "waiting",
              "unlockNotFull", "spacePtr", "copy", "give", "lockNotEmpty",
              "notify", "unlockNotEmpty", "failed"}
ReaderPcs == {"idle", "lockNotEmpty", "check", "wait", "waiting",
              "unlockNotEmpty", "dataPtr", "copy", "peeked", "take",
              "lockNotFull", "notify", "unlockNotFull", "failed"}

\* Every variable stays in its range: the head pointers stay inside the
\* doubled mapping and the locals of the calls are lengths and offsets.
TypeOK ==
    /\ first \in Cells /\ last \in 0..(2 * Size - 1)
    /\ ring \in [Cells -> Nat]
    /\ notEmptyAccess \in Holders /\ notFullAccess \in Holders
    /\ notEmpty \subseteq {"reader"} /\ notFull \subseteq {"writer"}
    /\ wpc \in WriterPcs /\ wRest \in Nat /\ wLen \in 0..Size
    /\ wOff \in 0..(2 * Size - 1)
    /\ rpc \in ReaderPcs /\ rOp \in {"read", "peek"} /\ rRest \in Nat
    /\ rLen \in 0..Size /\ rOff \in Cells
    /\ given \in Nat /\ taken \in Nat
    /\ DOMAIN buf \subseteq Nat
    /\ DOMAIN delivered = 0..(taken - 1)

\* The reader gets the writer's bytes, each once and in order: no chunking,
\* wrap-around or stale length in readFunc and writeFunc loses, repeats or
\* overwrites one.
StreamIntact == \A i \in DOMAIN delivered : delivered[i] = i

\* The cells the two memcpys are about to touch.  A caller that has peeked
\* keeps looking through the pointer it got.
WriterCells == IF wpc = "copy" THEN {Cell(wOff + d) : d \in 0..(wChunk - 1)}
                               ELSE {}
ReaderCells == IF rpc \in {"copy", "peeked"}
               THEN {Cell(rOff + d) : d \in 0..(rChunk - 1)} ELSE {}

\* writeFunc and readFunc copy outside every lock, with an offset and a
\* length read earlier: they still never copy into and out of one cell.
NoDataRace == WriterCells \cap ReaderCells = {}

\* The offset that writeFunc read before a take moved both pointers back
\* still starts a span of addresses inside the doubled mapping, and so does
\* the offset readFunc reads.
CopyInWindow ==
    /\ wpc = "copy" => wOff + wChunk <= 2 * Size
    /\ rpc = "copy" => rOff + rChunk <= 2 * Size

\* The length checked under a condition's mutex still holds when the ring is
\* moved, after that mutex has been given back: vrb_give and vrb_take never
\* refuse, and no call gives up in the middle of a message.
NoVrbError == wpc # "failed" /\ rpc # "failed"

\* Whoever sleeps although what it waits for is there, is about to be woken:
\* the other thread is still on its way to the notify.  The ring is moved
\* without the mutex the sleeper checked under, so a wakeup could fall
\* between the check and the sleep.
NoLostWakeup ==
    /\ (rpc = "wait" \/ "reader" \in notEmpty) /\ getDataLength >= rNeeded
         => wpc \in {"lockNotEmpty", "notify"}
    /\ (wpc = "wait" \/ "writer" \in notFull) /\ getSpaceLength > 0
         => rpc \in {"lockNotFull", "notify"}

\* A read or peek whose bytes have all arrived returns.
ReaderServed ==
    rpc # "idle" /\ rRest > 0 /\ getDataLength >= rRest ~> rpc = "idle"

\* A write for which there is room returns.
WriterServed ==
    wpc # "idle" /\ wRest > 0 /\ getSpaceLength >= wRest ~> wpc = "idle"

\* The channel is the bounded byte stream that ByteStream describes.
Stream == INSTANCE ByteStream
             WITH Capacity <- Size, put <- given, got <- taken,
                  out <- delivered
ImplementsByteStream == Stream!Spec
=============================================================================
