-------------------------- MODULE ShmStreamProofs --------------------------
(***************************************************************************)
(* Proofs about ShmStream for every ring size and every choice of lengths. *)
(* StreamInv is the inductive invariant: what each thread, wherever it is  *)
(* in its function, may still rely on of what it read earlier.             *)
(***************************************************************************)
EXTENDS ShmStream, TLAPS

\* The ring's head: the data lies between the pointers, and fits.
HeadInv ==
    /\ first \in Cells /\ last \in Nat
    /\ first <= last /\ last <= first + Size
    /\ given - taken = last - first

\* The cells that hold data hold the oldest bytes not yet taken, in order.
DataInv == \A k \in 0..(last - first - 1) : ring[Cell(first + k)] = taken + k

\* What was read is the stream's beginning.
HistoryInv == delivered = [i \in 0..(taken - 1) |-> i]

\* The space the writer saw can only have grown since.  A take may have moved
\* the head back by one mapping under the offset it read, at most once.
WriterInv ==
    /\ wpc \in {"unlockNotFull", "spacePtr", "copy", "give"}
         => 1 <= wLen /\ wLen <= getSpaceLength
    /\ wpc = "copy" => /\ wOff = last \/ wOff = last + Size
                       /\ wOff + wLen <= 2 * Size
    /\ wpc = "give" => \A k \in 0..(wChunk - 1) :
                          ring[Cell(last + k)] = given + k

\* The data the reader saw can only have grown, and only it moves first.
ReaderInv ==
    /\ rpc \in {"unlockNotEmpty", "dataPtr", "copy", "peeked", "take"}
         => rNeeded <= rLen /\ rLen <= getDataLength
    /\ rpc \in {"copy", "peeked", "take"} => rOff = first
    /\ rpc \in {"peeked", "take"} => buf = [i \in 0..(rChunk - 1) |-> taken + i]

\* Who is where while it holds a mutex or sleeps.
LockInv ==
    /\ notFullAccess = "writer" <=> wpc \in {"check", "wait", "unlockNotFull"}
    /\ notFullAccess = "reader" <=> rpc \in {"notify", "unlockNotFull"}
    /\ notEmptyAccess = "reader" <=> rpc \in {"check", "wait", "unlockNotEmpty"}
    /\ notEmptyAccess = "writer" <=> wpc \in {"notify", "unlockNotEmpty"}
    /\ "reader" \in notEmpty => rpc = "waiting"
    /\ "writer" \in notFull => wpc = "waiting"

StreamInv == TypeOK /\ HeadInv /\ DataInv /\ HistoryInv /\ WriterInv
                    /\ ReaderInv /\ LockInv /\ NoVrbError /\ NoLostWakeup

-----------------------------------------------------------------------------
(* Lemmas on the doubled mapping and on notify.                            *)

\* An address and the one a mapping further are the same cell.
LEMMA SameCell ==
  ASSUME NEW p \in Nat, p < 2 * Size
  PROVE  /\ Cell(p) \in Cells
         /\ p >= Size => Cell(p - Size) = Cell(p)
         /\ p < Size => Cell(p + Size) = Cell(p)
BY ShmStreamAssumption DEF Cell, Cells

\* A copy of n bytes into the space after the data [f, l) reaches the cells
\* it is meant for and none that holds data.
LEMMA CopiedCells ==
  ASSUME NEW f \in Cells, NEW l \in Nat, f <= l,
         NEW n \in Nat \ {0}, n <= Size - (l - f),
         NEW p \in Nat, p = l \/ p = l + Size, p + n <= 2 * Size
  PROVE  /\ \A k \in 0..(l - f - 1) : /\ Cell(f + k) \in Cells
                                     /\ Distance(p, Cell(f + k)) >= n
         /\ \A k \in 0..(n - 1) : /\ Cell(l + k) \in Cells
                                  /\ Distance(p, Cell(l + k)) = k
         /\ \A c \in Cells : Distance(p, c) \in Nat
<1>1. Cell(p) = Cell(l)
  BY ShmStreamAssumption DEF Cell, Cells
<1> QED BY <1>1, ShmStreamAssumption DEF Cell, Cells, Distance

\* With one thread at most on a condition, a notify leaves it empty.
LEMMA NotifyEmpties ==
  ASSUME NEW t, NEW S, S \subseteq {t}, NEW Z \in gvNotify(S) PROVE Z = {}
BY DEF gvNotify

-----------------------------------------------------------------------------
(* The steps that move bytes, each of which keeps the invariant.           *)

LEMMA WriteCopyStep ==
  ASSUME StreamInv, WriteCopy PROVE StreamInv'
<1>1. /\ first \in Cells /\ last \in Nat /\ first <= last
      /\ wLen \in Nat \ {0} /\ wLen <= Size - (last - first)
      /\ wOff \in Nat /\ (wOff = last \/ wOff = last + Size)
      /\ wOff + wLen <= 2 * Size
      /\ wChunk \in 0..wLen /\ given \in Nat /\ taken \in Nat
      /\ ring \in [Cells -> Nat] /\ wpc = "copy" /\ Size \in Nat
  BY ShmStreamAssumption
  DEF StreamInv, TypeOK, HeadInv, WriterInv, WriteCopy, wChunk, getSpaceLength,
      Cells
<1>2. /\ ring' = [c \in Cells |-> IF Distance(wOff, c) < wChunk
                                 THEN given + Distance(wOff, c) ELSE ring[c]]
      /\ wpc' = "give"
      /\ UNCHANGED <<first, last, syncVars, wRest, wLen, wOff, readerVars,
                     history>>
  BY DEF WriteCopy
<1>3. /\ \A k \in 0..(last - first - 1) : /\ Cell(first + k) \in Cells
                                        /\ Distance(wOff, Cell(first + k)) >= wLen
      /\ \A k \in 0..(wLen - 1) : /\ Cell(last + k) \in Cells
                               /\ Distance(wOff, Cell(last + k)) = k
      /\ \A c \in Cells : Distance(wOff, c) \in Nat
  BY <1>1, CopiedCells
<1>4. ring' \in [Cells -> Nat]
  BY <1>1, <1>2, <1>3
<1>5. \A k \in 0..(last - first - 1) : ring'[Cell(first + k)] = taken + k
  <2> SUFFICES ASSUME NEW k \in 0..(last - first - 1)
               PROVE ring'[Cell(first + k)] = taken + k
    OBVIOUS
  <2>1. ring[Cell(first + k)] = taken + k
    BY DEF StreamInv, DataInv
  <2>2. ~(Distance(wOff, Cell(first + k)) < wChunk)
    BY <1>1, <1>3
  <2> QED BY <1>2, <1>3, <2>1, <2>2
<1>6. \A k \in 0..(wChunk - 1) : ring'[Cell(last + k)] = given + k
  <2> SUFFICES ASSUME NEW k \in 0..(wChunk - 1)
               PROVE ring'[Cell(last + k)] = given + k
    OBVIOUS
  <2>1. k \in 0..(wLen - 1) /\ k < wChunk
    BY <1>1
  <2> QED BY <1>2, <1>3, <2>1
<1>7. TypeOK' /\ HeadInv' /\ DataInv' /\ HistoryInv'
  BY <1>2, <1>4, <1>5
  DEF StreamInv, TypeOK, HeadInv, DataInv, HistoryInv, syncVars, readerVars,
      history, WriterPcs
<1>8. WriterInv' /\ ReaderInv'
  BY <1>1, <1>2, <1>6
  DEF StreamInv, WriterInv, ReaderInv, readerVars, history, getSpaceLength,
      getDataLength, rNeeded, rChunk, wChunk
<1>9. LockInv' /\ NoVrbError' /\ NoLostWakeup'
  BY <1>1, <1>2
  DEF StreamInv, LockInv, NoVrbError, NoLostWakeup, syncVars, readerVars,
      getSpaceLength, getDataLength, rNeeded
<1> QED BY <1>7, <1>8, <1>9 DEF StreamInv

LEMMA WriteGiveStep ==
  ASSUME StreamInv, WriteGive PROVE StreamInv'
<1>1. /\ first \in Cells /\ last \in Nat /\ first <= last
      /\ wLen \in 0..Size /\ wLen <= Size - (last - first)
      /\ wRest \in Nat /\ given \in Nat /\ taken \in Nat
      /\ given - taken = last - first /\ wpc = "give" /\ Size \in Nat \ {0}
      /\ wChunk \in 0..wLen /\ wChunk <= wRest
  BY ShmStreamAssumption
  DEF StreamInv, TypeOK, HeadInv, WriterInv, WriteGive, wChunk, getSpaceLength
<1>2. /\ last' = last + wChunk /\ given' = given + wChunk
      /\ wRest' = wRest - wChunk /\ wpc' = "lockNotEmpty"
      /\ UNCHANGED <<first, ring, syncVars, wLen, wOff, readerVars, taken,
                     delivered>>
  BY <1>1 DEF WriteGive, give, getSpaceLength
<1>3. \A k \in 0..(last' - first' - 1) : ring'[Cell(first' + k)] = taken' + k
  <2> SUFFICES ASSUME NEW k \in 0..(last + wChunk - first - 1)
               PROVE ring[Cell(first + k)] = taken + k
    <3>1. last' - first' - 1 = last + wChunk - first - 1
      BY <1>1, <1>2 DEF Cells
    <3> QED BY <1>2, <3>1
  <2>1. CASE k < last - first
    <3>1. k \in 0..(last - first - 1)
      BY <2>1, <1>1 DEF Cells
    <3> QED BY <3>1 DEF StreamInv, DataInv
  <2>2. CASE k >= last - first
    <3> DEFINE j == k - (last - first)
    <3>1. /\ j \in 0..(wChunk - 1) /\ last + j = first + k
          /\ given + j = taken + k
      BY <2>2, <1>1 DEF Cells
    <3>2. ring[Cell(last + j)] = given + j
      BY <1>1, <3>1 DEF StreamInv, WriterInv
    <3> QED BY <3>1, <3>2
  <2> QED BY <2>1, <2>2, <1>1 DEF Cells
<1>4. TypeOK' /\ HeadInv' /\ DataInv' /\ HistoryInv'
  BY <1>1, <1>2, <1>3
  DEF StreamInv, TypeOK, HeadInv, DataInv, HistoryInv, syncVars, readerVars,
      WriterPcs, Cells
<1>5. WriterInv' /\ ReaderInv'
  BY <1>1, <1>2
  DEF StreamInv, WriterInv, ReaderInv, TypeOK, readerVars, getDataLength, rNeeded,
      rChunk, Cells
<1>6. LockInv' /\ NoVrbError' /\ NoLostWakeup'
  BY <1>1, <1>2
  DEF StreamInv, TypeOK, LockInv, NoVrbError, NoLostWakeup, syncVars, readerVars,
      getSpaceLength, getDataLength, rNeeded, Cells
<1> QED BY <1>4, <1>5, <1>6 DEF StreamInv

LEMMA ReadCopyStep ==
  ASSUME StreamInv, ReadCopy PROVE StreamInv'
<1>1. /\ first \in Nat /\ last \in Nat /\ first <= last /\ rOff = first
      /\ rLen \in Nat /\ rRest \in Nat /\ rLen <= last - first
      /\ taken \in Nat /\ rpc = "copy"
      /\ rChunk \in 0..(last - first)
  BY ShmStreamAssumption
  DEF StreamInv, TypeOK, HeadInv, ReaderInv, ReadCopy, rChunk, getDataLength,
      Cells
<1>2. /\ buf' = [i \in 0..(rChunk - 1) |-> ring[Cell(rOff + i)]]
      /\ rpc' \in {"peeked", "take"}
      /\ UNCHANGED <<vrbVars, syncVars, writerVars, rOp, rRest, rLen, rOff,
                     history>>
  BY DEF ReadCopy
<1>3. \A i \in 0..(rChunk - 1) : ring[Cell(rOff + i)] = taken + i
  BY <1>1 DEF StreamInv, DataInv
<1>4. buf' = [i \in 0..(rChunk - 1) |-> taken + i]
  BY <1>2, <1>3
<1>5. DOMAIN buf' \subseteq Nat
  BY <1>1, <1>4
<1>6. TypeOK' /\ HeadInv' /\ DataInv' /\ HistoryInv'
  BY <1>1, <1>2, <1>5
  DEF StreamInv, TypeOK, HeadInv, DataInv, HistoryInv, syncVars, writerVars,
      vrbVars, history, ReaderPcs
<1>7. WriterInv' /\ ReaderInv'
  BY <1>1, <1>2, <1>4
  DEF StreamInv, WriterInv, ReaderInv, writerVars, vrbVars, history,
      getSpaceLength, getDataLength, rNeeded, rChunk, wChunk
<1>8. LockInv' /\ NoVrbError' /\ NoLostWakeup'
  BY <1>1, <1>2
  DEF StreamInv, LockInv, NoVrbError, NoLostWakeup, syncVars, writerVars,
      vrbVars, getSpaceLength, getDataLength, rNeeded
<1> QED BY <1>6, <1>7, <1>8 DEF StreamInv

LEMMA ReadTakeStep ==
  ASSUME StreamInv, ReadTake PROVE StreamInv'
<1> DEFINE f == IF first + rChunk >= Size THEN first + rChunk - Size
                                          ELSE first + rChunk
           l == IF first + rChunk >= Size THEN last - Size ELSE last
           t == taken + rChunk
<1>1. /\ first \in 0..(Size - 1) /\ last \in Nat /\ first <= last
      /\ last <= first + Size /\ given - taken = last - first
      /\ rLen \in Nat /\ rRest \in Nat /\ rLen <= last - first
      /\ taken \in Nat /\ given \in Nat /\ rpc = "take"
      /\ rChunk \in Nat /\ rChunk <= last - first /\ rChunk <= rRest
      /\ Size \in Nat \ {0}
  <2>1. /\ rLen \in Nat /\ rLen <= last - first /\ rRest \in Nat
        /\ rpc = "take"
    BY DEF StreamInv, TypeOK, ReaderInv, ReadTake, getDataLength
  <2>2. HeadInv /\ taken \in Nat /\ given \in Nat
    BY DEF StreamInv, TypeOK
  <2> QED BY <2>1, <2>2, ShmStreamAssumption DEF HeadInv, Cells, rChunk
<1>2. /\ first' = f /\ last' = l
      /\ taken' = t /\ rRest' = rRest - rChunk
      /\ rpc' = "lockNotFull"
      /\ UNCHANGED <<ring, syncVars, writerVars, rOp, rLen, rOff, buf, given>>
  <2>1. ~(rChunk > getDataLength)
    BY <1>1 DEF getDataLength
  <2> QED BY <2>1 DEF ReadTake, take
<1>3. /\ f \in 0..(Size - 1) /\ l \in 0..(2 * Size - 1)
      /\ f <= l /\ l <= f + Size /\ l - f = last - first - rChunk
  BY <1>1
<1>4. delivered' = [i \in 0..(t - 1) |-> i]
  <2>1. buf = [i \in 0..(rChunk - 1) |-> taken + i]
    BY <1>1 DEF StreamInv, ReaderInv
  <2>2. delivered = [i \in 0..(taken - 1) |-> i]
    BY DEF StreamInv, HistoryInv
  <2>3. ~(rChunk > getDataLength)
    BY <1>1 DEF getDataLength
  <2>4. delivered' = [i \in 0..(taken + rChunk - 1) |->
                        IF i < taken THEN delivered[i] ELSE buf[i - taken]]
    BY <2>3 DEF ReadTake
  <2> QED BY <1>1, <2>1, <2>2, <2>4
<1>5. \A k \in 0..(l - f - 1) : ring[Cell(f + k)] = t + k
  <2> SUFFICES ASSUME NEW k \in 0..(l - f - 1)
               PROVE ring[Cell(f + k)] = t + k
    OBVIOUS
  <2>1. rChunk + k \in 0..(last - first - 1)
    BY <1>1, <1>3
  <2>2. ring[Cell(first + (rChunk + k))] = taken + (rChunk + k)
    BY <2>1 DEF StreamInv, DataInv
  <2>3. Cell(f + k) = Cell(first + (rChunk + k))
    BY <1>1, <2>1 DEF Cell
  <2>4. taken + (rChunk + k) = t + k
    BY <1>1, <2>1
  <2> QED BY <2>2, <2>3, <2>4
<1>6. /\ wpc \in {"unlockNotFull", "spacePtr", "copy", "give"}
           => 1 <= wLen /\ wLen <= Size - (l - f)
      /\ wpc = "copy" => wOff = l \/ wOff = l + Size
      /\ wpc = "give" => \A k \in 0..(wChunk - 1) :
                            ring[Cell(l + k)] = given + k
  <2>1. wLen \in Nat /\ wOff \in Nat /\ wRest \in Nat /\ WriterInv
    BY DEF StreamInv, TypeOK
  <2>2. CASE wpc = "give"
    <3>1. \A k \in 0..(wChunk - 1) : ring[Cell(last + k)] = given + k
      BY <2>1, <2>2 DEF WriterInv
    <3>2. 1 <= wLen /\ wLen <= Size - (last - first)
      BY <2>1, <2>2 DEF WriterInv, getSpaceLength
    <3>3. \A k \in 0..(wChunk - 1) : Cell(l + k) = Cell(last + k)
      BY <1>1, <2>1, <3>2 DEF Cell, wChunk
    <3> QED BY <1>1, <1>3, <2>1, <2>2, <3>1, <3>2, <3>3
  <2>3. CASE wpc # "give"
    BY <1>1, <2>1, <2>3 DEF WriterInv, getSpaceLength
  <2> QED BY <2>2, <2>3
<1> HIDE DEF f, l, t
<1>7. TypeOK'
  <2>1. DOMAIN delivered' = 0..(t - 1) /\ t \in Nat /\ rRest - rChunk \in Nat
    BY <1>1, <1>4 DEF t
  <2>2. TypeOK
    BY DEF StreamInv
  <2>3. /\ first' \in Cells /\ last' \in 0..(2 * Size - 1)
        /\ taken' \in Nat /\ rRest' \in Nat /\ rpc' \in ReaderPcs
        /\ DOMAIN delivered' = 0..(taken' - 1)
    BY <1>2, <1>3, <2>1 DEF Cells, ReaderPcs
  <2> QED BY Zenon, <1>2, <2>2, <2>3 DEF TypeOK, syncVars, writerVars
<1>8. HeadInv' /\ DataInv' /\ HistoryInv'
  <2>1. given - t = l - f /\ l \in Nat /\ f \in Cells
    BY <1>1, <1>3 DEF Cells, t
  <2>2. HeadInv'
    BY <1>2, <1>3, <2>1 DEF HeadInv
  <2>3. DataInv'
    BY <1>2, <1>5 DEF DataInv
  <2>4. HistoryInv'
    BY <1>2, <1>4 DEF HistoryInv
  <2> QED BY <2>2, <2>3, <2>4
<1>9. WriterInv' /\ ReaderInv'
  <2>1. wpc = "copy" => wOff + wLen <= 2 * Size
    BY DEF StreamInv, WriterInv
  <2> QED BY <1>2, <1>6, <2>1
          DEF WriterInv, ReaderInv, getSpaceLength, wChunk, writerVars
<1>10. LockInv' /\ NoVrbError' /\ NoLostWakeup'
  <2>1. rpc = "take"
    BY <1>1
  <2>2. LockInv' /\ NoVrbError'
    BY Zenon, <1>2, <2>1 DEF StreamInv, LockInv, NoVrbError, syncVars, writerVars
  <2>3. NoLostWakeup'
    BY Zenon, <1>2, <2>1 DEF StreamInv, LockInv, NoLostWakeup, syncVars, writerVars
  <2> QED BY <2>2, <2>3
<1> QED BY <1>7, <1>8, <1>9, <1>10 DEF StreamInv

-----------------------------------------------------------------------------
\* Every step keeps the inductive invariant.
LEMMA StreamStep == StreamInv /\ [Next]_vars => StreamInv'
<1> SUFFICES ASSUME StreamInv, [Next]_vars PROVE StreamInv'
  OBVIOUS
<1>1. CASE WriteCopy
  BY <1>1, WriteCopyStep
<1>2. CASE WriteGive
  BY <1>2, WriteGiveStep
<1>3. CASE ReadCopy
  BY <1>3, ReadCopyStep
<1>4. CASE ReadTake
  BY <1>4, ReadTakeStep
<1> USE ShmStreamAssumption
    DEF StreamInv, TypeOK, HeadInv, DataInv, HistoryInv, WriterInv, ReaderInv,
        LockInv, NoVrbError, NoLostWakeup, vrbVars, syncVars, writerVars,
        readerVars, history, Cells, Holders, Free, WriterPcs, ReaderPcs,
        getDataLength, getSpaceLength, getDataPtr, getSpacePtr, rNeeded,
        wChunk, rChunk, Cell, Empty
<1>5. CASE WriteLock
  BY <1>5 DEF WriteLock
<1>6. CASE WriteCheck
  BY <1>6 DEF WriteCheck
<1>7. CASE WriteWait
  BY <1>7 DEF WriteWait
<1>8. CASE WriteWake
  BY <1>8 DEF WriteWake
<1>9. CASE WriteUnlock
  BY <1>9 DEF WriteUnlock
<1>10. CASE WritePtr
  BY <1>10 DEF WritePtr
<1>11. CASE WriteLockNotify
  BY <1>11 DEF WriteLockNotify
<1>12. CASE WriteNotify
  <2>1. notEmpty' = {}
    BY <1>12, NotifyEmpties DEF WriteNotify
  <2> QED BY <1>12, <2>1 DEF WriteNotify
<1>13. CASE WriteUnlockNotify
  BY <1>13 DEF WriteUnlockNotify
<1>14. CASE ReadLock
  BY SMTT(30), <1>14 DEF ReadLock
<1>15. CASE ReadCheck
  BY <1>15 DEF ReadCheck
<1>16. CASE ReadWait
  BY <1>16 DEF ReadWait
<1>17. CASE ReadWake
  BY SMTT(30), <1>17 DEF ReadWake
<1>18. CASE ReadUnlock
  BY <1>18 DEF ReadUnlock
<1>19. CASE ReadPtr
  BY <1>19 DEF ReadPtr
<1>20. CASE TakeStart
  BY <1>20 DEF TakeStart
<1>21. CASE PeekOnly
  BY <1>21 DEF PeekOnly
<1>22. CASE ReadLockNotify
  BY <1>22 DEF ReadLockNotify
<1>23. CASE ReadNotify
  <2>1. notFull' = {}
    BY <1>23, NotifyEmpties DEF ReadNotify
  <2> QED BY <1>23, <2>1 DEF ReadNotify
<1>24. CASE ReadUnlockNotify
  BY <1>24 DEF ReadUnlockNotify
<1>25. CASE SpuriousWakeup
  <2>1. /\ notEmpty' \subseteq notEmpty /\ notFull' \subseteq notFull
        /\ UNCHANGED <<vrbVars, notEmptyAccess, notFullAccess, writerVars,
                       readerVars, history>>
    BY <1>25 DEF SpuriousWakeup
  <2>2. TypeOK' /\ HeadInv' /\ DataInv' /\ HistoryInv' /\ WriterInv'
    BY <2>1
  <2>3. ReaderInv'
    BY <2>1
  <2>4. LockInv' /\ NoVrbError' /\ NoLostWakeup'
    BY <2>1
  <2> QED BY <2>2, <2>3, <2>4
<1>26. ASSUME NEW n \in WriteLengths, WriteStart(n) PROVE StreamInv'
  BY <1>26 DEF WriteStart
<1>27. ASSUME NEW n \in ReadLengths, ReadStart(n) PROVE StreamInv'
  BY <1>27 DEF ReadStart
<1>28. ASSUME NEW n \in PeekLengths, PeekStart(n) PROVE StreamInv'
  BY <1>28 DEF PeekStart
<1>29. CASE UNCHANGED vars
  BY <1>29 DEF vars
<1> QED BY Zenon, <1>1, <1>2, <1>3, <1>4, <1>5, <1>6, <1>7, <1>8, <1>9, <1>10,
          <1>11, <1>12, <1>13, <1>14, <1>15, <1>16, <1>17, <1>18, <1>19,
          <1>20, <1>21, <1>22, <1>23, <1>24, <1>25, <1>26, <1>27, <1>28,
          <1>29 DEF Next, WriterStep, ReaderStep

\* StreamInv holds in every reachable state.
THEOREM StreamInvariance == Spec => []StreamInv
<1>1. Init => StreamInv
  BY ShmStreamAssumption
  DEF Init, StreamInv, TypeOK, HeadInv, DataInv, HistoryInv, WriterInv,
      ReaderInv, LockInv, NoVrbError, NoLostWakeup, Cells, Holders, Free,
      WriterPcs, ReaderPcs, getDataLength, getSpaceLength, rNeeded, Empty
<1> QED BY <1>1, StreamStep, PTL DEF Spec

-----------------------------------------------------------------------------
\* Typing: the pointers of vrbHead and the locals of readFunc and writeFunc
\* stay in range for every ring size and every choice of lengths.
THEOREM TypeCorrect == Spec => []TypeOK
BY StreamInvariance, PTL DEF StreamInv

\* No byte is lost, repeated, reordered or overwritten on the way from write
\* to read.
THEOREM Intact == Spec => []StreamIntact
<1>1. StreamInv => StreamIntact
  BY DEF StreamInv, HistoryInv, StreamIntact
<1> QED BY <1>1, StreamInvariance, PTL

\* The two memcpys, which run under no lock, never touch a common cell.
THEOREM RaceFree == Spec => []NoDataRace
<1>1. StreamInv => NoDataRace
  <2> SUFFICES ASSUME StreamInv,
                      wpc = "copy", NEW d \in 0..(wChunk - 1),
                      rpc \in {"copy", "peeked"}, NEW i \in 0..(rChunk - 1)
               PROVE  Cell(wOff + d) # Cell(rOff + i)
    BY DEF NoDataRace, WriterCells, ReaderCells
  <2>1. /\ first \in Cells /\ last \in Nat /\ first <= last /\ rOff = first
        /\ wOff \in Nat /\ wLen \in Nat \ {0} /\ wLen <= Size - (last - first)
        /\ (wOff = last \/ wOff = last + Size) /\ wOff + wLen <= 2 * Size
        /\ d \in 0..(wLen - 1) /\ i \in 0..(last - first - 1)
    BY DEF StreamInv, TypeOK, HeadInv, WriterInv, ReaderInv, wChunk, rChunk,
           getDataLength, getSpaceLength, Cells
  <2> QED BY <2>1, ShmStreamAssumption DEF Cell, Cells
<1> QED BY <1>1, StreamInvariance, PTL

\* Neither memcpy runs off the end of the doubled mapping.
THEOREM InWindow == Spec => []CopyInWindow
<1>1. StreamInv => CopyInWindow
  <2> SUFFICES ASSUME StreamInv PROVE CopyInWindow
    OBVIOUS
  <2>1. wpc = "copy" => wOff + wChunk <= 2 * Size
    BY ShmStreamAssumption DEF StreamInv, TypeOK, WriterInv, wChunk
  <2>2. rpc = "copy" => rOff + rChunk <= 2 * Size
    <3>1. rpc = "copy" => /\ rOff \in 0..(Size - 1) /\ rChunk \in Int
                          /\ rChunk <= Size
      BY ShmStreamAssumption DEF StreamInv, TypeOK, rChunk, Cells
    <3> QED BY <3>1, ShmStreamAssumption
  <2> QED BY <2>1, <2>2 DEF CopyInWindow
<1> QED BY <1>1, StreamInvariance, PTL

\* vrb_give and vrb_take, called after the mutex of the check was given back,
\* never refuse.
THEOREM VrbNeverRefuses == Spec => []NoVrbError
BY StreamInvariance, PTL DEF StreamInv

\* A thread that sleeps although its condition holds is about to be woken.
THEOREM WakeupNotLost == Spec => []NoLostWakeup
BY StreamInvariance, PTL DEF StreamInv

-----------------------------------------------------------------------------
(* Freedom from deadlock, which the liveness properties rest on.           *)

\* A thread is inside a call and neither sleeps nor waits for a mutex that is
\* held: the guard of its next step is true.
WriterMoves ==
    /\ wpc \notin {"idle", "failed"}
    /\ wpc = "waiting" => "writer" \notin notFull
    /\ wpc \in {"lockNotFull", "waiting"} => notFullAccess = Free
    /\ wpc = "lockNotEmpty" => notEmptyAccess = Free

ReaderMoves ==
    /\ rpc \notin {"idle", "failed"}
    /\ rpc = "waiting" => "reader" \notin notEmpty
    /\ rpc \in {"lockNotEmpty", "waiting"} => notEmptyAccess = Free
    /\ rpc = "lockNotFull" => notFullAccess = Free

\* While there is room for a write in progress, or what a read in progress
\* waits for is there, a thread can go on; if both are in a call, one of the
\* two holds, since peekFunc never waits for more than the ring can hold.  So
\* the sleepers and the holders of the two mutexes never form a cycle.
NeverBothStuck ==
    /\ wpc # "idle" /\ getSpaceLength > 0 => WriterMoves \/ ReaderMoves
    /\ rpc # "idle" /\ getDataLength >= rNeeded => WriterMoves \/ ReaderMoves
    /\ wpc # "idle" /\ rpc # "idle" => WriterMoves \/ ReaderMoves

\* What rNeeded comes to: no peek is for more than the ring holds.
PeekFits == rOp = "peek" => rRest <= Size

LEMMA PeekFitsStep == TypeOK /\ PeekFits /\ [Next]_vars => PeekFits'
<1> SUFFICES ASSUME TypeOK, PeekFits, [Next]_vars PROVE PeekFits'
  OBVIOUS
<1>1. CASE ReadTake
  <2>1. rOp' = rOp /\ (rRest' = rRest \/ rRest' = rRest - rChunk)
    BY Zenon, <1>1 DEF ReadTake
  <2>2. rRest \in Nat /\ rChunk \in Nat /\ Size \in Nat
    BY ShmStreamAssumption DEF TypeOK, rChunk
  <2> QED BY <2>1, <2>2 DEF PeekFits
<1>2. ASSUME NEW n \in PeekLengths, PeekStart(n) PROVE PeekFits'
  BY <1>2, ShmStreamAssumption DEF PeekStart, PeekFits
<1>3. ASSUME NEW n \in ReadLengths, ReadStart(n) PROVE PeekFits'
  BY <1>3 DEF ReadStart, PeekFits
<1>4. CASE PeekOnly
  BY <1>4, ShmStreamAssumption DEF PeekOnly, PeekFits
<1>5. CASE UNCHANGED <<rOp, rRest>>
  BY Zenon, <1>5 DEF PeekFits
<1>6. \/ ReadTake \/ PeekOnly \/ UNCHANGED <<rOp, rRest>>
      \/ \E n \in ReadLengths : ReadStart(n)
      \/ \E n \in PeekLengths : PeekStart(n)
  BY DEF Next, WriterStep, ReaderStep, vars, readerVars,
      WriteStart, WriteLock, WriteCheck, WriteWait, WriteWake, WriteUnlock,
      WritePtr, WriteCopy, WriteGive, WriteLockNotify, WriteNotify,
      WriteUnlockNotify, ReadLock, ReadCheck, ReadWait, ReadWake, ReadUnlock,
      ReadPtr, ReadCopy, TakeStart, ReadLockNotify, ReadNotify,
      ReadUnlockNotify, SpuriousWakeup
<1> QED BY Zenon, <1>1, <1>2, <1>3, <1>4, <1>5, <1>6

LEMMA StreamMoves == StreamInv /\ PeekFits => NeverBothStuck
<1> SUFFICES ASSUME StreamInv, PeekFits PROVE NeverBothStuck
  OBVIOUS
<1>1. /\ wpc \in WriterPcs \ {"failed"} /\ rpc \in ReaderPcs \ {"failed"}
      /\ notEmptyAccess \in Holders /\ notFullAccess \in Holders
      /\ rOp \in {"read", "peek"} /\ rRest \in Nat
  BY Zenon DEF StreamInv, TypeOK, NoVrbError
<1>2. LockInv /\ NoLostWakeup
  BY Zenon DEF StreamInv
<1>3. /\ getSpaceLength = Size - getDataLength
      /\ getDataLength \in Nat /\ Size \in Nat \ {0}
  BY ShmStreamAssumption
  DEF StreamInv, HeadInv, getSpaceLength, getDataLength, Cells
<1>4. getSpaceLength > 0 \/ getDataLength >= rNeeded
  BY <1>1, <1>3 DEF PeekFits, rNeeded
<1>5. ASSUME wpc # "idle", getSpaceLength > 0 PROVE WriterMoves \/ ReaderMoves
  <2>1. "writer" \in notFull => rpc \in {"lockNotFull", "notify"}
    BY Zenon, <1>2, <1>5 DEF NoLostWakeup
  <2> QED BY <1>1, <1>2, <1>5, <2>1
          DEF LockInv, WriterMoves, ReaderMoves, WriterPcs, ReaderPcs, Holders,
              Free
<1>6. ASSUME rpc # "idle", getDataLength >= rNeeded
      PROVE  WriterMoves \/ ReaderMoves
  <2>1. "reader" \in notEmpty => wpc \in {"lockNotEmpty", "notify"}
    BY Zenon, <1>2, <1>6 DEF NoLostWakeup
  <2> QED BY <1>1, <1>2, <1>6, <2>1
          DEF LockInv, WriterMoves, ReaderMoves, WriterPcs, ReaderPcs, Holders,
              Free
<1> QED BY Zenon, <1>4, <1>5, <1>6 DEF NeverBothStuck

\* Writer and reader never wait for each other: neither on the two mutexes nor
\* asleep on the two conditions.
THEOREM ChannelDeadlockFree == Spec => []NeverBothStuck
<1>1. Init => PeekFits
  BY ShmStreamAssumption DEF Init, PeekFits
<1>2. Spec => []PeekFits
  <2>1. TypeOK /\ PeekFits /\ [Next]_vars => PeekFits'
    BY PeekFitsStep
  <2> QED BY <1>1, <2>1, TypeCorrect, PTL DEF Spec
<1> QED BY <1>2, StreamInvariance, StreamMoves, PTL

-----------------------------------------------------------------------------
\* The channel implements the bounded byte stream of ByteStream.
THEOREM Refinement == Spec => ImplementsByteStream
<1>1. Init => Stream!Init
  BY DEF Init, Stream!Init, Empty
<1>2. StreamInv /\ [Next]_vars => [Stream!Next]_(Stream!vars)
  <2> SUFFICES ASSUME StreamInv, [Next]_vars
               PROVE  Stream!Next \/ UNCHANGED Stream!vars
    OBVIOUS
  <2>1. CASE WriteGive
    <3>1. /\ wChunk \in 0..Size /\ wChunk <= getSpaceLength
          /\ given - taken = last - first /\ given \in Nat /\ taken \in Nat
          /\ Size \in Nat
      BY <2>1, ShmStreamAssumption
      DEF StreamInv, TypeOK, HeadInv, WriterInv, WriteGive, wChunk,
          getSpaceLength, Cells
    <3>2. given + wChunk - taken <= Size
      BY <3>1 DEF getSpaceLength, StreamInv, HeadInv, Cells
    <3>3. /\ given' = given + wChunk
          /\ UNCHANGED <<taken, delivered>>
      BY <2>1, <3>1 DEF WriteGive, getSpaceLength, StreamInv, HeadInv, Cells
    <3>4. CASE wChunk = 0
      BY <3>1, <3>3, <3>4 DEF Stream!vars
    <3>5. CASE wChunk # 0
      <4>1. wChunk \in 1..Size
        BY <3>1, <3>5
      <4> QED BY <3>2, <3>3, <4>1 DEF Stream!Next, Stream!Put
    <3> QED BY <3>4, <3>5
  <2>2. CASE ReadTake
    <3>1. /\ rChunk \in 0..Size /\ rChunk <= getDataLength
          /\ given - taken = last - first /\ given \in Nat /\ taken \in Nat
          /\ buf = [i \in 0..(rChunk - 1) |-> taken + i] /\ rpc = "take"
          /\ delivered = [i \in 0..(taken - 1) |-> i]
      BY <2>2, ShmStreamAssumption
      DEF StreamInv, TypeOK, HeadInv, HistoryInv, ReaderInv, ReadTake, rChunk,
          getDataLength, Cells
    <3>2. taken + rChunk <= given
      BY <3>1 DEF getDataLength, StreamInv, HeadInv, Cells
    <3>3. ~(rChunk > getDataLength)
      BY <3>1 DEF getDataLength, StreamInv, HeadInv, Cells
    <3>4. /\ taken' = taken + rChunk /\ UNCHANGED given
          /\ delivered' = [i \in 0..(taken + rChunk - 1) |->
                             IF i < taken THEN delivered[i] ELSE buf[i - taken]]
      BY <2>2, <3>3 DEF ReadTake
    <3>5. delivered' = [i \in 0..(taken + rChunk - 1) |->
                          IF i < taken THEN delivered[i] ELSE i]
      BY <3>1, <3>4
    <3>6. CASE rChunk = 0
      <4>1. taken' = taken
        BY <3>1, <3>4, <3>6
      <4>2. delivered' = delivered
        BY <3>1, <3>5, <3>6
      <4> QED BY <3>4, <4>1, <4>2 DEF Stream!vars
    <3>7. CASE rChunk # 0
      <4>1. rChunk \in 1..Size
        BY <3>1, <3>7, ShmStreamAssumption
      <4> QED BY <3>2, <3>4, <3>5, <4>1 DEF Stream!Next, Stream!Get
    <3> QED BY <3>6, <3>7
  <2>3. CASE ~WriteGive /\ ~ReadTake
    <3>1. UNCHANGED <<given, taken, delivered>>
      BY <2>3
      DEF Next, WriterStep, ReaderStep, vars, history,
          WriteStart, WriteLock, WriteCheck, WriteWait, WriteWake, WriteUnlock,
          WritePtr, WriteCopy, WriteLockNotify, WriteNotify, WriteUnlockNotify,
          ReadStart, PeekStart, ReadLock, ReadCheck, ReadWait, ReadWake,
          ReadUnlock, ReadPtr, ReadCopy, TakeStart, PeekOnly, ReadLockNotify,
          ReadNotify, ReadUnlockNotify, SpuriousWakeup
    <3> QED BY <3>1 DEF Stream!vars
  <2> QED BY <2>1, <2>2, <2>3
<1> QED BY <1>1, <1>2, StreamInvariance, PTL DEF Spec, Stream!Spec,
                                                  ImplementsByteStream
=============================================================================
