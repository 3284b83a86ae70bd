-------------------------- MODULE TransportLayout --------------------------
(***************************************************************************)
(* Where attachShmRegions of shm_stream_transport.c maps the parts of a    *)
(* transport: its head, and the ring of each channel twice in a row, so    *)
(* that a chunk that wraps round is one span of addresses.  ShmStream      *)
(* takes that for granted, of a ring of VRB_TAIL_SIZE cells.               *)
(*                                                                         *)
(* Addresses count from the base that mmap reserves, which is a page's.    *)
(* Sizes are of type size_t: a difference below zero wraps round.          *)
(***************************************************************************)
EXTENDS Integers

CONSTANT SizeValues     \* how many values a size_t has: 2^64

systemPageSize == 4096

ASSUME TransportLayoutAssumption ==
    SizeValues \in Nat \ {0} /\ SizeValues % (2 * systemPageSize) = 0

Lengths == 0..(SizeValues - 1)

TAIL_SIZE(length) ==
    IF length < systemPageSize THEN length - systemPageSize + SizeValues
    ELSE length - systemPageSize

VRB_TAIL_SIZE(length) == TAIL_SIZE(length) \div 2

\* Addresses, and offsets in the file, of the rings.
CC_TAIL         == systemPageSize
RC_TAIL(length) == systemPageSize + TAIL_SIZE(length)
FILE_RC(length) == systemPageSize + VRB_TAIL_SIZE(length)

\* What gvAttachShm maps: bytes of the file, to addresses.
Part(to, offset, length) == [to |-> to, offset |-> offset, length |-> length]

\* The five calls, in their order.
Parts(offset, length) ==
    LET half == VRB_TAIL_SIZE(length)
    IN  <<Part(0, offset, systemPageSize),
          Part(CC_TAIL, offset + CC_TAIL, half),
          Part(CC_TAIL + half, offset + CC_TAIL, half),
          Part(RC_TAIL(length), offset + FILE_RC(length), half),
          Part(RC_TAIL(length) + half, offset + FILE_RC(length), half)>>

\* What attachShmRegions reserves, and gvDestroyShmStreamTransport unmaps.
Reserved(length) == length + TAIL_SIZE(length)

\* The test of gvCreateShmStreamTransport, for what its comment says: the half
\* of the tail is a positive number of pages.
Accepted(length) == length > 0 /\ VRB_TAIL_SIZE(length) % systemPageSize = 0

\* mmap maps whole pages, one at least.
Mappable(part) ==
    /\ part.length > 0
    /\ part.to % systemPageSize = 0 /\ part.offset % systemPageSize = 0

\* Whether a transport comes about, as far as its sizes go.
Attaches(offset, length) ==
    Accepted(length) /\ \A i \in 1..5 : Mappable(Parts(offset, length)[i])

Covers(part, a) == part.to <= a /\ a < part.to + part.length

\* The bytes of the file that some part maps to address a.
Behind(offset, length, a) ==
    {Parts(offset, length)[i].offset + (a - Parts(offset, length)[i].to) :
        i \in {j \in 1..5 : Covers(Parts(offset, length)[j], a)}}

\* The cell behind the p-th address of a doubled ring (Cell of ShmStream).
RingCell(length, p) ==
    IF p < VRB_TAIL_SIZE(length) THEN p ELSE p - VRB_TAIL_SIZE(length)

-----------------------------------------------------------------------------
(* What a transport needs of its layout.                                   *)

\* A transport comes about just for the lengths that the comment allows,
\* though the test admits more: it takes the half, which forgets a bit, and
\* no pages at all.
AttachesDoublePages(offset, length) ==
    Attaches(offset, length)
    <=> length > systemPageSize /\ (length - systemPageSize) % (2 * systemPageSize) = 0

\* Every address of the doubled rings has one byte of the file behind it, the
\* cell that ShmStream expects.
RingsDoubled(offset, length) ==
    \A p \in 0..(2 * VRB_TAIL_SIZE(length) - 1) :
        /\ Behind(offset, length, CC_TAIL + p)
             = {offset + CC_TAIL + RingCell(length, p)}
        /\ Behind(offset, length, RC_TAIL(length) + p)
             = {offset + FILE_RC(length) + RingCell(length, p)}

\* The parts fill what is reserved and go nowhere beyond, where MAP_FIXED
\* would replace what the process has mapped there.
InReserved(offset, length) ==
    \A a \in 0..(Reserved(length) + systemPageSize) :
        a < Reserved(length) <=> Behind(offset, length, a) # {}

\* They use the bytes of their region of the file and no others, and head,
\* call channel and return channel (parts 1, 2 and 4) share none.
InRegion(offset, length) ==
    /\ \A i \in 1..5 : LET part == Parts(offset, length)[i]
                       IN  /\ offset <= part.offset
                           /\ part.offset + part.length <= offset + length
    /\ \A i, j \in {1, 2, 4} :
         i < j => Parts(offset, length)[i].offset + Parts(offset, length)[i].length
                    <= Parts(offset, length)[j].offset
=============================================================================
