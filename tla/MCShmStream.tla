---------------------------- MODULE MCShmStream ----------------------------
(* Instances of ShmStream for TLC: a ring small enough to fill, wrap around *)
(* and be crossed by a message longer than itself.  What TransportLayout    *)
(* says of the rings' mappings TLC evaluates before it starts.              *)
EXTENDS ShmStream, TransportLayout

\* Nothing, one byte at a time, and more than the ring holds; peeks at one byte
\* and at a full ring.
MCWriteLengths == {0, 1, Size + 1}
MCReadLengths  == {0, 1, Size + 1}
MCPeekLengths  == {1, Size}

\* Around every number of pages up to six, and what wraps round below one.
MCTransportLengths ==
    {k * systemPageSize + d : k \in 0..6, d \in {-2, -1, 0, 1, 2}} \cap Lengths

ASSUME LayoutEvaluated ==
    \A length \in MCTransportLengths, offset \in {0, systemPageSize} :
        /\ AttachesDoublePages(offset, length)
        /\ Attaches(offset, length) =>
             /\ RingsDoubled(offset, length)
             /\ InReserved(offset, length) /\ InRegion(offset, length)
=============================================================================
