----------------------- MODULE TransportLayoutProofs -----------------------
(***************************************************************************)
(* Proofs about TransportLayout, for every length and every offset that is *)
(* a page's, and however wide a size_t is.                                 *)
(***************************************************************************)
EXTENDS TransportLayout, TLAPS

\* A transport has the parts of which its rings, its channels and its region
\* consist, or does not come about: attachShmRegions, of every length.
THEOREM LengthsAccepted ==
  ASSUME NEW length \in Lengths, NEW offset \in Nat, offset % systemPageSize = 0
  PROVE  AttachesDoublePages(offset, length)
<1> DEFINE half == VRB_TAIL_SIZE(length)
           tail == TAIL_SIZE(length)
<1> USE TransportLayoutAssumption DEF systemPageSize
<1>1. /\ tail \in Nat /\ half \in Nat /\ half = tail \div 2
      /\ tail = IF length < 4096 THEN length - 4096 + SizeValues ELSE length - 4096
  BY DEF Lengths, TAIL_SIZE, VRB_TAIL_SIZE
<1>2. Attaches(offset, length)
        <=> length > 0 /\ half % 4096 = 0 /\ half > 0 /\ (4096 + tail) % 4096 = 0
  <2>1. Attaches(offset, length)
          <=> /\ length > 0 /\ half % 4096 = 0 /\ half > 0
              /\ 4096 % 4096 = 0 /\ (4096 + half) % 4096 = 0
              /\ (4096 + tail) % 4096 = 0 /\ (4096 + tail + half) % 4096 = 0
              /\ offset % 4096 = 0 /\ (offset + 4096) % 4096 = 0
              /\ (offset + (4096 + half)) % 4096 = 0
    BY DEF Attaches, Accepted, Mappable, Parts, Part, CC_TAIL, RC_TAIL, FILE_RC
  <2> HIDE DEF half, tail
  <2> QED BY <1>1, <2>1
<1>3. length > 0 /\ half % 4096 = 0 /\ half > 0 /\ (4096 + tail) % 4096 = 0
        <=> length > 4096 /\ (length - 4096) % 8192 = 0
  <2> HIDE DEF half, tail
  <2> QED BY <1>1 DEF Lengths
<1> QED BY <1>2, <1>3 DEF AttachesDoublePages
\* The lengths and parts of a transport that comes about.
LEMMA Numbers ==
  ASSUME NEW length \in Lengths, NEW offset \in Nat, offset % systemPageSize = 0,
         Attaches(offset, length)
  PROVE  /\ VRB_TAIL_SIZE(length) \in Nat \ {0}
         /\ TAIL_SIZE(length) = 2 * VRB_TAIL_SIZE(length)
         /\ length = 4096 + 2 * VRB_TAIL_SIZE(length)
<1>1. length > 4096 /\ (length - 4096) % 8192 = 0
  BY LengthsAccepted DEF AttachesDoublePages, systemPageSize
<1>2. TAIL_SIZE(length) = length - 4096
  BY <1>1 DEF TAIL_SIZE, Lengths, systemPageSize
<1> QED BY <1>1, <1>2 DEF VRB_TAIL_SIZE, Lengths

\* The parts lie side by side, so that an address is in one of them at most.
LEMMA PartsAre ==
  ASSUME NEW length \in Lengths, NEW offset \in Nat, offset % systemPageSize = 0,
         Attaches(offset, length), NEW half, half = VRB_TAIL_SIZE(length)
  PROVE  Parts(offset, length)
           = <<[to |-> 0, offset |-> offset, length |-> 4096],
               [to |-> 4096, offset |-> offset + 4096, length |-> half],
               [to |-> 4096 + half, offset |-> offset + 4096, length |-> half],
               [to |-> 4096 + 2 * half, offset |-> offset + (4096 + half), length |-> half],
               [to |-> 4096 + 2 * half + half, offset |-> offset + (4096 + half), length |-> half]>>
BY Numbers DEF Parts, Part, CC_TAIL, RC_TAIL, FILE_RC, systemPageSize

\* What lies behind an address, by the part that it is in.
LEMMA BehindIs ==
  ASSUME NEW length \in Lengths, NEW offset \in Nat, offset % systemPageSize = 0,
         Attaches(offset, length), NEW half, half = VRB_TAIL_SIZE(length), NEW a \in Nat
  PROVE  /\ a < 4096 + half => Behind(offset, length, a) = {offset + a}
         /\ 4096 + half <= a /\ a < 4096 + 3 * half
              => Behind(offset, length, a) = {offset + (a - half)}
         /\ 4096 + 3 * half <= a /\ a < 4096 + 4 * half
              => Behind(offset, length, a) = {offset + (a - 2 * half)}
         /\ 4096 + 4 * half <= a <=> Behind(offset, length, a) = {}
<1> DEFINE parts == Parts(offset, length)
           in(i) == Covers(parts[i], a)
           byte(i) == parts[i].offset + (a - parts[i].to)
<1>1. half \in Nat \ {0}
  BY Numbers
<1>2. /\ in(1) <=> a < 4096
      /\ in(2) <=> 4096 <= a /\ a < 4096 + half
      /\ in(3) <=> 4096 + half <= a /\ a < 4096 + 2 * half
      /\ in(4) <=> 4096 + 2 * half <= a /\ a < 4096 + 3 * half
      /\ in(5) <=> 4096 + 3 * half <= a /\ a < 4096 + 4 * half
  BY <1>1, PartsAre DEF Covers
<1>3. /\ byte(1) = offset + a /\ byte(2) = offset + a
      /\ byte(3) = offset + (a - half) /\ byte(4) = offset + (a - half)
      /\ byte(5) = offset + (a - 2 * half)
  BY <1>1, PartsAre
<1>4. Behind(offset, length, a) = {byte(i) : i \in {j \in 1..5 : in(j)}}
  BY DEF Behind
<1> HIDE DEF parts, in, byte
<1>5. CASE a < 4096
  <2>1. {j \in 1..5 : in(j)} = {1}
    BY <1>1, <1>2, <1>5
  <2> QED BY <1>1, <1>3, <1>4, <1>5, <2>1
<1>6. CASE 4096 <= a /\ a < 4096 + half
  <2>1. {j \in 1..5 : in(j)} = {2}
    BY <1>1, <1>2, <1>6
  <2> QED BY <1>1, <1>3, <1>4, <1>6, <2>1
<1>7. CASE 4096 + half <= a /\ a < 4096 + 2 * half
  <2>1. {j \in 1..5 : in(j)} = {3}
    BY <1>1, <1>2, <1>7
  <2> QED BY <1>1, <1>3, <1>4, <1>7, <2>1
<1>8. CASE 4096 + 2 * half <= a /\ a < 4096 + 3 * half
  <2>1. {j \in 1..5 : in(j)} = {4}
    BY <1>1, <1>2, <1>8
  <2> QED BY <1>1, <1>3, <1>4, <1>8, <2>1
<1>9. CASE 4096 + 3 * half <= a /\ a < 4096 + 4 * half
  <2>1. {j \in 1..5 : in(j)} = {5}
    BY <1>1, <1>2, <1>9
  <2> QED BY <1>1, <1>3, <1>4, <1>9, <2>1
<1>10. CASE 4096 + 4 * half <= a
  <2>1. {j \in 1..5 : in(j)} = {}
    BY <1>1, <1>2, <1>10
  <2> QED BY <1>1, <1>4, <1>10, <2>1
<1> QED BY <1>1, <1>5, <1>6, <1>7, <1>8, <1>9, <1>10

\* A chunk that wraps round in its ring is one span of addresses: what
\* readFunc, writeFunc and peekFunc rely on, and ShmStream with them.
THEOREM ChunksContiguous ==
  ASSUME NEW length \in Lengths, NEW offset \in Nat, offset % systemPageSize = 0,
         Attaches(offset, length)
  PROVE  RingsDoubled(offset, length)
<1> DEFINE half == VRB_TAIL_SIZE(length)
<1>1. half \in Nat \ {0} /\ TAIL_SIZE(length) = 2 * half
  BY Numbers
<1> SUFFICES ASSUME NEW p \in 0..(2 * half - 1)
             PROVE  /\ Behind(offset, length, CC_TAIL + p)
                         = {offset + CC_TAIL + RingCell(length, p)}
                    /\ Behind(offset, length, RC_TAIL(length) + p)
                         = {offset + FILE_RC(length) + RingCell(length, p)}
  BY DEF RingsDoubled
<1>2. /\ CC_TAIL = 4096 /\ RC_TAIL(length) = 4096 + 2 * half /\ FILE_RC(length) = 4096 + half
      /\ RingCell(length, p) = IF p < half THEN p ELSE p - half
  BY <1>1 DEF CC_TAIL, RC_TAIL, FILE_RC, RingCell, systemPageSize
<1>3. 4096 + p \in Nat /\ 4096 + 2 * half + p \in Nat /\ half = VRB_TAIL_SIZE(length)
  BY <1>1
<1> HIDE DEF half
<1>4. /\ p < half => Behind(offset, length, 4096 + p) = {offset + (4096 + p)}
      /\ p >= half => Behind(offset, length, 4096 + p) = {offset + (4096 + p - half)}
  BY SMTT(30), <1>1, <1>3, BehindIs
<1> DEFINE q == 4096 + 2 * half + p
<1>5. /\ p < half => Behind(offset, length, q) = {offset + (q - half)}
      /\ p >= half => Behind(offset, length, q) = {offset + (q - 2 * half)}
  <2>1. q \in Nat /\ q >= 4096 + half /\ (p < half => q < 4096 + 3 * half)
        /\ (p >= half => q >= 4096 + 3 * half /\ q < 4096 + 4 * half)
    BY <1>1, <1>3
  <2> HIDE DEF q
  <2> QED BY <1>3, <2>1, BehindIs
<1> QED BY <1>1, <1>2, <1>4, <1>5

\* MAP_FIXED replaces nothing of the process, and munmap leaves nothing: the
\* five mappings fill the span that attachShmRegions has reserved.
THEOREM NothingReplaced ==
  ASSUME NEW length \in Lengths, NEW offset \in Nat, offset % systemPageSize = 0,
         Attaches(offset, length)
  PROVE  InReserved(offset, length)
<1> DEFINE half == VRB_TAIL_SIZE(length)
<1>1. half \in Nat \ {0} /\ Reserved(length) = 4096 + 4 * half /\ half = VRB_TAIL_SIZE(length)
  BY Numbers DEF Reserved
<1> SUFFICES ASSUME NEW a \in 0..(Reserved(length) + systemPageSize)
             PROVE  a < Reserved(length) <=> Behind(offset, length, a) # {}
  BY DEF InReserved
<1>2. a \in Nat
  BY <1>1 DEF systemPageSize
<1> HIDE DEF half
<1>3. 4096 + 4 * half <= a <=> Behind(offset, length, a) = {}
  BY <1>1, <1>2, BehindIs
<1> QED BY <1>1, <1>2, <1>3

\* Transports of regions that do not overlap, which the heap manager hands
\* out, share no byte, and the channels of one share none.
THEOREM RegionsKept ==
  ASSUME NEW length \in Lengths, NEW offset \in Nat, offset % systemPageSize = 0,
         Attaches(offset, length)
  PROVE  InRegion(offset, length)
<1> DEFINE half == VRB_TAIL_SIZE(length)
<1>1. half \in Nat \ {0} /\ length = 4096 + 2 * half /\ half = VRB_TAIL_SIZE(length)
  BY Numbers
<1> HIDE DEF half
<1>2. ASSUME NEW i \in 1..5
      PROVE  /\ offset <= Parts(offset, length)[i].offset
             /\ Parts(offset, length)[i].offset + Parts(offset, length)[i].length
                  <= offset + length
  BY <1>1, PartsAre
<1>3. ASSUME NEW i \in {1, 2, 4}, NEW j \in {1, 2, 4}, i < j
      PROVE  Parts(offset, length)[i].offset + Parts(offset, length)[i].length
               <= Parts(offset, length)[j].offset
  BY <1>1, <1>3, PartsAre
<1> QED BY <1>2, <1>3 DEF InRegion
============================================================================
