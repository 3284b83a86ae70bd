----------------------------- MODULE ByteStream -----------------------------
(***************************************************************************)
(* What one channel of the transport promises to the serializers: a        *)
(* bounded, reliable byte stream.  The bytes handed to write are numbered  *)
(* 0, 1, 2, ... and byte i carries the value i, so that a lost, repeated,  *)
(* reordered or overwritten byte shows.  Nothing is said of locks, chunks, *)
(* pointers or waiting: those belong to ShmStream, which implements this.  *)
(***************************************************************************)
EXTENDS Integers

CONSTANT Capacity     \* how many bytes may be in the channel at a time: >= 1

VARIABLES
    put,              \* number of bytes the channel has accepted
    got,              \* number of bytes the receiver has consumed
    out               \* out[i], for i < got: byte i as the receiver saw it

vars == <<put, got, out>>

Init ==
    /\ put = 0
    /\ got = 0
    /\ out = [i \in 0..(-1) |-> 0]

\* The sender's next n bytes enter the channel, which has room for them.
Put(n) ==
    /\ put + n - got <= Capacity
    /\ put' = put + n
    /\ UNCHANGED <<got, out>>

\* The receiver consumes the n oldest bytes, which are in the channel.
Get(n) ==
    /\ got + n <= put
    /\ got' = got + n
    /\ out' = [i \in 0..(got + n - 1) |-> IF i < got THEN out[i] ELSE i]
    /\ UNCHANGED put

Next == \E n \in 1..Capacity : Put(n) \/ Get(n)

Spec == Init /\ [][Next]_vars
=============================================================================
